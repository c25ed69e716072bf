------------------------------- MODULE Buffers -------------------------------
(* Reading from a buffer (src/common/buffer.c, read.c) and BIP32 paths       *)
(* (src/common/bip32.c).                                                     *)
(*                                                                           *)
(* A buffer is its bytes and an offset.  Each operation returns the buffer   *)
(* as it leaves it, whether it succeeded, and what it read.  An unsigned     *)
(* integer is its bytes, most significant first, whatever its width.         *)
EXTENDS Integers, Sequences, SequencesExt

CONSTANT SizeMod   \* values of a size_t

ASSUME SizeModAssumption == SizeMod \in Nat \ {0}

Byte == 0..255

\* A buffer that holds bytes, at its beginning.
Fresh(bytes) == [ptr |-> bytes, offset |-> 0]

Size(b) == Len(b.ptr)
Left(b) == Size(b) - b.offset
LeftBytes(b) == SubSeq(b.ptr, b.offset + 1, Size(b))

\* The size of a buffer is a size_t, and the cursor is within the buffer.
Buffer == {b \in [ptr : Seq(Byte), offset : Nat] : b.offset <= Size(b) /\ Size(b) < SizeMod}
Sizes == 0..(SizeMod - 1)

Fails(b) == [ok |-> FALSE, buf |-> b, value |-> <<>>]
Seek(b, offset) == [ok |-> TRUE, buf |-> [b EXCEPT !.offset = offset], value |-> <<>>]

-----------------------------------------------------------------------------
(* The cursor.                                                              *)

buffer_can_read(b, n) == Left(b) >= n

buffer_seek_set(b, offset) == IF offset > Size(b) THEN Fails(b) ELSE Seek(b, offset)

\* Mutant: the sum may wrap around.
SeekCurWraps(b, offset) == LET sum == (b.offset + offset) % SizeMod
                           IN IF sum > Size(b) THEN Fails(b) ELSE Seek(b, sum)

buffer_seek_cur(b, offset) ==
  LET sum == (b.offset + offset) % SizeMod
  IN IF sum < b.offset \/ sum > Size(b) THEN Fails(b) ELSE Seek(b, sum)

buffer_seek_end(b, offset) == IF offset > Size(b) THEN Fails(b) ELSE Seek(b, Size(b) - offset)

\* The next n bytes, and the buffer past them.
Take(b, n) == IF buffer_can_read(b, n)
              THEN [buffer_seek_cur(b, n) EXCEPT
                      !.value = SubSeq(b.ptr, b.offset + 1, b.offset + n)]
              ELSE Fails(b)

\* buffer_read_u8, u16, u32 and u64: n bytes in either order.
ReadInt(b, n, endianness) ==
  LET r == Take(b, n)
  IN IF endianness = "BE" THEN r ELSE [r EXCEPT !.value = Reverse(@)]

U8(b) == ReadInt(b, 1, "BE")
U16(b) == ReadInt(b, 2, "BE")

buffer_read_bytes(b, out_len, len) == IF len > out_len THEN Fails(b) ELSE Take(b, len)

\* What is left of the buffer is copied, and the cursor stays.
buffer_copy(b, out_len) == IF Left(b) > out_len
                           THEN Fails(b)
                           ELSE [ok |-> TRUE, buf |-> b, value |-> LeftBytes(b)]

\* The cursor moves by the size of the destination, if it can.
buffer_move(b, out_len) == IF buffer_copy(b, out_len).ok
                           THEN [buffer_copy(b, out_len) EXCEPT
                                   !.buf = buffer_seek_cur(b, out_len).buf]
                           ELSE Fails(b)

-----------------------------------------------------------------------------
(* Small integers, and paths.                                               *)

\* The number that bytes stand for, when it is small enough.
Number(bytes) == LET n[i \in 0..Len(bytes)] == IF i = 0 THEN 0 ELSE 256 * n[i - 1] + bytes[i]
                 IN n[Len(bytes)]

MAX_BIP32_PATH == 5
MAX_DERIVATION_INDEX == 1048576   \* 1 << 20

Hardened(n) == n[1] >= 128
AtMost(n, max) == ~Hardened(n) /\ Number(n) <= max

\* The change level is 0 or 1, the index level is not hardened and limited;
\* the operating system checks the others.
Accepted(path) == /\ Len(path) > 4 => AtMost(path[5], MAX_DERIVATION_INDEX)
                  /\ Len(path) > 3 => AtMost(path[4], 1)

\* bip32_path_read: a byte of length, then four bytes for each level.
bip32_path_read(bytes) ==
  IF \/ Len(bytes) < 1
     \/ bytes[1] > MAX_BIP32_PATH
     \/ 4 * bytes[1] + 1 > Len(bytes)
  THEN [ok |-> FALSE, path |-> <<>>]
  ELSE LET path == [i \in 1..bytes[1] |-> SubSeq(bytes, 4 * i - 2, 4 * i + 1)]
       IN [ok |-> Accepted(path), path |-> path]

buffer_read_bip32_path(b) ==
  LET r == bip32_path_read(LeftBytes(b))
  IN IF ~r.ok THEN Fails(b)
     ELSE [buffer_seek_cur(b, 1 + 4 * Len(r.path)) EXCEPT !.value = r.path]

-----------------------------------------------------------------------------
(* What the cursor is for.                                                  *)

\* The cursor never leaves the buffer, whatever is asked for; an operation
\* succeeds exactly when what it needs is there, then it has read and passed
\* exactly that, and otherwise it changes nothing.
CursorKept(b, out_len, n) ==
  LET Kept(r) == r.buf.ptr = b.ptr /\ r.buf.offset \in 0..Size(b) /\ (~r.ok => r.buf = b)
      seek == buffer_seek_cur(b, n)
      read == ReadInt(b, n, "LE")
  IN /\ Kept(buffer_seek_set(b, n)) /\ Kept(buffer_seek_end(b, n)) /\ Kept(seek)
     /\ Kept(buffer_read_bytes(b, out_len, n)) /\ Kept(ReadInt(b, n, "BE"))
     /\ Kept(buffer_copy(b, n)) /\ Kept(buffer_move(b, n))
     /\ seek.ok <=> n <= Left(b)
     /\ seek.ok => seek.buf.offset = b.offset + n
     /\ read.ok <=> n <= Left(b)
     /\ read.ok => Reverse(read.value) \o LeftBytes(read.buf) = LeftBytes(b)
     /\ buffer_copy(b, n).ok <=> LeftBytes(b) = buffer_copy(b, n).value /\ Left(b) <= n

===============================================================================
