---------------------------- MODULE ParsersProofs ----------------------------
(* Proofs about Buffers and Parsers, for buffers of any bytes and any length: *)
(* the cursor stays within its buffer, the fields of a token and of a header  *)
(* are the bytes that were sent, and what was decided about an output does    *)
(* not change when more bytes arrive.                                         *)
EXTENDS HostBytes, SequenceTheorems, TLAPS

\* The cursor n bytes further.
Passed(b, n) == [b EXCEPT !.offset = b.offset + n]

-----------------------------------------------------------------------------
(* The cursor.                                                               *)

\* A sum of two sizes wraps around at most once.
LEMMA WrappedSum ==
  ASSUME NEW a \in Sizes, NEW n \in Sizes
  PROVE  (a + n) % SizeMod = IF a + n < SizeMod THEN a + n ELSE a + n - SizeMod
<1>1. SizeMod \in Nat /\ SizeMod > 0
  BY SizeModAssumption
<1>2. CASE a + n < SizeMod
  BY <1>1, <1>2 DEF Sizes
<1>3. CASE a + n >= SizeMod
  BY <1>1, <1>3 DEF Sizes
<1> QED BY <1>1, <1>2, <1>3 DEF Sizes

\* A buffer, field by field.
LEMMA BufferFields ==
  ASSUME NEW b \in Buffer
  PROVE  /\ b.ptr \in Seq(Byte) /\ b.offset \in Nat /\ b = [ptr |-> b.ptr, offset |-> b.offset]
         /\ Size(b) = Len(b.ptr) /\ Size(b) \in Sizes /\ b.offset \in 0..Size(b)
         /\ Left(b) = Size(b) - b.offset /\ Left(b) \in 0..Size(b)
<1>1. b.ptr \in Seq(Byte) /\ b.offset \in Nat /\ b = [ptr |-> b.ptr, offset |-> b.offset]
  BY DEF Buffer
<1>2. Len(b.ptr) \in Nat /\ b.offset <= Len(b.ptr) /\ Len(b.ptr) < SizeMod
  BY <1>1, LenProperties DEF Buffer, Size
<1> QED BY <1>1, <1>2, SizeModAssumption DEF Size, Left, Sizes

\* Where a seek within the buffer leads.
LEMMA SeekType ==
  ASSUME NEW b \in Buffer, NEW offset \in 0..Size(b)
  PROVE  /\ Seek(b, offset).ok /\ Seek(b, offset).value = <<>>
         /\ Seek(b, offset).buf \in Buffer
         /\ Seek(b, offset).buf.ptr = b.ptr /\ Seek(b, offset).buf.offset = offset
<1>1. /\ Seek(b, offset).ok /\ Seek(b, offset).value = <<>>
      /\ Seek(b, offset).buf = [ptr |-> b.ptr, offset |-> offset]
  BY BufferFields DEF Seek
<1>2. [ptr |-> b.ptr, offset |-> offset] \in Buffer
  BY BufferFields, SizeModAssumption DEF Buffer, Size, Sizes
<1> QED BY <1>1, <1>2

\* The sum of cursor and distance wraps around exactly when it is too large
\* anyway (buffer.c:17-23).
LEMMA SeekCurIs ==
  ASSUME NEW b \in Buffer, NEW n \in Sizes
  PROVE  buffer_seek_cur(b, n) = IF n <= Left(b) THEN Seek(b, b.offset + n) ELSE Fails(b)
<1> DEFINE sum == (b.offset + n) % SizeMod
<1>1. /\ b.offset \in Sizes /\ b.offset \in 0..Size(b) /\ Size(b) \in Sizes
      /\ Left(b) = Size(b) - b.offset /\ SizeMod \in Nat
  BY BufferFields, SizeModAssumption DEF Sizes
<1>2. sum = IF b.offset + n < SizeMod THEN b.offset + n ELSE b.offset + n - SizeMod
  BY <1>1, WrappedSum
<1>3. buffer_seek_cur(b, n) =
        IF sum < b.offset \/ sum > Size(b) THEN Fails(b) ELSE Seek(b, sum)
  BY DEF buffer_seek_cur
<1> HIDE DEF sum
<1>4. CASE n <= Left(b)
  BY <1>1, <1>2, <1>3, <1>4 DEF Sizes
<1>5. CASE ~(n <= Left(b))
  <2>1. sum < b.offset \/ sum > Size(b)
    BY <1>1, <1>2, <1>5 DEF Sizes
  <2> QED BY <1>3, <1>5, <2>1
<1> QED BY <1>4, <1>5

\* What a read returns.
LEMMA TakeIs ==
  ASSUME NEW b \in Buffer, NEW n \in Sizes
  PROVE  Take(b, n) = IF n <= Left(b)
                      THEN [ok |-> TRUE, buf |-> Passed(b, n),
                            value |-> SubSeq(b.ptr, b.offset + 1, b.offset + n)]
                      ELSE Fails(b)
<1>1. Left(b) \in Nat /\ n \in Nat
  BY BufferFields DEF Sizes
<1>2. CASE n <= Left(b)
  <2>1. Take(b, n) = [Seek(b, b.offset + n) EXCEPT
                        !.value = SubSeq(b.ptr, b.offset + 1, b.offset + n)]
    BY <1>1, <1>2, SeekCurIs DEF Take, buffer_can_read
  <2> QED BY <1>2, <2>1 DEF Seek, Passed
<1>3. CASE ~(n <= Left(b))
  BY <1>1, <1>3 DEF Take, buffer_can_read
<1> QED BY <1>2, <1>3

\* A read takes the bytes it returns off those that are left.
LEMMA PassedBytes ==
  ASSUME NEW b \in Buffer, NEW n \in 0..Left(b)
  PROVE  /\ Passed(b, n) \in Buffer
         /\ Passed(b, n).ptr = b.ptr /\ Passed(b, n).offset = b.offset + n
         /\ SubSeq(b.ptr, b.offset + 1, b.offset + n) \in Seq(Byte)
         /\ Len(SubSeq(b.ptr, b.offset + 1, b.offset + n)) = n
         /\ LeftBytes(b) = SubSeq(b.ptr, b.offset + 1, b.offset + n) \o LeftBytes(Passed(b, n))
<1>1. /\ b.offset \in 0..Size(b) /\ Size(b) \in Nat /\ Left(b) = Size(b) - b.offset
      /\ b.ptr \in Seq(Byte) /\ Size(b) = Len(b.ptr) /\ n \in Nat /\ b.offset + n <= Size(b)
  BY BufferFields DEF Sizes
<1>2. /\ Passed(b, n) \in Buffer
      /\ Passed(b, n).ptr = b.ptr /\ Passed(b, n).offset = b.offset + n
  <2>1. Passed(b, n) = Seek(b, b.offset + n).buf
    BY DEF Passed, Seek
  <2> QED BY <1>1, <2>1, SeekType
<1>3. /\ SubSeq(b.ptr, b.offset + 1, b.offset + n) \in Seq(Byte)
      /\ Len(SubSeq(b.ptr, b.offset + 1, b.offset + n)) = n
  BY <1>1, SubSeqProperties
<1>4. SubSeq(b.ptr, b.offset + 1, b.offset + n) \o SubSeq(b.ptr, b.offset + n + 1, Size(b))
        = SubSeq(b.ptr, b.offset + 1, Size(b))
  <2> DEFINE m == b.offset + 1
             k == b.offset + n
             l == Size(b)
  <2>1. /\ m \in 1..(Len(b.ptr) + 1) /\ k \in (m - 1)..Len(b.ptr) /\ l \in k..Len(b.ptr)
        /\ b.ptr \in Seq(Byte)
    BY <1>1
  <2> HIDE DEF m, k, l
  <2>2. SubSeq(b.ptr, m, k) \o SubSeq(b.ptr, k + 1, l) = SubSeq(b.ptr, m, l)
    BY <2>1, ConcatAdjacentSubSeq
  <2> QED BY <2>2 DEF m, k, l
<1> QED BY <1>1, <1>2, <1>3, <1>4 DEF LeftBytes, Size

\* A read, as a relation of what is left before and after it.
Reads(b, r, n) == /\ r.ok /\ r.buf \in Buffer /\ r.buf.ptr = b.ptr
                  /\ r.buf.offset = b.offset + n
                  /\ r.value \in Seq(Byte) /\ Len(r.value) = n
                  /\ LeftBytes(b) = r.value \o LeftBytes(r.buf)

\* A read succeeds exactly when the bytes are there, and moves past them.
LEMMA TakeReads ==
  ASSUME NEW b \in Buffer, NEW n \in Nat
  PROVE  /\ n <= Left(b) => Reads(b, Take(b, n), n)
         /\ ~(n <= Left(b)) => Take(b, n) = Fails(b)
<1> DEFINE v == SubSeq(b.ptr, b.offset + 1, b.offset + n)
           p == Passed(b, n)
<1>1. CASE n <= Left(b)
  <2>1. n \in 0..Left(b) /\ n \in Sizes
    BY <1>1, BufferFields, SizeModAssumption DEF Sizes
  <2>2. Take(b, n) = [ok |-> TRUE, buf |-> p, value |-> v]
    BY <1>1, <2>1, TakeIs
  <2>3. /\ p \in Buffer /\ p.ptr = b.ptr /\ p.offset = b.offset + n
        /\ v \in Seq(Byte) /\ Len(v) = n /\ LeftBytes(b) = v \o LeftBytes(p)
    BY <2>1, PassedBytes
  <2> HIDE DEF p, v
  <2>4. Take(b, n).ok /\ Take(b, n).buf = p /\ Take(b, n).value = v
    BY <2>2
  <2> QED BY <1>1, <2>3, <2>4 DEF Reads
<1>2. CASE ~(n <= Left(b))
  BY <1>2 DEF Take, buffer_can_read, Left
<1> QED BY <1>1, <1>2

\* The same bytes in either order.
LEMMA ReverseTwice ==
  ASSUME NEW s \in Seq(Byte)
  PROVE  /\ Reverse(s) \in Seq(Byte) /\ Len(Reverse(s)) = Len(s)
         /\ Reverse(Reverse(s)) = s
<1>1. /\ Len(s) \in Nat
      /\ \A i \in 1..Len(s) : Len(s) - i + 1 \in 1..Len(s) /\ s[i] \in Byte
  BY LenProperties, ElementOfSeq
<1>2. Reverse(s) = [i \in 1..Len(s) |-> s[(Len(s) - i) + 1]]
  BY DEF Reverse
<1>3. /\ Reverse(s) \in Seq(Byte) /\ Len(Reverse(s)) = Len(s)
      /\ \A i \in 1..Len(s) : Reverse(s)[i] = s[(Len(s) - i) + 1]
  BY <1>1, <1>2, IsASeq
<1>4. Reverse(Reverse(s)) = [i \in 1..Len(s) |-> Reverse(s)[(Len(s) - i) + 1]]
  BY <1>3 DEF Reverse
<1>5. \A i \in 1..Len(s) : Reverse(s)[(Len(s) - i) + 1] = s[i]
  <2>1. SUFFICES ASSUME NEW i \in 1..Len(s) PROVE Reverse(s)[(Len(s) - i) + 1] = s[i]
    OBVIOUS
  <2>2. (Len(s) - ((Len(s) - i) + 1)) + 1 = i /\ (Len(s) - i) + 1 \in 1..Len(s)
    BY <1>1
  <2> QED BY <1>3, <2>2
<1>6. Reverse(Reverse(s)) = [i \in 1..Len(s) |-> s[i]]
  BY <1>4, <1>5
<1>7. s = [i \in 1..Len(s) |-> s[i]]
  BY <1>1
<1> QED BY <1>3, <1>6, <1>7

\* An operation that succeeds leaves the cursor within the same bytes; one that
\* fails leaves the buffer as it was.
Within(b, r) == /\ r.buf \in Buffer /\ r.buf.ptr = b.ptr
                /\ ~r.ok => r.buf = b

\* An integer, in either order of its bytes.
LEMMA ReadIntReads ==
  ASSUME NEW b \in Buffer, NEW n \in Nat, NEW endianness \in {"BE", "LE"}
  PROVE  LET r == ReadInt(b, n, endianness)
             value == IF endianness = "BE" THEN r.value ELSE Reverse(r.value)
         IN /\ r.ok <=> n <= Left(b)
            /\ Within(b, r)
            /\ r.ok => /\ r.buf.offset = b.offset + n
                       /\ LeftBytes(b) = value \o LeftBytes(r.buf)
<1> DEFINE t == Take(b, n)
           r == ReadInt(b, n, endianness)
<1>1. /\ n <= Left(b) => Reads(b, t, n)
      /\ ~(n <= Left(b)) => t = Fails(b)
  BY TakeReads
<1>2. r = IF endianness = "BE" THEN t ELSE [t EXCEPT !.value = Reverse(t.value)]
  BY DEF ReadInt
<1>3. t = [ok |-> t.ok, buf |-> t.buf, value |-> t.value]
  BY DEF Take, Fails, buffer_seek_cur, Seek
<1>4. /\ Fails(b).buf = b /\ ~Fails(b).ok
  BY DEF Fails
<1> HIDE DEF t, r
<1>5. /\ r.ok = t.ok /\ r.buf = t.buf
      /\ r.value = IF endianness = "BE" THEN t.value ELSE Reverse(t.value)
  BY <1>2, <1>3
<1>6. t.value \in Seq(Byte) => Reverse(Reverse(t.value)) = t.value
  BY ReverseTwice
<1>7. CASE n <= Left(b)
  BY <1>1, <1>5, <1>6, <1>7 DEF Reads, Within, r
<1>8. CASE ~(n <= Left(b))
  BY <1>1, <1>4, <1>5, <1>8 DEF Within, r
<1> QED BY <1>7, <1>8

\* The seeks keep the cursor in the buffer, or change nothing.
LEMMA SeekWithin ==
  ASSUME NEW b \in Buffer, NEW n \in Sizes
  PROVE  /\ Within(b, buffer_seek_set(b, n))
         /\ Within(b, buffer_seek_end(b, n))
         /\ Within(b, buffer_seek_cur(b, n))
         /\ buffer_seek_cur(b, n).ok <=> n <= Left(b)
         /\ buffer_seek_cur(b, n).ok => buffer_seek_cur(b, n).buf.offset = b.offset + n
<1>1. /\ b.offset \in 0..Size(b) /\ Size(b) \in Nat /\ n \in Nat /\ Left(b) = Size(b) - b.offset
  BY BufferFields DEF Sizes
<1>2. Within(b, Fails(b)) /\ ~Fails(b).ok
  BY DEF Within, Fails
<1>3. \A offset \in 0..Size(b) : /\ Within(b, Seek(b, offset)) /\ Seek(b, offset).ok
                                 /\ Seek(b, offset).buf.offset = offset
  BY SeekType DEF Within
<1>4. Within(b, buffer_seek_set(b, n))
  BY <1>1, <1>2, <1>3 DEF buffer_seek_set
<1>5. Within(b, buffer_seek_end(b, n))
  BY <1>1, <1>2, <1>3 DEF buffer_seek_end
<1>6. CASE n <= Left(b)
  <2>1. b.offset + n \in 0..Size(b)
    BY <1>1, <1>6
  <2>2. buffer_seek_cur(b, n) = Seek(b, b.offset + n)
    BY <1>6, SeekCurIs
  <2> QED BY <1>3, <1>4, <1>5, <1>6, <2>1, <2>2
<1>7. CASE ~(n <= Left(b))
  BY <1>2, <1>4, <1>5, <1>7, SeekCurIs
<1> QED BY <1>6, <1>7

\* So do the copies.
LEMMA CopyWithin ==
  ASSUME NEW b \in Buffer, NEW n \in Sizes, NEW out_len \in Sizes
  PROVE  /\ Within(b, buffer_read_bytes(b, out_len, n))
         /\ Within(b, buffer_copy(b, n))
         /\ buffer_copy(b, n).ok <=> LeftBytes(b) = buffer_copy(b, n).value /\ Left(b) <= n
         /\ Within(b, buffer_move(b, n))
<1>1. Within(b, Fails(b)) /\ ~Fails(b).ok
  BY DEF Within, Fails
<1>2. n \in Nat /\ out_len \in Nat /\ Left(b) \in Nat
  BY BufferFields DEF Sizes
<1>3. Within(b, buffer_read_bytes(b, out_len, n))
  <2>1. Within(b, Take(b, n))
    BY <1>1, <1>2, TakeReads DEF Reads, Within
  <2> QED BY <1>1, <2>1 DEF buffer_read_bytes
<1>4. /\ Within(b, buffer_copy(b, n))
      /\ buffer_copy(b, n).ok <=> LeftBytes(b) = buffer_copy(b, n).value /\ Left(b) <= n
      /\ buffer_copy(b, n).ok <=> Left(b) <= n
  <2> DEFINE copied == [ok |-> TRUE, buf |-> b, value |-> LeftBytes(b)]
  <2>1. Within(b, copied) /\ copied.ok /\ copied.value = LeftBytes(b)
    BY DEF Within
  <2>2. buffer_copy(b, n) = IF Left(b) > n THEN Fails(b) ELSE copied
    BY DEF buffer_copy
  <2> HIDE DEF copied
  <2> QED BY <1>1, <1>2, <2>1, <2>2
<1>5. Within(b, buffer_move(b, n))
  <2>1. CASE Left(b) <= n
    <3> DEFINE c == buffer_seek_cur(b, n).buf
               v == LeftBytes(b)
    <3>1. c \in Buffer /\ c.ptr = b.ptr
      BY SeekWithin DEF Within
    <3>2. buffer_copy(b, n) = [ok |-> TRUE, buf |-> b, value |-> v]
      BY <1>2, <2>1 DEF buffer_copy
    <3>3. buffer_move(b, n) = [buffer_copy(b, n) EXCEPT !.buf = c]
      BY <1>4, <2>1 DEF buffer_move
    <3> HIDE DEF c, v
    <3>4. buffer_move(b, n).ok /\ buffer_move(b, n).buf = c
      BY <3>2, <3>3
    <3> QED BY <3>1, <3>4 DEF Within
  <2>2. CASE ~(Left(b) <= n)
    BY <1>1, <1>4, <2>2 DEF buffer_move
  <2> QED BY <2>1, <2>2
<1> QED BY <1>3, <1>4, <1>5

-----------------------------------------------------------------------------
\* Whatever is asked of a buffer, near the end of the range of size_t too, the
\* cursor stays within the same bytes; a read or a seek succeeds exactly when
\* what it needs is there, then it has passed exactly what it read, and
\* otherwise it changes nothing (buffer.c:7-161).
THEOREM CursorStaysEverywhere ==
  ASSUME NEW b \in Buffer, NEW n \in Sizes, NEW out_len \in Sizes
  PROVE  CursorKept(b, out_len, n)
<1>1. \A r : Within(b, r) => /\ r.buf.ptr = b.ptr /\ r.buf.offset \in 0..Size(b)
                             /\ ~r.ok => r.buf = b
  <2>1. SUFFICES ASSUME NEW r, Within(b, r)
                 PROVE  r.buf.ptr = b.ptr /\ r.buf.offset \in 0..Size(b)
    BY DEF Within
  <2>2. r.buf.ptr = b.ptr /\ r.buf.offset \in 0..Size(r.buf)
    BY <2>1, BufferFields DEF Within
  <2> QED BY <2>2 DEF Size
<1>2. n \in Nat
  BY SizeModAssumption DEF Sizes
<1>3. /\ Within(b, ReadInt(b, n, "BE"))
      /\ ReadInt(b, n, "LE").ok <=> n <= Left(b)
      /\ ReadInt(b, n, "LE").ok =>
           Reverse(ReadInt(b, n, "LE").value) \o LeftBytes(ReadInt(b, n, "LE").buf) = LeftBytes(b)
  <2>1. Within(b, ReadInt(b, n, "BE"))
    BY <1>2, ReadIntReads
  <2>2. /\ ReadInt(b, n, "LE").ok <=> n <= Left(b)
        /\ ReadInt(b, n, "LE").ok =>
             LeftBytes(b) = Reverse(ReadInt(b, n, "LE").value) \o LeftBytes(ReadInt(b, n, "LE").buf)
    BY <1>2, ReadIntReads
  <2> QED BY <2>1, <2>2
<1> QED BY <1>1, <1>3, SeekWithin, CopyWithin, Zenon DEF CursorKept

-----------------------------------------------------------------------------
(* Tokens and headers: what is read is what was there.                       *)

\* One byte.
LEMMA U8Reads ==
  ASSUME NEW b \in Buffer, U8(b).ok
  PROVE  /\ U8(b).buf \in Buffer
         /\ U8(b).value[1] \in Byte /\ U8(b).value = <<U8(b).value[1]>>
         /\ LeftBytes(b) = <<U8(b).value[1]>> \o LeftBytes(U8(b).buf)
<1>1. U8(b) = Take(b, 1)
  BY DEF U8, ReadInt
<1>2. Reads(b, Take(b, 1), 1)
  BY <1>1, TakeReads DEF Fails
<1> DEFINE v == Take(b, 1).value
<1>3. v \in Seq(Byte) /\ Len(v) = 1
  BY <1>2 DEF Reads
<1> HIDE DEF v
<1>4. v[1] \in Byte /\ v = <<v[1]>>
  <2>1. v[1] \in Byte
    BY <1>3, ElementOfSeq
  <2>2. <<v[1]>> \in Seq(Byte) /\ Len(<<v[1]>>) = 1 /\ <<v[1]>>[1] = v[1]
    BY <2>1
  <2>3. \A i \in 1..Len(v) : v[i] = <<v[1]>>[i]
    BY <1>3, <2>2
  <2> QED BY <1>3, <2>1, <2>2, <2>3, SeqEqual
<1> QED BY <1>1, <1>2, <1>4 DEF Reads, v

\* At most out_len bytes.
LEMMA BytesRead ==
  ASSUME NEW b \in Buffer, NEW out_len, NEW n \in Nat, buffer_read_bytes(b, out_len, n).ok
  PROVE  ~(n > out_len) /\ Reads(b, buffer_read_bytes(b, out_len, n), n)
BY TakeReads DEF buffer_read_bytes, Fails

\* A text with its length in front.
LEMMA TextReads ==
  ASSUME NEW b \in Buffer, NEW max \in Nat, Text(b, max).ok
  PROVE  LET r == Text(b, max)
         IN /\ r.buf \in Buffer /\ r.value \in Seq(Byte) /\ Len(r.value) <= max
            /\ LeftBytes(b) = <<Len(r.value)>> \o (r.value \o LeftBytes(r.buf))
<1> DEFINE after == U8(b).buf
           n == U8(b).value[1]
           r == Text(b, max)
<1>1. U8(b).ok
  BY DEF Text
<1>2. after \in Buffer /\ n \in Byte /\ LeftBytes(b) = <<n>> \o LeftBytes(after)
  BY <1>1, U8Reads
<1>3. r = buffer_read_bytes(after, max, n) /\ r.ok
  BY <1>1 DEF Text
<1> HIDE DEF after, n, r
<1>4. n \in Nat
  BY <1>2 DEF Byte
<1>5. ~(n > max) /\ Reads(after, r, n)
  BY <1>2, <1>3, <1>4, BytesRead
<1>6. /\ r.buf \in Buffer /\ r.value \in Seq(Byte) /\ Len(r.value) = n
      /\ LeftBytes(after) = r.value \o LeftBytes(r.buf)
  BY <1>5 DEF Reads
<1>7. Len(r.value) <= max
  BY <1>4, <1>5, <1>6
<1>8. LeftBytes(b) = <<Len(r.value)>> \o (r.value \o LeftBytes(r.buf))
  BY <1>2, <1>6
<1> QED BY <1>6, <1>7, <1>8 DEF r

\* What is left of a buffer is bytes.
LEMMA LeftBytesType ==
  ASSUME NEW b \in Buffer
  PROVE  LeftBytes(b) \in Seq(Byte)
<1> DEFINE n == Size(b)
           m == b.offset + 1
<1>1. b.ptr \in Seq(Byte) /\ n = Len(b.ptr) /\ n \in Nat /\ m \in Nat /\ m >= 1
  BY BufferFields DEF Sizes
<1> HIDE DEF n, m
<1>2. \A i \in m..n : b.ptr[i] \in Byte
  BY <1>1, ElementOfSeq
<1>3. SubSeq(b.ptr, m, n) \in Seq(Byte)
  BY <1>1, <1>2, SubSeqProperties
<1> QED BY <1>3 DEF LeftBytes, n, m

\* What follows two parts follows the second.
LEMMA ConcatThree ==
  ASSUME NEW s \in Seq(Byte), NEW t \in Seq(Byte), NEW u \in Seq(Byte)
  PROVE  s \o t \in Seq(Byte) /\ s \o (t \o u) = (s \o t) \o u
<1>1. (s \o t) \o u = s \o (t \o u)
  BY ConcatAssociative
<1> QED BY <1>1, ConcatProperties

\* What follows parts in a row follows the last of them.
LEMMA ConcatSix ==
  ASSUME NEW s1, NEW s2, NEW s3, NEW s4, NEW s5, NEW s6, NEW t,
         /\ s1 \in Seq(Byte) /\ s2 \in Seq(Byte) /\ s3 \in Seq(Byte)
         /\ s4 \in Seq(Byte) /\ s5 \in Seq(Byte) /\ s6 \in Seq(Byte) /\ t \in Seq(Byte)
  PROVE  s1 \o (s2 \o (s3 \o (s4 \o (s5 \o (s6 \o t)))))
           = (s1 \o (s2 \o (s3 \o (s4 \o (s5 \o s6))))) \o t
<1> DEFINE Strings == Seq(Byte)
           Cat(s, u) == s \o u
           r5 == Cat(s5, s6)
           r4 == Cat(s4, r5)
           r3 == Cat(s3, r4)
           r2 == Cat(s2, r3)
<1>1. \A s, u, w \in Strings :
        Cat(s, u) \in Strings /\ Cat(s, Cat(u, w)) = Cat(Cat(s, u), w)
  BY ConcatThree, Zenon
<1>2. /\ s1 \in Strings /\ s2 \in Strings /\ s3 \in Strings /\ s4 \in Strings
      /\ s5 \in Strings /\ s6 \in Strings /\ t \in Strings
  OBVIOUS
<1> HIDE DEF Strings, Cat
<1>3. r5 \in Strings /\ r4 \in Strings /\ r3 \in Strings /\ r2 \in Strings
  BY <1>1, <1>2
<1>4. Cat(s5, Cat(s6, t)) = Cat(r5, t)
  BY <1>1, <1>2
<1> HIDE DEF r5
<1>5. Cat(s4, Cat(r5, t)) = Cat(r4, t)
  BY <1>1, <1>2, <1>3
<1> HIDE DEF r4
<1>6. Cat(s3, Cat(r4, t)) = Cat(r3, t)
  BY <1>1, <1>2, <1>3
<1> HIDE DEF r3
<1>7. Cat(s2, Cat(r3, t)) = Cat(r2, t)
  BY <1>1, <1>2, <1>3
<1> HIDE DEF r2
<1>8. Cat(s1, Cat(r2, t)) = Cat(Cat(s1, r2), t)
  BY <1>1, <1>2, <1>3
<1>9. Cat(s1, Cat(s2, Cat(s3, Cat(s4, Cat(s5, Cat(s6, t)))))) = Cat(Cat(s1, r2), t)
  BY <1>4, <1>5, <1>6, <1>7, <1>8
<1> QED BY <1>9 DEF Cat, r2, r3, r4, r5

\* A token that parses is in the bytes that were sent, each field within its
\* length, with the signature right behind it: no two tokens are read from the
\* same bytes, and nothing between the fields is skipped (token_parser.c:8-42).
THEOREM TokenReadBack ==
  ASSUME NEW b \in Buffer, parse_token(b).ok
  PROVE  LET r == parse_token(b)
             t == r.token
         IN /\ LeftBytes(b) = EncodeToken(t) \o LeftBytes(r.buf)
            /\ r.buf \in Buffer
            /\ t.version \in Byte /\ t.uid \in Seq(Byte) /\ Len(t.uid) = TOKEN_UID_LEN
            /\ t.symbol \in Seq(Byte) /\ Len(t.symbol) <= MAX_TOKEN_SYMBOL_LEN
            /\ t.name \in Seq(Byte) /\ Len(t.name) <= MAX_TOKEN_NAME_LEN
            /\ Printable(t.symbol) /\ Printable(t.name)
<1> DEFINE version == U8(b)
           uid == buffer_read_bytes(version.buf, TOKEN_UID_LEN, TOKEN_UID_LEN)
           symbol == Text(uid.buf, MAX_TOKEN_SYMBOL_LEN)
           name == Text(symbol.buf, MAX_TOKEN_NAME_LEN)
           ok == version.ok /\ uid.ok /\ symbol.ok /\ name.ok
           v == version.value[1]
           token == IF ok THEN [version |-> v, uid |-> uid.value,
                                symbol |-> symbol.value, name |-> name.value]
                    ELSE [version |-> 0, uid |-> <<>>, symbol |-> <<>>, name |-> <<>>]
           r == parse_token(b)
<1>1. r = [ok |-> ok /\ Printable(symbol.value) /\ Printable(name.value),
           buf |-> name.buf, token |-> token]
  BY DEF parse_token
<1>2. version.ok => /\ version.buf \in Buffer /\ v \in Byte
                    /\ LeftBytes(b) = <<v>> \o LeftBytes(version.buf)
  BY U8Reads
<1>3. version.buf \in Buffer /\ uid.ok =>
        Reads(version.buf, uid, TOKEN_UID_LEN)
  BY BytesRead DEF TOKEN_UID_LEN
<1>4. uid.buf \in Buffer /\ symbol.ok =>
        /\ symbol.buf \in Buffer /\ symbol.value \in Seq(Byte)
        /\ Len(symbol.value) <= MAX_TOKEN_SYMBOL_LEN
        /\ LeftBytes(uid.buf) = <<Len(symbol.value)>> \o (symbol.value \o LeftBytes(symbol.buf))
  BY TextReads DEF MAX_TOKEN_SYMBOL_LEN
<1>5. symbol.buf \in Buffer /\ name.ok =>
        /\ name.buf \in Buffer /\ name.value \in Seq(Byte)
        /\ Len(name.value) <= MAX_TOKEN_NAME_LEN
        /\ LeftBytes(symbol.buf) = <<Len(name.value)>> \o (name.value \o LeftBytes(name.buf))
  BY TextReads DEF MAX_TOKEN_NAME_LEN
<1> DEFINE p == Printable(symbol.value) /\ Printable(name.value)
<1> HIDE DEF version, uid, symbol, name, v
<1>6. ok /\ p /\ r.buf = name.buf /\ r.token = token
  <2>1. r.ok
    BY DEF r
  <2> HIDE DEF r, ok, token, p
  <2>2. r = [ok |-> ok /\ p, buf |-> name.buf, token |-> token]
    BY <1>1 DEF p
  <2> QED BY <2>1, <2>2
<1> HIDE DEF r
<1>7. /\ version.ok /\ uid.ok /\ symbol.ok /\ name.ok
      /\ token.version = v /\ token.uid = uid.value
      /\ token.symbol = symbol.value /\ token.name = name.value
  BY <1>6
<1> HIDE DEF token, ok
<1>8. /\ uid.buf \in Buffer /\ uid.value \in Seq(Byte) /\ Len(uid.value) = TOKEN_UID_LEN
      /\ LeftBytes(version.buf) = uid.value \o LeftBytes(uid.buf)
  BY <1>2, <1>3, <1>7 DEF Reads
<1>9. LeftBytes(b) = EncodeToken(token) \o LeftBytes(name.buf)
  <2> DEFINE s1 == <<v>>
             s3 == <<Len(symbol.value)>>
             s5 == <<Len(name.value)>>
  <2>1. s1 \in Seq(Byte) /\ s3 \in Seq(Byte) /\ s5 \in Seq(Byte)
    <3>1. v \in Byte
      BY <1>2, <1>7
    <3>2. ASSUME NEW s \in Seq(Byte), NEW k \in 0..255, Len(s) <= k
          PROVE  Len(s) \in Byte
      <4> DEFINE l == Len(s)
      <4>1. l \in Nat /\ l <= k /\ k <= 255
        BY <3>2, LenProperties
      <4> HIDE DEF l
      <4>2. l \in Byte
        BY <4>1 DEF Byte
      <4> QED BY <4>2 DEF l
    <3>3. symbol.value \in Seq(Byte) /\ Len(symbol.value) <= MAX_TOKEN_SYMBOL_LEN
      BY <1>4, <1>7, <1>8
    <3>4. name.value \in Seq(Byte) /\ Len(name.value) <= MAX_TOKEN_NAME_LEN
      BY <1>4, <1>5, <1>7, <1>8
    <3>5. Len(symbol.value) \in Byte /\ Len(name.value) \in Byte
      BY <3>2, <3>3, <3>4 DEF MAX_TOKEN_SYMBOL_LEN, MAX_TOKEN_NAME_LEN
    <3> QED BY <3>1, <3>5
  <2>2. name.buf \in Buffer /\ LeftBytes(name.buf) \in Seq(Byte)
    BY <1>4, <1>5, <1>7, <1>8, LeftBytesType
  <2>3. EncodeToken(token) =
          s1 \o (uid.value \o (s3 \o (symbol.value \o (s5 \o name.value))))
    BY <1>7 DEF EncodeToken
  <2>4. /\ LeftBytes(b) = s1 \o LeftBytes(version.buf)
        /\ LeftBytes(version.buf) = uid.value \o LeftBytes(uid.buf)
        /\ LeftBytes(uid.buf) = s3 \o (symbol.value \o LeftBytes(symbol.buf))
        /\ LeftBytes(symbol.buf) = s5 \o (name.value \o LeftBytes(name.buf))
        /\ symbol.value \in Seq(Byte) /\ name.value \in Seq(Byte)
    BY <1>2, <1>4, <1>5, <1>7, <1>8
  <2> HIDE DEF s1, s3, s5
  <2>5. LeftBytes(b) = s1 \o (uid.value \o (s3 \o (symbol.value \o
                         (s5 \o (name.value \o LeftBytes(name.buf))))))
    BY <2>4, Zenon
  <2> DEFINE Strings == Seq(Byte)
             Cat(s, t) == s \o t
             n2 == uid.value
             n4 == symbol.value
             n6 == name.value
             rest == LeftBytes(name.buf)
  <2>6. \A u1, u2, u3, u4, u5, u6, t :
          (/\ u1 \in Strings /\ u2 \in Strings /\ u3 \in Strings
           /\ u4 \in Strings /\ u5 \in Strings /\ u6 \in Strings /\ t \in Strings)
          => Cat(u1, Cat(u2, Cat(u3, Cat(u4, Cat(u5, Cat(u6, t))))))
               = Cat(Cat(u1, Cat(u2, Cat(u3, Cat(u4, Cat(u5, u6))))), t)
    BY ConcatSix, Zenon
  <2>7. /\ s1 \in Strings /\ n2 \in Strings /\ s3 \in Strings /\ n4 \in Strings
        /\ s5 \in Strings /\ n6 \in Strings /\ rest \in Strings
    BY <1>8, <2>1, <2>2, <2>4
  <2> HIDE DEF Cat, Strings, n2, n4, n6, rest
  <2>8. Cat(s1, Cat(n2, Cat(s3, Cat(n4, Cat(s5, Cat(n6, rest))))))
          = Cat(Cat(s1, Cat(n2, Cat(s3, Cat(n4, Cat(s5, n6))))), rest)
    BY <2>6, <2>7
  <2> QED BY <2>3, <2>5, <2>8, Zenon DEF Cat, n2, n4, n6, rest
<1>10. name.buf \in Buffer
  BY <1>4, <1>5, <1>7, <1>8
<1> QED BY <1>2, <1>4, <1>5, <1>6, <1>7, <1>8, <1>9, <1>10 DEF r, p

\* A header that parses is in the bytes that were sent, two bytes of version and
\* a byte for each number, and the first token comes right behind it
\* (read_tx_data, sign_tx.c:176-202).
THEOREM HeaderReadBack ==
  ASSUME NEW b \in Buffer, read_tx_data(b).sw = OK
  PROVE  LET r == read_tx_data(b)
         IN /\ r.buf \in Buffer /\ r.tx_version \in Seq(Byte) /\ Len(r.tx_version) = 2
            /\ r.remaining_tokens \in Byte /\ r.remaining_inputs \in Byte /\ r.outputs_len \in Byte
            /\ LeftBytes(b) = r.tx_version \o (<<r.remaining_tokens>> \o (<<r.remaining_inputs>>
                                \o (<<r.outputs_len>> \o LeftBytes(r.buf))))
<1> DEFINE version == U16(b)
           tokens == U8(version.buf)
           inputs == U8(tokens.buf)
           outputs == U8(inputs.buf)
           v == version.value
           t == tokens.value[1]
           i == inputs.value[1]
           o == outputs.value[1]
           rest == outputs.buf
           r == read_tx_data(b)
           read == [sw |-> OK, buf |-> rest, tx_version |-> v, remaining_tokens |-> t,
                    remaining_inputs |-> i, outputs_len |-> o]
<1>1. r = IF version.ok /\ tokens.ok /\ inputs.ok /\ outputs.ok
          THEN read ELSE [sw |-> "WRONG_DATA_LENGTH"]
  BY DEF read_tx_data
<1>2. version = Take(b, 2)
  BY DEF U16, ReadInt
<1>3. version.ok => Reads(b, version, 2)
  BY <1>2, TakeReads DEF Fails
<1>4. version.buf \in Buffer /\ tokens.ok =>
        tokens.buf \in Buffer /\ t \in Byte /\ LeftBytes(version.buf) = <<t>> \o LeftBytes(tokens.buf)
  BY U8Reads
<1>5. tokens.buf \in Buffer /\ inputs.ok =>
        inputs.buf \in Buffer /\ i \in Byte /\ LeftBytes(tokens.buf) = <<i>> \o LeftBytes(inputs.buf)
  BY U8Reads
<1>6. inputs.buf \in Buffer /\ outputs.ok =>
        rest \in Buffer /\ o \in Byte /\ LeftBytes(inputs.buf) = <<o>> \o LeftBytes(rest)
  BY U8Reads
<1>7. r.sw = OK
  OBVIOUS
<1> HIDE DEF version, tokens, inputs, outputs, v, t, i, o, rest, r
<1>8. /\ version.ok /\ tokens.ok /\ inputs.ok /\ outputs.ok
      /\ r.buf = rest /\ r.tx_version = v /\ r.remaining_tokens = t
      /\ r.remaining_inputs = i /\ r.outputs_len = o
  BY <1>1, <1>7 DEF OK
<1>9. /\ version.buf \in Buffer /\ v \in Seq(Byte) /\ Len(v) = 2
      /\ LeftBytes(b) = v \o LeftBytes(version.buf)
  BY <1>3, <1>8 DEF Reads, v
<1>10. /\ t \in Byte /\ i \in Byte /\ o \in Byte /\ rest \in Buffer
       /\ LeftBytes(version.buf) = <<t>> \o (<<i>> \o (<<o>> \o LeftBytes(rest)))
  BY <1>4, <1>5, <1>6, <1>8, <1>9
<1> QED BY <1>8, <1>9, <1>10 DEF r

-----------------------------------------------------------------------------
(* Outputs: the bytes of one may arrive in two commands.                     *)

\* A buffer to which bytes were appended.
Grown(b, more) == [ptr |-> b.ptr \o more, offset |-> b.offset]

\* A part of the bytes is the same part of more bytes.
LEMMA GrownSubSeq ==
  ASSUME NEW s \in Seq(Byte), NEW more \in Seq(Byte), NEW m \in Nat \ {0}, NEW k \in 0..Len(s)
  PROVE  SubSeq(s \o more, m, k) = SubSeq(s, m, k)
<1> DEFINE l == Len(s)
           w == s \o more
           lw == Len(w)
           x == SubSeq(s, m, k)
           y == SubSeq(w, m, k)
<1>1. w \in Seq(Byte) /\ lw = l + Len(more) /\ l \in Nat /\ Len(more) \in Nat
  BY ConcatProperties, LenProperties
<1>2. \A i \in 1..l : w[i] = s[i]
  BY ConcatProperties
<1>3. /\ \A i \in m..k : s[i] \in Byte
      /\ \A i \in m..k : w[i] \in Byte
  BY <1>1, ElementOfSeq
<1>4. /\ x \in Seq(Byte) /\ Len(x) = IF m <= k THEN k - m + 1 ELSE 0
      /\ \A i \in 1..(k - m + 1) : x[i] = s[m + i - 1]
  BY <1>3, SubSeqProperties
<1>5. /\ y \in Seq(Byte) /\ Len(y) = IF m <= k THEN k - m + 1 ELSE 0
      /\ \A i \in 1..(k - m + 1) : y[i] = w[m + i - 1]
  BY <1>3, SubSeqProperties
<1> HIDE DEF x, y, w, lw
<1>6. ASSUME NEW i \in 1..Len(x)
      PROVE  x[i] = y[i]
  <2>1. m <= k /\ i \in 1..(k - m + 1)
    BY <1>4, <1>6
  <2>2. m + i - 1 \in 1..l
    BY <1>1, <2>1
  <2> QED BY <1>2, <1>4, <1>5, <2>1, <2>2
<1>7. Len(x) = Len(y)
  BY <1>4, <1>5
<1>8. x = y
  BY <1>4, <1>5, <1>6, <1>7, SeqEqual
<1> QED BY <1>8 DEF x, y, w

\* A read of a buffer is the same read of the longer one.
LEMMA TakeGrown ==
  ASSUME NEW b \in Buffer, NEW more \in Seq(Byte), NEW n \in Nat, Grown(b, more) \in Buffer
  PROVE  LET r == Take(b, n)
             g == Take(Grown(b, more), n)
         IN /\ r.ok <=> n <= Left(b)
            /\ r.ok => /\ g.ok /\ g.value = r.value
                       /\ r.buf \in Buffer /\ r.buf.ptr = b.ptr /\ r.buf.offset = b.offset + n
                       /\ g.buf = Grown(r.buf, more) /\ g.buf \in Buffer
<1> DEFINE c == Grown(b, more)
           r == Take(b, n)
           g == Take(c, n)
           rv == SubSeq(b.ptr, b.offset + 1, b.offset + n)
           gv == SubSeq(c.ptr, c.offset + 1, c.offset + n)
           at == b.offset
           size == Len(b.ptr)
           all == Len(c.ptr)
           added == Len(more)
<1>1. /\ b.ptr \in Seq(Byte) /\ b.offset \in Nat /\ Size(b) = Len(b.ptr) /\ Size(b) \in Sizes
      /\ Left(b) = Size(b) - b.offset
  BY BufferFields
<1>2. /\ c.ptr = b.ptr \o more /\ c.offset = b.offset /\ c \in Buffer
      /\ Size(c) = Len(c.ptr) /\ Left(c) = Size(c) - c.offset
  BY BufferFields DEF Grown
<1>3. /\ all = size + added /\ added \in Nat /\ at \in Nat /\ size \in Nat
      /\ size < SizeMod /\ SizeMod \in Nat /\ Left(b) = size - at /\ Left(c) = all - at
  BY <1>1, <1>2, ConcatProperties, LenProperties, SizeModAssumption DEF Sizes
<1>4. CASE n <= Left(b)
  <2> HIDE DEF at, size, all, added
  <2>1. n \in Sizes /\ n <= Left(c) /\ at + n \in 0..size /\ at + 1 \in Nat \ {0}
    BY <1>3, <1>4 DEF Sizes
  <2> USE DEF at, size
  <2>2. gv = rv
    <3> DEFINE m == at + 1
               k == at + n
    <3>1. m \in Nat \ {0} /\ k \in 0..Len(b.ptr) /\ b.ptr \in Seq(Byte)
      BY <1>1, <2>1
    <3> HIDE DEF m, k
    <3>2. SubSeq(b.ptr \o more, m, k) = SubSeq(b.ptr, m, k)
      BY <3>1, GrownSubSeq
    <3> QED BY <1>2, <3>2 DEF m, k
  <2>3. r = [ok |-> TRUE, buf |-> Passed(b, n), value |-> rv]
    BY <1>4, <2>1, TakeIs
  <2>4. g = [ok |-> TRUE, buf |-> Passed(c, n), value |-> gv]
    BY <1>2, <2>1, TakeIs
  <2> HIDE DEF c, r, g, rv, gv
  <2>5. r.ok /\ r.buf = Passed(b, n) /\ r.value = rv /\ g.ok /\ g.buf = Passed(c, n) /\ g.value = gv
    BY <2>3, <2>4
  <2>6. Reads(b, r, n) /\ Reads(c, g, n)
    BY <1>2, <1>4, <2>1, TakeReads DEF r, g
  <2>7. /\ r.buf \in Buffer /\ r.buf.offset = b.offset + n /\ r.buf.ptr = b.ptr
        /\ g.buf \in Buffer /\ g.buf.offset = b.offset + n /\ g.buf.ptr = c.ptr
    BY <1>2, <2>6 DEF Reads
  <2>8. g.buf = Grown(r.buf, more)
    <3>1. g.buf = [ptr |-> g.buf.ptr, offset |-> g.buf.offset]
      BY <2>7, BufferFields
    <3> QED BY <1>2, <2>7, <3>1 DEF Grown
  <2> QED BY <1>4, <2>2, <2>5, <2>7, <2>8 DEF r, g, c
<1>5. CASE ~(n <= Left(b))
  <2>1. ~r.ok
    BY <1>5, TakeReads DEF Fails
  <2> QED BY <1>5, <2>1
<1> QED BY <1>4, <1>5

\* An amount, and the same amount when there are more bytes.
LEMMA ValueGrown ==
  ASSUME NEW bytes \in Seq(Byte), NEW more \in Seq(Byte),
         Fresh(bytes) \in Buffer, Fresh(bytes \o more) \in Buffer
  PROVE  LET r == parse_output_value(Fresh(bytes))
             g == parse_output_value(Fresh(bytes \o more))
         IN /\ r.ok => /\ g.ok /\ g.value = r.value
                       /\ r.buf \in Buffer /\ r.buf.ptr = bytes /\ r.buf.offset \in {4, 8}
                       /\ g.buf = Grown(r.buf, more) /\ g.buf \in Buffer
            /\ ~r.ok => Len(bytes) < 8
<1> DEFINE b == Fresh(bytes)
           c == Fresh(bytes \o more)
           Width(s) == IF s[1] >= 128 THEN 8 ELSE 4
           n == Width(bytes)
           F(s, v) == IF s[1] >= 128 THEN Negated(v) ELSE Widened(v)
           t == Take(b, n)
           u == Take(c, n)
           r == parse_output_value(b)
           g == parse_output_value(c)
           l == Len(bytes)
<1>1. /\ b.ptr = bytes /\ b.offset = 0 /\ c.ptr = bytes \o more /\ c = Grown(b, more)
      /\ Left(b) = l /\ l \in Nat
  <2>1. b.ptr = bytes /\ b.offset = 0 /\ c.ptr = bytes \o more /\ c = Grown(b, more)
    BY DEF Fresh, Grown
  <2>2. l \in Nat /\ Left(b) = l - 0
    BY <2>1, LenProperties DEF Left, Size
  <2> QED BY <2>1, <2>2
<1>2. r = IF ~t.ok THEN t ELSE [t EXCEPT !.value = F(bytes, t.value)]
  BY <1>1 DEF parse_output_value, ReadInt
<1>3. n \in {4, 8} /\ n \in Nat
  OBVIOUS
<1>4. /\ t.ok <=> n <= l
      /\ t.ok => /\ u.ok /\ u.value = t.value
                 /\ t.buf \in Buffer /\ t.buf.ptr = bytes /\ t.buf.offset = 0 + n
                 /\ u.buf = Grown(t.buf, more) /\ u.buf \in Buffer
  <2> HIDE DEF b, c, n
  <2>1. b \in Buffer /\ Grown(b, more) \in Buffer /\ n \in Nat
    BY <1>1, <1>3 DEF b, c
  <2> QED BY <1>1, <2>1, TakeGrown DEF t, u
<1>5. n <= l => c.ptr[1] = bytes[1]
  BY <1>1, <1>3, ConcatProperties
<1>6. n <= l => g = IF ~u.ok THEN u ELSE [u EXCEPT !.value = F(bytes, u.value)]
  BY <1>5 DEF parse_output_value, ReadInt
<1>7. /\ t = [ok |-> t.ok, buf |-> t.buf, value |-> t.value]
      /\ u = [ok |-> u.ok, buf |-> u.buf, value |-> u.value]
  BY DEF Take, Fails, buffer_seek_cur, Seek
<1> HIDE DEF r, g, t, u, n, F, l, b, c
<1>8. CASE t.ok
  <2>1. r.ok /\ r.buf = t.buf /\ r.value = F(bytes, t.value)
    BY <1>2, <1>7, <1>8
  <2>2. g.ok /\ g.buf = u.buf /\ g.value = F(bytes, u.value)
    BY <1>4, <1>6, <1>7, <1>8
  <2> QED BY <1>3, <1>4, <1>8, <2>1, <2>2 DEF r, g, b, c
<1>9. CASE ~t.ok
  <2>1. ~r.ok
    BY <1>2, <1>9
  <2>2. l < 8
    BY <1>1, <1>3, <1>4, <1>9
  <2> QED BY <2>1, <2>2 DEF r, b, l
<1> QED BY <1>8, <1>9

\* Bytes in a buffer of their own.
LEMMA FreshType ==
  ASSUME NEW bytes \in Seq(Byte), NEW more \in Seq(Byte), Len(bytes \o more) < SizeMod
  PROVE  Fresh(bytes) \in Buffer /\ Fresh(bytes \o more) \in Buffer
<1>1. /\ bytes \o more \in Seq(Byte) /\ Len(bytes \o more) = Len(bytes) + Len(more)
      /\ Len(bytes) \in Nat /\ Len(more) \in Nat
  BY ConcatProperties, LenProperties
<1> DEFINE w == bytes \o more
           k == Len(w)
           l == Len(bytes)
           m == Len(more)
<1>2. ASSUME NEW s \in Seq(Byte), Len(s) < SizeMod
      PROVE  Fresh(s) \in Buffer
  <2>1. Len(s) >= 0
    BY LenProperties
  <2>2. Fresh(s) = [ptr |-> s, offset |-> 0]
    BY DEF Fresh
  <2> DEFINE n == Len(s)
  <2> HIDE DEF n
  <2> QED BY <1>2, <2>1, <2>2 DEF Buffer, Size, n
<1>3. l < SizeMod /\ k < SizeMod /\ w \in Seq(Byte)
  <2>1. k = l + m /\ l \in Nat /\ m \in Nat /\ k < SizeMod
    BY <1>1
  <2> HIDE DEF k, l, m
  <2> QED BY <1>1, <2>1, SizeModAssumption DEF w
<1> QED BY <1>2, <1>3

\* The parts of an output, and the same parts when there are more bytes.
LEMMA OutputGrown ==
  ASSUME NEW bytes \in Seq(Byte), NEW more \in Seq(Byte),
         Fresh(bytes) \in Buffer, Fresh(bytes \o more) \in Buffer
  PROVE  /\ parse_output(bytes).sw # "READY" => parse_output(bytes \o more) = parse_output(bytes)
         /\ parse_output(bytes).sw = "READY" => Len(bytes) < 36
         /\ parse_output(bytes).sw = OK =>
              parse_output(bytes).size \in {32, 36} /\ parse_output(bytes).size <= Len(bytes)
<1> DEFINE value(s) == parse_output_value(Fresh(s))
           token_data(s) == U8(value(s).buf)
           script_len(s) == U16(token_data(s).buf)
           script(s) == Take(script_len(s).buf, P2PKH_LEN)
           Whole(s) == value(s).ok /\ token_data(s).ok /\ script_len(s).ok
           Sized(s) == Number(script_len(s).value) = P2PKH_LEN
           Framed(s) == /\ SubSeq(script(s).value, 1, 3) = P2pkhHead
                        /\ SubSeq(script(s).value, 24, 25) = P2pkhTail
           Output(s) == [sw |-> OK, value |-> value(s).value, token_data |-> token_data(s).value[1],
                         hash |-> SubSeq(script(s).value, 4, 23), size |-> script(s).buf.offset]
           w == bytes \o more
           l == Len(bytes)
<1>1. \A s : parse_output(s) =
               IF ~Whole(s) THEN [sw |-> "READY"]
               ELSE IF ~Sized(s) THEN [sw |-> "PARSING_FAIL"]
               ELSE IF ~script(s).ok THEN [sw |-> "READY"]
               ELSE IF Framed(s) THEN Output(s) ELSE [sw |-> "PARSING_FAIL"]
  BY DEF parse_output
<1> DEFINE v == value(bytes)
           d == token_data(bytes)
           n == script_len(bytes)
           x == script(bytes)
<1>2. /\ v.ok => /\ value(w).ok /\ value(w).value = v.value
                 /\ v.buf \in Buffer /\ v.buf.ptr = bytes /\ v.buf.offset \in {4, 8}
                 /\ value(w).buf = Grown(v.buf, more) /\ value(w).buf \in Buffer
      /\ ~v.ok => l < 8
  BY ValueGrown
<1>3. \A b : U8(b) = Take(b, 1) /\ U16(b) = Take(b, 2)
  BY DEF U8, U16, ReadInt
<1>4. v.ok =>
        /\ d.ok <=> 1 <= Left(v.buf)
        /\ d.ok => /\ token_data(w).ok /\ token_data(w).value = d.value
                   /\ d.buf \in Buffer /\ d.buf.ptr = bytes /\ d.buf.offset = v.buf.offset + 1
                   /\ token_data(w).buf = Grown(d.buf, more) /\ token_data(w).buf \in Buffer
  BY <1>2, <1>3, TakeGrown
<1>5. v.ok /\ d.ok =>
        /\ n.ok <=> 2 <= Left(d.buf)
        /\ n.ok => /\ script_len(w).ok /\ script_len(w).value = n.value
                   /\ n.buf \in Buffer /\ n.buf.ptr = bytes /\ n.buf.offset = d.buf.offset + 2
                   /\ script_len(w).buf = Grown(n.buf, more) /\ script_len(w).buf \in Buffer
  BY <1>2, <1>3, <1>4, TakeGrown
<1>6. Whole(bytes) =>
        /\ x.ok <=> P2PKH_LEN <= Left(n.buf)
        /\ x.ok => /\ script(w).ok /\ script(w).value = x.value
                   /\ x.buf \in Buffer /\ x.buf.ptr = bytes /\ x.buf.offset = n.buf.offset + 25
                   /\ script(w).buf = Grown(x.buf, more)
  BY <1>2, <1>4, <1>5, TakeGrown DEF P2PKH_LEN
<1>7. \A b \in Buffer : b.ptr = bytes => Left(b) = l - b.offset /\ b.offset \in Nat /\ b.offset <= l
  BY BufferFields, LenProperties DEF Sizes
<1>8. l \in Nat
  BY LenProperties
<1> HIDE DEF value, token_data, script_len, script, l, w
<1>9. Whole(bytes) /\ x.ok => x.buf.offset \in {32, 36} /\ x.buf.offset <= l
  <2>1. SUFFICES ASSUME v.ok, d.ok, n.ok, x.ok
                 PROVE  x.buf.offset \in {32, 36} /\ x.buf.offset <= l
    OBVIOUS
  <2>2. /\ v.buf.offset \in {4, 8} /\ d.buf.offset = v.buf.offset + 1
        /\ n.buf.offset = d.buf.offset + 2 /\ x.buf.offset = n.buf.offset + 25
        /\ x.buf \in Buffer /\ x.buf.ptr = bytes
    BY <1>2, <1>4, <1>5, <1>6, <2>1
  <2>3. x.buf.offset <= l
    BY <1>7, <2>2
  <2> QED BY <2>2, <2>3
<1>10. ~Whole(bytes) \/ ~x.ok => l < 36
  <2>1. CASE ~v.ok
    BY <1>2, <1>8, <2>1
  <2>2. CASE v.ok /\ ~d.ok
    <3>1. ~(1 <= Left(v.buf)) /\ v.buf.offset \in {4, 8} /\ Left(v.buf) = l - v.buf.offset
      BY <1>2, <1>4, <1>7, <2>2
    <3> QED BY <1>8, <3>1
  <2>3. CASE v.ok /\ d.ok /\ ~n.ok
    <3>1. /\ ~(2 <= Left(d.buf)) /\ Left(d.buf) = l - d.buf.offset
          /\ v.buf.offset \in {4, 8} /\ d.buf.offset = v.buf.offset + 1
      BY <1>2, <1>4, <1>5, <1>7, <2>3
    <3> QED BY <1>8, <3>1
  <2>4. CASE v.ok /\ d.ok /\ n.ok /\ ~x.ok
    <3>1. /\ ~(25 <= Left(n.buf)) /\ Left(n.buf) = l - n.buf.offset
          /\ v.buf.offset \in {4, 8} /\ d.buf.offset = v.buf.offset + 1
          /\ n.buf.offset = d.buf.offset + 2
      BY <1>2, <1>4, <1>5, <1>6, <1>7, <2>4 DEF P2PKH_LEN
    <3> QED BY <1>8, <3>1
  <2> QED BY <2>1, <2>2, <2>3, <2>4
<1>11. Whole(bytes) => Whole(w) /\ Sized(w) = Sized(bytes)
  BY <1>2, <1>4, <1>5
<1>12. Whole(bytes) /\ x.ok => /\ script(w).ok /\ Framed(w) = Framed(bytes)
                               /\ Output(w) = Output(bytes)
  <2>1. SUFFICES ASSUME Whole(bytes), x.ok
                 PROVE  script(w).ok /\ Framed(w) = Framed(bytes) /\ Output(w) = Output(bytes)
    OBVIOUS
  <2>2. /\ script(w).ok /\ script(w).value = x.value /\ script(w).buf.offset = x.buf.offset
        /\ value(w).value = v.value /\ token_data(w).value = d.value
    BY <1>2, <1>4, <1>5, <1>6, <2>1 DEF Grown
  <2> QED BY <2>2
<1> DEFINE p == parse_output(bytes)
<1>13. CASE ~Whole(bytes)
  BY <1>1, <1>10, <1>13 DEF OK, l
<1>14. CASE Whole(bytes) /\ ~Sized(bytes)
  BY <1>1, <1>11, <1>14 DEF OK, w
<1>15. CASE Whole(bytes) /\ Sized(bytes) /\ ~x.ok
  BY <1>1, <1>10, <1>15 DEF OK, l
<1>16. CASE Whole(bytes) /\ Sized(bytes) /\ x.ok
  BY <1>1, <1>9, <1>11, <1>12, <1>16 DEF OK, l, w
<1> QED BY <1>13, <1>14, <1>15, <1>16

\* What was decided about an output, that it is accepted, with every field of
\* it, or refused, stays so when the host sends more: the outputs that are read
\* do not depend on where the chunks end, only a READY can change
\* (deserialize.c:41-89, sign_tx.c:404-435).
THEOREM OutputStable ==
  ASSUME NEW bytes \in Seq(Byte), NEW more \in Seq(Byte), Len(bytes \o more) < SizeMod,
         parse_output(bytes).sw # "READY"
  PROVE  parse_output(bytes \o more) = parse_output(bytes)
<1>1. Fresh(bytes) \in Buffer /\ Fresh(bytes \o more) \in Buffer
  BY FreshType
<1> QED BY <1>1, OutputGrown

\* An output that is accepted has the length of a short or a long amount, all
\* of it has arrived, and 36 bytes are never too few to decide: the buffer of
\* the undecoded bytes needs no more room than that and one chunk
\* (deserialize.c:41-89, types.h:94).
THEOREM OutputLength ==
  ASSUME NEW bytes \in Seq(Byte), Len(bytes) < SizeMod
  PROVE  /\ parse_output(bytes).sw = "READY" => Len(bytes) < 36
         /\ parse_output(bytes).sw = OK =>
              parse_output(bytes).size \in {32, 36} /\ parse_output(bytes).size <= Len(bytes)
<1>1. bytes \o <<>> = bytes /\ <<>> \in Seq(Byte)
  BY ConcatEmptySeq
<1>2. Fresh(bytes) \in Buffer /\ Fresh(bytes \o <<>>) \in Buffer
  BY <1>1, FreshType
<1> QED BY <1>1, <1>2, OutputGrown

===============================================================================
