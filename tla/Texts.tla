-------------------------------- MODULE Texts --------------------------------
(* What the user reads: amounts, paths, token uids (src/common/format.c,     *)
(* bip32.c) and addresses (src/common/base58.c), and the buffers of          *)
(* src/ui/display.c that hold them.                                          *)
(*                                                                           *)
(* A text is a sequence of characters, without its terminating zero.  An     *)
(* integer is its bytes, as in Buffers.                                      *)
EXTENDS Buffers

-----------------------------------------------------------------------------
(* Integers wider than those of the language.                               *)

\* Long division by d of a number written in base b: quotient and remainder.
Division(n, b, d) ==
  LET pass[i \in 0..Len(n)] ==
        IF i = 0 THEN [quot |-> <<>>, rem |-> 0]
        ELSE LET before == pass[i - 1]
                 part == b * before.rem + n[i]
             IN [quot |-> Append(before.quot, part \div d), rem |-> part % d]
  IN pass[Len(n)]

IsZero(n) == \A i \in DOMAIN n : n[i] = 0

-----------------------------------------------------------------------------
(* format_u64, format_value, itoa and format_hex.                           *)

Digit == <<"0", "1", "2", "3", "4", "5", "6", "7", "8", "9">>
HexDigit == Digit \o <<"A", "B", "C", "D", "E", "F">>

\* The decimal digits of n, which format_u64 writes backwards and reverses.
Decimal(n) ==
  LET text[m \in Seq(Byte)] ==
        LET tenth == Division(m, 256, 10)
        IN (IF IsZero(tenth.quot) THEN <<>> ELSE text[tenth.quot]) \o <<Digit[tenth.rem + 1]>>
  IN text[n]

\* Every digit that ends a group is followed by a comma, the last by none.
Grouped(digits) ==
  Front(FlattenSeq([i \in DOMAIN digits |->
                      IF (1 + i - (Len(digits) % 3)) % 3 = 1 THEN <<digits[i], ",">>
                                                          ELSE <<digits[i]>>]))

\* The integral part, a point, and two digits of cents.
format_value(n) ==
  LET units == Division(n, 256, 100)
  IN Grouped(Decimal(units.quot)) \o <<".">>
     \o (IF units.rem < 10 THEN <<"0">> ELSE <<>>) \o Decimal(<<units.rem>>)

format_hex(bytes) ==
  FlattenSeq([i \in DOMAIN bytes |->
                <<HexDigit[bytes[i] \div 16 + 1], HexDigit[(bytes[i] % 16) + 1]>>])

-----------------------------------------------------------------------------
(* bip32_path_format: each level, a quote if it is hardened, and a slash.   *)

Pieces(path) ==
  FlattenSeq([i \in DOMAIN path |->
                <<Decimal([path[i] EXCEPT ![1] = @ % 128])>>
                \o (IF Hardened(path[i]) THEN <<<<"'">>>> ELSE <<>>)
                \o (IF i # Len(path) THEN <<<<"/">>>> ELSE <<>>)])

PathText(path) == FlattenSeq(Pieces(path))

\* snprintf cuts what does not fit, and what it wrote is measured: only a piece
\* that finds no room at all fails, so a last piece may be cut unnoticed.
bip32_path_format(path, out_len) ==
  LET text == PathText(path)
      room == out_len - 1
  IN IF /\ Len(path) \in 1..MAX_BIP32_PATH
        /\ Len(text) - Len(Last(Pieces(path))) < room
     THEN [ok |-> TRUE, text |-> IF Len(text) <= room THEN text ELSE SubSeq(text, 1, room)]
     ELSE [ok |-> FALSE, text |-> <<>>]

-----------------------------------------------------------------------------
(* base58_encode and base58_decode.  A digit, 0 to 57, stands for its       *)
(* character in BASE58_ALPHABET; other characters are refused, and texts    *)
(* longer than any address.                                                 *)

\* The number of leading zeros, which are kept one by one.
Zeros(s) == CHOOSE k \in 0..Len(s) : /\ \A i \in 1..k : s[i] = 0
                                     /\ k < Len(s) => s[k + 1] # 0

\* Mutant: the addition stops at the first digit that carries nothing.
StopsAnywhere(j, stop_at, carry) == carry = 0

\* Nothing is carried, past the digits that the bytes before have reached.
\* stop_at is unsigned: every index is at most stop_at - 1 when it is 0.
Stops(j, stop_at, carry) == carry = 0 /\ (j < stop_at \/ stop_at <= 0)

Running == -1

\* digits := 256 * digits + byte, from the last digit up to where it stops.
AddByte(s, byte) ==
  LET n == Len(s.digits)
      pass[p \in 1..(n + 1)] ==
        IF p = n + 1 THEN [digits |-> <<>>, carry |-> byte, stop_at |-> Running]
        ELSE LET after == pass[p + 1]
                 sum == 256 * s.digits[p] + after.carry
             IN IF after.stop_at # Running
                THEN [after EXCEPT !.digits = <<s.digits[p]>> \o @]
                ELSE [digits |-> <<sum % 58>> \o after.digits,
                      carry |-> sum \div 58,
                      stop_at |-> IF Stops(p - 1, s.stop_at, sum \div 58) THEN p - 1 ELSE Running]
  IN pass[1]

\* The digits of base58_encode, most significant first, for a buffer that holds
\* them: it returns -1 otherwise, and prepare_display_output does not look at it.
base58_encode(bytes) ==
  LET zeros == Zeros(bytes)
      size == ((Len(bytes) - zeros) * 138) \div 100 + 1
      added[i \in zeros..Len(bytes)] ==
        IF i = zeros THEN [digits |-> [j \in 1..size |-> 0], stop_at |-> size - 1]
                     ELSE AddByte(added[i - 1], bytes[i])
      digits == added[Len(bytes)].digits
  IN [j \in 1..zeros |-> 0] \o SubSeq(digits, Zeros(digits) + 1, size)

\* Division by 256 again and again; the remainders are the bytes, last first.
base58_decode(digits) ==
  LET zeros == Zeros(digits)
      bytes[i \in 0..(Len(digits) - zeros)] ==
        IF i = 0 THEN [rest |-> digits, bytes |-> <<>>]
        ELSE LET before == bytes[i - 1]
                 division == Division(before.rest, 58, 256)
             IN [rest |-> division.quot, bytes |-> <<division.rem>> \o before.bytes]
      all == bytes[Len(digits) - zeros].bytes
  IN [j \in 1..zeros |-> 0] \o SubSeq(all, Zeros(all) + 1, Len(all))

-----------------------------------------------------------------------------
(* The buffers of display.c, and the number of characters written to them.  *)

\* Mutant: a buffer for the paths one usually sees.
UsualPathSize == 40

B58_ADDRESS_LEN == 35   \* g_address
AMOUNT_SIZE == 30       \* g_amount
PATH_SIZE == 60         \* g_bip32_path, in a build with UI_SHOW_PATH
UID_SIZE == 65          \* g_token_uid

\* prepare_display_output: the symbol of the token, a blank, and the amount.
AmountLength(symbol_len, n) == symbol_len + 1 + Len(format_value(n))

===============================================================================
