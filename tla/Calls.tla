-------------------------------- MODULE Calls --------------------------------
(* The pure functions of the application, called with one input after the    *)
(* other, and compared with what they are for: the encodings of the host     *)
(* (tests/app_client/transaction.py), the numbers that a text stands for,    *)
(* and the step by step review of SignTx.                                    *)
EXTENDS HostBytes, Texts, ReviewSkip, FiniteSets

CONSTANTS
  Cursors,        \* buffers
  Distances,      \* values of a size_t
  ChangeLists,    \* change infos
  Rests,          \* bytes behind a change info
  Outputs,        \* outputs, proper and faulty ones
  TokenData,      \* tokens
  Amounts,        \* values
  SymbolLengths,  \* lengths of the symbol before an amount
  Paths,          \* BIP32 paths
  Addresses,      \* bytes to encode in base58
  Reviews,        \* counters of a review
  IndexLists      \* change indices

VARIABLE input    \* of the call, or NoInput

-----------------------------------------------------------------------------
(* The numbers that texts stand for.                                        *)

\* n * m + a, on eight bytes.
MulAdd(n, m, a) ==
  LET pass[i \in 1..9] == IF i = 9 THEN [bytes |-> <<>>, carry |-> a]
                          ELSE LET after == pass[i + 1]
                                   sum == n[i] * m + after.carry
                               IN [bytes |-> <<sum % 256>> \o after.bytes, carry |-> sum \div 256]
  IN pass[1].bytes

FromDigits(ds) ==
  LET n[i \in 0..Len(ds)] == IF i = 0 THEN <<0, 0, 0, 0, 0, 0, 0, 0>> ELSE MulAdd(n[i - 1], 10, ds[i])
  IN n[Len(ds)]

DigitOf(char) == CHOOSE d \in 0..9 : Digit[d + 1] = char
IsDigit(char) == \E d \in 1..10 : Digit[d] = char

-----------------------------------------------------------------------------
(* What is passed to the functions.                                         *)

\* A level of a path.
Levels == {l \in Seq(Byte) : Len(l) = 4}

ASSUME CursorsAssumption == Cursors \subseteq Buffer /\ Distances \subseteq Sizes

\* A command of a host has at most 255 bytes, many fewer than a size_t counts.
ASSUME ChangeAssumption ==
  /\ \A change \in ChangeLists :
       /\ change \in Seq([index : Byte, path : Seq(Levels)])
       /\ Len(change) \in Byte
       /\ \A k \in DOMAIN change : Len(change[k].path) <= MAX_BIP32_PATH
  /\ \A rest \in Rests : rest \in Seq(Byte) /\ Len(rest) >= 5
  /\ \A change \in ChangeLists, rest \in Rests : Len(EncodeNew(change) \o rest) < SizeMod

\* The long form has room for 2^63 at most.
ASSUME OutputsAssumption ==
  \A o \in Outputs :
    /\ o.value \in Seq(Byte) /\ Len(o.value) = 8
    /\ o.value[1] < 128 \/ o.value = <<128, 0, 0, 0, 0, 0, 0, 0>>
    /\ o.token_data \in Byte
    /\ o.len \in Seq(Byte) /\ Len(o.len) = 2
    /\ o.script \in Seq(Byte) /\ Len(o.script) = P2PKH_LEN
    /\ Len(EncodeOutput(o)) + 3 < SizeMod

ASSUME TokensAssumption ==
  \A t \in TokenData :
    /\ t \in [version : Byte, uid : Seq(Byte), symbol : Seq(Byte), name : Seq(Byte)]
    /\ Len(t.uid) = TOKEN_UID_LEN /\ Len(t.symbol) \in Byte /\ Len(t.name) \in Byte
    /\ Len(EncodeToken(t)) + 2 < SizeMod

\* Byte counters, the first of them far from its end, as it counts the entries
\* of outputs[]; no output has the index 255.
ASSUME ReviewsAssumption ==
  /\ IndexLists \subseteq Seq(0..254)
  /\ Reviews \subseteq [display_index : Byte, confirmed_outputs : Byte,
                       buffer_output_len : Byte, outputs_len : Byte, next : {"none"}]
  /\ \A r \in Reviews, change \in IndexLists : r.display_index + Len(change) + 2 \in Byte

-----------------------------------------------------------------------------
(* The calls.                                                               *)

NoInput == [kind |-> "none"]

CallBuffer == \E buf \in Cursors, n, out_len \in Distances :
  input' = [kind |-> "buffer", buf |-> buf, n |-> n, out_len |-> out_len]
CallChange == \E change \in ChangeLists, rest \in Rests :
  input' = [kind |-> "change", change |-> change, rest |-> rest]
CallOutput == \E o \in Outputs : input' = [kind |-> "output", output |-> o]
CallToken == \E t \in TokenData : input' = [kind |-> "token", token |-> t]
CallAmount == \E n \in Amounts, len \in SymbolLengths :
  input' = [kind |-> "amount", value |-> n, symbol_len |-> len]
CallPath == \E p \in Paths : input' = [kind |-> "path", path |-> p]
CallAddress == \E a \in Addresses : input' = [kind |-> "address", bytes |-> a]
CallSkip == \E r \in Reviews, change \in IndexLists :
  input' = [kind |-> "skip", review |-> r, change |-> change]

Call == /\ input = NoInput
        /\ \/ CallBuffer \/ CallChange \/ CallOutput \/ CallToken
           \/ CallAmount \/ CallPath \/ CallAddress \/ CallSkip
Return == input # NoInput /\ input' = NoInput

Init == input = NoInput
Next == Call \/ Return
Spec == Init /\ [][Next]_input

-----------------------------------------------------------------------------
(* Properties.                                                              *)

\* The cursor never leaves the buffer, whatever is asked for, near the end of
\* the range of size_t too; an operation succeeds exactly when what it needs is
\* there, then it has read and passed exactly that, and otherwise it changes
\* nothing (buffer.c:7-161).
CursorStays == input.kind = "buffer" => CursorKept(input.buf, input.out_len, input.n)

HeaderReads(b, bytes) ==
  LET r == read_tx_data(b)
  IN /\ r.sw = "OK"
     /\ r.tx_version \o <<r.remaining_tokens, r.remaining_inputs, r.outputs_len>> = SubSeq(bytes, 1, 5)
     /\ LeftBytes(r.buf) = SubSeq(bytes, 6, Len(bytes))

\* The change info is read as the host wrote it, in the old protocol and the
\* new one, and the header of the transaction right behind it; a part of it, a
\* path that is not accepted, or too many entries are refused
\* (sign_tx.c:68-202).
ChangeInfoRead == input.kind = "change" =>
  LET change == input.change
      Reads(code) ==
        LET r == read_change_info(Fresh(code \o input.rest))
        IN /\ Len(change) <= TX_MAX_TOKENS + 1 /\ (\A k \in DOMAIN change : Accepted(change[k].path)) =>
                /\ r.sw = "OK" /\ r.change = change /\ LeftBytes(r.buf) = input.rest
                /\ HeaderReads(r.buf, input.rest)
           /\ (\E k \in DOMAIN change : ~Accepted(change[k].path)) => r.sw = "WRONG_DATA_LENGTH"
      RefusesPrefixes(code) ==
        \A i \in 0..(Len(code) - 1) : read_change_info(Fresh(SubSeq(code, 1, i))).sw # "OK"
      Codes == {EncodeNew(change)} \cup (IF Len(change) = 1 THEN {EncodeOld(change[1])} ELSE {})
                                   \cup (IF change = <<>> THEN {<<0>>} ELSE {})
  IN /\ \A code \in Codes : Reads(code) /\ RefusesPrefixes(code)
     /\ Len(change) > TX_MAX_TOKENS + 1 => read_change_info(Fresh(EncodeNew(change))).sw # "OK"

\* An output is decoded to what the host encoded, amounts of four and of eight
\* bytes, and never before its last byte arrived: until then more is asked for,
\* or an output is refused that no more bytes can mend.  SignTx rests on this
\* (deserialize.c:41-89).
OutputRead == input.kind = "output" =>
  LET o == input.output
      code == EncodeOutput(o)
      head == Len(code) - P2PKH_LEN
      wellFormed == o.len = <<0, 25>> /\ o.script = Script(SubSeq(o.script, 4, 23))
      At(n) == parse_output(SubSeq(code \o <<1, 2, 3>>, 1, n)).sw
  IN /\ \A n \in 1..(head - 1) : At(n) = "READY"
     /\ \A n \in head..(Len(code) - 1) : At(n) = IF o.len = <<0, 25>> THEN "READY" ELSE "PARSING_FAIL"
     /\ \A n \in Len(code)..(Len(code) + 3) : At(n) = IF wellFormed THEN "OK" ELSE "PARSING_FAIL"
     /\ wellFormed => parse_output(code \o <<1, 2, 3>>) =
          [sw |-> "OK", value |-> o.value, token_data |-> o.token_data,
           hash |-> SubSeq(o.script, 4, 23), size |-> Len(code)]

\* A token is read as the host wrote it, and the signature begins right behind
\* it; what does not fit the fields, or cannot be shown, is refused
\* (token_parser.c:8-42).
TokenRead == input.kind = "token" =>
  LET t == input.token
      r == parse_token(Fresh(EncodeToken(t) \o <<9, 9>>))
  IN /\ r.ok <=> /\ Len(t.symbol) <= 5 /\ Len(t.name) <= 30
                 /\ Printable(t.symbol) /\ Printable(t.name)
     /\ r.ok => r.token = t /\ LeftBytes(r.buf) = <<9, 9>>
     /\ \A i \in 0..(Len(EncodeToken(t)) - 1) : ~parse_token(Fresh(SubSeq(EncodeToken(t), 1, i))).ok

ElementsRead == OutputRead /\ TokenRead

\* An amount in its text: groups of three digits, a point, two digits.
AmountReads(text, n) ==
  LET digits == SelectSeq(text, IsDigit)
      point == Len(text) - 2
  IN /\ FromDigits([i \in DOMAIN digits |-> DigitOf(digits[i])]) = n
     /\ \A i \in DOMAIN text : CASE i = point -> text[i] = "."
                                 [] i < point /\ (point - i) % 4 = 0 -> text[i] = ","
                                 [] OTHER -> IsDigit(text[i])
     /\ text[1] = "0" => point = 2

\* A level of a path, read from its text: digits, and a quote if it is hardened.
LevelReads(text, level) ==
  LET hard == Last(text) = "'"
      digits == IF hard THEN Front(text) ELSE text
  IN /\ digits # <<>> /\ \A i \in DOMAIN digits : IsDigit(digits[i])
     /\ hard = Hardened(level)
     /\ SubSeq(FromDigits([i \in DOMAIN digits |-> DigitOf(digits[i])]), 5, 8) =
          [level EXCEPT ![1] = @ % 128]

PathReads(text, path) ==
  LET slashes == {0, Len(text) + 1} \cup {i \in DOMAIN text : text[i] = "/"}
      Nth(k) == CHOOSE i \in slashes : Cardinality({j \in slashes : j < i}) = k
  IN /\ Cardinality(slashes) = Len(path) + 1
     /\ \A k \in DOMAIN path : LevelReads(SubSeq(text, Nth(k - 1) + 1, Nth(k) - 1), path[k])

\* Nothing the user approves is misread: an amount, a path and an address in
\* their texts stand for the number, the levels and the bytes they were made
\* from, so that two of them never look the same (format.c, base58.c, bip32.c).
TextReadsBack ==
  /\ input.kind = "amount" => AmountReads(format_value(input.value), input.value)
  /\ input.kind = "path" /\ Len(input.path) > 0 => PathReads(PathText(input.path), input.path)
  /\ input.kind = "address" => base58_decode(base58_encode(input.bytes)) = input.bytes

\* What is shown is the whole text: the path of every command that is accepted,
\* which bip32_path_format could also cut without a word, every address, of which
\* nothing would be left, every token uid, and every amount of HTR or another
\* symbol of three characters (display.c:18-29, 303-309, 385-388).
TextFits ==
  /\ input.kind = "path" /\ Accepted(input.path) /\ input.path # <<>> =>
       bip32_path_format(input.path, PATH_SIZE) = [ok |-> TRUE, text |-> PathText(input.path)]
  /\ input.kind = "address" /\ Len(input.bytes) = 25 =>
       Len(base58_encode(input.bytes)) < B58_ADDRESS_LEN
  /\ input.kind = "amount" /\ input.symbol_len <= 3 =>
       AmountLength(input.symbol_len, input.value) < AMOUNT_SIZE
  /\ input.kind = "token" => Len(format_hex(input.token.uid)) < UID_SIZE

\* The pass over the sorted change indices, before and after an output is
\* shown, does what the steps of SignTx do: it goes on as long as the next
\* output is change, for indices in any order, repeated, or of no output, and
\* stops where the review of the chunk or of the transaction ends, but for the
\* first output after one was confirmed (display.c:233-348).
SkipIsRun == input.kind = "skip" =>
  LET change == {input.change[k] : k \in DOMAIN input.change}
      IsChange(r) == r.confirmed_outputs \in change
      Ends(r) == check_output_index_state(r).next # "none"
      Settled(r) ==
        LET At(k) == [r EXCEPT !.display_index = @ + k, !.confirmed_outputs = @ + k]
            k == CHOOSE n \in 0..Len(input.change) :
                   /\ Ends(At(n)) \/ ~IsChange(At(n))
                   /\ \A m \in 0..(n - 1) : ~Ends(At(m)) /\ IsChange(At(m))
        IN check_output_index_state(At(k))
      next == Advance(input.review)
  IN /\ prepare_display_output(input.review, input.change) = Settled(input.review)
     /\ ui_confirm_output(input.review, input.change) =
          Settled(IF IsChange(next) THEN Advance(next) ELSE next)

===============================================================================
