------------------------------- MODULE Parsers -------------------------------
(* The parsers of what the host sends: the change info and the header of a   *)
(* transaction (src/handler/sign_tx.c), its outputs                          *)
(* (src/transaction/deserialize.c) and a token (src/token/token_parser.c).   *)
(*                                                                           *)
(* A parser returns what it read and where it stopped, or the exception that *)
(* it throws.                                                                *)
EXTENDS Buffers

OK == "OK"

-----------------------------------------------------------------------------
(* read_change_info.                                                        *)

TX_MAX_TOKENS == 10

ChangeRead(sw, buf, change) == [sw |-> sw, buf |-> buf, change |-> change]
TooShort(b) == ChangeRead("WRONG_DATA_LENGTH", b, <<>>)

\* Old protocol: the low bits of the first byte are the length of the path,
\* then come the index and the levels of the path, of one change output.
OldChange(first, b) ==
  LET index == U8(b)
      len == first % 16
      levels == Take(index.buf, 4 * len)
      path == bip32_path_read(<<len>> \o levels.value)
  IN IF index.ok /\ len <= MAX_BIP32_PATH /\ levels.ok /\ path.ok
     THEN ChangeRead(OK, levels.buf, <<[index |-> index.value[1], path |-> path.path]>>)
     ELSE TooShort(b)

\* Mutant: the index follows the path, as in no version of the protocol.
EntryIndexLast(b) ==
  LET path == buffer_read_bip32_path(b)
      index == U8(path.buf)
  IN [ok |-> index.ok /\ path.ok, buf |-> index.buf,
      value |-> IF index.ok THEN [index |-> index.value[1], path |-> path.value] ELSE <<>>]

\* An entry of the new protocol: the index, then the path with its length.
Entry(b) ==
  LET index == U8(b)
      path == buffer_read_bip32_path(index.buf)
  IN [ok |-> index.ok /\ path.ok, buf |-> path.buf,
      value |-> IF index.ok THEN [index |-> index.value[1], path |-> path.value] ELSE <<>>]

\* New protocol: the number of entries, then the entries.
NewChange(b) ==
  LET count == U8(b)
      n == IF count.ok THEN count.value[1] ELSE 0
      read[i \in 0..n] ==
        IF i = 0 THEN [ok |-> count.ok, buf |-> count.buf, change |-> <<>>]
        ELSE LET before == read[i - 1]
                 e == Entry(before.buf)
             IN [ok |-> before.ok /\ e.ok, buf |-> e.buf,
                 change |-> Append(before.change, e.value)]
      all == read[n]
  IN IF n <= TX_MAX_TOKENS + 1 /\ all.ok THEN ChangeRead(OK, all.buf, all.change) ELSE TooShort(b)

read_change_info(b) ==
  LET version == U8(b)
      first == version.value[1]
  IN CASE ~version.ok -> TooShort(b)
       [] version.ok /\ first = 0 -> ChangeRead(OK, version.buf, <<>>)
       [] version.ok /\ first >= 128 -> OldChange(first, version.buf)
       [] version.ok /\ first = 1 -> NewChange(version.buf)
       [] OTHER -> ChangeRead("INVALID_TX", version.buf, <<>>)

\* read_tx_data: the header of the transaction.
read_tx_data(b) ==
  LET version == U16(b)
      tokens == U8(version.buf)
      inputs == U8(tokens.buf)
      outputs == U8(inputs.buf)
  IN IF version.ok /\ tokens.ok /\ inputs.ok /\ outputs.ok
     THEN [sw |-> OK, buf |-> outputs.buf, tx_version |-> version.value,
           remaining_tokens |-> tokens.value[1], remaining_inputs |-> inputs.value[1],
           outputs_len |-> outputs.value[1]]
     ELSE [sw |-> "WRONG_DATA_LENGTH"]

-----------------------------------------------------------------------------
(* parse_output.                                                            *)

OP_DUP == 118
OP_HASH160 == 169
OP_EQUALVERIFY == 136
OP_CHECKSIG == 172
PUBKEY_HASH_LEN == 20
P2PKH_LEN == 25

P2pkhHead == <<OP_DUP, OP_HASH160, PUBKEY_HASH_LEN>>
P2pkhTail == <<OP_EQUALVERIFY, OP_CHECKSIG>>

\* Two's complement: every bit is inverted, and one is added.
Negated(n) ==
  LET carry[i \in 1..(Len(n) + 1)] ==
        IF i > Len(n) THEN 1 ELSE IF carry[i + 1] = 1 /\ n[i] = 0 THEN 1 ELSE 0
  IN [i \in 1..Len(n) |-> (255 - n[i] + carry[i + 1]) % 256]

Widened(n) == <<0, 0, 0, 0>> \o n

\* Mutant: the sign of the long form is kept.
OutputValueSigned(b) == IF b.ptr[1] >= 128 THEN ReadInt(b, 8, "BE")
                        ELSE LET r == ReadInt(b, 4, "BE")
                             IN IF r.ok THEN [r EXCEPT !.value = Widened(@)] ELSE r

\* The first bit tells the eight bytes of a negated value from four bytes.
parse_output_value(b) ==
  LET r == ReadInt(b, IF b.ptr[1] >= 128 THEN 8 ELSE 4, "BE")
  IN IF ~r.ok THEN r
     ELSE [r EXCEPT !.value = IF b.ptr[1] >= 128 THEN Negated(@) ELSE Widened(@)]

\* "READY" asks for more bytes, "PARSING_FAIL" refuses the output.
parse_output(bytes) ==
  LET value == parse_output_value(Fresh(bytes))
      token_data == U8(value.buf)
      script_len == U16(token_data.buf)
      script == Take(script_len.buf, P2PKH_LEN)
  IN IF ~value.ok \/ ~token_data.ok \/ ~script_len.ok THEN [sw |-> "READY"]
     ELSE CASE Number(script_len.value) # P2PKH_LEN -> [sw |-> "PARSING_FAIL"]
       [] Number(script_len.value) = P2PKH_LEN /\ ~script.ok -> [sw |-> "READY"]
       [] OTHER ->
            IF /\ SubSeq(script.value, 1, 3) = P2pkhHead
               /\ SubSeq(script.value, 24, 25) = P2pkhTail
            THEN [sw |-> OK, value |-> value.value, token_data |-> token_data.value[1],
                  hash |-> SubSeq(script.value, 4, 23), size |-> script.buf.offset]
            ELSE [sw |-> "PARSING_FAIL"]

-----------------------------------------------------------------------------
(* parse_token.                                                             *)

TOKEN_UID_LEN == 32
MAX_TOKEN_SYMBOL_LEN == 5
MAX_TOKEN_NAME_LEN == 30

\* is_printable: a zero byte ends the text, and what follows is not looked at.
Printable(text) == \A i \in DOMAIN text :
  \/ text[i] \in 32..127
  \/ \E j \in 1..i : text[j] = 0

\* A byte of length and as many characters, at most max of them.
Text(b, max) == LET len == U8(b)
                IN IF len.ok THEN buffer_read_bytes(len.buf, max, len.value[1]) ELSE len

parse_token(b) ==
  LET version == U8(b)
      uid == buffer_read_bytes(version.buf, TOKEN_UID_LEN, TOKEN_UID_LEN)
      symbol == Text(uid.buf, MAX_TOKEN_SYMBOL_LEN)
      name == Text(symbol.buf, MAX_TOKEN_NAME_LEN)
      ok == version.ok /\ uid.ok /\ symbol.ok /\ name.ok
  IN [ok |-> ok /\ Printable(symbol.value) /\ Printable(name.value),
      buf |-> name.buf,
      token |-> IF ok THEN [version |-> version.value[1], uid |-> uid.value,
                            symbol |-> symbol.value, name |-> name.value]
                ELSE [version |-> 0, uid |-> <<>>, symbol |-> <<>>, name |-> <<>>]]

===============================================================================
