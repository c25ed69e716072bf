------------------------------- MODULE MCSignTx -------------------------------
(* Instances of SignTx for TLC: transactions and chunk sizes.              *)
EXTENDS SignTxInv

CONSTANTS k1, k2

MCKeys == {k1, k2}

Short(k) == [len |-> 32, script |-> "p2pkh", token_data |-> 0, key |-> k]
Long(k) == [Short(k) EXCEPT !.len = 36]
OfToken(out, d) == [out EXCEPT !.token_data = d]
Chg(i, path) == [index |-> i, path |-> path]

MCTx(tokens, inputs, outputs, change) ==
  [tokens |-> tokens, inputs |-> inputs, outputs |-> outputs, change |-> change]

\* No change output: of two sizes and of a custom token.
Plain == {MCTx(0, 2, <<Short(k1), Long(k2), Short(k1)>>, <<>>),
          MCTx(1, 1, <<OfToken(Long(k1), 1), Short(k2)>>, <<>>)}

\* Change at the beginning, in the middle, at the end, of two outputs in a row.
WithChange ==
  {MCTx(0, 1, <<Short(k1), Short(k2), Long(k1)>>, <<Chg(i, IF i = 1 THEN k2 ELSE k1)>>) :
     i \in 0..2}
  \cup {MCTx(1, 0, <<Short(k1), Short(k2), Short(k2), Short(k1)>>, <<Chg(2, k2), Chg(1, k2)>>)}

\* Every change info of at most two entries for three outputs: in any order,
\* twice the same output, no output of the transaction (the path of such an entry
\* is never looked at), a wrong or refused path.
AnyChange ==
  LET outputs == <<Short(k1), Short(k2), Long(k1)>>
      entries == {Chg(i, p) : i \in 0..2, p \in {k1, k2, Refused}} \cup {Chg(3, k1)}
  IN {MCTx(0, 1, outputs, <<e>>) : e \in entries}
     \cup {MCTx(0, 1, outputs, <<e, f>>) : e, f \in {d \in entries : d.path # Refused}}

\* Outputs and change entries that must be refused.
Faulty ==
  {MCTx(0, 0, <<Short(k1), [Short(k2) EXCEPT !.script = s]>>, <<>>) : s \in {"length", "opcodes"}}
  \cup {MCTx(1, 0, <<Short(k1), OfToken(Short(k2), d)>>, <<>>) : d \in {2, 129}}
  \cup {MCTx(0, 1, <<Short(k1), Short(k2)>>, <<Chg(1, k2), Chg(1, p)>>) : p \in {k1, Refused}}

\* More outputs than one chunk can hold, and than outputs[] can.
Many == {MCTx(0, 0, [i \in 1..10 |-> Short(k1)], <<>>),
         MCTx(0, 0, [i \in 1..10 |-> Short(k1)], <<Chg(8, k1), Chg(0, k1)>>),
         MCTx(0, 0, [i \in 1..12 |-> Short(k1)], <<Chg(3, k1)>>)}

\* One and two tokens more than the arrays of the instance hold.
TooManyTokens == {MCTx(3, 0, <<OfToken(Short(k1), 3)>>, <<>>), MCTx(4, 0, <<Short(k1)>>, <<>>)}

AllTxs == TooManyTokens \cup Plain \cup WithChange \cup AnyChange \cup Faulty \cup Many

\* A change output right after the outputs of the first chunk.
SplitBeforeChange == {MCTx(0, 0, <<Short(k1), Short(k2), Short(k1)>>, <<Chg(2, k1)>>)}

\* The change index is the number of outputs, as tests/test_sign_cmd.py draws it.
ChangePastEnd == {MCTx(0, 0, <<Short(k1), Short(k2)>>, <<Chg(2, k2)>>)}

\* One token more than tokens[] has room for: the same one, say.
ElevenTokens == {MCTx(11, 0, <<Short(k1)>>, <<>>)}

OnePlain == {MCTx(0, 1, <<Short(k1), Short(k2)>>, <<>>)}

===============================================================================
