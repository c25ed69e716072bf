------------------------------ MODULE MCHathorApp ------------------------------
(* An instance of HathorApp for TLC: two tokens, and transactions that name  *)
(* both or one of them, with outputs of custom tokens between outputs of HTR *)
(* and change.                                                               *)
EXTENDS HathorApp

CONSTANTS k1, k2

MCKeys == {k1, k2}
MCTokenData == {[uid |-> "u1", symbol |-> <<"A">>, name |-> <<"N">>, version |-> 1],
                [uid |-> "u2", symbol |-> <<"B">>, name |-> <<"N">>, version |-> 1]}

Out(k, d) == [len |-> 32, script |-> "p2pkh", token_data |-> d, key |-> k]

MCTx(tokens, inputs, outputs, change) ==
  [tokens |-> tokens, inputs |-> inputs, outputs |-> outputs, change |-> change]

TwoTokens == MCTx(2, 0, <<Out(k1, 2), Out(k1, 1)>>, <<>>)
OneToken == MCTx(1, 1, <<Out(k2, 0), Out(k1, 1), Out(k1, 0)>>, <<[index |-> 0, path |-> k2]>>)

\* Two tokens more than the arrays of the instance hold: a uid may come again.
FourTokens == MCTx(4, 0, <<Out(k1, 3)>>, <<>>)

\* Transactions that are refused, or end the application.
Faulty == {MCTx(0, 0, <<[Out(k1, 0) EXCEPT !.script = "opcodes"]>>, <<>>)}
          \cup {MCTx(0, 0, <<Out(k1, 0)>>, <<[index |-> 0, path |-> p]>>) : p \in {k2, Refused}}

MCTxs == {TwoTokens, OneToken, FourTokens} \cup Faulty
MCUidsOf == [t \in MCTxs |-> CASE t = TwoTokens -> <<"u1", "u2">>
                              [] t = OneToken -> <<"u2">>
                              [] t = FourTokens -> <<"u1", "u1", "u1", "u1">>
                              [] OTHER -> <<>>]

===============================================================================
