------------------------------- MODULE MCTokens -------------------------------
(* An instance of Tokens for TLC: two tokens whose symbol and name run into  *)
(* the same message, and one of another uid.                                 *)
EXTENDS Tokens

Tok(uid, symbol, name) == [uid |-> uid, symbol |-> symbol, name |-> name, version |-> 1]

MCTokenData == {Tok("u1", <<"A", "B">>, <<"C">>), Tok("u1", <<"A">>, <<"B", "C">>),
                Tok("u2", <<"D">>, <<"C">>)}

===============================================================================
