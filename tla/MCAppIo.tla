-------------------------------- MODULE MCAppIo --------------------------------
(* An instance of AppIo for TLC: every instruction with parameters on both   *)
(* sides of each check of the dispatcher, and commands that do not parse.    *)
EXTENDS AppIo

Good(i, p) == [parses |-> TRUE, cla |-> TRUE, ins |-> i, p1 |-> p, p2 |-> 0, data |-> TRUE]

MCCommands ==
  {Good(i, 0) : i \in Instructions \cup {"OTHER"}}
  \cup {Good("SIGN_TX", p) : p \in 1..3}
  \cup {[Good("SIGN_TX", p) EXCEPT !.data = FALSE] : p \in 0..2}
  \cup {[Good("SIGN_TX", 2) EXCEPT !.data = FALSE, !.p2 = 1], Good("SEND_TOKEN_DATA", 1),
        [Good("SEND_TOKEN_DATA", 0) EXCEPT !.p2 = 1], Good("GET_XPUB", 1),
        [Good("GET_ADDRESS", 0) EXCEPT !.data = FALSE],
        [Good("GET_VERSION", 0) EXCEPT !.parses = FALSE],
        [Good("GET_VERSION", 0) EXCEPT !.cla = FALSE]}

===============================================================================
