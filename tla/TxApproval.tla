------------------------------ MODULE TxApproval ------------------------------
(* What SIGN_TX promises: nothing is signed before the user approved the     *)
(* transaction as a whole, and the user is asked for that only after every   *)
(* output that arrived was reviewed, but for those the host declared as      *)
(* change.  There are no chunks, no buffers, no counters and no screens      *)
(* here, and any of it may fail at any moment.                               *)
(*                                                                           *)
(* That everything has arrived is promised for a transaction without change  *)
(* only: the program counts a change output as confirmed before it arrives.  *)
EXTENDS Integers, Sequences

CONSTANTS Txs, NoTx

VARIABLES
  stage,      \* how far the user and the host are
  tx,         \* the transaction, NoTx before one is begun
  received,   \* outputs of tx that have arrived
  reviewed,   \* those of them that the user approved one by one
  digests     \* what was signed for tx

vars == <<stage, tx, received, reviewed, digests>>

Arrived == 0..(received - 1)
DeclaredChange == {tx.change[k].index : k \in DOMAIN tx.change}

NoneBegun == tx = NoTx /\ received = 0 /\ reviewed = {} /\ digests = {}

Init == stage = "idle" /\ NoneBegun

Begin == /\ stage = "idle"
         /\ stage' = "review"
         /\ tx' \in Txs
         /\ received' = 0
         /\ reviewed' = {}
         /\ digests' = {}

Receive == /\ stage = "review"
           /\ received < Len(tx.outputs)
           /\ received' = received + 1
           /\ UNCHANGED <<stage, tx, reviewed, digests>>

Review == /\ stage = "review"
          /\ \E i \in Arrived : reviewed' = reviewed \cup {i}
          /\ UNCHANGED <<stage, tx, received, digests>>

Ask == /\ stage = "review"
       /\ Arrived \subseteq reviewed \cup DeclaredChange
       /\ tx.change = <<>> => received = Len(tx.outputs)
       /\ stage' = "ask"
       /\ UNCHANGED <<tx, received, reviewed, digests>>

Approve == /\ stage = "ask"
           /\ stage' = "approved"
           /\ UNCHANGED <<tx, received, reviewed, digests>>

\* All signatures are over one digest.
Sign(d) == /\ stage = "approved"
           /\ digests \subseteq {d}
           /\ digests' = {d}
           /\ UNCHANGED <<stage, tx, received, reviewed>>

\* Rejected, malformed, out of order, disconnected, or done.
Forget == stage' = "idle" /\ NoneBegun'

Next == \/ Begin \/ Receive \/ Review \/ Ask \/ Approve \/ Forget
        \/ \E d \in 1..2 : Sign(d)

Spec == Init /\ [][Next]_vars

===============================================================================
