----------------------------- MODULE RequestReply -----------------------------
(***************************************************************************)
(* What the application promises its host, whatever it does inside: each   *)
(* command is answered at most once, nothing is sent that no command asked *)
(* for, and what needs the consent of the user is given only with it.      *)
(* AppIo is shown to implement this.                                       *)
(***************************************************************************)
EXTENDS Integers

CONSTANTS
  Commands,      \* the commands of the host
  NoCommand,     \* before the first one
  NeedsConsent,  \* those whose success the user must approve
  StatusWords    \* the answers, "OK" among them

VARIABLES
  owed,     \* commands received and not answered
  cmd,      \* the last command received
  consent,  \* whether the user approved it
  sent      \* the last answer

vars == <<owed, cmd, consent, sent>>

Init == owed = 0 /\ cmd = NoCommand /\ consent = FALSE /\ sent = "NONE"

Receive(c) == /\ owed = 0
              /\ owed' = 1
              /\ cmd' = c
              /\ consent' = FALSE
              /\ UNCHANGED sent

Answer(sw) == /\ owed = 1
              /\ owed' = 0
              /\ consent' \in {consent, TRUE}
              /\ sw = "OK" /\ cmd \in NeedsConsent => consent'
              /\ sent' = sw
              /\ UNCHANGED cmd

\* The device restarts; the host sees it disconnect.
Disconnect == owed' = 0 /\ UNCHANGED <<cmd, consent, sent>>

Next == \/ \E c \in Commands : Receive(c)
        \/ \E sw \in StatusWords : Answer(sw)
        \/ Disconnect

Spec == Init /\ [][Next]_vars

===============================================================================
