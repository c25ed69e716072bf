--------------------------------- MODULE AppIo ---------------------------------
(***************************************************************************)
(* How a command travels through the application: the main loop            *)
(* (src/main.c), the receive/send state machine of src/io.c, the           *)
(* dispatcher (src/apdu) and the buttons that answer late (src/ui).        *)
(*                                                                         *)
(* A handler either queues its answer, which the next io_recv_command      *)
(* transmits, or shows a screen and returns: then io_recv_command waits    *)
(* with IO_ASYNCH_REPLY and a button callback transmits the answer from    *)
(* inside of it.  G_io_state tells the two apart, and one buffer holds the *)
(* command and then the answer.  What the handlers compute is abstracted   *)
(* to the ways in which they end; SignTx and Tokens detail them.           *)
(***************************************************************************)
EXTENDS Integers

CONSTANTS
  Commands,    \* the commands the host may send
  NoCommand,   \* before the first one
  MaxOutputs   \* screens of outputs one SIGN_TX call may add to its first

VARIABLES
  io,       \* G_io_state
  out,      \* G_output_len
  buffer,   \* what G_io_apdu_buffer holds
  pc,       \* "recv", "wait" inside of io_exchange, or "handle"
  ui,       \* the flow on the screen
  left,     \* outputs still to be shown by the running SIGN_TX call
  cmd,      \* the last command
  owed,     \* history: commands delivered minus answers transmitted
  consent,  \* history: the user approved the last command
  sent      \* history: the last answer transmitted

vars == <<io, out, buffer, pc, ui, left, cmd, owed, consent, sent>>

-----------------------------------------------------------------------------
Instructions == {"GET_VERSION", "GET_ADDRESS", "GET_XPUB", "SIGN_TX",
                 "SIGN_TOKEN_DATA", "SEND_TOKEN_DATA", "VERIFY_TOKEN_SIGNATURE",
                 "RESET_TOKEN_SIGNATURES"}

\* Lc matches the length, the class is the application's, and the parameters.
Command == [parses : BOOLEAN, cla : BOOLEAN, ins : Instructions \cup {"OTHER"},
            p1 : 0..255, p2 : 0..255, data : BOOLEAN]

ASSUME CommandsAssumption == Commands \subseteq Command /\ NoCommand \notin Commands
ASSUME MaxOutputsAssumption == MaxOutputs \in Nat

StatusWords == {"OK", "DENY", "WRONG_P1P2", "WRONG_DATA_LENGTH", "INS_NOT_SUPPORTED",
                "CLA_NOT_SUPPORTED", "BAD_STATE", "INVALID_TX", "INVALID_SIGNATURE",
                "INTERNAL_ERROR", "OS_ERROR", "SIGNATURE"}

SIGN_TX_P1_DATA == 0
SIGN_TX_P1_SIGN == 1
SIGN_TX_P1_DONE == 2
SIGN_TX_P1_MAX == 2

BadParameters(c) ==
  CASE c.ins = "SIGN_TX" -> \/ c.p1 > SIGN_TX_P1_MAX
                            \/ c.p1 \in {SIGN_TX_P1_SIGN, SIGN_TX_P1_DONE} /\ c.p2 # 0
    [] c.ins = "SEND_TOKEN_DATA" -> c.p2 # 0
    [] OTHER -> c.p1 # 0 \/ c.p2 # 0

BadData(c) == \/ c.ins \in {"GET_ADDRESS", "GET_XPUB"} /\ ~c.data
              \/ c.ins = "SIGN_TX" /\ (c.p1 = SIGN_TX_P1_DONE) = c.data

\* The commands that never reach a handler, and what they are answered.
Refusals(c) ==
  CASE ~c.parses -> {"WRONG_DATA_LENGTH"}
    [] c.parses /\ ~c.cla -> {"CLA_NOT_SUPPORTED"}
    [] c.parses /\ c.cla /\ c.ins = "OTHER" -> {"INS_NOT_SUPPORTED"}
    [] c.parses /\ c.cla /\ c.ins # "OTHER" /\ BadParameters(c) -> {"WRONG_P1P2"}
    [] c.parses /\ c.cla /\ c.ins # "OTHER" /\ ~BadParameters(c) /\ BadData(c) ->
         {"WRONG_DATA_LENGTH"}
    [] OTHER -> {}

\* Mutant: the handler sends the key without asking the user.
HandledWithoutAsking(c) == IF c.ins = "GET_XPUB" THEN {"OK"} ELSE {"INTERNAL_ERROR"}

\* What a handler may answer by itself, exceptions included: the call to the
\* hash throws the error of the system, and app_main answers with it.
Handled(c) ==
  CASE c.ins = "GET_VERSION" -> {"OK"}
    [] c.ins \in {"GET_ADDRESS", "GET_XPUB"} -> {"WRONG_DATA_LENGTH", "INTERNAL_ERROR"}
    [] c.ins = "SIGN_TX" ->
         CASE c.p1 = SIGN_TX_P1_DATA -> {"OK", "BAD_STATE", "INVALID_TX", "WRONG_DATA_LENGTH",
                                          "INTERNAL_ERROR", "OS_ERROR"}
           [] c.p1 = SIGN_TX_P1_SIGN -> {"SIGNATURE", "BAD_STATE", "WRONG_DATA_LENGTH"}
           [] OTHER -> {"OK"}
    [] c.ins = "SIGN_TOKEN_DATA" -> {"INVALID_SIGNATURE"}
    [] c.ins = "SEND_TOKEN_DATA" -> {"OK", "INVALID_SIGNATURE", "INTERNAL_ERROR",
                                     "WRONG_DATA_LENGTH"}
    [] c.ins = "VERIFY_TOKEN_SIGNATURE" -> {"OK", "INVALID_SIGNATURE", "INTERNAL_ERROR"}
    [] OTHER -> {}

\* The screens a handler may leave the answer to.
Asks(c) ==
  CASE c.ins = "GET_ADDRESS" -> {"address"}
    [] c.ins = "GET_XPUB" -> {"xpub"}
    [] c.ins = "SIGN_TX" /\ c.p1 = SIGN_TX_P1_DATA -> {"output", "confirm"}
    [] c.ins = "SIGN_TOKEN_DATA" -> {"token"}
    [] c.ins = "RESET_TOKEN_SIGNATURES" -> {"reset"}
    [] OTHER -> {}

ConsentScreens == {"address", "xpub", "token", "reset"}
AskScreens == ConsentScreens \cup {"output", "confirm"}

\* The address is shown without a button to reject it.
RejectScreens == AskScreens \ {"address"}

-----------------------------------------------------------------------------
Init == /\ io = "READY"
        /\ out = 0
        /\ buffer = "NONE"
        /\ pc = "recv"
        /\ ui = "menu"
        /\ left = 0
        /\ cmd = NoCommand
        /\ owed = 0
        /\ consent = FALSE
        /\ sent = "NONE"

\* Mutant: the length of the last answer survives, and the answer is sent again.
BootKeepsLength == /\ io' = "READY"
                   /\ pc' = "recv"
                   /\ ui' = "menu"
                   /\ left' = 0
                   /\ owed' = 0
                   /\ UNCHANGED <<out, buffer, cmd, consent, sent>>

\* main goes round: the screen, the buffer length and G_io_state are reset, and
\* the host sees the device disconnect.
Boot == /\ io' = "READY"
        /\ out' = 0
        /\ pc' = "recv"
        /\ ui' = "menu"
        /\ left' = 0
        /\ owed' = 0
        /\ UNCHANGED <<buffer, cmd, consent, sent>>

Transmit(sw) == owed' = owed - 1 /\ sent' = sw
Silent == UNCHANGED <<owed, sent>>

\* Mutant: the answer of a button is queued like the answer of a handler.
RespondLater(sw) == /\ buffer' = sw
                    /\ io' = "READY"
                    /\ out' = 2
                    /\ Silent

\* io_send_response: queue the answer, or transmit it from a callback.
Respond(sw) == /\ buffer' = sw
               /\ io' = "READY"
               /\ out' = IF io = "WAITING" THEN 0 ELSE 2
               /\ IF io = "WAITING" THEN Transmit(sw) ELSE Silent

-----------------------------------------------------------------------------
(* io_recv_command.                                                        *)

\* The queued answer goes out, and the next command is waited for.
RecvReady == /\ pc = "recv" /\ io = "READY"
             /\ io' = "RECEIVED"
             /\ pc' = "wait"
             /\ IF out > 0 THEN Transmit(buffer) ELSE Silent
             /\ UNCHANGED <<out, buffer, ui, left, cmd, consent>>

\* Mutant: G_io_state still says that a handler is running.
RecvReceivedAgain == /\ pc = "recv" /\ io = "RECEIVED"
                     /\ pc' = "wait"
                     /\ Silent
                     /\ UNCHANGED <<io, out, buffer, ui, left, cmd, consent>>

\* The handler left its answer to a button.
RecvReceived == /\ pc = "recv" /\ io = "RECEIVED"
                /\ io' = "WAITING"
                /\ pc' = "wait"
                /\ Silent
                /\ UNCHANGED <<out, buffer, ui, left, cmd, consent>>

\* The transport delivers a command only when none is waiting for its answer.
Deliver(c) == /\ pc = "wait" /\ owed = 0
              /\ io' = "RECEIVED"
              /\ buffer' = "COMMAND"
              /\ pc' = "handle"
              /\ cmd' = c
              /\ owed' = 1
              /\ consent' = FALSE
              /\ UNCHANGED <<out, ui, left, sent>>

-----------------------------------------------------------------------------
(* apdu_parser, apdu_dispatcher and the handlers.                          *)

Refuse == /\ pc = "handle"
          /\ \E sw \in Refusals(cmd) : Respond(sw)
          /\ pc' = "recv"
          /\ UNCHANGED <<ui, left, cmd, consent>>

\* A handler answers; several error paths also go back to the menu.
HandlerAnswers == /\ pc = "handle"
                  /\ Refusals(cmd) = {}
                  /\ \E sw \in Handled(cmd) : Respond(sw)
                  /\ pc' = "recv"
                  /\ ui' \in {ui, "menu"}
                  /\ UNCHANGED <<left, cmd, consent>>

HandlerAsks == /\ pc = "handle"
               /\ Refusals(cmd) = {}
               /\ ui' \in Asks(cmd)
               /\ left' \in IF ui' = "output" THEN 0..MaxOutputs ELSE {0}
               /\ pc' = "recv"
               /\ Silent
               /\ UNCHANGED <<io, out, buffer, cmd, consent>>

\* SIGN_TX returns a negative number: app_main returns, its answer is not sent.
HandlerFails == /\ pc = "handle"
                /\ Refusals(cmd) = {} /\ cmd.ins = "SIGN_TX" /\ cmd.p1 # SIGN_TX_P1_DONE
                /\ Boot

-----------------------------------------------------------------------------
(* Buttons: callbacks of the flow on the screen, run inside of io_exchange. *)

Approve == /\ pc = "wait" /\ ui \in ConsentScreens
           /\ Respond("OK")
           /\ consent' = TRUE
           /\ ui' = "menu"
           /\ UNCHANGED <<pc, left, cmd>>

ApproveTx == /\ pc = "wait" /\ ui = "confirm"
             /\ Respond("OK")
             /\ ui' = "processing"
             /\ UNCHANGED <<pc, left, cmd, consent>>

\* The next output is shown, unless its address cannot be computed.
NextOutput == /\ pc = "wait" /\ ui = "output" /\ left > 0
              /\ \/ left' = left - 1 /\ ui' = ui /\ Silent /\ UNCHANGED <<io, out, buffer>>
                 \/ left' = 0 /\ ui' = "menu" /\ Respond("INTERNAL_ERROR")
              /\ UNCHANGED <<pc, cmd, consent>>

\* After the last output that is shown: the question for the whole transaction,
\* the request for more data, or an output whose address cannot be computed.
LastOutput == /\ pc = "wait" /\ ui = "output" /\ left = 0
              /\ \/ ui' = "confirm" /\ Silent /\ UNCHANGED <<io, out, buffer>>
                 \/ ui' = "menu" /\ \E sw \in {"OK", "INTERNAL_ERROR"} : Respond(sw)
              /\ UNCHANGED <<pc, left, cmd, consent>>

\* Mutant: the refusal is shown but not reported.
RejectSilently == /\ pc = "wait" /\ ui \in RejectScreens
                  /\ Silent
                  /\ ui' = "menu"
                  /\ left' = 0
                  /\ UNCHANGED <<io, out, buffer, pc, cmd, consent>>

Reject == /\ pc = "wait" /\ ui \in RejectScreens
          /\ Respond("DENY")
          /\ ui' = "menu"
          /\ left' = 0
          /\ UNCHANGED <<pc, cmd, consent>>

\* "Quit" below "Processing".
Quit == /\ pc = "wait" /\ ui = "processing"
        /\ ui' = "menu"
        /\ Silent
        /\ UNCHANGED <<io, out, buffer, pc, left, cmd, consent>>

\* EXCEPTION_IO_RESET, or "Quit" on the menu and a later start.
Reset == pc = "wait" /\ Boot

UserDecision == Approve \/ ApproveTx \/ NextOutput \/ LastOutput \/ Reject
Device == RecvReady \/ RecvReceived \/ Refuse \/ HandlerAnswers \/ HandlerAsks \/ HandlerFails

Next == \/ Device \/ UserDecision \/ Quit \/ Reset
        \/ \E c \in Commands : Deliver(c)

\* The loop of app_main goes on, and the user decides what is on the screen.
Spec == Init /\ [][Next]_vars /\ WF_vars(Device) /\ WF_vars(UserDecision)

-----------------------------------------------------------------------------
(* Properties.                                                             *)

TypeOK == /\ io \in {"READY", "RECEIVED", "WAITING"}
          /\ out \in {0, 2}
          /\ buffer \in StatusWords \cup {"NONE", "COMMAND"}
          /\ pc \in {"recv", "wait", "handle"}
          /\ ui \in AskScreens \cup {"menu", "processing"}
          /\ left \in 0..MaxOutputs
          /\ cmd \in Commands \cup {NoCommand}
          /\ owed \in {0, 1}
          /\ consent \in BOOLEAN
          /\ sent \in StatusWords \cup {"NONE"}

\* G_io_state is what its three readers rely on: io_recv_command never finds
\* WAITING, whose branch gives up the application (io.c:86-89); a handler runs
\* in RECEIVED and a question to the user in WAITING, so that io_send_response
\* never takes its READY branch, which drops the answer (io.c:114-116).
IoStateAgrees == /\ pc = "recv" => io # "WAITING"
                 /\ pc = "handle" => io = "RECEIVED"
                 /\ pc = "wait" /\ ui \in AskScreens => io = "WAITING"

\* A question stays on the screen exactly as long as its command is owed an
\* answer: no button can answer a later command (ui/action/validate.c:10-41).
QuestionIsOwed == pc = "wait" => (ui \in AskScreens <=> owed = 1)

NeedsConsent == {c \in Commands : /\ Refusals(c) = {}
                                  /\ Asks(c) \cap ConsentScreens # {}}

Promise == INSTANCE RequestReply

\* The application keeps the promise of RequestReply: one answer per command,
\* never an echo of the command or a stale answer, and addresses, keys, token
\* signatures and new secrets only with the approval of the user.
KeepsPromise == Promise!Spec

\* Every command is answered, or the device restarts, if the user decides
\* (main.c:40-82, io.c:73-129).
CommandAnswered == owed = 1 ~> owed = 0

===============================================================================
