------------------------------ MODULE AppIoProofs ------------------------------
(* Proofs about AppIo: its inductive invariant, and that it implements       *)
(* RequestReply.                                                             *)
EXTENDS AppIo, TLAPS

\* A command is being handled: it is owed its answer and nothing is asked yet.
HandlingInv == pc = "handle" => owed = 1 /\ cmd \in Commands /\ ui \notin AskScreens

\* An answer waits in the buffer, and it is one that may be given.
QueuedInv == pc = "recv" /\ io = "READY" =>
  /\ ui \notin AskScreens
  /\ out = 0 => owed = 0
  /\ out > 0 => /\ owed = 1
                /\ buffer \in StatusWords
                /\ buffer = "OK" /\ cmd \in NeedsConsent => consent

\* The handler left its answer to a question.
AskedInv == pc = "recv" /\ io = "RECEIVED" => owed = 1 /\ ui \in AskScreens

\* The screens of a transaction are opened by commands that need no consent.
ScreenInv == pc # "handle" /\ ui \in {"output", "confirm"} => cmd \notin NeedsConsent

IInv == /\ TypeOK /\ IoStateAgrees /\ QuestionIsOwed
        /\ HandlingInv /\ QueuedInv /\ AskedInv /\ ScreenInv

-----------------------------------------------------------------------------
\* No refusal of the parser or the dispatcher is an "OK".
LEMMA RefusalWords ==
  ASSUME NEW c \in Commands
  PROVE  Refusals(c) \subseteq StatusWords \ {"OK"}
BY DEF Refusals, StatusWords

\* No handler of something that needs consent answers "OK" by itself.
LEMMA HandledWords ==
  ASSUME NEW c \in Commands
  PROVE  /\ Handled(c) \subseteq StatusWords
         /\ "OK" \in Handled(c) => c \notin NeedsConsent
<1>1. Handled(c) \subseteq StatusWords
  BY DEF Handled, StatusWords
<1>2. ASSUME Asks(c) \cap ConsentScreens # {} PROVE "OK" \notin Handled(c)
  <2>1. c.ins \in {"GET_ADDRESS", "GET_XPUB", "SIGN_TOKEN_DATA", "RESET_TOKEN_SIGNATURES"}
    BY <1>2 DEF Asks, ConsentScreens
  <2> QED BY <2>1 DEF Handled
<1> QED BY <1>1, <1>2 DEF NeedsConsent

\* What is asked, and that the screens of a transaction stand for no consent.
LEMMA AskedScreens ==
  ASSUME NEW c \in Commands
  PROVE  /\ Asks(c) \subseteq AskScreens
         /\ \A s \in Asks(c) : s \in {"output", "confirm"} => c \notin NeedsConsent
<1>1. Asks(c) \subseteq AskScreens
  BY DEF Asks, AskScreens, ConsentScreens
<1>2. ASSUME NEW s \in Asks(c), s \in {"output", "confirm"} PROVE c \notin NeedsConsent
  <2>1. c.ins = "SIGN_TX"
    BY <1>2 DEF Asks
  <2>2. Asks(c) \subseteq {"output", "confirm"}
    BY <2>1 DEF Asks
  <2> QED BY <2>2 DEF NeedsConsent, ConsentScreens
<1> QED BY <1>1, <1>2

-----------------------------------------------------------------------------
\* A step that restarts the application.
LEMMA BootStep ==
  ASSUME IInv, Boot
  PROVE  IInv' /\ Promise!Next
<1>1. IInv'
  BY MaxOutputsAssumption DEF Boot, IInv, TypeOK, IoStateAgrees, QuestionIsOwed, HandlingInv, QueuedInv,
     AskedInv, ScreenInv, AskScreens, ConsentScreens
<1>2. Promise!Disconnect
  BY DEF Boot, Promise!Disconnect
<1> QED BY <1>1, <1>2 DEF Promise!Next

\* A button answers the command that is owed its answer.
LEMMA ButtonStep ==
  ASSUME IInv, pc = "wait", ui \in AskScreens, NEW sw \in StatusWords, Respond(sw),
         ui' \in {"menu", "processing"}, left' \in 0..MaxOutputs, pc' = pc, cmd' = cmd,
         consent' \in {consent, TRUE},
         sw = "OK" /\ cmd \in NeedsConsent => consent'
  PROVE  IInv' /\ Promise!Next
<1>1. io = "WAITING" /\ owed = 1
  BY DEF IInv, IoStateAgrees, QuestionIsOwed
<1>2. io' = "READY" /\ out' = 0 /\ buffer' = sw /\ owed' = 0 /\ sent' = sw
  BY <1>1 DEF Respond, Transmit
<1>3. TypeOK'
  <2>1. consent' \in BOOLEAN
    BY Zenon DEF IInv, TypeOK
  <2> QED BY <1>2, <2>1 DEF IInv, TypeOK
<1>4. (IoStateAgrees /\ QuestionIsOwed /\ HandlingInv /\ QueuedInv /\ AskedInv /\ ScreenInv)'
  BY <1>2 DEF IoStateAgrees, QuestionIsOwed, HandlingInv, QueuedInv,
     AskedInv, ScreenInv, AskScreens, ConsentScreens
<1>5. Promise!Answer(sw)
  BY <1>1, <1>2 DEF Promise!Answer
<1> QED BY <1>3, <1>4, <1>5 DEF IInv, Promise!Next

\* A handler queues its answer: the host sees nothing yet.
LEMMA HandlerStep ==
  ASSUME IInv, pc = "handle", NEW sw \in StatusWords, Respond(sw),
         sw = "OK" => cmd \notin NeedsConsent,
         pc' = "recv", ui' \in {ui, "menu"}, UNCHANGED <<left, cmd, consent>>
  PROVE  IInv' /\ UNCHANGED Promise!vars
<1>1. io = "RECEIVED" /\ owed = 1 /\ cmd \in Commands /\ ui \notin AskScreens
  BY DEF IInv, IoStateAgrees, HandlingInv
<1>2. io' = "READY" /\ out' = 2 /\ buffer' = sw /\ owed' = owed /\ sent' = sent
  BY <1>1 DEF Respond, Silent
<1>3. IInv'
  BY <1>1, <1>2 DEF IInv, TypeOK, IoStateAgrees, QuestionIsOwed, HandlingInv, QueuedInv,
     AskedInv, ScreenInv, AskScreens, ConsentScreens
<1> QED BY <1>2, <1>3 DEF Promise!vars

\* io_recv_command transmits what is queued, if anything is.
LEMMA RecvReadyStep ==
  ASSUME IInv, RecvReady
  PROVE  IInv' /\ [Promise!Next]_(Promise!vars)
<1>1. CASE out > 0
  <2>1. /\ owed = 1 /\ buffer \in StatusWords /\ ui \notin AskScreens
        /\ buffer = "OK" /\ cmd \in NeedsConsent => consent
    BY <1>1 DEF IInv, QueuedInv, RecvReady
  <2>2. owed' = 0 /\ sent' = buffer /\ consent' = consent /\ cmd' = cmd
    BY <1>1, <2>1 DEF RecvReady, Transmit
  <2>3. Promise!Answer(buffer)
    BY <2>1, <2>2 DEF Promise!Answer
  <2>4. IInv'
    BY <2>1, <2>2 DEF RecvReady, IInv, TypeOK, IoStateAgrees, QuestionIsOwed, HandlingInv, QueuedInv,
       AskedInv, ScreenInv
  <2> QED BY <2>1, <2>3, <2>4 DEF Promise!Next
<1>2. CASE ~(out > 0)
  <2>1. out = 0
    BY <1>2 DEF IInv, TypeOK
  <2>2. owed = 0 /\ ui \notin AskScreens
    BY <2>1 DEF IInv, QueuedInv, RecvReady
  <2>3. UNCHANGED Promise!vars
    BY <1>2 DEF RecvReady, Silent, Promise!vars
  <2>4. IInv'
    BY <1>2, <2>2 DEF RecvReady, Silent, IInv, TypeOK, IoStateAgrees, QuestionIsOwed, HandlingInv,
       QueuedInv, AskedInv, ScreenInv
  <2> QED BY <2>3, <2>4
<1> QED BY <1>1, <1>2

\* io_recv_command waits for the user.
LEMMA RecvReceivedStep ==
  ASSUME IInv, RecvReceived
  PROVE  IInv' /\ UNCHANGED Promise!vars
<1>1. owed = 1 /\ ui \in AskScreens
  BY DEF IInv, AskedInv, RecvReceived
<1>2. UNCHANGED Promise!vars
  BY DEF RecvReceived, Silent, Promise!vars
<1>3. IInv'
  BY <1>1 DEF RecvReceived, Silent, IInv, TypeOK, IoStateAgrees, QuestionIsOwed, HandlingInv,
     QueuedInv, AskedInv, ScreenInv
<1> QED BY <1>2, <1>3

\* A command arrives: nothing is on the screen that it could be confused with.
LEMMA DeliverStep ==
  ASSUME IInv, NEW c \in Commands, Deliver(c)
  PROVE  IInv' /\ Promise!Next
<1>1. ui \notin AskScreens
  BY DEF IInv, QuestionIsOwed, Deliver
<1>2. IInv'
  BY <1>1 DEF Deliver, IInv, TypeOK, IoStateAgrees, QuestionIsOwed, HandlingInv,
     QueuedInv, AskedInv, ScreenInv
<1>3. Promise!Receive(c)
  BY DEF Deliver, Promise!Receive
<1> QED BY <1>2, <1>3 DEF Promise!Next

\* A handler opens a screen.
LEMMA HandlerAsksStep ==
  ASSUME IInv, HandlerAsks
  PROVE  IInv' /\ UNCHANGED Promise!vars
<1>1. io = "RECEIVED" /\ owed = 1 /\ cmd \in Commands
  BY DEF IInv, IoStateAgrees, HandlingInv, HandlerAsks
<1>2. ui' \in AskScreens /\ (ui' \in {"output", "confirm"} => cmd \notin NeedsConsent)
  BY <1>1, AskedScreens DEF HandlerAsks
<1>3. UNCHANGED Promise!vars
  BY DEF HandlerAsks, Silent, Promise!vars
<1>4. left' \in 0..MaxOutputs
  BY MaxOutputsAssumption DEF HandlerAsks
<1>5. IInv'
  BY <1>1, <1>2, <1>4 DEF HandlerAsks, Silent, IInv, TypeOK, IoStateAgrees, QuestionIsOwed,
     HandlingInv, QueuedInv, AskedInv, ScreenInv
<1> QED BY <1>3, <1>5

\* The user goes from screen to screen without an answer being sent.
LEMMA ScreenStep ==
  ASSUME IInv, pc = "wait",
         \/ ui \in {"output"} /\ ui' \in {"output", "confirm"}
         \/ ui \notin AskScreens /\ ui' = "menu",
         left' \in 0..MaxOutputs,
         UNCHANGED <<io, out, buffer, pc, cmd, owed, consent, sent>>
  PROVE  IInv' /\ UNCHANGED Promise!vars
<1>1. IInv'
  BY DEF IInv, TypeOK, IoStateAgrees, QuestionIsOwed, HandlingInv, QueuedInv, AskedInv,
     ScreenInv, AskScreens, ConsentScreens
<1> QED BY <1>1 DEF Promise!vars

\* A step that changes nothing.
LEMMA StutterStep ==
  ASSUME IInv, UNCHANGED vars
  PROVE  IInv' /\ UNCHANGED Promise!vars
BY DEF vars, IInv, TypeOK, IoStateAgrees, QuestionIsOwed, HandlingInv, QueuedInv, AskedInv,
   ScreenInv, Promise!vars

-----------------------------------------------------------------------------
\* Every step keeps the invariant and is a step of RequestReply or invisible.
LEMMA NextStep == IInv /\ [Next]_vars => IInv' /\ [Promise!Next]_(Promise!vars)
<1> SUFFICES ASSUME IInv, [Next]_vars
             PROVE  IInv' /\ [Promise!Next]_(Promise!vars)
  OBVIOUS
<1>1. CASE RecvReady
  BY <1>1, RecvReadyStep
<1>2. CASE RecvReceived
  BY <1>2, RecvReceivedStep
<1>3. CASE Refuse
  <2>1. PICK sw \in Refusals(cmd) : Respond(sw)
    BY <1>3 DEF Refuse
  <2>2. sw \in StatusWords /\ sw # "OK"
    BY <1>3, RefusalWords DEF Refuse, IInv, HandlingInv
  <2> QED BY <1>3, <2>1, <2>2, HandlerStep DEF Refuse
<1>4. CASE HandlerAnswers
  <2>1. PICK sw \in Handled(cmd) : Respond(sw)
    BY <1>4 DEF HandlerAnswers
  <2>2. sw \in StatusWords /\ (sw = "OK" => cmd \notin NeedsConsent)
    BY <1>4, HandledWords DEF HandlerAnswers, IInv, HandlingInv
  <2> QED BY <1>4, <2>1, <2>2, HandlerStep DEF HandlerAnswers
<1>5. CASE HandlerAsks
  BY <1>5, HandlerAsksStep
<1>6. CASE HandlerFails \/ Reset
  BY <1>6, BootStep DEF HandlerFails, Reset
<1>7. CASE Approve
  BY <1>7, ButtonStep DEF Approve, ConsentScreens, AskScreens, StatusWords, IInv, TypeOK
<1>8. CASE ApproveTx
  BY <1>8, ButtonStep DEF ApproveTx, AskScreens, StatusWords, IInv, TypeOK, ScreenInv
<1>9. CASE NextOutput
  <2>1. /\ left' \in 0..MaxOutputs
        /\ pc = "wait" /\ ui = "output" /\ UNCHANGED <<pc, cmd, consent>>
    BY <1>9, MaxOutputsAssumption DEF NextOutput, IInv, TypeOK
  <2>2. CASE ui' = ui /\ Silent /\ UNCHANGED <<io, out, buffer>>
    BY <2>1, <2>2, ScreenStep DEF Silent
  <2>3. CASE ui' = "menu" /\ Respond("INTERNAL_ERROR")
    BY <2>1, <2>3, ButtonStep DEF AskScreens, StatusWords
  <2> QED BY <1>9, <2>2, <2>3 DEF NextOutput
<1>10. CASE LastOutput
  <2>1. left' \in 0..MaxOutputs /\ pc = "wait" /\ ui = "output" /\ UNCHANGED <<pc, cmd, consent>>
    BY <1>10 DEF LastOutput, IInv, TypeOK
  <2>2. CASE ui' = "confirm" /\ Silent /\ UNCHANGED <<io, out, buffer>>
    BY <2>1, <2>2, ScreenStep DEF Silent
  <2>3. ASSUME NEW sw \in {"OK", "INTERNAL_ERROR"}, ui' = "menu", Respond(sw)
        PROVE  IInv' /\ Promise!Next
    BY <2>1, <2>3, ButtonStep DEF AskScreens, StatusWords, IInv, ScreenInv
  <2> QED BY <1>10, <2>2, <2>3 DEF LastOutput
<1>11. CASE Reject
  BY <1>11, ButtonStep, MaxOutputsAssumption DEF Reject, RejectScreens, StatusWords
<1>12. CASE Quit
  BY <1>12, ScreenStep DEF Quit, Silent, AskScreens, ConsentScreens, IInv, TypeOK
<1>13. ASSUME NEW c \in Commands, Deliver(c) PROVE IInv' /\ [Promise!Next]_(Promise!vars)
  BY <1>13, DeliverStep
<1>14. CASE UNCHANGED vars
  BY <1>14, StutterStep
<1> QED
  BY <1>1, <1>2, <1>3, <1>4, <1>5, <1>6, <1>7, <1>8, <1>9, <1>10, <1>11, <1>12, <1>13, <1>14, Zenon
  DEF Next, Device, UserDecision

\* The application starts within the invariant and where RequestReply starts.
LEMMA InitStep == Init => IInv /\ Promise!Init
<1> SUFFICES ASSUME Init PROVE IInv /\ Promise!Init
  OBVIOUS
<1>1. TypeOK
  <2>1. left \in 0..MaxOutputs /\ out \in {0, 2} /\ owed \in {0, 1}
    BY MaxOutputsAssumption DEF Init
  <2> QED BY <2>1, Zenon DEF Init, TypeOK
<1>2. IoStateAgrees /\ QuestionIsOwed /\ HandlingInv /\ QueuedInv /\ AskedInv /\ ScreenInv
  BY DEF Init, IoStateAgrees, QuestionIsOwed, HandlingInv, QueuedInv, AskedInv, ScreenInv,
         AskScreens, ConsentScreens
<1>3. Promise!Init
  BY DEF Init, Promise!Init
<1> QED BY <1>1, <1>2, <1>3 DEF IInv

\* Phase of the main loop, G_io_state, reply length, buffer and screen go together
\* as the parts of IInv say, in every reachable state (io.c:73-129).
THEOREM Invariant == Spec => []IInv
BY InitStep, NextStep, PTL DEF Spec

\* The reply length, the outputs left to show and what the shared buffer holds
\* stay in their types across resets, refusals and reviews (io.c:95-129).
THEOREM TypeCorrect == Spec => []TypeOK
<1>1. IInv => TypeOK
  BY DEF IInv
<1> QED BY <1>1, Invariant, PTL

\* G_io_state agrees with what its readers assume: neither the branch of
\* io_recv_command that gives up the application nor the one of
\* io_send_response that drops the answer is ever taken (io.c:86-89, 114-116).
THEOREM IoStateAgreesHolds == Spec => []IoStateAgrees
<1>1. IInv => IoStateAgrees
  BY DEF IInv
<1> QED BY <1>1, Invariant, PTL

\* No button answers a command other than the one it was shown for
\* (ui/action/validate.c:10-41, io.c:81-85).
THEOREM QuestionIsOwedHolds == Spec => []QuestionIsOwed
<1>1. IInv => QuestionIsOwed
  BY DEF IInv
<1> QED BY <1>1, Invariant, PTL

\* Main loop, io.c, dispatcher and buttons implement RequestReply, for every set
\* of commands: one answer for each, never stale, and nothing that needs the
\* consent of the user without it.
THEOREM Implements == Spec => KeepsPromise
<1>1. IInv /\ [Next]_vars => [Promise!Next]_(Promise!vars)
  BY NextStep
<1>2. Init => Promise!Init
  BY InitStep
<1> QED BY <1>1, <1>2, Invariant, PTL DEF Spec, KeepsPromise, Promise!Spec

===============================================================================
