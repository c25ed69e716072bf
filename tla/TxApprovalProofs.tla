--------------------------- MODULE TxApprovalProofs ---------------------------
(* SIGN_TX implements TxApproval: every step of SignTx is a step of the      *)
(* abstract specification or leaves its variables alone.                     *)
EXTENDS SignTxProofs

USE DEF Byte, Slots, NoOutput, OUTPUTS_CAP, BUFFER_LEN,
        MAX_LC, MAX_FIRST, HEADER_LEN, TOKEN_UID_LEN, TX_INPUT_LEN, P2PKH_LEN,
        TOKEN_DATA_AUTHORITY_MASK

\* What is approved belongs to a transaction, and only an approved one is signed.
Begun == /\ ctx.state \in {"PARSED", "APPROVED"} => tx # NoTx
         /\ tx = NoTx => approved = {}
         /\ signed # {} => ctx.state = "APPROVED"

\* The table holds outputs that were decoded, its old entries included.
TableDecoded == \A j \in Slots : ctx.outputs[j] # NoOutput =>
                                   ctx.outputs[j] < ctx.current_output

\* The digest is finalised once, and the flag tells whether it was.
DigestOnce == /\ ctx.finals = IF ctx.unset THEN 0 ELSE 1
              /\ signed \subseteq {1}

-----------------------------------------------------------------------------
\* A step that concerns neither the approval nor the outputs.
Quiet == /\ \A f \in {"state", "current_output", "outputs", "finals", "unset"} :
              ctx'[f] = ctx[f]
         /\ UNCHANGED <<tx, approved, signed>>

LEMMA QuietSteps ==
  ASSUME IInv,
         \/ \E n \in ChunkSizes : DataNext(n)
         \/ Split \/ (\E len \in Byte : DecodeToken(len)) \/ DecodeInput
         \/ AskMoreData \/ SkipChange \/ ShowOutput
         \/ SignRefused \/ SignMalformedPath \/ DataHashFails
         \/ \E scr : Answer(ctx, scr, "OTHER") /\ UNCHANGED <<tx, approved, signed>>
         \/ UNCHANGED vars
  PROVE  Quiet
<1>1. ctx \in Context
  BY DEF IInv, TypeOK
<1>2. CASE \E n \in ChunkSizes : DataNext(n)
  BY <1>2, ChunkFields DEF Quiet
<1>3. CASE (\E len \in Byte : DecodeToken(len)) \/ DecodeInput
  <2>1. ASSUME NEW len \in Byte, DecodeToken(len) \/ DecodeInput PROVE Quiet
    BY <2>1, ElementFields DEF Quiet
  <2>2. ASSUME DecodeInput PROVE Quiet
    BY <2>1, <2>2
  <2> QED BY <1>3, <2>1, <2>2
<1>4. ASSUME ctx' = Entered, UNCHANGED <<tx, approved, signed>> PROVE Quiet
  BY <1>1, <1>4, EnteredType DEF Quiet
<1>5. ASSUME ctx' = ctx, UNCHANGED <<tx, approved, signed>> PROVE Quiet
  BY <1>5 DEF Quiet
<1>6. CASE SkipChange
  <2>1. ctx' = Advance(ctx) /\ UNCHANGED <<tx, approved, signed>>
    BY <1>6 DEF SkipChange
  <2> QED BY <1>1, <2>1, AdvanceFields DEF Quiet
<1>7. CASE AskMoreData \/ SignRefused \/ SignMalformedPath \/ DataHashFails
  BY <1>4, <1>7 DEF AskMoreData, SignRefused, SignMalformedPath, DataHashFails, Answer
<1>8. CASE \/ Split \/ ShowOutput
           \/ \E scr : Answer(ctx, scr, "OTHER") /\ UNCHANGED <<tx, approved, signed>>
           \/ UNCHANGED vars
  BY <1>5, <1>8 DEF Split, Ready, ShowOutput, Answer, vars
<1> QED BY <1>2, <1>3, <1>6, <1>7, <1>8

\* The steps of SIGN_TX, as far as the approval is concerned.
LEMMA StepKinds ==
  ASSUME IInv, BytesInv, [Next]_vars
  PROVE  \/ Quiet
         \/ \E scr, sw : Erase(scr, sw)
         \/ \E t \in Txs, n \in FirstSizes : DataFirst(t, n)
         \/ \E t \in Txs, cut \in {"change", "tokens", "inputs", "outputs"} :
              DataFirstTruncated(t, cut)
         \/ DecodeOutput /\ ctx.buffer_output_len < OUTPUTS_CAP
         \/ ConfirmOutput \/ AskConfirmation \/ ConfirmTx \/ Sign
<1>1. CASE Decode
  BY <1>1, QuietSteps, RoomForOutput, Zenon DEF Decode, TokenFault, UnknownToken,
     InputWithData, InvalidOutput, ChangeMismatch, ChangeRefused, TrailingData, Invalid, Restart, Cancel
<1>2. CASE Review
  BY <1>2, QuietSteps, Zenon DEF Review, RequestTypeOverwritten, ShowFault, AddressFails,
     Restart, Cancel
<1>3. CASE UserDecision
  BY <1>3, Zenon DEF UserDecision, RejectOutput, RejectTx, Cancel
<1>4. CASE DataFirstTwice \/ DataRefused \/ Quit \/ SignFails \/ Done \/ IoReset
  BY <1>4, Zenon DEF DataFirstTwice, DataRefused, Quit, SignFails, Done, IoReset,
     Restart, Cancel
<1>5. CASE OtherCommand
  BY <1>5, QuietSteps, Zenon DEF OtherCommand
<1>6. CASE \/ \E n \in ChunkSizes : DataNext(n)
           \/ DataHashFails \/ SignRefused \/ SignMalformedPath \/ UNCHANGED vars
  BY <1>6, QuietSteps, Zenon
<1> QED BY <1>1, <1>2, <1>3, <1>4, <1>5, <1>6, Zenon DEF Next

-----------------------------------------------------------------------------
(* The three invariants.                                                   *)

LEMMA TruncatedFields ==
  ASSUME IInv, NEW t \in Txs, NEW cut \in {"change", "tokens", "inputs", "outputs"},
         DataFirstTruncated(t, cut)
  PROVE  /\ tx = NoTx /\ UNCHANGED <<tx, approved, signed>>
         /\ ctx'.state = "RECV_DATA" /\ ctx.state # "APPROVED"
         /\ ctx.current_output = 0 /\ ctx'.current_output = 0
         /\ ctx'.finals = 0 /\ ctx'.unset = TRUE
         /\ ctx'.outputs = [j \in Slots |-> NoOutput]
<1>1. tx = NoTx
  BY DEF DataFirstTruncated, IInv, Phases, Session, Idle, TypeOK, Context
<1>2. ctx.current_output = 0
  BY <1>1, ContextFields DEF IInv, Session, Progress, CtxTypes
<1> QED BY <1>1, <1>2 DEF DataFirstTruncated, Answer, ZeroCtx

LEMMA ConfirmOutputFields ==
  ASSUME IInv, ConfirmOutput
  PROVE  /\ tx # NoTx /\ UNCHANGED <<tx, signed>>
         /\ ctx.state = "RECV_DATA"
         /\ approved' = IF Shown = NoOutput THEN approved ELSE approved \cup {Shown}
         /\ \A f \in {"state", "current_output", "outputs", "finals", "unset"} :
              ctx'[f] = ctx[f]
<1>1. /\ ctx \in Context /\ CtxTypes /\ ctx.state = "RECV_DATA"
      /\ ctx.buffer_output_len > 0 /\ ctx.buffer_output_len <= ctx.current_output
      /\ ctx.current_output <= ctx.outputs_len
  BY ReviewState DEF ConfirmOutput
<1>2. tx # NoTx
  BY <1>1 DEF IInv, Session, CtxTypes
<1>3. ctx' \in {Advance(ctx), Advance(Advance(ctx))}
  BY DEF ConfirmOutput
<1> QED BY <1>1, <1>2, <1>3, AdvanceFields DEF ConfirmOutput

LEMMA AskConfirmationFields ==
  ASSUME IInv, AskConfirmation
  PROVE  /\ tx # NoTx /\ UNCHANGED <<tx, approved, signed>>
         /\ ctx.state = "RECV_DATA" /\ ctx'.state = "PARSED"
         /\ \A f \in {"current_output", "outputs", "outputs_len", "change_info",
                       "finals", "unset"} : ctx'[f] = ctx[f]
<1>1. /\ ctx \in Context /\ CtxTypes /\ ctx.state = "RECV_DATA"
      /\ ctx.buffer_output_len > 0 /\ ctx.buffer_output_len <= ctx.current_output
      /\ ctx.current_output <= ctx.outputs_len
  BY ReviewState DEF AskConfirmation
<1>2. tx # NoTx
  BY <1>1 DEF IInv, Session, CtxTypes
<1> QED BY <1>1, <1>2 DEF AskConfirmation, Context

LEMMA ConfirmTxFields ==
  ASSUME IInv, ConfirmTx
  PROVE  /\ ctx.state = "PARSED" /\ ctx'.state = "APPROVED"
         /\ UNCHANGED <<tx, approved, signed>>
         /\ \A f \in {"current_output", "outputs", "finals", "unset"} : ctx'[f] = ctx[f]
BY DEF ConfirmTx, Answer, IInv, TypeOK, Phases, Idle, Context

LEMMA SignFields ==
  ASSUME IInv, Sign
  PROVE  /\ ctx.state = "APPROVED" /\ UNCHANGED <<tx, approved>>
         /\ \A f \in {"state", "current_output", "outputs"} : ctx'[f] = ctx[f]
         /\ \E zero \in ZeroByte :
              /\ ctx'.finals = IF ctx.unset THEN IF ctx.finals = 0 THEN 1 ELSE 2 ELSE ctx.finals
              /\ ctx'.unset = (ctx.unset /\ zero)
              /\ signed' = signed \cup {ctx'.finals}
<1>1. PICK zero \in ZeroByte : ctx' = Finalised(zero) /\ signed' = signed \cup {Finalised(zero).finals}
  BY DEF Sign, Answer
<1>2. zero \in BOOLEAN /\ ctx \in Context /\ Entered \in Context
  BY ZeroByteAssumption, EnteredType DEF IInv, TypeOK
<1>3. \A f \in {"state", "current_output", "outputs", "finals", "unset"} : Entered[f] = ctx[f]
  BY <1>2, EnteredType
<1>4. /\ \A f \in {"state", "current_output", "outputs"} : Finalised(zero)[f] = Entered[f]
      /\ Finalised(zero).finals = IF ctx.unset THEN IF Entered.finals = 0 THEN 1 ELSE 2
                                                ELSE Entered.finals
      /\ Finalised(zero).unset = IF ctx.unset THEN zero ELSE Entered.unset
  BY <1>2 DEF Finalised, Context
<1>5. ctx'.unset = (ctx.unset /\ zero)
  BY <1>1, <1>2, <1>3, <1>4 DEF Context
<1> QED BY <1>1, <1>3, <1>4, <1>5 DEF Sign

LEMMA InitApproval == Init => Begun /\ TableDecoded /\ DigestOnce
BY DEF Init, ZeroCtx, Begun, TableDecoded, DigestOnce

LEMMA ErasedApproval ==
  ASSUME NEW scr, NEW sw, Erase(scr, sw)
  PROVE  Begun' /\ TableDecoded' /\ DigestOnce'
BY DEF Erase, Answer, ZeroCtx, Begun, TableDecoded, DigestOnce

LEMMA NextBegun ==
  ASSUME IInv, BytesInv, Begun, [Next]_vars
  PROVE  Begun'
<1>1. CASE Quiet
  BY <1>1 DEF Quiet, Begun
<1>2. CASE \E scr, sw : Erase(scr, sw)
  BY <1>2, ErasedApproval
<1>3. CASE \E t \in Txs, n \in FirstSizes : DataFirst(t, n)
  BY <1>3, FirstFields, TxsAssumption DEF Begun
<1>4. CASE \E t \in Txs, cut \in {"change", "tokens", "inputs", "outputs"} :
             DataFirstTruncated(t, cut)
  BY <1>4, TruncatedFields DEF Begun
<1>5. CASE DecodeOutput /\ ctx.buffer_output_len < OUTPUTS_CAP
  BY <1>5, OutputFields DEF Begun
<1>6. CASE ConfirmOutput \/ AskConfirmation
  BY <1>6, ConfirmOutputFields, AskConfirmationFields DEF Begun
<1>7. CASE ConfirmTx
  BY <1>7, ConfirmTxFields DEF Begun
<1>8. CASE Sign
  BY <1>8, SignFields DEF Begun
<1> QED BY <1>1, <1>2, <1>3, <1>4, <1>5, <1>6, <1>7, <1>8, StepKinds

LEMMA NextTable ==
  ASSUME IInv, BytesInv, TableDecoded, [Next]_vars
  PROVE  TableDecoded'
<1>1. CASE DecodeOutput /\ ctx.buffer_output_len < OUTPUTS_CAP
  <2>1. /\ ctx'.current_output = ctx.current_output + 1
        /\ ctx'.outputs = [ctx.outputs EXCEPT ![ctx.buffer_output_len] = ctx.current_output]
    BY <1>1, OutputFields
  <2>2. ctx \in Context /\ CtxTypes
    BY ContextFields DEF IInv, TypeOK
  <2>3. ctx.outputs \in [0..9 -> 0..255 \cup {-1}] /\ ctx.current_output \in Int
    BY <2>2 DEF Context, CtxTypes
  <2> SUFFICES ASSUME NEW j \in Slots, ctx'.outputs[j] # NoOutput
               PROVE  ctx'.outputs[j] < ctx.current_output + 1
    BY <2>1 DEF TableDecoded
  <2>4. CASE j = ctx.buffer_output_len
    BY <2>1, <2>3, <2>4
  <2>5. CASE j # ctx.buffer_output_len
    <3>1. ctx'.outputs[j] = ctx.outputs[j] /\ ctx.outputs[j] \in Int
      BY <2>1, <2>3, <2>5
    <3> QED BY <2>3, <3>1 DEF TableDecoded
  <2> QED BY <2>4, <2>5
<1>2. CASE \E t \in Txs, n \in FirstSizes : DataFirst(t, n)
  <2>1. ctx'.outputs = [j \in Slots |-> NoOutput]
    BY <1>2, FirstFields
  <2> QED BY <2>1 DEF TableDecoded
<1>3. CASE \E t \in Txs, cut \in {"change", "tokens", "inputs", "outputs"} :
             DataFirstTruncated(t, cut)
  <2>1. ctx'.outputs = [j \in Slots |-> NoOutput]
    BY <1>3, TruncatedFields
  <2> QED BY <2>1 DEF TableDecoded
<1>4. CASE \E scr, sw : Erase(scr, sw)
  BY <1>4, ErasedApproval
<1>5. ASSUME ctx'.outputs = ctx.outputs, ctx'.current_output = ctx.current_output
      PROVE  TableDecoded'
  BY <1>5 DEF TableDecoded
<1>6. CASE Quiet \/ ConfirmOutput \/ AskConfirmation \/ ConfirmTx \/ Sign
  BY <1>5, <1>6, ConfirmOutputFields, AskConfirmationFields, ConfirmTxFields, SignFields
     DEF Quiet
<1> QED BY <1>1, <1>2, <1>3, <1>4, <1>6, StepKinds

LEMMA NextDigest ==
  ASSUME ZeroByte = {FALSE}, IInv, BytesInv, Begun, DigestOnce, [Next]_vars
  PROVE  DigestOnce'
<1>1. CASE Sign
  BY <1>1, SignFields DEF DigestOnce
<1>2. CASE \E t \in Txs, n \in FirstSizes : DataFirst(t, n)
  BY <1>2, FirstFields DEF DigestOnce
<1>3. CASE \E t \in Txs, cut \in {"change", "tokens", "inputs", "outputs"} :
             DataFirstTruncated(t, cut)
  <2>1. signed = {}
    BY <1>3, TruncatedFields DEF Begun
  <2> QED BY <1>3, <2>1, TruncatedFields DEF DigestOnce
<1>4. CASE \E scr, sw : Erase(scr, sw)
  BY <1>4, ErasedApproval
<1>5. ASSUME ctx'.finals = ctx.finals, ctx'.unset = ctx.unset, signed' = signed
      PROVE  DigestOnce'
  BY <1>5 DEF DigestOnce
<1>6. CASE \/ Quiet \/ ConfirmOutput \/ AskConfirmation \/ ConfirmTx
           \/ DecodeOutput /\ ctx.buffer_output_len < OUTPUTS_CAP
  BY <1>5, <1>6, ConfirmOutputFields, AskConfirmationFields, ConfirmTxFields, OutputFields
     DEF Quiet
<1> QED BY <1>1, <1>2, <1>3, <1>4, <1>6, StepKinds

THEOREM ApprovalInvariant == Spec => [](IInv /\ BytesInv /\ Begun /\ TableDecoded)
<1>1. Init => IInv /\ BytesInv /\ Begun /\ TableDecoded
  BY InitInv, InitBytes, InitApproval
<1>2. IInv /\ BytesInv /\ Begun /\ TableDecoded /\ [Next]_vars
        => IInv' /\ BytesInv' /\ Begun' /\ TableDecoded'
  BY NextInv, NextBytes, NextBegun, NextTable
<1> QED BY <1>1, <1>2, PTL DEF Spec

\* All signatures of one approved transaction are over one digest, finalised
\* once (sign_tx.c:241-257), if no digest begins with a zero byte: the code takes
\* a zero there as "not computed yet", and MCSignTxZeroDigest shows what it does
\* with such a digest.
THEOREM SignedOnceHolds ==
  ASSUME ZeroByte = {FALSE}
  PROVE  Spec => []SignedOnce
<1>1. Init => DigestOnce
  BY InitApproval
<1>2. IInv /\ BytesInv /\ Begun /\ DigestOnce /\ [Next]_vars => DigestOnce'
  BY NextDigest
<1>3. DigestOnce => SignedOnce
  BY DEF DigestOnce, SignedOnce
<1> QED BY <1>1, <1>2, <1>3, ApprovalInvariant, PTL DEF Spec

-----------------------------------------------------------------------------
(* The refinement, step by step.                                           *)

LEMMA InitImplements == Init => Approval!Init
BY DEF Init, ZeroCtx, Stage, Approval!Init, Approval!NoneBegun

\* The stage keeps its value when the state does, or when there is no transaction.
LEMMA StageKept ==
  ASSUME tx' = tx, ctx'.state = ctx.state \/ tx = NoTx
  PROVE  Stage' = Stage
<1>1. CASE tx = NoTx
  <2>1. Stage = "idle"
    BY <1>1 DEF Stage
  <2>2. Stage' = "idle"
    BY <1>1 DEF Stage
  <2> QED BY <2>1, <2>2
<1>2. CASE ctx'.state = ctx.state
  BY <1>2 DEF Stage
<1> QED BY <1>1, <1>2

\* What the abstract specification speaks of stays as it is.
LEMMA StutterImplements ==
  ASSUME ctx'.current_output = ctx.current_output, UNCHANGED <<tx, approved, signed>>,
         ctx'.state = ctx.state \/ tx = NoTx
  PROVE  UNCHANGED Approval!vars
<1>1. Stage' = Stage
  BY StageKept
<1> QED BY <1>1 DEF Approval!vars

LEMMA ForgetImplements ==
  ASSUME NEW scr, NEW sw, Erase(scr, sw)
  PROVE  Approval!Forget
BY DEF Erase, Answer, ZeroCtx, Stage, Approval!Forget, Approval!NoneBegun

LEMMA BeginImplements ==
  ASSUME IInv, NEW t \in Txs, NEW n \in FirstSizes, DataFirst(t, n)
  PROVE  Approval!Begin
<1>1. /\ tx = NoTx /\ tx' = t /\ t # NoTx /\ approved' = {} /\ signed' = {}
      /\ ctx'.state = "RECV_DATA" /\ ctx'.current_output = 0
  BY FirstFields, TxsAssumption
<1>2. Stage = "idle"
  BY <1>1 DEF Stage
<1>3. Stage' = "review"
  BY <1>1 DEF Stage
<1> QED BY <1>1, <1>2, <1>3 DEF Approval!Begin

LEMMA ReceiveImplements ==
  ASSUME IInv, DecodeOutput, ctx.buffer_output_len < OUTPUTS_CAP
  PROVE  Approval!Receive
<1>1. tx # NoTx
  BY OutputFields, TxsAssumption
<1>2. /\ UNCHANGED <<tx, approved, signed>>
      /\ ctx.state = "RECV_DATA" /\ ctx'.state = "RECV_DATA"
      /\ ctx.current_output < Len(tx.outputs)
      /\ ctx'.current_output = ctx.current_output + 1
  BY OutputFields
<1> QED BY <1>1, <1>2 DEF Stage, Approval!Receive

\* The output on the screen has arrived; what lies outside of the table is none.
LEMMA ReviewImplements ==
  ASSUME IInv, TableDecoded, ConfirmOutput
  PROVE  Approval!Review \/ UNCHANGED Approval!vars
<1>1. /\ tx # NoTx /\ UNCHANGED <<tx, signed>> /\ ctx.state = "RECV_DATA"
      /\ ctx'.state = ctx.state /\ ctx'.current_output = ctx.current_output
      /\ approved' = IF Shown = NoOutput THEN approved ELSE approved \cup {Shown}
  <2>1. \A f \in {"state", "current_output"} : ctx'[f] = ctx[f]
    BY ConfirmOutputFields
  <2> QED BY <2>1, ConfirmOutputFields
<1>2. CASE Shown = NoOutput
  BY <1>1, <1>2, StutterImplements
<1>3. CASE Shown # NoOutput
  <2>1. Shown = ctx.outputs[ctx.display_index] /\ ctx.display_index \in Slots
    BY <1>3 DEF Shown
  <2>2. Shown \in Byte /\ ctx.current_output \in Int
    BY <1>3, <2>1 DEF IInv, TypeOK, Context
  <2>3. Shown < ctx.current_output
    BY <1>3, <2>1 DEF TableDecoded
  <2>4. Shown \in Approval!Arrived
    BY <2>2, <2>3 DEF Approval!Arrived
  <2> QED BY <1>1, <1>3, <2>4 DEF Stage, Approval!Review
<1> QED BY <1>2, <1>3

\* The user is asked only when every output that arrived was reviewed or is
\* change; without change outputs, only when all of them arrived.
LEMMA AskImplements ==
  ASSUME IInv, IInv', AskConfirmation
  PROVE  Approval!Ask
<1>1. /\ tx # NoTx /\ UNCHANGED <<tx, approved, signed>>
      /\ ctx.state = "RECV_DATA" /\ ctx'.state = "PARSED"
      /\ ctx'.current_output = ctx.current_output /\ ctx'.outputs_len = ctx.outputs_len
      /\ ctx'.change_info = ctx.change_info
  BY AskConfirmationFields
<1>2. ctx.change_info = tx.change /\ ctx.outputs_len = Len(tx.outputs)
  BY <1>1 DEF IInv, Session
<1>3. Approval!Arrived \subseteq approved \cup Approval!DeclaredChange
  <2> SUFFICES ASSUME NEW i \in 0..(ctx.current_output - 1), i \notin approved
               PROVE  i \in Approval!DeclaredChange
    BY DEF Approval!Arrived
  <2>1. Covered(i)'
    BY <1>1 DEF IInv, ApprovedCovers
  <2>2. PICK k \in DOMAIN ctx.change_info : ctx.change_info[k].index = i
    BY <1>1, <2>1 DEF Covered, VerifiedChange
  <2> QED BY <1>2, <2>2 DEF Approval!DeclaredChange
<1>4. tx.change = <<>> => ctx.current_output = Len(tx.outputs)
  BY <1>1, <1>2 DEF IInv, ApprovedCompleteNoChange, ApprovedComplete, Complete
<1> QED BY <1>1, <1>3, <1>4 DEF Stage, Approval!Ask

LEMMA ApproveImplements ==
  ASSUME IInv, Begun, ConfirmTx
  PROVE  Approval!Approve
BY ConfirmTxFields DEF Begun, Stage, Approval!Approve

\* The only digest there is.
LEMMA SignImplements ==
  ASSUME IInv, Begun, DigestOnce, DigestOnce', Sign
  PROVE  Approval!Sign(1)
<1>1. /\ ctx.state = "APPROVED" /\ ctx'.state = "APPROVED" /\ UNCHANGED <<tx, approved>>
      /\ ctx'.current_output = ctx.current_output
      /\ signed' = signed \cup {ctx'.finals}
  BY SignFields
<1>2. tx # NoTx /\ signed \subseteq {1} /\ signed' \subseteq {1}
  BY <1>1 DEF Begun, DigestOnce
<1>3. signed' = {1}
  BY <1>1, <1>2
<1> QED BY <1>1, <1>2, <1>3 DEF Stage, Approval!Sign

LEMMA NextImplements ==
  ASSUME IInv, IInv', BytesInv, Begun, TableDecoded, DigestOnce, DigestOnce', [Next]_vars
  PROVE  [Approval!Next]_Approval!vars
<1>1. CASE Quiet
  BY <1>1, StutterImplements DEF Quiet
<1>2. CASE \E t \in Txs, cut \in {"change", "tokens", "inputs", "outputs"} :
             DataFirstTruncated(t, cut)
  BY <1>2, TruncatedFields, StutterImplements
<1>3. CASE \E scr, sw : Erase(scr, sw)
  BY <1>3, ForgetImplements DEF Approval!Next
<1>4. CASE \E t \in Txs, n \in FirstSizes : DataFirst(t, n)
  BY <1>4, BeginImplements DEF Approval!Next
<1>5. CASE DecodeOutput /\ ctx.buffer_output_len < OUTPUTS_CAP
  BY <1>5, ReceiveImplements DEF Approval!Next
<1>6. CASE ConfirmOutput
  BY <1>6, ReviewImplements DEF Approval!Next
<1>7. CASE AskConfirmation
  BY <1>7, AskImplements DEF Approval!Next
<1>8. CASE ConfirmTx
  BY <1>8, ApproveImplements DEF Approval!Next
<1>9. CASE Sign
  <2>1. Approval!Sign(1) /\ 1 \in 1..2
    BY <1>9, SignImplements
  <2> QED BY <2>1 DEF Approval!Next
<1> QED BY <1>1, <1>2, <1>3, <1>4, <1>5, <1>6, <1>7, <1>8, <1>9, StepKinds

\* SIGN_TX implements TxApproval, whatever the transactions, the chunks and the
\* commands in between (sign_tx.h:17-21, display.c:214-231), if no digest begins
\* with a zero byte.
THEOREM ImplementsApprovalHolds ==
  ASSUME ZeroByte = {FALSE}
  PROVE  Spec => ImplementsApproval
<1>1. Init => Approval!Init /\ DigestOnce
  BY InitImplements, InitApproval
<1>2. IInv /\ BytesInv /\ Begun /\ DigestOnce /\ [Next]_vars => DigestOnce'
  BY NextDigest
<1>3. IInv /\ IInv' /\ BytesInv /\ Begun /\ TableDecoded /\ DigestOnce /\ DigestOnce' /\ [Next]_vars
        => [Approval!Next]_Approval!vars
  BY NextImplements
<1> QED BY <1>1, <1>2, <1>3, ApprovalInvariant, PTL DEF Spec, ImplementsApproval, Approval!Spec

-----------------------------------------------------------------------------
(* What the commands about tokens see of a step of SIGN_TX (HathorApp).    *)

USE DEF Byte, Slots, NoOutput, OUTPUTS_CAP, BUFFER_LEN,
        MAX_LC, MAX_FIRST, HEADER_LEN, TOKEN_UID_LEN, TX_INPUT_LEN, P2PKH_LEN,
        TOKEN_DATA_AUTHORITY_MASK

\* The session goes on with the tokens it has, and shows nothing yet; one more
\* output may have arrived.
TokenFields == {"remaining_tokens", "tokens_len"}

Proceeded == /\ ctx.state # "NONE" /\ ctx'.state # "NONE"
             /\ \A f \in TokenFields : ctx'[f] = ctx[f]
             /\ UNCHANGED <<tx, approved>>
             /\ pc' # "wait" \/ screen' # "output"
             /\ \/ ctx'.current_output = ctx.current_output
                \/ /\ ctx'.current_output = ctx.current_output + 1
                   /\ Next_output.token_data < TOKEN_DATA_AUTHORITY_MASK

\* The session is over, on a screen that shows no output.
Ended == \E scr \in {"menu", "processing"} : \E sw : Erase(scr, sw)

\* The steps of a session but for its first chunk, its tokens and its screens.
Proceeds == \/ \E n \in ChunkSizes : DataNext(n)
            \/ DataHashFails \/ DataFirstTwice
            \/ Split \/ DecodeInput \/ InputWithData \/ DecodeOutput
            \/ InvalidOutput \/ ChangeMismatch \/ TrailingData
            \/ AskConfirmation \/ RequestTypeOverwritten \/ AskMoreData
            \/ SkipChange \/ AddressFails
            \/ ConfirmTx \/ RejectTx \/ Quit
            \/ SignMalformedPath \/ Sign

\* Chunk 0.
Begins == \/ \E t \in Txs, n \in FirstSizes : DataFirst(t, n)
          \/ \E t \in Txs, cut \in {"change", "tokens", "inputs", "outputs"} :
               DataFirstTruncated(t, cut)

\* The fields in question are those of the context.
Within(c) == \A f \in TokenFields \cup {"state", "current_output"} : c[f] = ctx[f]

\* What the call, the review and the signature do to other fields.
LEMMA EnteredWithin ==
  ASSUME ctx \in Context
  PROVE  /\ Within(Entered)
         /\ \A zero \in BOOLEAN : Within(Finalised(zero))
         /\ \A n : Within([Entered EXCEPT !.hashed = @ + n])
         /\ \A n : Within([[Entered EXCEPT !.hashed = @ + n] EXCEPT !.buffer_len = @ + n])
         /\ Within(Advance(ctx)) /\ Within(Advance(Advance(ctx)))
<1>1. Entered \in Context /\ Within(Entered)
  BY EnteredType DEF Within, TokenFields
<1>2. ASSUME NEW zero \in BOOLEAN PROVE Within(Finalised(zero))
  BY <1>1 DEF Finalised, Within, TokenFields, Context
<1>3. ASSUME NEW n
      PROVE  /\ Within([Entered EXCEPT !.hashed = @ + n])
             /\ Within([[Entered EXCEPT !.hashed = @ + n] EXCEPT !.buffer_len = @ + n])
  BY <1>1 DEF Within, TokenFields, Context
<1>4. Within(Advance(ctx)) /\ Within(Advance(Advance(ctx)))
  BY AdvanceFields DEF Within, TokenFields
<1> QED BY <1>1, <1>2, <1>3, <1>4

\* Without a new output, a session only goes on.
LEMMA WithinProceeds ==
  ASSUME ctx.state # "NONE", Within(ctx'), UNCHANGED <<tx, approved>>,
         pc' # "wait" \/ screen' # "output"
  PROVE  Proceeded
BY DEF Within, Proceeded, TokenFields

\* An idle session: another chunk, or a signature.
LEMMA CallProceeds ==
  ASSUME IInv, \/ \E n \in ChunkSizes : DataNext(n)
               \/ DataHashFails \/ SignMalformedPath \/ Sign
  PROVE  Proceeded
<1>1. /\ Idle /\ ctx.state # "NONE" /\ UNCHANGED <<tx, approved>> /\ ctx \in Context
      /\ screen \in {"menu", "processing"}
  BY DEF IInv, TypeOK, Phases, DataNext, DataHashFails, SignMalformedPath, Sign, ExpectsData
<1>2. Within(ctx') /\ (pc' # "wait" \/ screen' # "output")
  <2>1. CASE \E n \in ChunkSizes : DataNext(n)
    <3>1. PICK n \in ChunkSizes : DataNext(n)
      BY <2>1
    <3>2. \/ Answer([Entered EXCEPT !.hashed = @ + n], screen, "WRONG_DATA_LENGTH")
          \/ /\ ctx' = [[Entered EXCEPT !.hashed = @ + n] EXCEPT !.buffer_len = @ + n]
             /\ pc' = "decode"
      BY <3>1, Zenon DEF DataNext
    <3> QED BY <1>1, <3>2, EnteredWithin DEF Answer
  <2>2. CASE DataHashFails \/ SignMalformedPath
    BY <1>1, <2>2, EnteredWithin DEF DataHashFails, SignMalformedPath, Answer
  <2>3. CASE Sign
    <3>1. PICK zero \in ZeroByte : Answer(Finalised(zero), screen, "SIGNATURE")
      BY <2>3 DEF Sign
    <3> QED BY <1>1, <3>1, ZeroByteAssumption, EnteredWithin DEF Answer
  <2> QED BY <2>1, <2>2, <2>3
<1> QED BY <1>1, <1>2, WithinProceeds

\* The decoder, as long as it finds what it expects.
LEMMA DecoderProceeds ==
  ASSUME IInv, BytesInv, Split \/ DecodeInput \/ DecodeOutput
  PROVE  Proceeded
<1>1. /\ pc = "decode" /\ ctx.state = "RECV_DATA" /\ screen # "output" /\ ctx \in Context
  BY DecodeState DEF Split, DecodeInput, DecodeOutput, NextIsToken, NextIsInput, NextIsOutput
<1>2. ASSUME NEW c, Continue(c) \/ Ready(c)
      PROVE  ctx' = c /\ (pc' # "wait" \/ screen' # "output")
  BY <1>1, <1>2 DEF Continue, Ready, Answer
<1>3. CASE Split
  <2>1. Within(ctx)
    BY DEF Within
  <2> QED BY <1>1, <1>2, <1>3, <2>1, WithinProceeds DEF Split
<1>4. CASE DecodeInput
  <2> DEFINE d == [ctx EXCEPT !.remaining_inputs = @ - 1, !.buffer_len = @ - TX_INPUT_LEN]
  <2>1. Within(d)
    BY <1>1 DEF Within, TokenFields, Context
  <2>2. Continue(d) /\ UNCHANGED <<tx, approved>>
    BY <1>4 DEF DecodeInput
  <2> HIDE DEF d
  <2> QED BY <1>1, <1>2, <2>1, <2>2, WithinProceeds
<1>5. CASE DecodeOutput
  <2> DEFINE c == [ctx EXCEPT !.current_output = @ + 1,
                              !.buffer_len = @ - Next_output.len,
                              !.outputs[ctx.buffer_output_len] = ctx.current_output,
                              !.buffer_output_len = @ + 1]
  <2>1. /\ c.current_output = ctx.current_output + 1 /\ c.state = ctx.state
        /\ \A f \in TokenFields : c[f] = ctx[f]
    BY <1>1 DEF TokenFields, Context
  <2>2. ~(ctx.buffer_output_len >= OUTPUTS_CAP)
    BY <1>1, <1>5, RoomForOutput DEF Context
  <2>3. Continue(c) /\ UNCHANGED <<tx, approved>>
    <3> HIDE DEF c
    <3> QED BY <1>5, <2>2, Zenon DEF DecodeOutput, c
  <2>4. Next_output.token_data < TOKEN_DATA_AUTHORITY_MASK
    <3>1. Next_output \in Output /\ OutputWellFormed
      BY <1>5, DecodedOutput DEF DecodeOutput, NextIsOutput
    <3>2. /\ ~(Next_output.token_data >= TOKEN_DATA_AUTHORITY_MASK)
          /\ Next_output.token_data \in Byte
      BY <3>1 DEF OutputWellFormed, OutputMalformed, OutputSplit, OutputArrived,
                  OutputHeadArrived, Output
    <3> QED BY <3>2
  <2> HIDE DEF c
  <2>5. ctx' = c /\ (pc' # "wait" \/ screen' # "output")
    BY <1>2, <2>3
  <2> QED BY <1>1, <2>1, <2>3, <2>4, <2>5 DEF Proceeded
<1> QED BY <1>3, <1>4, <1>5

\* The review, and the approval.
LEMMA ReviewProceeds ==
  ASSUME IInv, AskConfirmation \/ AskMoreData \/ SkipChange \/ ConfirmTx
  PROVE  Proceeded
<1>1. ctx \in Context
  BY DEF IInv, TypeOK
<1>2. CASE AskConfirmation \/ ConfirmTx
  <2>1. \E s \in {"PARSED", "APPROVED"} : ctx' = [ctx EXCEPT !.state = s]
    BY <1>2 DEF AskConfirmation, ConfirmTx, Answer
  <2>2. ctx'.state # "NONE" /\ \A f \in TokenFields \cup {"current_output"} : ctx'[f] = ctx[f]
    BY <1>1, <2>1 DEF TokenFields, Context
  <2>3. ctx.state # "NONE" /\ UNCHANGED <<tx, approved>> /\ screen' # "output"
    BY <1>2 DEF AskConfirmation, ConfirmTx, Answer, IInv, Phases, Idle
  <2> QED BY <2>2, <2>3 DEF Proceeded
<1>3. CASE AskMoreData \/ SkipChange
  <2>1. ctx' \in {Entered, Advance(ctx)}
    BY <1>3 DEF AskMoreData, SkipChange, Answer
  <2>2. /\ ctx.state # "NONE" /\ UNCHANGED <<tx, approved>>
        /\ pc' # "wait" \/ screen' # "output"
    BY <1>3, ReviewState DEF AskMoreData, SkipChange, Answer
  <2> QED BY <1>1, <2>1, <2>2, EnteredWithin, WithinProceeds
<1> QED BY <1>2, <1>3

\* A session goes on or is over.
LEMMA ProceedKinds ==
  ASSUME IInv, BytesInv, Proceeds
  PROVE  Proceeded \/ Ended
<1>1. CASE \/ \E n \in ChunkSizes : DataNext(n)
           \/ DataHashFails \/ SignMalformedPath \/ Sign
  BY <1>1, CallProceeds
<1>2. CASE Split \/ DecodeInput \/ DecodeOutput
  BY <1>2, DecoderProceeds
<1>3. CASE AskConfirmation \/ AskMoreData \/ SkipChange \/ ConfirmTx
  BY <1>3, ReviewProceeds
<1>4. CASE DataFirstTwice
  BY <1>4 DEF DataFirstTwice, Ended, IInv, Phases
<1>5. CASE \/ InputWithData \/ InvalidOutput \/ ChangeMismatch \/ TrailingData
           \/ RequestTypeOverwritten \/ AddressFails \/ RejectTx \/ Quit
  BY <1>5, Zenon DEF InputWithData, InvalidOutput, ChangeMismatch, TrailingData,
     RequestTypeOverwritten, AddressFails, RejectTx, Quit, Invalid, Cancel, Ended
<1> QED BY <1>1, <1>2, <1>3, <1>4, <1>5, Zenon DEF Proceeds

\* A token of the transaction.
LEMMA TokenProceeds ==
  ASSUME IInv, NEW len \in Byte, DecodeToken(len)
  PROVE  /\ pc = "decode" /\ ctx.state # "NONE" /\ ctx'.state # "NONE"
         /\ UNCHANGED <<tx, approved>>
         /\ pc' # "wait" \/ screen' # "output"
         /\ ctx'.current_output = ctx.current_output
         /\ ctx'.remaining_tokens = ctx.remaining_tokens - 1
         /\ ctx'.tokens_len = len /\ len \in NextTokensLen
<1> DEFINE c == [ctx EXCEPT !.tokens_len = len, !.remaining_tokens = @ - 1,
                            !.buffer_len = @ - TOKEN_UID_LEN]
<1>1. /\ pc = "decode" /\ Continue(c) /\ UNCHANGED <<tx, approved>>
      /\ len \in NextTokensLen
  BY DEF DecodeToken, NextIsToken
<1>2. ctx \in Context /\ ctx.state = "RECV_DATA" /\ screen # "output"
  BY <1>1, DecodeState
<1>3. /\ c.tokens_len = len /\ c.remaining_tokens = ctx.remaining_tokens - 1
      /\ c.state = ctx.state /\ c.current_output = ctx.current_output
  BY <1>2 DEF Context
<1> HIDE DEF c
<1>4. ctx' = c /\ (pc' # "wait" \/ screen' # "output")
  BY <1>1, <1>2 DEF Continue, Ready, Answer
<1> QED BY <1>1, <1>2, <1>3, <1>4

\* The first chunk of a transaction.
LEMMA BeginFields ==
  ASSUME IInv, Begins
  PROVE  /\ tx = NoTx /\ ctx'.state # "NONE" /\ ctx'.tokens_len = 0 /\ ctx'.current_output = 0
         /\ tx' = tx => UNCHANGED approved
         /\ tx' # tx => approved' = {}
         /\ pc' # "wait" \/ screen' # "output"
         /\ \E t \in Txs : ctx'.remaining_tokens \in {0, t.tokens}
         /\ tx' # NoTx => ctx'.remaining_tokens = tx'.tokens
<1>1. CASE \E t \in Txs, n \in FirstSizes : DataFirst(t, n)
  <2>1. PICK t \in Txs, n \in FirstSizes : DataFirst(t, n)
    BY <1>1
  <2>2. ctx'.tokens_len = 0
    BY <2>1 DEF DataFirst, FirstCtx, ZeroCtx
  <2>3. /\ tx = NoTx /\ tx' = t /\ approved' = {} /\ ctx'.state = "RECV_DATA"
        /\ ctx'.current_output = 0 /\ pc' = "decode" /\ ctx'.remaining_tokens = t.tokens
    BY <2>1, FirstFields, Zenon
  <2>5. tx' # tx
    BY <2>3, TxsAssumption
  <2>4. \E u \in Txs : ctx'.remaining_tokens \in {0, u.tokens}
    BY <2>3
  <2> QED BY <2>2, <2>3, <2>4, <2>5
<1>2. CASE \E t \in Txs, cut \in {"change", "tokens", "inputs", "outputs"} :
             DataFirstTruncated(t, cut)
  <2>1. PICK t \in Txs, cut \in {"change", "tokens", "inputs", "outputs"} :
               DataFirstTruncated(t, cut)
    BY <1>2
  <2>2. screen' = screen
    BY <2>1 DEF DataFirstTruncated, Answer
  <2>4. ctx'.tokens_len = 0
    BY <2>1 DEF DataFirstTruncated, Answer, ZeroCtx
  <2>5. ctx'.remaining_tokens \in {0, t.tokens}
    <3> DEFINE info == IF cut = "change" THEN <<>> ELSE t.change
               n == IF cut \in {"inputs", "outputs"} THEN t.tokens ELSE 0
               m == IF cut = "outputs" THEN t.inputs ELSE 0
    <3>1. n \in {0, t.tokens}
      OBVIOUS
    <3>2. ctx' = [ZeroCtx EXCEPT !.state = "RECV_DATA", !.change_info = info,
                                 !.remaining_tokens = n, !.remaining_inputs = m]
      BY <2>1, Zenon DEF DataFirstTruncated, Answer
    <3> HIDE DEF info, n, m
    <3>3. ctx'.remaining_tokens = n
      BY <3>2 DEF ZeroCtx
    <3> QED BY <3>1, <3>3
  <2>3. screen # "output"
    BY <2>1 DEF DataFirstTruncated, IInv, Phases
  <2> QED BY <2>1, <2>2, <2>3, <2>4, <2>5, TruncatedFields
<1> QED BY <1>1, <1>2, Zenon DEF Begins

\* An output on the screen was decoded from a transaction, unless nothing was.
LEMMA ShownDecoded ==
  ASSUME IInv, TableDecoded, pc = "show" \/ (pc = "wait" /\ screen = "output")
  PROVE  /\ tx \in Txs /\ ctx.state # "NONE"
         /\ Shown # NoOutput => Shown \in 0..(ctx.current_output - 1)
         /\ \A i \in 0..(ctx.current_output - 1) : tx.outputs[i + 1].token_data \in Byte
<1>1. /\ ctx.state # "NONE" /\ ctx.outputs_len # 0 /\ ctx \in Context
      /\ ctx.current_output \in Nat /\ ctx.current_output <= ctx.outputs_len
  BY ReviewState DEF CtxTypes
<1>2. tx \in Txs /\ ctx.outputs_len = Len(tx.outputs)
  BY <1>1 DEF IInv, TypeOK, Session
<1>3. ASSUME Shown # NoOutput PROVE Shown \in 0..(ctx.current_output - 1)
  <2>1. ctx.outputs \in [Slots -> Byte \cup {NoOutput}]
    BY <1>1 DEF Context
  <2>2. ctx.display_index \in Slots /\ Shown = ctx.outputs[ctx.display_index]
    BY <1>3 DEF Shown
  <2>3. Shown \in Byte /\ Shown < ctx.current_output
    BY <1>3, <2>1, <2>2 DEF TableDecoded
  <2> QED BY <1>1, <2>3
<1>4. ASSUME NEW i \in 0..(ctx.current_output - 1)
      PROVE  tx.outputs[i + 1].token_data \in Byte
  <2>1. i + 1 \in 1..Len(tx.outputs)
    BY <1>1, <1>2 DEF Context
  <2>2. tx.outputs[i + 1] \in Output
    BY <1>2, <2>1, TxShape
  <2> QED BY <2>2 DEF Output
<1> QED BY <1>1, <1>2, <1>3, <1>4

\* The user approves an output.
LEMMA ConfirmWithin ==
  ASSUME IInv, ConfirmOutput
  PROVE  /\ Within(ctx') /\ ctx.state # "NONE" /\ UNCHANGED tx
         /\ pc = "wait" /\ screen = "output" /\ pc' = "show"
         /\ approved' = IF Shown = NoOutput THEN approved ELSE approved \cup {Shown}
<1>1. ctx' \in {Advance(ctx), Advance(Advance(ctx))}
  BY DEF ConfirmOutput
<1>2. ctx \in Context
  BY DEF IInv, TypeOK
<1> QED BY <1>1, <1>2, EnteredWithin, ConfirmOutputFields DEF ConfirmOutput

===============================================================================
