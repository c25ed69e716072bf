----------------------------- MODULE SignTxProofs -----------------------------
(* Proofs about SignTx: IInv is inductive, and what follows from it about    *)
(* the review and the approval; then about the bytes, what a chunk leaves in *)
(* the buffer and that the hash and the decoder see the same ones; and about *)
(* the counts of outputs that the user reads.                                *)
EXTENDS SignTxInv, FiniteSetTheorems, TLAPS

\* The context after an output was decoded is a context.
LEMMA DecodedOutputType ==
  ASSUME ctx \in Context, NEW next \in Byte, NEW left \in 0..BUFFER_LEN,
         NEW n \in 0..OUTPUTS_CAP, NEW table \in [Slots -> Byte \cup {NoOutput}]
  PROVE  [ctx EXCEPT !.current_output = next, !.buffer_len = left,
                     !.outputs = table, !.buffer_output_len = n] \in Context
BY ZenonT(30) DEF Context

\* The context after a token uid or an input was decoded is a context.
LEMMA DecodedTokenType ==
  ASSUME ctx \in Context, NEW n \in Byte, NEW rest \in Byte,
         NEW left \in 0..BUFFER_LEN
  PROVE  [ctx EXCEPT !.tokens_len = n, !.remaining_tokens = rest,
                     !.buffer_len = left] \in Context
BY ZenonT(30) DEF Context

\* The context after an input was decoded is a context.
LEMMA DecodedInputType ==
  ASSUME ctx \in Context, NEW rest \in Byte, NEW left \in 0..BUFFER_LEN
  PROVE  [ctx EXCEPT !.remaining_inputs = rest, !.buffer_len = left] \in Context
BY ZenonT(30) DEF Context

\* What every call does to the context first, and then the hash and the buffer.
LEMMA EnteredType ==
  ASSUME ctx \in Context
  PROVE  /\ Entered \in Context
         /\ Entered.display_index = 0 /\ Entered.buffer_output_len = 0
         /\ \A f \in {"state", "buffer_len", "hashed", "finals", "unset", "change_info",
                       "remaining_tokens", "remaining_inputs", "outputs_len",
                       "current_output", "confirmed_outputs", "outputs",
                       "tokens_len"} : Entered[f] = ctx[f]
<1>1. 0 \in Byte /\ 0 \in 0..OUTPUTS_CAP
  BY DEF Byte, OUTPUTS_CAP
<1> QED BY <1>1, ZenonT(30) DEF Context, Entered

\* Hashing a chunk leaves a context.
LEMMA HashedType ==
  ASSUME NEW c \in Context, NEW h \in Nat
  PROVE  [c EXCEPT !.hashed = h] \in Context
BY ZenonT(30) DEF Context

\* Hashing a chunk and copying it into the buffer leaves a context.
LEMMA BufferedType ==
  ASSUME NEW c \in Context, NEW h \in Nat, NEW b \in 0..BUFFER_LEN
  PROVE  [c EXCEPT !.hashed = h, !.buffer_len = b] \in Context
BY ZenonT(30) DEF Context

\* init_sign_tx_ctx and the header of a transaction make a context.
LEMMA FirstType ==
  ASSUME NEW t, NEW n \in 0..BUFFER_LEN, ZeroCtx \in Context,
         t.change \in ChangeInfo, HEADER_LEN + n \in Nat,
         t.tokens \in Byte, t.inputs \in Byte, Len(t.outputs) \in Byte
  PROVE  FirstCtx(t, n) \in Context
<1> DEFINE info == t.change
           h == HEADER_LEN + n
           tokens == t.tokens
           inputs == t.inputs
           len == Len(t.outputs)
<1>1. FirstCtx(t, n) = [ZeroCtx EXCEPT !.state = "RECV_DATA", !.change_info = info,
                           !.hashed = h, !.remaining_tokens = tokens,
                           !.remaining_inputs = inputs, !.outputs_len = len,
                           !.buffer_len = n]
  BY DEF FirstCtx
<1>2. /\ info \in ChangeInfo /\ h \in Nat /\ tokens \in Byte /\ inputs \in Byte
      /\ len \in Byte
  OBVIOUS
<1> HIDE DEF info, h, tokens, inputs, len
<1> QED BY <1>1, <1>2, ZenonT(30) DEF Context

\* So does a header that breaks off.
LEMMA TruncatedType ==
  ASSUME NEW z \in Context, NEW info \in ChangeInfo,
         NEW tokens \in Byte, NEW inputs \in Byte
  PROVE  [z EXCEPT !.state = "RECV_DATA", !.change_info = info,
                   !.remaining_tokens = tokens, !.remaining_inputs = inputs] \in Context
BY ZenonT(30) DEF Context

\* Counting one output as reviewed leaves a context.
LEMMA ReviewedType ==
  ASSUME NEW c \in Context, NEW d \in Byte, NEW f \in Byte
  PROVE  [c EXCEPT !.display_index = d, !.confirmed_outputs = f] \in Context
BY ZenonT(30) DEF Context

\* A change of state leaves a context.
LEMMA StateType ==
  ASSUME ctx \in Context, NEW s \in {"NONE", "RECV_DATA", "PARSED", "APPROVED"}
  PROVE  [ctx EXCEPT !.state = s] \in Context
BY ZenonT(30) DEF Context

\* Finalising the hash leaves a context.
LEMMA FinalisedType ==
  ASSUME NEW c \in Context, NEW m \in 0..2, NEW zero \in BOOLEAN
  PROVE  /\ [c EXCEPT !.finals = m, !.unset = zero] \in Context
         /\ [c EXCEPT !.finals = m, !.unset = zero].finals = m
BY ZenonT(30) DEF Context

USE DEF Byte, Slots, NoOutput, OUTPUTS_CAP, BUFFER_LEN,
        MAX_LC, MAX_FIRST, HEADER_LEN, TOKEN_UID_LEN, TX_INPUT_LEN, P2PKH_LEN,
        TOKEN_DATA_AUTHORITY_MASK

Replies == StatusWords \cup {"NONE", "PENDING", "LOST", "RESET"}

\* The erased context is a context.
LEMMA ZeroCtxType == ZeroCtx \in Context
BY DEF ZeroCtx, Context, ChangeInfo

\* A transaction of the host: its shape, used wherever an output is looked up.
LEMMA TxShape ==
  ASSUME NEW t \in Txs
  PROVE  /\ t \in Transaction
         /\ t # NoTx
         /\ Len(t.outputs) \in Byte
         /\ t.tokens \in Byte /\ t.inputs \in Byte
         /\ t.change \in ChangeInfo
         /\ \A i \in 1..Len(t.outputs) : t.outputs[i] \in Output
BY TxsAssumption DEF Transaction

\* The initial state and every state in which the context was just erased.
LEMMA ErasedInv ==
  ASSUME ctx = ZeroCtx, pc = "wait", screen \in {"menu", "processing"},
         reply \in Replies \ {"PENDING"}, tx = NoTx, approved = {}, signed = {}
  PROVE  IInv
<1>1. TypeOK
  BY ZeroCtxType DEF TypeOK, Replies
<1>2. Phases /\ Session /\ Progress
  BY DEF Phases, Session, Progress, ZeroCtx, Idle
<1>6. TokensCounted
  BY DEF TokensCounted
<1>3. Aligned /\ ChangeVerified /\ PassedCovered /\ ApprovedCovers
  BY DEF Aligned, ChangeVerified, PassedCovered, ApprovedCovers, ZeroCtx
<1>4. NothingLeft /\ ApprovedCompleteNoChange
  BY DEF NothingLeft, ApprovedCompleteNoChange, ApprovedComplete, ZeroCtx
<1> QED BY <1>1, <1>2, <1>3, <1>4, <1>6 DEF IInv

\* The application starts within the invariant.
LEMMA InitInv == Init => IInv
BY ErasedInv DEF Init, Replies

\* A step that erases the context leads to such a state.
LEMMA EraseStep ==
  ASSUME NEW scr \in {"menu", "processing"}, NEW sw \in Replies \ {"PENDING"},
         Erase(scr, sw)
  PROVE  IInv'
<1>1. ZeroCtx \in Context
  BY ZeroCtxType
<1>2. TypeOK'
  BY <1>1 DEF TypeOK, Replies, Erase, Answer
<1>3. Phases' /\ Session' /\ Progress'
  BY DEF Phases, Session, Progress, ZeroCtx, Idle, Erase, Answer
<1>6. TokensCounted'
  BY DEF TokensCounted, Erase
<1>4. Aligned' /\ ChangeVerified' /\ PassedCovered' /\ ApprovedCovers'
  BY DEF Aligned, ChangeVerified, PassedCovered, ApprovedCovers, ZeroCtx, Erase, Answer
<1>5. NothingLeft' /\ ApprovedCompleteNoChange'
  BY DEF NothingLeft, ApprovedCompleteNoChange, ApprovedComplete, ZeroCtx, Erase, Answer
<1> QED BY <1>2, <1>3, <1>4, <1>5, <1>6 DEF IInv

\* The numeric fields of the context, as the provers use them best.
CtxTypes ==
  /\ ctx.buffer_len \in Int /\ 0 <= ctx.buffer_len /\ ctx.buffer_len <= 300
  /\ ctx.hashed \in Int /\ 0 <= ctx.hashed
  /\ ctx.remaining_tokens \in Int /\ 0 <= ctx.remaining_tokens /\ ctx.remaining_tokens <= 255
  /\ ctx.remaining_inputs \in Int /\ 0 <= ctx.remaining_inputs /\ ctx.remaining_inputs <= 255
  /\ ctx.outputs_len \in Int /\ 0 <= ctx.outputs_len /\ ctx.outputs_len <= 255
  /\ ctx.current_output \in Int /\ 0 <= ctx.current_output /\ ctx.current_output <= 255
  /\ ctx.display_index \in Int /\ 0 <= ctx.display_index /\ ctx.display_index <= 255
  /\ ctx.confirmed_outputs \in Int
  /\ 0 <= ctx.confirmed_outputs /\ ctx.confirmed_outputs <= 255
  /\ ctx.buffer_output_len \in Int
  /\ 0 <= ctx.buffer_output_len /\ ctx.buffer_output_len <= 10
  /\ ctx.tokens_len \in Int /\ 0 <= ctx.tokens_len /\ ctx.tokens_len <= 255

\* The fields of a context one by one.
LEMMA ContextFields == TypeOK => ctx \in Context /\ CtxTypes
<1> SUFFICES ASSUME TypeOK PROVE ctx \in Context /\ CtxTypes
  OBVIOUS
<1>1. ctx \in Context
  BY DEF TypeOK
<1>2. /\ ctx.buffer_len \in 0..300 /\ ctx.hashed \in Nat
      /\ ctx.remaining_tokens \in 0..255 /\ ctx.remaining_inputs \in 0..255
      /\ ctx.outputs_len \in 0..255 /\ ctx.current_output \in 0..255
      /\ ctx.display_index \in 0..255 /\ ctx.confirmed_outputs \in 0..255
      /\ ctx.buffer_output_len \in 0..10 /\ ctx.tokens_len \in 0..255
  BY <1>1 DEF Context
<1>3. /\ ctx.buffer_len \in Int /\ 0 <= ctx.buffer_len /\ ctx.buffer_len <= 300
      /\ ctx.hashed \in Int /\ 0 <= ctx.hashed
      /\ ctx.buffer_output_len \in Int
      /\ 0 <= ctx.buffer_output_len /\ ctx.buffer_output_len <= 10
      /\ ctx.tokens_len \in Int /\ 0 <= ctx.tokens_len /\ ctx.tokens_len <= 255
  BY <1>2
<1>4. /\ ctx.remaining_tokens \in Int
      /\ 0 <= ctx.remaining_tokens /\ ctx.remaining_tokens <= 255
      /\ ctx.remaining_inputs \in Int
      /\ 0 <= ctx.remaining_inputs /\ ctx.remaining_inputs <= 255
      /\ ctx.outputs_len \in Int /\ 0 <= ctx.outputs_len /\ ctx.outputs_len <= 255
  BY <1>2
<1>5. /\ ctx.current_output \in Int /\ 0 <= ctx.current_output /\ ctx.current_output <= 255
      /\ ctx.display_index \in Int /\ 0 <= ctx.display_index /\ ctx.display_index <= 255
      /\ ctx.confirmed_outputs \in Int
      /\ 0 <= ctx.confirmed_outputs /\ ctx.confirmed_outputs <= 255
  BY <1>2
<1> QED BY <1>1, <1>3, <1>4, <1>5, Zenon DEF CtxTypes

\* What the invariant says while an element is being decoded.
LEMMA DecodeState ==
  ASSUME IInv, pc = "decode"
  PROVE  /\ reply = "PENDING" /\ ctx.state = "RECV_DATA" /\ ctx.display_index = 0
         /\ screen \in {"menu", "processing"}
         /\ ctx \in Context /\ CtxTypes
<1>1. ctx \in Context /\ CtxTypes
  BY ContextFields DEF IInv
<1> QED BY <1>1 DEF IInv, Phases, Progress

\* ... and while that element is an output.
LEMMA DecodedOutput ==
  ASSUME IInv, ctx.current_output < ctx.outputs_len
  PROVE  tx \in Txs /\ Next_output \in Output /\ ctx.change_info = tx.change
<1>1. CtxTypes
  BY ContextFields DEF IInv
<1>2. ctx.outputs_len # 0 /\ ctx.current_output + 1 \in 1..ctx.outputs_len
  BY <1>1 DEF CtxTypes
<1>3. tx # NoTx
  BY <1>2 DEF IInv, Session
<1>4. tx \in Txs /\ ctx.outputs_len = Len(tx.outputs) /\ ctx.change_info = tx.change
  BY <1>3 DEF IInv, TypeOK, Session
<1>5. \A i \in 1..Len(tx.outputs) : tx.outputs[i] \in Output
  BY <1>4, TxShape
<1>6. Next_output \in Output
  BY <1>2, <1>4, <1>5, Zenon DEF Next_output
<1> QED BY <1>4, <1>6

\* Steps of an idle device that keep the transaction: a refused command, a
\* signature, a command that leaves the context alone.
LEMMA IdleAnswer ==
  ASSUME IInv, Idle,
         NEW c \in Context, NEW scr \in {screen, "menu"}, NEW sw \in Replies \ {"PENDING"},
         Answer(c, scr, sw),
         c.state = ctx.state, c.buffer_len = ctx.buffer_len,
         c.change_info = ctx.change_info,
         c.remaining_tokens = ctx.remaining_tokens,
         c.remaining_inputs = ctx.remaining_inputs,
         c.outputs_len = ctx.outputs_len, c.current_output = ctx.current_output,
         c.confirmed_outputs = ctx.confirmed_outputs,
         c.outputs = ctx.outputs, c.tokens_len = ctx.tokens_len,
         \/ c.display_index = 0 /\ c.buffer_output_len = 0
         \/ c.display_index = ctx.display_index /\ c.buffer_output_len = ctx.buffer_output_len,
         tx' = tx, approved' = approved, signed' \subseteq 0..2
  PROVE  IInv'
<1>0. /\ ctx \in Context
      /\ scr \in {"menu", "processing"}
      /\ ctx' = c /\ pc' = "wait" /\ pc = "wait" /\ screen' = scr /\ reply' = sw
      /\ reply' # "PENDING" /\ reply # "PENDING"
  BY DEF IInv, TypeOK, Phases, Answer, Idle
<1>1. CtxTypes
  BY ContextFields DEF IInv
<1>2. ctx.state = "RECV_DATA" => /\ c.display_index = ctx.display_index
                                 /\ c.buffer_output_len = ctx.buffer_output_len
  BY <1>0 DEF IInv, Progress, Idle
<1>3. TypeOK'
  BY <1>0 DEF IInv, TypeOK, Replies
<1>4. Phases' /\ Session'
  BY <1>0 DEF IInv, Phases, Session, Idle
<1>5. Progress'
  BY <1>0, <1>1, <1>2 DEF IInv, Progress, Idle, CtxTypes
<1>6. Aligned' /\ ChangeVerified'
  BY <1>0, <1>2 DEF IInv, Aligned, ChangeVerified, Base, ChangeIndices
<1>7. PassedCovered' /\ ApprovedCovers'
  BY <1>0, <1>2 DEF IInv, PassedCovered, ApprovedCovers, Covered, VerifiedChange, Base
<1>8. NothingLeft' /\ ApprovedCompleteNoChange'
  BY <1>0, <1>2 DEF IInv, NothingLeft, ApprovedCompleteNoChange, ApprovedComplete, Complete
<1>9. TokensCounted'
  BY <1>0 DEF IInv, TokensCounted
<1> QED BY <1>3, <1>4, <1>5, <1>6, <1>7, <1>8, <1>9 DEF IInv

\* The index of a change entry is a number.
LEMMA ChangeIndexType ==
  ASSUME NEW info \in ChangeInfo, NEW k \in DOMAIN info
  PROVE  info[k].index \in Int /\ 0 <= info[k].index /\ info[k].index <= 254
<1>1. info[k] \in Change
  BY DEF ChangeInfo
<1>2. info[k].index \in 0..254
  BY <1>1 DEF Change
<1> QED BY <1>2

\* An output that is decoded joins the table behind the others.
LEMMA DecodeOutputStep ==
  ASSUME IInv, DecodeOutput, ctx.buffer_output_len < OUTPUTS_CAP
  PROVE  IInv'
<1> DEFINE next == ctx.current_output + 1
           left == ctx.buffer_len - Next_output.len
           n == ctx.buffer_output_len + 1
           table == [ctx.outputs EXCEPT ![ctx.buffer_output_len] = ctx.current_output]
           c == [ctx EXCEPT !.current_output = next, !.buffer_len = left,
                            !.outputs = table, !.buffer_output_len = n]
<1>1. /\ pc = "decode"
      /\ ctx.remaining_tokens = 0 /\ ctx.remaining_inputs = 0
      /\ ctx.current_output < ctx.outputs_len
      /\ OutputWellFormed
      /\ WrongEntries(ctx.current_output) = {}
  BY DEF DecodeOutput, NextIsOutput
<1>2. /\ reply = "PENDING" /\ ctx.state = "RECV_DATA" /\ ctx.display_index = 0
      /\ screen \in {"menu", "processing"}
      /\ ctx \in Context /\ CtxTypes
  BY <1>1, DecodeState
<1>3. Continue(c) /\ UNCHANGED <<tx, approved, signed>>
  <2>1. ~(ctx.buffer_output_len >= OUTPUTS_CAP)
    BY <1>2 DEF CtxTypes
  <2>2. c = [ctx EXCEPT !.current_output = @ + 1, !.buffer_len = @ - Next_output.len,
                        !.outputs[ctx.buffer_output_len] = ctx.current_output,
                        !.buffer_output_len = @ + 1]
    BY <1>2
  <2> HIDE DEF c
  <2> QED BY <2>1, <2>2, Zenon DEF DecodeOutput
<1>4. tx \in Txs /\ Next_output \in Output /\ ctx.change_info = tx.change
  BY <1>1, DecodedOutput
<1>5. next \in Byte /\ n \in 0..OUTPUTS_CAP /\ left \in 0..BUFFER_LEN
  <2>1. Next_output.len \in {32, 36} /\ ctx.buffer_len >= Next_output.len
    BY <1>1, <1>2, <1>4 DEF OutputWellFormed, OutputSplit,
       OutputMalformed, OutputHeadArrived, OutputArrived, Output
  <2> QED BY <1>1, <1>2, <2>1 DEF CtxTypes
<1>6. /\ table \in [Slots -> Byte \cup {NoOutput}]
      /\ \A j \in Slots : table[j] = IF j = ctx.buffer_output_len
                                     THEN ctx.current_output ELSE ctx.outputs[j]
  <2>1. ctx.outputs \in [Slots -> Byte \cup {NoOutput}]
    BY <1>2 DEF Context
  <2> QED BY <1>2, <2>1 DEF CtxTypes
<1>7. n > 0 /\ next - n = Base
  BY <1>2 DEF CtxTypes, Base
<1>8. next = ctx.current_output + 1 /\ n = ctx.buffer_output_len + 1
  OBVIOUS
<1> HIDE DEF next, left, n, table
<1>9. /\ c \in Context
      /\ c.state = "RECV_DATA" /\ c.display_index = 0
      /\ c.change_info = ctx.change_info /\ c.outputs_len = ctx.outputs_len
      /\ c.current_output = next /\ c.buffer_output_len = n
      /\ c.remaining_tokens = 0 /\ c.remaining_inputs = 0
      /\ c.confirmed_outputs = ctx.confirmed_outputs
      /\ c.tokens_len = ctx.tokens_len
      /\ c.outputs = table
  <2>1. ctx \in Context /\ table \in [Slots -> Byte \cup {NoOutput}]
    BY <1>2, <1>6
  <2>2. c \in Context
    BY <2>1, <1>5, DecodedOutputType
  <2>3. /\ c.state = ctx.state /\ c.display_index = ctx.display_index
        /\ c.change_info = ctx.change_info /\ c.outputs_len = ctx.outputs_len
        /\ c.current_output = next /\ c.buffer_output_len = n
        /\ c.remaining_tokens = ctx.remaining_tokens
        /\ c.remaining_inputs = ctx.remaining_inputs
        /\ c.confirmed_outputs = ctx.confirmed_outputs
        /\ c.tokens_len = ctx.tokens_len /\ c.outputs = table
    BY <2>1 DEF Context
  <2> HIDE DEF c
  <2> QED BY <1>1, <1>2, <2>2, <2>3
<1> HIDE DEF c
<1>10. /\ ctx' = c
       /\ \/ pc' = "decode" /\ reply' = reply /\ screen' = screen
          \/ pc' = "show" /\ c.buffer_len = 0 /\ reply' = reply /\ screen' = screen
  <2>1. c.buffer_output_len # 0
    BY <1>7, <1>9, <1>5
  <2> QED BY <1>1, <1>3, <2>1 DEF Continue, Ready
<1>11. TypeOK'
  BY <1>3, <1>9, <1>10 DEF IInv, TypeOK
<1>12. Phases' /\ Session'
  BY <1>2, <1>3, <1>9, <1>10 DEF IInv, Phases, Session, Idle
<1>13. Progress'
  BY <1>1, <1>2, <1>5, <1>7, <1>8, <1>9, <1>10 DEF IInv, Progress, Idle, CtxTypes
<1>14. Aligned'
  <2>1. Base' = Base
    BY <1>7, <1>9, <1>10 DEF Base
  <2>2. ASSUME NEW j \in Slots, j < n PROVE table[j] = Base + j
    BY <1>2, <1>6, <1>8, <2>2 DEF IInv, Aligned, Base, CtxTypes
  <2> QED BY <1>2, <1>9, <1>10, <2>1, <2>2 DEF IInv, Aligned, CtxTypes
<1>15. ChangeVerified'
  <2> SUFFICES ASSUME NEW k \in DOMAIN ctx.change_info, ctx.change_info[k].index < next
               PROVE  ctx.change_info[k].path = tx.outputs[ctx.change_info[k].index + 1].key
    BY <1>3, <1>9, <1>10 DEF ChangeVerified
  <2>1. ctx.change_info[k].index \in Int
    BY <1>2, ChangeIndexType DEF Context
  <2>2. CASE ctx.change_info[k].index = ctx.current_output
    BY <1>1, <2>2 DEF WrongEntries
  <2>3. CASE ctx.change_info[k].index # ctx.current_output
    <3>1. ctx.change_info[k].index < ctx.current_output
      BY <1>2, <1>8, <2>1, <2>3 DEF CtxTypes
    <3> QED BY <3>1 DEF IInv, ChangeVerified
  <2> QED BY <2>2, <2>3
<1>16. PassedCovered' /\ ApprovedCovers'
  <2>1. Base' + ctx'.display_index = Base /\ Base <= ctx.current_output
    BY <1>2, <1>7, <1>9, <1>10 DEF Base, CtxTypes
  <2>2. \A i \in 0..(ctx.current_output - 1) : i < Base => Covered(i)
    BY <1>2 DEF IInv, PassedCovered, Base, CtxTypes
  <2>3. \A i : Covered(i) => Covered(i)'
    BY <1>3, <1>9, <1>10 DEF Covered, VerifiedChange
  <2>4. \A i \in 0..(next - 1) : i < Base => i \in 0..(ctx.current_output - 1)
    BY <1>2, <1>8, <2>1 DEF Base, CtxTypes
  <2> QED BY <1>9, <1>10, <2>1, <2>2, <2>3, <2>4 DEF PassedCovered, ApprovedCovers
<1>17. NothingLeft' /\ ApprovedCompleteNoChange'
  BY <1>2, <1>8, <1>9, <1>10
  DEF IInv, NothingLeft, ApprovedCompleteNoChange, ApprovedComplete, CtxTypes
<1>18. TokensCounted'
  BY <1>1, <1>3, <1>9, <1>10 DEF IInv, TokensCounted
<1> QED BY <1>11, <1>12, <1>13, <1>14, <1>15, <1>16, <1>17, <1>18 DEF IInv

\* Steps of the decoder, and the start of a later chunk, that leave the outputs
\* and the review alone.
LEMMA SameReview ==
  ASSUME IInv, ctx.state = "RECV_DATA", ctx.display_index = 0,
         screen \in {"menu", "processing"},
         NEW c \in Context, ctx' = c, c.state = "RECV_DATA", c.display_index = 0,
         c.change_info = ctx.change_info, c.outputs_len = ctx.outputs_len,
         c.current_output = ctx.current_output,
         c.confirmed_outputs = ctx.confirmed_outputs,
         c.buffer_output_len = ctx.buffer_output_len, c.outputs = ctx.outputs,
         tx # NoTx /\ tx.tokens <= TX_MAX_TOKENS =>
           c.tokens_len + c.remaining_tokens = tx.tokens,
         ctx.current_output > 0 => c.remaining_tokens = 0 /\ c.remaining_inputs = 0,
         \/ pc' = "decode" /\ reply' = "PENDING"
         \/ pc' = "show" /\ reply' = "PENDING" /\ c.buffer_output_len # 0
         \/ pc' = "wait" /\ reply' = "OK" /\ c.buffer_output_len = 0,
         pc' # "decode" => \/ c.remaining_tokens > 0 \/ c.remaining_inputs > 0
                           \/ c.current_output < c.outputs_len
                           \/ c.buffer_len = 0,
         UNCHANGED <<screen, tx, approved, signed>>
  PROVE  IInv'
<1>1. CtxTypes
  BY ContextFields DEF IInv
<1>2. TypeOK'
  BY DEF IInv, TypeOK, StatusWords
<1>3. Phases' /\ Session'
  BY DEF IInv, Phases, Session, Idle
<1>4. Progress'
  BY <1>1 DEF IInv, Progress, Idle, CtxTypes
<1>5. Aligned' /\ ChangeVerified'
  BY DEF IInv, Aligned, ChangeVerified, Base, ChangeIndices
<1>6. PassedCovered' /\ ApprovedCovers'
  BY DEF IInv, PassedCovered, ApprovedCovers, Covered, VerifiedChange, Base
<1>7. NothingLeft' /\ ApprovedCompleteNoChange'
  BY <1>1 DEF IInv, NothingLeft, ApprovedCompleteNoChange, ApprovedComplete, CtxTypes
<1>8. TokensCounted'
  BY DEF TokensCounted
<1> QED BY <1>2, <1>3, <1>4, <1>5, <1>6, <1>7, <1>8 DEF IInv

\* An element is split between two chunks.
LEMMA SplitStep ==
  ASSUME IInv, Split
  PROVE  IInv'
<1>1. pc = "decode" /\ Ready(ctx) /\ UNCHANGED <<tx, approved, signed>>
  BY DEF Split, NextIsToken, NextIsInput, NextIsOutput
<1>2. /\ reply = "PENDING" /\ ctx.state = "RECV_DATA" /\ ctx.display_index = 0
      /\ screen \in {"menu", "processing"} /\ ctx \in Context /\ CtxTypes
  BY <1>1, DecodeState
<1>3. \/ ctx.remaining_tokens > 0 \/ ctx.remaining_inputs > 0
      \/ ctx.current_output < ctx.outputs_len
  BY DEF Split, NextIsToken, NextIsInput, NextIsOutput
<1>4. /\ ctx' = ctx /\ screen' = screen
      /\ \/ pc' = "show" /\ reply' = "PENDING" /\ ctx.buffer_output_len # 0
         \/ pc' = "wait" /\ reply' = "OK" /\ ctx.buffer_output_len = 0
  BY <1>1, <1>2 DEF Ready, Answer
<1>5. /\ tx # NoTx /\ tx.tokens <= TX_MAX_TOKENS =>
           ctx.tokens_len + ctx.remaining_tokens = tx.tokens
      /\ ctx.current_output > 0 => ctx.remaining_tokens = 0 /\ ctx.remaining_inputs = 0
  BY DEF IInv, Progress, TokensCounted
<1> QED BY <1>1, <1>2, <1>3, <1>4, <1>5, SameReview

\* An element other than an output is decoded.
LEMMA DecodeTokenStep ==
  ASSUME IInv, NEW n \in Byte, DecodeToken(n)
  PROVE  IInv'
<1> DEFINE rest == ctx.remaining_tokens - 1
           left == ctx.buffer_len - TOKEN_UID_LEN
           c == [ctx EXCEPT !.tokens_len = n, !.remaining_tokens = rest,
                            !.buffer_len = left]
<1>1. /\ pc = "decode" /\ ctx.remaining_tokens > 0
      /\ ctx.buffer_len >= TOKEN_UID_LEN
      /\ n \in NextTokensLen
      /\ Continue(c) /\ UNCHANGED <<tx, approved, signed>>
  BY DEF DecodeToken, NextIsToken
<1>2. /\ reply = "PENDING" /\ ctx.state = "RECV_DATA" /\ ctx.display_index = 0
      /\ screen \in {"menu", "processing"} /\ ctx \in Context /\ CtxTypes
  BY <1>1, DecodeState
<1>3. ~(ctx.current_output > 0)
  BY <1>1, <1>2 DEF IInv, Progress, CtxTypes
<1>4. rest \in Byte /\ left \in 0..BUFFER_LEN
  BY <1>1, <1>2 DEF CtxTypes
<1>8. ASSUME tx # NoTx, tx.tokens <= TX_MAX_TOKENS PROVE n + rest = tx.tokens
  <2>1. ctx.tokens_len + ctx.remaining_tokens = tx.tokens
    BY <1>8 DEF IInv, TokensCounted
  <2>2. ctx.tokens_len < TX_MAX_TOKENS /\ TX_MAX_TOKENS \in 1..254
    BY <1>1, <1>2, <1>8, <2>1, TokensAssumption DEF CtxTypes
  <2>3. n = Incr(ctx.tokens_len)
    BY <1>1, <1>2, <2>2 DEF NextTokensLen, CtxTypes
  <2>4. n = ctx.tokens_len + 1
    BY <1>2, <2>2, <2>3 DEF Incr, CtxTypes
  <2> QED BY <1>2, <2>1, <2>4 DEF CtxTypes
<1> HIDE DEF rest, left
<1>5. c \in Context
  BY <1>2, <1>4, DecodedTokenType
<1>6. /\ c.state = ctx.state /\ c.display_index = ctx.display_index
      /\ c.change_info = ctx.change_info /\ c.outputs_len = ctx.outputs_len
      /\ c.current_output = ctx.current_output
      /\ c.confirmed_outputs = ctx.confirmed_outputs
      /\ c.buffer_output_len = ctx.buffer_output_len /\ c.outputs = ctx.outputs
      /\ c.tokens_len = n /\ c.remaining_tokens = rest
  BY <1>2 DEF Context
<1> HIDE DEF c
<1>7. /\ ctx' = c /\ screen' = screen
      /\ \/ pc' = "decode" /\ reply' = "PENDING"
         \/ pc' = "show" /\ reply' = "PENDING" /\ c.buffer_output_len # 0
         \/ pc' = "wait" /\ reply' = "OK" /\ c.buffer_output_len = 0
      /\ pc' # "decode" => c.buffer_len = 0
  BY <1>1, <1>2 DEF Continue, Ready, Answer
<1>9. tx # NoTx /\ tx.tokens <= TX_MAX_TOKENS =>
        c.tokens_len + c.remaining_tokens = tx.tokens
  BY <1>6, <1>8
<1> QED BY <1>1, <1>2, <1>3, <1>5, <1>6, <1>7, <1>9, SameReview

\* Decoding an input: no output is touched.
LEMMA DecodeInputStep ==
  ASSUME IInv, DecodeInput
  PROVE  IInv'
<1> DEFINE rest == ctx.remaining_inputs - 1
           left == ctx.buffer_len - TX_INPUT_LEN
           c == [ctx EXCEPT !.remaining_inputs = rest, !.buffer_len = left]
<1>1. /\ pc = "decode" /\ ctx.remaining_tokens = 0 /\ ctx.remaining_inputs > 0
      /\ ctx.buffer_len >= TX_INPUT_LEN
      /\ Continue(c) /\ UNCHANGED <<tx, approved, signed>>
  BY DEF DecodeInput, NextIsInput
<1>2. /\ reply = "PENDING" /\ ctx.state = "RECV_DATA" /\ ctx.display_index = 0
      /\ screen \in {"menu", "processing"} /\ ctx \in Context /\ CtxTypes
  BY <1>1, DecodeState
<1>3. /\ tx # NoTx /\ tx.tokens <= TX_MAX_TOKENS =>
           ctx.tokens_len + ctx.remaining_tokens = tx.tokens
      /\ ~(ctx.current_output > 0)
  BY <1>1, <1>2 DEF IInv, Progress, TokensCounted, CtxTypes
<1>4. rest \in Byte /\ left \in 0..BUFFER_LEN
  BY <1>1, <1>2 DEF CtxTypes
<1> HIDE DEF rest, left
<1>5. c \in Context
  BY <1>2, <1>4, DecodedInputType
<1>6. /\ c.state = ctx.state /\ c.display_index = ctx.display_index
      /\ c.change_info = ctx.change_info /\ c.outputs_len = ctx.outputs_len
      /\ c.current_output = ctx.current_output
      /\ c.confirmed_outputs = ctx.confirmed_outputs
      /\ c.buffer_output_len = ctx.buffer_output_len /\ c.outputs = ctx.outputs
      /\ c.tokens_len = ctx.tokens_len /\ c.remaining_tokens = ctx.remaining_tokens
  BY <1>2 DEF Context
<1> HIDE DEF c
<1>7. /\ ctx' = c /\ screen' = screen
      /\ \/ pc' = "decode" /\ reply' = "PENDING"
         \/ pc' = "show" /\ reply' = "PENDING" /\ c.buffer_output_len # 0
         \/ pc' = "wait" /\ reply' = "OK" /\ c.buffer_output_len = 0
      /\ pc' # "decode" => c.buffer_len = 0
  BY <1>1, <1>2 DEF Continue, Ready, Answer
<1> QED BY <1>1, <1>2, <1>3, <1>5, <1>6, <1>7, SameReview

\* A later chunk: it is hashed, and rejected or appended to the buffer.
LEMMA DataNextStep ==
  ASSUME IInv, NEW n \in ChunkSizes, DataNext(n)
  PROVE  IInv'
<1> DEFINE h == ctx.hashed + n
           b == ctx.buffer_len + n
           refused == [Entered EXCEPT !.hashed = h]
           c == [Entered EXCEPT !.hashed = h, !.buffer_len = b]
<1>1. Idle /\ ctx.state = "RECV_DATA" /\ UNCHANGED <<tx, approved, signed>>
  BY DEF DataNext, ExpectsData
<1>2. ctx \in Context /\ CtxTypes
  BY ContextFields DEF IInv
<1>3. screen \in {"menu", "processing"} /\ ctx.display_index = 0 /\ ctx.buffer_output_len = 0
  BY <1>1 DEF IInv, Phases, Progress
<1>4. n \in Int /\ 0 <= n /\ h \in Nat /\ b \in Nat
  BY <1>2, SizesAssumption DEF CtxTypes
<1>5. /\ Entered \in Context /\ Entered.hashed = ctx.hashed
      /\ Entered.buffer_len = ctx.buffer_len
  BY <1>2, EnteredType
<1>6. \/ b > BUFFER_LEN /\ Answer(refused, screen, "WRONG_DATA_LENGTH")
      \/ /\ b \in 0..BUFFER_LEN
         /\ ctx' = c /\ pc' = "decode" /\ reply' = "PENDING" /\ screen' = screen
  <2>1. refused = [Entered EXCEPT !.hashed = @ + n] /\ refused.buffer_len + n = b
    BY <1>5 DEF Context
  <2>2. c = [refused EXCEPT !.buffer_len = @ + n]
    BY <1>5 DEF Context
  <2> HIDE DEF refused, c
  <2>3. \/ b > BUFFER_LEN /\ Answer(refused, screen, "WRONG_DATA_LENGTH")
        \/ /\ ~(b > BUFFER_LEN)
           /\ ctx' = c /\ pc' = "decode" /\ reply' = "PENDING" /\ screen' = screen
    BY <2>1, <2>2, Zenon DEF DataNext
  <2> QED BY <1>4, <2>3
<1> HIDE DEF h, b
<1>7. ASSUME b \in 0..BUFFER_LEN
      PROVE  /\ c \in Context
             /\ c.display_index = 0 /\ c.buffer_output_len = 0
             /\ \A f \in {"state", "change_info", "remaining_tokens",
                           "remaining_inputs", "outputs_len", "current_output",
                           "confirmed_outputs", "outputs", "tokens_len"} : c[f] = ctx[f]
  <2>1. c \in Context
    BY <1>4, <1>5, <1>7, BufferedType
  <2>2. \A f \in {"state", "change_info", "remaining_tokens", "remaining_inputs",
                  "outputs_len", "current_output", "confirmed_outputs", "outputs",
                  "tokens_len", "display_index", "buffer_output_len"} : c[f] = Entered[f]
    BY <1>5 DEF Context
  <2> HIDE DEF c
  <2> QED BY <1>2, <2>1, <2>2, EnteredType
<1>8. /\ refused \in Context
      /\ refused.display_index = 0 /\ refused.buffer_output_len = 0
      /\ \A f \in {"state", "buffer_len", "change_info", "remaining_tokens",
                    "remaining_inputs", "outputs_len", "current_output",
                    "confirmed_outputs", "outputs", "tokens_len"} : refused[f] = ctx[f]
  <2>1. refused \in Context
    BY <1>4, <1>5, HashedType
  <2>2. \A f \in {"state", "buffer_len", "change_info", "remaining_tokens",
                  "remaining_inputs", "outputs_len", "current_output",
                  "confirmed_outputs", "outputs", "tokens_len", "display_index",
                  "buffer_output_len"} : refused[f] = Entered[f]
    BY <1>5 DEF Context
  <2> HIDE DEF refused
  <2> QED BY <1>2, <2>1, <2>2, EnteredType
<1> HIDE DEF refused, c
<1>9. CASE Answer(refused, screen, "WRONG_DATA_LENGTH")
  <2>1. signed \subseteq 0..2 /\ "WRONG_DATA_LENGTH" \in Replies \ {"PENDING"}
    BY DEF IInv, TypeOK, Replies, StatusWords
  <2> QED BY <1>1, <1>8, <1>9, <2>1, IdleAnswer
<1>10. CASE /\ b \in 0..BUFFER_LEN
            /\ ctx' = c /\ pc' = "decode" /\ reply' = "PENDING" /\ screen' = screen
  <2>1. /\ tx # NoTx /\ tx.tokens <= TX_MAX_TOKENS =>
             ctx.tokens_len + ctx.remaining_tokens = tx.tokens
        /\ ctx.current_output > 0 => ctx.remaining_tokens = 0 /\ ctx.remaining_inputs = 0
    BY DEF IInv, Progress, TokensCounted
  <2> QED BY <1>1, <1>3, <1>7, <1>10, <2>1, SameReview
<1> QED BY <1>6, <1>9, <1>10

\* The numbers of a context that the invariant is about.
LEMMA FreshTypes ==
  ASSUME NEW c \in Context
  PROVE  /\ c.change_info \in ChangeInfo
         /\ c.outputs_len \in Int /\ 0 <= c.outputs_len
         /\ c.remaining_tokens \in Int /\ 0 <= c.remaining_tokens
<1>1. c.change_info \in ChangeInfo /\ c.outputs_len \in 0..255 /\ c.remaining_tokens \in 0..255
  BY DEF Context
<1> QED BY <1>1

\* A state in which the context is fresh: nothing is decoded yet.
LEMMA FreshInv ==
  ASSUME IInv, Idle, NEW c \in Context, ctx' = c,
         c.state = "RECV_DATA", c.current_output = 0, c.display_index = 0,
         c.confirmed_outputs = 0, c.buffer_output_len = 0, c.tokens_len = 0,
         \/ pc' = "decode" /\ reply' = "PENDING"
         \/ pc' = "wait" /\ reply' \in {"WRONG_DATA_LENGTH", "OS_ERROR"} /\ c.buffer_len = 0,
         screen' = screen, approved' \subseteq Byte, signed' \subseteq 0..2,
         \/ tx' = NoTx /\ c.outputs_len = 0
         \/ /\ tx' \in Txs /\ c.change_info = tx'.change /\ c.outputs_len = Len(tx'.outputs)
            /\ c.remaining_tokens = tx'.tokens
  PROVE  IInv'
<1>1. screen' \in {"menu", "processing"}
  BY DEF IInv, Phases
<1>2. /\ c.change_info \in ChangeInfo
      /\ c.outputs_len \in Int /\ 0 <= c.outputs_len
      /\ c.remaining_tokens \in Int /\ 0 <= c.remaining_tokens
  BY FreshTypes
<1>3. TypeOK'
  BY <1>1 DEF TypeOK, StatusWords
<1>4. Phases'
  BY <1>1 DEF Phases, Idle
<1>5. Session'
  BY TxsAssumption, Zenon DEF Session
<1>6. Progress'
  BY <1>1, <1>2 DEF Progress
<1>7. Aligned' /\ PassedCovered' /\ ApprovedCovers'
  BY <1>1 DEF Aligned, PassedCovered, ApprovedCovers, Base
<1>8. ChangeVerified'
  BY <1>2, ChangeIndexType DEF ChangeVerified
<1>9. NothingLeft' /\ ApprovedCompleteNoChange'
  BY <1>1 DEF NothingLeft, ApprovedCompleteNoChange, ApprovedComplete
<1>10. TokensCounted'
  BY <1>2 DEF TokensCounted
<1> QED BY <1>3, <1>4, <1>5, <1>6, <1>7, <1>8, <1>9, <1>10 DEF IInv

\* A first chunk.
LEMMA DataFirstStep ==
  ASSUME IInv, NEW t \in Txs, NEW n \in FirstSizes, DataFirst(t, n)
  PROVE  IInv'
<1> DEFINE c == FirstCtx(t, n)
<1>1. /\ Idle /\ ctx' = c /\ tx' = t /\ pc' = "decode" /\ reply' = "PENDING"
      /\ approved' = {} /\ signed' = {} /\ screen' = screen
  BY DEF DataFirst
<1>2. n \in 0..BUFFER_LEN /\ HEADER_LEN + n \in Nat
  BY SizesAssumption
<1>3. /\ Len(t.outputs) \in Byte /\ t.tokens \in Byte /\ t.inputs \in Byte /\ t.change \in ChangeInfo
  BY TxShape
<1>4. ZeroCtx \in Context
  BY ZeroCtxType
<1>5. c \in Context
  BY <1>2, <1>3, <1>4, FirstType
<1>6. /\ c.state = "RECV_DATA" /\ c.current_output = 0 /\ c.display_index = 0
      /\ c.confirmed_outputs = 0 /\ c.buffer_output_len = 0 /\ c.tokens_len = 0
      /\ c.remaining_tokens = t.tokens /\ c.change_info = t.change
      /\ c.outputs_len = Len(t.outputs)
  BY DEF FirstCtx, ZeroCtx
<1> HIDE DEF c
<1> QED BY <1>1, <1>5, <1>6, FreshInv

\* A first chunk that ends too early.
LEMMA DataFirstTruncatedStep ==
  ASSUME IInv, NEW t \in Txs, NEW cut \in {"change", "tokens", "inputs", "outputs"},
         DataFirstTruncated(t, cut)
  PROVE  IInv'
<1> DEFINE info == IF cut = "change" THEN <<>> ELSE t.change
           tokens == IF cut \in {"inputs", "outputs"} THEN t.tokens ELSE 0
           inputs == IF cut = "outputs" THEN t.inputs ELSE 0
           c == [ZeroCtx EXCEPT !.state = "RECV_DATA", !.change_info = info,
                                !.remaining_tokens = tokens, !.remaining_inputs = inputs]
<1>1. /\ Idle /\ ctx.state \notin {"RECV_DATA", "APPROVED"}
      /\ UNCHANGED <<tx, approved, signed>>
      /\ ctx' = c /\ pc' = "wait" /\ screen' = screen
      /\ reply' \in {"WRONG_DATA_LENGTH", "OS_ERROR"}
  <2>1. PICK sw \in {"WRONG_DATA_LENGTH"} \cup (IF cut = "tokens" THEN {"OS_ERROR"} ELSE {}) :
          Answer(c, screen, sw)
    BY DEF DataFirstTruncated
  <2> QED BY <2>1 DEF DataFirstTruncated, Answer
<1>2. tx = NoTx
  BY <1>1 DEF IInv, TypeOK, Context, Phases, Session, Idle
<1>3. info \in ChangeInfo /\ tokens \in Byte /\ inputs \in Byte
  <2>1. t.change \in ChangeInfo /\ t.tokens \in Byte /\ t.inputs \in Byte
    BY TxShape
  <2>2. <<>> \in ChangeInfo
    BY DEF ChangeInfo
  <2> QED BY <2>1, <2>2
<1> HIDE DEF info, tokens, inputs
<1>4. ZeroCtx \in Context
  BY ZeroCtxType
<1>5. c \in Context
  BY <1>3, <1>4, TruncatedType
<1>6. /\ c.state = "RECV_DATA" /\ c.current_output = 0 /\ c.display_index = 0
      /\ c.confirmed_outputs = 0 /\ c.buffer_output_len = 0 /\ c.tokens_len = 0
      /\ c.remaining_tokens = tokens /\ c.buffer_len = 0 /\ c.outputs_len = 0
  BY DEF ZeroCtx
<1> HIDE DEF c
<1>8. approved \subseteq Byte /\ signed \subseteq 0..2
  BY DEF IInv, TypeOK
<1> QED BY <1>1, <1>2, <1>5, <1>6, <1>8, FreshInv DEF Answer

\* Steps within the review of a chunk: only the counters and the approved
\* outputs change.
LEMMA ReviewStep ==
  ASSUME IInv, ctx.state = "RECV_DATA", ctx.buffer_output_len > 0, pc # "decode",
         NEW c \in Context, ctx' = c,
         c.state = ctx.state, c.change_info = ctx.change_info,
         c.outputs_len = ctx.outputs_len, c.current_output = ctx.current_output,
         c.buffer_output_len = ctx.buffer_output_len, c.outputs = ctx.outputs,
         c.remaining_tokens = ctx.remaining_tokens,
         c.remaining_inputs = ctx.remaining_inputs,
         c.tokens_len = ctx.tokens_len, c.buffer_len = ctx.buffer_len,
         reply' = "PENDING",
         \/ pc' = "show" /\ screen' = screen
         \/ /\ pc' = "wait" /\ screen' = "output"
            /\ c.confirmed_outputs \notin ChangeIndices(ctx),
         tx' = tx, signed' = signed, approved \subseteq approved', approved' \subseteq Byte,
         \/ c.confirmed_outputs = Base + c.display_index
         \/ c.confirmed_outputs = Base + c.display_index - 256,
         \A i \in 0..(ctx.current_output - 1) : i < Base + c.display_index => Covered(i)',
         ctx.change_info = <<>> =>
           /\ c.display_index <= ctx.buffer_output_len
           /\ pc' = "wait" => c.display_index < ctx.buffer_output_len
  PROVE  IInv'
<1>1. CtxTypes
  BY ContextFields DEF IInv
<1>2. Base' = Base
  BY DEF Base
<1>3. TypeOK'
  BY DEF IInv, TypeOK
<1>4. Phases' /\ Session'
  BY DEF IInv, Phases, Session, Idle
<1>5. Progress'
  BY DEF IInv, Progress, Idle
<1>6. Aligned'
  BY <1>2 DEF IInv, Aligned, ChangeIndices
<1>7. ChangeVerified'
  BY DEF IInv, ChangeVerified
<1>8. PassedCovered' /\ ApprovedCovers'
  BY <1>2 DEF PassedCovered, ApprovedCovers
<1>9. NothingLeft' /\ ApprovedCompleteNoChange'
  BY DEF IInv, NothingLeft, ApprovedCompleteNoChange, ApprovedComplete
<1>10. TokensCounted'
  BY DEF IInv, TokensCounted
<1> QED BY <1>3, <1>4, <1>5, <1>6, <1>7, <1>8, <1>9, <1>10 DEF IInv

\* What holds while the outputs of a chunk are reviewed.
LEMMA ReviewState ==
  ASSUME IInv, pc = "show" \/ (pc = "wait" /\ screen = "output")
  PROVE  /\ reply = "PENDING" /\ ctx.state = "RECV_DATA"
         /\ ctx.buffer_output_len > 0 /\ ctx.buffer_output_len <= ctx.current_output
         /\ ctx.current_output <= ctx.outputs_len
         /\ ctx \in Context /\ CtxTypes
<1>1. ctx \in Context /\ CtxTypes
  BY ContextFields DEF IInv
<1> QED BY <1>1 DEF IInv, Phases, Progress, Idle

\* An output is shown only when its index is no change index.
LEMMA ShowOutputStep ==
  ASSUME IInv, ShowOutput
  PROVE  IInv'
<1>1. /\ pc = "show" /\ ~AllShown /\ ctx.confirmed_outputs \notin ChangeIndices(ctx)
      /\ pc' = "wait" /\ screen' = "output" /\ UNCHANGED <<ctx, reply, tx, approved, signed>>
  BY DEF ShowOutput, NothingToSkip
<1>2. /\ reply = "PENDING" /\ ctx.state = "RECV_DATA" /\ ctx.buffer_output_len > 0
      /\ ctx \in Context /\ CtxTypes
  BY <1>1, ReviewState
<1>3. \/ ctx.confirmed_outputs = Base + ctx.display_index
      \/ ctx.confirmed_outputs = Base + ctx.display_index - 256
  BY <1>2 DEF IInv, Aligned
<1>4. \A i \in 0..(ctx.current_output - 1) : i < Base + ctx.display_index => Covered(i)'
  BY <1>1, <1>2 DEF IInv, PassedCovered, Covered, VerifiedChange
<1>5. ctx.change_info = <<>> =>
           /\ ctx.display_index <= ctx.buffer_output_len
           /\ pc' = "wait" => ctx.display_index < ctx.buffer_output_len
  BY <1>1, <1>2 DEF IInv, NothingLeft, AllShown, CtxTypes
<1>6. approved' \subseteq Byte
  BY <1>1 DEF IInv, TypeOK
<1> QED BY <1>1, <1>2, <1>3, <1>4, <1>5, <1>6, ReviewStep

\* The two counters go forward together, and a wrap keeps them aligned.
LEMMA AdvanceFields ==
  ASSUME NEW c \in Context
  PROVE  /\ Advance(c) \in Context
         /\ Advance(c).display_index = Incr(c.display_index)
         /\ Advance(c).confirmed_outputs = Incr(c.confirmed_outputs)
         /\ \A f \in {"state", "buffer_len", "hashed", "finals", "unset", "change_info",
                       "remaining_tokens", "remaining_inputs", "outputs_len", "current_output",
                       "buffer_output_len", "outputs", "tokens_len"} :
              Advance(c)[f] = c[f]
<1> DEFINE d == Incr(c.display_index)
           f == Incr(c.confirmed_outputs)
<1>1. c.display_index \in 0..255 /\ c.confirmed_outputs \in 0..255
  BY DEF Context
<1>2. d \in Byte /\ f \in Byte
  BY <1>1 DEF Incr
<1>3. Advance(c) = [c EXCEPT !.display_index = d, !.confirmed_outputs = f]
  BY DEF Advance
<1> HIDE DEF d, f
<1>4. Advance(c) \in Context
  <2>1. [c EXCEPT !.display_index = d, !.confirmed_outputs = f] \in Context
    BY <1>2, ReviewedType
  <2> QED BY <1>3, <2>1, Zenon
<1>5. /\ Advance(c).display_index = d /\ Advance(c).confirmed_outputs = f
      /\ \A g \in {"state", "buffer_len", "hashed", "finals", "unset", "change_info",
                    "remaining_tokens", "remaining_inputs", "outputs_len", "current_output",
                    "buffer_output_len", "outputs", "tokens_len"} : Advance(c)[g] = c[g]
  BY <1>3 DEF Context
<1> QED BY <1>4, <1>5 DEF d, f

\* One output further, the two counters of the review still agree.
LEMMA AdvanceAligned ==
  ASSUME NEW b \in Int, 0 <= b, b <= 255,
         NEW d \in Int, 0 <= d, d <= 255, NEW f \in Int, 0 <= f, f <= 255,
         f = b + d \/ f = b + d - 256
  PROVE  /\ Incr(f) = b + Incr(d) \/ Incr(f) = b + Incr(d) - 256
         /\ Incr(d) \in Int /\ 0 <= Incr(d) /\ Incr(d) <= d + 1
         /\ d < 255 => Incr(d) = d + 1
BY DEF Incr

\* A decoded output that the change info names is change of this device.
LEMMA NamedIsVerified ==
  ASSUME IInv, NEW i \in 0..(ctx.current_output - 1), i \in ChangeIndices(ctx)
  PROVE  VerifiedChange(i)
<1>1. PICK k \in DOMAIN ctx.change_info : ctx.change_info[k].index = i
  BY DEF ChangeIndices
<1>2. ctx.change_info[k].index < ctx.current_output
  <2>1. CtxTypes
    BY ContextFields DEF IInv
  <2> QED BY <1>1, <2>1 DEF CtxTypes
<1> QED BY <1>1, <1>2 DEF IInv, ChangeVerified, VerifiedChange

\* Skipping a change output extends what the review has covered.
LEMMA SkipCovers ==
  ASSUME IInv, NEW d \in Int, 0 <= d, d <= 255, NEW f \in Int, 0 <= f,
         f = Base + d \/ f = Base + d - 256,
         f \in ChangeIndices(ctx),
         ctx'.change_info = ctx.change_info, tx' = tx,
         \A i \in 0..(ctx.current_output - 1) : i < Base + d => Covered(i)'
  PROVE  \A i \in 0..(ctx.current_output - 1) : i < Base + Incr(d) => Covered(i)'
<1> SUFFICES ASSUME NEW i \in 0..(ctx.current_output - 1), i < Base + Incr(d)
             PROVE  Covered(i)'
  OBVIOUS
<1>1. CtxTypes
  BY ContextFields DEF IInv
<1>2. Base \in Int /\ i \in Int /\ 0 <= i /\ i <= 255
  BY <1>1 DEF Base, CtxTypes
<1>3. CASE i < Base + d
  BY <1>3
<1>4. CASE ~(i < Base + d)
  <2>1. i = Base + d
    BY <1>2, <1>4 DEF Incr
  <2>2. i = f
    BY <1>2, <2>1
  <2>3. VerifiedChange(i)
    BY <2>2, NamedIsVerified
  <2> QED BY <2>3 DEF Covered, VerifiedChange
<1> QED BY <1>3, <1>4

\* A skipped output is change that was verified when it was decoded.
LEMMA SkipChangeStep ==
  ASSUME IInv, SkipChange
  PROVE  IInv'
<1> DEFINE c == Advance(ctx)
<1>1. /\ pc = "show" /\ ctx.confirmed_outputs \in ChangeIndices(ctx) /\ ctx' = c
      /\ UNCHANGED <<pc, screen, reply, tx, approved, signed>>
  BY DEF SkipChange
<1>2. /\ reply = "PENDING" /\ ctx.state = "RECV_DATA" /\ ctx.buffer_output_len > 0
      /\ ctx.buffer_output_len <= ctx.current_output
      /\ ctx \in Context /\ CtxTypes
  BY <1>1, ReviewState
<1>3. /\ c \in Context
      /\ c.display_index = Incr(ctx.display_index)
      /\ c.confirmed_outputs = Incr(ctx.confirmed_outputs)
      /\ \A f \in {"state", "buffer_len", "change_info", "remaining_tokens",
                    "remaining_inputs", "outputs_len", "current_output",
                    "buffer_output_len", "outputs", "tokens_len"} : c[f] = ctx[f]
  BY <1>2, AdvanceFields
<1> HIDE DEF c
<1>4. /\ Base \in Int /\ 0 <= Base /\ Base <= 255
      /\ ctx.display_index \in Int /\ 0 <= ctx.display_index /\ ctx.display_index <= 255
      /\ ctx.confirmed_outputs \in Int
      /\ 0 <= ctx.confirmed_outputs /\ ctx.confirmed_outputs <= 255
  BY <1>2 DEF CtxTypes, Base
<1>5. \/ ctx.confirmed_outputs = Base + ctx.display_index
      \/ ctx.confirmed_outputs = Base + ctx.display_index - 256
  BY <1>2 DEF IInv, Aligned
<1>6. \/ c.confirmed_outputs = Base + c.display_index
      \/ c.confirmed_outputs = Base + c.display_index - 256
  BY <1>3, <1>4, <1>5, AdvanceAligned
<1>7. \A i \in 0..(ctx.current_output - 1) : i < Base + ctx.display_index => Covered(i)'
  BY <1>1, <1>2, <1>3 DEF IInv, PassedCovered, Covered, VerifiedChange
<1>8. \A i \in 0..(ctx.current_output - 1) : i < Base + c.display_index => Covered(i)'
  BY <1>1, <1>3, <1>4, <1>5, <1>7, SkipCovers
<1>9. ctx.change_info # <<>>
  BY <1>1 DEF ChangeIndices
<1>10. approved' \subseteq Byte
  BY <1>1 DEF IInv, TypeOK
<1> QED BY <1>1, <1>2, <1>3, <1>6, <1>8, <1>9, <1>10, ReviewStep

\* The output on the screen, when it is one of this chunk, is approved; the
\* change output behind it, if there is one, is skipped.
LEMMA ConfirmOutputStep ==
  ASSUME IInv, ConfirmOutput
  PROVE  IInv'
<1> DEFINE c == Advance(ctx)
           e == Advance(c)
<1>1. /\ pc = "wait" /\ screen = "output"
      /\ ctx' = IF c.confirmed_outputs \in ChangeIndices(c) THEN e ELSE c
      /\ approved' = IF Shown = NoOutput THEN approved ELSE approved \cup {Shown}
      /\ pc' = "show" /\ UNCHANGED <<screen, reply, tx, signed>>
  BY Zenon DEF ConfirmOutput
<1>2. /\ reply = "PENDING" /\ ctx.state = "RECV_DATA" /\ ctx.buffer_output_len > 0
      /\ ctx.buffer_output_len <= ctx.current_output
      /\ ctx \in Context /\ CtxTypes
  BY <1>1, ReviewState
<1>3. /\ c \in Context
      /\ c.display_index = Incr(ctx.display_index)
      /\ c.confirmed_outputs = Incr(ctx.confirmed_outputs)
      /\ \A f \in {"state", "buffer_len", "change_info", "remaining_tokens",
                    "remaining_inputs", "outputs_len", "current_output",
                    "buffer_output_len", "outputs", "tokens_len"} : c[f] = ctx[f]
  BY <1>2, AdvanceFields
<1> HIDE DEF c
<1>4. /\ e \in Context
      /\ e.display_index = Incr(c.display_index)
      /\ e.confirmed_outputs = Incr(c.confirmed_outputs)
      /\ \A f \in {"state", "buffer_len", "change_info", "remaining_tokens",
                    "remaining_inputs", "outputs_len", "current_output",
                    "buffer_output_len", "outputs", "tokens_len"} : e[f] = ctx[f]
  BY <1>3, AdvanceFields
<1> HIDE DEF e
<1>5. /\ Base \in Int /\ 0 <= Base /\ Base <= 255
      /\ ctx.display_index \in Int /\ 0 <= ctx.display_index /\ ctx.display_index <= 255
      /\ ctx.confirmed_outputs \in Int
      /\ 0 <= ctx.confirmed_outputs /\ ctx.confirmed_outputs <= 255
  BY <1>2 DEF CtxTypes, Base
<1>6. \/ ctx.confirmed_outputs = Base + ctx.display_index
      \/ ctx.confirmed_outputs = Base + ctx.display_index - 256
  BY <1>2 DEF IInv, Aligned
<1>7. /\ \/ c.confirmed_outputs = Base + c.display_index
         \/ c.confirmed_outputs = Base + c.display_index - 256
      /\ c.display_index \in Int /\ 0 <= c.display_index
      /\ c.display_index <= ctx.display_index + 1
      /\ ctx.display_index < 255 => c.display_index = ctx.display_index + 1
  BY <1>3, <1>5, <1>6, AdvanceAligned
<1>8. /\ c.display_index <= 255 /\ c.confirmed_outputs \in Int
      /\ 0 <= c.confirmed_outputs /\ c.confirmed_outputs <= 255
  <2>1. c.display_index \in 0..255 /\ c.confirmed_outputs \in 0..255
    BY <1>3 DEF Context
  <2> QED BY <2>1
<1>9. \/ e.confirmed_outputs = Base + e.display_index
      \/ e.confirmed_outputs = Base + e.display_index - 256
  BY <1>4, <1>5, <1>7, <1>8, AdvanceAligned
<1>10. ChangeIndices(c) = ChangeIndices(ctx)
  BY <1>3 DEF ChangeIndices
<1>11. approved \subseteq approved' /\ approved' \subseteq Byte
  <2>1. ctx.outputs \in [Slots -> Byte \cup {NoOutput}] /\ approved \subseteq Byte
    BY <1>2 DEF Context, IInv, TypeOK
  <2>2. Shown \in Byte \cup {NoOutput}
    BY <2>1 DEF Shown
  <2> QED BY <1>1, <2>1, <2>2
<1>12. tx' = tx /\ ctx'.change_info = ctx.change_info
  BY <1>1, <1>3, <1>4
<1>13. \A i \in 0..(ctx.current_output - 1) : i < Base + c.display_index => Covered(i)'
  <2> SUFFICES ASSUME NEW i \in 0..(ctx.current_output - 1), i < Base + c.display_index
               PROVE  Covered(i)'
    OBVIOUS
  <2>1. CASE i < Base + ctx.display_index
    BY <1>2, <1>11, <1>12, <2>1 DEF IInv, PassedCovered, Covered, VerifiedChange
  <2>2. CASE ~(i < Base + ctx.display_index)
    <3>1. i = Base + ctx.display_index
      BY <1>2, <1>5, <1>7, <2>2 DEF CtxTypes
    <3>2. ctx.display_index < ctx.buffer_output_len /\ ctx.display_index \in Slots
      BY <1>2, <3>1 DEF CtxTypes, Base
    <3>3. Shown = i
      BY <1>2, <3>1, <3>2 DEF IInv, Aligned, Shown
    <3>4. i # NoOutput
      BY <1>2 DEF CtxTypes
    <3> QED BY <1>1, <3>3, <3>4 DEF Covered
  <2> QED BY <2>1, <2>2
<1>14. CASE c.confirmed_outputs \in ChangeIndices(c)
  <2>1. ctx' = e /\ c.confirmed_outputs \in ChangeIndices(ctx)
    BY <1>1, <1>10, <1>14
  <2>2. \A i \in 0..(ctx.current_output - 1) : i < Base + e.display_index => Covered(i)'
    BY <1>4, <1>7, <1>8, <1>12, <1>13, <2>1, SkipCovers
  <2>3. ctx.change_info # <<>>
    BY <2>1 DEF ChangeIndices
  <2> QED BY <1>1, <1>2, <1>4, <1>9, <1>11, <2>1, <2>2, <2>3, ReviewStep
<1>15. CASE c.confirmed_outputs \notin ChangeIndices(c)
  <2>1. ctx' = c
    BY <1>1, <1>15
  <2>2. ctx.change_info = <<>> => c.display_index <= ctx.buffer_output_len
    <3>1. ctx.change_info = <<>> => ctx.display_index < ctx.buffer_output_len
      BY <1>1, <1>2 DEF IInv, NothingLeft
    <3> QED BY <1>2, <1>7, <3>1 DEF CtxTypes
  <2> QED BY <1>1, <1>2, <1>3, <1>7, <1>11, <1>13, <2>1, <2>2, ReviewStep
<1> QED BY <1>14, <1>15

\* The count of confirmed outputs reaches the declared one: the review has
\* passed every decoded output, and without change outputs the transaction is
\* complete.
LEMMA AskConfirmationStep ==
  ASSUME IInv, AskConfirmation
  PROVE  IInv'
<1> DEFINE c == [ctx EXCEPT !.state = "PARSED"]
<1>1. /\ pc = "show" /\ ctx.confirmed_outputs = ctx.outputs_len
      /\ ctx' = c /\ pc' = "wait" /\ screen' = "confirm"
      /\ UNCHANGED <<reply, tx, approved, signed>>
  BY DEF AskConfirmation, AllConfirmed
<1>2. /\ reply = "PENDING" /\ ctx.state = "RECV_DATA" /\ ctx.buffer_output_len > 0
      /\ ctx.buffer_output_len <= ctx.current_output
      /\ ctx.current_output <= ctx.outputs_len
      /\ ctx \in Context /\ CtxTypes
  BY <1>1, ReviewState
<1>3. /\ c \in Context /\ c.state = "PARSED"
      /\ \A f \in {"buffer_len", "change_info", "remaining_tokens",
                    "remaining_inputs", "outputs_len", "current_output", "display_index",
                    "confirmed_outputs", "buffer_output_len", "outputs",
                    "tokens_len"} : c[f] = ctx[f]
  <2>1. c \in Context
    BY <1>2, StateType
  <2> QED BY <1>2, <2>1 DEF Context
<1> HIDE DEF c
<1>4. \/ ctx.confirmed_outputs = Base + ctx.display_index
      \/ ctx.confirmed_outputs = Base + ctx.display_index - 256
  BY <1>2 DEF IInv, Aligned
<1>5. \A i \in 0..(ctx.current_output - 1) : Covered(i)
  <2>1. \A i \in 0..(ctx.current_output - 1) : i < Base + ctx.display_index
    BY <1>1, <1>2, <1>4 DEF Base, CtxTypes
  <2> QED BY <1>2, <2>1 DEF IInv, PassedCovered
<1>6. ASSUME ctx.change_info = <<>> PROVE Complete
  <2>1. ctx.display_index <= ctx.buffer_output_len
    BY <1>2, <1>6 DEF IInv, NothingLeft
  <2>2. ctx.current_output = ctx.outputs_len
    BY <1>1, <1>2, <1>4, <2>1 DEF Base, CtxTypes
  <2>3. ctx.remaining_tokens = 0 /\ ctx.remaining_inputs = 0
    BY <1>2 DEF IInv, Progress, CtxTypes
  <2>4. ctx.buffer_len = 0
    BY <1>1, <1>2, <2>2, <2>3 DEF IInv, NothingLeft, CtxTypes
  <2> QED BY <2>2, <2>3, <2>4 DEF Complete
<1>7. TypeOK'
  BY <1>1, <1>3 DEF IInv, TypeOK
<1>8. Phases' /\ Session'
  BY <1>1, <1>2, <1>3 DEF IInv, Phases, Session, Idle
<1>9. Progress'
  BY <1>1, <1>3 DEF IInv, Progress
<1>10. Aligned' /\ PassedCovered'
  BY <1>1, <1>3 DEF Aligned, PassedCovered
<1>11. ChangeVerified'
  BY <1>1, <1>3 DEF IInv, ChangeVerified
<1>12. ApprovedCovers'
  BY <1>1, <1>3, <1>5 DEF ApprovedCovers, Covered, VerifiedChange
<1>13. NothingLeft'
  BY <1>1, <1>2, <1>3 DEF IInv, NothingLeft
<1>14. ApprovedCompleteNoChange'
  BY <1>1, <1>3, <1>6 DEF ApprovedCompleteNoChange, ApprovedComplete, Complete
<1>15. TokensCounted'
  BY <1>1, <1>3 DEF IInv, TokensCounted
<1> QED BY <1>7, <1>8, <1>9, <1>10, <1>11, <1>12, <1>13, <1>14, <1>15 DEF IInv

\* The chunk is reviewed: the next one is asked for.
LEMMA AskMoreDataStep ==
  ASSUME IInv, AskMoreData
  PROVE  IInv'
<1> DEFINE c == Entered
<1>1. /\ pc = "show" /\ ctx.display_index = ctx.buffer_output_len
      /\ ctx' = c /\ pc' = "wait" /\ screen' = "menu" /\ reply' = "OK"
      /\ UNCHANGED <<tx, approved, signed>>
  BY DEF AskMoreData, AllShown, Answer
<1>2. /\ ctx.state = "RECV_DATA" /\ ctx.buffer_output_len <= ctx.current_output
      /\ ctx.current_output <= ctx.outputs_len
      /\ ctx \in Context /\ CtxTypes
  BY <1>1, ReviewState
<1>3. /\ c \in Context /\ c.display_index = 0 /\ c.buffer_output_len = 0
      /\ \A f \in {"state", "buffer_len", "change_info", "remaining_tokens",
                    "remaining_inputs", "outputs_len", "current_output",
                    "confirmed_outputs", "outputs", "tokens_len"} : c[f] = ctx[f]
  BY <1>2, EnteredType
<1> HIDE DEF c
<1>4. Base' = ctx.current_output /\ Base + ctx.display_index = ctx.current_output
  BY <1>1, <1>2, <1>3 DEF Base, CtxTypes
<1>5. TypeOK'
  BY <1>1, <1>3 DEF IInv, TypeOK, StatusWords
<1>6. Phases' /\ Session'
  BY <1>1, <1>2, <1>3 DEF IInv, Phases, Session, Idle
<1>7. Progress'
  BY <1>1, <1>2, <1>3 DEF IInv, Progress, CtxTypes
<1>8. Aligned' /\ ChangeVerified'
  <2>1. \/ ctx.confirmed_outputs = Base + ctx.display_index
        \/ ctx.confirmed_outputs = Base + ctx.display_index - 256
    BY <1>2 DEF IInv, Aligned
  <2>2. ctx.confirmed_outputs = ctx.current_output
    BY <1>1, <1>2, <2>1 DEF CtxTypes, Base
  <2>3. Aligned'
    BY <1>1, <1>2, <1>3, <1>4, <2>2 DEF Aligned, CtxTypes
  <2>4. ChangeVerified'
    BY <1>1, <1>3 DEF IInv, ChangeVerified
  <2> QED BY <2>3, <2>4
<1>9. PassedCovered' /\ ApprovedCovers'
  BY <1>1, <1>2, <1>3, <1>4
  DEF IInv, PassedCovered, ApprovedCovers, Covered, VerifiedChange, CtxTypes
<1>10. NothingLeft' /\ ApprovedCompleteNoChange'
  BY <1>1, <1>2, <1>3
  DEF IInv, NothingLeft, ApprovedCompleteNoChange, ApprovedComplete
<1>11. TokensCounted'
  BY <1>1, <1>3 DEF IInv, TokensCounted
<1> QED BY <1>5, <1>6, <1>7, <1>8, <1>9, <1>10, <1>11 DEF IInv

\* The user approves the transaction.
LEMMA ConfirmTxStep ==
  ASSUME IInv, ConfirmTx
  PROVE  IInv'
<1> DEFINE c == [ctx EXCEPT !.state = "APPROVED"]
<1>1. /\ pc = "wait" /\ screen = "confirm"
      /\ ctx' = c /\ pc' = "wait" /\ screen' = "processing" /\ reply' = "OK"
      /\ UNCHANGED <<tx, approved, signed>>
  BY DEF ConfirmTx, Answer
<1>2. ctx.state = "PARSED" /\ ctx \in Context
  BY <1>1 DEF IInv, TypeOK, Phases, Idle
<1>3. /\ c \in Context /\ c.state = "APPROVED"
      /\ \A f \in {"buffer_len", "change_info", "remaining_tokens",
                    "remaining_inputs", "outputs_len", "current_output", "display_index",
                    "confirmed_outputs", "buffer_output_len", "outputs",
                    "tokens_len"} : c[f] = ctx[f]
  <2>1. c \in Context
    BY <1>2, StateType
  <2> QED BY <1>2, <2>1 DEF Context
<1> HIDE DEF c
<1>4. TypeOK'
  BY <1>1, <1>3 DEF IInv, TypeOK, StatusWords
<1>5. Phases' /\ Session'
  BY <1>1, <1>2, <1>3 DEF IInv, Phases, Session, Idle
<1>6. Progress' /\ Aligned' /\ ChangeVerified'
  BY <1>1, <1>3 DEF IInv, Progress, Aligned, ChangeVerified
<1>7. PassedCovered' /\ ApprovedCovers'
  BY <1>1, <1>2, <1>3 DEF IInv, PassedCovered, ApprovedCovers, Covered, VerifiedChange
<1>8. NothingLeft' /\ ApprovedCompleteNoChange'
  BY <1>1, <1>2, <1>3
  DEF IInv, NothingLeft, ApprovedCompleteNoChange, ApprovedComplete, Complete
<1>9. TokensCounted'
  BY <1>1, <1>3 DEF IInv, TokensCounted
<1> QED BY <1>4, <1>5, <1>6, <1>7, <1>8, <1>9 DEF IInv

\* Commands to an idle device that keep the transaction.
LEMMA KeepStep ==
  ASSUME IInv, \/ SignRefused \/ SignMalformedPath \/ Sign \/ DataHashFails
               \/ \E scr \in {screen, "menu"} :
                    Idle /\ Answer(ctx, scr, "OTHER") /\ UNCHANGED <<tx, approved, signed>>
  PROVE  IInv'
<1>1. ctx \in Context /\ signed \subseteq 0..2
  BY DEF IInv, TypeOK
<1>2. {"BAD_STATE", "WRONG_DATA_LENGTH", "SIGNATURE", "OTHER", "OS_ERROR"}
        \subseteq Replies \ {"PENDING"}
  BY DEF Replies, StatusWords
<1>3. /\ Entered \in Context
      /\ Entered.display_index = 0 /\ Entered.buffer_output_len = 0
      /\ \A f \in {"state", "buffer_len", "hashed", "finals", "unset", "change_info",
                    "remaining_tokens", "remaining_inputs", "outputs_len",
                    "current_output", "confirmed_outputs", "outputs",
                    "tokens_len"} : Entered[f] = ctx[f]
  BY <1>1, EnteredType
<1>4. ASSUME \/ SignRefused \/ SignMalformedPath \/ DataHashFails PROVE IInv'
  <2>1. /\ Idle /\ UNCHANGED <<tx, approved, signed>>
        /\ \/ Answer(Entered, screen, "BAD_STATE")
           \/ Answer(Entered, screen, "WRONG_DATA_LENGTH")
           \/ Answer(Entered, screen, "OS_ERROR")
    BY <1>4 DEF SignRefused, SignMalformedPath, DataHashFails
  <2> QED BY <1>1, <1>2, <1>3, <2>1, IdleAnswer
<1>5. ASSUME Sign PROVE IInv'
  <2>1. PICK zero \in ZeroByte : /\ Answer(Finalised(zero), screen, "SIGNATURE")
                                /\ signed' = signed \cup {Finalised(zero).finals}
    BY <1>5 DEF Sign
  <2>2. zero \in BOOLEAN
    BY ZeroByteAssumption
  <2>3. Entered.finals \in 0..2
    BY <1>3 DEF Context
  <2> DEFINE m == IF Entered.finals = 0 THEN 1 ELSE 2
             d == [Entered EXCEPT !.finals = m, !.unset = zero]
             c == Finalised(zero)
  <2>4. m \in 0..2
    OBVIOUS
  <2>5. c = d \/ (c = Entered /\ ~ctx.unset)
    BY DEF Finalised
  <2> HIDE DEF m, c
  <2>6. d \in Context /\ d.finals = m
    BY <1>3, <2>2, <2>4, FinalisedType
  <2>7. \A f \in {"state", "buffer_len", "change_info",
                  "remaining_tokens", "remaining_inputs", "outputs_len",
                  "current_output", "confirmed_outputs", "outputs",
                  "tokens_len", "display_index", "buffer_output_len"} : d[f] = Entered[f]
    BY <1>3 DEF Context
  <2> HIDE DEF d
  <2>8. c \in Context
    BY <1>3, <2>5, <2>6
  <2>9. c.finals \in 0..2
    BY <2>8 DEF Context
  <2>10. /\ \A f \in {"state", "buffer_len", "change_info",
                  "remaining_tokens", "remaining_inputs", "outputs_len",
                  "current_output", "confirmed_outputs", "outputs",
                  "tokens_len"} : c[f] = ctx[f]
         /\ c.display_index = 0 /\ c.buffer_output_len = 0
    BY <1>3, <2>5, <2>7
  <2>11. signed' \subseteq 0..2
    BY <1>1, <2>1, <2>9 DEF c
  <2>12. Idle /\ Answer(c, screen, "SIGNATURE") /\ UNCHANGED <<tx, approved>>
    BY <1>5, <2>1 DEF Sign, c
  <2> QED BY <1>2, <2>8, <2>10, <2>11, <2>12, IdleAnswer
<1>6. ASSUME \E scr \in {screen, "menu"} :
               Idle /\ Answer(ctx, scr, "OTHER") /\ UNCHANGED <<tx, approved, signed>>
      PROVE  IInv'
  BY <1>1, <1>2, <1>6, IdleAnswer
<1> QED BY <1>4, <1>5, <1>6

\* Every way in which a transaction ends: refused, denied, done, or lost with a
\* restart.
LEMMA CancelStep ==
  ASSUME IInv, \/ DataFirstTwice \/ DataRefused \/ UnknownToken \/ InputWithData
               \/ DecodeOutput /\ ctx.buffer_output_len >= OUTPUTS_CAP
               \/ InvalidOutput \/ ChangeMismatch \/ ChangeRefused \/ TrailingData
               \/ TokenFault \/ RequestTypeOverwritten
               \/ ShowFault \/ AddressFails \/ RejectOutput \/ RejectTx \/ Quit
               \/ SignFails \/ Done \/ IoReset
               \/ \E scr \in {screen, "menu"} : Idle /\ Erase(scr, "OTHER")
  PROVE  IInv'
<1>1. {"BAD_STATE", "INVALID_TX", "DENY", "LOST", "OK", "OTHER", "RESET", "INTERNAL_ERROR"}
        \subseteq Replies \ {"PENDING"}
  BY DEF Replies, StatusWords
<1>2. Idle => screen \in {"menu", "processing"}
  BY DEF IInv, Phases
<1>3. CASE DataFirstTwice
  BY <1>1, <1>2, <1>3, EraseStep DEF DataFirstTwice
<1>4. CASE DecodeOutput /\ ctx.buffer_output_len >= OUTPUTS_CAP
  <2>1. Invalid
    BY <1>4, Zenon DEF DecodeOutput
  <2> QED BY <1>1, <2>1, EraseStep DEF Invalid, Cancel
<1>5. CASE Quit
  <2>1. reply \in Replies \ {"PENDING"}
    BY <1>5 DEF Quit, IInv, TypeOK, Phases, Replies
  <2>2. Erase("menu", reply)
    BY <1>5 DEF Quit, Cancel
  <2> QED BY <2>1, <2>2, EraseStep
<1>6. CASE UnknownToken \/ InputWithData \/ InvalidOutput \/ ChangeMismatch \/ TrailingData
  <2>1. Erase("menu", "INVALID_TX")
    BY <1>6, Zenon DEF UnknownToken, InputWithData, InvalidOutput, ChangeMismatch,
       TrailingData, Invalid, Cancel
  <2> QED BY <1>1, <2>1, EraseStep
<1>7. CASE ChangeRefused \/ TokenFault \/ ShowFault \/ SignFails
  <2>1. Erase("menu", "LOST")
    BY <1>7, Zenon DEF ChangeRefused, TokenFault, ShowFault, SignFails, Restart, Cancel
  <2> QED BY <1>1, <2>1, EraseStep
<1>8. CASE DataRefused \/ RequestTypeOverwritten \/ AddressFails \/ RejectOutput \/ RejectTx \/ Done \/ IoReset
  <2>1. PICK sw \in {"BAD_STATE", "INTERNAL_ERROR", "DENY", "OK", "RESET"} : Erase("menu", sw)
    BY <1>8 DEF DataRefused, RequestTypeOverwritten, AddressFails, RejectOutput, RejectTx, Done, IoReset, Cancel
  <2> QED BY <1>1, <2>1, EraseStep
<1>9. CASE \E scr \in {screen, "menu"} : Idle /\ Erase(scr, "OTHER")
  BY <1>1, <1>2, <1>9, EraseStep
<1> QED BY <1>3, <1>4, <1>5, <1>6, <1>7, <1>8, <1>9

\* A step that changes nothing.
LEMMA StutterStep ==
  ASSUME IInv, UNCHANGED vars
  PROVE  IInv'
<1> USE DEF vars
<1>1. TypeOK' /\ Phases' /\ Session'
  BY DEF IInv, TypeOK, Phases, Session, Idle
<1>2. Progress' /\ Aligned' /\ ChangeVerified'
  BY DEF IInv, Progress, Aligned, ChangeVerified, Base, ChangeIndices, Idle
<1>3. PassedCovered' /\ ApprovedCovers'
  BY DEF IInv, PassedCovered, ApprovedCovers, Base, Covered, VerifiedChange
<1>4. NothingLeft' /\ ApprovedCompleteNoChange'
  BY DEF IInv, NothingLeft, ApprovedCompleteNoChange, ApprovedComplete, Complete
<1>5. TokensCounted'
  BY DEF IInv, TokensCounted
<1> QED BY <1>1, <1>2, <1>3, <1>4, <1>5 DEF IInv

\* IInv is inductive: one case per action.
LEMMA NextInv == IInv /\ [Next]_vars => IInv'
<1> SUFFICES ASSUME IInv, [Next]_vars PROVE IInv'
  OBVIOUS
<1>1. CASE \E t \in Txs, n \in FirstSizes : DataFirst(t, n)
  BY <1>1, DataFirstStep
<1>2. CASE \E t \in Txs, cut \in {"change", "tokens", "inputs", "outputs"} :
             DataFirstTruncated(t, cut)
  BY <1>2, DataFirstTruncatedStep
<1>3. CASE \E n \in ChunkSizes : DataNext(n)
  BY <1>3, DataNextStep
<1>4. CASE DataFirstTwice \/ DataRefused \/ Quit \/ SignFails \/ Done \/ IoReset
  BY <1>4, CancelStep
<1>5. CASE Decode
  <2>1. ASSUME DecodeOutput PROVE IInv'
    <3>1. CtxTypes
      BY ContextFields DEF IInv
    <3>2. ctx.buffer_output_len < OUTPUTS_CAP \/ ctx.buffer_output_len >= OUTPUTS_CAP
      BY <3>1 DEF CtxTypes
    <3> QED BY <2>1, <3>2, DecodeOutputStep, CancelStep
  <2> QED BY <1>5, <2>1, SplitStep, DecodeTokenStep, DecodeInputStep, CancelStep, Zenon
          DEF Decode
<1>6. CASE Review
  BY <1>6, AskConfirmationStep, AskMoreDataStep, SkipChangeStep, ShowOutputStep,
     CancelStep, Zenon DEF Review
<1>7. CASE UserDecision
  BY <1>7, ConfirmOutputStep, ConfirmTxStep, CancelStep, Zenon DEF UserDecision
<1>8. CASE SignRefused \/ SignMalformedPath \/ Sign \/ DataHashFails
  BY <1>8, KeepStep
<1>9. CASE OtherCommand
  BY <1>9, KeepStep, CancelStep DEF OtherCommand
<1>10. CASE UNCHANGED vars
  BY <1>10, StutterStep
<1> QED BY <1>1, <1>2, <1>3, <1>4, <1>5, <1>6, <1>7, <1>8, <1>9, <1>10, Zenon DEF Next

\* The inductive invariant holds of every reachable state.
THEOREM Invariant == Spec => []IInv
BY InitInv, NextInv, PTL DEF Spec

\* Every field of G_context stays within its C type; no counter of what is
\* still to be decoded underflows, the bytes of an unfinished element fit in
\* buffer[] and the outputs of a chunk in outputs[] (sign_tx.c:315-421, 494),
\* whatever the sizes of the transaction and of its chunks, also when its
\* tokens run over tokens[].  About tokens_len it says no more than its type.
THEOREM TypeCorrect == Spec => []TypeOK
<1>1. IInv => TypeOK
  BY DEF IInv
<1> QED BY <1>1, Invariant, PTL

\* Nothing the device decoded reaches the approval unseen: each output was
\* approved on its own screen or verified as change (display.c:214-350).
THEOREM ApprovedCoversHolds == Spec => []ApprovedCovers
<1>1. IInv => ApprovedCovers
  BY DEF IInv
<1> QED BY <1>1, Invariant, PTL

\* Without change outputs only a transaction that was received to its last byte
\* is approved (display.c:261-282, sign_tx.c:363, 414).
THEOREM ApprovedCompleteHolds == Spec => []ApprovedCompleteNoChange
<1>1. IInv => ApprovedCompleteNoChange
  BY DEF IInv
<1> QED BY <1>1, Invariant, PTL

\* The screen shows the next unconfirmed output of the transaction, and never a
\* change output (display.c:214-333).
THEOREM ReviewAlignedHolds == Spec => []ReviewAligned
<1>1. ASSUME IInv PROVE ReviewAligned
  <2> SUFFICES ASSUME screen = "output", pc = "wait",
                      ctx.display_index < ctx.buffer_output_len
               PROVE  Shown = ctx.confirmed_outputs /\ Shown \notin ChangeIndices(ctx)
    BY DEF ReviewAligned
  <2>1. ctx.state = "RECV_DATA" /\ ctx.buffer_output_len <= ctx.current_output /\ CtxTypes
    BY <1>1, ReviewState
  <2>2. ctx.display_index \in Slots
    BY <2>1 DEF CtxTypes
  <2>3. Shown = Base + ctx.display_index
    BY <1>1, <2>1, <2>2 DEF IInv, Aligned, Shown
  <2>4. \/ ctx.confirmed_outputs = Base + ctx.display_index
        \/ ctx.confirmed_outputs = Base + ctx.display_index - 256
    BY <1>1, <2>1 DEF IInv, Aligned
  <2>5. Shown = ctx.confirmed_outputs
    BY <2>1, <2>3, <2>4 DEF CtxTypes, Base
  <2>6. ctx.confirmed_outputs \notin ChangeIndices(ctx)
    BY <1>1, <2>1 DEF IInv, Aligned
  <2> QED BY <2>5, <2>6
<1> QED BY <1>1, Invariant, PTL

\* After the approval a step erases the context or keeps what will be signed.
LEMMA ApprovedStep ==
  ASSUME IInv, Next, ctx.state = "APPROVED", ctx'.state # "NONE"
  PROVE  /\ ctx'.state = "APPROVED" /\ tx' = tx /\ approved' = approved
         /\ \A f \in {"hashed", "buffer_len", "change_info", "outputs_len",
                       "current_output", "confirmed_outputs"} : ctx'[f] = ctx[f]
<1>1. /\ pc = "wait" /\ reply # "PENDING" /\ screen \in {"menu", "processing"}
      /\ ctx \in Context
  BY DEF IInv, TypeOK, Phases, Idle
<1>2. /\ Entered \in Context
      /\ \A f \in {"state", "buffer_len", "hashed", "finals", "unset", "change_info",
                    "remaining_tokens", "remaining_inputs", "outputs_len",
                    "current_output", "confirmed_outputs", "outputs",
                    "tokens_len"} : Entered[f] = ctx[f]
  BY <1>1, EnteredType
<1>3. ASSUME NEW scr, NEW sw, Erase(scr, sw) PROVE FALSE
  BY <1>3 DEF Erase, Answer, ZeroCtx
<1>4. ~Decode /\ ~Review /\ ~UserDecision
  BY <1>1 DEF Decode, Split, DecodeToken, TokenFault, UnknownToken, DecodeInput, InputWithData,
     DecodeOutput, InvalidOutput, ChangeMismatch, ChangeRefused, TrailingData,
     NextIsToken, NextIsInput, NextIsOutput,
     Review, AskConfirmation, RequestTypeOverwritten, AskMoreData, SkipChange, ShowOutput, ShowFault, AddressFails,
     NothingToSkip, UserDecision, ConfirmOutput, RejectOutput, ConfirmTx, RejectTx
<1>5. ~DataFirstTwice /\ ~DataRefused /\ ~Quit /\ ~SignRefused /\ ~SignFails /\ ~Done /\ ~IoReset
  BY <1>1, <1>3 DEF DataFirstTwice, DataRefused, Quit, SignRefused, SignFails, Done,
     IoReset, Cancel, Restart
<1>6. /\ \A t \in Txs, n \in FirstSizes : ~DataFirst(t, n)
      /\ \A t \in Txs, cut \in {"change", "tokens", "inputs", "outputs"} :
           ~DataFirstTruncated(t, cut)
      /\ ~DataHashFails /\ \A n \in ChunkSizes : ~DataNext(n)
  BY DEF DataFirst, DataFirstTruncated, DataNext, DataHashFails, ExpectsData
<1>7. SignMalformedPath \/ Sign \/ OtherCommand
  BY <1>4, <1>5, <1>6, Zenon DEF Next
<1>8. CASE SignMalformedPath
  BY <1>2, <1>8 DEF SignMalformedPath, Answer
<1>9. CASE Sign
  <2>1. PICK zero \in ZeroByte : Answer(Finalised(zero), screen, "SIGNATURE")
    BY <1>9 DEF Sign
  <2>2. \A f \in {"state", "hashed", "buffer_len", "change_info", "outputs_len",
                  "current_output", "confirmed_outputs"} : Finalised(zero)[f] = Entered[f]
    BY <1>2 DEF Finalised, Context
  <2> QED BY <1>2, <1>9, <2>1, <2>2 DEF Sign, Answer
<1>10. CASE OtherCommand
  BY <1>3, <1>10 DEF OtherCommand, Answer
<1> QED BY <1>7, <1>8, <1>9, <1>10

\* What was approved is what is signed: no command changes the transaction, its
\* hash or its change info after the approval (sign_tx.c:557).
THEOREM ApprovedFrozenHolds == Spec => ApprovedFrozen
<1>1. IInv /\ [Next]_vars =>
        [ctx.state = "APPROVED" /\ ctx'.state # "NONE" =>
           /\ ctx'.state = "APPROVED" /\ tx' = tx /\ approved' = approved
           /\ \A f \in {"hashed", "buffer_len", "change_info", "outputs_len",
                         "current_output", "confirmed_outputs"} : ctx'[f] = ctx[f]]_vars
  BY ApprovedStep
<1> QED BY <1>1, Invariant, PTL DEF Spec, ApprovedFrozen

-----------------------------------------------------------------------------
(* The bytes of a transaction.                                               *)

USE DEF Byte, Slots, NoOutput, OUTPUTS_CAP, BUFFER_LEN,
        MAX_LC, MAX_FIRST, HEADER_LEN, TOKEN_UID_LEN, TX_INPUT_LEN, P2PKH_LEN,
        TOKEN_DATA_AUTHORITY_MASK

\* A decoder that stops leaves less than an element, in any case no more than the
\* 45 bytes next to which a chunk of 255 fits, and a free slot; an output that
\* was decoded has taken at least 32 of the 300 bytes.
ChunkRoom ==
  /\ pc # "decode" => ctx.buffer_len <= 45 /\ ctx.buffer_output_len <= 9
  /\ pc = "decode" => ctx.buffer_len + 32 * ctx.buffer_output_len <= 300

BytesInv == ChunkRoom /\ HashedIsDecoded

-----------------------------------------------------------------------------
\* The long outputs among the first n.
LEMMA LongOutputs ==
  ASSUME NEW outputs, NEW n \in Nat
  PROVE  /\ IsFiniteSet({i \in 1..n : outputs[i].len = 36})
         /\ Cardinality({i \in 1..n : outputs[i].len = 36}) \in Nat
         /\ OutputBytes(outputs, n) \in Nat
<1> DEFINE long == {i \in 1..n : outputs[i].len = 36}
<1>1. IsFiniteSet(1..n)
  BY FS_Interval
<1>2. long \in SUBSET (1..n)
  OBVIOUS
<1>3. OutputBytes(outputs, n) = 32 * n + 4 * Cardinality(long)
  BY DEF OutputBytes
<1> HIDE DEF long
<1>4. IsFiniteSet(long) /\ Cardinality(long) \in Nat
  BY <1>2, <1>1, FS_Subset, FS_CardinalityType
<1> QED BY <1>3, <1>4 DEF long

\* The bytes of one output more.
LEMMA OutputBytesNext ==
  ASSUME NEW outputs, NEW n \in Nat, outputs[n + 1].len \in {32, 36}
  PROVE  OutputBytes(outputs, n + 1) = OutputBytes(outputs, n) + outputs[n + 1].len
<1> DEFINE Long(m) == {i \in 1..m : outputs[i].len = 36}
<1>1. IsFiniteSet(Long(n)) /\ Cardinality(Long(n)) \in Nat
  BY LongOutputs
<1>2. Cardinality(Long(n + 1)) = IF outputs[n + 1].len = 36 THEN Cardinality(Long(n)) + 1
                                                            ELSE Cardinality(Long(n))
  <2>1. n + 1 \notin Long(n)
    OBVIOUS
  <2>2. CASE outputs[n + 1].len = 36
    <3>1. Long(n + 1) = Long(n) \cup {n + 1}
      BY <2>2
    <3> HIDE DEF Long
    <3> QED BY <1>1, <2>1, <2>2, <3>1, FS_AddElement
  <2>3. CASE outputs[n + 1].len # 36
    <3>1. Long(n + 1) = Long(n)
      <4>1. \A i \in 1..(n + 1) : i \in 1..n \/ i = n + 1
        OBVIOUS
      <4> QED BY <2>3, <4>1
    <3> HIDE DEF Long
    <3> QED BY <2>3, <3>1
  <2> QED BY <2>2, <2>3
<1>3. /\ OutputBytes(outputs, n) = 32 * n + 4 * Cardinality(Long(n))
      /\ OutputBytes(outputs, n + 1) = 32 * (n + 1) + 4 * Cardinality(Long(n + 1))
  BY DEF OutputBytes
<1> HIDE DEF Long
<1> QED BY <1>1, <1>2, <1>3

\* What is decoded of a transaction is a number of bytes.
LEMMA DecodedBytesType ==
  ASSUME IInv, tx # NoTx
  PROVE  DecodedBytes \in Int
<1>1. tx \in Txs
  BY DEF IInv, TypeOK
<1>2. tx.tokens \in Byte /\ tx.inputs \in Byte
  BY <1>1, TxShape
<1>3. CtxTypes
  BY ContextFields DEF IInv
<1>4. OutputBytes(tx.outputs, ctx.current_output) \in Nat
  <2>1. ctx.current_output \in Nat
    BY <1>3 DEF CtxTypes
  <2> QED BY <2>1, LongOutputs
<1>5. tx.tokens \in Int /\ tx.inputs \in Int
  BY <1>2
<1>6. ctx.remaining_tokens \in Int /\ ctx.remaining_inputs \in Int
  BY <1>3 DEF CtxTypes
<1> DEFINE bytes == OutputBytes(tx.outputs, ctx.current_output)
<1>7. DecodedBytes = 32 * (tx.tokens - ctx.remaining_tokens)
                     + 35 * (tx.inputs - ctx.remaining_inputs) + bytes
  BY DEF DecodedBytes
<1>8. bytes \in Int
  BY <1>4
<1> HIDE DEF bytes
<1> QED BY <1>5, <1>6, <1>7, <1>8

-----------------------------------------------------------------------------
\* The invariant before any transaction.
LEMMA ErasedBytes ==
  ASSUME NEW scr, NEW sw, Erase(scr, sw)
  PROVE  BytesInv'
BY DEF Erase, Answer, ZeroCtx, BytesInv, ChunkRoom, HashedIsDecoded

LEMMA InitBytes == Init => BytesInv
BY DEF Init, ZeroCtx, BytesInv, ChunkRoom, HashedIsDecoded

\* A step that moves no bytes: the decoder stops, or does not run.
LEMMA StillBytes ==
  ASSUME IInv, BytesInv, tx' = tx,
         \A f \in {"hashed", "remaining_tokens", "remaining_inputs", "current_output",
                   "buffer_len"} : ctx'[f] = ctx[f],
         ctx'.buffer_output_len \in {0, ctx.buffer_output_len},
         pc' # "decode",
         pc # "decode" \/ ctx.buffer_len <= 45
  PROVE  BytesInv'
<1>1. CtxTypes
  BY ContextFields DEF IInv
<1>2. ChunkRoom'
  BY <1>1 DEF BytesInv, ChunkRoom, CtxTypes
<1>3. HashedIsDecoded'
  BY DEF BytesInv, HashedIsDecoded, DecodedBytes
<1> QED BY <1>2, <1>3 DEF BytesInv

\* An element moves from the buffer to what is decoded.
LEMMA ElementBytes ==
  ASSUME IInv, BytesInv, pc = "decode", tx' = tx, ctx' \in Context,
         pc' = "decode" \/ ctx'.buffer_len = 0,
         NEW len \in 32..36, ctx'.buffer_len = ctx.buffer_len - len, ctx'.hashed = ctx.hashed,
         tx # NoTx => DecodedBytes' = DecodedBytes + len,
         ctx'.buffer_output_len \in {ctx.buffer_output_len, ctx.buffer_output_len + 1}
  PROVE  BytesInv'
<1>1. CtxTypes
  BY ContextFields DEF IInv
<1>2. ctx'.buffer_len \in 0..300 /\ ctx'.buffer_output_len \in 0..10
  BY DEF Context
<1>3. ChunkRoom'
  <2>1. ctx.buffer_len + 32 * ctx.buffer_output_len <= 300
    BY DEF BytesInv, ChunkRoom
  <2>2. ctx'.buffer_len + 32 * ctx'.buffer_output_len <= 300
    <3>1. CASE ctx'.buffer_output_len = ctx.buffer_output_len
      BY <1>1, <2>1, <3>1 DEF CtxTypes
    <3>2. CASE ctx'.buffer_output_len = ctx.buffer_output_len + 1
      BY <1>1, <2>1, <3>2 DEF CtxTypes
    <3> QED BY <3>1, <3>2
  <2> QED BY <1>2, <2>2 DEF ChunkRoom
<1>4. ASSUME tx # NoTx PROVE ctx'.hashed = HEADER_LEN + DecodedBytes' + ctx'.buffer_len
  <2>1. DecodedBytes \in Int
    BY <1>4, DecodedBytesType
  <2>2. ctx.hashed = HEADER_LEN + DecodedBytes + ctx.buffer_len
    BY <1>4 DEF BytesInv, HashedIsDecoded
  <2> QED BY <1>1, <1>2, <1>4, <2>1, <2>2 DEF CtxTypes
<1>5. HashedIsDecoded'
  BY <1>4 DEF HashedIsDecoded
<1> QED BY <1>3, <1>5 DEF BytesInv

-----------------------------------------------------------------------------
(* What the steps of the decoder do to the fields of the context.          *)

\* Where the decoder goes after an element.
LEMMA ContinueFields ==
  ASSUME pc = "decode", NEW c, Continue(c)
  PROVE  ctx' = c /\ (pc' = "decode" \/ ctx'.buffer_len = 0)
BY DEF Continue, Ready, Answer

\* An output: the next of the transaction, from the buffer into the table.
LEMMA OutputFields ==
  ASSUME IInv, DecodeOutput, ctx.buffer_output_len < OUTPUTS_CAP
  PROVE  /\ pc = "decode" /\ ctx.state = "RECV_DATA"
         /\ tx \in Txs /\ UNCHANGED <<tx, approved, signed>>
         /\ ctx.current_output < Len(tx.outputs)
         /\ Next_output.len \in {32, 36} /\ ctx.buffer_len >= Next_output.len
         /\ pc' = "decode" \/ ctx'.buffer_len = 0
         /\ ctx'.current_output = ctx.current_output + 1
         /\ ctx'.buffer_len = ctx.buffer_len - Next_output.len
         /\ ctx'.buffer_output_len = ctx.buffer_output_len + 1
         /\ ctx'.outputs = [ctx.outputs EXCEPT ![ctx.buffer_output_len] = ctx.current_output]
         /\ \A f \in {"state", "hashed", "finals", "unset", "change_info", "remaining_tokens",
                       "remaining_inputs", "outputs_len"} : ctx'[f] = ctx[f]
<1> DEFINE c == [ctx EXCEPT !.current_output = @ + 1,
                            !.buffer_len = @ - Next_output.len,
                            !.outputs[ctx.buffer_output_len] = ctx.current_output,
                            !.buffer_output_len = @ + 1]
<1>1. /\ pc = "decode" /\ ctx.current_output < ctx.outputs_len /\ OutputWellFormed
  BY DEF DecodeOutput, NextIsOutput
<1>2. ctx.state = "RECV_DATA" /\ ctx \in Context /\ CtxTypes
  BY <1>1, DecodeState
<1>3. tx \in Txs /\ Next_output \in Output
  BY <1>1, DecodedOutput
<1>4. ctx.outputs_len = Len(tx.outputs)
  BY <1>3, TxShape DEF IInv, Session
<1>5. Next_output.len \in {32, 36} /\ ctx.buffer_len >= Next_output.len
  BY <1>1, <1>2, <1>3 DEF OutputWellFormed, OutputSplit, OutputMalformed,
     OutputHeadArrived, OutputArrived, Output
<1>6. Continue(c) /\ UNCHANGED <<tx, approved, signed>>
  <2>1. ~(ctx.buffer_output_len >= OUTPUTS_CAP)
    BY <1>2 DEF CtxTypes
  <2> HIDE DEF c
  <2> QED BY <2>1, Zenon DEF DecodeOutput, c
<1>7. /\ c.current_output = ctx.current_output + 1
      /\ c.buffer_len = ctx.buffer_len - Next_output.len
      /\ c.buffer_output_len = ctx.buffer_output_len + 1
      /\ c.outputs = [ctx.outputs EXCEPT ![ctx.buffer_output_len] = ctx.current_output]
      /\ \A f \in {"state", "hashed", "finals", "unset", "change_info", "remaining_tokens",
                    "remaining_inputs", "outputs_len"} : c[f] = ctx[f]
  BY <1>2 DEF Context
<1> HIDE DEF c
<1>8. ctx' = c /\ (pc' = "decode" \/ ctx'.buffer_len = 0)
  BY <1>1, <1>6, ContinueFields
<1> QED BY <1>1, <1>2, <1>3, <1>4, <1>5, <1>6, <1>7, <1>8

\* A token uid or an input.
LEMMA ElementFields ==
  ASSUME IInv, NEW len \in Byte, DecodeToken(len) \/ DecodeInput
  PROVE  /\ pc = "decode" /\ UNCHANGED <<tx, approved, signed>>
         /\ pc' = "decode" \/ ctx'.buffer_len = 0
         /\ \/ /\ ctx'.buffer_len = ctx.buffer_len - 32
               /\ ctx'.remaining_tokens = ctx.remaining_tokens - 1
               /\ ctx'.remaining_inputs = ctx.remaining_inputs
            \/ /\ ctx'.buffer_len = ctx.buffer_len - 35
               /\ ctx'.remaining_tokens = ctx.remaining_tokens
               /\ ctx'.remaining_inputs = ctx.remaining_inputs - 1
         /\ \A f \in {"state", "hashed", "finals", "unset", "change_info", "outputs_len",
                       "current_output", "buffer_output_len", "outputs"} : ctx'[f] = ctx[f]
<1> DEFINE c == [ctx EXCEPT !.tokens_len = len, !.remaining_tokens = @ - 1,
                            !.buffer_len = @ - TOKEN_UID_LEN]
           d == [ctx EXCEPT !.remaining_inputs = @ - 1, !.buffer_len = @ - TX_INPUT_LEN]
<1>1. pc = "decode" /\ UNCHANGED <<tx, approved, signed>> /\ (Continue(c) \/ Continue(d))
  BY DEF DecodeToken, DecodeInput, NextIsToken, NextIsInput
<1>2. ctx \in Context
  BY DEF IInv, TypeOK
<1>3. /\ c.buffer_len = ctx.buffer_len - 32 /\ c.remaining_tokens = ctx.remaining_tokens - 1
      /\ c.remaining_inputs = ctx.remaining_inputs
      /\ \A f \in {"state", "hashed", "finals", "unset", "change_info", "outputs_len",
                    "current_output", "buffer_output_len", "outputs"} : c[f] = ctx[f]
  BY <1>2 DEF Context
<1>4. /\ d.buffer_len = ctx.buffer_len - 35 /\ d.remaining_tokens = ctx.remaining_tokens
      /\ d.remaining_inputs = ctx.remaining_inputs - 1
      /\ \A f \in {"state", "hashed", "finals", "unset", "change_info", "outputs_len",
                    "current_output", "buffer_output_len", "outputs"} : d[f] = ctx[f]
  BY <1>2 DEF Context
<1> HIDE DEF c, d
<1>5. /\ ctx' = c \/ ctx' = d
      /\ pc' = "decode" \/ ctx'.buffer_len = 0
  BY <1>1, ContinueFields
<1> QED BY <1>1, <1>3, <1>4, <1>5

\* A later chunk: in the buffer, or only in the hash.
LEMMA ChunkFields ==
  ASSUME IInv, NEW n \in ChunkSizes, DataNext(n)
  PROVE  /\ pc = "wait" /\ reply # "PENDING" /\ ctx.state = "RECV_DATA"
         /\ UNCHANGED <<tx, approved, signed>>
         /\ n \in 1..MAX_LC
         /\ ctx'.buffer_output_len = 0
         /\ ctx'.hashed = ctx.hashed + n
         /\ \/ ctx.buffer_len + n > BUFFER_LEN
            \/ pc' = "decode" /\ ctx'.buffer_len = ctx.buffer_len + n
         /\ \A f \in {"state", "finals", "unset", "change_info", "remaining_tokens",
                       "remaining_inputs", "outputs_len", "current_output", "outputs"} :
              ctx'[f] = ctx[f]
<1> DEFINE refused == [Entered EXCEPT !.hashed = @ + n]
           c == [refused EXCEPT !.buffer_len = @ + n]
<1>1. ctx \in Context /\ Entered \in Context
  BY EnteredType DEF IInv, TypeOK
<1>2. /\ Entered.buffer_output_len = 0
      /\ \A f \in {"state", "finals", "unset", "change_info", "remaining_tokens", "hashed",
                    "buffer_len", "remaining_inputs", "outputs_len", "current_output",
                    "outputs"} : Entered[f] = ctx[f]
  BY <1>1, EnteredType
<1>3. /\ refused.hashed = Entered.hashed + n
      /\ \A f \in {"state", "finals", "unset", "change_info", "remaining_tokens",
                    "buffer_len", "remaining_inputs", "outputs_len", "current_output",
                    "outputs", "buffer_output_len"} : refused[f] = Entered[f]
  BY <1>1 DEF Context
<1>4. /\ c.hashed = Entered.hashed + n /\ c.buffer_len = Entered.buffer_len + n
      /\ \A f \in {"state", "finals", "unset", "change_info", "remaining_tokens",
                    "remaining_inputs", "outputs_len", "current_output",
                    "outputs", "buffer_output_len"} : c[f] = Entered[f]
  BY <1>1 DEF Context
<1> HIDE DEF refused, c
<1>5. \/ refused.buffer_len + n > BUFFER_LEN /\ ctx' = refused
      \/ ctx' = c /\ pc' = "decode"
  BY Zenon DEF DataNext, refused, c, Answer
<1>6. /\ pc = "wait" /\ reply # "PENDING" /\ ctx.state = "RECV_DATA"
      /\ UNCHANGED <<tx, approved, signed>>
  BY DEF DataNext, Idle, ExpectsData
<1>7. n \in 1..MAX_LC
  BY SizesAssumption
<1> QED BY <1>2, <1>3, <1>4, <1>5, <1>6, <1>7

\* The first chunk: what follows its header is in the buffer.
LEMMA FirstFields ==
  ASSUME IInv, NEW t \in Txs, NEW n \in FirstSizes, DataFirst(t, n)
  PROVE  /\ pc' = "decode" /\ tx' = t /\ approved' = {} /\ signed' = {}
         /\ tx = NoTx /\ n \in 0..MAX_FIRST
         /\ ctx'.state = "RECV_DATA" /\ ctx'.change_info = t.change
         /\ ctx'.hashed = HEADER_LEN + n /\ ctx'.buffer_len = n
         /\ ctx'.remaining_tokens = t.tokens /\ ctx'.remaining_inputs = t.inputs
         /\ ctx'.current_output = 0 /\ ctx'.buffer_output_len = 0
         /\ ctx'.finals = 0 /\ ctx'.unset = TRUE
         /\ ctx'.outputs = [j \in Slots |-> NoOutput]
<1>1. tx = NoTx
  BY DEF DataFirst, IInv, Phases, Session, Idle, TypeOK, Context
<1> QED BY <1>1, SizesAssumption DEF DataFirst, FirstCtx, ZeroCtx

-----------------------------------------------------------------------------
(* The bytes through every action.                                         *)

LEMMA OutputBytesStep ==
  ASSUME IInv, IInv', BytesInv, DecodeOutput, ctx.buffer_output_len < OUTPUTS_CAP
  PROVE  BytesInv'
<1> DEFINE len == Next_output.len
<1>1. /\ pc = "decode" /\ tx' = tx /\ len \in 32..36
      /\ pc' = "decode" \/ ctx'.buffer_len = 0
      /\ ctx'.buffer_len = ctx.buffer_len - len /\ ctx'.hashed = ctx.hashed
      /\ ctx'.buffer_output_len = ctx.buffer_output_len + 1
      /\ ctx'.remaining_tokens = ctx.remaining_tokens
      /\ ctx'.remaining_inputs = ctx.remaining_inputs
      /\ ctx'.current_output = ctx.current_output + 1
  BY OutputFields
<1>2. ctx' \in Context
  BY DEF IInv, TypeOK
<1>3. DecodedBytes' = DecodedBytes + len
  <2>1. ctx.current_output \in Nat
    BY ContextFields DEF IInv, CtxTypes
  <2>2. tx.outputs[ctx.current_output + 1].len \in {32, 36}
    BY OutputFields DEF Next_output
  <2>3. OutputBytes(tx.outputs, ctx.current_output + 1)
          = OutputBytes(tx.outputs, ctx.current_output) + len
    BY <2>1, <2>2, OutputBytesNext DEF Next_output
  <2> DEFINE b == OutputBytes(tx.outputs, ctx.current_output)
             r == 32 * (tx.tokens - ctx.remaining_tokens) + 35 * (tx.inputs - ctx.remaining_inputs)
  <2>4. DecodedBytes = r + b /\ DecodedBytes' = r + (b + len)
    BY <1>1, <2>3 DEF DecodedBytes
  <2>5. b \in Nat
    BY <2>1, LongOutputs
  <2>6. r \in Int
    <3>1. tx \in Txs
      BY OutputFields
    <3>2. tx.tokens \in Byte /\ tx.inputs \in Byte
      BY <3>1, TxShape
    <3>3. tx.tokens \in Int /\ tx.inputs \in Int
      BY <3>2
    <3>4. ctx.remaining_tokens \in Int /\ ctx.remaining_inputs \in Int
      BY ContextFields DEF IInv, CtxTypes
    <3> QED BY <3>3, <3>4
  <2> HIDE DEF b, r, len
  <2> QED BY <1>1, <2>4, <2>5, <2>6
<1> HIDE DEF len
<1> QED BY <1>1, <1>2, <1>3, ElementBytes

LEMMA ElementBytesStep ==
  ASSUME IInv, IInv', BytesInv, NEW len \in Byte, DecodeToken(len) \/ DecodeInput
  PROVE  BytesInv'
<1>1. /\ pc = "decode" /\ tx' = tx /\ ctx'.hashed = ctx.hashed
      /\ pc' = "decode" \/ ctx'.buffer_len = 0
      /\ ctx'.buffer_output_len = ctx.buffer_output_len
      /\ ctx'.current_output = ctx.current_output
  BY ElementFields
<1>2. ctx' \in Context
  BY DEF IInv, TypeOK
<1>3. /\ ctx.remaining_tokens \in Int /\ ctx.remaining_inputs \in Int
      /\ ctx.current_output \in Nat
  BY ContextFields DEF IInv, CtxTypes
<1>4. ASSUME tx # NoTx
      PROVE  /\ tx.tokens \in Int /\ tx.inputs \in Int
             /\ OutputBytes(tx.outputs, ctx.current_output) \in Int
  <2>1. tx \in Txs
    BY <1>4 DEF IInv, TypeOK
  <2>2. tx.tokens \in Byte /\ tx.inputs \in Byte
    BY <2>1, TxShape
  <2>3. OutputBytes(tx.outputs, ctx.current_output) \in Nat
    BY <1>3, LongOutputs
  <2> QED BY <2>2, <2>3
<1>5. ASSUME /\ ctx'.buffer_len = ctx.buffer_len - 32
             /\ ctx'.remaining_tokens = ctx.remaining_tokens - 1
             /\ ctx'.remaining_inputs = ctx.remaining_inputs
      PROVE  BytesInv'
  <2>1. tx # NoTx => DecodedBytes' = DecodedBytes + 32
    BY <1>1, <1>3, <1>4, <1>5 DEF DecodedBytes
  <2>2. 32 \in 32..36
    OBVIOUS
  <2> QED BY <1>1, <1>2, <1>5, <2>1, <2>2, ElementBytes
<1>6. ASSUME /\ ctx'.buffer_len = ctx.buffer_len - 35
             /\ ctx'.remaining_tokens = ctx.remaining_tokens
             /\ ctx'.remaining_inputs = ctx.remaining_inputs - 1
      PROVE  BytesInv'
  <2>1. tx # NoTx => DecodedBytes' = DecodedBytes + 35
    BY <1>1, <1>3, <1>4, <1>6 DEF DecodedBytes
  <2>2. 35 \in 32..36
    OBVIOUS
  <2> QED BY <1>1, <1>2, <1>6, <2>1, <2>2, ElementBytes
<1> QED BY <1>5, <1>6, ElementFields

\* An element that is split leaves less than 36 bytes.
LEMMA SplitBytesStep ==
  ASSUME IInv, BytesInv, Split
  PROVE  BytesInv'
<1>1. /\ pc = "decode" /\ tx' = tx /\ ctx' = ctx /\ pc' # "decode"
  BY DEF Split, NextIsToken, NextIsInput, NextIsOutput, Ready, Answer
<1>2. CtxTypes
  BY ContextFields DEF IInv
<1>3. ctx.buffer_len <= 45
  <2>1. CASE NextIsOutput /\ OutputSplit
    <3>1. Next_output \in Output
      BY <2>1, DecodedOutput DEF NextIsOutput
    <3>2. Next_output.len \in {32, 36}
      BY <3>1 DEF Output
    <3> QED BY <1>2, <2>1, <3>2 DEF OutputSplit, OutputHeadArrived, OutputArrived, CtxTypes
  <2>2. CASE ctx.buffer_len < 35
    BY <1>2, <2>2 DEF CtxTypes
  <2> QED BY <1>2, <2>1, <2>2 DEF Split, CtxTypes
<1>4. /\ ctx'.hashed = ctx.hashed /\ ctx'.remaining_tokens = ctx.remaining_tokens
      /\ ctx'.remaining_inputs = ctx.remaining_inputs
      /\ ctx'.current_output = ctx.current_output /\ ctx'.buffer_len = ctx.buffer_len
      /\ ctx'.buffer_output_len = ctx.buffer_output_len
  BY <1>1
<1>5. \A f \in {"hashed", "remaining_tokens", "remaining_inputs", "current_output",
                "buffer_len"} : ctx'[f] = ctx[f]
  BY <1>1
<1> QED BY <1>1, <1>3, <1>4, <1>5, StillBytes

LEMMA DataNextBytesStep ==
  ASSUME IInv, BytesInv, NEW n \in ChunkSizes, DataNext(n)
  PROVE  BytesInv'
<1>1. /\ pc = "wait" /\ tx' = tx /\ n \in 1..MAX_LC
      /\ ctx'.buffer_output_len = 0 /\ ctx'.hashed = ctx.hashed + n
      /\ ctx'.remaining_tokens = ctx.remaining_tokens
      /\ ctx'.remaining_inputs = ctx.remaining_inputs
      /\ ctx'.current_output = ctx.current_output
      /\ \/ ctx.buffer_len + n > BUFFER_LEN
         \/ pc' = "decode" /\ ctx'.buffer_len = ctx.buffer_len + n
  BY ChunkFields
<1>2. CtxTypes
  BY ContextFields DEF IInv
<1>3. ctx.buffer_len <= 45
  BY <1>1 DEF BytesInv, ChunkRoom
<1>4. pc' = "decode" /\ ctx'.buffer_len = ctx.buffer_len + n /\ ctx'.buffer_len <= 300
  BY <1>1, <1>2, <1>3 DEF CtxTypes
<1>5. ChunkRoom'
  <2>1. ctx'.buffer_len + 32 * ctx'.buffer_output_len <= 300
    BY <1>1, <1>2, <1>4 DEF CtxTypes
  <2> QED BY <1>4, <2>1 DEF ChunkRoom
<1>6. DecodedBytes' = DecodedBytes
  BY <1>1 DEF DecodedBytes
<1>7. HashedIsDecoded'
  <2>1. ASSUME tx # NoTx PROVE ctx'.hashed = HEADER_LEN + DecodedBytes' + ctx'.buffer_len
    <3>1. DecodedBytes \in Int
      BY <2>1, DecodedBytesType
    <3>2. ctx.hashed = HEADER_LEN + DecodedBytes + ctx.buffer_len
      BY <2>1 DEF BytesInv, HashedIsDecoded
    <3> QED BY <1>1, <1>2, <1>4, <1>6, <3>1, <3>2 DEF CtxTypes
  <2> QED BY <1>1, <2>1 DEF HashedIsDecoded
<1> QED BY <1>5, <1>7 DEF BytesInv

LEMMA DataFirstBytesStep ==
  ASSUME IInv, NEW t \in Txs, NEW n \in FirstSizes, DataFirst(t, n)
  PROVE  BytesInv'
<1>1. /\ pc' = "decode" /\ tx' = t /\ n \in 0..MAX_FIRST
      /\ ctx'.hashed = HEADER_LEN + n /\ ctx'.buffer_len = n
      /\ ctx'.remaining_tokens = t.tokens /\ ctx'.remaining_inputs = t.inputs
      /\ ctx'.current_output = 0 /\ ctx'.buffer_output_len = 0
  BY FirstFields
<1>2. t.tokens \in Byte /\ t.inputs \in Byte
  BY TxShape
<1>3. OutputBytes(t.outputs, 0) = 0
  <2>1. {i \in 1..0 : t.outputs[i].len = 36} = {}
    OBVIOUS
  <2> QED BY <2>1, FS_EmptySet DEF OutputBytes
<1>4. DecodedBytes' = 0
  <2>1. t.tokens \in Int /\ t.inputs \in Int
    BY <1>2
  <2> QED BY <1>1, <1>3, <2>1 DEF DecodedBytes
<1>5. HashedIsDecoded'
  BY <1>1, <1>4 DEF HashedIsDecoded
<1>6. ChunkRoom'
  <2>1. n \in Int /\ 0 <= n /\ n <= 249
    BY <1>1
  <2>2. ctx'.buffer_len + 32 * ctx'.buffer_output_len <= 300
    BY <1>1, <2>1
  <2> QED BY <1>1, <2>2 DEF ChunkRoom
<1> QED BY <1>5, <1>6 DEF BytesInv

\* A header that breaks off leaves no transaction.
LEMMA DataFirstTruncatedBytesStep ==
  ASSUME IInv, NEW t \in Txs, NEW cut \in {"change", "tokens", "inputs", "outputs"},
         DataFirstTruncated(t, cut)
  PROVE  BytesInv'
<1>1. tx = NoTx
  BY DEF DataFirstTruncated, IInv, Phases, Session, Idle, TypeOK, Context
<1>2. /\ tx' = NoTx /\ pc' = "wait"
      /\ ctx'.buffer_len = 0 /\ ctx'.buffer_output_len = 0
  BY <1>1 DEF DataFirstTruncated, Answer, ZeroCtx
<1> QED BY <1>2 DEF BytesInv, ChunkRoom, HashedIsDecoded

\* Commands and screens that move no bytes.
LEMMA StillBytesStep ==
  ASSUME IInv, BytesInv,
         \/ Review \/ ConfirmOutput \/ ConfirmTx
         \/ SignRefused \/ SignMalformedPath \/ Sign \/ DataHashFails
         \/ OtherCommand \/ UNCHANGED vars
  PROVE  BytesInv'
<1>0. ctx \in Context
  BY DEF IInv, TypeOK
<1> DEFINE Still(c) ==
      /\ \A f \in {"hashed", "remaining_tokens", "remaining_inputs", "current_output",
                   "buffer_len"} : c[f] = ctx[f]
      /\ c.buffer_output_len \in {0, ctx.buffer_output_len}
<1>1. Still(Entered)
  BY <1>0, EnteredType
<1>2. Still(ctx)
  OBVIOUS
<1>3. \A c \in {Advance(ctx), Advance(Advance(ctx)), [ctx EXCEPT !.state = "PARSED"],
               [ctx EXCEPT !.state = "APPROVED"]} : Still(c)
  <2>1. Still([ctx EXCEPT !.state = "PARSED"]) /\ Still([ctx EXCEPT !.state = "APPROVED"])
    BY <1>0 DEF Context
  <2>2. Still(Advance(ctx)) /\ Advance(ctx) \in Context
    BY <1>0, AdvanceFields
  <2>3. Still(Advance(Advance(ctx)))
    BY <2>2, AdvanceFields
  <2> QED BY <2>1, <2>2, <2>3
<1>4. \A zero : Still(Finalised(zero))
  <2> SUFFICES ASSUME NEW zero PROVE Still(Finalised(zero))
    OBVIOUS
  <2>1. Entered \in Context
    BY <1>0, EnteredType
  <2>2. \A f \in {"hashed", "remaining_tokens", "remaining_inputs", "current_output",
                  "buffer_len", "buffer_output_len"} : Finalised(zero)[f] = Entered[f]
    BY <2>1 DEF Finalised, Context
  <2> QED BY <1>1, <2>2
<1> HIDE DEF Still
<1>5. ASSUME NEW c, Still(c), ctx' = c, tx' = tx, pc # "decode", pc' # "decode"
      PROVE  BytesInv'
  <2>1. /\ \A f \in {"hashed", "remaining_tokens", "remaining_inputs", "current_output",
                     "buffer_len"} : ctx'[f] = ctx[f]
        /\ ctx'.buffer_output_len \in {0, ctx.buffer_output_len}
    BY <1>5 DEF Still
  <2> QED BY <1>5, <2>1, StillBytes
<1>6. CASE Review
  <2>1. RequestTypeOverwritten \/ ShowFault \/ AddressFails => BytesInv'
    BY ErasedBytes DEF RequestTypeOverwritten, ShowFault, AddressFails, Restart, Cancel
  <2>2. AskConfirmation \/ AskMoreData \/ SkipChange \/ ShowOutput => BytesInv'
    BY <1>1, <1>2, <1>3, <1>5 DEF AskConfirmation, AskMoreData, SkipChange, ShowOutput,
       NothingToSkip, Answer
  <2> QED BY <1>6, <2>1, <2>2 DEF Review
<1>7. CASE ConfirmOutput \/ ConfirmTx
  <2>1. /\ ctx' \in {Advance(ctx), Advance(Advance(ctx)), [ctx EXCEPT !.state = "APPROVED"]}
        /\ tx' = tx /\ pc = "wait" /\ pc' # "decode"
    BY <1>7 DEF ConfirmOutput, ConfirmTx, Answer
  <2> QED BY <1>3, <1>5, <2>1
<1>8. CASE SignRefused \/ SignMalformedPath \/ DataHashFails
  BY <1>1, <1>5, <1>8 DEF SignRefused, SignMalformedPath, DataHashFails, Answer, Idle
<1>9. CASE Sign
  BY <1>4, <1>5, <1>9 DEF Sign, Answer, Idle
<1>10. CASE OtherCommand
  <2>1. (\E scr : Erase(scr, "OTHER")) => BytesInv'
    BY ErasedBytes
  <2> QED BY <1>2, <1>5, <1>10, <2>1 DEF OtherCommand, Answer, Idle
<1>11. CASE UNCHANGED vars
  <2>1. ctx' = ctx /\ tx' = tx /\ pc' = pc
    BY <1>11 DEF vars
  <2> QED BY <2>1 DEF BytesInv, ChunkRoom, HashedIsDecoded, DecodedBytes
<1> QED BY <1>6, <1>7, <1>8, <1>9, <1>10, <1>11

\* The many ways in which a transaction ends.
LEMMA EndBytesStep ==
  ASSUME \/ DataFirstTwice \/ DataRefused \/ UnknownToken \/ InputWithData \/ InvalidOutput
         \/ ChangeMismatch \/ ChangeRefused \/ TrailingData \/ RejectOutput \/ RejectTx
         \/ TokenFault \/ Quit \/ SignFails \/ Done \/ IoReset
  PROVE  BytesInv'
BY ErasedBytes DEF DataFirstTwice, DataRefused, UnknownToken, TokenFault, InputWithData,
   InvalidOutput, ChangeMismatch, ChangeRefused, TrailingData, RejectOutput, RejectTx, Quit, SignFails, Done,
   IoReset, Invalid, Restart, Cancel

\* The table of outputs is never full when an output is decoded.
LEMMA RoomForOutput ==
  ASSUME IInv, BytesInv, DecodeOutput
  PROVE  ctx.buffer_output_len < OUTPUTS_CAP
<1>1. CtxTypes /\ pc = "decode"
  BY ContextFields DEF IInv, DecodeOutput, NextIsOutput
<1> QED BY <1>1 DEF BytesInv, ChunkRoom, CtxTypes

LEMMA NextBytes == IInv /\ BytesInv /\ [Next]_vars => BytesInv'
<1> SUFFICES ASSUME IInv, BytesInv, [Next]_vars PROVE BytesInv'
  OBVIOUS
<1>0. IInv'
  BY NextInv
<1>1. CASE \E t \in Txs, n \in FirstSizes : DataFirst(t, n)
  BY <1>1, DataFirstBytesStep
<1>2. CASE \E t \in Txs, cut \in {"change", "tokens", "inputs", "outputs"} :
             DataFirstTruncated(t, cut)
  BY <1>2, DataFirstTruncatedBytesStep
<1>3. CASE \E n \in ChunkSizes : DataNext(n)
  BY <1>3, DataNextBytesStep
<1>4. CASE Decode
  <2>1. ASSUME NEW len \in Byte, DecodeToken(len) \/ DecodeInput PROVE BytesInv'
    BY <1>0, <2>1, ElementBytesStep
  <2>2. ASSUME DecodeInput PROVE BytesInv'
    BY <2>1, <2>2
  <2>3. ASSUME DecodeOutput PROVE BytesInv'
    BY <1>0, <2>3, OutputBytesStep, RoomForOutput
  <2>4. ASSUME \E len \in Byte : DecodeToken(len) PROVE BytesInv'
    BY <2>1, <2>4
  <2>5. ASSUME Split PROVE BytesInv'
    BY <2>5, SplitBytesStep
  <2> QED BY <1>4, <2>2, <2>3, <2>4, <2>5, EndBytesStep, Zenon DEF Decode
<1>5. CASE DataFirstTwice \/ DataRefused \/ Quit \/ SignFails \/ Done \/ IoReset
  BY <1>5, EndBytesStep
<1>6. CASE Review \/ UserDecision
  BY <1>6, StillBytesStep, EndBytesStep, Zenon DEF UserDecision
<1>7. CASE \/ SignRefused \/ SignMalformedPath \/ Sign \/ DataHashFails \/ OtherCommand
           \/ UNCHANGED vars
  BY <1>7, StillBytesStep
<1> QED BY <1>1, <1>2, <1>3, <1>4, <1>5, <1>6, <1>7, Zenon DEF Next

THEOREM BytesInvariant == Spec => [](IInv /\ BytesInv)
<1>1. Init => IInv /\ BytesInv
  BY InitInv, InitBytes
<1>2. IInv /\ BytesInv /\ [Next]_vars => IInv' /\ BytesInv'
  BY NextInv, NextBytes
<1> QED BY <1>1, <1>2, PTL DEF Spec

\* The digest that is signed covers exactly the bytes that were decoded, through
\* every split of every transaction (sign_tx.c:480-499, 336-413).
THEOREM HashedIsDecodedHolds == Spec => []HashedIsDecoded
<1>1. BytesInv => HashedIsDecoded
  BY DEF BytesInv
<1> QED BY <1>1, BytesInvariant, PTL

\* Neither the buffer nor the table of outputs ever rejects a well-formed
\* transaction (sign_tx.c:409, 494).
THEOREM NextChunkFitsHolds == Spec => []NextChunkFits
<1>1. ASSUME IInv, BytesInv PROVE NextChunkFits
  <2>1. CtxTypes
    BY <1>1, ContextFields DEF IInv
  <2>2. ctx.buffer_output_len < OUTPUTS_CAP
    BY <1>1, <2>1 DEF BytesInv, ChunkRoom, CtxTypes
  <2>3. Idle => ctx.buffer_len + MAX_LC <= BUFFER_LEN
    BY <1>1, <2>1 DEF BytesInv, ChunkRoom, CtxTypes, Idle
  <2> QED BY <2>2, <2>3 DEF NextChunkFits
<1> QED BY <1>1, BytesInvariant, PTL

-----------------------------------------------------------------------------
(* The numbers of the label.                                               *)

\* When every change entry has an index of its own, the entries below s are as
\* many as the indices below s.
LEMMA EntriesBelow ==
  ASSUME NEW info \in ChangeInfo, NEW s \in Int,
         Cardinality({info[k].index : k \in DOMAIN info}) = Len(info)
  PROVE  /\ IsFiniteSet({k \in DOMAIN info : info[k].index < s})
         /\ Cardinality({k \in DOMAIN info : info[k].index < s})
              = Cardinality({i \in {info[k].index : k \in DOMAIN info} : i < s})
<1> DEFINE entries == DOMAIN info
           indices == {info[k].index : k \in DOMAIN info}
           name == [k \in entries |-> info[k].index]
           below == {k \in entries : info[k].index < s}
           low == {i \in indices : i < s}
           lowName == [k \in below |-> info[k].index]
<1>1. entries = 1..Len(info) /\ Len(info) \in Nat
  BY DEF ChangeInfo
<1>2. IsFiniteSet(entries) /\ Cardinality(entries) = Len(info)
  <2> HIDE DEF entries
  <2> DEFINE n == Len(info)
  <2>1. n \in Int /\ n >= 0 /\ entries = 1..n
    BY <1>1
  <2> HIDE DEF n
  <2>2. IsFiniteSet(1..n)
    BY <2>1, FS_Interval
  <2>3. Cardinality(1..n) = IF 1 > n THEN 0 ELSE n - 1 + 1
    BY <2>1, FS_Interval
  <2>4. Cardinality(1..n) = n
    BY <2>1, <2>3
  <2> QED BY <2>1, <2>2, <2>4 DEF n
<1>3. name \in Surjection(entries, indices)
  BY DEF Surjection
<1>4. name \in Injection(entries, indices)
  <2> HIDE DEF name, entries, indices
  <2>1. Cardinality(entries) = Cardinality(indices)
    BY <1>2 DEF entries, indices
  <2> QED BY <1>2, <1>3, <2>1, FS_SurjSameCardinalityImpliesInj
<1>5. \A k, m \in entries : info[k].index = info[m].index => k = m
  BY <1>4 DEF Injection, IsInjective
<1>6. lowName \in Surjection(below, low)
  BY DEF Surjection
<1>7. lowName \in Injection(below, low)
  BY <1>5 DEF Injection, IsInjective
<1>8. IsFiniteSet(below)
  <2>1. below \in SUBSET entries
    OBVIOUS
  <2> HIDE DEF below, entries
  <2> QED BY <1>2, <2>1, FS_Subset
<1>9. Cardinality(low) = Cardinality(below)
  <2> HIDE DEF below, low, lowName
  <2> QED BY <1>6, <1>7, <1>8, FS_Surjection
<1> QED BY <1>8, <1>9

\* How many numbers of 0..s are not in a set.
LEMMA NumbersOutside ==
  ASSUME NEW s \in Int, s >= -1, NEW S
  PROVE  /\ IsFiniteSet(0..s \cap S) /\ Cardinality(0..s \cap S) \in 0..(s + 1)
         /\ Cardinality(0..s \ S) = s + 1 - Cardinality(0..s \cap S)
<1> DEFINE N == 0..s
           both == N \cap S
<1>1. IsFiniteSet(N)
  BY FS_Interval
<1>2. Cardinality(N) = IF 0 > s THEN 0 ELSE s - 0 + 1
  BY FS_Interval
<1>3. Cardinality(N) = s + 1
  BY <1>2
<1> HIDE DEF N
<1>4. Cardinality(N \ S) = Cardinality(N) - Cardinality(both)
  BY <1>1, FS_Difference
<1>5. both \in SUBSET N
  OBVIOUS
<1> HIDE DEF both
<1>6. IsFiniteSet(both) /\ Cardinality(both) <= Cardinality(N) /\ Cardinality(both) \in Nat
  BY <1>1, <1>5, FS_Subset, FS_CardinalityType
<1>7. Cardinality(both) \in 0..(s + 1)
  BY <1>3, <1>6
<1> QED BY <1>3, <1>4, <1>6, <1>7 DEF N, both

\* "Output <curr>/<total>" counts what the user reviews, when every change entry
\* names an output of its own: on bytes, and for any number of outputs
\* (display.c:285-303).
THEOREM LabelCountsHolds == Spec => []LabelCountsProperChange
<1>1. ASSUME IInv, ReviewAligned PROVE LabelCountsProperChange
  <2> SUFFICES ASSUME ProperChange(ctx), screen = "output", pc = "wait",
                      ctx.display_index < ctx.buffer_output_len
               PROVE  Label = [curr |-> Cardinality(0..Shown \ ChangeIndices(ctx)),
                               total |-> Cardinality((0..(ctx.outputs_len - 1)) \ ChangeIndices(ctx))]
    BY DEF LabelCountsProperChange, LabelCounts
  <2> DEFINE info == ctx.change_info
             indices == ChangeIndices(ctx)
             s == Shown
             last == ctx.outputs_len - 1
             below == {k \in DOMAIN info : info[k].index < s}
  <2>1. /\ ctx.state = "RECV_DATA" /\ ctx.buffer_output_len <= ctx.current_output
        /\ ctx.current_output <= ctx.outputs_len
        /\ ctx \in Context /\ CtxTypes
    BY <1>1, ReviewState
  <2>2. info \in ChangeInfo /\ Len(info) \in Nat /\ DOMAIN info = 1..Len(info)
    BY <2>1 DEF Context, ChangeInfo
  <2>3. s \in 0..last /\ s \notin indices /\ last \in 0..254
    <3>1. ctx.display_index \in Slots
      BY <2>1 DEF CtxTypes
    <3>2. s = Base + ctx.display_index
      BY <1>1, <2>1, <3>1 DEF IInv, Aligned, Shown
    <3>3. s \notin indices
      BY <1>1 DEF ReviewAligned
    <3>4. /\ ctx.current_output \in Int /\ ctx.buffer_output_len \in Int
          /\ ctx.display_index \in Int /\ 0 <= ctx.display_index
          /\ ctx.outputs_len \in Int /\ ctx.outputs_len <= 255
      BY <2>1 DEF CtxTypes
    <3> HIDE DEF s
    <3>5. s \in 0..last /\ last \in 0..254
      BY <2>1, <3>2, <3>4 DEF Base
    <3> QED BY <3>3, <3>5
  <2>4. indices \subseteq 0..last
    <3>1. ASSUME NEW k \in DOMAIN info PROVE info[k].index \in 0..last
      <4>1. info[k].index < ctx.outputs_len
        BY DEF ProperChange
      <4>2. info[k].index \in Int /\ 0 <= info[k].index
        BY <2>2, ChangeIndexType
      <4> QED BY <2>1, <4>1, <4>2 DEF CtxTypes
    <3> QED BY <3>1 DEF ChangeIndices
  <2>5. Cardinality(indices) = Len(info) /\ indices = {info[k].index : k \in DOMAIN info}
    BY DEF ProperChange, ChangeIndices
  <2>6. Label.curr = (s + 1 - Cardinality(below)) % 256 /\ Label.total = (last + 1 - Len(info)) % 256
    <3>1. ctx.outputs_len = last + 1
      BY <2>1 DEF CtxTypes
    <3>2. Label.curr = (s + 1 - Cardinality(below)) % 256
      <4>1. Label.curr = (Shown + 1 - Cardinality({k \in DOMAIN ctx.change_info :
                                                     ctx.change_info[k].index < Shown})) % 256
        BY DEF Label
      <4>2. {k \in DOMAIN ctx.change_info : ctx.change_info[k].index < Shown} = below
        OBVIOUS
      <4> HIDE DEF below
      <4> QED BY <4>1, <4>2
    <3>3. Label.total = (last + 1 - Len(info)) % 256
      <4>1. Label.total = (ctx.outputs_len - Len(info)) % 256
        BY DEF Label
      <4>2. ctx.outputs_len - Len(info) = last + 1 - Len(info)
        <5>1. last \in Int /\ Len(info) \in Int
          BY <2>1, <2>2 DEF CtxTypes
        <5> HIDE DEF last, info
        <5> QED BY <3>1, <5>1
      <4> HIDE DEF last, info
      <4> QED BY <4>1, <4>2, Zenon
    <3> HIDE DEF below, info, s, last
    <3> QED BY <3>2, <3>3, Zenon
  <2>7. Label = [curr |-> Label.curr, total |-> Label.total]
    BY DEF Label
  <2> HIDE DEF info, indices, s, last
  <2>8. Cardinality(below) = Cardinality({i \in indices : i < s})
    <3>1. s \in Int
      BY <2>3
    <3>2. Cardinality({info[k].index : k \in DOMAIN info}) = Len(info)
      BY <2>5
    <3>3. Cardinality(below) = Cardinality({i \in {info[k].index : k \in DOMAIN info} : i < s})
      BY <2>2, <3>1, <3>2, EntriesBelow
    <3> QED BY <2>5, <3>3
  <2>9. {i \in indices : i < s} = 0..s \cap indices
    <3>1. s \in Int /\ \A i \in indices : i \in Int /\ 0 <= i /\ i # s
      BY <2>3, <2>4
    <3> QED BY <3>1
  <2>10. /\ Cardinality(below) \in 0..(s + 1)
        /\ Cardinality(0..s \ indices) = s + 1 - Cardinality(below)
    <3>1. s \in Int /\ s >= -1
      BY <2>3
    <3> HIDE DEF below
    <3> QED BY <2>8, <2>9, <3>1, NumbersOutside
  <2>11. /\ Len(info) \in 0..(last + 1)
        /\ Cardinality(0..last \ indices) = last + 1 - Len(info)
    <3>1. last \in Int /\ last >= -1
      BY <2>3
    <3>2. 0..last \cap indices = indices
      BY <2>4
    <3> QED BY <2>5, <3>1, <3>2, NumbersOutside
  <2>12. /\ s + 1 - Cardinality(below) \in 0..255
         /\ last + 1 - Len(info) \in 0..255
    <3> DEFINE b == Cardinality(below)
               n == Len(info)
    <3>1. s \in Int /\ 0 <= s /\ s <= 254 /\ last \in Int /\ 0 <= last /\ last <= 254
      BY <2>3
    <3>2. b \in 0..(s + 1) /\ n \in 0..(last + 1)
      BY <2>10, <2>11
    <3> HIDE DEF b, n
    <3>3. s + 1 - b \in 0..255 /\ last + 1 - n \in 0..255
      BY <3>1, <3>2
    <3> QED BY <3>3 DEF b, n
  <2>13. \A n \in 0..255 : n % 256 = n
    OBVIOUS
  <2> HIDE DEF below
  <2>14. Label = [curr |-> Cardinality(0..s \ indices), total |-> Cardinality(0..last \ indices)]
    BY <2>10, <2>11, <2>12, <2>13, <2>6, <2>7
  <2> QED BY <2>14 DEF s, last, indices
<1> QED BY <1>1, Invariant, ReviewAlignedHolds, PTL

===============================================================================
