-------------------------------- MODULE SignTx --------------------------------
(***************************************************************************)
(* The SIGN_TX command of the Hathor application (src/handler/sign_tx.c)   *)
(* with the review screens it drives (src/ui/display.c).                   *)
(*                                                                         *)
(* A host streams a transaction in chunks.  Each chunk is hashed, appended *)
(* to a 300-byte buffer and decoded element by element: token uids,        *)
(* inputs, outputs.  The outputs decoded from one chunk are shown to the   *)
(* user one at a time; outputs declared as change are verified against a   *)
(* key of the device and not shown.  When the count of confirmed outputs   *)
(* reaches the declared number of outputs the user is asked to approve the *)
(* transaction, and from then on the host may ask for signatures.          *)
(*                                                                         *)
(* The program is one thread.  A command handler runs to completion before *)
(* anything else happens, so its loops are split into one step per element *)
(* (pc = "decode") and per output (pc = "show") with no other action       *)
(* enabled in between.  While a reply is owed (reply = "PENDING") and the  *)
(* handler is not running, the device waits for a button.                  *)
(***************************************************************************)
EXTENDS Integers, Sequences, FiniteSets

CONSTANTS
  Keys,        \* public key hashes: a BIP32 path is named by the one it derives
  Refused,     \* a path the key derivation of the operating system refuses
  Txs,         \* the transactions a host may send, with their change info
  NoTx,        \* no transaction is being received
  FirstSizes,  \* numbers of bytes that may follow the header in chunk 0
  ChunkSizes,  \* numbers of bytes of a later chunk
  TX_MAX_TOKENS, \* capacity of tokens[], 10 in the code
  Overwritten, \* tokens_len after the pointer behind tokens[] was stored in it
  ZeroByte     \* whether the first byte of a digest may be zero

VARIABLES
  ctx,         \* G_context: state and tx_info
  pc,          \* "wait", or the loop the running handler is in
  screen,      \* what the user sees
  reply,       \* the last status word, or "PENDING" while one is owed
  tx,          \* the transaction being received
  approved,    \* history: outputs of tx whose screen the user approved
  signed       \* history: digests signed for tx

vars == <<ctx, pc, screen, reply, tx, approved, signed>>

-----------------------------------------------------------------------------
TOKEN_UID_LEN == 32
TX_INPUT_LEN == 35
P2PKH_LEN == 25
HEADER_LEN == 5       \* version, number of tokens, of inputs, of outputs
TightBuffer == 280    \* mutant: no room for the longest split element
BUFFER_LEN == 300
OUTPUTS_CAP == 10
MAX_LC == 255
MAX_FIRST == MAX_LC - HEADER_LEN - 1   \* at least one byte of change info
TOKEN_DATA_AUTHORITY_MASK == 128

Byte == 0..255
Incr(b) == (b + 1) % 256

NoOutput == -1        \* a slot not written since the context was erased
Slots == 0..(OUTPUTS_CAP - 1)

Output == [len : {32, 36},                        \* 4 or 8 bytes of value
           script : {"p2pkh", "length", "opcodes"},  \* well formed, or the fault
           token_data : Byte,
           key : Keys]

\* An index is a byte; 255 cannot name an output of at most 255.
Change == [index : 0..254, path : Keys \cup {Refused}]
ChangeInfo == Seq(Change)

Transaction == [tokens : Byte, inputs : Byte,
                outputs : Seq(Output), change : ChangeInfo]

ASSUME KeysAssumption == Refused \notin Keys
ASSUME TxsAssumption ==
  /\ NoTx \notin Txs
  /\ \A t \in Txs : /\ t \in Transaction
                    /\ Len(t.outputs) \in Byte
                    /\ Len(t.change) <= TX_MAX_TOKENS + 1
ASSUME TokensAssumption == TX_MAX_TOKENS \in 1..254 /\ Overwritten \subseteq Byte
ASSUME SizesAssumption == FirstSizes \subseteq 0..MAX_FIRST /\ ChunkSizes \subseteq 1..MAX_LC
ASSUME ZeroByteAssumption == ZeroByte \subseteq BOOLEAN /\ ZeroByte # {}

-----------------------------------------------------------------------------
\* explicit_bzero(&G_context, sizeof(G_context))
ZeroCtx == [state |-> "NONE", buffer_len |-> 0, hashed |-> 0,
            finals |-> 0, unset |-> TRUE, change_info |-> <<>>,
            remaining_tokens |-> 0, remaining_inputs |-> 0, outputs_len |-> 0,
            current_output |-> 0, display_index |-> 0, confirmed_outputs |-> 0,
            buffer_output_len |-> 0, outputs |-> [j \in Slots |-> NoOutput],
            tokens_len |-> 0]

Init == /\ ctx = ZeroCtx
        /\ pc = "wait"
        /\ screen = "menu"
        /\ reply = "NONE"
        /\ tx = NoTx
        /\ approved = {}
        /\ signed = {}

\* The handler is done: it leaves context c and sends a status word.
Answer(c, scr, sw) == /\ ctx' = c
                      /\ pc' = "wait"
                      /\ screen' = scr
                      /\ reply' = sw

\* The context is erased, and with it everything known of the transaction.
Erase(scr, sw) == /\ Answer(ZeroCtx, scr, sw)
                  /\ tx' = NoTx
                  /\ approved' = {}
                  /\ signed' = {}

Cancel(sw) == Erase("menu", sw)
Invalid == Cancel("INVALID_TX")

\* app_main returns and main starts it again: the reply is never sent.
Restart == Cancel("LOST")

\* The device waits for a command: the transport delivers none before the
\* previous one has been answered.
Idle == pc = "wait" /\ reply # "PENDING"

\* Mutant: the display index survives the end of a chunk.
EnteredKeepsDisplay == [ctx EXCEPT !.buffer_output_len = 0]

\* Every SIGN_TX call begins by resetting these two fields.
Entered == [ctx EXCEPT !.display_index = 0, !.buffer_output_len = 0]

-----------------------------------------------------------------------------
(* SIGN_TX, p1 = 0: receive a chunk of the transaction.                    *)

\* Mutant: more chunks are accepted after the approval.
ExpectsDataWhenApproved == ctx.state \in {"RECV_DATA", "APPROVED"}

\* A first chunk was received and the transaction is not reviewed yet.
ExpectsData == ctx.state = "RECV_DATA"

\* Mutant: the header is read before the chunk is hashed.
FirstCtxHeaderUnhashed(t, n) == [ZeroCtx EXCEPT !.state = "RECV_DATA",
                                                !.change_info = t.change,
                                                !.hashed = n,
                                                !.remaining_tokens = t.tokens,
                                                !.remaining_inputs = t.inputs,
                                                !.outputs_len = Len(t.outputs),
                                                !.buffer_len = n]

\* init_sign_tx_ctx, then the change info and the header of t are read.  The
\* whole of the chunk after the change info is hashed.
FirstCtx(t, n) == [ZeroCtx EXCEPT !.state = "RECV_DATA",
                                  !.change_info = t.change,
                                  !.hashed = HEADER_LEN + n,
                                  !.remaining_tokens = t.tokens,
                                  !.remaining_inputs = t.inputs,
                                  !.outputs_len = Len(t.outputs),
                                  !.buffer_len = n]

DataFirst(t, n) == /\ Idle
                   /\ ctx.state \notin {"RECV_DATA", "APPROVED"}
                   /\ ctx' = FirstCtx(t, n)
                   /\ tx' = t
                   /\ pc' = "decode"
                   /\ reply' = "PENDING"
                   /\ approved' = {}
                   /\ signed' = {}
                   /\ UNCHANGED screen

\* Chunk 0 ends within the field cut, its change info is not acceptable, or the
\* hash of what follows the change info fails: an exception reaches app_main,
\* which replies and keeps the context.
DataFirstTruncated(t, cut) ==
  /\ Idle
  /\ ctx.state \notin {"RECV_DATA", "APPROVED"}
  /\ \E sw \in {"WRONG_DATA_LENGTH"} \cup (IF cut = "tokens" THEN {"OS_ERROR"} ELSE {}) :
       Answer([ZeroCtx EXCEPT
                 !.state = "RECV_DATA",
                 !.change_info = IF cut = "change" THEN <<>> ELSE t.change,
                 !.remaining_tokens = IF cut \in {"inputs", "outputs"} THEN t.tokens ELSE 0,
                 !.remaining_inputs = IF cut = "outputs" THEN t.inputs ELSE 0],
              screen, sw)
  /\ UNCHANGED <<tx, approved, signed>>

DataFirstTwice == /\ Idle
                  /\ ExpectsData
                  /\ Erase(screen, "BAD_STATE")

\* More data after the approval, or chunk > 0 when none is expected.
DataRefused == /\ Idle
               /\ ~ExpectsData
               /\ Cancel("BAD_STATE")

\* The chunk is hashed before the copy into the buffer can fail.
DataNext(n) ==
  /\ Idle
  /\ ExpectsData
  /\ LET c == [Entered EXCEPT !.hashed = @ + n]
     IN IF c.buffer_len + n > BUFFER_LEN
        THEN Answer(c, screen, "WRONG_DATA_LENGTH")
        ELSE /\ ctx' = [c EXCEPT !.buffer_len = @ + n]
             /\ pc' = "decode"
             /\ reply' = "PENDING"
             /\ UNCHANGED screen
  /\ UNCHANGED <<tx, approved, signed>>

\* sighash_all_hash throws the error of the operating system.
DataHashFails == /\ Idle
                 /\ ExpectsData
                 /\ Answer(Entered, screen, "OS_ERROR")
                 /\ UNCHANGED <<tx, approved, signed>>

-----------------------------------------------------------------------------
(* _decode_elements: one step per element.                                 *)

NextIsToken == pc = "decode" /\ ctx.remaining_tokens > 0
NextIsInput == pc = "decode" /\ ctx.remaining_tokens = 0 /\ ctx.remaining_inputs > 0
NextIsOutput == /\ pc = "decode"
                /\ ctx.remaining_tokens = 0 /\ ctx.remaining_inputs = 0
                /\ ctx.current_output < ctx.outputs_len

\* Mutant: the status word that asks for more data is forgotten.
ReadySilent(c) == IF c.buffer_output_len # 0
                  THEN ctx' = c /\ pc' = "show" /\ UNCHANGED <<screen, reply>>
                  ELSE ctx' = c /\ pc' = "wait" /\ UNCHANGED <<screen, reply>>

\* The decoder stops with context c: review what it decoded, or ask for more.
Ready(c) == IF c.buffer_output_len # 0
            THEN ctx' = c /\ pc' = "show" /\ UNCHANGED <<screen, reply>>
            ELSE Answer(c, screen, "OK")

\* An element was decoded: go on unless the buffer is empty.
Continue(c) == IF c.buffer_len # 0
               THEN ctx' = c /\ UNCHANGED <<pc, screen, reply>>
               ELSE Ready(c)

Next_output == tx.outputs[ctx.current_output + 1]

\* Mutant: an off-by-one in the length check.
OutputArrivedOffByOne == ctx.buffer_len >= Next_output.len - 1

\* The value, token data and script length have arrived, then the script too.
OutputHeadArrived == ctx.buffer_len >= Next_output.len - P2PKH_LEN
OutputArrived == ctx.buffer_len >= Next_output.len

OutputSplit == \/ ~OutputHeadArrived
               \/ Next_output.script # "length" /\ ~OutputArrived

\* validate_p2pkh_script, then the checks on the token data.
OutputMalformed ==
  \/ OutputHeadArrived /\ Next_output.script = "length"
  \/ OutputArrived /\ Next_output.script = "opcodes"
  \/ /\ OutputArrived
     /\ \/ Next_output.token_data >= TOKEN_DATA_AUTHORITY_MASK
        \/ Next_output.token_data % TOKEN_DATA_AUTHORITY_MASK > ctx.tokens_len

OutputWellFormed == ~OutputSplit /\ ~OutputMalformed

\* Mutant: only the first entry of the change info is verified.
WrongEntriesFirstOnly(i) == {k \in DOMAIN ctx.change_info :
                               /\ k = 1
                               /\ ctx.change_info[k].index = i
                               /\ ctx.change_info[k].path # tx.outputs[i + 1].key}

\* Entries of the change info that claim output i without deriving its key.
WrongEntries(i) == {k \in DOMAIN ctx.change_info :
                      /\ ctx.change_info[k].index = i
                      /\ ctx.change_info[k].path # tx.outputs[i + 1].key}

\* verify_change goes through them in order and the first one decides.
FirstWrong(i, path) == \E k \in WrongEntries(i) :
                         /\ ctx.change_info[k].path = path
                         /\ \A m \in WrongEntries(i) : k <= m

\* An element is divided between this chunk and the next.
Split == /\ \/ NextIsToken /\ ctx.buffer_len < TOKEN_UID_LEN
            \/ NextIsInput /\ ctx.buffer_len < TX_INPUT_LEN
            \/ NextIsOutput /\ OutputSplit
         /\ Ready(ctx)
         /\ UNCHANGED <<tx, approved, signed>>

\* tokens[tokens_len++] = pointer.  tokens_len lies right behind tokens[], so a
\* pointer stored at the capacity of the array goes over it, before or after the
\* increment.  What lies further behind is no part of ctx: see below.
NextTokensLen == IF ctx.tokens_len = TX_MAX_TOKENS
                 THEN {Incr(ctx.tokens_len)} \cup Overwritten
                 ELSE {Incr(ctx.tokens_len)}

\* The declared number of tokens is not compared with the capacity of tokens[].
DecodeToken(len) == /\ NextIsToken
                    /\ ctx.buffer_len >= TOKEN_UID_LEN
                    /\ len \in NextTokensLen
                    /\ Continue([ctx EXCEPT !.tokens_len = len,
                                            !.remaining_tokens = @ - 1,
                                            !.buffer_len = @ - TOKEN_UID_LEN])
                    /\ UNCHANGED <<tx, approved, signed>>

\* A pointer stored beyond tokens_len may leave the memory of the application.
TokenFault == /\ NextIsToken
              /\ ctx.buffer_len >= TOKEN_UID_LEN
              /\ ctx.tokens_len > TX_MAX_TOKENS
              /\ Restart

\* The uid is not in the registry of verified tokens.
UnknownToken == NextIsToken /\ ctx.buffer_len >= TOKEN_UID_LEN /\ Invalid

DecodeInput == /\ NextIsInput
               /\ ctx.buffer_len >= TX_INPUT_LEN
               /\ Continue([ctx EXCEPT !.remaining_inputs = @ - 1,
                                       !.buffer_len = @ - TX_INPUT_LEN])
               /\ UNCHANGED <<tx, approved, signed>>

InputWithData == NextIsInput /\ ctx.buffer_len >= TX_INPUT_LEN /\ Invalid

DecodeOutput ==
  /\ NextIsOutput
  /\ OutputWellFormed
  /\ WrongEntries(ctx.current_output) = {}
  /\ IF ctx.buffer_output_len >= OUTPUTS_CAP
     THEN Invalid
     ELSE /\ Continue([ctx EXCEPT !.current_output = @ + 1,
                                  !.buffer_len = @ - Next_output.len,
                                  !.outputs[ctx.buffer_output_len] = ctx.current_output,
                                  !.buffer_output_len = @ + 1])
          /\ UNCHANGED <<tx, approved, signed>>

InvalidOutput == NextIsOutput /\ OutputMalformed /\ Invalid

ChangeMismatch == /\ NextIsOutput
                  /\ OutputWellFormed
                  /\ \E path \in Keys : FirstWrong(ctx.current_output, path)
                  /\ Invalid

\* verify_change throws a status word that receive_data does not expect.
ChangeRefused == /\ NextIsOutput
                 /\ OutputWellFormed
                 /\ FirstWrong(ctx.current_output, Refused)
                 /\ Restart

\* Everything declared was decoded and bytes are left.
TrailingData == /\ pc = "decode"
                /\ ~NextIsToken /\ ~NextIsInput /\ ~NextIsOutput
                /\ Invalid

Decode == \/ Split \/ (\E len \in Byte : DecodeToken(len)) \/ TokenFault \/ UnknownToken
          \/ DecodeInput \/ InputWithData
          \/ DecodeOutput \/ InvalidOutput \/ ChangeMismatch \/ ChangeRefused
          \/ TrailingData

-----------------------------------------------------------------------------
(* ui_display_tx_outputs: find the next thing to show.                     *)

\* Mutant: change outputs are counted from one.
ChangeIndicesFromOne(c) == {c.change_info[k].index + 1 : k \in DOMAIN c.change_info}

ChangeIndices(c) == {c.change_info[k].index : k \in DOMAIN c.change_info}

\* Mutant: the count is compared with the outputs decoded so far.
AllDecodedConfirmed == ctx.confirmed_outputs = ctx.current_output

AllConfirmed == ctx.confirmed_outputs = ctx.outputs_len
AllShown == ctx.display_index = ctx.buffer_output_len

\* One output further in the review.
Advance(c) == [c EXCEPT !.display_index = Incr(@), !.confirmed_outputs = Incr(@)]

AskConfirmation == /\ pc = "show"
                   /\ AllConfirmed
                   /\ ctx' = [ctx EXCEPT !.state = "PARSED"]
                   /\ pc' = "wait"
                   /\ screen' = "confirm"
                   /\ UNCHANGED <<reply, tx, approved, signed>>

\* req_type follows tokens_len in the context: a second pointer stored behind
\* tokens[] may have gone over it.
RequestTypeOverwritten == /\ pc = "show"
                          /\ AllConfirmed
                          /\ tx.tokens > TX_MAX_TOKENS + 1
                          /\ Cancel("BAD_STATE")

AskMoreData == /\ pc = "show"
               /\ ~AllConfirmed /\ AllShown
               /\ Answer(Entered, "menu", "OK")
               /\ UNCHANGED <<tx, approved, signed>>

\* The pass over the sorted change indices skips every consecutive index.
SkipChange == /\ pc = "show"
              /\ ~AllConfirmed /\ ~AllShown
              /\ ctx.confirmed_outputs \in ChangeIndices(ctx)
              /\ ctx' = Advance(ctx)
              /\ UNCHANGED <<pc, screen, reply, tx, approved, signed>>

NothingToSkip == /\ pc = "show"
                 /\ ~AllConfirmed /\ ~AllShown
                 /\ ctx.confirmed_outputs \notin ChangeIndices(ctx)

ShowOutput == /\ NothingToSkip
              /\ pc' = "wait"
              /\ screen' = "output"
              /\ UNCHANGED <<ctx, reply, tx, approved, signed>>

\* The slot on the screen; what lies beyond the array is no output.
Shown == IF ctx.display_index \in Slots THEN ctx.outputs[ctx.display_index] ELSE NoOutput

ShownToken == tx.outputs[Shown + 1].token_data % TOKEN_DATA_AUTHORITY_MASK

\* outputs[display_index], or tokens[] at the token of the output, is read
\* outside of the array: the read may also fault.
ShowFault == /\ NothingToSkip
             /\ \/ ctx.display_index >= OUTPUTS_CAP
                \/ Shown # NoOutput /\ ShownToken > TX_MAX_TOKENS
             /\ Restart

\* The checksum of the address fails.
AddressFails == NothingToSkip /\ Cancel("INTERNAL_ERROR")

Review == \/ AskConfirmation \/ RequestTypeOverwritten \/ AskMoreData \/ SkipChange
          \/ ShowOutput \/ ShowFault \/ AddressFails

\* Mutant: the total counts the change outputs.
LabelWithChange == [curr |-> (Shown + 1 - Cardinality({k \in DOMAIN ctx.change_info :
                                            ctx.change_info[k].index < Shown})) % 256,
                    total |-> ctx.outputs_len]

\* "Output <curr>/<total>", computed on bytes.
Label == [curr |-> (Shown + 1 - Cardinality({k \in DOMAIN ctx.change_info :
                                               ctx.change_info[k].index < Shown})) % 256,
          total |-> (ctx.outputs_len - Len(ctx.change_info)) % 256]

-----------------------------------------------------------------------------
(* Buttons.                                                                *)

\* The first change index met after the increment is skipped unconditionally.
ConfirmOutput ==
  /\ pc = "wait" /\ screen = "output"
  /\ LET c == Advance(ctx)
     IN ctx' = IF c.confirmed_outputs \in ChangeIndices(c) THEN Advance(c) ELSE c
  /\ approved' = IF Shown = NoOutput THEN approved ELSE approved \cup {Shown}
  /\ pc' = "show"
  /\ UNCHANGED <<screen, reply, tx, signed>>

RejectOutput == pc = "wait" /\ screen = "output" /\ Cancel("DENY")

ConfirmTx == /\ pc = "wait" /\ screen = "confirm"
             /\ Answer([ctx EXCEPT !.state = "APPROVED"], "processing", "OK")
             /\ UNCHANGED <<tx, approved, signed>>

RejectTx == pc = "wait" /\ screen = "confirm" /\ Cancel("DENY")

\* "Quit" on the Processing screen.
Quit == pc = "wait" /\ screen = "processing" /\ Cancel(reply)

UserDecision == ConfirmOutput \/ RejectOutput \/ ConfirmTx \/ RejectTx

-----------------------------------------------------------------------------
(* SIGN_TX, p1 = 1 and 2: sign, and finish.                                *)

SignRefused == /\ Idle
               /\ ctx.state # "APPROVED"
               /\ Answer(Entered, screen, "BAD_STATE")
               /\ UNCHANGED <<tx, approved, signed>>

SignMalformedPath == /\ Idle
                     /\ ctx.state = "APPROVED"
                     /\ Answer(Entered, screen, "WRONG_DATA_LENGTH")
                     /\ UNCHANGED <<tx, approved, signed>>

\* Mutant: every signature finalises the hash again.
FinalisedAgain(zero) == [Entered EXCEPT !.finals = IF @ = 0 THEN 1 ELSE 2, !.unset = zero]

\* A zero first byte of sighash_all means that it is not computed yet.
Finalised(zero) == IF ctx.unset
                   THEN [Entered EXCEPT !.finals = IF @ = 0 THEN 1 ELSE 2,
                                        !.unset = zero]
                   ELSE Entered

Sign == /\ Idle
        /\ ctx.state = "APPROVED"
        /\ \E zero \in ZeroByte :
             /\ Answer(Finalised(zero), screen, "SIGNATURE")
             /\ signed' = signed \cup {Finalised(zero).finals}
        /\ UNCHANGED <<tx, approved>>

\* The path is empty or refused: io_send_sw(...) > 0 is false.
SignFails == Idle /\ ctx.state = "APPROVED" /\ Restart

Done == Idle /\ Cancel("OK")

-----------------------------------------------------------------------------
(* The rest of the application, as far as it touches this state.           *)

\* Another command: it erases the context or leaves it, and ends on the menu
\* when it asked the user something.
OtherCommand == /\ Idle
                /\ \E scr \in {screen, "menu"} :
                     \/ Erase(scr, "OTHER")
                     \/ Answer(ctx, scr, "OTHER") /\ UNCHANGED <<tx, approved, signed>>

\* USB power is lost, or the application is left and started again.
IoReset == pc = "wait" /\ Cancel("RESET")

Next == \/ \E t \in Txs, n \in FirstSizes : DataFirst(t, n)
        \/ \E t \in Txs, cut \in {"change", "tokens", "inputs", "outputs"} :
             DataFirstTruncated(t, cut)
        \/ \E n \in ChunkSizes : DataNext(n)
        \/ DataHashFails \/ DataFirstTwice \/ DataRefused
        \/ Decode \/ Review \/ UserDecision \/ Quit
        \/ SignRefused \/ SignMalformedPath \/ Sign \/ SignFails \/ Done
        \/ OtherCommand \/ IoReset

Spec == Init /\ [][Next]_vars

\* A running handler goes on, and the user decides what is on the screen.
FairSpec == Spec /\ WF_vars(Decode \/ Review) /\ WF_vars(UserDecision)

-----------------------------------------------------------------------------
(* Properties.                                                             *)

Context == [state : {"NONE", "RECV_DATA", "PARSED", "APPROVED"},
            buffer_len : 0..BUFFER_LEN, hashed : Nat,
            finals : 0..2, unset : BOOLEAN,
            change_info : ChangeInfo,
            remaining_tokens : Byte, remaining_inputs : Byte, outputs_len : Byte,
            current_output : Byte, display_index : Byte, confirmed_outputs : Byte,
            buffer_output_len : 0..OUTPUTS_CAP,
            outputs : [Slots -> Byte \cup {NoOutput}],
            tokens_len : Byte]

StatusWords == {"OK", "BAD_STATE", "DENY", "INVALID_TX", "WRONG_DATA_LENGTH",
                "SIGNATURE", "OTHER", "INTERNAL_ERROR", "OS_ERROR"}

\* Every field stays within its C type, the bytes in buffer[] and the outputs in
\* outputs[] within their arrays (sign_tx.c:409, 494).  Nothing of the kind
\* holds of tokens_len and display_index: TokensWithinArray, ReviewWithinChunk.
TypeOK == /\ ctx \in Context
          /\ pc \in {"wait", "decode", "show"}
          /\ screen \in {"menu", "output", "confirm", "processing"}
          /\ reply \in StatusWords \cup {"NONE", "PENDING", "LOST", "RESET"}
          /\ tx \in Txs \cup {NoTx}
          /\ approved \subseteq Byte
          /\ signed \subseteq 0..2

\* Output i was on the screen and approved, or is change to a device key.
VerifiedChange(i) == \E k \in DOMAIN ctx.change_info :
                       /\ ctx.change_info[k].index = i
                       /\ ctx.change_info[k].path = tx.outputs[i + 1].key
Covered(i) == i \in approved \/ VerifiedChange(i)

\* When the user is asked to approve the transaction, and as long as it can be
\* signed, every output the device has decoded was approved on its own screen
\* or was verified as change (display.c:214-271, sign_tx.c:388-401).
ApprovedCovers == ctx.state \in {"PARSED", "APPROVED"} =>
                    \A i \in 0..(ctx.current_output - 1) : Covered(i)

Complete == /\ ctx.remaining_tokens = 0 /\ ctx.remaining_inputs = 0
            /\ ctx.current_output = ctx.outputs_len
            /\ ctx.buffer_len = 0

\* A transaction is approved only after all of it was received and decoded,
\* so that the digest which is signed is the digest of what was reviewed.
ApprovedComplete == ctx.state \in {"PARSED", "APPROVED"} => Complete

\* ... which holds of a transaction sent without change outputs.
ApprovedCompleteNoChange == ctx.change_info = <<>> => ApprovedComplete

\* The output on the screen is the next unconfirmed output of the transaction
\* and no change output: the counter relative to the chunk and the counter
\* relative to the transaction never drift apart (display.c:261-282).
ReviewAligned ==
  screen = "output" /\ pc = "wait" /\ ctx.display_index < ctx.buffer_output_len =>
    Shown = ctx.confirmed_outputs /\ Shown \notin ChangeIndices(ctx)

\* The review never leaves the outputs decoded from the current chunk
\* (types.h:112-113: past the last of them more data is requested).
ReviewWithinChunk ==
  screen = "output" /\ pc = "wait" => ctx.display_index < ctx.buffer_output_len

\* A transaction has at most TX_MAX_TOKENS custom tokens (constants.h:39), so
\* that the pointers stored for it are within tokens[] (sign_tx.c:333).
TokensWithinArray == tx # NoTx => tx.tokens - ctx.remaining_tokens <= TX_MAX_TOKENS

\* The bytes of the first n outputs: a value takes 4 bytes, or 8.
OutputBytes(outputs, n) == 32 * n + 4 * Cardinality({i \in 1..n : outputs[i].len = 36})
DecodedBytes == TOKEN_UID_LEN * (tx.tokens - ctx.remaining_tokens)
                + TX_INPUT_LEN * (tx.inputs - ctx.remaining_inputs)
                + OutputBytes(tx.outputs, ctx.current_output)

\* The signed digest covers exactly the bytes that are decoded: nothing is
\* hashed twice, skipped, or hashed without reaching the decoder, however
\* elements are split between chunks (sign_tx.c:480-499, 336-413).
HashedIsDecoded == tx # NoTx =>
                     ctx.hashed = HEADER_LEN + DecodedBytes + ctx.buffer_len

\* Whatever a chunk leaves undecoded, the largest next chunk fits in the
\* buffer, and the outputs of one chunk fit in their array with room left, so
\* neither bound rejects a well-formed transaction (sign_tx.c:409, 494).
NextChunkFits == /\ Idle => ctx.buffer_len + MAX_LC <= BUFFER_LEN
                 /\ ctx.buffer_output_len < OUTPUTS_CAP

\* "Output <curr>/<total>" counts the outputs the user reviews.
LabelCounts ==
  screen = "output" /\ pc = "wait" /\ ctx.display_index < ctx.buffer_output_len =>
    Label = [curr |-> Cardinality(0..Shown \ ChangeIndices(ctx)),
             total |-> Cardinality((0..(ctx.outputs_len - 1)) \ ChangeIndices(ctx))]

\* ... when each change entry names an output of the transaction of its own.
ProperChange(c) == /\ \A k \in DOMAIN c.change_info : c.change_info[k].index < c.outputs_len
                   /\ Cardinality(ChangeIndices(c)) = Len(c.change_info)
LabelCountsProperChange == ProperChange(ctx) => LabelCounts

\* All signatures of one approved transaction are over its digest, finalised
\* once (sign_tx.c:241-257).
SignedOnce == signed \subseteq {1}

\* After the approval no command changes what will be signed: the context is
\* erased or the transaction in it stays as it was approved (sign_tx.c:557).
ApprovedFrozen ==
  [][ctx.state = "APPROVED" /\ ctx'.state # "NONE" =>
       /\ ctx'.state = "APPROVED" /\ tx' = tx /\ approved' = approved
       /\ \A f \in {"hashed", "buffer_len", "change_info", "outputs_len",
                     "current_output", "confirmed_outputs"} : ctx'[f] = ctx[f]]_vars

\* A session whose first chunk broke off has no transaction to approve.
Stage == IF tx = NoTx THEN "idle"
         ELSE CASE ctx.state = "RECV_DATA" -> "review"
                [] ctx.state = "PARSED" -> "ask"
                [] ctx.state = "APPROVED" -> "approved"
                [] OTHER -> "idle"

Approval == INSTANCE TxApproval WITH stage <- Stage, tx <- tx, reviewed <- approved,
                                     received <- ctx.current_output, digests <- signed

\* SIGN_TX implements TxApproval: through every split of the transaction,
\* every order of skipped and shown outputs, and every command in between, the
\* approval comes after the review of each output that arrived and was not
\* declared as change, and signatures, all over one digest, come after the
\* approval (sign_tx.h:17-21, display.c:214-231).
ImplementsApproval == Approval!Spec

\* Every command is answered: no handler ends without its status word.
NoReplyLost == reply # "LOST"

\* What ends a call for the host; a lost reply is none of it.
Answers == StatusWords \cup {"RESET"}

\* What the answer to a call with data depends on: no change entry has a path
\* the key derivation refuses or names the end of the transaction, no entry
\* makes the review step over more outputs than outputs[] has, and the tokens
\* fit in tokens[].
AnswerDue ==
  /\ \A k \in DOMAIN ctx.change_info : /\ ctx.change_info[k].path # Refused
                                       /\ ctx.change_info[k].index # ctx.outputs_len
  /\ ctx.change_info = <<>> \/ ctx.outputs_len <= OUTPUTS_CAP
  /\ ctx.tokens_len + ctx.remaining_tokens <= TX_MAX_TOKENS

\* A call under way is answered with a status word, or ends in a reset, if the
\* user decides: whatever the split and wherever the review is, neither the
\* decoder nor the review stops without an answer (sign_tx.c:501-522,
\* display.c:214-231, 353-366).
CommandAnswered == reply = "PENDING" /\ AnswerDue ~> reply \in Answers

===============================================================================
