--------------------------- MODULE HathorAppProofs ---------------------------
(* Proofs about HathorApp: its two views of the context agree, and what the  *)
(* user approved of a transaction is what the user endorsed of its tokens.   *)
EXTENDS HathorApp, TLAPS

\* The modules of the proofs about S and T.
SP == INSTANCE TxApprovalProofs WITH TX_MAX_TOKENS <- RegistrySize
TP == INSTANCE TokensProofs
        WITH TX_MAX_TOKENS <- RegistrySize, Declared <- 0..255,
             tx <- pointers, screen <- question

\* While it is received, a transaction whose tokens fit points to its own tokens,
\* in order.
Pointed == pointers # Nothing /\ tx # NoTx /\ ~spoilt =>
             /\ Len(pointers.tokens) + pointers.remaining = tx.tokens
             /\ \A k \in DOMAIN pointers.tokens : pointers.tokens[k].uid = UidsOf[tx][k]

\* The index of a token fits below the bit for authorities.
TokenDataValid == \A i \in 0..(ctx.current_output - 1) : tx.outputs[i + 1].token_data < 128

\* An output of a custom token is shown as one, with the uid the transaction names.
OnScreen ==
  /\ question = "output" => pc = "wait" /\ screen = "output"
  /\ pc = "wait" /\ screen = "output" =>
       /\ question = "output" <=> ShownToken # 0
       /\ question = "output" /\ ~spoilt => shown.uid = TokenUid(S!Shown)

\* What was approved of a transaction was approved under its token, by a symbol
\* that was endorsed for it.
Reviewed ==
  /\ tx = NoTx => reviewed = {}
  /\ spoilt \/ \A r \in reviewed : /\ r.as.uid = TokenUid(r.output)
                                   /\ T!EndorsedSymbol(r.as.uid, r.as.symbol)
  /\ \A i \in approved : tx.outputs[i + 1].token_data # 0 =>
       \E r \in reviewed : r.output = i

SignTxInv == SP!IInv /\ SP!BytesInv /\ SP!Begun /\ SP!TableDecoded
Joined == Coupled /\ Pointed /\ TokenDataValid /\ OnScreen /\ Reviewed
IInv == SignTxInv /\ TP!IInv /\ Joined

-----------------------------------------------------------------------------
(* What is proved of SignTx and of Tokens is proved of S and of T: the       *)
(* definitions are the same ones, name by name.                              *)

LEMMA SameSignTx ==
  /\ S!Init => SP!Init
  /\ [S!Next]_S!vars => [SP!Next]_SP!vars
  /\ \/ \E t \in Txs, n \in FirstSizes : S!DataFirst(t, n)
     \/ \E t \in Txs, cut \in {"change", "tokens", "inputs", "outputs"} :
          S!DataFirstTruncated(t, cut)
     => SP!Begins
  /\ \A len \in S!Byte : S!DecodeToken(len) => SP!DecodeToken(len)
  /\ S!ShowOutput => SP!ShowOutput
  /\ S!ConfirmOutput => SP!ConfirmOutput
  /\ \/ \E n \in ChunkSizes : S!DataNext(n)
     \/ S!DataHashFails \/ S!DataFirstTwice
     \/ S!Split \/ S!DecodeInput \/ S!InputWithData \/ S!DecodeOutput
     \/ S!InvalidOutput \/ S!ChangeMismatch \/ S!TrailingData
     \/ S!AskConfirmation \/ S!RequestTypeOverwritten \/ S!AskMoreData
     \/ S!SkipChange \/ S!AddressFails
     \/ S!ConfirmTx \/ S!RejectTx \/ S!Quit
     \/ S!SignMalformedPath \/ S!Sign
     => SP!Proceeds
  /\ \A scr, sw : S!Erase(scr, sw) => SP!Erase(scr, sw)
  /\ S!Shown = SP!Shown /\ S!Entered = SP!Entered
BY DEF SP!Proceeds, SP!Begins,
       S!AddressFails, S!Advance, S!AllConfirmed, S!AllShown, S!Answer, S!AskConfirmation,
       S!AskMoreData, S!BUFFER_LEN, S!Cancel, S!ChangeIndices, S!ChangeMismatch,
       S!ChangeRefused, S!ConfirmOutput, S!ConfirmTx, S!Continue, S!DataFirst,
       S!DataFirstTruncated, S!DataFirstTwice, S!DataHashFails, S!DataNext, S!DataRefused,
       S!Decode, S!DecodeInput, S!DecodeOutput, S!DecodeToken, S!Done, S!Entered, S!Erase,
       S!ExpectsData, S!Finalised, S!FirstCtx, S!FirstWrong, S!HEADER_LEN, S!Idle, S!Incr,
       S!Init, S!InputWithData, S!Invalid, S!InvalidOutput, S!IoReset, S!Next,
       S!NextIsInput, S!NextIsOutput, S!NextIsToken, S!Next_output, S!NoOutput,
       S!NothingToSkip, S!OUTPUTS_CAP, S!OtherCommand, S!OutputArrived,
       S!OutputHeadArrived, S!OutputMalformed, S!OutputSplit, S!OutputWellFormed,
       S!P2PKH_LEN, S!Quit, S!Ready, S!RejectOutput, S!RejectTx, S!Restart, S!Review,
       S!ShowFault, S!ShowOutput, S!Shown, S!Sign, S!SignFails, S!SignMalformedPath,
       S!SignRefused, S!SkipChange, S!Slots, S!Split, S!TOKEN_DATA_AUTHORITY_MASK,
       S!TOKEN_UID_LEN, S!TX_INPUT_LEN, S!TrailingData, S!UnknownToken, S!UserDecision,
       S!WrongEntries, S!ZeroCtx, S!vars, S!Byte, S!NextTokensLen, S!TokenFault,
       S!RequestTypeOverwritten, S!ShownToken, SP!Byte, SP!NextTokensLen, SP!TokenFault,
       SP!RequestTypeOverwritten, SP!ShownToken, SP!AddressFails, SP!Advance, SP!AllConfirmed,
       SP!AllShown, SP!Answer, SP!AskConfirmation, SP!AskMoreData, SP!BUFFER_LEN,
       SP!Cancel, SP!ChangeIndices, SP!ChangeMismatch, SP!ChangeRefused, SP!ConfirmOutput,
       SP!ConfirmTx, SP!Continue, SP!DataFirst, SP!DataFirstTruncated, SP!DataFirstTwice,
       SP!DataHashFails, SP!DataNext, SP!DataRefused, SP!Decode, SP!DecodeInput,
       SP!DecodeOutput, SP!DecodeToken, SP!Done, SP!Entered, SP!Erase, SP!ExpectsData,
       SP!Finalised, SP!FirstCtx, SP!FirstWrong, SP!HEADER_LEN, SP!Idle, SP!Incr, SP!Init,
       SP!InputWithData, SP!Invalid, SP!InvalidOutput, SP!IoReset, SP!Next, SP!NextIsInput,
       SP!NextIsOutput, SP!NextIsToken, SP!Next_output, SP!NoOutput, SP!NothingToSkip,
       SP!OUTPUTS_CAP, SP!OtherCommand, SP!OutputArrived, SP!OutputHeadArrived,
       SP!OutputMalformed, SP!OutputSplit, SP!OutputWellFormed, SP!P2PKH_LEN, SP!Quit,
       SP!Ready, SP!RejectOutput, SP!RejectTx, SP!Restart, SP!Review, SP!ShowFault,
       SP!ShowOutput, SP!Shown, SP!Sign, SP!SignFails, SP!SignMalformedPath,
       SP!SignRefused, SP!SkipChange, SP!Slots, SP!Split, SP!TOKEN_DATA_AUTHORITY_MASK,
       SP!TOKEN_UID_LEN, SP!TX_INPUT_LEN, SP!TrailingData, SP!UnknownToken,
       SP!UserDecision, SP!WrongEntries, SP!ZeroCtx, SP!vars

\* The same of Tokens.
LEMMA SameTokens ==
  /\ T!Init => TP!Init
  /\ [T!Next]_T!vars => [TP!Next]_TP!vars
  /\ \A uid, symbol : TP!EndorsedSymbol(uid, symbol) => T!EndorsedSymbol(uid, symbol)
BY DEF T!Accepts, T!ApproveReset, T!ApproveToken, T!AskReset, T!BeginTx, T!Button,
       T!ConfirmOutput, T!DecodeToken, T!EmptyRegistry, T!EndTx, T!EndorsedSymbol,
       T!EraseContext, T!EraseIfFirst, T!Find, T!Full, T!GenerateSecret, T!GetSecret,
       T!Idle, T!Init, T!Known, T!Message, T!Next, T!NoEntry, T!NoSymbol, T!NoUid,
       T!OnlyErase, T!OtherBytes, T!Registered, T!RegistryIfFirst, T!RejectOutput,
       T!RejectReset, T!RejectToken, T!Restart, T!Send, T!SendFull, T!SendMalformed,
       T!SendToken, T!ShowOutput, T!SignToken, T!SignTokenData, T!SignTokenDataMalformed,
       T!Signature, T!Slots, T!Transaction, T!Uids, T!Verify, T!VerifyMalformed,
       T!VerifyToken, T!vars, T!IsPrefix, T!Byte, T!NextTokensLen, T!NoSlot, T!Outside,
       T!Stored, T!Symbols, T!SymbolsAt, TP!Byte, TP!NextTokensLen, TP!NoSlot, TP!Outside,
       TP!Stored, TP!Symbols, TP!SymbolsAt, TP!Accepts, TP!ApproveReset, TP!ApproveToken,
       TP!AskReset, TP!BeginTx, TP!Button, TP!ConfirmOutput, TP!DecodeToken,
       TP!EmptyRegistry, TP!EndTx, TP!EndorsedSymbol, TP!EraseContext, TP!EraseIfFirst,
       TP!Find, TP!Full, TP!GenerateSecret, TP!GetSecret, TP!Idle, TP!Init, TP!Known,
       TP!Message, TP!Next, TP!NoEntry, TP!NoSymbol, TP!NoUid, TP!OnlyErase, TP!OtherBytes,
       TP!Registered, TP!RegistryIfFirst, TP!RejectOutput, TP!RejectReset, TP!RejectToken,
       TP!Restart, TP!Send, TP!SendFull, TP!SendMalformed, TP!SendToken, TP!ShowOutput,
       TP!SignToken, TP!SignTokenData, TP!SignTokenDataMalformed, TP!Signature, TP!Slots,
       TP!Transaction, TP!Uids, TP!Verify, TP!VerifyMalformed, TP!VerifyToken, TP!vars,
       TP!IsPrefix

\* ... and so are the assumptions about the constants.
LEMMA SameSignTxAssumptions ==
  /\ SP!KeysAssumption /\ SP!TxsAssumption /\ SP!TokensAssumption
  /\ SP!SizesAssumption /\ SP!ZeroByteAssumption
BY SignTxAssumption
   DEF S!Byte, S!Change, S!ChangeInfo, S!HEADER_LEN, S!MAX_FIRST, S!MAX_LC, S!Output,
       S!TokensAssumption, S!Transaction, SP!Byte, SP!Change, SP!ChangeInfo, SP!HEADER_LEN,
       SP!MAX_FIRST, SP!MAX_LC, SP!Output, SP!TokensAssumption, SP!Transaction

LEMMA SameTokensAssumptions ==
  /\ TP!TokenDataAssumption /\ TP!TxMaxTokensAssumption
  /\ TP!DeclaredAssumption /\ TP!MaxSecretAssumption
BY TokensAssumption DEF T!DeclaredAssumption, T!Byte, TP!DeclaredAssumption, TP!Byte

\* A step of the composition is a step of SIGN_TX: a command about tokens is
\* one of its other commands.
LEMMA StepIsSignTx == [Next]_vars => [S!Next]_S!vars
<1> SUFFICES ASSUME [Next]_vars PROVE [S!Next]_S!vars
  OBVIOUS
<1>1. CASE Begin
  BY <1>1, Zenon DEF Begin, S!Next
<1>2. CASE DecodeToken \/ ShowOutput \/ ConfirmOutput \/ RejectOutput
  BY <1>2, Zenon DEF DecodeToken, ShowOutput, ConfirmOutput, RejectOutput, S!Next, S!Decode,
     S!Review, S!UserDecision
<1>3. CASE Proceed
  BY <1>3, Zenon DEF Proceed, S!Next, S!Decode, S!Review, S!UserDecision
<1>4. CASE Refuse \/ End \/ SignTxFails \/ IoReset
  BY <1>4, Zenon DEF Refuse, End, SignTxFails, IoReset, S!Next, S!Decode, S!Review
<1>5. CASE AboutTokens \/ BetweenChunks \/ Decide \/ OtherCommand
  <2>1. \E erases \in BOOLEAN, scr \in {screen, "menu"} : Other(erases, scr)
    BY <1>5 DEF AboutTokens, BetweenChunks, Decide, OtherCommand
  <2>2. S!OtherCommand
    BY <2>1 DEF Other, S!OtherCommand
  <2> QED BY <2>2 DEF S!Next
<1>6. CASE UNCHANGED vars
  BY <1>6 DEF vars, signVars, S!vars
<1> QED BY <1>1, <1>2, <1>3, <1>4, <1>5, <1>6, Zenon DEF Next

-----------------------------------------------------------------------------
(* A step of the composition is a step of Tokens.                          *)

\* A token is looked up: one that is found belongs to a token of the host.
LEMMA FoundUid ==
  ASSUME TP!IInv, NEW uid, T!Find(uid) # {}
  PROVE  uid \in T!Uids
<1>1. PICK s \in 0..(registry.len - 1) : registry.tokens[s].uid = uid
  BY DEF T!Find
<1>2. TP!EndorsedSymbol(registry.tokens[s].uid, registry.tokens[s].symbol)
  BY <1>1 DEF TP!IInv, TP!RegistryEndorsed
<1>3. PICK e \in endorsed : e.token.uid = uid
  BY <1>1, <1>2 DEF TP!EndorsedSymbol
<1>4. e.token \in TokenData
  BY <1>3 DEF TP!IInv, TP!TypeOK, TP!Endorsement
<1> QED BY <1>3, <1>4 DEF T!Uids

\* A token is in the registry, or its transaction ends.
LEMMA DecodeTokenKinds ==
  ASSUME NEW uid, NEW len, T!DecodeToken(uid, len)
  PROVE  \/ T!Find(uid) = {} /\ T!OnlyErase
         \/ /\ T!Find(uid) # {} /\ T!Idle /\ pointers # Nothing
            /\ \E s \in T!Find(uid) :
                 pointers' = [remaining |-> pointers.remaining - 1,
                              tokens |-> T!Stored([slot |-> s, uid |-> uid], len)]
            /\ spoilt' = (spoilt \/ Len(pointers.tokens) >= RegistrySize)
            /\ UNCHANGED <<question, endorsed>>
BY DEF T!DecodeToken, T!OnlyErase

\* The first chunk declares a number of tokens in a byte.
LEMMA BeginIsTokens ==
  ASSUME SignTxInv, Begin
  PROVE  T!Next
<1>1. \E t \in Txs : ctx'.remaining_tokens \in {0, t.tokens}
  <2>1. SP!Begins
    BY SameSignTx, Zenon DEF Begin
  <2>2. SP!IInv
    BY DEF SignTxInv
  <2> QED BY <2>1, <2>2, SP!BeginFields, SameSignTxAssumptions
<1>2. \A t \in Txs : t.tokens \in 0..255
  BY SignTxAssumption DEF S!TxsAssumption, S!Transaction, S!Byte
<1>3. ctx'.remaining_tokens \in 0..255
  BY <1>1, <1>2
<1>4. T!BeginTx(ctx'.remaining_tokens)
  BY DEF Begin
<1> QED BY <1>3, <1>4 DEF T!Next, T!Transaction

\* To Tokens, a context that is erased is a command that does not parse.
LEMMA TokensErase == T!OnlyErase => T!Next
BY DEF T!Next, T!SignToken, T!SignTokenDataMalformed

LEMMA StepIsTokens ==
  ASSUME SignTxInv, TP!IInv, [Next]_vars
  PROVE  [T!Next]_T!vars
<1>1. CASE Begin
  BY <1>1, BeginIsTokens
<1>2. CASE DecodeToken
  <2>1. PICK uid \in NextUids, len \in S!Byte : T!DecodeToken(uid, len)
    BY <1>2, Zenon DEF DecodeToken
  <2>2. CASE T!Find(uid) = {}
    BY <2>1, <2>2, DecodeTokenKinds, TokensErase
  <2>3. CASE T!Find(uid) # {}
    <3>1. len \in T!NextTokensLen /\ pointers # Nothing
      BY <2>1 DEF T!DecodeToken
    <3> QED BY <2>1, <2>3, <3>1, FoundUid DEF T!Next, T!Transaction
  <2> QED BY <2>2, <2>3
<1>3. CASE ShowOutput
  <2>1. CASE UNCHANGED tokenVars
    BY <2>1 DEF tokenVars, T!vars
  <2>2. CASE T!ShowOutput(ShownToken)
    <3>1. ShownToken \in DOMAIN pointers.tokens /\ pointers # Nothing
      BY <2>2 DEF T!ShowOutput
    <3>2. ShownToken \in T!Byte
      <4> DEFINE n == Len(pointers.tokens)
      <4>1. pointers.tokens \in Seq(TP!Pointer)
        BY <3>1 DEF TP!IInv, TP!TypeOK
      <4>2. n \in 0..255
        BY <3>1 DEF TP!IInv, TP!TypeOK, TP!Byte
      <4>3. ShownToken \in 1..n
        BY <3>1, <4>1
      <4> HIDE DEF n
      <4> QED BY <4>2, <4>3 DEF T!Byte
    <3> QED BY <2>2, <3>2 DEF T!Next, T!Transaction
  <2> QED BY <1>3, <2>1, <2>2 DEF ShowOutput
<1>4. CASE ConfirmOutput \/ RejectOutput
  <2>1. T!ConfirmOutput \/ T!RejectOutput \/ T!OnlyErase \/ UNCHANGED tokenVars
    BY <1>4 DEF ConfirmOutput, RejectOutput
  <2> QED BY <2>1, TokensErase DEF tokenVars, T!vars, T!Next, T!Button
<1>5. CASE Proceed \/ Refuse \/ End \/ OtherCommand
  <2>1. T!OnlyErase \/ UNCHANGED tokenVars
    BY <1>5, Zenon DEF Proceed, Refuse, End, OtherCommand, TokensFollow
  <2> QED BY <2>1, TokensErase DEF tokenVars, T!vars
<1>6. CASE SignTxFails \/ IoReset
  BY <1>6, Zenon DEF SignTxFails, IoReset, RestartTokens, T!Next
<1>7. CASE AboutTokens \/ BetweenChunks \/ Decide
  BY <1>7, Zenon DEF AboutTokens, BetweenChunks, Decide, T!Next, T!SendToken, T!Button
<1>8. CASE UNCHANGED vars
  BY <1>8 DEF vars, tokenVars, T!vars
<1> QED BY <1>1, <1>2, <1>3, <1>4, <1>5, <1>6, <1>7, <1>8, Zenon DEF Next

-----------------------------------------------------------------------------
(* What a step does to both views: the session ends, or it goes on.          *)

\* The context is erased.
Ends == /\ ctx'.state = "NONE" /\ ctx'.current_output = 0
        /\ tx' = NoTx /\ approved' = {} /\ pointers' = Nothing
        /\ screen' # "output" /\ question' # "output"
        /\ Forgets

\* One more output may have been decoded, and the registry may be erased.
Stays == /\ ctx'.state = "NONE" <=> ctx.state = "NONE"
         /\ ctx'.remaining_tokens = ctx.remaining_tokens
         /\ ctx'.tokens_len = ctx.tokens_len
         /\ UNCHANGED <<tx, approved, pointers, reviewed>>
         /\ pc' # "wait" \/ screen' # "output"
         /\ question' # "output"
         /\ \/ ctx'.current_output = ctx.current_output
            \/ /\ ctx'.current_output = ctx.current_output + 1
               /\ tx.outputs[ctx.current_output + 1].token_data < 128
         /\ endorsed \subseteq endorsed'
         /\ spoilt => spoilt' \/ pointers = Nothing

\* Nothing is left that could disagree.
LEMMA EndsJoined ==
  ASSUME Joined, Ends
  PROVE  Joined'
<1>1. reviewed' = {}
  BY DEF Joined, Reviewed, Ends, Forgets
<1> QED BY <1>1 DEF Joined, Coupled, Pointed, TokenDataValid, OnScreen, Reviewed, Ends

\* What the user endorsed stays endorsed.
LEMMA EndorsedStays ==
  ASSUME endorsed \subseteq endorsed', NEW uid, NEW symbol, T!EndorsedSymbol(uid, symbol)
  PROVE  T!EndorsedSymbol(uid, symbol)'
BY DEF T!EndorsedSymbol

\* Without a context there is no transaction, and nothing of it was reviewed.
LEMMA NoPointersNoReview ==
  ASSUME SignTxInv, Joined, pointers = Nothing
  PROVE  tx = NoTx /\ reviewed = {}
<1>1. ctx.state = "NONE"
  BY DEF Joined, Coupled
<1>2. tx = NoTx
  BY <1>1 DEF SignTxInv, SP!IInv, SP!Session
<1> QED BY <1>2 DEF Joined, Reviewed

\* Neither a new output nor a registry erased makes the views disagree.
LEMMA StaysJoined ==
  ASSUME SignTxInv, Joined, Stays
  PROVE  Joined'
<1>1. Coupled' /\ Pointed' /\ OnScreen'
  BY DEF Joined, Coupled, Pointed, OnScreen, Stays
<1>2. TokenDataValid'
  <2>1. ctx.current_output \in Nat
    BY SP!ContextFields, SameSignTxAssumptions DEF SignTxInv, SP!IInv, SP!CtxTypes, SP!Byte
  <2>2. ASSUME NEW i \in 0..(ctx'.current_output - 1)
        PROVE  \/ i \in 0..(ctx.current_output - 1)
               \/ i = ctx.current_output /\ tx.outputs[ctx.current_output + 1].token_data < 128
    <3>1. CASE ctx'.current_output = ctx.current_output
      BY <2>2, <3>1
    <3>2. CASE /\ ctx'.current_output = ctx.current_output + 1
               /\ tx.outputs[ctx.current_output + 1].token_data < 128
      <4>1. i \in 0..ctx.current_output
        BY <2>1, <2>2, <3>2
      <4> QED BY <2>1, <3>2, <4>1
    <3> QED BY <3>1, <3>2 DEF Stays
  <2> QED BY <2>2 DEF Joined, TokenDataValid, Stays
<1>3. Reviewed'
  <2>1. /\ tx' = tx /\ reviewed' = reviewed /\ approved' = approved
        /\ endorsed \subseteq endorsed'
    BY DEF Stays
  <2>2. ASSUME ~spoilt', NEW r \in reviewed
        PROVE  r.as.uid = TokenUid(r.output) /\ T!EndorsedSymbol(r.as.uid, r.as.symbol)'
    <3>1. CASE spoilt
      BY <2>2, <3>1, NoPointersNoReview DEF Stays
    <3>2. CASE ~spoilt
      <4>1. r.as.uid = TokenUid(r.output) /\ T!EndorsedSymbol(r.as.uid, r.as.symbol)
        BY <3>2 DEF Joined, Reviewed
      <4> QED BY <2>1, <4>1, EndorsedStays
    <3> QED BY <3>1, <3>2
  <2>3. spoilt' \/ \A r \in reviewed' : /\ (r.as.uid = TokenUid(r.output))'
                                       /\ T!EndorsedSymbol(r.as.uid, r.as.symbol)'
    BY <2>1, <2>2 DEF TokenUid
  <2>4. (tx = NoTx => reviewed = {}) /\ \A i \in approved :
          tx.outputs[i + 1].token_data # 0 => \E r \in reviewed : r.output = i
    BY DEF Joined, Reviewed
  <2> QED BY <2>1, <2>3, <2>4 DEF Reviewed
<1> QED BY <1>1, <1>2, <1>3 DEF Joined

\* An erased context, on both sides.
LEMMA ErasedEnds ==
  ASSUME NEW scr, NEW sw, S!Erase(scr, sw), scr # "output",
         pointers' = Nothing, question' # "output", Forgets
  PROVE  Ends
BY DEF S!Erase, S!Answer, S!ZeroCtx, Ends

\* Tokens forgets the transaction, and shows no output.
LEMMA TokensErased ==
  T!OnlyErase \/ T!Restart \/ T!RejectOutput \/ T!RejectToken =>
    pointers' = Nothing /\ question' # "output"
BY DEF T!OnlyErase, T!Idle, T!Restart, T!RejectOutput, T!RejectToken, T!EraseContext

\* A command finds the device with nothing to decide.
LEMMA IdleScreen ==
  ASSUME SignTxInv, S!Idle
  PROVE  pc = "wait" /\ screen # "output" /\ ctx \in SP!Context
BY DEF SignTxInv, SP!IInv, SP!TypeOK, SP!Phases, SP!Idle, S!Idle

-----------------------------------------------------------------------------
(* The steps of SIGN_TX.                                                     *)

\* Chunks, elements, the review and the signature.
LEMMA ProceedJoined ==
  ASSUME SignTxInv, Joined, Proceed
  PROVE  Joined'
<1>1. SP!Proceeds /\ question = "menu" /\ TokensFollow /\ Forgets
  BY SameSignTx, Zenon DEF Proceed, Quiet
<1>2. SP!Proceeded \/ SP!Ended
  BY <1>1, SP!ProceedKinds, SameSignTxAssumptions DEF SignTxInv
<1>3. CASE SP!Ended
  <2>1. /\ ctx'.state = "NONE" /\ ctx'.current_output = 0
        /\ tx' = NoTx /\ approved' = {} /\ screen' # "output"
    BY <1>3 DEF SP!Ended, SP!Erase, SP!Answer, SP!ZeroCtx
  <2>2. pointers' = Nothing /\ question' # "output"
    BY <1>1, <2>1, TokensErased DEF TokensFollow
  <2> QED BY <1>1, <2>1, <2>2, EndsJoined DEF Ends
<1>4. CASE SP!Proceeded
  <2>1. UNCHANGED tokenVars /\ reviewed' = reviewed
    BY <1>1, <1>4 DEF SP!Proceeded, TokensFollow, Forgets
  <2>2. /\ ctx'.remaining_tokens = ctx.remaining_tokens
        /\ ctx'.tokens_len = ctx.tokens_len
    BY <1>4 DEF SP!Proceeded, SP!TokenFields
  <2>3. \/ ctx'.current_output = ctx.current_output
        \/ /\ ctx'.current_output = ctx.current_output + 1
           /\ tx.outputs[ctx.current_output + 1].token_data < 128
    BY <1>4 DEF SP!Proceeded, SP!Next_output, SP!TOKEN_DATA_AUTHORITY_MASK
  <2>4. Stays
    BY <1>1, <1>4, <2>1, <2>2, <2>3 DEF SP!Proceeded, Stays, tokenVars
  <2> QED BY <2>4, StaysJoined
<1> QED BY <1>2, <1>3, <1>4

\* A call that is refused leaves all of it.
LEMMA RefuseJoined ==
  ASSUME SignTxInv, Joined, Refuse
  PROVE  Joined'
<1>1. /\ S!Idle /\ ctx' = S!Entered /\ screen' = screen /\ question = "menu"
      /\ UNCHANGED <<tx, approved>> /\ UNCHANGED tokenVars /\ UNCHANGED reviewed
  BY DEF Refuse, Quiet, SameReview, S!SignRefused, S!Answer
<1>2. screen # "output" /\ ctx \in SP!Context
  BY <1>1, IdleScreen
<1>3. SP!Within(ctx')
  BY <1>1, <1>2, SameSignTx, SP!EnteredWithin, SameSignTxAssumptions
<1>4. /\ ctx'.state = ctx.state /\ ctx'.current_output = ctx.current_output
      /\ ctx'.remaining_tokens = ctx.remaining_tokens /\ ctx'.tokens_len = ctx.tokens_len
  BY <1>3 DEF SP!Within, SP!TokenFields
<1>5. Stays
  BY <1>1, <1>2, <1>4 DEF Stays, tokenVars
<1> QED BY <1>5, StaysJoined

\* Whatever ends a transaction ends it for both.
LEMMA EndJoined ==
  ASSUME SignTxInv, Joined, End \/ SignTxFails \/ IoReset \/ RejectOutput
  PROVE  Joined'
<1>1. \E sw : S!Erase("menu", sw)
  BY Zenon DEF End, SignTxFails, IoReset, RejectOutput, S!DataRefused, S!Done, S!TokenFault,
     S!ChangeRefused, S!ShowFault, S!SignFails, S!IoReset, S!RejectOutput, S!Restart, S!Cancel
<1>2. pointers' = Nothing /\ question' # "output" /\ Forgets
  BY TokensErased, Zenon DEF End, SignTxFails, IoReset, RejectOutput, RestartTokens
<1> QED BY <1>1, <1>2, ErasedEnds, EndsJoined

\* A view of a transaction is no absence of one.
LEMMA PointersNotNothing ==
  ASSUME NEW n \in Nat, NEW s \in Seq(T!Pointer)
  PROVE  [remaining |-> n, tokens |-> s] # Nothing
BY NothingAssumption

\* Chunk 0 finds no transaction, and leaves one without tokens.
LEMMA BeginJoined ==
  ASSUME SignTxInv, Joined, Begin
  PROVE  Joined'
<1>1. /\ tx = NoTx /\ ctx'.state # "NONE" /\ ctx'.tokens_len = 0 /\ ctx'.current_output = 0
      /\ tx' = tx => UNCHANGED approved
      /\ tx' # tx => approved' = {}
      /\ pc' # "wait" \/ screen' # "output"
      /\ \E t \in Txs : ctx'.remaining_tokens \in {0, t.tokens}
      /\ tx' # NoTx => ctx'.remaining_tokens = tx'.tokens
  <2>1. SP!Begins
    BY SameSignTx, Zenon DEF Begin
  <2> QED BY <2>1, SP!BeginFields, SameSignTxAssumptions DEF SignTxInv
<1>2. /\ pointers' = [remaining |-> ctx'.remaining_tokens, tokens |-> <<>>]
      /\ question' = "menu" /\ Forgets
  BY DEF Begin, T!BeginTx, T!Idle
<1>3. ctx'.remaining_tokens \in Nat
  <2>1. \A t \in Txs : t.tokens \in 0..255
    BY SignTxAssumption DEF S!TxsAssumption, S!Transaction, S!Byte
  <2> QED BY <1>1, <2>1
<1>4. pointers' # Nothing
  <2>1. <<>> \in Seq(T!Pointer)
    OBVIOUS
  <2> QED BY <1>2, <1>3, <2>1, PointersNotNothing
<1>5. reviewed' = {} /\ approved' = {}
  BY <1>1, <1>2 DEF Forgets, Joined, Reviewed, SignTxInv, SP!Begun
<1>6. pointers'.remaining = ctx'.remaining_tokens /\ pointers'.tokens = <<>>
  BY <1>2
<1>7. Coupled' /\ Pointed' /\ OnScreen'
  BY <1>1, <1>2, <1>3, <1>4, <1>6 DEF Coupled, Pointed, OnScreen
<1>8. TokenDataValid' /\ Reviewed'
  BY <1>1, <1>5 DEF TokenDataValid, Reviewed
<1> QED BY <1>7, <1>8 DEF Joined

\* The pointers after one more was stored.
LEMMA StoredPointers ==
  ASSUME TP!IInv, pointers # Nothing, NEW p \in T!Pointer, NEW len \in T!NextTokensLen
  PROVE  T!Stored(p, len) \in Seq(T!Pointer) /\ Len(T!Stored(p, len)) = len
<1>1. T!Pointer = TP!Pointer /\ T!NextTokensLen = TP!NextTokensLen
  BY DEF T!Pointer, TP!Pointer, T!Uids, TP!Uids, T!Slots, TP!Slots, T!Outside, TP!Outside,
     T!NoSlot, TP!NoSlot, T!NoUid, TP!NoUid, T!NextTokensLen, TP!NextTokensLen
<1>2. T!Stored(p, len) = TP!Stored(p, len)
  BY DEF T!Stored, TP!Stored, T!Outside, TP!Outside, T!NoSlot, TP!NoSlot, T!NoUid, TP!NoUid
<1>3. TP!TypeOK
  BY DEF TP!IInv
<1> QED BY <1>1, <1>2, <1>3, TP!StoredType, SameTokensAssumptions

\* The next token gets the next pointer, to an entry with its uid.
LEMMA DecodeTokenJoined ==
  ASSUME SignTxInv, TP!IInv, Joined, DecodeToken
  PROVE  Joined'
<1>1. PICK uid \in NextUids, len \in S!Byte :
        /\ T!DecodeToken(uid, len)
        /\ IF T!Find(uid) = {} THEN S!UnknownToken ELSE S!DecodeToken(len)
  BY Zenon DEF DecodeToken
<1>2. Forgets
  BY DEF DecodeToken
<1>3. CASE T!Find(uid) = {}
  <2>1. S!Erase("menu", "INVALID_TX")
    BY <1>1, <1>3 DEF S!UnknownToken, S!Invalid, S!Cancel
  <2>2. T!OnlyErase
    BY <1>1, <1>3, DecodeTokenKinds
  <2> QED BY <1>2, <2>1, <2>2, TokensErased, ErasedEnds, EndsJoined
<1>4. CASE T!Find(uid) # {}
  <2>1. /\ T!Idle /\ pointers # Nothing
        /\ spoilt' = (spoilt \/ Len(pointers.tokens) >= RegistrySize)
        /\ UNCHANGED <<question, endorsed>>
        /\ \E s \in T!Find(uid) :
             pointers' = [remaining |-> pointers.remaining - 1,
                          tokens |-> T!Stored([slot |-> s, uid |-> uid], len)]
    BY <1>1, <1>4, DecodeTokenKinds
  <2>2. PICK s \in T!Find(uid) :
             pointers' = [remaining |-> pointers.remaining - 1,
                          tokens |-> T!Stored([slot |-> s, uid |-> uid], len)]
    BY <2>1
  <2> DEFINE p == [slot |-> s, uid |-> uid]
  <2>3. /\ ctx.state # "NONE" /\ ctx'.state # "NONE"
        /\ UNCHANGED <<tx, approved>>
        /\ pc' # "wait" \/ screen' # "output"
        /\ ctx'.current_output = ctx.current_output
        /\ ctx'.remaining_tokens = ctx.remaining_tokens - 1
        /\ ctx'.tokens_len = len /\ len \in SP!NextTokensLen
    <3>1. SP!DecodeToken(len)
      BY <1>1, <1>4, SameSignTx
    <3>2. SP!IInv
      BY DEF SignTxInv
    <3>3. len \in SP!Byte
      BY <1>1 DEF S!Byte, SP!Byte
    <3> QED BY <3>1, <3>2, <3>3, SP!TokenProceeds, SameSignTxAssumptions
  <2>4. p \in T!Pointer
    <3>1. uid \in T!Uids
      BY <1>4, FoundUid
    <3>2. s \in 0..(registry.len - 1) /\ registry.len \in 0..RegistrySize
      BY DEF T!Find, TP!IInv, TP!TypeOK
    <3>3. RegistrySize \in Nat
      BY TokensAssumption DEF T!TxMaxTokensAssumption
    <3> QED BY <3>1, <3>2, <3>3 DEF T!Pointer, T!Slots
  <2>5. /\ pointers.tokens \in Seq(T!Pointer) /\ pointers.remaining \in 0..255
        /\ pointers.remaining > 0
    BY <1>1, <1>4, <2>1 DEF TP!IInv, TP!TypeOK, TP!Byte, T!Pointer, TP!Pointer, T!DecodeToken,
       T!Uids, TP!Uids, T!Slots, TP!Slots, T!Outside, TP!Outside, T!NoSlot, TP!NoSlot, T!NoUid, TP!NoUid
  <2>6. /\ pointers'.remaining = pointers.remaining - 1
        /\ pointers'.tokens = T!Stored(p, len)
        /\ T!Stored(p, len) \in Seq(T!Pointer)
        /\ Len(pointers'.tokens) = len
        /\ pointers' # Nothing
    <3>1. pointers' = [remaining |-> pointers.remaining - 1, tokens |-> T!Stored(p, len)]
      BY <2>2
    <3> HIDE DEF p
    <3>2. T!Stored(p, len) \in Seq(T!Pointer) /\ Len(T!Stored(p, len)) = len
      <4>1. len \in T!NextTokensLen
        BY <1>1 DEF T!DecodeToken
      <4> QED BY <2>1, <2>4, <4>1, StoredPointers
    <3>3. pointers.remaining - 1 \in Nat
      <4> DEFINE r == pointers.remaining
      <4>1. r \in 0..255 /\ r > 0
        BY <2>5
      <4> HIDE DEF r
      <4>2. r - 1 \in Nat
        BY <4>1
      <4> QED BY <4>2 DEF r
    <3> QED BY <3>1, <3>2, <3>3, PointersNotNothing
  <2> HIDE DEF p
  <2>7. /\ pointers.remaining = ctx.remaining_tokens
        /\ Len(pointers.tokens) = ctx.tokens_len
    BY <2>1 DEF Joined, Coupled
  <2>8. Coupled'
    <3>1. Len(pointers'.tokens) = ctx'.tokens_len
      BY <2>3, <2>6
    <3>2. pointers'.remaining = ctx'.remaining_tokens
      BY <2>3, <2>6, <2>7
    <3> QED BY <2>1, <2>3, <2>6, <3>1, <3>2 DEF Coupled, T!Idle
  <2>9. Pointed'
    <3>1. SUFFICES ASSUME tx # NoTx, ~spoilt'
                   PROVE  /\ Len(pointers'.tokens) + pointers'.remaining = tx.tokens
                          /\ \A k \in DOMAIN pointers'.tokens :
                               pointers'.tokens[k].uid = UidsOf[tx][k]
      BY <2>3 DEF Pointed
    <3>2. ~spoilt /\ ~(Len(pointers.tokens) >= RegistrySize)
      BY <2>1, <3>1
    <3>3. /\ Len(pointers.tokens) + pointers.remaining = tx.tokens
          /\ \A k \in DOMAIN pointers.tokens : pointers.tokens[k].uid = UidsOf[tx][k]
      BY <2>1, <3>1, <3>2 DEF Joined, Pointed
    <3> DEFINE n == Len(pointers.tokens)
               r == pointers.remaining
    <3>4. RegistrySize \in Nat /\ n \in Nat /\ r \in Nat
      <4>1. n \in Nat
        <5>1. pointers.tokens \in Seq(T!Pointer)
          BY <2>5
        <5> QED BY <5>1
      <4>2. RegistrySize \in Nat
        BY TokensAssumption DEF T!TxMaxTokensAssumption
      <4>3. r \in 0..255
        BY <2>5
      <4> HIDE DEF n, r
      <4> QED BY <4>1, <4>2, <4>3
    <3>5. pointers'.tokens = Append(pointers.tokens, p)
      <4>1. Len(pointers.tokens) < RegistrySize
        BY <3>2, <3>4
      <4> QED BY <2>6, <4>1 DEF T!Stored
    <3>6. /\ DOMAIN pointers'.tokens = 1..(Len(pointers.tokens) + 1)
          /\ Len(pointers'.tokens) = Len(pointers.tokens) + 1
          /\ DOMAIN pointers.tokens = 1..Len(pointers.tokens)
          /\ \A k \in 1..Len(pointers.tokens) : pointers'.tokens[k] = pointers.tokens[k]
          /\ pointers'.tokens[Len(pointers.tokens) + 1] = p
      BY <2>4, <2>5, <3>5
    <3>7. uid = UidsOf[tx][Len(pointers.tokens) + 1]
      <4>1. tx.tokens - ctx.remaining_tokens + 1 = Len(pointers.tokens) + 1
        <5>1. n + r = tx.tokens /\ ctx.remaining_tokens = r
          BY <2>7, <3>3
        <5> HIDE DEF n, r
        <5>2. tx.tokens - r + 1 = n + 1
          BY <3>4, <5>1
        <5> QED BY <5>1, <5>2 DEF n
      <4> QED BY <1>1, <3>1, <4>1 DEF NextUids
    <3>8. ASSUME NEW k \in DOMAIN pointers'.tokens
          PROVE  pointers'.tokens[k].uid = UidsOf[tx][k]
      <4>1. CASE k = Len(pointers.tokens) + 1
        BY <3>6, <3>7, <4>1 DEF p
      <4>2. CASE k # Len(pointers.tokens) + 1
        <5>1. k \in 1..Len(pointers.tokens)
          BY <3>4, <3>6, <3>8, <4>2
        <5> QED BY <3>3, <3>6, <5>1
      <4> QED BY <4>1, <4>2
    <3>9. Len(pointers'.tokens) + pointers'.remaining = tx.tokens
      <4>1. n + r = tx.tokens /\ Len(pointers'.tokens) = n + 1 /\ pointers'.remaining = r - 1
        BY <2>6, <3>3, <3>6
      <4> HIDE DEF n, r
      <4> QED BY <3>4, <4>1
    <3> QED BY <3>8, <3>9
  <2>10. TokenDataValid' /\ OnScreen'
    BY <2>1, <2>3 DEF Joined, TokenDataValid, OnScreen, T!Idle
  <2>11. Reviewed'
    <3>1. reviewed' = reviewed
      BY <1>2, <2>3 DEF Forgets
    <3>2. spoilt => spoilt'
      BY <2>1
    <3> QED BY <2>1, <2>3, <3>1, <3>2 DEF Joined, Reviewed, TokenUid, T!EndorsedSymbol
  <2> QED BY <2>8, <2>9, <2>10, <2>11 DEF Joined
<1> QED BY <1>3, <1>4

\* The index of a token on the screen is its token data.
LEMMA ShownTokenData ==
  ASSUME SignTxInv, Joined, pc = "show" \/ (pc = "wait" /\ screen = "output"),
         S!Shown # S!NoOutput
  PROVE  /\ tx # NoTx
         /\ ShownToken = tx.outputs[S!Shown + 1].token_data
<1>1. /\ tx \in Txs
      /\ S!Shown \in 0..(ctx.current_output - 1)
      /\ \A i \in 0..(ctx.current_output - 1) : tx.outputs[i + 1].token_data \in 0..255
  BY SP!ShownDecoded, SameSignTx, SameSignTxAssumptions DEF SignTxInv, SP!NoOutput, S!NoOutput, SP!Byte
<1>2. tx # NoTx
  BY <1>1, SignTxAssumption DEF S!TxsAssumption
<1>3. /\ tx.outputs[S!Shown + 1].token_data \in 0..255
      /\ tx.outputs[S!Shown + 1].token_data < 128
  BY <1>1 DEF Joined, TokenDataValid
<1> DEFINE d == tx.outputs[S!Shown + 1].token_data
<1>4. ShownToken = d % 128
  BY DEF ShownToken, TokenIndex, S!TOKEN_DATA_AUTHORITY_MASK
<1>5. d \in 0..127
  BY <1>3
<1> HIDE DEF d
<1>6. d % 128 = d
  BY <1>5
<1> QED BY <1>2, <1>4, <1>6 DEF d

\* An output is shown as one of the token that the transaction names.
LEMMA ShowOutputJoined ==
  ASSUME SignTxInv, Joined, ShowOutput
  PROVE  Joined'
<1>1. /\ pc = "show" /\ pc' = "wait" /\ screen' = "output"
      /\ UNCHANGED <<ctx, reply, tx, approved>> /\ UNCHANGED reviewed
  BY DEF ShowOutput, SameReview, S!ShowOutput, S!NothingToSkip
<1>2. reply' = "PENDING" /\ question # "output"
  BY <1>1 DEF SignTxInv, SP!IInv, SP!Phases, Joined, OnScreen
<1>3. /\ UNCHANGED <<pointers, endorsed, spoilt>>
      /\ question' = "output" <=> ShownToken # 0
      /\ ShownToken # 0 => /\ ShownToken \in DOMAIN pointers.tokens
                           /\ pointers # Nothing
                           /\ shown'.uid = pointers.tokens[ShownToken].uid
  BY <1>2 DEF ShowOutput, tokenVars, T!ShowOutput
<1>4. S!Shown' = S!Shown /\ ShownToken' = ShownToken
  BY <1>1 DEF ShownToken, S!Shown
<1>5. ASSUME ShownToken # 0, ~spoilt
      PROVE  shown'.uid = TokenUid(S!Shown)
  <2>1. S!Shown # S!NoOutput
    BY <1>5 DEF ShownToken
  <2>2. tx # NoTx /\ ShownToken = tx.outputs[S!Shown + 1].token_data
    BY <1>1, <2>1, ShownTokenData
  <2> QED BY <1>3, <1>5, <2>2 DEF Joined, Pointed, TokenUid
<1>6. TokenUid(S!Shown)' = TokenUid(S!Shown)
  BY <1>1, <1>4 DEF TokenUid
<1>7. OnScreen'
  BY <1>1, <1>3, <1>4, <1>5, <1>6 DEF OnScreen
<1>8. Coupled' /\ Pointed' /\ TokenDataValid'
  BY <1>1, <1>2, <1>3 DEF Joined, Coupled, Pointed, TokenDataValid
<1>9. Reviewed'
  BY <1>1, <1>3 DEF Joined, Reviewed, TokenUid, T!EndorsedSymbol
<1> QED BY <1>7, <1>8, <1>9 DEF Joined

\* Approving an output of a custom token records what was on the screen.
LEMMA ConfirmOutputReviewed ==
  ASSUME SignTxInv, TP!IInv, Joined, ConfirmOutput
  PROVE  Reviewed'
<1>1. /\ pc = "wait" /\ screen = "output" /\ ctx.state # "NONE" /\ UNCHANGED tx
      /\ approved' = IF S!Shown = S!NoOutput THEN approved ELSE approved \cup {S!Shown}
  <2>1. SP!ConfirmOutput
    BY SameSignTx DEF ConfirmOutput
  <2> QED BY <2>1, SP!ConfirmWithin, SameSignTx, SameSignTxAssumptions
          DEF SignTxInv, SP!NoOutput, S!NoOutput
<1>2. UNCHANGED <<endorsed, spoilt>>
  BY DEF ConfirmOutput, T!ConfirmOutput, tokenVars
<1>3. reviewed' = reviewed \cup (IF question = "output"
                                 THEN {[output |-> S!Shown, as |-> shown]} ELSE {})
  BY DEF ConfirmOutput, SameReview
<1>4. ASSUME question = "output"
      PROVE  /\ tx # NoTx
             /\ ~spoilt => /\ shown.uid = TokenUid(S!Shown)
                           /\ T!EndorsedSymbol(shown.uid, shown.symbol)
  <2>1. (~spoilt => shown.uid = TokenUid(S!Shown)) /\ ShownToken # 0
    BY <1>1, <1>4 DEF Joined, OnScreen
  <2>2. spoilt \/ TP!EndorsedSymbol(shown.uid, shown.symbol)
    BY <1>4 DEF TP!IInv, TP!ShownEndorsed
  <2>3. S!Shown # S!NoOutput
    BY <2>1 DEF ShownToken
  <2> QED BY <1>1, <2>1, <2>2, <2>3, ShownTokenData, SameTokens
<1>5. tx' = NoTx => reviewed' = {}
  BY <1>1, <1>3, <1>4 DEF Joined, Reviewed
<1>6. spoilt \/ \A r \in reviewed' : /\ r.as.uid = TokenUid(r.output)
                                     /\ T!EndorsedSymbol(r.as.uid, r.as.symbol)
  BY <1>3, <1>4 DEF Joined, Reviewed
<1>7. ASSUME NEW i \in approved', tx.outputs[i + 1].token_data # 0
      PROVE  \E r \in reviewed' : r.output = i
  <2>1. CASE i \in approved
    BY <1>3, <1>7, <2>1 DEF Joined, Reviewed
  <2>2. CASE i \notin approved
    <3>1. i = S!Shown /\ S!Shown # S!NoOutput
      BY <1>1, <1>7, <2>2
    <3>2. ShownToken # 0
      BY <1>1, <1>7, <3>1, ShownTokenData
    <3>3. question = "output"
      BY <1>1, <3>2 DEF Joined, OnScreen
    <3>4. [output |-> S!Shown, as |-> shown] \in reviewed'
      BY <1>3, <3>3
    <3> QED BY <3>1, <3>4
  <2> QED BY <2>1, <2>2
<1> QED BY <1>1, <1>2, <1>5, <1>6, <1>7 DEF Reviewed, TokenUid, T!EndorsedSymbol

\* The review goes on with the next output.
LEMMA ConfirmOutputJoined ==
  ASSUME SignTxInv, TP!IInv, Joined, ConfirmOutput
  PROVE  Joined'
<1>1. SP!Within(ctx') /\ UNCHANGED tx /\ pc' = "show"
  <2>1. SP!ConfirmOutput
    BY SameSignTx DEF ConfirmOutput
  <2> QED BY <2>1, SP!ConfirmWithin, SameSignTxAssumptions DEF SignTxInv
<1>2. /\ ctx'.state = ctx.state /\ ctx'.current_output = ctx.current_output
      /\ ctx'.remaining_tokens = ctx.remaining_tokens /\ ctx'.tokens_len = ctx.tokens_len
  BY <1>1 DEF SP!Within, SP!TokenFields
<1>3. question' # "output" /\ UNCHANGED <<pointers, spoilt>>
  BY DEF ConfirmOutput, T!ConfirmOutput, tokenVars
<1>4. Coupled' /\ Pointed' /\ TokenDataValid' /\ OnScreen'
  BY <1>1, <1>2, <1>3 DEF Joined, Coupled, Pointed, TokenDataValid, OnScreen
<1> QED BY <1>4, ConfirmOutputReviewed DEF Joined

-----------------------------------------------------------------------------
(* The steps of the other commands.                                          *)

\* A command that erases the context of SIGN_TX ...
LEMMA OtherErases ==
  ASSUME SignTxInv, Joined, NEW scr \in {screen, "menu"}, Other(TRUE, scr),
         pointers' = Nothing, question' # "output", Forgets
  PROVE  Joined'
<1>1. S!Idle /\ S!Erase(scr, "OTHER")
  BY DEF Other
<1>2. scr # "output"
  BY <1>1, IdleScreen
<1> QED BY <1>1, <1>2, ErasedEnds, EndsJoined

\* ... or leaves it alone.
LEMMA OtherKeeps ==
  ASSUME SignTxInv, Joined, NEW scr \in {screen, "menu"}, Other(FALSE, scr),
         UNCHANGED pointers, question' # "output", Forgets \/ UNCHANGED reviewed,
         endorsed \subseteq endorsed', spoilt => spoilt' \/ pointers = Nothing
  PROVE  Joined'
<1>1. S!Idle /\ ctx' = ctx /\ screen' = scr /\ UNCHANGED <<tx, approved>>
  BY DEF Other, S!Answer
<1>2. scr # "output"
  BY <1>1, IdleScreen
<1>3. Stays
  BY <1>1, <1>2 DEF Stays, Forgets
<1> QED BY <1>3, StaysJoined

\* Commands about tokens that erase the context, and those that do not.
LEMMA AboutTokensJoined ==
  ASSUME SignTxInv, Joined, AboutTokens
  PROVE  Joined'
<1>1. pointers' = Nothing /\ question' # "output"
  BY DEF AboutTokens, T!SignToken, T!SignTokenData, T!SignTokenDataMalformed, T!VerifyToken,
     T!Verify, T!VerifyMalformed, T!Send, T!SendMalformed, T!EraseIfFirst, T!EraseContext,
     T!OnlyErase, T!Idle
<1> QED BY <1>1, OtherErases DEF AboutTokens

LEMMA BetweenChunksJoined ==
  ASSUME SignTxInv, Joined, BetweenChunks
  PROVE  Joined'
<1>1. /\ UNCHANGED <<pointers, endorsed>> /\ question' # "output"
      /\ spoilt => spoilt' \/ pointers = Nothing
  <2>1. CASE \E t \in TokenData, g \in T!Known : T!Send(FALSE, t, g)
    BY <2>1 DEF T!Send, T!EraseIfFirst, T!Idle
  <2>2. CASE T!SendMalformed(FALSE) \/ T!AskReset
    <3>1. T!SendMalformed(FALSE) => question' = "menu" /\ UNCHANGED <<pointers, spoilt, endorsed>>
      BY DEF T!SendMalformed, T!EraseIfFirst, T!Idle
    <3>2. T!AskReset => question' = "reset" /\ UNCHANGED <<pointers, spoilt, endorsed>>
      BY DEF T!AskReset
    <3>3. UNCHANGED <<pointers, spoilt, endorsed>> /\ question' # "output"
      BY <2>2, <3>1, <3>2
    <3> QED BY <3>3
  <2>3. CASE T!SendFull
    <3>1. spoilt' = (pointers # Nothing)
      BY <2>3 DEF T!SendFull
    <3>2. UNCHANGED <<pointers, endorsed>> /\ question' # "output"
      BY <2>3 DEF T!SendFull, T!Idle
    <3>3. spoilt' \/ pointers = Nothing
      BY <3>1
    <3> QED BY <3>2, <3>3
  <2> QED BY <2>1, <2>2, <2>3 DEF BetweenChunks
<1> QED BY <1>1, OtherKeeps DEF BetweenChunks, SameReview

\* The user decides about a token or about a reset.
LEMMA DecideJoined ==
  ASSUME SignTxInv, Joined, Decide
  PROVE  Joined'
<1>1. CASE T!RejectToken /\ Other(TRUE, "menu")
  BY <1>1, TokensErased, OtherErases DEF Decide
<1>2. CASE (T!ApproveToken \/ T!ApproveReset \/ T!RejectReset) /\ Other(FALSE, "menu")
  <2>1. /\ UNCHANGED <<pointers, spoilt>> /\ question' # "output"
        /\ endorsed \subseteq endorsed'
    BY <1>2 DEF T!ApproveToken, T!ApproveReset, T!RejectReset
  <2> QED BY <1>2, <2>1, OtherKeeps DEF Decide
<1> QED BY <1>1, <1>2 DEF Decide

\* The commands about keys and addresses.
LEMMA OtherCommandJoined ==
  ASSUME SignTxInv, Joined, OtherCommand
  PROVE  Joined'
<1>1. PICK scr \in {screen, "menu"} : \/ Other(TRUE, scr) /\ T!OnlyErase
                                      \/ Other(FALSE, scr) /\ UNCHANGED tokenVars
  BY DEF OtherCommand
<1>2. CASE Other(TRUE, scr) /\ T!OnlyErase
  BY <1>2, TokensErased, OtherErases DEF OtherCommand
<1>3. CASE Other(FALSE, scr) /\ UNCHANGED tokenVars
  BY <1>3, OtherKeeps DEF OtherCommand, Quiet, tokenVars
<1> QED BY <1>1, <1>2, <1>3

-----------------------------------------------------------------------------
(* The invariant.                                                           *)

LEMMA InitInv == Init => IInv
<1> SUFFICES ASSUME Init PROVE IInv
  OBVIOUS
<1>1. SP!Init /\ TP!Init
  BY SameSignTx, SameTokens DEF Init
<1>2. SignTxInv
  BY <1>1, SP!InitInv, SP!InitBytes, SP!InitApproval, SameSignTxAssumptions DEF SignTxInv
<1>3. TP!IInv
  BY <1>1, TP!InitInv, SameTokensAssumptions
<1>4. Joined
  <2>1. /\ ctx.state = "NONE" /\ ctx.current_output = 0 /\ tx = NoTx /\ approved = {}
        /\ pointers = Nothing /\ screen = "menu" /\ question = "menu" /\ reviewed = {}
    BY DEF Init, S!Init, S!ZeroCtx, T!Init
  <2> QED BY <2>1 DEF Joined, Coupled, Pointed, TokenDataValid, OnScreen, Reviewed
<1> QED BY <1>2, <1>3, <1>4 DEF IInv

\* Each view is kept by its own step, and then they agree.
LEMMA NextInv == IInv /\ [Next]_vars => IInv'
<1> SUFFICES ASSUME IInv, [Next]_vars PROVE IInv'
  OBVIOUS
<1> USE DEF IInv
<1>1. SignTxInv'
  <2>1. [SP!Next]_SP!vars
    BY StepIsSignTx, SameSignTx
  <2> QED BY <2>1, SP!NextInv, SP!NextBytes, SP!NextBegun, SP!NextTable, SameSignTxAssumptions
          DEF SignTxInv
<1>2. TP!IInv'
  <2>1. [TP!Next]_TP!vars
    BY StepIsTokens, SameTokens
  <2> QED BY <2>1, TP!NextInv, SameTokensAssumptions
<1>3. Joined'
  <2>1. CASE Begin \/ DecodeToken \/ ShowOutput \/ ConfirmOutput
    BY <2>1, BeginJoined, DecodeTokenJoined, ShowOutputJoined, ConfirmOutputJoined
  <2>2. CASE Proceed \/ Refuse \/ End \/ SignTxFails \/ IoReset \/ RejectOutput
    BY <2>2, ProceedJoined, RefuseJoined, EndJoined
  <2>3. CASE AboutTokens \/ BetweenChunks \/ Decide \/ OtherCommand
    BY <2>3, AboutTokensJoined, BetweenChunksJoined, DecideJoined, OtherCommandJoined
  <2>4. CASE UNCHANGED vars
    BY <2>4 DEF vars, signVars, tokenVars, Joined, Coupled, Pointed, TokenDataValid, OnScreen,
       Reviewed, ShownToken, S!Shown, TokenUid, T!EndorsedSymbol
  <2> QED BY <2>1, <2>2, <2>3, <2>4, Zenon DEF Next
<1> QED BY <1>1, <1>2, <1>3

\* The two views of the context, the registry, the endorsements and the review
\* stay coupled through every command (globals.h, types.h:105-125).
THEOREM Invariant == Spec => []IInv
<1>1. Init => IInv
  BY InitInv
<1>2. IInv /\ [Next]_vars => IInv'
  BY NextInv
<1> QED BY <1>1, <1>2, PTL DEF Spec

\* A transaction has pointers into the registry exactly while it is received,
\* one for each token decoded (types.h:105-125).
THEOREM CoupledHolds == Spec => []Coupled
<1>1. IInv => Coupled
  BY DEF IInv, Joined
<1> QED BY <1>1, Invariant, PTL

\* When a transaction can be signed, each output of a custom token was seen
\* under a symbol endorsed for its token, through every command in between,
\* unless the registry was erased under it, or its tokens ran over tokens[]
\* (sign_tx.c:330-334, display.c:308-323).
THEOREM ApprovedAsEndorsedHolds == Spec => []ApprovedAsEndorsed
<1>1. IInv => ApprovedAsEndorsed
  BY DEF IInv, Joined, Reviewed, ApprovedAsEndorsed
<1> QED BY <1>1, Invariant, PTL

\* Every command of the application is a step of SIGN_TX as SignTx describes
\* it, so that what is proved of SignTx holds in the whole application.
THEOREM ImplementsSignTx == Spec => S!Spec
<1>1. Init => S!Init
  BY DEF Init
<1>2. [Next]_vars => [S!Next]_S!vars
  BY StepIsSignTx
<1> QED BY <1>1, <1>2, PTL DEF Spec, S!Spec

\* It is a step of Tokens as well: the pointers that SIGN_TX takes, its two
\* views of an output and every way it ends are among those Tokens allows.
THEOREM ImplementsTokens == Spec => T!Spec
<1>1. Init => T!Init
  BY DEF Init
<1>2. IInv /\ [Next]_vars => [T!Next]_T!vars
  BY StepIsTokens DEF IInv
<1> QED BY <1>1, <1>2, Invariant, PTL DEF Spec, T!Spec

===============================================================================
