------------------------------ MODULE HathorApp ------------------------------
(***************************************************************************)
(* The commands of the application together: SIGN_TX (module SignTx) and   *)
(* the commands about custom tokens (module Tokens) share G_context, the   *)
(* registry of tokens and the screen (src/globals.h, src/types.h).         *)
(*                                                                         *)
(* SignTx leaves open whether a token is in the registry and what other    *)
(* commands do; Tokens leaves open how a transaction goes on.  Here each   *)
(* step is a step of one and its effect on the other.  What an output      *)
(* looks like to the user depends on both: on the pointer that SIGN_TX     *)
(* took, and on what the registry holds when the output is shown.          *)
(***************************************************************************)
EXTENDS Integers, Sequences, FiniteSets

CONSTANTS
  Keys, Refused, Txs, NoTx, FirstSizes, ChunkSizes, ZeroByte,   \* see SignTx
  TokenData, RegistrySize, MaxSecret, Nothing,                  \* see Tokens
  Overwritten, \* see both
  UidsOf       \* for each transaction, the uids of its tokens in order

VARIABLES
  ctx, pc, screen, reply, tx, approved, signed,                 \* see SignTx
  secret, registry, token, epoch, endorsed, accepted, spoilt,    \* see Tokens
  pointers,    \* the variable tx of Tokens
  question,    \* the variable screen of Tokens
  shown,       \* the output of a custom token on the screen, or Nothing
  reviewed     \* history: the outputs of custom tokens approved, as shown

\* In the code one constant, TX_MAX_TOKENS, bounds the registry and tokens[].
S == INSTANCE SignTx WITH TX_MAX_TOKENS <- RegistrySize
T == INSTANCE Tokens WITH TX_MAX_TOKENS <- RegistrySize, Declared <- 0..255,
                          tx <- pointers, screen <- question

ASSUME SignTxAssumption == /\ S!KeysAssumption /\ S!TxsAssumption /\ S!TokensAssumption
                           /\ S!SizesAssumption /\ S!ZeroByteAssumption
ASSUME TokensAssumption == /\ T!TokenDataAssumption /\ T!TxMaxTokensAssumption
                           /\ T!DeclaredAssumption /\ T!MaxSecretAssumption

ASSUME UidsAssumption == /\ DOMAIN UidsOf = Txs
                         /\ \A t \in Txs : Len(UidsOf[t]) = t.tokens

\* No transaction is told apart from any transaction.
ASSUME NothingAssumption == Nothing \notin [remaining : Nat, tokens : Seq(T!Pointer)]

signVars == <<ctx, pc, screen, reply, tx, approved, signed>>
tokenVars == <<secret, registry, token, epoch, endorsed, accepted, spoilt,
               pointers, question, shown>>
vars == <<signVars, tokenVars, reviewed>>

Init == S!Init /\ T!Init /\ reviewed = {}

-----------------------------------------------------------------------------
\* No command about tokens waits for the user, and no custom token is shown.
Quiet == question = "menu"

\* A step of SIGN_TX on a transaction: when it erases the context, the tokens
\* of the transaction go with it.
TokensFollow == IF ctx'.state = "NONE" THEN T!OnlyErase ELSE UNCHANGED tokenVars

\* The application starts again: the registry is lost as well.
RestartTokens == T!Restart /\ UNCHANGED <<secret, epoch>>

\* What the user approved of a transaction is forgotten with it.
Forgets == reviewed' = IF tx' = tx THEN reviewed ELSE {}
SameReview == UNCHANGED reviewed

\* SIGN_TX sees another command: whether it erases the context, and the screen.
Other(erases, scr) == /\ S!Idle
                      /\ IF erases
                         THEN S!Erase(scr, "OTHER")
                         ELSE S!Answer(ctx, scr, "OTHER") /\ UNCHANGED <<tx, approved, signed>>

-----------------------------------------------------------------------------
(* SIGN_TX.                                                                *)

\* Chunk 0 erases the context and declares the number of tokens.
Begin == /\ \/ \E t \in Txs, n \in FirstSizes : S!DataFirst(t, n)
            \/ \E t \in Txs, cut \in {"change", "tokens", "inputs", "outputs"} :
                 S!DataFirstTruncated(t, cut)
         /\ T!BeginTx(ctx'.remaining_tokens)
         /\ Forgets

\* Without a transaction, what follows a chunk 0 that broke off is arbitrary.
NextUids == IF tx = NoTx THEN T!Uids
            ELSE {UidsOf[tx][tx.tokens - ctx.remaining_tokens + 1]}

DecodeToken == /\ S!NextIsToken
               /\ \E uid \in NextUids, len \in S!Byte :
                    /\ T!DecodeToken(uid, len)
                    /\ IF T!Find(uid) = {} THEN S!UnknownToken ELSE S!DecodeToken(len)
               /\ Forgets

\* Mutant: the mask of the token index is too narrow.
TokenIndexOfOneBit(d) == d % 2

\* token_data & TOKEN_DATA_INDEX_MASK: 0 is HTR, else a place in tokens[].
TokenIndex(d) == d % S!TOKEN_DATA_AUTHORITY_MASK

ShownToken == IF S!Shown = S!NoOutput THEN 0 ELSE TokenIndex(tx.outputs[S!Shown + 1].token_data)

ShowOutput == /\ S!ShowOutput
              /\ IF ShownToken = 0 THEN UNCHANGED tokenVars ELSE T!ShowOutput(ShownToken)
              /\ SameReview

ConfirmOutput ==
  /\ S!ConfirmOutput
  /\ IF question = "output"
     THEN /\ T!ConfirmOutput
          /\ reviewed' = reviewed \cup {[output |-> S!Shown, as |-> shown]}
     ELSE UNCHANGED tokenVars /\ SameReview

RejectOutput == /\ S!RejectOutput
                /\ IF question = "output" THEN T!RejectOutput ELSE T!OnlyErase
                /\ Forgets

\* The rest of a transaction under way.
Proceed == /\ Quiet
           /\ \/ \E n \in ChunkSizes : S!DataNext(n)
              \/ S!DataHashFails \/ S!DataFirstTwice
              \/ S!Split \/ S!DecodeInput \/ S!InputWithData \/ S!DecodeOutput
              \/ S!InvalidOutput \/ S!ChangeMismatch \/ S!TrailingData
              \/ S!AskConfirmation \/ S!RequestTypeOverwritten \/ S!AskMoreData
              \/ S!SkipChange \/ S!AddressFails
              \/ S!ConfirmTx \/ S!RejectTx \/ S!Quit
              \/ S!SignMalformedPath \/ S!Sign
           /\ TokensFollow
           /\ Forgets

\* Calls that are refused, and the call that ends the signing.
Refuse == Quiet /\ S!SignRefused /\ UNCHANGED tokenVars /\ SameReview
End == Quiet /\ (S!DataRefused \/ S!Done) /\ T!OnlyErase /\ Forgets

SignTxFails == /\ Quiet
               /\ S!TokenFault \/ S!ChangeRefused \/ S!ShowFault \/ S!SignFails
               /\ RestartTokens
               /\ Forgets

-----------------------------------------------------------------------------
(* The commands about tokens, and the others.                              *)

\* They erase the context ...
AboutTokens == /\ \/ T!SignToken
                  \/ T!VerifyToken
                  \/ \E t \in TokenData, g \in T!Known : T!Send(TRUE, t, g)
                  \/ T!SendMalformed(TRUE)
               /\ Other(TRUE, screen)
               /\ Forgets

\* ... or leave it alone, also in the middle of a transaction.
BetweenChunks == /\ \/ \E t \in TokenData, g \in T!Known : T!Send(FALSE, t, g)
                    \/ T!SendMalformed(FALSE)
                    \/ T!SendFull
                    \/ T!AskReset
                 /\ Other(FALSE, screen)
                 /\ SameReview

\* Buttons: the screen is the menu afterwards.
Decide == /\ \/ T!ApproveToken /\ Other(FALSE, "menu")
             \/ T!RejectToken /\ Other(TRUE, "menu")
             \/ (T!ApproveReset \/ T!RejectReset) /\ Other(FALSE, "menu")
          /\ Forgets

OtherCommand == /\ Quiet
                /\ \E scr \in {screen, "menu"} :
                     \/ Other(TRUE, scr) /\ T!OnlyErase
                     \/ Other(FALSE, scr) /\ UNCHANGED tokenVars
                /\ Forgets

IoReset == S!IoReset /\ T!Restart /\ Forgets

Next == \/ Begin \/ DecodeToken \/ ShowOutput \/ ConfirmOutput \/ RejectOutput
        \/ Proceed \/ Refuse \/ End \/ SignTxFails
        \/ AboutTokens \/ BetweenChunks \/ Decide \/ OtherCommand \/ IoReset

Spec == Init /\ [][Next]_vars

-----------------------------------------------------------------------------
(* Properties.                                                             *)

\* Both views of the context agree: a transaction has pointers exactly while
\* it is received, one for each token decoded, and an output of a custom token
\* is on the screen only while SIGN_TX asks about an output (types.h:105-125).
Coupled == /\ pointers = Nothing <=> ctx.state = "NONE"
           /\ pointers # Nothing => /\ pointers.remaining = ctx.remaining_tokens
                                    /\ Len(pointers.tokens) = ctx.tokens_len
           /\ question = "output" => screen = "output" /\ reply = "PENDING"

TokenUid(i) == UidsOf[tx][tx.outputs[i + 1].token_data]

\* When a transaction can be signed, the user has seen each of its outputs of
\* a custom token under a symbol that the user approved for the very token the
\* transaction names, whatever commands came between the chunks and between
\* the approval of the token, its registration and the transaction; but for a
\* registry erased under the transaction, and for one of more tokens than
\* tokens[] holds (sign_tx.c:330-334, display.c:308-323).
ApprovedAsEndorsed ==
  ctx.state = "APPROVED" /\ ~spoilt =>
    \A i \in approved : tx.outputs[i + 1].token_data # 0 =>
      \E r \in reviewed : /\ r.output = i
                          /\ r.as.uid = TokenUid(i)
                          /\ T!EndorsedSymbol(r.as.uid, r.as.symbol)

===============================================================================
