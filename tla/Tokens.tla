-------------------------------- MODULE Tokens --------------------------------
(***************************************************************************)
(* Custom tokens: the secret in flash (src/storage.c), the signatures made *)
(* with it (src/token), the registry of verified tokens, and the pointers  *)
(* into the registry that a transaction keeps while it is received         *)
(* (src/handler/sign_tx.c, src/ui/display.c).                              *)
(*                                                                         *)
(* The user approves the data of a token once and the host keeps the       *)
(* signature.  Before a transaction the host sends the tokens back, each   *)
(* with its signature; the verified ones fill the registry, and the        *)
(* transaction finds its tokens there by uid.  Secret and registry have    *)
(* different lives: the secret survives a restart and changes only in a    *)
(* reset; the registry is lost in a restart and survives a reset.          *)
(*                                                                         *)
(* A command waits for the screen it opened (see AppIo), so each handler   *)
(* and each button is one step.  The chunks of a transaction come between  *)
(* other commands, so each of its elements is a step too.                  *)
(***************************************************************************)
EXTENDS Integers, Sequences, FiniteSets, SequencesExt

CONSTANTS
  TokenData,       \* the tokens of the host
  TX_MAX_TOKENS,   \* capacity of the registry and of tokens[], 10 in the code
  Declared,        \* numbers of tokens that a transaction may declare
  Overwritten,     \* tokens_len after the pointer behind tokens[] was stored in it
  MaxSecret,       \* bound: secrets generated in the life of the device
  Nothing          \* no token, no transaction, no output

VARIABLES
  secret,    \* N_storage.secret: the nth random one, 0 when blank
  registry,  \* G_token_symbols
  token,     \* G_context.token, or Nothing
  tx,        \* what tx_info knows of tokens, or Nothing
  screen,    \* the question to the user, or "menu"
  shown,     \* the output of a custom token on the screen, or Nothing
  epoch,     \* history: resets approved
  endorsed,  \* history: the tokens approved, when, and their signatures
  accepted,  \* history: the last token whose signature was accepted, and when
  spoilt     \* history: the full registry was erased under the transaction,
             \* or its pointers ran over tokens[]

vars == <<secret, registry, token, tx, screen, shown, epoch, endorsed, accepted, spoilt>>

-----------------------------------------------------------------------------
Byte == 0..255

ASSUME TokenDataAssumption ==
  \A t \in TokenData : /\ DOMAIN t = {"uid", "symbol", "name", "version"}
                       /\ t.symbol \in Seq(STRING) /\ t.name \in Seq(STRING)
ASSUME TxMaxTokensAssumption == TX_MAX_TOKENS \in 1..254
ASSUME DeclaredAssumption == Declared \subseteq Byte /\ Overwritten \subseteq Byte
ASSUME MaxSecretAssumption == MaxSecret \in Nat \ {0}

Uids == {t.uid : t \in TokenData}
Slots == 0..(TX_MAX_TOKENS - 1)

Symbols == {t.symbol : t \in TokenData}

NoUid == "zero"
NoSymbol == <<>>
NoSlot == -1
NoEntry == [uid |-> NoUid, symbol |-> NoSymbol]
Entry == [uid : Uids, symbol : Symbols]

EmptyRegistry == [len |-> 0, tokens |-> [s \in Slots |-> NoEntry]]

\* init_token_signature_message.  Only the lengths of symbol and name are left
\* out: their bytes are written one after the other.
Message(t) == <<t.uid, t.symbol \o t.name, t.version>>

\* SHA-256 of secret and message: two of them agree when both parts do.
Signature(s, t) == [secret |-> s, message |-> Message(t)]

\* What a host can send as a signature: those it was given, or other bytes.
OtherBytes == [secret |-> 0, message |-> <<>>]
Known == {e.signature : e \in endorsed} \cup {OtherBytes}

\* Mutant: the secret is generated on every use.
AlwaysNewSecret == IF secret < MaxSecret THEN secret + 1 ELSE secret

\* get_secret: the stored one, generated if there is none.
GetSecret == IF secret = 0 THEN 1 ELSE secret

\* Mutant: the last entry of the registry, whatever its uid.
FindLast(uid) == {s \in 0..(registry.len - 1) : s = registry.len - 1}

\* find_token_registry_index, as the set of the first match if there is one.
Find(uid) == {s \in 0..(registry.len - 1) :
                /\ registry.tokens[s].uid = uid
                /\ \A r \in 0..(s - 1) : registry.tokens[r].uid # uid}

-----------------------------------------------------------------------------
Init == /\ secret = 0
        /\ registry = EmptyRegistry
        /\ token = Nothing
        /\ tx = Nothing
        /\ screen = "menu"
        /\ shown = Nothing
        /\ epoch = 0
        /\ endorsed = {}
        /\ accepted = Nothing
        /\ spoilt = FALSE

\* explicit_bzero(&G_context, sizeof(G_context))
EraseContext == token' = Nothing /\ tx' = Nothing /\ spoilt' = FALSE

Idle == screen = "menu"

\* A command that erases the context and does nothing else here.
OnlyErase == /\ Idle
             /\ EraseContext
             /\ UNCHANGED <<secret, registry, screen, shown, epoch, endorsed, accepted>>

-----------------------------------------------------------------------------
(* SIGN_TOKEN_DATA: show the token, sign it when the user approves.        *)

SignTokenData(t) == /\ Idle
                    /\ token' = t
                    /\ tx' = Nothing
                    /\ spoilt' = FALSE
                    /\ screen' = "sign"
                    /\ UNCHANGED <<secret, registry, shown, epoch, endorsed, accepted>>

\* The token does not parse; what was read of it is never used.
SignTokenDataMalformed == OnlyErase

ApproveToken ==
  /\ screen = "sign"
  /\ secret' = GetSecret
  /\ endorsed' = endorsed \cup
       {[epoch |-> epoch, token |-> token, signature |-> Signature(secret', token)]}
  /\ screen' = "menu"
  /\ UNCHANGED <<registry, token, tx, shown, epoch, accepted, spoilt>>

RejectToken == /\ screen = "sign"
               /\ EraseContext
               /\ screen' = "menu"
               /\ UNCHANGED <<secret, registry, shown, epoch, endorsed, accepted>>

-----------------------------------------------------------------------------
(* VERIFY_TOKEN_SIGNATURE and SEND_TOKEN_DATA.                             *)

\* Mutant: the signature is compared without its secret.
AcceptsAnySecret(t, signature) == signature.message = Message(t)

\* verify_token_signature
Accepts(t, signature) == signature = Signature(GetSecret, t)

Verify(t, signature) ==
  /\ Idle
  /\ secret' = GetSecret
  /\ accepted' = IF Accepts(t, signature) THEN [epoch |-> epoch, token |-> t] ELSE accepted
  /\ EraseContext
  /\ UNCHANGED <<registry, screen, shown, epoch, endorsed>>

VerifyMalformed == OnlyErase

\* Mutant: the transaction survives the registry it points into.
KeepContext(first) == UNCHANGED <<token, tx, spoilt>>

\* The first token of a list erases context and registry.
EraseIfFirst(first) == IF first THEN EraseContext ELSE UNCHANGED <<token, tx, spoilt>>
RegistryIfFirst(first) == IF first THEN EmptyRegistry ELSE registry

\* Mutant: room for one token more.
FullOffByOne(r) == r.len > TX_MAX_TOKENS

Full(r) == r.len >= TX_MAX_TOKENS

\* Mutant: the name is stored where the symbol belongs.
RegisteredName(r, t) == [len |-> r.len + 1,
                         tokens |-> [r.tokens EXCEPT ![r.len] = [uid |-> t.uid, symbol |-> t.name]]]

Registered(r, t) == [len |-> r.len + 1,
                     tokens |-> [r.tokens EXCEPT ![r.len] = [uid |-> t.uid, symbol |-> t.symbol]]]

\* The next entry, if the signature is accepted and there is room for it.
Send(first, t, signature) ==
  /\ Idle
  /\ LET r == RegistryIfFirst(first)
     IN /\ ~Full(r)
        /\ secret' = GetSecret
        /\ IF Accepts(t, signature)
           THEN registry' = Registered(r, t) /\ accepted' = [epoch |-> epoch, token |-> t]
           ELSE registry' = r /\ UNCHANGED accepted
  /\ EraseIfFirst(first)
  /\ UNCHANGED <<screen, shown, epoch, endorsed>>

SendMalformed(first) == /\ Idle
                        /\ ~Full(RegistryIfFirst(first))
                        /\ registry' = RegistryIfFirst(first)
                        /\ EraseIfFirst(first)
                        /\ UNCHANGED <<secret, screen, shown, epoch, endorsed, accepted>>

\* One token too many erases the registry, but not the context.
SendFull == /\ Idle
            /\ Full(registry)
            /\ registry' = EmptyRegistry
            /\ spoilt' = (tx # Nothing)
            /\ UNCHANGED <<secret, token, tx, screen, shown, epoch, endorsed, accepted>>

-----------------------------------------------------------------------------
(* RESET_TOKEN_SIGNATURES: a new secret, and nothing else.                 *)

AskReset == /\ Idle
            /\ screen' = "reset"
            /\ UNCHANGED <<secret, registry, token, tx, shown, epoch, endorsed, accepted, spoilt>>

\* Mutant: the reset only makes sure that there is a secret.
ResetSecret == GetSecret

\* generate_secret
GenerateSecret == secret + 1

ApproveReset == /\ screen = "reset"
                /\ secret < MaxSecret
                /\ secret' = GenerateSecret
                /\ epoch' = epoch + 1
                /\ screen' = "menu"
                /\ UNCHANGED <<registry, token, tx, shown, endorsed, accepted, spoilt>>

RejectReset == /\ screen = "reset"
               /\ screen' = "menu"
               /\ UNCHANGED <<secret, registry, token, tx, shown, epoch, endorsed, accepted, spoilt>>

-----------------------------------------------------------------------------
(* SIGN_TX, as far as it concerns tokens.                                  *)

\* Chunk 0 declares n tokens; init_sign_tx_ctx erases the context.
BeginTx(n) == /\ Idle
              /\ tx = Nothing
              /\ tx' = [remaining |-> n, tokens |-> <<>>]
              /\ token' = Nothing
              /\ spoilt' = FALSE
              /\ UNCHANGED <<secret, registry, screen, shown, epoch, endorsed, accepted>>

\* tokens[tokens_len++] = pointer: at the capacity of the array, the pointer goes
\* over tokens_len itself, before or after the increment (see SignTx).
NextTokensLen == LET next == (Len(tx.tokens) + 1) % 256
                 IN IF Len(tx.tokens) = TX_MAX_TOKENS THEN {next} \cup Overwritten ELSE {next}

\* Whatever lies behind tokens[] is no pointer into the registry.
Outside == [slot |-> NoSlot, uid |-> NoUid]

\* The pointers within tokens_len = len after pointer was stored.
Stored(pointer, len) ==
  IF Len(tx.tokens) < TX_MAX_TOKENS
  THEN Append(tx.tokens, pointer)
  ELSE [k \in 1..len |-> IF k <= TX_MAX_TOKENS THEN tx.tokens[k] ELSE Outside]

\* The next token of the transaction is looked up by its uid.
DecodeToken(uid, len) ==
  /\ Idle
  /\ tx # Nothing /\ tx.remaining > 0
  /\ len \in NextTokensLen
  /\ IF Find(uid) = {}
     THEN EraseContext
     ELSE /\ \E s \in Find(uid) :
               tx' = [remaining |-> tx.remaining - 1,
                      tokens |-> Stored([slot |-> s, uid |-> uid], len)]
          /\ spoilt' = (spoilt \/ Len(tx.tokens) >= TX_MAX_TOKENS)
          /\ UNCHANGED token
  /\ UNCHANGED <<secret, registry, screen, shown, epoch, endorsed, accepted>>

\* What is read through a pointer: any text where there is none.
SymbolsAt(pointer) == IF pointer = Outside THEN Symbols \cup {NoSymbol}
                      ELSE {registry.tokens[pointer.slot].symbol}

\* An output of the kth token is shown: its symbol is read through the pointer.
ShowOutput(k) == /\ Idle
                 /\ tx # Nothing /\ tx.remaining = 0
                 /\ k \in DOMAIN tx.tokens
                 /\ screen' = "output"
                 /\ \E symbol \in SymbolsAt(tx.tokens[k]) :
                      shown' = [uid |-> tx.tokens[k].uid, symbol |-> symbol]
                 /\ UNCHANGED <<secret, registry, token, tx, epoch, endorsed, accepted, spoilt>>

ConfirmOutput == /\ screen = "output"
                 /\ screen' = "menu"
                 /\ shown' = Nothing
                 /\ UNCHANGED <<secret, registry, token, tx, epoch, endorsed, accepted, spoilt>>

RejectOutput == /\ screen = "output"
                /\ screen' = "menu"
                /\ shown' = Nothing
                /\ EraseContext
                /\ UNCHANGED <<secret, registry, epoch, endorsed, accepted>>

\* The many ways in which the transaction ends: signed, refused, malformed, or
\* the context erased by a command about something else.
EndTx == tx # Nothing /\ OnlyErase

-----------------------------------------------------------------------------
\* The application is left, or the device loses power or its connection: in a
\* handler, that may be after the flash was written and before the answer.
Restart ==
  /\ \/ UNCHANGED <<secret, epoch>>
     \/ screen \in {"menu", "sign"} /\ secret' = GetSecret /\ UNCHANGED epoch
     \/ /\ screen = "reset" /\ secret < MaxSecret
        /\ secret' = GenerateSecret /\ epoch' = epoch + 1
  /\ registry' = EmptyRegistry
  /\ EraseContext
  /\ screen' = "menu"
  /\ shown' = Nothing
  /\ UNCHANGED <<endorsed, accepted>>

SignToken == (\E t \in TokenData : SignTokenData(t)) \/ SignTokenDataMalformed
VerifyToken == (\E t \in TokenData, g \in Known : Verify(t, g)) \/ VerifyMalformed
SendToken == \/ \E first \in BOOLEAN, t \in TokenData, g \in Known : Send(first, t, g)
             \/ \E first \in BOOLEAN : SendMalformed(first)
             \/ SendFull
Transaction == \/ \E n \in Declared : BeginTx(n)
               \/ tx # Nothing /\ \E uid \in Uids, len \in NextTokensLen : DecodeToken(uid, len)
               \/ \E k \in Byte : ShowOutput(k)
               \/ EndTx
Button == ApproveToken \/ RejectToken \/ ApproveReset \/ RejectReset \/ ConfirmOutput \/ RejectOutput

Next == SignToken \/ VerifyToken \/ SendToken \/ AskReset \/ Transaction \/ Button \/ Restart

Spec == Init /\ [][Next]_vars

-----------------------------------------------------------------------------
(* Properties.                                                             *)

Endorsement == [epoch : Nat, token : TokenData,
                signature : [secret : Nat, message : {Message(t) : t \in TokenData}]]
Pointer == [slot : Slots, uid : Uids] \cup {Outside}

\* The registry stays within its array; of a transaction no more than that its
\* counters are bytes.
TypeOK ==
  /\ secret \in 0..MaxSecret
  /\ registry.len \in 0..TX_MAX_TOKENS
  /\ registry.tokens \in [Slots -> Entry \cup {NoEntry}]
  /\ token \in TokenData \cup {Nothing}
  /\ tx # Nothing => /\ tx.remaining \in Byte
                     /\ tx.tokens \in Seq(Pointer)
                     /\ Len(tx.tokens) \in Byte
  /\ screen \in {"menu", "sign", "reset", "output"}
  /\ shown # Nothing => shown.uid \in Uids \cup {NoUid} /\ shown.symbol \in Seq(STRING)
  /\ epoch \in Nat
  /\ endorsed \subseteq Endorsement
  /\ accepted # Nothing => accepted.epoch \in Nat /\ accepted.token \in TokenData
  /\ spoilt \in BOOLEAN

\* As far as a signature tells: not where the symbol ends and the name begins.
SameData(t, u) == /\ t.uid = u.uid
                  /\ t.symbol \o t.name = u.symbol \o u.name
                  /\ t.version = u.version

\* A signature is accepted only for what the user approved since the last
\* approved reset, whatever was cut off by restarts: the device has no memory
\* of approvals but its secret (token/signature.c:63-76, storage.c:6-26).
AcceptedEndorsed == accepted # Nothing =>
  \E e \in endorsed : /\ e.epoch = accepted.epoch
                      /\ SameData(e.token, accepted.token)

\* A signature given out stays good until the user approves a reset
\* (types.h:33): no restart, first use or interrupted write loses it.
SignaturesKept == \A e \in endorsed :
  e.epoch = epoch => Accepts(e.token, e.signature)

\* A symbol that the user approved for uid; the end of the symbol and the
\* beginning of the name are not told apart (see Message).
EndorsedSymbol(uid, symbol) == \E e \in endorsed :
  e.token.uid = uid /\ IsPrefix(symbol, e.token.symbol \o e.token.name)

\* Every entry of the registry comes from a token the user approved
\* (send_token_data.c:22-44).
RegistryEndorsed == \A s \in 0..(registry.len - 1) :
  EndorsedSymbol(registry.tokens[s].uid, registry.tokens[s].symbol)

\* "these tokens are already on a global ctx" (types.h:123): what a transaction
\* points to is in the registry, with the uid that the transaction named.
TokensRegistered == tx # Nothing => \A k \in DOMAIN tx.tokens :
  /\ tx.tokens[k].slot \in 0..(registry.len - 1)
  /\ registry.tokens[tx.tokens[k].slot].uid = tx.tokens[k].uid

\* The same, as long as no SEND_TOKEN_DATA met the full registry meanwhile and
\* the tokens of the transaction fit in tokens[].
TokensRegisteredUnlessSpoilt == spoilt \/ TokensRegistered

\* An output is shown with a symbol approved for the token of the output,
\* however many commands came between approval, registration and transaction.
ShownEndorsed == spoilt \/ (screen = "output" => EndorsedSymbol(shown.uid, shown.symbol))

===============================================================================
