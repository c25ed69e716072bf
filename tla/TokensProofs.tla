----------------------------- MODULE TokensProofs -----------------------------
(* Proofs about Tokens: the inductive invariant that ties the secret in      *)
(* flash to the approvals of the user, and every invariant of the runs.      *)
EXTENDS Tokens, SequenceTheorems, TLAPS

\* A signature given out was made over the approved data with a secret that
\* the device has had, and with the present one exactly when no reset was
\* approved since.  The device keeps no record of this: it follows from when
\* the secret changes.
Provenance == \A e \in endorsed :
  /\ e.signature = Signature(e.signature.secret, e.token)
  /\ e.epoch <= epoch
  /\ e.signature.secret \in 1..secret
  /\ e.epoch = epoch <=> e.signature.secret = secret

\* What the user is asked to approve is a token.
Asked == screen = "sign" => token \in TokenData

IInv == /\ TypeOK /\ Provenance /\ Asked
        /\ AcceptedEndorsed /\ RegistryEndorsed
        /\ TokensRegisteredUnlessSpoilt /\ ShownEndorsed

-----------------------------------------------------------------------------
\* Reading the secret: a blank one becomes the first, any other stays.
LEMMA GetSecretType == TypeOK => GetSecret \in 1..MaxSecret /\ GetSecret >= secret
BY MaxSecretAssumption DEF TypeOK, GetSecret

\* A step that only makes sure there is a secret keeps every signature good.
LEMMA GetSecretStep ==
  ASSUME TypeOK, Provenance, secret' \in {secret, GetSecret}, UNCHANGED <<epoch, endorsed>>
  PROVE  secret' \in 0..MaxSecret /\ Provenance'
<1>1. secret' \in 0..MaxSecret
  BY GetSecretType DEF TypeOK
<1>2. endorsed = {} \/ secret' = secret
  BY DEF Provenance, GetSecret, TypeOK
<1> QED BY <1>1, <1>2 DEF Provenance, Signature

\* A reset leaves every signature behind.
LEMMA GenerateSecretStep ==
  ASSUME TypeOK, Provenance, secret < MaxSecret, secret' = GenerateSecret,
         epoch' = epoch + 1, UNCHANGED endorsed
  PROVE  secret' \in 0..MaxSecret /\ epoch' \in Nat /\ Provenance'
<1>1. secret' \in 0..MaxSecret /\ epoch' \in Nat
  BY MaxSecretAssumption DEF TypeOK, GenerateSecret
<1>2. ASSUME NEW e \in endorsed
      PROVE  /\ e.epoch \in Nat /\ e.epoch <= epoch
             /\ e.signature.secret \in 1..secret
             /\ e.signature = Signature(e.signature.secret, e.token)
  BY DEF Provenance, TypeOK, Endorsement
<1>3. ASSUME NEW e \in endorsed
      PROVE  /\ e.epoch <= epoch' /\ e.epoch # epoch'
             /\ e.signature.secret \in 1..secret' /\ e.signature.secret # secret'
  BY <1>2 DEF TypeOK, GenerateSecret
<1> QED BY <1>1, <1>2, <1>3 DEF Provenance, Signature

\* A signature that is accepted is one of those given out since the last
\* approved reset, for the same data.
LEMMA AcceptedIsEndorsed ==
  ASSUME TypeOK, Provenance, NEW t \in TokenData, NEW g \in Known, Accepts(t, g)
  PROVE  \E e \in endorsed : e.epoch = epoch /\ SameData(e.token, t)
<1>1. g.secret = GetSecret /\ g.message = Message(t)
  BY DEF Accepts, Signature
<1>2. g # OtherBytes
  BY <1>1, GetSecretType DEF OtherBytes
<1>3. PICK e \in endorsed : e.signature = g
  BY <1>2 DEF Known
<1>4. secret # 0 /\ e.signature.secret = secret
  BY <1>1, <1>3 DEF Provenance, TypeOK, GetSecret
<1>5. Message(e.token) = Message(t)
  <2>1. e.signature = Signature(e.signature.secret, e.token)
    BY DEF Provenance
  <2>2. e.signature.message = Message(e.token)
    BY <2>1 DEF Signature
  <2> QED BY <1>1, <1>3, <2>2
<1> QED BY <1>4, <1>5 DEF Provenance, Message, SameData

\* What a transaction keeps of a token.
LEMMA PointerType ==
  ASSUME TypeOK, tx # Nothing, NEW k \in DOMAIN tx.tokens
  PROVE  tx.tokens[k] \in Pointer
<1>1. tx.tokens \in Seq(Pointer)
  BY DEF TypeOK
<1> QED BY <1>1

\* What the user approved stays approved.
LEMMA EndorsedGrows ==
  ASSUME endorsed \subseteq endorsed', NEW uid, NEW symbol, EndorsedSymbol(uid, symbol)
  PROVE  EndorsedSymbol(uid, symbol)'
BY DEF EndorsedSymbol

-----------------------------------------------------------------------------
\* What a registry is, and that every entry of it was approved.
RegistryType(r) == /\ r.len \in 0..TX_MAX_TOKENS
                   /\ r.tokens \in [Slots -> Entry \cup {NoEntry}]
RegistryApproved(r) == \A s \in 0..(r.len - 1) :
  EndorsedSymbol(r.tokens[s].uid, r.tokens[s].symbol)

LEMMA EmptyRegistryType == RegistryType(EmptyRegistry) /\ RegistryApproved(EmptyRegistry)
<1>1. EmptyRegistry.len = 0 /\ EmptyRegistry.tokens = [s \in Slots |-> NoEntry]
  BY DEF EmptyRegistry
<1>2. EmptyRegistry.tokens \in [Slots -> Entry \cup {NoEntry}]
  BY <1>1
<1> QED BY <1>1, <1>2, TxMaxTokensAssumption DEF RegistryType, RegistryApproved

\* An entry is written behind the last one, and leaves the others alone.
LEMMA RegisteredEntry ==
  ASSUME NEW r, RegistryType(r), ~Full(r), NEW t \in TokenData
  PROVE  /\ RegistryType(Registered(r, t))
         /\ Registered(r, t).len = r.len + 1
         /\ Registered(r, t).tokens[r.len] = [uid |-> t.uid, symbol |-> t.symbol]
         /\ \A s \in 0..(r.len - 1) : Registered(r, t).tokens[s] = r.tokens[s]
<1> DEFINE new == [uid |-> t.uid, symbol |-> t.symbol]
<1>1. r.len \in Slots /\ r.len + 1 \in 0..TX_MAX_TOKENS
  BY TxMaxTokensAssumption DEF RegistryType, Full, Slots
<1>2. new \in Entry
  BY DEF Entry, Uids, Symbols
<1>3. /\ Registered(r, t).len = r.len + 1
      /\ Registered(r, t).tokens = [r.tokens EXCEPT ![r.len] = new]
  BY DEF Registered
<1>4. \A s \in 0..(r.len - 1) : s \in Slots /\ s # r.len
  <2>1. r.len \in Nat /\ r.len <= TX_MAX_TOKENS - 1
    BY <1>1, TxMaxTokensAssumption DEF Slots
  <2> QED BY <2>1, TxMaxTokensAssumption DEF Slots
<1> HIDE DEF new
<1>5. Registered(r, t).tokens \in [Slots -> Entry \cup {NoEntry}]
  BY <1>1, <1>2, <1>3 DEF RegistryType
<1>6. /\ Registered(r, t).tokens[r.len] = new
      /\ \A s \in 0..(r.len - 1) : Registered(r, t).tokens[s] = r.tokens[s]
  BY <1>1, <1>3, <1>4 DEF RegistryType
<1> QED BY <1>1, <1>3, <1>5, <1>6 DEF RegistryType, new

\* A sequence is a prefix of what begins with it.
LEMMA ConcatPrefix ==
  ASSUME NEW S, NEW s \in Seq(S), NEW t \in Seq(S)
  PROVE  IsPrefix(s, s \o t)
<1> DEFINE p == SubSeq(s, 1, Len(s))
           q == SubSeq(s \o t, 1, Len(s))
<1>1. /\ Len(s) \in Nat /\ Len(t) \in Nat /\ Len(s \o t) = Len(s) + Len(t)
      /\ \A i \in 1..Len(s) : s[i] \in S /\ (s \o t)[i] = s[i]
  BY ConcatProperties, LenProperties, ElementOfSeq
<1>2. /\ p \in Seq(S) /\ Len(p) = Len(s)
      /\ \A i \in 1..Len(s) : p[i] = s[i]
  BY <1>1, SubSeqFull
<1>3. /\ q \in Seq(S) /\ Len(q) = Len(s)
      /\ \A i \in 1..Len(s) : q[i] = s[i]
  <2>1. \A i \in 1..Len(s) : (s \o t)[i] \in S
    BY <1>1
  <2>2. /\ q \in Seq(S) /\ Len(q) = IF 1 <= Len(s) THEN Len(s) - 1 + 1 ELSE 0
        /\ \A i \in 1..(Len(s) - 1 + 1) : q[i] = (s \o t)[1 + i - 1]
    BY <1>1, <2>1, SubSeqProperties
  <2> HIDE DEF q
  <2> QED BY <1>1, <2>2
<1>4. p = q
  <2> HIDE DEF p, q
  <2> QED BY <1>2, <1>3, SeqEqual
<1> QED BY <1>1, <1>4 DEF IsPrefix

\* The symbol of a token is a prefix of its symbol and name.
LEMMA SymbolIsPrefix ==
  ASSUME NEW t \in TokenData
  PROVE  IsPrefix(t.symbol, t.symbol \o t.name)
BY TokenDataAssumption, ConcatPrefix

-----------------------------------------------------------------------------
LEMMA InitInv == Init => IInv
<1> SUFFICES ASSUME Init PROVE IInv
  OBVIOUS
<1>1. TypeOK
  <2>1. registry.len \in 0..TX_MAX_TOKENS /\ registry.tokens \in [Slots -> Entry \cup {NoEntry}]
    BY EmptyRegistryType DEF Init, RegistryType
  <2>2. secret \in 0..MaxSecret
    BY MaxSecretAssumption DEF Init
  <2> QED BY <2>1, <2>2 DEF Init, TypeOK
<1> QED BY <1>1 DEF Init, IInv, Provenance, Asked, AcceptedEndorsed, RegistryEndorsed,
     TokensRegisteredUnlessSpoilt, TokensRegistered, ShownEndorsed, EmptyRegistry

-----------------------------------------------------------------------------
(* One lemma per group of actions.                                         *)

LEMMA OnlyEraseStep == IInv /\ OnlyErase => IInv'
BY DEF OnlyErase, EraseContext, Idle, IInv, TypeOK, Provenance, Asked, AcceptedEndorsed,
   RegistryEndorsed, EndorsedSymbol, TokensRegisteredUnlessSpoilt, TokensRegistered, ShownEndorsed

LEMMA SignTokenDataStep ==
  ASSUME IInv, NEW t \in TokenData, SignTokenData(t)
  PROVE  IInv'
BY DEF SignTokenData, Idle, IInv, TypeOK, Provenance, Asked, AcceptedEndorsed,
   RegistryEndorsed, EndorsedSymbol, TokensRegisteredUnlessSpoilt, TokensRegistered, ShownEndorsed

LEMMA ApproveTokenStep == IInv /\ ApproveToken => IInv'
<1> SUFFICES ASSUME IInv, ApproveToken PROVE IInv'
  OBVIOUS
<1> DEFINE new == [epoch |-> epoch, token |-> token, signature |-> Signature(secret', token)]
<1>1. token \in TokenData /\ secret' = GetSecret /\ secret' \in 1..MaxSecret
  BY GetSecretType DEF IInv, Asked, ApproveToken
<1>2. endorsed' = endorsed \cup {new}
  BY DEF ApproveToken
<1>3. new \in Endorsement
  <2>1. Signature(secret', token) \in [secret : Nat, message : {Message(t) : t \in TokenData}]
    BY <1>1 DEF Signature
  <2> QED BY <2>1, <1>1 DEF Endorsement, IInv, TypeOK
<1>4. TypeOK'
  BY <1>1, <1>2, <1>3 DEF IInv, TypeOK, ApproveToken
<1>5. Provenance'
  <2>1. endorsed = {} \/ secret' = secret
    BY <1>1 DEF IInv, Provenance, GetSecret, TypeOK
  <2>2. epoch' = epoch /\ epoch \in Nat
    BY DEF IInv, TypeOK, ApproveToken
  <2>3. /\ new.signature = Signature(new.signature.secret, new.token)
        /\ new.epoch = epoch' /\ new.signature.secret = secret'
    BY <2>2 DEF Signature
  <2> HIDE DEF new
  <2>4. /\ new.signature = Signature(new.signature.secret, new.token)
        /\ new.epoch <= epoch'
        /\ new.signature.secret \in 1..secret'
        /\ new.epoch = epoch' <=> new.signature.secret = secret'
    BY <1>1, <2>2, <2>3
  <2>5. ASSUME NEW e \in endorsed
        PROVE  /\ e.signature = Signature(e.signature.secret, e.token)
               /\ e.epoch <= epoch'
               /\ e.signature.secret \in 1..secret'
               /\ e.epoch = epoch' <=> e.signature.secret = secret'
    BY <2>1, <2>2 DEF IInv, Provenance
  <2> QED BY <1>2, <2>4, <2>5 DEF Provenance, Signature
<1>6. endorsed \subseteq endorsed'
  BY <1>2
<1> HIDE DEF new
<1>7. AcceptedEndorsed'
  BY <1>6 DEF IInv, ApproveToken, AcceptedEndorsed, SameData
<1>8. RegistryEndorsed'
  BY <1>6 DEF IInv, ApproveToken, RegistryEndorsed, EndorsedSymbol
<1>9. TokensRegisteredUnlessSpoilt' /\ ShownEndorsed' /\ Asked'
  BY DEF IInv, ApproveToken, TokensRegisteredUnlessSpoilt, TokensRegistered, ShownEndorsed, Asked
<1> QED BY <1>4, <1>5, <1>7, <1>8, <1>9 DEF IInv

LEMMA RejectTokenStep == IInv /\ RejectToken => IInv'
BY DEF RejectToken, EraseContext, IInv, TypeOK, Provenance, Asked, AcceptedEndorsed,
   RegistryEndorsed, EndorsedSymbol, TokensRegisteredUnlessSpoilt, TokensRegistered, ShownEndorsed

LEMMA RejectOutputStep == IInv /\ RejectOutput => IInv'
BY DEF RejectOutput, EraseContext, IInv, TypeOK, Provenance, Asked, AcceptedEndorsed,
   RegistryEndorsed, EndorsedSymbol, TokensRegisteredUnlessSpoilt, TokensRegistered, ShownEndorsed

\* The history of what was accepted, after a signature was looked at.
LEMMA AcceptedStep ==
  ASSUME TypeOK, Provenance, AcceptedEndorsed, NEW t \in TokenData, NEW g \in Known,
         UNCHANGED endorsed,
         \/ accepted' = accepted
         \/ Accepts(t, g) /\ accepted' = [epoch |-> epoch, token |-> t]
  PROVE  /\ AcceptedEndorsed'
         /\ (accepted # Nothing => accepted.epoch \in Nat /\ accepted.token \in TokenData)'
<1>1. CASE accepted' = accepted
  BY <1>1 DEF AcceptedEndorsed, SameData, TypeOK
<1>2. CASE Accepts(t, g) /\ accepted' = [epoch |-> epoch, token |-> t]
  BY <1>2, AcceptedIsEndorsed DEF AcceptedEndorsed, SameData, TypeOK
<1> QED BY <1>1, <1>2

LEMMA VerifyStep ==
  ASSUME IInv, NEW t \in TokenData, NEW g \in Known, Verify(t, g)
  PROVE  IInv'
<1>1. secret' \in 0..MaxSecret /\ Provenance'
  BY GetSecretStep DEF IInv, Verify
<1>2. /\ AcceptedEndorsed'
      /\ (accepted # Nothing => accepted.epoch \in Nat /\ accepted.token \in TokenData)'
  BY AcceptedStep DEF IInv, Verify
<1>3. TypeOK'
  BY <1>1, <1>2 DEF IInv, TypeOK, Verify, EraseContext
<1>4. /\ RegistryEndorsed' /\ TokensRegisteredUnlessSpoilt' /\ ShownEndorsed' /\ Asked'
  BY DEF IInv, Verify, EraseContext, Idle, Asked, RegistryEndorsed, EndorsedSymbol,
     TokensRegisteredUnlessSpoilt, TokensRegistered, ShownEndorsed
<1> QED BY <1>1, <1>2, <1>3, <1>4 DEF IInv

\* The types of what the commands of a list of tokens may change.
ListTypes ==
  /\ registry.len \in 0..TX_MAX_TOKENS
  /\ registry.tokens \in [Slots -> Entry \cup {NoEntry}]
  /\ token \in TokenData \cup {Nothing}
  /\ tx # Nothing => /\ tx.remaining \in Byte
                     /\ tx.tokens \in Seq(Pointer)
                     /\ Len(tx.tokens) \in Byte
  /\ spoilt \in BOOLEAN

\* Steps of a list of tokens: the registry is begun anew, or it grows; the
\* context is erased, or it keeps pointing to what was there.
LEMMA RegistryStep ==
  ASSUME IInv, Idle, NEW first \in BOOLEAN, EraseIfFirst(first),
         RegistryType(registry'), RegistryApproved(registry'),
         LET r == RegistryIfFirst(first)
         IN  /\ r.len <= registry'.len
             /\ \A s \in 0..(r.len - 1) : registry'.tokens[s] = r.tokens[s],
         UNCHANGED <<screen, shown, endorsed>>
  PROVE  /\ RegistryEndorsed' /\ TokensRegisteredUnlessSpoilt' /\ ShownEndorsed' /\ Asked'
         /\ ListTypes'
<1>1. RegistryEndorsed'
  BY DEF RegistryApproved, RegistryEndorsed, EndorsedSymbol
<1>2. ShownEndorsed' /\ Asked'
  BY DEF Idle, ShownEndorsed, Asked
<1>3. CASE first
  BY <1>1, <1>2, <1>3 DEF EraseIfFirst, EraseContext, RegistryType, ListTypes,
     TokensRegisteredUnlessSpoilt, TokensRegistered
<1>4. CASE ~first
  <2>1. UNCHANGED <<token, tx, spoilt>> /\ RegistryIfFirst(first) = registry
    BY <1>4 DEF EraseIfFirst, RegistryIfFirst
  <2>2. ASSUME ~spoilt, tx # Nothing, NEW k \in DOMAIN tx.tokens
        PROVE  /\ tx.tokens[k].slot \in 0..(registry'.len - 1)
               /\ registry'.tokens[tx.tokens[k].slot].uid = tx.tokens[k].uid
    <3>1. /\ tx.tokens[k].slot \in 0..(registry.len - 1)
          /\ registry.tokens[tx.tokens[k].slot].uid = tx.tokens[k].uid
      BY <2>2 DEF IInv, TokensRegisteredUnlessSpoilt, TokensRegistered
    <3>2. /\ registry.len \in Nat /\ registry'.len \in Nat /\ registry.len <= registry'.len
          /\ registry'.tokens[tx.tokens[k].slot] = registry.tokens[tx.tokens[k].slot]
      BY <2>1, <3>1 DEF IInv, TypeOK, RegistryType
    <3> QED BY <3>1, <3>2
  <2>3. TokensRegisteredUnlessSpoilt'
    BY <2>1, <2>2 DEF TokensRegisteredUnlessSpoilt, TokensRegistered
  <2> QED BY <1>1, <1>2, <2>1, <2>3 DEF IInv, TypeOK, RegistryType, ListTypes
<1> QED BY <1>3, <1>4

LEMMA SendStep ==
  ASSUME IInv, NEW first \in BOOLEAN, NEW t \in TokenData, NEW g \in Known, Send(first, t, g)
  PROVE  IInv'
<1> DEFINE r == RegistryIfFirst(first)
<1>1. RegistryType(r) /\ RegistryApproved(r)
  BY EmptyRegistryType DEF IInv, TypeOK, RegistryEndorsed, RegistryType, RegistryApproved, RegistryIfFirst
<1>2. secret' \in 0..MaxSecret /\ Provenance'
  BY GetSecretStep DEF IInv, Send
<1>3. /\ AcceptedEndorsed'
      /\ (accepted # Nothing => accepted.epoch \in Nat /\ accepted.token \in TokenData)'
  BY AcceptedStep DEF IInv, Send
<1>4. /\ RegistryType(registry') /\ RegistryApproved(registry')
      /\ r.len <= registry'.len
      /\ \A s \in 0..(r.len - 1) : registry'.tokens[s] = r.tokens[s]
  <2>0. r.len \in Nat
    BY <1>1 DEF RegistryType
  <2> HIDE DEF r
  <2>1. CASE Accepts(t, g)
    <3>1. registry' = Registered(r, t) /\ ~Full(r)
      BY <2>1 DEF Send, r
    <3>2. /\ RegistryType(registry')
          /\ registry'.len = r.len + 1
          /\ registry'.tokens[r.len] = [uid |-> t.uid, symbol |-> t.symbol]
          /\ \A s \in 0..(r.len - 1) : registry'.tokens[s] = r.tokens[s]
      BY <1>1, <3>1, RegisteredEntry
    <3>3. EndorsedSymbol(t.uid, t.symbol)
      <4>1. PICK e \in endorsed : SameData(e.token, t)
        BY <2>1, AcceptedIsEndorsed DEF IInv
      <4>2. e.token.uid = t.uid /\ e.token.symbol \o e.token.name = t.symbol \o t.name
        BY <4>1 DEF SameData
      <4>3. IsPrefix(t.symbol, e.token.symbol \o e.token.name)
        BY <4>2, SymbolIsPrefix
      <4> QED BY <4>2, <4>3 DEF EndorsedSymbol
    <3>4. ASSUME NEW s \in 0..(registry'.len - 1)
          PROVE  EndorsedSymbol(registry'.tokens[s].uid, registry'.tokens[s].symbol)
      <4>1. CASE s = r.len
        BY <3>2, <3>3, <4>1
      <4>2. CASE s # r.len
        <5>1. s \in 0..(r.len - 1)
          BY <2>0, <3>2, <4>2
        <5> QED BY <1>1, <3>2, <5>1 DEF RegistryApproved
      <4> QED BY <4>1, <4>2
    <3> QED BY <2>0, <3>2, <3>4 DEF RegistryApproved
  <2>2. CASE ~Accepts(t, g)
    <3>1. registry' = r
      BY <2>2 DEF Send, r
    <3> QED BY <1>1, <2>0, <3>1
  <2> QED BY <2>1, <2>2
<1>5. /\ RegistryEndorsed' /\ TokensRegisteredUnlessSpoilt' /\ ShownEndorsed' /\ Asked'
      /\ ListTypes'
  <2>1. Idle /\ EraseIfFirst(first) /\ UNCHANGED <<screen, shown, endorsed>>
    BY DEF Send
  <2> QED BY <1>4, <2>1, RegistryStep
<1>6. TypeOK'
  BY <1>2, <1>3, <1>5 DEF IInv, TypeOK, ListTypes, Send
<1> QED BY <1>2, <1>3, <1>5, <1>6 DEF IInv

LEMMA SendMalformedStep ==
  ASSUME IInv, NEW first \in BOOLEAN, SendMalformed(first)
  PROVE  IInv'
<1>1. /\ RegistryType(registry') /\ RegistryApproved(registry')
      /\ registry' = RegistryIfFirst(first)
  BY EmptyRegistryType
     DEF SendMalformed, IInv, TypeOK, RegistryEndorsed, RegistryType, RegistryApproved, RegistryIfFirst
<1>2. RegistryIfFirst(first).len <= registry'.len
  BY <1>1 DEF RegistryType
<1>3. /\ RegistryEndorsed' /\ TokensRegisteredUnlessSpoilt' /\ ShownEndorsed' /\ Asked'
      /\ ListTypes'
  <2>1. Idle /\ EraseIfFirst(first) /\ UNCHANGED <<screen, shown, endorsed>>
    BY DEF SendMalformed
  <2> QED BY <1>1, <1>2, <2>1, RegistryStep
<1>4. TypeOK' /\ Provenance' /\ AcceptedEndorsed'
  BY <1>3 DEF IInv, TypeOK, ListTypes, SendMalformed, Provenance, AcceptedEndorsed
<1> QED BY <1>3, <1>4 DEF IInv

\* The registry is gone; a transaction that needs it is known to be spoilt.
LEMMA SendFullStep == IInv /\ SendFull => IInv'
<1> SUFFICES ASSUME IInv, SendFull PROVE IInv'
  OBVIOUS
<1>1. RegistryType(registry') /\ RegistryApproved(registry')
  BY EmptyRegistryType DEF SendFull
<1>2. TypeOK' /\ Provenance' /\ AcceptedEndorsed'
  BY <1>1 DEF IInv, TypeOK, SendFull, Provenance, AcceptedEndorsed, RegistryType
<1>3. RegistryEndorsed'
  BY <1>1 DEF SendFull, RegistryApproved, RegistryEndorsed, EndorsedSymbol
<1>4. TokensRegisteredUnlessSpoilt' /\ ShownEndorsed' /\ Asked'
  BY DEF SendFull, Idle, TokensRegisteredUnlessSpoilt, TokensRegistered, ShownEndorsed, Asked
<1> QED BY <1>2, <1>3, <1>4 DEF IInv

-----------------------------------------------------------------------------
LEMMA ResetStep == IInv /\ (AskReset \/ RejectReset) => IInv'
BY DEF AskReset, RejectReset, Idle, IInv, TypeOK, Provenance, Asked, AcceptedEndorsed,
   RegistryEndorsed, EndorsedSymbol, TokensRegisteredUnlessSpoilt, TokensRegistered, ShownEndorsed

LEMMA ApproveResetStep == IInv /\ ApproveReset => IInv'
<1> SUFFICES ASSUME IInv, ApproveReset PROVE IInv'
  OBVIOUS
<1>1. secret' \in 0..MaxSecret /\ epoch' \in Nat /\ Provenance'
  BY GenerateSecretStep DEF IInv, ApproveReset
<1>2. TypeOK'
  BY <1>1 DEF IInv, TypeOK, ApproveReset
<1> QED BY <1>1, <1>2 DEF IInv, ApproveReset, Asked, AcceptedEndorsed, RegistryEndorsed,
     EndorsedSymbol, TokensRegisteredUnlessSpoilt, TokensRegistered, ShownEndorsed

LEMMA BeginTxStep ==
  ASSUME IInv, NEW n \in Declared, BeginTx(n)
  PROVE  IInv'
<1>1. tx' = [remaining |-> n, tokens |-> <<>>]
  BY DEF BeginTx
<1>2. /\ tx'.remaining \in Byte /\ tx'.tokens \in Seq(Pointer)
      /\ Len(tx'.tokens) \in Byte /\ DOMAIN tx'.tokens = {}
  BY <1>1, DeclaredAssumption DEF Byte
<1> QED BY <1>2 DEF BeginTx, Idle, IInv, TypeOK, Provenance, Asked, AcceptedEndorsed,
     RegistryEndorsed, EndorsedSymbol, TokensRegisteredUnlessSpoilt, TokensRegistered, ShownEndorsed

\* Beyond tokens[] the counter is any byte, and the pointers are unknown.
LEMMA StoredType ==
  ASSUME TypeOK, tx # Nothing, NEW pointer \in Pointer, NEW len \in NextTokensLen
  PROVE  /\ Stored(pointer, len) \in Seq(Pointer)
         /\ Len(Stored(pointer, len)) = len /\ len \in Byte
<1>1. tx.tokens \in Seq(Pointer) /\ Len(tx.tokens) \in 0..255
  BY DEF TypeOK, Byte
<1> DEFINE n == Len(tx.tokens)
<1>4. /\ n < TX_MAX_TOKENS => /\ n + 1 \in 0..255 /\ (n + 1) % 256 = n + 1
                               /\ n # TX_MAX_TOKENS
      /\ (n + 1) % 256 \in 0..255
      /\ ~(n < TX_MAX_TOKENS) => \A k \in 1..255 : k <= TX_MAX_TOKENS => k \in 1..n
  <2>1. n \in 0..255
    BY <1>1
  <2> HIDE DEF n
  <2> QED BY <2>1, TxMaxTokensAssumption
<1>2. CASE Len(tx.tokens) < TX_MAX_TOKENS
  <2>1. Stored(pointer, len) = Append(tx.tokens, pointer)
    BY <1>2 DEF Stored
  <2>2. Len(tx.tokens) + 1 \in Byte
    BY <1>2, <1>4 DEF Byte
  <2>3. /\ Append(tx.tokens, pointer) \in Seq(Pointer)
        /\ Len(Append(tx.tokens, pointer)) = Len(tx.tokens) + 1
    BY <1>1
  <2>4. len = Len(tx.tokens) + 1
    BY <1>2, <1>4 DEF NextTokensLen
  <2> QED BY <2>1, <2>2, <2>3, <2>4
<1>3. CASE ~(Len(tx.tokens) < TX_MAX_TOKENS)
  <2> DEFINE at(k) == IF k <= TX_MAX_TOKENS THEN tx.tokens[k] ELSE Outside
  <2>1. Stored(pointer, len) = [k \in 1..len |-> at(k)]
    BY <1>3 DEF Stored
  <2>2. len \in Byte
    <3> DEFINE next == (Len(tx.tokens) + 1) % 256
    <3>1. next \in 0..255
      BY <1>4
    <3>2. len = next \/ len \in Overwritten
      BY DEF NextTokensLen
    <3> HIDE DEF next
    <3> QED BY <3>1, <3>2, DeclaredAssumption DEF Byte
  <2>3. \A k \in 1..len : at(k) \in Pointer
    <3>1. Outside \in Pointer
      BY DEF Outside, Pointer
    <3>2. \A k \in 1..len : k <= TX_MAX_TOKENS => tx.tokens[k] \in Pointer
      <4>1. \A k \in 1..len : k <= TX_MAX_TOKENS => k \in 1..Len(tx.tokens)
        <5>1. 1..len \subseteq 1..255
          BY <2>2 DEF Byte
        <5>2. \A k \in 1..255 : k <= TX_MAX_TOKENS => k \in 1..n
          BY <1>3, <1>4
        <5> QED BY <5>1, <5>2
      <4> QED BY <1>1, <4>1
    <3> QED BY <3>1, <3>2
  <2> HIDE DEF at
  <2>4. len \in Nat
    BY <2>2 DEF Byte
  <2> QED BY <2>1, <2>2, <2>3, <2>4
<1> QED BY <1>2, <1>3

\* A token that is found is in the registry under its uid.
LEMMA DecodeTokenStep ==
  ASSUME IInv, NEW uid \in Uids, NEW len \in NextTokensLen, DecodeToken(uid, len)
  PROVE  IInv'
<1>1. CASE Find(uid) = {}
  BY <1>1, OnlyEraseStep DEF DecodeToken, OnlyErase
<1>2. CASE Find(uid) # {}
  <2>1. PICK s \in Find(uid) :
          tx' = [remaining |-> tx.remaining - 1,
                 tokens |-> Stored([slot |-> s, uid |-> uid], len)]
    BY <1>2 DEF DecodeToken
  <2>2. /\ registry.len \in 0..TX_MAX_TOKENS /\ s \in 0..(registry.len - 1)
        /\ registry.tokens[s].uid = uid
    BY DEF Find, IInv, TypeOK
  <2>3. s \in Slots
    BY <2>2, TxMaxTokensAssumption DEF Slots
  <2> DEFINE new == [slot |-> s, uid |-> uid]
  <2>4. new \in Pointer /\ new.slot = s /\ new.uid = uid
    BY <2>3 DEF Pointer
  <2>5. tx # Nothing /\ tx.remaining \in Byte /\ tx.remaining > 0
    BY DEF DecodeToken, IInv, TypeOK
  <2>6. tx'.tokens = Stored(new, len) /\ tx'.remaining = tx.remaining - 1
    BY <2>1
  <2>7. spoilt' = (spoilt \/ Len(tx.tokens) >= TX_MAX_TOKENS) /\ UNCHANGED registry
    BY <1>2 DEF DecodeToken
  <2> HIDE DEF new
  <2>8. TypeOK'
    <3>1. tx'.tokens \in Seq(Pointer) /\ Len(tx'.tokens) \in Byte
      BY <2>4, <2>5, <2>6, StoredType DEF IInv
    <3>2. tx'.remaining \in Byte
      BY <2>5, <2>6 DEF Byte
    <3>3. spoilt' \in BOOLEAN
      BY <2>7 DEF IInv, TypeOK
    <3> QED BY <1>2, <3>1, <3>2, <3>3 DEF DecodeToken, IInv, TypeOK
  <2>9. TokensRegisteredUnlessSpoilt'
    <3>1. ASSUME ~spoilt', NEW k \in DOMAIN tx'.tokens
          PROVE  /\ tx'.tokens[k].slot \in 0..(registry.len - 1)
                 /\ registry.tokens[tx'.tokens[k].slot].uid = tx'.tokens[k].uid
      <4>1. tx.tokens \in Seq(Pointer) /\ Len(tx.tokens) \in 0..255
        BY <2>5 DEF IInv, TypeOK, Byte
      <4>2. ~spoilt /\ Len(tx.tokens) < TX_MAX_TOKENS
        <5>1. ~spoilt /\ ~(Len(tx.tokens) >= TX_MAX_TOKENS)
          BY <2>7, <3>1
        <5> QED BY <4>1, <5>1, TxMaxTokensAssumption
      <4>3. tx'.tokens = Append(tx.tokens, new)
        BY <2>6, <4>2 DEF Stored
      <4>4. /\ DOMAIN tx'.tokens = 1..(Len(tx.tokens) + 1)
            /\ \A i \in 1..Len(tx.tokens) : tx'.tokens[i] = tx.tokens[i]
            /\ tx'.tokens[Len(tx.tokens) + 1] = new
        BY <2>4, <4>1, <4>3
      <4>5. CASE k = Len(tx.tokens) + 1
        BY <2>2, <2>4, <4>4, <4>5
      <4>6. CASE k # Len(tx.tokens) + 1
        <5>1. k \in DOMAIN tx.tokens /\ tx'.tokens[k] = tx.tokens[k]
          BY <3>1, <4>1, <4>4, <4>6
        <5> QED BY <2>5, <4>2, <5>1 DEF IInv, TokensRegisteredUnlessSpoilt, TokensRegistered
      <4> QED BY <4>5, <4>6
    <3> QED BY <2>7, <3>1 DEF TokensRegisteredUnlessSpoilt, TokensRegistered
  <2>10. ShownEndorsed'
    BY <1>2 DEF DecodeToken, Idle, ShownEndorsed
  <2>11. Provenance' /\ AcceptedEndorsed' /\ RegistryEndorsed' /\ Asked'
    BY <1>2 DEF DecodeToken, Idle, IInv, Provenance, Asked, AcceptedEndorsed,
       RegistryEndorsed, EndorsedSymbol
  <2> QED BY <2>8, <2>9, <2>10, <2>11 DEF IInv
<1> QED BY <1>1, <1>2

\* What is shown is read through a pointer to a registered entry.
LEMMA ShowOutputStep ==
  ASSUME IInv, NEW k, ShowOutput(k)
  PROVE  IInv'
<1> DEFINE p == tx.tokens[k]
<1>1. tx # Nothing /\ k \in DOMAIN tx.tokens
  BY DEF ShowOutput
<1>2. p \in Pointer
  BY <1>1, PointerType DEF IInv
<1>3. PICK symbol \in SymbolsAt(p) : shown' = [uid |-> p.uid, symbol |-> symbol]
  BY DEF ShowOutput
<1> HIDE DEF p
<1>4. shown'.uid = p.uid /\ shown'.symbol = symbol
  BY <1>3
<1>5. symbol \in Seq(STRING)
  <2>1. \A x \in Symbols \cup {NoSymbol} : x \in Seq(STRING)
    <3>1. \A x \in Symbols : x \in Seq(STRING)
      BY TokenDataAssumption DEF Symbols
    <3>2. NoSymbol \in Seq(STRING)
      BY DEF NoSymbol
    <3> QED BY <3>1, <3>2
  <2>2. CASE p = Outside
    BY <1>3, <2>1, <2>2 DEF SymbolsAt
  <2>3. CASE p # Outside
    <3>1. p.slot \in Slots
      BY <1>2, <2>3 DEF Pointer
    <3>2. registry.tokens[p.slot] \in Entry \cup {NoEntry}
      BY <3>1 DEF IInv, TypeOK
    <3>3. \A e \in Entry \cup {NoEntry} : e.symbol \in Symbols \cup {NoSymbol}
      BY DEF Entry, NoEntry
    <3>4. SymbolsAt(p) = {registry.tokens[p.slot].symbol}
      BY <2>3 DEF SymbolsAt
    <3> QED BY <1>3, <2>1, <3>2, <3>3, <3>4
  <2> QED BY <2>2, <2>3
<1>6. ASSUME ~spoilt PROVE EndorsedSymbol(p.uid, symbol)
  <2>1. p.slot \in 0..(registry.len - 1) /\ registry.tokens[p.slot].uid = p.uid
    BY <1>1, <1>6 DEF IInv, TokensRegisteredUnlessSpoilt, TokensRegistered, p
  <2>2. registry.len \in Int
    BY DEF IInv, TypeOK
  <2>3. p # Outside
    BY <2>1, <2>2 DEF Outside, NoSlot
  <2>4. symbol = registry.tokens[p.slot].symbol
    BY <1>3, <2>3 DEF SymbolsAt
  <2> QED BY <2>1, <2>4 DEF IInv, RegistryEndorsed
<1>7. p.uid \in Uids \cup {NoUid}
  BY <1>2 DEF Pointer, Outside
<1>8. TypeOK'
  BY <1>4, <1>5, <1>7 DEF IInv, TypeOK, ShowOutput
<1>9. ShownEndorsed'
  BY <1>4, <1>6 DEF ShowOutput, ShownEndorsed, EndorsedSymbol
<1> QED BY <1>8, <1>9 DEF ShowOutput, IInv, Provenance, Asked, AcceptedEndorsed,
     RegistryEndorsed, EndorsedSymbol, TokensRegisteredUnlessSpoilt, TokensRegistered

LEMMA ConfirmOutputStep == IInv /\ ConfirmOutput => IInv'
BY DEF ConfirmOutput, IInv, TypeOK, Provenance, Asked, AcceptedEndorsed,
   RegistryEndorsed, EndorsedSymbol, TokensRegisteredUnlessSpoilt, TokensRegistered, ShownEndorsed

\* Everything but the secret and the history is lost, and the secret is the old
\* one, or the one that the interrupted handler has just written.
LEMMA RestartStep == IInv /\ Restart => IInv'
<1> SUFFICES ASSUME IInv, Restart PROVE IInv'
  OBVIOUS
<1>1. secret' \in 0..MaxSecret /\ epoch' \in Nat /\ Provenance'
  <2>1. CASE secret' \in {secret, GetSecret} /\ UNCHANGED epoch
    BY <2>1, GetSecretStep DEF IInv, TypeOK, Restart
  <2>2. CASE secret < MaxSecret /\ secret' = GenerateSecret /\ epoch' = epoch + 1
    BY <2>2, GenerateSecretStep DEF IInv, Restart
  <2> QED BY <2>1, <2>2 DEF Restart
<1>2. RegistryType(registry') /\ RegistryApproved(registry')
  BY EmptyRegistryType DEF Restart
<1>3. TypeOK'
  BY <1>1, <1>2 DEF IInv, TypeOK, Restart, EraseContext, RegistryType
<1>4. RegistryEndorsed'
  BY <1>2 DEF Restart, RegistryApproved, RegistryEndorsed, EndorsedSymbol
<1>5. AcceptedEndorsed' /\ TokensRegisteredUnlessSpoilt' /\ ShownEndorsed' /\ Asked'
  BY DEF IInv, Restart, EraseContext, AcceptedEndorsed, TokensRegisteredUnlessSpoilt,
     TokensRegistered, ShownEndorsed, Asked
<1> QED BY <1>1, <1>3, <1>4, <1>5 DEF IInv

-----------------------------------------------------------------------------
LEMMA NextInv == IInv /\ [Next]_vars => IInv'
<1> SUFFICES ASSUME IInv, [Next]_vars PROVE IInv'
  OBVIOUS
<1>1. CASE SignToken
  BY <1>1, SignTokenDataStep, OnlyEraseStep DEF SignToken, SignTokenDataMalformed
<1>2. CASE VerifyToken
  BY <1>2, VerifyStep, OnlyEraseStep DEF VerifyToken, VerifyMalformed
<1>3. CASE SendToken
  BY <1>3, SendStep, SendMalformedStep, SendFullStep DEF SendToken
<1>4. CASE AskReset
  BY <1>4, ResetStep
<1>5. CASE Transaction
  BY <1>5, BeginTxStep, DecodeTokenStep, ShowOutputStep, OnlyEraseStep DEF Transaction, EndTx
<1>6. CASE Button
  BY <1>6, ApproveTokenStep, RejectTokenStep, ApproveResetStep, ResetStep,
     ConfirmOutputStep, RejectOutputStep DEF Button
<1>7. CASE Restart
  BY <1>7, RestartStep
<1>8. CASE UNCHANGED vars
  BY <1>8 DEF vars, IInv, TypeOK, Provenance, Asked, AcceptedEndorsed,
     RegistryEndorsed, EndorsedSymbol, TokensRegisteredUnlessSpoilt, TokensRegistered, ShownEndorsed
<1> QED BY <1>1, <1>2, <1>3, <1>4, <1>5, <1>6, <1>7, <1>8 DEF Next

\* The inductive invariant, for any number of tokens, slots and resets.
THEOREM Invariant == Spec => []IInv
BY InitInv, NextInv, PTL DEF Spec

\* Every part of the state has its type: the registry stays within its array
\* (send_token_data.c), whatever a transaction declares and points to.
THEOREM TypeCorrect == Spec => []TypeOK
<1>1. IInv => TypeOK
  BY DEF IInv
<1> QED BY Invariant, <1>1, PTL

\* A signature is accepted only for what the user approved since the last
\* approved reset (verify_token_signature, generate_secret).
THEOREM AcceptedEndorsedHolds == Spec => []AcceptedEndorsed
<1>1. IInv => AcceptedEndorsed
  BY DEF IInv
<1> QED BY Invariant, <1>1, PTL

\* A signature given out is good until the user approves a reset: a restart in
\* the middle of a handler included (get_secret, init_secret).
THEOREM SignaturesKeptHolds == Spec => []SignaturesKept
<1>1. ASSUME IInv PROVE SignaturesKept
  <2>1. ASSUME NEW e \in endorsed, e.epoch = epoch
        PROVE  e.signature = Signature(GetSecret, e.token)
    BY <1>1, <2>1 DEF IInv, TypeOK, Provenance, GetSecret
  <2> QED BY <2>1 DEF SignaturesKept, Accepts
<1> QED BY Invariant, <1>1, PTL

\* Every entry of the registry is a token the user approved (send_token_data.c).
THEOREM RegistryEndorsedHolds == Spec => []RegistryEndorsed
<1>1. IInv => RegistryEndorsed
  BY DEF IInv
<1> QED BY Invariant, <1>1, PTL

\* What a transaction points to is in the registry under the uid it named, as
\* long as no list of tokens met the full registry and its tokens fit in
\* tokens[] (_decode_elements, sign_tx.c:318-336).
THEOREM TokensRegisteredHolds == Spec => []TokensRegisteredUnlessSpoilt
<1>1. IInv => TokensRegisteredUnlessSpoilt
  BY DEF IInv
<1> QED BY Invariant, <1>1, PTL

\* An output is shown with a symbol approved for its token (prepare_display_output,
\* display.c:276-333).
THEOREM ShownEndorsedHolds == Spec => []ShownEndorsed
<1>1. IInv => ShownEndorsed
  BY DEF IInv
<1> QED BY Invariant, <1>1, PTL

===============================================================================
