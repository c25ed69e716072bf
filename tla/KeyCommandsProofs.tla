--------------------------- MODULE KeyCommandsProofs ---------------------------
(* Proofs about KeyCommands: no key stays in memory, and every answer belongs  *)
(* to the path of its command, whichever call of the operating system fails.   *)
EXTENDS KeyCommands, TLAPS

Routines == {"xpub", "address", "show", "change", "sign"}

CallNames == {"derive", "init_private", "init_public", "copy", "copy_chain", "derive_parent",
              "compress", "hash", "copy_fingerprint", "checksum", "show", "finish",
              "finish_twice", "sign", "end"}

\* The calls of a routine, in order.
Program(r) == CASE r = "xpub" -> DeriveXpub
                [] r = "address" -> DeriveAddress
                [] r = "show" -> ShowAddress
                [] r = "change" -> VerifyChange
                [] r = "sign" -> SignTx

\* What is left of a routine is an end of its program.
Rest(r, calls) == /\ calls \in Seq(CallNames)
                  /\ Len(calls) \in 1..Len(Program(r))
                  /\ \A j \in 1..Len(calls) :
                       calls[j] = Program(r)[Len(Program(r)) - Len(calls) + j]

-----------------------------------------------------------------------------
\* The programs, written out.
LEMMA Programs ==
  /\ Program("xpub") = <<"derive", "init_private", "init_public", "copy", "copy_chain",
                         "derive_parent", "init_private", "init_public", "compress", "hash",
                         "copy_fingerprint", "end">>
  /\ Program("address") = <<"derive", "init_private", "init_public", "copy", "end">>
  /\ Program("show") = <<"derive", "init_private", "init_public", "compress", "hash",
                         "checksum", "show", "end">>
  /\ Program("change") = <<"derive", "init_private", "init_public", "compress", "hash", "end">>
  /\ Program("sign") = <<"derive", "init_private", "finish", "finish_twice", "sign", "end">>
<1>1. Program("xpub") = DeriveXpub /\ Program("address") = DeriveAddress
  BY DEF Program
<1>2. Program("show") = ShowAddress /\ Program("change") = VerifyChange /\ Program("sign") = SignTx
  BY DEF Program
<1> QED BY <1>1, <1>2 DEF DeriveXpub, DeriveAddress, ShowAddress, VerifyChange, SignTx,
           GetKey, GetPubkeyHash


LEMMA ProgramLengths ==
  /\ Len(Program("xpub")) = 12 /\ Len(Program("address")) = 5
  /\ Len(Program("show")) = 8 /\ Len(Program("change")) = 6
  /\ Len(Program("sign")) = 6
<1>1. Len(Program("xpub")) = 12
  BY Programs
<1>2. Len(Program("address")) = 5
  BY Programs
<1>3. Len(Program("show")) = 8
  BY Programs
<1>4. Len(Program("change")) = 6
  BY Programs
<1>5. Len(Program("sign")) = 6
  BY Programs
<1> QED BY <1>1, <1>2, <1>3, <1>4, <1>5

\* The calls still to make, by their number.
LEMMA RestHead ==
  ASSUME NEW r, NEW calls, Rest(r, calls)
  PROVE  /\ calls \in Seq(CallNames) /\ calls # <<>>
         /\ Len(calls) \in 1..Len(Program(r))
         /\ Head(calls) = Program(r)[Len(Program(r)) - Len(calls) + 1]
BY DEF Rest

\* The next call is the one of its place in the program.
Place(calls, n, call) == Len(calls) = n /\ Head(calls) = call

LEMMA XpubRest ==
  ASSUME NEW calls, Rest("xpub", calls)
  PROVE  \/ Place(calls, 12, "derive") \/ Place(calls, 11, "init_private")
         \/ Place(calls, 10, "init_public") \/ Place(calls, 9, "copy")
         \/ Place(calls, 8, "copy_chain") \/ Place(calls, 7, "derive_parent")
         \/ Place(calls, 6, "init_private") \/ Place(calls, 5, "init_public")
         \/ Place(calls, 4, "compress") \/ Place(calls, 3, "hash")
         \/ Place(calls, 2, "copy_fingerprint") \/ Place(calls, 1, "end")
<1> DEFINE n == Len(calls)
<1>1. Len(Program("xpub")) = 12
  BY Programs
<1>2. n \in 1..12 /\ Head(calls) = Program("xpub")[13 - n]
  <2>1. n \in 1..12 /\ Head(calls) = Program("xpub")[12 - n + 1]
    BY <1>1, RestHead
  <2>2. 12 - n + 1 = 13 - n
    BY <2>1
  <2> QED BY <2>1, <2>2
<1> HIDE DEF n
<1>3. \/ n = 1 \/ n = 2 \/ n = 3 \/ n = 4 \/ n = 5 \/ n = 6 \/ n = 7 \/ n = 8 \/ n = 9 \/ n = 10 \/ n = 11 \/ n = 12
  BY <1>2
<1>4. \/ n = 12 /\ Head(calls) = "derive"
      \/ n = 11 /\ Head(calls) = "init_private"
      \/ n = 10 /\ Head(calls) = "init_public"
      \/ n = 9 /\ Head(calls) = "copy"
      \/ n = 8 /\ Head(calls) = "copy_chain"
      \/ n = 7 /\ Head(calls) = "derive_parent"
      \/ n = 6 /\ Head(calls) = "init_private"
      \/ n = 5 /\ Head(calls) = "init_public"
      \/ n = 4 /\ Head(calls) = "compress"
      \/ n = 3 /\ Head(calls) = "hash"
      \/ n = 2 /\ Head(calls) = "copy_fingerprint"
      \/ n = 1 /\ Head(calls) = "end"
  BY <1>2, <1>3, Programs
<1> QED BY <1>4 DEF n, Place

LEMMA AddressRest ==
  ASSUME NEW calls, Rest("address", calls)
  PROVE  \/ Place(calls, 5, "derive") \/ Place(calls, 4, "init_private")
         \/ Place(calls, 3, "init_public") \/ Place(calls, 2, "copy")
         \/ Place(calls, 1, "end")
<1> DEFINE n == Len(calls)
<1>1. Len(Program("address")) = 5
  BY Programs
<1>2. n \in 1..5 /\ Head(calls) = Program("address")[6 - n]
  <2>1. n \in 1..5 /\ Head(calls) = Program("address")[5 - n + 1]
    BY <1>1, RestHead
  <2>2. 5 - n + 1 = 6 - n
    BY <2>1
  <2> QED BY <2>1, <2>2
<1> HIDE DEF n
<1>3. \/ n = 1 \/ n = 2 \/ n = 3 \/ n = 4 \/ n = 5
  BY <1>2
<1>4. \/ n = 5 /\ Head(calls) = "derive"
      \/ n = 4 /\ Head(calls) = "init_private"
      \/ n = 3 /\ Head(calls) = "init_public"
      \/ n = 2 /\ Head(calls) = "copy"
      \/ n = 1 /\ Head(calls) = "end"
  BY <1>2, <1>3, Programs
<1> QED BY <1>4 DEF n, Place

LEMMA ShowRest ==
  ASSUME NEW calls, Rest("show", calls)
  PROVE  \/ Place(calls, 8, "derive") \/ Place(calls, 7, "init_private")
         \/ Place(calls, 6, "init_public") \/ Place(calls, 5, "compress")
         \/ Place(calls, 4, "hash") \/ Place(calls, 3, "checksum")
         \/ Place(calls, 2, "show") \/ Place(calls, 1, "end")
<1> DEFINE n == Len(calls)
<1>1. Len(Program("show")) = 8
  BY Programs
<1>2. n \in 1..8 /\ Head(calls) = Program("show")[9 - n]
  <2>1. n \in 1..8 /\ Head(calls) = Program("show")[8 - n + 1]
    BY <1>1, RestHead
  <2>2. 8 - n + 1 = 9 - n
    BY <2>1
  <2> QED BY <2>1, <2>2
<1> HIDE DEF n
<1>3. \/ n = 1 \/ n = 2 \/ n = 3 \/ n = 4 \/ n = 5 \/ n = 6 \/ n = 7 \/ n = 8
  BY <1>2
<1>4. \/ n = 8 /\ Head(calls) = "derive"
      \/ n = 7 /\ Head(calls) = "init_private"
      \/ n = 6 /\ Head(calls) = "init_public"
      \/ n = 5 /\ Head(calls) = "compress"
      \/ n = 4 /\ Head(calls) = "hash"
      \/ n = 3 /\ Head(calls) = "checksum"
      \/ n = 2 /\ Head(calls) = "show"
      \/ n = 1 /\ Head(calls) = "end"
  BY <1>2, <1>3, Programs
<1> QED BY <1>4 DEF n, Place

LEMMA ChangeRest ==
  ASSUME NEW calls, Rest("change", calls)
  PROVE  \/ Place(calls, 6, "derive") \/ Place(calls, 5, "init_private")
         \/ Place(calls, 4, "init_public") \/ Place(calls, 3, "compress")
         \/ Place(calls, 2, "hash") \/ Place(calls, 1, "end")
<1> DEFINE n == Len(calls)
<1>1. Len(Program("change")) = 6
  BY Programs
<1>2. n \in 1..6 /\ Head(calls) = Program("change")[7 - n]
  <2>1. n \in 1..6 /\ Head(calls) = Program("change")[6 - n + 1]
    BY <1>1, RestHead
  <2>2. 6 - n + 1 = 7 - n
    BY <2>1
  <2> QED BY <2>1, <2>2
<1> HIDE DEF n
<1>3. \/ n = 1 \/ n = 2 \/ n = 3 \/ n = 4 \/ n = 5 \/ n = 6
  BY <1>2
<1>4. \/ n = 6 /\ Head(calls) = "derive"
      \/ n = 5 /\ Head(calls) = "init_private"
      \/ n = 4 /\ Head(calls) = "init_public"
      \/ n = 3 /\ Head(calls) = "compress"
      \/ n = 2 /\ Head(calls) = "hash"
      \/ n = 1 /\ Head(calls) = "end"
  BY <1>2, <1>3, Programs
<1> QED BY <1>4 DEF n, Place

LEMMA SignRest ==
  ASSUME NEW calls, Rest("sign", calls)
  PROVE  \/ Place(calls, 6, "derive") \/ Place(calls, 5, "init_private")
         \/ Place(calls, 4, "finish") \/ Place(calls, 3, "finish_twice")
         \/ Place(calls, 2, "sign") \/ Place(calls, 1, "end")
<1> DEFINE n == Len(calls)
<1>1. Len(Program("sign")) = 6
  BY Programs
<1>2. n \in 1..6 /\ Head(calls) = Program("sign")[7 - n]
  <2>1. n \in 1..6 /\ Head(calls) = Program("sign")[6 - n + 1]
    BY <1>1, RestHead
  <2>2. 6 - n + 1 = 7 - n
    BY <2>1
  <2> QED BY <2>1, <2>2
<1> HIDE DEF n
<1>3. \/ n = 1 \/ n = 2 \/ n = 3 \/ n = 4 \/ n = 5 \/ n = 6
  BY <1>2
<1>4. \/ n = 6 /\ Head(calls) = "derive"
      \/ n = 5 /\ Head(calls) = "init_private"
      \/ n = 4 /\ Head(calls) = "finish"
      \/ n = 3 /\ Head(calls) = "finish_twice"
      \/ n = 2 /\ Head(calls) = "sign"
      \/ n = 1 /\ Head(calls) = "end"
  BY <1>2, <1>3, Programs
<1> QED BY <1>4 DEF n, Place

LEMMA RestNext ==
  ASSUME NEW r, NEW calls, Rest(r, calls), Len(calls) # 1, Len(Program(r)) \in Nat
  PROVE  Rest(r, Tail(calls)) /\ Len(Tail(calls)) = Len(calls) - 1
<1> DEFINE n == Len(calls)
           p == Len(Program(r))
<1>1. calls \in Seq(CallNames) /\ n \in 2..p /\ p \in Nat
  <2>1. calls \in Seq(CallNames) /\ n \in 1..p /\ n # 1 /\ p \in Nat
    BY RestHead
  <2> HIDE DEF n, p
  <2> QED BY <2>1
<1>2. Tail(calls) \in Seq(CallNames) /\ Len(Tail(calls)) = n - 1
  BY <1>1
<1>3. ASSUME NEW j \in 1..(n - 1) PROVE Tail(calls)[j] = Program(r)[p - (n - 1) + j]
  <2>1. Tail(calls)[j] = calls[j + 1]
    BY <1>1
  <2>2. calls[j + 1] = Program(r)[p - n + (j + 1)]
    BY <1>1 DEF Rest
  <2>3. p - n + (j + 1) = p - (n - 1) + j
    BY <1>1
  <2> QED BY <2>1, <2>2, <2>3
<1>4. n - 1 \in 1..p
  BY <1>1
<1> QED BY <1>2, <1>3, <1>4 DEF Rest

LEMMA LastCall ==
  ASSUME NEW r \in Routines, NEW calls, Rest(r, calls)
  PROVE  /\ Len(Program(r)) \in Nat
         /\ Len(calls) = 1 => Head(calls) = "end"
<1>1. Len(Program(r)) \in Nat /\ Program(r)[Len(Program(r))] = "end"
  <2>1. /\ Program("xpub")[12] = "end" /\ Program("address")[5] = "end"
        /\ Program("show")[8] = "end" /\ Program("change")[6] = "end"
        /\ Program("sign")[6] = "end"
    BY Programs
  <2> QED BY <2>1, ProgramLengths DEF Routines
<1>2. Len(calls) = 1 => Head(calls) = Program(r)[Len(Program(r)) - 1 + 1]
  BY RestHead
<1>3. Len(Program(r)) - 1 + 1 = Len(Program(r))
  BY <1>1
<1> QED BY <1>1, <1>2, <1>3

-----------------------------------------------------------------------------
(* The inductive invariant.                                                *)

Contexts == [state : {"NONE", "RECV_DATA", "APPROVED"}, path : Paths \cup {<<>>},
             raw_public_key : OrZero({Raw(path) : path \in Known}),
             chain_code : OrZero({ChainCode(path) : path \in Known}),
             fingerprint : OrZero({PubkeyHash(path) : path \in Known}),
             digest : OrZero({"once", "twice"})]

Stacks == [raw_privkey : OrZero(Known), private_key : OrZero(Known),
           public_key : OrZero(PublicKeys),
           chain_code : OrZero({ChainCode(path) : path \in Known}),
           hash : OrZero({hash160(key) : key \in PublicKeys})]

Changes == [path : Paths, hash : {PubkeyHash(path) : path \in Paths},
            verdict : {"none", "accepted", "refused"}]

Types == /\ ctx \in Contexts /\ stack \in Stacks /\ error \in BOOLEAN
         /\ routine \in Routines \cup {"none"}
         /\ g_address \in OrZero({Address(PubkeyHash(path)) : path \in Known})
         /\ screen \in {"menu", "xpub", "address"}

\* A routine goes through its program, or has failed and is at its end.
InOrder == Running => /\ routine \in Routines
                      /\ IF error THEN todo = <<"end">> ELSE Rest(routine, todo)

\* A routine works for the command that was received last.
Targets == Running => /\ screen = "menu" /\ target \in Paths
                      /\ routine # "change" => target = asked
                      /\ routine = "change" => change \in Changes /\ change.path = target

Works == Running /\ ~error
Left == Len(todo)

\* Whose key the routine works on: GET_XPUB goes on to the parent.
Owner == IF routine = "xpub" /\ Left <= 6 THEN Parent(target) ELSE target

\* What the next call finds was left there by the calls before it.
KeyMade ==
  Works => /\ At("init_private") => stack.raw_privkey = Owner
           /\ At("init_public") => stack.private_key = Owner
           /\ At("copy") \/ At("compress") => stack.public_key = Raw(Owner)
           /\ At("hash") => stack.public_key = Compressed(Raw(Owner))
           /\ At("copy_fingerprint") \/ At("checksum") \/ At("show") =>
                stack.hash = PubkeyHash(Owner)
           /\ routine = "change" /\ At("end") => stack.hash = PubkeyHash(target)
           /\ routine = "show" /\ At("end") => g_address = Address(PubkeyHash(target))
           /\ routine = "sign" /\ Left <= 4 => stack.private_key = target

XpubMade ==
  Works /\ routine = "xpub" =>
    /\ Left <= 11 => target \in Derivable
    /\ Left \in 8..11 => stack.chain_code = ChainCode(target)
    /\ Left <= 8 => ctx.raw_public_key = Raw(target)
    /\ Left <= 7 => ctx.chain_code = ChainCode(target)
    /\ Left = 1 => ctx.fingerprint = PubkeyHash(Parent(target))

\* A digest that is hashed once only is a routine's that goes on, or fails and
\* restarts the application.
DigestMade ==
  /\ ctx.digest \notin {Zero, "twice"} =>
       Running /\ routine = "sign" /\ (error \/ At("finish_twice"))
  /\ Works /\ routine = "sign" /\ Left <= 2 => ctx.digest = "twice"

Erasing == /\ stack.raw_privkey # Zero => Works /\ At("init_private")
           /\ Running /\ routine = "sign" => stack.public_key = Zero

Verdicts ==
  /\ seen # Zero => seen.address = Address(PubkeyHash(seen.path))
  /\ change # Zero => /\ change.verdict = "accepted" => change.hash = PubkeyHash(change.path)
                      /\ change.verdict = "refused" => change.hash # PubkeyHash(change.path)

IInv == /\ Types /\ InOrder /\ Targets /\ KeyMade /\ XpubMade /\ DigestMade /\ Erasing
        /\ KeysErased /\ AnswersPath /\ Verdicts

-----------------------------------------------------------------------------
(* The calls in their order.                                               *)

\* The routine r goes from one call to the next.
Move(r, n, call, next) == /\ routine = r /\ Left = n /\ Head(todo) = call
                          /\ Left' = n - 1 /\ Head(todo') = next

Moved ==
  \/ Move("xpub", 12, "derive", "init_private")
  \/ Move("xpub", 11, "init_private", "init_public")
  \/ Move("xpub", 10, "init_public", "copy")
  \/ Move("xpub", 9, "copy", "copy_chain")
  \/ Move("xpub", 8, "copy_chain", "derive_parent")
  \/ Move("xpub", 7, "derive_parent", "init_private")
  \/ Move("xpub", 6, "init_private", "init_public")
  \/ Move("xpub", 5, "init_public", "compress")
  \/ Move("xpub", 4, "compress", "hash")
  \/ Move("xpub", 3, "hash", "copy_fingerprint")
  \/ Move("xpub", 2, "copy_fingerprint", "end")
  \/ Move("address", 5, "derive", "init_private")
  \/ Move("address", 4, "init_private", "init_public")
  \/ Move("address", 3, "init_public", "copy")
  \/ Move("address", 2, "copy", "end")
  \/ Move("show", 8, "derive", "init_private")
  \/ Move("show", 7, "init_private", "init_public")
  \/ Move("show", 6, "init_public", "compress")
  \/ Move("show", 5, "compress", "hash")
  \/ Move("show", 4, "hash", "checksum")
  \/ Move("show", 3, "checksum", "show")
  \/ Move("show", 2, "show", "end")
  \/ Move("change", 6, "derive", "init_private")
  \/ Move("change", 5, "init_private", "init_public")
  \/ Move("change", 4, "init_public", "compress")
  \/ Move("change", 3, "compress", "hash")
  \/ Move("change", 2, "hash", "end")
  \/ Move("sign", 6, "derive", "init_private")
  \/ Move("sign", 5, "init_private", "finish")
  \/ Move("sign", 4, "finish", "finish_twice")
  \/ Move("sign", 3, "finish_twice", "sign")
  \/ Move("sign", 2, "sign", "end")

LEMMA CallMoves ==
  ASSUME InOrder, Running, Head(todo) # "end", Continue
  PROVE  /\ Works /\ InOrder' /\ Works' /\ UNCHANGED <<routine, target, error>>
         /\ Moved
<1>1. /\ ~error /\ routine \in Routines /\ Rest(routine, todo)
      /\ todo' = Tail(todo) /\ UNCHANGED <<routine, target, error>>
  BY DEF InOrder, Continue
<1>2. Len(todo) # 1 /\ Len(Program(routine)) \in Nat
  BY <1>1, LastCall
<1>3. Rest(routine, todo') /\ Len(todo') = Len(todo) - 1
  BY <1>1, <1>2, RestNext
<1>4. Running' /\ InOrder' /\ Works /\ Works'
  BY <1>1, <1>3, RestHead DEF Running, InOrder, Works
<1>5. CASE routine = "xpub"
  <2>1. Rest("xpub", todo) /\ Rest("xpub", todo')
    BY <1>1, <1>3, <1>5
  <2> DEFINE n == Len(todo)
             h == Head(todo)
             m == Len(todo')
             g == Head(todo')
  <2>2. /\ m = n - 1 /\ n # 1
        /\ \/ n = 12 /\ h = "derive"
           \/ n = 11 /\ h = "init_private"
           \/ n = 10 /\ h = "init_public"
           \/ n = 9 /\ h = "copy"
           \/ n = 8 /\ h = "copy_chain"
           \/ n = 7 /\ h = "derive_parent"
           \/ n = 6 /\ h = "init_private"
           \/ n = 5 /\ h = "init_public"
           \/ n = 4 /\ h = "compress"
           \/ n = 3 /\ h = "hash"
           \/ n = 2 /\ h = "copy_fingerprint"
           \/ n = 1 /\ h = "end"
        /\ \/ m = 12 /\ g = "derive"
           \/ m = 11 /\ g = "init_private"
           \/ m = 10 /\ g = "init_public"
           \/ m = 9 /\ g = "copy"
           \/ m = 8 /\ g = "copy_chain"
           \/ m = 7 /\ g = "derive_parent"
           \/ m = 6 /\ g = "init_private"
           \/ m = 5 /\ g = "init_public"
           \/ m = 4 /\ g = "compress"
           \/ m = 3 /\ g = "hash"
           \/ m = 2 /\ g = "copy_fingerprint"
           \/ m = 1 /\ g = "end"
    BY <1>2, <1>3, <2>1, XpubRest DEF Place
  <2> HIDE DEF n, h, m, g
  <2>3. \/ n = 12 /\ h = "derive" /\ m = 11 /\ g = "init_private"
        \/ n = 11 /\ h = "init_private" /\ m = 10 /\ g = "init_public"
        \/ n = 10 /\ h = "init_public" /\ m = 9 /\ g = "copy"
        \/ n = 9 /\ h = "copy" /\ m = 8 /\ g = "copy_chain"
        \/ n = 8 /\ h = "copy_chain" /\ m = 7 /\ g = "derive_parent"
        \/ n = 7 /\ h = "derive_parent" /\ m = 6 /\ g = "init_private"
        \/ n = 6 /\ h = "init_private" /\ m = 5 /\ g = "init_public"
        \/ n = 5 /\ h = "init_public" /\ m = 4 /\ g = "compress"
        \/ n = 4 /\ h = "compress" /\ m = 3 /\ g = "hash"
        \/ n = 3 /\ h = "hash" /\ m = 2 /\ g = "copy_fingerprint"
        \/ n = 2 /\ h = "copy_fingerprint" /\ m = 1 /\ g = "end"
    BY <2>2
  <2>4. \/ Move("xpub", 12, "derive", "init_private")
        \/ Move("xpub", 11, "init_private", "init_public")
        \/ Move("xpub", 10, "init_public", "copy")
        \/ Move("xpub", 9, "copy", "copy_chain")
        \/ Move("xpub", 8, "copy_chain", "derive_parent")
        \/ Move("xpub", 7, "derive_parent", "init_private")
        \/ Move("xpub", 6, "init_private", "init_public")
        \/ Move("xpub", 5, "init_public", "compress")
        \/ Move("xpub", 4, "compress", "hash")
        \/ Move("xpub", 3, "hash", "copy_fingerprint")
        \/ Move("xpub", 2, "copy_fingerprint", "end")
    BY <1>5, <2>3 DEF n, h, m, g, Left, Move
  <2> QED BY <1>1, <1>4, <2>4 DEF Moved
<1>6. CASE routine = "address"
  <2>1. Rest("address", todo) /\ Rest("address", todo')
    BY <1>1, <1>3, <1>6
  <2> DEFINE n == Len(todo)
             h == Head(todo)
             m == Len(todo')
             g == Head(todo')
  <2>2. /\ m = n - 1 /\ n # 1
        /\ \/ n = 5 /\ h = "derive"
           \/ n = 4 /\ h = "init_private"
           \/ n = 3 /\ h = "init_public"
           \/ n = 2 /\ h = "copy"
           \/ n = 1 /\ h = "end"
        /\ \/ m = 5 /\ g = "derive"
           \/ m = 4 /\ g = "init_private"
           \/ m = 3 /\ g = "init_public"
           \/ m = 2 /\ g = "copy"
           \/ m = 1 /\ g = "end"
    BY <1>2, <1>3, <2>1, AddressRest DEF Place
  <2> HIDE DEF n, h, m, g
  <2>3. \/ n = 5 /\ h = "derive" /\ m = 4 /\ g = "init_private"
        \/ n = 4 /\ h = "init_private" /\ m = 3 /\ g = "init_public"
        \/ n = 3 /\ h = "init_public" /\ m = 2 /\ g = "copy"
        \/ n = 2 /\ h = "copy" /\ m = 1 /\ g = "end"
    BY <2>2
  <2>4. \/ Move("address", 5, "derive", "init_private")
        \/ Move("address", 4, "init_private", "init_public")
        \/ Move("address", 3, "init_public", "copy")
        \/ Move("address", 2, "copy", "end")
    BY <1>6, <2>3 DEF n, h, m, g, Left, Move
  <2> QED BY <1>1, <1>4, <2>4 DEF Moved
<1>7. CASE routine = "show"
  <2>1. Rest("show", todo) /\ Rest("show", todo')
    BY <1>1, <1>3, <1>7
  <2> DEFINE n == Len(todo)
             h == Head(todo)
             m == Len(todo')
             g == Head(todo')
  <2>2. /\ m = n - 1 /\ n # 1
        /\ \/ n = 8 /\ h = "derive"
           \/ n = 7 /\ h = "init_private"
           \/ n = 6 /\ h = "init_public"
           \/ n = 5 /\ h = "compress"
           \/ n = 4 /\ h = "hash"
           \/ n = 3 /\ h = "checksum"
           \/ n = 2 /\ h = "show"
           \/ n = 1 /\ h = "end"
        /\ \/ m = 8 /\ g = "derive"
           \/ m = 7 /\ g = "init_private"
           \/ m = 6 /\ g = "init_public"
           \/ m = 5 /\ g = "compress"
           \/ m = 4 /\ g = "hash"
           \/ m = 3 /\ g = "checksum"
           \/ m = 2 /\ g = "show"
           \/ m = 1 /\ g = "end"
    BY <1>2, <1>3, <2>1, ShowRest DEF Place
  <2> HIDE DEF n, h, m, g
  <2>3. \/ n = 8 /\ h = "derive" /\ m = 7 /\ g = "init_private"
        \/ n = 7 /\ h = "init_private" /\ m = 6 /\ g = "init_public"
        \/ n = 6 /\ h = "init_public" /\ m = 5 /\ g = "compress"
        \/ n = 5 /\ h = "compress" /\ m = 4 /\ g = "hash"
        \/ n = 4 /\ h = "hash" /\ m = 3 /\ g = "checksum"
        \/ n = 3 /\ h = "checksum" /\ m = 2 /\ g = "show"
        \/ n = 2 /\ h = "show" /\ m = 1 /\ g = "end"
    BY <2>2
  <2>4. \/ Move("show", 8, "derive", "init_private")
        \/ Move("show", 7, "init_private", "init_public")
        \/ Move("show", 6, "init_public", "compress")
        \/ Move("show", 5, "compress", "hash")
        \/ Move("show", 4, "hash", "checksum")
        \/ Move("show", 3, "checksum", "show")
        \/ Move("show", 2, "show", "end")
    BY <1>7, <2>3 DEF n, h, m, g, Left, Move
  <2> QED BY <1>1, <1>4, <2>4 DEF Moved
<1>8. CASE routine = "change"
  <2>1. Rest("change", todo) /\ Rest("change", todo')
    BY <1>1, <1>3, <1>8
  <2> DEFINE n == Len(todo)
             h == Head(todo)
             m == Len(todo')
             g == Head(todo')
  <2>2. /\ m = n - 1 /\ n # 1
        /\ \/ n = 6 /\ h = "derive"
           \/ n = 5 /\ h = "init_private"
           \/ n = 4 /\ h = "init_public"
           \/ n = 3 /\ h = "compress"
           \/ n = 2 /\ h = "hash"
           \/ n = 1 /\ h = "end"
        /\ \/ m = 6 /\ g = "derive"
           \/ m = 5 /\ g = "init_private"
           \/ m = 4 /\ g = "init_public"
           \/ m = 3 /\ g = "compress"
           \/ m = 2 /\ g = "hash"
           \/ m = 1 /\ g = "end"
    BY <1>2, <1>3, <2>1, ChangeRest DEF Place
  <2> HIDE DEF n, h, m, g
  <2>3. \/ n = 6 /\ h = "derive" /\ m = 5 /\ g = "init_private"
        \/ n = 5 /\ h = "init_private" /\ m = 4 /\ g = "init_public"
        \/ n = 4 /\ h = "init_public" /\ m = 3 /\ g = "compress"
        \/ n = 3 /\ h = "compress" /\ m = 2 /\ g = "hash"
        \/ n = 2 /\ h = "hash" /\ m = 1 /\ g = "end"
    BY <2>2
  <2>4. \/ Move("change", 6, "derive", "init_private")
        \/ Move("change", 5, "init_private", "init_public")
        \/ Move("change", 4, "init_public", "compress")
        \/ Move("change", 3, "compress", "hash")
        \/ Move("change", 2, "hash", "end")
    BY <1>8, <2>3 DEF n, h, m, g, Left, Move
  <2> QED BY <1>1, <1>4, <2>4 DEF Moved
<1>9. CASE routine = "sign"
  <2>1. Rest("sign", todo) /\ Rest("sign", todo')
    BY <1>1, <1>3, <1>9
  <2> DEFINE n == Len(todo)
             h == Head(todo)
             m == Len(todo')
             g == Head(todo')
  <2>2. /\ m = n - 1 /\ n # 1
        /\ \/ n = 6 /\ h = "derive"
           \/ n = 5 /\ h = "init_private"
           \/ n = 4 /\ h = "finish"
           \/ n = 3 /\ h = "finish_twice"
           \/ n = 2 /\ h = "sign"
           \/ n = 1 /\ h = "end"
        /\ \/ m = 6 /\ g = "derive"
           \/ m = 5 /\ g = "init_private"
           \/ m = 4 /\ g = "finish"
           \/ m = 3 /\ g = "finish_twice"
           \/ m = 2 /\ g = "sign"
           \/ m = 1 /\ g = "end"
    BY <1>2, <1>3, <2>1, SignRest DEF Place
  <2> HIDE DEF n, h, m, g
  <2>3. \/ n = 6 /\ h = "derive" /\ m = 5 /\ g = "init_private"
        \/ n = 5 /\ h = "init_private" /\ m = 4 /\ g = "finish"
        \/ n = 4 /\ h = "finish" /\ m = 3 /\ g = "finish_twice"
        \/ n = 3 /\ h = "finish_twice" /\ m = 2 /\ g = "sign"
        \/ n = 2 /\ h = "sign" /\ m = 1 /\ g = "end"
    BY <2>2
  <2>4. \/ Move("sign", 6, "derive", "init_private")
        \/ Move("sign", 5, "init_private", "finish")
        \/ Move("sign", 4, "finish", "finish_twice")
        \/ Move("sign", 3, "finish_twice", "sign")
        \/ Move("sign", 2, "sign", "end")
    BY <1>9, <2>3 DEF n, h, m, g, Left, Move
  <2> QED BY <1>1, <1>4, <2>4 DEF Moved
<1> QED BY <1>1, <1>5, <1>6, <1>7, <1>8, <1>9 DEF Routines

-----------------------------------------------------------------------------
(* Calls.                                                                  *)

LEMMA KeyTypes ==
  ASSUME NEW path \in Known
  PROVE  /\ Raw(path) \in PublicKeys /\ Compressed(Raw(path)) \in PublicKeys
         /\ PubkeyHash(path) = hash160(Compressed(Raw(path)))
BY DEF Raw, Compressed, PublicKeys, PubkeyHash

\* The owner of the key a routine works on is a path of the host or its parent.
LEMMA OwnerKnown ==
  ASSUME IInv, Works
  PROVE  target \in Paths /\ target \in Known /\ Owner \in Known
<1>1. target \in Paths /\ target \in Known
  BY DEF IInv, Targets, Works, Known
<1>2. CASE routine = "xpub" /\ Left <= 6
  <2>1. target \in Derivable
    <3>1. Left \in Nat
      BY DEF IInv, InOrder, Works, Rest, Left
    <3>2. Left <= 11
      BY <1>2, <3>1
    <3> QED BY <1>2, <3>2 DEF IInv, XpubMade
  <2>2. target # <<>>
    BY <2>1, DerivableAssumption
  <2> QED BY <1>1, <1>2, <2>2 DEF Owner, Known
<1>3. CASE ~(routine = "xpub" /\ Left <= 6)
  BY <1>1, <1>3 DEF Owner
<1> QED BY <1>1, <1>2, <1>3

\* What a call must keep.
LEMMA CallStep ==
  ASSUME IInv, Running, Head(todo) # "end", Continue,
         UNCHANGED <<screen, sent, History>>,
         ctx' \in Contexts, stack' \in Stacks,
         g_address' \in OrZero({Address(PubkeyHash(path)) : path \in Known}),
         KeyMade', XpubMade', DigestMade', Erasing'
  PROVE  IInv'
<1>1. /\ InOrder' /\ Works' /\ UNCHANGED <<routine, target, error>>
  BY CallMoves DEF IInv
<1>2. Types'
  BY <1>1 DEF IInv, Types
<1>3. screen = "menu" /\ Targets' /\ KeysErased'
  BY <1>1 DEF IInv, Targets, KeysErased, Works, History
<1>4. AnswersPath' /\ Verdicts'
  BY <1>3 DEF IInv, AnswersPath, Verdicts, History
<1> QED BY <1>1, <1>2, <1>3, <1>4 DEF IInv

LEMMA OwnerKept ==
  ASSUME UNCHANGED <<routine, target>>, routine = "xpub" => (Left <= 6) = (Left' <= 6)
  PROVE  Owner' = Owner
<1>1. Parent(target)' = Parent(target)
  OBVIOUS
<1> QED BY <1>1 DEF Owner

LEMMA DeriveStep ==
  ASSUME IInv, DeriveTarget \/ DeriveParent
  PROVE  IInv'
<1> DEFINE path == IF Head(todo) = "derive" THEN target ELSE Parent(target)
<1>1. /\ Running /\ Head(todo) \in {"derive", "derive_parent"} /\ Continue
      /\ path \in Derivable
      /\ stack' = [stack EXCEPT !.raw_privkey = path, !.chain_code = ChainCode(path)]
      /\ UNCHANGED <<ctx, g_address, screen, sent, History>>
  BY DEF DeriveTarget, DeriveParent, At, Derive, OnStack
<1>2. /\ Works /\ Works' /\ UNCHANGED <<routine, target, error>>
      /\ \/ Move("xpub", 12, "derive", "init_private")
         \/ Move("xpub", 7, "derive_parent", "init_private")
         \/ Move("address", 5, "derive", "init_private")
         \/ Move("show", 8, "derive", "init_private")
         \/ Move("change", 6, "derive", "init_private")
         \/ Move("sign", 6, "derive", "init_private")
  <2>1. Moved
    BY <1>1, CallMoves DEF IInv
  <2> QED BY <1>1, <2>1, CallMoves DEF IInv, Moved, Move
<1>3. Owner' = path /\ path \in Known
  <2>1. Parent(target)' = Parent(target)
    BY <1>2
  <2>2. CASE Head(todo) = "derive"
    <3>1. path = target /\ target \in Known
      BY <1>2, <2>2, OwnerKnown
    <3>2. ~(routine' = "xpub" /\ Left' <= 6)
      BY <1>2, <2>2 DEF Move
    <3> QED BY <1>2, <3>1, <3>2 DEF Owner
  <2>3. CASE Head(todo) # "derive"
    <3>1. routine = "xpub" /\ Left = 7 /\ Left' = 6
      BY <1>1, <1>2, <2>3 DEF Move
    <3>2. target \in Derivable
      BY <1>2, <3>1 DEF IInv, XpubMade
    <3>3. path \in Known
      BY <1>2, <2>3, <3>2, OwnerKnown, DerivableAssumption DEF Known
    <3> QED BY <1>2, <2>1, <2>3, <3>1, <3>3 DEF Owner
  <2> QED BY <2>2, <2>3
<1>4. path = target \/ Left' = 6
  BY <1>1, <1>2 DEF Move
<1> HIDE DEF path
<1>5. /\ stack' \in Stacks /\ stack'.raw_privkey = path /\ stack'.chain_code = ChainCode(path)
      /\ stack'.public_key = stack.public_key
  BY <1>1, <1>3 DEF IInv, Types, Stacks, OrZero
<1>6. KeyMade'
  BY <1>2, <1>3, <1>5 DEF KeyMade, Move, At
<1>7. XpubMade'
  BY <1>1, <1>2, <1>4, <1>5 DEF IInv, XpubMade, Move
<1>8. DigestMade' /\ Erasing'
  BY <1>1, <1>2, <1>5 DEF IInv, DigestMade, Erasing, Works, Move, At
<1> QED BY <1>1, <1>2, <1>5, <1>6, <1>7, <1>8, CallStep DEF IInv, Types

LEMMA InitPrivateStep ==
  ASSUME IInv, InitPrivate
  PROVE  IInv'
<1>1. /\ Running /\ Head(todo) = "init_private" /\ Continue
      /\ stack' = [stack EXCEPT !.private_key = stack.raw_privkey, !.raw_privkey = Zero]
      /\ UNCHANGED <<ctx, g_address, screen, sent, History>>
  BY DEF InitPrivate, At, OnStack
<1>2. /\ Works /\ Works' /\ UNCHANGED <<routine, target, error>>
      /\ \/ Move("xpub", 11, "init_private", "init_public")
         \/ Move("xpub", 6, "init_private", "init_public")
         \/ Move("address", 4, "init_private", "init_public")
         \/ Move("show", 7, "init_private", "init_public")
         \/ Move("change", 5, "init_private", "init_public")
         \/ Move("sign", 5, "init_private", "finish")
  <2>1. Moved
    BY <1>1, CallMoves DEF IInv
  <2> QED BY <1>1, <2>1, CallMoves DEF IInv, Moved, Move
<1>3. Owner' = Owner
  BY <1>2, OwnerKept DEF Move
<1>4. stack.raw_privkey = Owner /\ Owner \in Known
  BY <1>1, <1>2, OwnerKnown DEF IInv, KeyMade, At, Works
<1>5. /\ stack' \in Stacks /\ stack'.private_key = Owner /\ stack'.raw_privkey = Zero
      /\ stack'.public_key = stack.public_key /\ stack'.chain_code = stack.chain_code
  BY <1>1, <1>4 DEF IInv, Types, Stacks, OrZero
<1>6. KeyMade'
  BY <1>2, <1>3, <1>5 DEF KeyMade, Move, At, Owner
<1>7. XpubMade'
  BY <1>1, <1>2, <1>5 DEF IInv, XpubMade, Move
<1>8. DigestMade' /\ Erasing'
  BY <1>1, <1>2, <1>5 DEF IInv, DigestMade, Erasing, Works, Move, At
<1> QED BY <1>1, <1>5, <1>6, <1>7, <1>8, CallStep DEF IInv, Types

LEMMA InitPublicStep ==
  ASSUME IInv, InitPublic
  PROVE  IInv'
<1>1. /\ Running /\ Head(todo) = "init_public" /\ Continue
      /\ stack' = [stack EXCEPT !.public_key = Raw(stack.private_key)]
      /\ UNCHANGED <<ctx, g_address, screen, sent, History>>
  BY DEF InitPublic, At, OnStack
<1>2. /\ Works /\ Works' /\ UNCHANGED <<routine, target, error>>
      /\ \/ Move("xpub", 10, "init_public", "copy")
         \/ Move("xpub", 5, "init_public", "compress")
         \/ Move("address", 3, "init_public", "copy")
         \/ Move("show", 6, "init_public", "compress")
         \/ Move("change", 4, "init_public", "compress")
  <2>1. Moved
    BY <1>1, CallMoves DEF IInv
  <2> QED BY <1>1, <2>1, CallMoves DEF IInv, Moved, Move
<1>3. Owner' = Owner
  BY <1>2, OwnerKept DEF Move
<1>4. stack.private_key = Owner /\ Raw(Owner) \in PublicKeys
  BY <1>1, <1>2, OwnerKnown, KeyTypes DEF IInv, KeyMade, At, Works
<1>5. /\ stack' \in Stacks /\ stack'.public_key = Raw(Owner)
      /\ stack'.raw_privkey = stack.raw_privkey /\ stack'.chain_code = stack.chain_code
  BY <1>1, <1>4 DEF IInv, Types, Stacks, OrZero
<1>6. KeyMade'
  BY <1>2, <1>3, <1>5 DEF KeyMade, Move, At
<1>7. XpubMade'
  BY <1>1, <1>2, <1>5 DEF IInv, XpubMade, Move
<1>8. DigestMade' /\ Erasing'
  BY <1>1, <1>2, <1>5 DEF IInv, DigestMade, Erasing, Works, Move, At
<1> QED BY <1>1, <1>5, <1>6, <1>7, <1>8, CallStep DEF IInv, Types

LEMMA CompressStep ==
  ASSUME IInv, Compress
  PROVE  IInv'
<1>1. /\ Running /\ Head(todo) = "compress" /\ Continue
      /\ stack' = [stack EXCEPT !.public_key = Compressed(@)]
      /\ UNCHANGED <<ctx, g_address, screen, sent, History>>
  BY DEF Compress, At, OnStack
<1>2. /\ Works /\ Works' /\ UNCHANGED <<routine, target, error>>
      /\ \/ Move("xpub", 4, "compress", "hash")
         \/ Move("show", 5, "compress", "hash")
         \/ Move("change", 3, "compress", "hash")
  <2>1. Moved
    BY <1>1, CallMoves DEF IInv
  <2> QED BY <1>1, <2>1, CallMoves DEF IInv, Moved, Move
<1>3. Owner' = Owner
  BY <1>2, OwnerKept DEF Move
<1>4. stack.public_key = Raw(Owner) /\ Compressed(Raw(Owner)) \in PublicKeys
  BY <1>1, <1>2, OwnerKnown, KeyTypes DEF IInv, KeyMade, At, Works
<1>5. /\ stack' \in Stacks /\ stack'.public_key = Compressed(Raw(Owner))
      /\ stack'.raw_privkey = stack.raw_privkey /\ stack'.chain_code = stack.chain_code
  BY <1>1, <1>4 DEF IInv, Types, Stacks, OrZero
<1>6. KeyMade'
  BY <1>2, <1>3, <1>5 DEF KeyMade, Move, At
<1>7. XpubMade'
  BY <1>1, <1>2, <1>5 DEF IInv, XpubMade, Move
<1>8. DigestMade' /\ Erasing'
  BY <1>1, <1>2, <1>5 DEF IInv, DigestMade, Erasing, Works, Move, At
<1> QED BY <1>1, <1>5, <1>6, <1>7, <1>8, CallStep DEF IInv, Types

LEMMA HashStep ==
  ASSUME IInv, Hash
  PROVE  IInv'
<1>1. /\ Running /\ Head(todo) = "hash" /\ Continue
      /\ stack' = [stack EXCEPT !.hash = hash160(stack.public_key)]
      /\ UNCHANGED <<ctx, g_address, screen, sent, History>>
  BY DEF Hash, At, OnStack
<1>2. /\ Works /\ Works' /\ UNCHANGED <<routine, target, error>>
      /\ \/ Move("xpub", 3, "hash", "copy_fingerprint")
         \/ Move("show", 4, "hash", "checksum")
         \/ Move("change", 2, "hash", "end")
  <2>1. Moved
    BY <1>1, CallMoves DEF IInv
  <2> QED BY <1>1, <2>1, CallMoves DEF IInv, Moved, Move
<1>3. Owner' = Owner /\ (routine = "change" => Owner = target)
  BY <1>2, OwnerKept DEF Move, Owner
<1>4. /\ hash160(stack.public_key) = PubkeyHash(Owner)
      /\ PubkeyHash(Owner) \in {hash160(key) : key \in PublicKeys}
  BY <1>1, <1>2, OwnerKnown, KeyTypes DEF IInv, KeyMade, At, Works
<1>5. /\ stack' \in Stacks /\ stack'.hash = PubkeyHash(Owner)
      /\ stack'.raw_privkey = stack.raw_privkey /\ stack'.chain_code = stack.chain_code
      /\ stack'.public_key = stack.public_key
  BY <1>1, <1>4 DEF IInv, Types, Stacks, OrZero
<1>6. KeyMade'
  BY <1>2, <1>3, <1>5 DEF KeyMade, Move, At
<1>7. XpubMade'
  BY <1>1, <1>2, <1>5 DEF IInv, XpubMade, Move
<1>8. DigestMade' /\ Erasing'
  BY <1>1, <1>2, <1>5 DEF IInv, DigestMade, Erasing, Works, Move, At
<1> QED BY <1>1, <1>5, <1>6, <1>7, <1>8, CallStep DEF IInv, Types

LEMMA CopyKeyStep ==
  ASSUME IInv, CopyKey
  PROVE  IInv'
<1>1. /\ Running /\ Head(todo) = "copy" /\ Continue
      /\ ctx' = [ctx EXCEPT !.raw_public_key = stack.public_key]
      /\ UNCHANGED <<stack, g_address, screen, sent, History>>
  BY DEF CopyKey, At, InContext
<1>2. /\ Works /\ Works' /\ UNCHANGED <<routine, target, error>>
      /\ Move("xpub", 9, "copy", "copy_chain") \/ Move("address", 2, "copy", "end")
  <2>1. Moved
    BY <1>1, CallMoves DEF IInv
  <2> QED BY <1>1, <2>1, CallMoves DEF IInv, Moved, Move
<1>3. stack.public_key = Raw(target) /\ target \in Known
  <2>1. Owner = target
    BY <1>2 DEF Move, Owner
  <2> QED BY <1>1, <1>2, <2>1, OwnerKnown DEF IInv, KeyMade, At, Works
<1>4. /\ ctx' \in Contexts /\ ctx'.raw_public_key = Raw(target)
      /\ ctx'.chain_code = ctx.chain_code /\ ctx'.digest = ctx.digest
  BY <1>1, <1>3 DEF IInv, Types, Contexts, OrZero
<1>5. KeyMade'
  BY <1>2 DEF KeyMade, Move, At
<1>6. XpubMade'
  BY <1>1, <1>2, <1>4 DEF IInv, XpubMade, Move
<1>7. DigestMade' /\ Erasing'
  BY <1>1, <1>2, <1>4 DEF IInv, DigestMade, Erasing, Works, Move, At
<1> QED BY <1>1, <1>4, <1>5, <1>6, <1>7, CallStep DEF IInv, Types

LEMMA CopyChainStep ==
  ASSUME IInv, CopyChain
  PROVE  IInv'
<1>1. /\ Running /\ Head(todo) = "copy_chain" /\ Continue
      /\ ctx' = [ctx EXCEPT !.chain_code = stack.chain_code]
      /\ UNCHANGED <<stack, g_address, screen, sent, History>>
  BY DEF CopyChain, At, InContext
<1>2. /\ Works /\ Works' /\ UNCHANGED <<routine, target, error>>
      /\ Move("xpub", 8, "copy_chain", "derive_parent")
  <2>1. Moved
    BY <1>1, CallMoves DEF IInv
  <2> QED BY <1>1, <2>1, CallMoves DEF IInv, Moved, Move
<1>3. stack.chain_code = ChainCode(target) /\ target \in Known
  BY <1>2, OwnerKnown DEF IInv, XpubMade, Move
<1>4. /\ ctx' \in Contexts /\ ctx'.chain_code = ChainCode(target)
      /\ ctx'.raw_public_key = ctx.raw_public_key /\ ctx'.digest = ctx.digest
  BY <1>1, <1>3 DEF IInv, Types, Contexts, OrZero
<1>5. KeyMade'
  BY <1>2 DEF KeyMade, Move, At
<1>6. XpubMade'
  BY <1>1, <1>2, <1>4 DEF IInv, XpubMade, Move
<1>7. DigestMade' /\ Erasing'
  BY <1>1, <1>2, <1>4 DEF IInv, DigestMade, Erasing, Works, Move, At
<1> QED BY <1>1, <1>4, <1>5, <1>6, <1>7, CallStep DEF IInv, Types

LEMMA CopyFingerprintStep ==
  ASSUME IInv, CopyFingerprint
  PROVE  IInv'
<1>1. /\ Running /\ Head(todo) = "copy_fingerprint" /\ Continue
      /\ ctx' = [ctx EXCEPT !.fingerprint = stack.hash]
      /\ UNCHANGED <<stack, g_address, screen, sent, History>>
  BY DEF CopyFingerprint, At, InContext
<1>2. /\ Works /\ Works' /\ UNCHANGED <<routine, target, error>>
      /\ Move("xpub", 2, "copy_fingerprint", "end")
  <2>1. Moved
    BY <1>1, CallMoves DEF IInv
  <2> QED BY <1>1, <2>1, CallMoves DEF IInv, Moved, Move
<1>3. stack.hash = PubkeyHash(Parent(target)) /\ Parent(target) \in Known
  <2>1. Owner = Parent(target)
    BY <1>2 DEF Move, Owner
  <2> QED BY <1>1, <1>2, <2>1, OwnerKnown DEF IInv, KeyMade, At, Works
<1>4. /\ ctx' \in Contexts /\ ctx'.fingerprint = PubkeyHash(Parent(target))
      /\ ctx'.chain_code = ctx.chain_code
      /\ ctx'.raw_public_key = ctx.raw_public_key /\ ctx'.digest = ctx.digest
  BY <1>1, <1>3 DEF IInv, Types, Contexts, OrZero
<1>5. KeyMade'
  BY <1>2 DEF KeyMade, Move, At
<1>6. XpubMade'
  <2>1. PubkeyHash(Parent(target))' = PubkeyHash(Parent(target))
    BY <1>2
  <2> QED BY <1>1, <1>2, <1>4, <2>1 DEF IInv, XpubMade, Move
<1>7. DigestMade' /\ Erasing'
  BY <1>1, <1>2, <1>4 DEF IInv, DigestMade, Erasing, Works, Move, At
<1> QED BY <1>1, <1>4, <1>5, <1>6, <1>7, CallStep DEF IInv, Types

LEMMA ShowStep ==
  ASSUME IInv, Checksum \/ Show
  PROVE  IInv'
<1>1. /\ Running /\ Continue
      /\ UNCHANGED <<ctx, stack, screen, sent, History>>
      /\ \/ Head(todo) = "checksum" /\ g_address' = g_address
         \/ Head(todo) = "show" /\ g_address' = Address(stack.hash)
  BY DEF Checksum, Show, At, OnStack
<1>2. /\ Works /\ Works' /\ UNCHANGED <<routine, target, error>>
      /\ Move("show", 3, "checksum", "show") \/ Move("show", 2, "show", "end")
  <2>1. Moved
    BY <1>1, CallMoves DEF IInv
  <2> QED BY <1>1, <2>1, CallMoves DEF IInv, Moved, Move
<1>3. stack.hash = PubkeyHash(target) /\ target \in Known
  <2>1. Owner = target
    BY <1>2 DEF Move, Owner
  <2> QED BY <1>1, <1>2, <2>1, OwnerKnown DEF IInv, KeyMade, At, Works
<1>4. g_address' \in OrZero({Address(PubkeyHash(path)) : path \in Known})
  BY <1>1, <1>3 DEF IInv, Types, OrZero
<1>5. KeyMade'
  <2>1. Owner' = target
    BY <1>2 DEF Move, Owner
  <2> QED BY <1>1, <1>2, <1>3, <2>1 DEF KeyMade, Move, At
<1>6. XpubMade' /\ DigestMade' /\ Erasing'
  BY <1>1, <1>2 DEF IInv, XpubMade, DigestMade, Erasing, Works, Move, At
<1> QED BY <1>1, <1>4, <1>5, <1>6, CallStep DEF IInv, Types

\* Finishing the hash takes two calls, or none when the digest is there already.
LEMMA DigestStep ==
  ASSUME IInv, FinishTwice \/ EcdsaSign \/ (Finish /\ ctx.digest = Zero)
  PROVE  IInv'
<1>1. /\ Running /\ Continue
      /\ UNCHANGED <<stack, g_address, screen, sent, History>>
      /\ \/ Head(todo) = "finish" /\ ctx' = [ctx EXCEPT !.digest = "once"]
         \/ Head(todo) = "finish_twice" /\ ctx' = [ctx EXCEPT !.digest = "twice"]
         \/ Head(todo) = "sign" /\ ctx' = ctx
  BY DEF FinishTwice, EcdsaSign, Finish, At, OnStack, InContext
<1>2. /\ Works /\ Works' /\ UNCHANGED <<routine, target, error>>
      /\ \/ Move("sign", 4, "finish", "finish_twice")
         \/ Move("sign", 3, "finish_twice", "sign")
         \/ Move("sign", 2, "sign", "end")
  <2>1. Moved
    BY <1>1, CallMoves DEF IInv
  <2> QED BY <1>1, <2>1, CallMoves DEF IInv, Moved, Move
<1>3. /\ ctx' \in Contexts
      /\ Head(todo) = "finish_twice" => ctx'.digest = "twice"
      /\ Head(todo) = "sign" => ctx'.digest = ctx.digest
  BY <1>1 DEF IInv, Types, Contexts, OrZero
<1>4. KeyMade'
  BY <1>1, <1>2 DEF IInv, KeyMade, Move, At
<1>5. XpubMade' /\ Erasing'
  BY <1>1, <1>2 DEF IInv, XpubMade, Erasing, Works, Move, At
<1>6. DigestMade'
  BY <1>1, <1>2, <1>3 DEF IInv, DigestMade, Works, Move, At
<1> QED BY <1>1, <1>3, <1>4, <1>5, <1>6, CallStep DEF IInv, Types

LEMMA FinishedStep ==
  ASSUME IInv, Finish, ctx.digest # Zero
  PROVE  IInv'
<1>1. /\ Running /\ Head(todo) = "finish" /\ todo' = Tail(Tail(todo))
      /\ UNCHANGED <<ctx, stack, routine, target, error, g_address, screen, sent, History>>
  BY DEF Finish, At, OnStack
<1>2. /\ ~error /\ routine \in Routines /\ Rest(routine, todo)
  BY <1>1 DEF IInv, InOrder
<1>3. routine = "sign" /\ Left = 4
  BY <1>1, <1>2, XpubRest, AddressRest, ShowRest, ChangeRest, SignRest
     DEF Routines, Place, Left
<1>4. Len(Program("sign")) \in Nat
  BY <1>2, <1>3, LastCall DEF Routines
<1>5. Rest("sign", Tail(todo)) /\ Len(Tail(todo)) = 3
  BY <1>2, <1>3, <1>4, RestNext DEF Left
<1>6. Rest("sign", todo') /\ Len(todo') = 2
  <2>1. Len(Tail(todo)) # 1
    BY <1>5
  <2>2. /\ Rest("sign", Tail(Tail(todo)))
        /\ Len(Tail(Tail(todo))) = Len(Tail(todo)) - 1
    BY <1>4, <1>5, <2>1, RestNext
  <2>3. Len(Tail(Tail(todo))) = 2
    BY <1>5, <2>2
  <2> QED BY <1>1, <2>2, <2>3
<1>7. Left' = 2 /\ Head(todo') = "sign" /\ Running'
  <2>1. todo' # <<>>
    BY <1>6, RestHead
  <2>2. Place(todo', 2, "sign")
    BY <1>6, SignRest DEF Place
  <2> QED BY <2>1, <2>2 DEF Place, Left, Running
<1>8. ctx.digest = "twice"
  BY <1>1, <1>2 DEF IInv, DigestMade, At
<1>9. Types' /\ InOrder' /\ Targets' /\ KeysErased'
  BY <1>1, <1>2, <1>3, <1>6, <1>7 DEF IInv, Types, InOrder, Targets, KeysErased, History
<1>10. KeyMade' /\ XpubMade'
  <2>1. stack.private_key = target
    BY <1>1, <1>2, <1>3 DEF IInv, KeyMade, Works
  <2> QED BY <1>1, <1>2, <1>3, <1>7, <2>1 DEF KeyMade, XpubMade, Works, At
<1>11. DigestMade' /\ Erasing'
  BY <1>1, <1>2, <1>3, <1>7, <1>8 DEF IInv, DigestMade, Erasing, Works, At
<1>12. AnswersPath' /\ Verdicts'
  BY <1>1 DEF IInv, AnswersPath, Verdicts, History
<1> QED BY <1>9, <1>10, <1>11, <1>12 DEF IInv

\* A call that fails leads to the end; only the bytes of a key that was not made
\* yet could be left, and those are erased.
LEMMA FailsStep ==
  ASSUME IInv, Fails
  PROVE  IInv'
<1>1. /\ Running /\ Head(todo) \notin Infallible /\ todo' = <<"end">> /\ error' = TRUE
      /\ UNCHANGED <<ctx, routine, target, g_address, screen, sent, History>>
      /\ stack' = IF Head(todo) \in {"derive", "derive_parent", "init_private"}
                  THEN [stack EXCEPT !.raw_privkey = Zero, !.private_key = Zero]
                  ELSE stack
  BY DEF Fails
<1>2. Running' /\ ~Works' /\ routine \in Routines
  BY <1>1 DEF IInv, InOrder, Running, Works
<1>3. /\ stack' \in Stacks /\ stack'.public_key = stack.public_key
      /\ stack'.raw_privkey = Zero \/ stack'.raw_privkey = stack.raw_privkey
      /\ Head(todo) = "init_private" => stack'.raw_privkey = Zero
  BY <1>1 DEF IInv, Types, Stacks, OrZero
<1>4. Types' /\ Targets' /\ KeysErased'
  BY <1>1, <1>2, <1>3 DEF IInv, Types, Targets, KeysErased, History
<1>5. InOrder' /\ KeyMade' /\ XpubMade'
  BY <1>1, <1>2 DEF InOrder, KeyMade, XpubMade
<1>6. DigestMade' /\ Erasing'
  BY <1>1, <1>2, <1>3 DEF IInv, DigestMade, Erasing, At
<1>7. AnswersPath' /\ Verdicts'
  BY <1>1 DEF IInv, AnswersPath, Verdicts, History
<1> QED BY <1>4, <1>5, <1>6, <1>7 DEF IInv

LEMMA CallsStep ==
  ASSUME IInv, Calls
  PROVE  IInv'
<1>1. CASE DeriveTarget \/ DeriveParent \/ InitPrivate \/ InitPublic \/ Compress \/ Hash
  BY <1>1, DeriveStep, InitPrivateStep, InitPublicStep, CompressStep, HashStep
<1>2. CASE CopyKey \/ CopyChain \/ CopyFingerprint \/ Checksum \/ Show
  BY <1>2, CopyKeyStep, CopyChainStep, CopyFingerprintStep, ShowStep
<1>3. CASE Finish \/ FinishTwice \/ EcdsaSign
  <2>1. CASE Finish /\ ctx.digest # Zero
    BY <2>1, FinishedStep
  <2>2. CASE Finish /\ ctx.digest = Zero
    BY <2>2, DigestStep
  <2>3. CASE FinishTwice \/ EcdsaSign
    BY <2>3, DigestStep
  <2> QED BY <1>3, <2>1, <2>2, <2>3
<1>4. CASE Fails
  BY <1>4, FailsStep
<1> QED BY <1>1, <1>2, <1>3, <1>4 DEF Calls

-----------------------------------------------------------------------------
(* Commands and buttons.                                                   *)

\* A program begins with all of its calls, the key of the device first.
LEMMA ProgramBegins ==
  ASSUME NEW r \in Routines
  PROVE  Rest(r, Program(r)) /\ Head(Program(r)) = "derive" /\ Len(Program(r)) > 4
<1>1. Program(r) \in Seq(CallNames) /\ Len(Program(r)) > 4 /\ Program(r)[1] = "derive"
  <2>1. Program(r) \in Seq(CallNames)
    <3>1. /\ DeriveXpub \in Seq(CallNames) /\ DeriveAddress \in Seq(CallNames)
          /\ ShowAddress \in Seq(CallNames) /\ VerifyChange \in Seq(CallNames)
          /\ SignTx \in Seq(CallNames)
      BY DEF DeriveXpub, DeriveAddress, ShowAddress, VerifyChange, SignTx, GetPubkeyHash,
             GetKey, CallNames
    <3> QED BY <3>1 DEF Program, Routines
  <2>2. Len(Program(r)) > 4
    <3> DEFINE len(q) == Len(Program(q))
    <3>1. /\ len("xpub") = 12 /\ len("address") = 5 /\ len("show") = 8
          /\ len("change") = 6 /\ len("sign") = 6
      BY ProgramLengths
    <3> HIDE DEF len
    <3>2. len(r) > 4
      BY <3>1 DEF Routines
    <3> QED BY <3>2 DEF len
  <2>3. /\ Program("xpub")[1] = "derive" /\ Program("address")[1] = "derive"
        /\ Program("show")[1] = "derive" /\ Program("change")[1] = "derive"
        /\ Program("sign")[1] = "derive"
    BY Programs
  <2> QED BY <2>1, <2>2, <2>3 DEF Routines
<1>2. Head(Program(r)) = Program(r)[1]
  BY <1>1
<1>3. \A j \in 1..Len(Program(r)) :
        Program(r)[j] = Program(r)[Len(Program(r)) - Len(Program(r)) + j]
  BY <1>1
<1> QED BY <1>1, <1>2, <1>3 DEF Rest

\* A command that calls no routine.
LEMMA NoCallStep ==
  ASSUME IInv, ~Running, NoCall, UNCHANGED g_address,
         ctx' \in Contexts, ctx'.digest \in {Zero, "twice"},
         screen' \in {"menu", screen}, UNCHANGED <<seen, change>>,
         sent' = sent \/ \E sw, data : Answer(sw, data) /\ data.kind \notin {"xpub", "signature"},
         screen' = "menu" \/ (ctx' = ctx /\ asked' = asked)
  PROVE  IInv'
<1>1. UNCHANGED <<todo, routine, target, error, stack>> /\ ~Running'
  BY DEF NoCall, Running
<1>2. Types'
  BY <1>1 DEF IInv, Types
<1>3. InOrder' /\ Targets' /\ KeyMade' /\ XpubMade'
  BY <1>1 DEF InOrder, Targets, KeyMade, XpubMade, Works
<1>4. DigestMade' /\ KeysErased' /\ Erasing'
  BY <1>1 DEF IInv, DigestMade, KeysErased, Erasing, Works
<1>5. Verdicts'
  BY DEF IInv, Verdicts
<1>6. AnswersPath'
  <2>1. /\ sent'.data.kind = "xpub" => sent'.data = XpubOf(sent'.path)
        /\ sent'.data.kind = "signature" => sent'.data = Signature(sent'.path, "twice")
    <3>1. CASE sent' = sent
      BY <3>1 DEF IInv, AnswersPath
    <3>2. CASE \E sw, data : Answer(sw, data) /\ data.kind \notin {"xpub", "signature"}
      BY <3>2 DEF Answer
    <3> QED BY <3>1, <3>2
  <2>2. CASE screen' = "menu"
    BY <2>1, <2>2 DEF AnswersPath
  <2>3. CASE screen' # "menu"
    BY <2>1, <2>3 DEF IInv, AnswersPath
  <2> QED BY <2>2, <2>3
<1> QED BY <1>2, <1>3, <1>4, <1>5, <1>6 DEF IInv

\* A routine begins, with none of the keys of the one before it in memory.
LEMMA RoutineBegins ==
  ASSUME IInv, NEW r \in Routines, NEW t \in Paths, NEW s \in Stacks, s.raw_privkey = Zero,
         Call(r, Program(r), t, s),
         ctx' \in Contexts, ctx'.digest \in {Zero, "twice"}, screen' = "menu",
         g_address' \in {g_address, Zero}, sent' = sent, Verdicts',
         r # "change" => t = asked',
         r = "change" => change' \in Changes /\ change'.path = t
  PROVE  IInv'
<1>1. /\ routine' = r /\ todo' = Program(r) /\ target' = t /\ error' = FALSE
      /\ stack' = Entered(r, s)
  BY DEF Call
<1>2. /\ Rest(r, todo') /\ Head(todo') = "derive" /\ Len(todo') > 4
      /\ Running' /\ Works'
  <2>1. Rest(r, todo') /\ Head(todo') = "derive" /\ Len(todo') > 4
    BY <1>1, ProgramBegins
  <2>2. todo' # <<>>
    BY <2>1, RestHead
  <2> QED BY <1>1, <2>1, <2>2 DEF Running, Works
<1>3. /\ r = "xpub" => Left' = 12
      /\ r = "sign" => Left' = 6
  BY <1>1, ProgramLengths DEF Left
<1>4. /\ stack' \in Stacks /\ stack'.raw_privkey = Zero /\ stack'.public_key = Zero
  BY <1>1 DEF Entered, Stacks, OrZero
<1>5. Types' /\ InOrder' /\ Targets' /\ KeysErased'
  BY <1>1, <1>2, <1>4 DEF IInv, Types, InOrder, Targets, KeysErased, OrZero
<1>6. KeyMade'
  BY <1>1, <1>2, <1>3 DEF KeyMade, At
<1>7. XpubMade' /\ DigestMade' /\ Erasing'
  BY <1>1, <1>2, <1>3, <1>4 DEF XpubMade, DigestMade, Erasing, At
<1>8. AnswersPath'
  BY DEF IInv, AnswersPath
<1> QED BY <1>5, <1>6, <1>7, <1>8 DEF IInv

\* Between two routines no key is in memory, and a digest is whole.
LEMMA Quiet ==
  ASSUME IInv, ~Running
  PROVE  /\ ctx \in Contexts /\ stack \in Stacks /\ stack.raw_privkey = Zero
         /\ ctx.digest \in {Zero, "twice"}
BY DEF IInv, Types, KeysErased, DigestMade

LEMMA ZeroContext ==
  /\ ZeroCtx \in Contexts /\ ZeroCtx.digest = Zero
  /\ \A path \in Paths : [ZeroCtx EXCEPT !.path = path] \in Contexts
  /\ \A path \in Paths : [ZeroCtx EXCEPT !.path = path].digest = Zero
BY DEF ZeroCtx, Contexts, OrZero

LEMMA GetStep ==
  ASSUME IInv, NEW path \in Paths, GetXpub(path) \/ GetAddress(path)
  PROVE  IInv'
<1>1. /\ Idle /\ asked' = path /\ ctx' = [ZeroCtx EXCEPT !.path = path]
      /\ UNCHANGED <<g_address, screen, sent, seen, change>>
  BY DEF GetXpub, GetAddress
<1>2. \E r \in {"xpub", "address"} : Call(r, Program(r), path, stack)
  <2>1. Program("xpub") = DeriveXpub /\ Program("address") = DeriveAddress
    BY DEF Program
  <2> QED BY <2>1 DEF GetXpub, GetAddress
<1>3. ~Running /\ screen' = "menu" /\ Verdicts'
  BY <1>1 DEF IInv, Idle, Verdicts
<1> QED BY <1>1, <1>2, <1>3, RoutineBegins, Quiet, ZeroContext DEF Routines

LEMMA ChangeStep ==
  ASSUME IInv, NEW path \in Paths, NEW other \in Paths, Change(path, PubkeyHash(other))
  PROVE  IInv'
<1>1. /\ Idle /\ change' = [path |-> path, hash |-> PubkeyHash(other), verdict |-> "none"]
      /\ UNCHANGED <<ctx, g_address, screen, sent, asked, seen>>
  BY DEF Change
<1>2. Call("change", Program("change"), path, stack)
  <2>1. Program("change") = VerifyChange
    BY DEF Program
  <2> QED BY <2>1 DEF Change
<1>3. ~Running /\ screen' = "menu" /\ Verdicts'
  BY <1>1 DEF IInv, Idle, Verdicts
<1>4. change' \in Changes /\ change'.path = path
  BY <1>1 DEF Changes
<1> QED BY <1>1, <1>2, <1>3, <1>4, RoutineBegins, Quiet DEF Routines

LEMMA SignStep ==
  ASSUME IInv, NEW path \in Paths, Sign(path)
  PROVE  IInv'
<1>1. /\ Idle /\ asked' = path /\ ctx' = [ctx EXCEPT !.path = path]
      /\ UNCHANGED <<g_address, screen, sent, seen, change>>
  BY DEF Sign
<1>2. Call("sign", Program("sign"), path, stack)
  <2>1. Program("sign") = SignTx
    BY DEF Program
  <2> QED BY <2>1 DEF Sign
<1>3. ~Running /\ screen' = "menu" /\ Verdicts'
  BY <1>1 DEF IInv, Idle, Verdicts
<1>4. ctx' \in Contexts /\ ctx'.digest = ctx.digest
  BY <1>1, <1>3, Quiet DEF Contexts
<1> QED BY <1>1, <1>2, <1>3, <1>4, RoutineBegins, Quiet DEF Routines

LEMMA QuietStep ==
  ASSUME IInv, \/ Malformed \/ BeginTx \/ Approved \/ SignEmptyPath \/ IoReset
               \/ RejectXpub \/ ConfirmAddress
  PROVE  IInv'
<1>1. ~Running /\ NoCall /\ UNCHANGED <<g_address, seen, change>>
  <2>1. screen # "menu" => ~Running
    BY DEF IInv, Targets
  <2> QED BY <2>1 DEF Malformed, BeginTx, Approved, SignEmptyPath, IoReset, RejectXpub,
                      ConfirmAddress, Idle, History
<1>2. /\ ctx' \in Contexts /\ ctx'.digest \in {Zero, "twice"}
  <2>1. \/ ctx' = ZeroCtx \/ ctx' = ctx
        \/ ctx' = [ZeroCtx EXCEPT !.state = "RECV_DATA"]
        \/ ctx' = [ctx EXCEPT !.state = "APPROVED"]
    BY DEF Malformed, BeginTx, Approved, SignEmptyPath, IoReset, RejectXpub, ConfirmAddress,
           Restart
  <2> QED BY <1>1, <2>1, Quiet, ZeroContext DEF Contexts
<1>3. screen' = "menu"
  BY DEF Malformed, BeginTx, Approved, SignEmptyPath, IoReset, RejectXpub, ConfirmAddress,
         Restart, Idle
<1>4. \/ sent' = sent
      \/ \E sw, data : Answer(sw, data) /\ data.kind \notin {"xpub", "signature"}
  <2>1. NoData.kind \notin {"xpub", "signature"}
    BY DEF NoData
  <2>2. sent' = sent \/ \E sw : Answer(sw, NoData)
    BY DEF Malformed, BeginTx, Approved, SignEmptyPath, IoReset, RejectXpub, ConfirmAddress
  <2> QED BY <2>1, <2>2
<1> QED BY <1>1, <1>2, <1>3, <1>4, NoCallStep

LEMMA ApproveXpubStep ==
  ASSUME IInv, ApproveXpub
  PROVE  IInv'
<1>1. /\ screen = "xpub" /\ screen' = "menu"
      /\ UNCHANGED <<todo, routine, target, error, stack, ctx, g_address, History>>
      /\ sent' = [sw |-> "OK", data |-> XpubOf(asked), path |-> asked]
  BY DEF IInv, AnswersPath, ApproveXpub, Answer, NoCall
<1>2. ~Running /\ ~Running'
  BY <1>1 DEF IInv, Targets, Running
<1>3. Types'
  BY <1>1 DEF IInv, Types
<1>4. InOrder' /\ Targets' /\ KeyMade' /\ XpubMade'
  BY <1>2 DEF InOrder, Targets, KeyMade, XpubMade, Works
<1>5. DigestMade' /\ KeysErased' /\ Erasing'
  BY <1>1, <1>2 DEF IInv, DigestMade, KeysErased, Erasing, Works
<1>6. AnswersPath'
  <2>1. sent'.data.kind = "xpub"
    BY <1>1 DEF XpubOf, Xpub
  <2> QED BY <1>1, <2>1 DEF AnswersPath
<1>7. Verdicts'
  BY <1>1 DEF IInv, Verdicts, History
<1> QED BY <1>3, <1>4, <1>5, <1>6, <1>7 DEF IInv

-----------------------------------------------------------------------------
(* The ends of the routines.                                               *)

\* At the label "end" a routine erases its keys, or the calls before it did.
LEMMA ErasedStack ==
  ASSUME IInv, At("end")
  PROVE  /\ Erased \in Stacks /\ Erased.raw_privkey = Zero
         /\ Erased.private_key = Zero /\ Erased.public_key = Zero
<1>1. stack \in Stacks /\ stack.raw_privkey = Zero /\ routine \in Routines
  BY DEF IInv, Types, Erasing, InOrder, At
<1>2. DOMAIN stack = {"raw_privkey", "private_key", "public_key", "chain_code", "hash"}
  BY <1>1 DEF Stacks
<1>3. \A f \in DOMAIN stack : Erased[f] = IF f \in Erases(routine) THEN Zero ELSE stack[f]
  BY DEF Erased
<1>4. "raw_privkey" \notin Erases(routine) /\ "private_key" \in Erases(routine)
  BY DEF Erases
<1>5. "public_key" \in Erases(routine) \/ stack.public_key = Zero
  BY DEF IInv, Erasing, Erases, At
<1>6. /\ Erased.raw_privkey = Zero /\ Erased.private_key = Zero /\ Erased.public_key = Zero
      /\ Erased.chain_code \in {Zero, stack.chain_code}
      /\ Erased.hash \in {Zero, stack.hash}
  BY <1>1, <1>2, <1>3, <1>4, <1>5
<1>7. Erased = [raw_privkey |-> Erased.raw_privkey, private_key |-> Erased.private_key,
                public_key |-> Erased.public_key, chain_code |-> Erased.chain_code,
                hash |-> Erased.hash]
  <2> DEFINE E == [f \in DOMAIN stack |-> IF f \in Erases(routine) THEN Zero ELSE stack[f]]
  <2>1. DOMAIN E = {"raw_privkey", "private_key", "public_key", "chain_code", "hash"}
    BY <1>2
  <2>2. E = [f \in DOMAIN E |-> E[f]]
    BY <1>2
  <2> HIDE DEF E
  <2>3. E = [raw_privkey |-> E.raw_privkey, private_key |-> E.private_key,
             public_key |-> E.public_key, chain_code |-> E.chain_code, hash |-> E.hash]
    BY <2>1, <2>2
  <2> QED BY <2>3 DEF E, Erased
<1> QED BY <1>1, <1>6, <1>7 DEF Stacks, OrZero

\* A routine ends for good.
LEMMA RoutineEnds ==
  ASSUME IInv, At("end"), EndCall, ctx' \in Contexts, ctx'.digest \in {Zero, "twice"},
         screen' \in {"menu", "xpub", "address"}, g_address' = g_address,
         AnswersPath', Verdicts'
  PROVE  IInv'
<1>1. /\ todo' = <<>> /\ UNCHANGED <<routine, target, error>> /\ ~Running'
      /\ stack' = Erased
  BY DEF EndCall, Running
<1>2. Types' /\ KeysErased'
  BY <1>1, ErasedStack DEF IInv, Types, KeysErased
<1>3. InOrder' /\ Targets' /\ KeyMade' /\ XpubMade'
  BY <1>1 DEF InOrder, Targets, KeyMade, XpubMade, Works
<1>4. DigestMade' /\ Erasing'
  BY <1>1, ErasedStack DEF DigestMade, Erasing, Works
<1> QED BY <1>2, <1>3, <1>4 DEF IInv

LEMMA AtEnd ==
  ASSUME IInv, At("end")
  PROVE  /\ Running /\ screen = "menu" /\ target \in Paths /\ routine \in Routines
         /\ ctx \in Contexts
         /\ ~error => Works /\ Left = 1
<1>1. Running /\ Head(todo) = "end" /\ screen = "menu" /\ target \in Paths
  BY DEF IInv, Targets, At
<1>2. routine \in Routines /\ (~error => Rest(routine, todo))
  BY <1>1 DEF IInv, InOrder
<1>3. ASSUME ~error PROVE Left = 1
  BY <1>1, <1>2, <1>3, XpubRest, AddressRest, ShowRest, ChangeRest, SignRest
     DEF Routines, Place, Left
<1> QED BY <1>1, <1>2, <1>3 DEF IInv, Types, Works

LEMMA EndXpubStep ==
  ASSUME IInv, EndXpub
  PROVE  IInv'
<1>1. /\ At("end") /\ routine = "xpub" /\ EndCall /\ UNCHANGED <<ctx, g_address, History>>
  BY DEF EndXpub, Return
<1>2. ctx' \in Contexts /\ ctx'.digest \in {Zero, "twice"}
  BY <1>1, AtEnd DEF IInv, DigestMade
<1>3. Verdicts'
  BY <1>1 DEF IInv, Verdicts, History
<1>4. screen' \in {"menu", "xpub"} /\ AnswersPath'
  <2>1. CASE error
    <3>1. Answer("INTERNAL_ERROR", NoData) /\ screen' = "menu"
      BY <1>1, <2>1, AtEnd DEF EndXpub
    <3>2. sent'.data.kind = "none"
      BY <3>1 DEF Answer, NoData
    <3> QED BY <3>1, <3>2 DEF AnswersPath
  <2>2. CASE ~error
    <3>1. screen' = "xpub" /\ sent' = sent /\ asked' = asked
      BY <1>1, <2>2 DEF EndXpub, History
    <3>2. target = asked /\ Works /\ Left = 1
      BY <1>1, <2>2, AtEnd DEF IInv, Targets
    <3>3. /\ ctx.raw_public_key = Raw(asked) /\ ctx.chain_code = ChainCode(asked)
          /\ ctx.fingerprint = PubkeyHash(Parent(asked))
      BY <1>1, <3>2 DEF IInv, XpubMade
    <3> QED BY <1>1, <3>1, <3>3 DEF IInv, AnswersPath, XpubOf
  <2> QED BY <2>1, <2>2
<1> QED BY <1>1, <1>2, <1>3, <1>4, RoutineEnds

LEMMA EndAddressStep ==
  ASSUME IInv, EndAddress
  PROVE  IInv'
<1>1. At("end") /\ routine = "address" /\ UNCHANGED <<ctx, screen, History>>
  BY DEF EndAddress, Return
<1>2. ctx' \in Contexts /\ ctx'.digest \in {Zero, "twice"} /\ screen' = "menu"
  BY <1>1, AtEnd DEF IInv, DigestMade
<1>3. Verdicts'
  BY <1>1 DEF IInv, Verdicts, History
<1>4. CASE error
  <2>1. EndCall /\ Answer("INTERNAL_ERROR", NoData) /\ g_address' = g_address
    BY <1>4 DEF EndAddress
  <2>2. sent'.data.kind = "none"
    BY <2>1 DEF Answer, NoData
  <2>3. AnswersPath'
    BY <1>2, <2>2 DEF AnswersPath
  <2> QED BY <1>1, <1>2, <1>3, <2>1, <2>3, RoutineEnds
<1>5. CASE ~error
  <2>1. g_address' = Zero /\ sent' = sent /\ asked' = asked
    BY <1>1, <1>5 DEF EndAddress, History
  <2>2. Call("show", Program("show"), target, Erased)
    <3>1. Program("show") = ShowAddress
      BY DEF Program
    <3> QED BY <1>5, <3>1 DEF EndAddress
  <2>3. target = asked' /\ target \in Paths
    BY <1>1, <2>1, AtEnd DEF IInv, Targets
  <2> QED BY <1>1, <1>2, <1>3, <2>1, <2>2, <2>3, RoutineBegins, ErasedStack DEF Routines
<1> QED BY <1>4, <1>5

LEMMA EndShowStep ==
  ASSUME IInv, EndShow
  PROVE  IInv'
<1>1. At("end") /\ routine = "show" /\ EndCall /\ UNCHANGED <<g_address, asked, change>>
  BY DEF EndShow, Return
<1>2. CASE error
  <2>1. Answer("INTERNAL_ERROR", NoData) /\ ctx' = ZeroCtx /\ UNCHANGED <<screen, seen>>
    BY <1>2 DEF EndShow
  <2>2. sent'.data.kind = "none" /\ screen' = "menu"
    BY <1>1, <2>1, AtEnd DEF Answer, NoData
  <2>3. AnswersPath'
    BY <2>2 DEF AnswersPath
  <2>4. Verdicts'
    BY <1>1, <2>1 DEF IInv, Verdicts
  <2> QED BY <1>1, <2>1, <2>2, <2>3, <2>4, RoutineEnds, ZeroContext
<1>3. CASE ~error
  <2>1. /\ screen' = "address" /\ seen' = [path |-> asked, address |-> g_address]
        /\ UNCHANGED <<ctx, sent>>
    BY <1>3 DEF EndShow
  <2>2. g_address = Address(PubkeyHash(asked))
    BY <1>1, <1>3, AtEnd DEF IInv, KeyMade, Targets
  <2>3. AnswersPath'
    BY <1>1, <2>1, <2>2 DEF IInv, AnswersPath
  <2>4. Verdicts'
    BY <1>1, <2>1, <2>2 DEF IInv, Verdicts
  <2>5. ctx' \in Contexts /\ ctx'.digest \in {Zero, "twice"}
    BY <1>1, <2>1, AtEnd DEF IInv, DigestMade
  <2> QED BY <1>1, <2>1, <2>3, <2>4, <2>5, RoutineEnds
<1> QED BY <1>2, <1>3

LEMMA EndChangeStep ==
  ASSUME IInv, EndChange
  PROVE  IInv'
<1>1. At("end") /\ routine = "change" /\ EndCall /\ UNCHANGED <<g_address, asked, seen>>
  BY DEF EndChange, Return
<1>2. change \in Changes /\ change.path = target
  BY <1>1, AtEnd DEF IInv, Targets
<1>3. CASE error
  <2>1. ctx' = ZeroCtx /\ screen' = "menu" /\ UNCHANGED <<sent, change>>
    BY <1>3 DEF EndChange, Restart
  <2>2. AnswersPath' /\ Verdicts'
    BY <1>1, <2>1 DEF IInv, AnswersPath, Verdicts
  <2> QED BY <1>1, <2>1, <2>2, RoutineEnds, ZeroContext
<1>4. CASE ~error
  <2>1. stack.hash = PubkeyHash(change.path)
    BY <1>1, <1>2, <1>4, AtEnd DEF IInv, KeyMade
  <2>2. CASE stack.hash # change.hash
    <3>1. /\ change' = [change EXCEPT !.verdict = "refused"]
          /\ ctx' = ZeroCtx /\ Answer("INVALID_TX", NoData) /\ screen' = "menu"
      BY <1>1, <1>4, <2>2, AtEnd DEF EndChange
    <3>2. /\ change'.path = change.path /\ change'.hash = change.hash
          /\ change'.verdict = "refused"
      BY <1>2, <3>1 DEF Changes
    <3>3. Verdicts'
      BY <1>1, <2>1, <2>2, <3>2 DEF IInv, Verdicts, PubkeyHash, Compressed, Raw
    <3>4. sent'.data.kind = "none"
      BY <3>1 DEF Answer, NoData
    <3>5. AnswersPath'
      BY <3>1, <3>4 DEF AnswersPath
    <3> QED BY <1>1, <3>1, <3>3, <3>5, RoutineEnds, ZeroContext
  <2>3. CASE stack.hash = change.hash
    <3>1. /\ change' = [change EXCEPT !.verdict = "accepted"]
          /\ UNCHANGED <<ctx, screen, sent>>
      BY <1>4, <2>3 DEF EndChange
    <3>2. /\ change'.path = change.path /\ change'.hash = change.hash
          /\ change'.verdict = "accepted"
      BY <1>2, <3>1 DEF Changes
    <3>3. Verdicts'
      BY <1>1, <2>1, <2>3, <3>2 DEF IInv, Verdicts, PubkeyHash, Compressed, Raw
    <3>4. AnswersPath'
      BY <1>1, <3>1 DEF IInv, AnswersPath
    <3>5. ctx' \in Contexts /\ ctx'.digest \in {Zero, "twice"} /\ screen' = "menu"
      BY <1>1, <3>1, AtEnd DEF IInv, DigestMade
    <3> QED BY <1>1, <3>3, <3>4, <3>5, RoutineEnds
  <2> QED BY <2>2, <2>3
<1> QED BY <1>3, <1>4

LEMMA EndSignStep ==
  ASSUME IInv, EndSign
  PROVE  IInv'
<1>1. At("end") /\ routine = "sign" /\ EndCall /\ UNCHANGED <<g_address, History>>
  BY DEF EndSign, Return
<1>2. Verdicts'
  BY <1>1 DEF IInv, Verdicts, History
<1>3. CASE error
  <2>1. ctx' = ZeroCtx /\ screen' = "menu" /\ sent' = sent
    BY <1>3 DEF EndSign, Restart
  <2>2. AnswersPath'
    BY <2>1 DEF IInv, AnswersPath
  <2> QED BY <1>1, <1>2, <2>1, <2>2, RoutineEnds, ZeroContext
<1>4. CASE ~error
  <2>1. /\ Answer("OK", Signature(stack.private_key, ctx.digest))
        /\ UNCHANGED <<ctx, screen>>
    BY <1>4 DEF EndSign
  <2>2. Works /\ Left = 1 /\ target = asked /\ screen' = "menu"
    BY <1>1, <1>4, <2>1, AtEnd DEF IInv, Targets
  <2>3. stack.private_key = asked /\ ctx.digest = "twice"
    BY <1>1, <2>2 DEF IInv, KeyMade, DigestMade
  <2>4. /\ sent'.data = Signature(asked, "twice") /\ sent'.path = asked
        /\ sent'.data.kind = "signature"
    BY <2>1, <2>3 DEF Answer, Signature
  <2>5. AnswersPath'
    BY <2>2, <2>4 DEF AnswersPath
  <2>6. ctx' \in Contexts /\ ctx'.digest \in {Zero, "twice"}
    BY <1>1, <2>1, <2>3, AtEnd
  <2> QED BY <1>1, <1>2, <2>2, <2>5, <2>6, RoutineEnds
<1> QED BY <1>3, <1>4

-----------------------------------------------------------------------------
(* The theorems.                                                           *)

LEMMA InitInv == Init => IInv
<1> SUFFICES ASSUME Init PROVE IInv
  OBVIOUS
<1>1. ~Running
  BY DEF Init, Running
<1>2. Types
  BY ZeroContext DEF Init, Types, Stacks, ZeroStack, OrZero
<1>3. InOrder /\ Targets /\ KeyMade /\ XpubMade
  BY <1>1 DEF InOrder, Targets, KeyMade, XpubMade, Works
<1>4. DigestMade /\ KeysErased /\ Erasing
  BY <1>1, ZeroContext DEF Init, DigestMade, KeysErased, Erasing, ZeroStack, Works
<1>5. AnswersPath /\ Verdicts
  BY DEF Init, AnswersPath, Verdicts, NoAnswer, NoData
<1> QED BY <1>2, <1>3, <1>4, <1>5 DEF IInv

LEMMA StutterStep ==
  ASSUME IInv, UNCHANGED vars
  PROVE  IInv'
<1>1. Types' /\ InOrder' /\ Targets'
  BY DEF IInv, Types, InOrder, Targets, Running, vars
<1>2. KeyMade' /\ XpubMade'
  BY DEF IInv, KeyMade, XpubMade, Works, Running, At, Left, Owner, vars
<1>3. DigestMade' /\ Erasing' /\ KeysErased'
  BY DEF IInv, DigestMade, Erasing, KeysErased, Works, Running, At, Left, vars
<1>4. AnswersPath' /\ Verdicts'
  BY DEF IInv, AnswersPath, Verdicts, vars
<1> QED BY <1>1, <1>2, <1>3, <1>4 DEF IInv

LEMMA NextInv == IInv /\ [Next]_vars => IInv'
<1> SUFFICES ASSUME IInv, [Next]_vars PROVE IInv'
  OBVIOUS
<1>1. CASE \E path \in Paths : GetXpub(path) \/ GetAddress(path) \/ Sign(path)
  BY <1>1, GetStep, SignStep
<1>2. CASE \E path, other \in Paths : Change(path, PubkeyHash(other))
  BY <1>2, ChangeStep
<1>3. CASE \/ Malformed \/ BeginTx \/ Approved \/ SignEmptyPath \/ IoReset
           \/ RejectXpub \/ ConfirmAddress
  BY <1>3, QuietStep
<1>4. CASE ApproveXpub
  BY <1>4, ApproveXpubStep
<1>5. CASE Calls
  BY <1>5, CallsStep
<1>6. CASE Ends
  BY <1>6, EndXpubStep, EndAddressStep, EndShowStep, EndChangeStep, EndSignStep DEF Ends
<1>7. CASE UNCHANGED vars
  BY <1>7, StutterStep
<1> QED BY <1>1, <1>2, <1>3, <1>4, <1>5, <1>6, <1>7 DEF Next

\* Whatever calls of the operating system fail, in whatever order commands come:
\* the next call of a routine finds what the calls before it left for it.
THEOREM Invariant == Spec => []IInv
<1>1. Init => IInv
  BY InitInv
<1>2. IInv /\ [Next]_vars => IInv'
  BY NextInv
<1> QED BY <1>1, <1>2, PTL DEF Spec

\* The context never holds anything but a raw public key, a chain code, the hash of
\* a compressed key and a digest: no private key, no bytes of one, is ever copied
\* from the stack to G_context (get_xpub.c, sign_tx.c, hathor.c).
THEOREM TypeCorrect == Spec => []TypeOK
<1>1. IInv => TypeOK
  BY DEF IInv, Types, Contexts, Stacks, TypeOK, Routines
<1> QED BY <1>1, Invariant, PTL

\* No routine leaves a private key, the bytes it was made of, or the public key it
\* worked on in memory: not when it succeeds, and not when any of its calls to the
\* operating system fails (hathor.c:134-137, get_xpub.c:61-65, sign_tx.c:236-268).
THEOREM KeysErasedHolds == Spec => []KeysErased
<1>1. IInv => KeysErased
  BY DEF IInv
<1> QED BY <1>1, Invariant, PTL

\* What the user is asked about, and what is sent, belongs to the path in the command
\* that is answered: the key, the chain code, its parent's fingerprint, the address,
\* and the key of a signature over the double hash (get_xpub.c:29-59, sign_tx.c:236-268,
\* display.c:443-453).
THEOREM AnswersPathHolds == Spec => []AnswersPath
<1>1. IInv => AnswersPath
  BY DEF IInv
<1> QED BY <1>1, Invariant, PTL

\* An output is accepted as change of a path if, and only if, it pays to the address
\* which the device shows the user for that path, by two routines that derive and
\* hash a key of their own (sign_tx.c:39-54, display.c:443-453).
THEOREM ChangeIsAddressHolds == Spec => []ChangeIsAddress
<1>1. IInv => ChangeIsAddress
  <2> SUFFICES ASSUME IInv, seen # Zero, change # Zero, change.path = seen.path
               PROVE  /\ change.verdict = "accepted" => seen.address = Address(change.hash)
                      /\ change.verdict = "refused" => seen.address # Address(change.hash)
    BY DEF ChangeIsAddress
  <2>1. seen.address = Address(PubkeyHash(change.path))
    BY DEF IInv, Verdicts
  <2>2. change.verdict = "accepted" => change.hash = PubkeyHash(change.path)
    BY DEF IInv, Verdicts
  <2>3. change.verdict = "refused" => change.hash # PubkeyHash(change.path)
    BY DEF IInv, Verdicts
  <2>4. \A hash, other : Address(hash) = Address(other) => hash = other
    BY DEF Address
  <2> QED BY <2>1, <2>2, <2>3, <2>4
<1> QED BY <1>1, Invariant, PTL

===============================================================================
