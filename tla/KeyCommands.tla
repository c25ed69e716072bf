----------------------------- MODULE KeyCommands -----------------------------
(***************************************************************************)
(* The commands that use a key of the device: GET_XPUB, GET_ADDRESS, the   *)
(* verification of a change output and the signature of an approved        *)
(* transaction (src/handler/get_xpub.c, get_address.c, sign_tx.c,          *)
(* src/hathor.c, src/ui/display.c).                                        *)
(*                                                                         *)
(* Each of them is a routine of calls to the operating system, any of      *)
(* which may fail.  The first that does leads to the label "end", where    *)
(* the routine erases what it must not leave in memory.  The local         *)
(* variables are those of the routine that ran last: what it does not      *)
(* erase stays on the stack.                                               *)
(*                                                                         *)
(* Derivation and hashing are injective: a key is named by its path.       *)
(***************************************************************************)
EXTENDS Integers, Sequences, SequencesExt

CONSTANTS
  Paths,       \* the BIP32 paths a host sends
  Derivable,   \* the paths below the one the application is loaded for
  Zero         \* erased memory

VARIABLES
  ctx,         \* G_context
  todo,        \* what is left of the routine that runs, <<>> if none does
  routine,     \* the routine that runs or ran last
  target,      \* the path, or the change output, the routine is called for
  error,       \* whether a call of the routine failed
  stack,       \* its local variables
  g_address,   \* the address formatted for the screen
  screen,      \* the question to the user, or "menu"
  sent,        \* the answer last sent
  asked,       \* history: the path in the last command
  seen,        \* history: the address last shown, and for which path
  change       \* history: the change output last verified, and the verdict

vars == <<ctx, todo, routine, target, error, stack, g_address, screen, sent, asked, seen, change>>

ASSUME DerivableAssumption == <<>> \notin Derivable

-----------------------------------------------------------------------------
(* Keys (external: the operating system), hashes and addresses.            *)

Raw(path) == [key |-> path, form |-> "raw"]
Compressed(key) == [key EXCEPT !.form = "compressed"]
ChainCode(path) == [chain |-> path]
hash160(key) == [hash |-> key]
Address(hash) == [address |-> hash]
PubkeyHash(path) == hash160(Compressed(Raw(path)))
Xpub(key, chain, fingerprint) ==
  [kind |-> "xpub", key |-> key, chain |-> chain, fingerprint |-> fingerprint]
Signature(private_key, digest) == [kind |-> "signature", key |-> private_key, digest |-> digest]

\* The loop that copies all levels but the last.
Parent(path) == Front(path)

-----------------------------------------------------------------------------
(* The routines, as the calls they make in order.                          *)

GetKey == <<"derive", "init_private", "init_public">>
GetPubkeyHash == GetKey \o <<"compress", "hash">>

\* Mutant: the fingerprint is made of the key as it was generated.
XpubUncompressed == GetKey \o <<"copy", "copy_chain", "derive_parent", "init_private",
                                "init_public", "hash", "copy_fingerprint", "end">>

\* Mutant: the key is copied after the parent was derived into the same place.
XpubCopiedLate == GetKey \o <<"derive_parent", "init_private", "init_public", "copy",
                              "copy_chain", "compress", "hash", "copy_fingerprint", "end">>

DeriveXpub == GetKey \o <<"copy", "copy_chain", "derive_parent", "init_private", "init_public",
                          "compress", "hash", "copy_fingerprint", "end">>
DeriveAddress == GetKey \o <<"copy", "end">>

\* Mutant: the address is made of the hash of the key as it was generated.
ShowUncompressed == GetKey \o <<"hash", "checksum", "show", "end">>

ShowAddress == GetPubkeyHash \o <<"checksum", "show", "end">>
VerifyChange == GetPubkeyHash \o <<"end">>
SignTx == <<"derive", "init_private", "finish", "finish_twice", "sign", "end">>

\* Calls that report no error, and the label at the end.
Infallible == {"copy", "copy_chain", "copy_fingerprint", "show", "end"}

\* Mutant: the routine that signs forgets to erase its key.
ErasesUnlessSigning(r) == IF r = "sign" THEN {} ELSE {"private_key", "public_key"}

\* What a routine erases at its end.
Erases(r) == CASE r = "xpub" -> {"private_key", "public_key", "chain_code", "hash"}
               [] r = "sign" -> {"private_key"}
               [] OTHER -> {"private_key", "public_key"}

-----------------------------------------------------------------------------
\* explicit_bzero(&G_context, sizeof(G_context))
ZeroCtx == [state |-> "NONE", path |-> <<>>, raw_public_key |-> Zero, chain_code |-> Zero,
            fingerprint |-> Zero, digest |-> Zero]

ZeroStack == [raw_privkey |-> Zero, private_key |-> Zero, public_key |-> Zero,
              chain_code |-> Zero, hash |-> Zero]

NoData == [kind |-> "none"]
NoAnswer == [sw |-> "NONE", data |-> NoData, path |-> Zero]

Init == /\ ctx = ZeroCtx
        /\ todo = <<>>
        /\ routine = "none"
        /\ target = Zero
        /\ error = FALSE
        /\ stack = ZeroStack
        /\ g_address = Zero
        /\ screen = "menu"
        /\ sent = NoAnswer
        /\ asked = Zero
        /\ seen = Zero
        /\ change = Zero

Running == todo # <<>>
Idle == ~Running /\ screen = "menu"

\* What the variables of routine r are initialised to; the rest is what was there.
Entered(r, s) == [s EXCEPT !.private_key = Zero, !.public_key = Zero,
                           !.hash = IF r = "xpub" THEN @ ELSE Zero]

Call(r, calls, t, s) == /\ routine' = r
                        /\ todo' = calls
                        /\ target' = t
                        /\ error' = FALSE
                        /\ stack' = Entered(r, s)

\* The path is history: that of the command which is answered.
Answer(sw, data) == sent' = [sw |-> sw, data |-> data, path |-> asked]

NoCall == UNCHANGED <<todo, routine, target, error, stack>>
History == <<asked, seen, change>>

-----------------------------------------------------------------------------
(* Commands.                                                               *)

GetXpub(path) == /\ Idle
                 /\ asked' = path
                 /\ ctx' = [ZeroCtx EXCEPT !.path = path]
                 /\ Call("xpub", DeriveXpub, path, stack)
                 /\ UNCHANGED <<g_address, screen, sent, seen, change>>

GetAddress(path) == /\ Idle
                    /\ asked' = path
                    /\ ctx' = [ZeroCtx EXCEPT !.path = path]
                    /\ Call("address", DeriveAddress, path, stack)
                    /\ UNCHANGED <<g_address, screen, sent, seen, change>>

\* The path of GET_XPUB or GET_ADDRESS does not parse.
Malformed == /\ Idle
             /\ asked' = Zero
             /\ ctx' = ZeroCtx
             /\ Answer("WRONG_DATA_LENGTH", NoData)
             /\ NoCall
             /\ UNCHANGED <<g_address, screen, seen, change>>

\* A transaction begins (see SignTx).
BeginTx == /\ Idle
           /\ ctx.state = "NONE"
           /\ asked' = Zero
           /\ ctx' = [ZeroCtx EXCEPT !.state = "RECV_DATA"]
           /\ NoCall
           /\ UNCHANGED <<g_address, screen, sent, seen, change>>

\* An output to the key with that hash is declared as change of that path.
Change(path, hash) == /\ Idle
                      /\ ctx.state = "RECV_DATA"
                      /\ Call("change", VerifyChange, path, stack)
                      /\ change' = [path |-> path, hash |-> hash, verdict |-> "none"]
                      /\ UNCHANGED <<ctx, g_address, screen, sent, asked, seen>>

\* The user approves the transaction.
Approved == /\ Idle
            /\ ctx.state = "RECV_DATA"
            /\ ctx' = [ctx EXCEPT !.state = "APPROVED"]
            /\ Answer("OK", NoData)
            /\ NoCall
            /\ UNCHANGED <<g_address, screen, History>>

Sign(path) == /\ Idle
              /\ ctx.state = "APPROVED"
              /\ path # <<>>
              /\ asked' = path
              /\ ctx' = [ctx EXCEPT !.path = path]
              /\ Call("sign", SignTx, path, stack)
              /\ UNCHANGED <<g_address, screen, sent, seen, change>>

\* The application starts again; what it left on the stack is still there.
Restart == /\ ctx' = ZeroCtx
           /\ screen' = "menu"

\* The signature of an empty path is refused: its status word is lost.
SignEmptyPath == /\ Idle
                 /\ ctx.state = "APPROVED"
                 /\ Restart
                 /\ NoCall
                 /\ UNCHANGED <<g_address, sent, History>>

IoReset == /\ ~Running
           /\ Restart
           /\ NoCall
           /\ UNCHANGED <<g_address, sent, History>>

-----------------------------------------------------------------------------
(* The calls of a routine.                                                 *)

At(call) == Running /\ Head(todo) = call
Continue == todo' = Tail(todo) /\ UNCHANGED <<routine, target, error>>
OnStack(s) == stack' = s /\ UNCHANGED <<ctx, g_address, screen, sent, History>>
InContext(c) == ctx' = c /\ UNCHANGED <<stack, g_address, screen, sent, History>>

Derive(path) == /\ path \in Derivable
                /\ OnStack([stack EXCEPT !.raw_privkey = path, !.chain_code = ChainCode(path)])
                /\ Continue

DeriveTarget == At("derive") /\ Derive(target)
DeriveParent == At("derive_parent") /\ Derive(Parent(target))

\* derive_private_key erases the bytes it made the key of.
InitPrivate == /\ At("init_private")
               /\ OnStack([stack EXCEPT !.private_key = stack.raw_privkey, !.raw_privkey = Zero])
               /\ Continue

InitPublic == /\ At("init_public")
              /\ OnStack([stack EXCEPT !.public_key = Raw(stack.private_key)])
              /\ Continue

\* compress_public_key works in place.
Compress == /\ At("compress")
            /\ OnStack([stack EXCEPT !.public_key = Compressed(@)])
            /\ Continue

Hash == /\ At("hash")
        /\ OnStack([stack EXCEPT !.hash = hash160(stack.public_key)])
        /\ Continue

\* The public key of the context, its chain code, and the hash of its parent.
CopyKey == At("copy") /\ InContext([ctx EXCEPT !.raw_public_key = stack.public_key]) /\ Continue
CopyChain == At("copy_chain") /\ InContext([ctx EXCEPT !.chain_code = stack.chain_code]) /\ Continue
CopyFingerprint == /\ At("copy_fingerprint")
                   /\ InContext([ctx EXCEPT !.fingerprint = stack.hash])
                   /\ Continue

\* address_from_pubkey_hash only appends a checksum.
Checksum == At("checksum") /\ OnStack(stack) /\ Continue

Show == /\ At("show")
        /\ g_address' = Address(stack.hash)
        /\ UNCHANGED <<ctx, stack, screen, sent, History>>
        /\ Continue

\* sha256d in place: unless sighash_all holds the digest, the hash of the data
\* is finished into it, and then hashed once more.
Finish == /\ At("finish")
          /\ IF ctx.digest = Zero
             THEN InContext([ctx EXCEPT !.digest = "once"]) /\ Continue
             ELSE /\ OnStack(stack)
                  /\ todo' = Tail(Tail(todo))
                  /\ UNCHANGED <<routine, target, error>>
FinishTwice == At("finish_twice") /\ InContext([ctx EXCEPT !.digest = "twice"]) /\ Continue

\* cx_ecdsa_sign_no_throw, into a local buffer.
EcdsaSign == At("sign") /\ OnStack(stack) /\ Continue

\* A call fails: derive_private_key erases its keys, and the routine ends.
Fails == /\ Running
         /\ Head(todo) \notin Infallible
         /\ stack' = IF Head(todo) \in {"derive", "derive_parent", "init_private"}
                     THEN [stack EXCEPT !.raw_privkey = Zero, !.private_key = Zero]
                     ELSE stack
         /\ todo' = <<"end">>
         /\ error' = TRUE
         /\ UNCHANGED <<ctx, routine, target, g_address, screen, sent, History>>

Calls == \/ DeriveTarget \/ DeriveParent \/ InitPrivate \/ InitPublic \/ Compress \/ Hash
         \/ CopyKey \/ CopyChain \/ CopyFingerprint \/ Checksum \/ Show
         \/ Finish \/ FinishTwice \/ EcdsaSign \/ Fails

-----------------------------------------------------------------------------
(* The end of a routine, and what the handler does then.                   *)

Erased == [f \in DOMAIN stack |-> IF f \in Erases(routine) THEN Zero ELSE stack[f]]

Return(r) == At("end") /\ routine = r
EndCall == stack' = Erased /\ todo' = <<>> /\ UNCHANGED <<routine, target, error>>

\* The user is asked, or the exception is answered and the context kept.
EndXpub == /\ Return("xpub")
           /\ EndCall
           /\ IF error THEN Answer("INTERNAL_ERROR", NoData) /\ UNCHANGED screen
                       ELSE screen' = "xpub" /\ UNCHANGED sent
           /\ UNCHANGED <<ctx, g_address, History>>

\* The address on the screen is derived once more, into a cleared g_address.
EndAddress == /\ Return("address")
              /\ IF error
                 THEN EndCall /\ Answer("INTERNAL_ERROR", NoData) /\ UNCHANGED g_address
                 ELSE /\ Call("show", ShowAddress, target, Erased)
                      /\ g_address' = Zero
                      /\ UNCHANGED sent
              /\ UNCHANGED <<ctx, screen, History>>

EndShow == /\ Return("show")
           /\ EndCall
           /\ IF error
              THEN /\ Answer("INTERNAL_ERROR", NoData) /\ ctx' = ZeroCtx
                   /\ UNCHANGED <<screen, seen>>
              ELSE /\ screen' = "address" /\ seen' = [path |-> asked, address |-> g_address]
                   /\ UNCHANGED <<ctx, sent>>
           /\ UNCHANGED <<g_address, asked, change>>

\* An error restarts the application, another hash cancels the transaction.
EndChange ==
  /\ Return("change")
  /\ EndCall
  /\ CASE error -> Restart /\ UNCHANGED <<sent, change>>
       [] ~error /\ stack.hash # change.hash ->
            /\ change' = [change EXCEPT !.verdict = "refused"]
            /\ ctx' = ZeroCtx /\ Answer("INVALID_TX", NoData) /\ UNCHANGED screen
       [] OTHER ->
            /\ change' = [change EXCEPT !.verdict = "accepted"]
            /\ UNCHANGED <<ctx, screen, sent>>
  /\ UNCHANGED <<g_address, asked, seen>>

\* io_send_sw(...) > 0 is false: app_main returns, and main starts it again.
EndSign == /\ Return("sign")
           /\ EndCall
           /\ IF error
              THEN Restart /\ UNCHANGED sent
              ELSE /\ Answer("OK", Signature(stack.private_key, ctx.digest))
                   /\ UNCHANGED <<ctx, screen>>
           /\ UNCHANGED <<g_address, History>>

Ends == EndXpub \/ EndAddress \/ EndShow \/ EndChange \/ EndSign

-----------------------------------------------------------------------------
(* Buttons.                                                                *)

\* helper_send_response_xpub
ApproveXpub ==
  /\ screen = "xpub"
  /\ Answer("OK", Xpub(ctx.raw_public_key, ctx.chain_code, ctx.fingerprint))
  /\ screen' = "menu"
  /\ NoCall
  /\ UNCHANGED <<ctx, g_address, History>>

RejectXpub == /\ screen = "xpub"
              /\ ctx' = ZeroCtx
              /\ Answer("DENY", NoData)
              /\ screen' = "menu"
              /\ NoCall
              /\ UNCHANGED <<g_address, History>>

ConfirmAddress == /\ screen = "address"
                  /\ Answer("OK", NoData)
                  /\ screen' = "menu"
                  /\ NoCall
                  /\ UNCHANGED <<ctx, g_address, History>>

Next == \/ \E path \in Paths : GetXpub(path) \/ GetAddress(path) \/ Sign(path)
        \/ \E path, other \in Paths : Change(path, PubkeyHash(other))
        \/ Malformed \/ BeginTx \/ Approved \/ SignEmptyPath \/ IoReset
        \/ Calls \/ Ends \/ ApproveXpub \/ RejectXpub \/ ConfirmAddress

Spec == Init /\ [][Next]_vars

-----------------------------------------------------------------------------
(* Properties.                                                             *)

Known == Paths \cup {Parent(path) : path \in Paths \ {<<>>}}
PublicKeys == {[key |-> path, form |-> f] : path \in Known, f \in {"raw", "compressed"}}
OrZero(S) == S \cup {Zero}

\* Every variable holds what it is declared for, and only raw public keys,
\* their chain codes and hashes of compressed keys reach the context.
TypeOK ==
  /\ ctx.state \in {"NONE", "RECV_DATA", "APPROVED"}
  /\ ctx.path \in Paths \cup {<<>>}
  /\ ctx.raw_public_key \in OrZero({Raw(path) : path \in Known})
  /\ ctx.chain_code \in OrZero({ChainCode(path) : path \in Known})
  /\ ctx.fingerprint \in OrZero({PubkeyHash(path) : path \in Known})
  /\ ctx.digest \in OrZero({"once", "twice"})
  /\ routine \in {"none", "xpub", "address", "show", "change", "sign"}
  /\ stack.raw_privkey \in OrZero(Known) /\ stack.private_key \in OrZero(Known)
  /\ stack.public_key \in OrZero(PublicKeys)
  /\ g_address \in OrZero({Address(PubkeyHash(path)) : path \in Known})
  /\ screen \in {"menu", "xpub", "address"}

\* However a routine ends, it leaves no private key in memory, nor the public
\* key it worked on (hathor.c:134-137, get_xpub.c:61-65).
KeysErased == ~Running => /\ stack.raw_privkey = Zero
                          /\ stack.private_key = Zero
                          /\ stack.public_key = Zero

XpubOf(path) == Xpub(Raw(path), ChainCode(path), PubkeyHash(Parent(path)))

\* What the user is asked about, and what is sent, belongs to the path in the
\* command that is answered: the key, its chain code, the fingerprint of its
\* parent, the address; and a signature is by the key of that path, over the
\* double hash, whatever failed in the commands before
\* (get_xpub.c:29-59, sign_tx.c:236-268, display.c:443-453).
AnswersPath ==
  /\ screen = "xpub" => Xpub(ctx.raw_public_key, ctx.chain_code, ctx.fingerprint) = XpubOf(asked)
  /\ screen = "address" => g_address = Address(PubkeyHash(asked))
  /\ sent.data.kind = "xpub" => sent.data = XpubOf(sent.path)
  /\ sent.data.kind = "signature" => sent.data = Signature(sent.path, "twice")

\* The device accepts an output as change of a path exactly when the output
\* pays to the address it shows the user for that path: two routines that
\* hash a key of their own each (sign_tx.c:39-54, display.c:443-453).
ChangeIsAddress ==
  seen # Zero /\ change # Zero =>
    (change.path = seen.path =>
       /\ change.verdict = "accepted" => seen.address = Address(change.hash)
       /\ change.verdict = "refused" => seen.address # Address(change.hash))

===============================================================================
