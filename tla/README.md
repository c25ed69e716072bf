# Verification of the Hathor application for Ledger devices

TLA+ models of the Hathor wallet application (`src/`, C, one thread on the
BOLOS operating system), model-checked with TLC and proved with TLAPS.

## 1. The system

A host (wallet software) sends commands (APDUs) over USB or Bluetooth; the
device answers each with data and a status word. The application keeps
everything in globals: `G_context` (a union of what the commands need, erased
with `explicit_bzero` at many places), `G_token_symbols` (the token registry),
`G_io_state`, `G_output_len`, one APDU buffer, the current UX flow with its
`g_validate_callback`, and one value in flash, `N_storage.secret`.

| component | source | state | operations |
| --- | --- | --- | --- |
| transport and main loop | `src/src/main.c`, `src/src/io.c` | `G_io_state`, `G_output_len`, APDU buffer | `io_recv_command`, `io_send_response`, exceptions, USB reset, restart |
| parser and dispatcher | `src/src/apdu/` | none | refuse a command or call its handler |
| sign transaction | `src/src/handler/sign_tx.c`, `src/src/transaction/` | `G_context.state`, `tx_info` (buffer, hash, counters, decoded outputs, change info, token pointers) | receive a chunk, decode, verify change, sign, finish |
| review screens | `src/src/ui/display.c` | `tx_info.display_index`, `confirmed_outputs`, the flow on the screen | show the next output, skip change, ask for more data, ask to approve, show tokens, addresses, resets |
| buttons and menu | `src/src/ui/action/validate.c`, `src/src/ui/menu.c` | the flow on the screen | approve, reject, quit |
| addresses, extended keys | `src/src/handler/get_address.c`, `get_xpub.c` | `pk_info` | ask the user, answer |
| token signatures | `src/src/token/`, `sign_token_data.c`, `verify_token_signature.c`, `reset_token_signatures.c` | `G_context.token` | sign on approval, verify, reset |
| token registry | `send_token_data.c`, `G_token_symbols` | up to `TX_MAX_TOKENS` uids with symbols | verify and add, erase |
| secret storage | `src/src/storage.c` | `N_storage.secret` | generate on first use or on reset, read |
| pure functions | `src/src/common/`, `src/src/hathor.c` | none | buffers, integers, BIP32 paths, base58, amounts, keys, addresses |
| environment | BOLOS SDK, host | flash, screens, keys, APDU transport | |

How they interact:

* The main loop blocks in `io_recv_command`. A handler either *answers* (the
  answer is queued and transmitted by the next `io_recv_command`) or *asks*: it
  opens a UX flow and returns; `io_recv_command` then waits with
  `IO_ASYNCH_REPLY` and a button callback, running inside `io_exchange`,
  transmits the answer.
* A transaction comes in several SIGN_TX commands; between them the host may
  send anything else, and most handlers erase `G_context` first.
* The registry is filled by SEND_TOKEN_DATA before the transaction, which keeps
  *pointers* into it.
* The flash outlives restarts; all the rest does not.

What is hard: progress is spread over six counters (some relative to the chunk,
some to the transaction) that three entry points advance; change outputs are
skipped by index before or after they arrive; one state has to survive any
other command between two chunks; errors leave by `return`, by `THROW` to the
decoder, or by `THROW` to the main loop; answers are sent from two contexts; a
flag is folded into the first byte of a digest; pointers cross components; a
reset or a power loss may come at any wait. `PROJECT.json` lists these hazards
line by line, each with the property that would show it going wrong.

## 2. Modules

| module | contents |
| --- | --- |
| `SignTx` | SIGN_TX and its review screens: chunks, decoder, change, approval, signing |
| `SignTxInv` | the inductive invariant `IInv` of `SignTx`, in named parts |
| `SignTxProofs` | theorems about `SignTx`: its invariant, the review, the approval, the bytes hashed and decoded, the room of its buffers, the label |
| `TxApprovalProofs` | `SignTx` implements `TxApproval` |
| `TxApproval` | abstract: what SIGN_TX promises the user |
| `MCSignTx` | instances of `SignTx`: the transactions of the runs |
| `RequestReply` | abstract: what the application promises a host |
| `AppIo` | main loop, `io.c`, dispatcher, buttons; refines `RequestReply` |
| `AppIoProofs` | theorems about `AppIo`, the refinement among them |
| `MCAppIo` | an instance of `AppIo`: commands on both sides of each check |
| `Tokens` | secret, token signatures, registry, pointers of a transaction |
| `TokensProofs` | theorems about `Tokens` |
| `MCTokens` | an instance of `Tokens` |
| `HathorApp` | `SignTx` and `Tokens` composed over one `G_context`, registry and screen |
| `HathorAppProofs` | theorems about the composition; it implements both of its parts |
| `MCHathorApp` | an instance of `HathorApp` |
| `KeyCommands` | GET_XPUB, GET_ADDRESS, change verification and signature as sequences of calls that may fail |
| `KeyCommandsProofs` | theorems about `KeyCommands` |
| `MCKeyCommands` | an instance of `KeyCommands` |
| `Buffers` | operators: `buffer.c`, `read.c`, reading a BIP32 path |
| `Parsers` | operators: change info, transaction header, output, token, from their bytes |
| `HostBytes` | operators: how the host encodes what `Parsers` reads |
| `ParsersProofs` | theorems about `Buffers` and `Parsers` |
| `Texts` | operators: amounts, paths, hexadecimal and base58 texts, and the buffers they go to |
| `ReviewSkip` | operators: the loop over the change outputs, as it is written |
| `Calls` | calls the pure operators with inputs of its constants and compares them with references |
| `CallsProofs` | theorems about `Calls` |
| `MCPure` | an instance of `Calls`: bounded inputs |

Operators with "Mutant" in their comment are faulty variants of the definition
that follows them. No specification uses them; substituted for it they show
that the properties are sensitive to the fault.

### SignTx

`ctx` is `G_context` (fields keep their names; `hashed` counts the bytes fed to
the SHA-256 context, `finals` how often it was finalised, `unset` whether
`sighash_all[0]` is zero). A handler runs to completion, so a chunk is one step
into `pc = "decode"`, one step per element, then `pc = "show"` with one step per
output or skipped output; no other action is enabled meanwhile, apart from the
steps of the handler itself. `reply = "PENDING"` while an answer is owed;
`"LOST"` when `app_main` returned before sending it. `tx`, `approved` and
`signed` are history. Correspondence:

| action | code |
| --- | --- |
| `DataFirst`, `DataFirstTruncated`, `DataFirstTwice`, `DataRefused`, `DataNext` | `handler_sign_tx`, `receive_data`, `read_change_info*`, `read_tx_data` |
| `Split`, `DecodeToken`, `TokenFault`, `UnknownToken`, `DecodeInput`, `InputWithData`, `DecodeOutput`, `InvalidOutput`, `ChangeMismatch`, `ChangeRefused`, `TrailingData` | `_decode_elements`, `parse_output`, `verify_change`, `decode_elements` |
| `AskConfirmation`, `RequestTypeOverwritten`, `AskMoreData`, `SkipChange`, `ShowOutput`, `ShowFault` | `ui_display_tx_outputs`, `prepare_display_output`, `skip_change_outputs`, `check_output_index_state` |
| `ConfirmOutput`, `RejectOutput`, `ConfirmTx`, `RejectTx`, `Quit` | the callbacks |
| `SignRefused`, `SignMalformedPath`, `Sign`, `SignFails`, `Done` | stages 1 and 2 of `handler_sign_tx`, `sign_tx_with_key` |
| `DataHashFails`, `AddressFails` | `sighash_all_hash` and `address_from_pubkey_hash` fail |
| `OtherCommand`, `IoReset` | what the rest of the application does to this state |

Abstractions. A transaction is a record of its structure: element counts, and
for each output its length (4- or 8-byte value), whether its script is well
formed or how not, its token data and the key it pays to. A BIP32 path is named
by the key it derives, or `Refused`. `skip_change_outputs` sorts the change
indices and passes over them once, which skips a run of consecutive indices; the
model repeats `SkipChange`, and the first step after a confirmation is part of
`ConfirmOutput` because there the code skips before it looks at the counters.
`SkipIsRun` of `Calls` compares both with the loop itself.
An index outside of `outputs[]` reads whatever lies there or faults
(`ShowFault`). The test of `req_type` and `state` in `ui_display_tx_confirm`
can fail only if `req_type` was overwritten (`RequestTypeOverwritten`). The status word of a truncated first
chunk is `WRONG_DATA_LENGTH`, or `OS_ERROR` when hashing fails after the change
info (the code also has `INVALID_TX`), and the context of a session whose change info breaks off has no
change info; neither matters, because such a session has no outputs. Change
index 255, which no output of at most 255 can have, is left out.

The number of tokens that a transaction declares is any byte, as in the code, which
does not compare it with `TX_MAX_TOKENS`. What the pointers stored behind `tokens[]`
do follows the layout of the context (`types.h:124-145`): the first goes over
`tokens_len`, which then has its next value or one of `Overwritten`
(`NextTokensLen`); the second may go over `req_type`; any later one may also leave
the memory of the application (`TokenFault`). All other modelled fields lie before
`tokens[]`, where an index that only grows does not reach. `TX_MAX_TOKENS` is a
constant of the models so that TLC can go beyond it with few tokens.

`TxApproval` knows nothing of chunks, buffers, counters or screens: outputs
arrive, the user reviews those that arrived, is asked once each of them was
reviewed or declared as change (and, without change, all have arrived), approves,
and only then a digest is signed, always the same one. `Approval` in `SignTx`
maps `stage` to `Stage` (from `G_context.state`), `received` to `current_output`,
`reviewed` to `approved` and `digests` to `signed`; `ImplementsApproval` says that
every step of `SignTx` is a step of `TxApproval` or a stutter.

### AppIo and RequestReply

`AppIo` keeps `G_io_state`, `G_output_len`, what the shared buffer holds, where
the main thread is (`pc`), the flow on the screen and how many outputs are left
to show. What handlers compute is abstracted to the ways they can end:
`Refusals` (parser and dispatcher), `Handled` (the status words of a handler,
exceptions included), `Asks` (the screen it opens) and `HandlerFails` (it
returns a negative number, and the application starts anew). That `io_exchange`
delivers a command only when none is owed an answer is a property of the SDK.
A review of outputs may also end in `INTERNAL_ERROR`, when the address of the next
output cannot be computed (`display.c:304-308`), and SIGN_TX in the error of the
operating system that hashing throws (`sign_tx.c:211`), which `app_main` answers.

`RequestReply` has no `G_io_state`, no buffer and no screens: a command is
received, answered at most once with a status word that is not the command or an
older answer, and an address, key, token signature or new secret is given out
only with the consent of the user. `AppIo` implements it with the identity
mapping on `owed`, `cmd`, `consent` and `sent`, so `KeepsPromise` says that the
machinery in between never sends anything else.

### Tokens

`secret` numbers the random secrets of the device (0: blank flash). A signature
is the pair of secret and message (SHA-256 without collisions, secrets not
guessable), and a message is the uid, symbol followed by name, and version:
exactly what `init_token_signature_message` writes. The host presents signatures
it was given, or other bytes. Actions: `SignTokenData`, `ApproveToken`,
`RejectToken`; `Verify`; `Send`, `SendFull`, `SendMalformed`; `AskReset`,
`ApproveReset`, `RejectReset`; `BeginTx`, `DecodeToken`, `ShowOutput`,
`ConfirmOutput`, `RejectOutput`, `EndTx` for the transaction; `Restart`, which
may also cut a handler off after it wrote the flash. `epoch`, `endorsed`,
`accepted` and `spoilt` are history; `spoilt` says that the registry was erased under
the transaction, or that its pointers ran over `tokens[]`. A pointer of such a
transaction may be `Outside`, and then any symbol may be shown. Between two elements
of a transaction any command may come, since a chunk may end there. A token is an array of bytes in
the code; a NUL inside a symbol, after which `is_printable` stops looking, is
not modelled.

### HathorApp

`SignTx` leaves the registry open (`UnknownToken` may happen for any token) and
sees other commands only as something that may erase the context; `Tokens` leaves
open how a transaction goes on. `HathorApp` instantiates both and makes each step
a conjunction: DecodeToken of `Tokens` finds the uid that the transaction names
(`UidsOf`) and decides whether SIGN_TX goes on; an output is shown through the
pointer that its token data selects (`ShownToken`); commands about tokens erase
the context or leave it (`AboutTokens`, `BetweenChunks`), whatever stage the
transaction is in; and what erases `G_context` erases both halves
(`TokensFollow`, `RestartTokens`). `question` is the screen of `Tokens`; it is
`"output"` while an output of a custom token is shown. `reviewed` is history: as
what each output was approved.

### KeyCommands

A routine is the sequence of its calls (`DeriveXpub`, `DeriveAddress`,
`ShowAddress`, `VerifyChange`, `SignTx`), each of which is a step that works or
`Fails`; `CX_CHECK` is the jump to `"end"`. `stack` holds the local variables of
the routine that ran last, because a variable that is not erased keeps its value
there. Keys are named by their paths, and derivation, compression and hashing are
constructors, so that two of them are equal only if they were made of the same
thing. The digest of the transaction is `Zero`, `"once"` or `"twice"`, according
to how many of the two hashes in place have succeeded. That a finished digest may
begin with a zero byte is left to `SignTx` (`sign_tx_zero_digest`). `Derivable` are the paths
below the `--path` of the Makefile; the operating system refuses others. `asked`,
`seen` and `change` are history.

### Buffers, Parsers, Texts, ReviewSkip

Pure operators with the names of the C functions. An integer of 32 or 64 bits is
the sequence of its bytes, and division and negation work on those, so that no
value is too large for TLC. `SizeMod` is the range of `size_t`. Operators return
the buffer as they leave it, or the exception. Recursion is by recursive
functions. `HostBytes` has the encodings of the host client
(`tests/app_client/transaction.py`). `Calls` has one variable, the input of the
call, which is a member of its constants; it compares what a function makes of the
input with those encodings, with the number that a text stands for, and with a closed
form of the skip loop. `MCPure` gives the constants their values.

## 3. Runs

All passing runs check deadlock.

| run | shows | size |
| --- | --- | --- |
| `sign_tx` | `SignTx` implements `TxApproval`; type invariant, inductive invariant, seven safety properties, `ApprovedFrozen`, and `CommandAnswered` under fairness | 411,000 states |
| `app_io` | `AppIo` implements `RequestReply`; io states; liveness | 2,400 states |
| `tokens` | signatures, registry, pointers | 832,000 states |
| `keys` | what is shown, sent and signed belongs to the path asked for; keys are erased | 926,000 states |
| `hathor_app` | SIGN_TX and the commands about tokens together: what a user approved an output as | 940,000 states |
| `pure` | cursor, parsers, texts, skip loop against references | 93,000 states |
| `sign_tx_split_change`, `sign_tx_change_past_end`, `sign_tx_tokens_overrun`, `sign_tx_zero_digest`, `sign_tx_lost_reply`, `tokens_wiped` | the code departs from its comments, docs or tests: section 6 | counterexamples |

The properties:

* `ApprovedCovers`: at the approval, every decoded output was approved on its own
  screen or was verified as change. `ApprovedCompleteNoChange`: and all of the
  transaction was decoded, if it has no change. `ReviewAligned`: the screen shows
  the output that is being counted. `ApprovedFrozen`: afterwards nothing changes
  it. Together: what is signed is what was reviewed.
* `HashedIsDecoded`: the hash covers exactly the decoded bytes, however they were
  split. `NextChunkFits`: no legal transaction hits the limit of the buffer or of
  `outputs[]`. `LabelCountsProperChange`: "Output i/n" counts the reviewed
  outputs. `SignedOnce`: all signatures are over one digest (for digests that do
  not begin with a zero byte).
* `TypeOK` of `SignTx` speaks of C types, of the bytes in `buffer[]` and of the
  outputs in `outputs[]`; not of `tokens[]` (`TokensWithinArray` fails) nor of where the
  review reads (`ReviewWithinChunk` fails), section 6.
* `CommandAnswered` of `SignTx`: a call under way gets a status word, or a reset ends
  it, through every split and every change info; a lost reply is not an answer. What it
  excepts is stated by `AnswerDue`, on the state of the device, and each part of it is a
  way in which the code does lose the answer: a path that cannot be derived (the handler
  returns a negative number, as in `sign_tx_lost_reply`), a change index equal to the
  number of outputs (`sign_tx_change_past_end`), a change index beyond it over more outputs than
  `outputs[]` has, where the read may fault, and tokens beyond `tokens[]`
  (`sign_tx_tokens_overrun`). TLC finds a counterexample when any of them is dropped.
* `IoStateAgrees`, `QuestionIsOwed`: the three readers of `G_io_state` agree, and
  a button never answers a later command.
* `AcceptedEndorsed`, `SignaturesKept`: the device accepts a signature exactly as
  the user's approvals and resets say, through restarts and interrupted writes,
  although it remembers neither. `RegistryEndorsed`, `ShownEndorsed`,
  `TokensRegisteredUnlessSpoilt`: a symbol on the screen was approved for the
  token of that output, unless the transaction is `spoilt`.

* `ImplementsApproval`: no order of skipped and shown outputs, split of the
  transaction, or command in between leads to the question before every arrived
  output was reviewed or declared as change, nor to a signature before the answer.
* `ApprovedAsEndorsed`: the user approves an output of a custom token under a symbol
  that he approved for the token the transaction names, through the three commands
  and any others between them, unless the transaction is `spoilt`.
  `Coupled`: the halves of `G_context` that the two modules model agree.
* `KeysErased`: no way out of a routine leaves a private key. `AnswersPath`: no
  failure half-way mixes child and parent key, a stale fingerprint or a half-made
  digest into an answer. `ChangeIsAddress`: an output is hidden as change exactly if
  it pays to the address the device would show.
* `CursorStays`, `ChangeInfoRead`, `ElementsRead`: what the host encodes is read back,
  each proper prefix is refused or asks for more, and the cursor is where the next
  element begins. `TextReadsBack`: texts determine what they were made of.
  `TextFits`: what is shown is the whole text. For a path that is a question, because
  `bip32_path_format` cuts a last piece that does not fit and reports success; the 60
  bytes of `g_bip32_path` (which only a build with `UI_SHOW_PATH` has, `display.c:27`) are
  enough for every path that is accepted, 40 would not be. For amounts it holds of symbols
  of three characters, and for no longer ones (section 6).
  `SkipIsRun`: the sorted single pass of the code is the step by step skip of `SignTx`.

### Bounds

* `sign_tx`: 2 keys; transactions of up to 4 outputs with every change info of at
  most two entries for three outputs (any order, repeated, naming no output, wrong
  or refused path), and of 10 outputs of which more arrive than one chunk can
  hold. The first chunk carries 0, 67 or 99 bytes after the header and later ones
  1, 32, 35, 36, 64 or 255: 32, 35, 36 and 64 are element sizes, so that every
  element ends exactly at, before, and after a chunk boundary; 255 is the most an
  APDU holds. Counters have their real width and buffers their real size. What
  larger transactions could add is covered by the proofs, which have no bound.
  `TX_MAX_TOKENS` is 2 here and the transactions declare up to 4 tokens, so that one
  pointer and two are stored behind `tokens[]`; `Overwritten` = {0, 7}: a byte that
  leads back into the array, and one far behind it.
* `app_io`: every instruction, parameters on both sides of each check; `left`
  (bound `MaxOutputs` = 2) is how many more outputs one call shows.
* `tokens`: two tokens of one uid whose symbol and name run together to the same
  bytes and one of another uid; `TX_MAX_TOKENS` = 2, so that it is exceeded,
  by the registry and by transactions of 4 tokens (`Declared`);
  `MaxSecret` = 2, that is a first use and one reset.

* `hathor_app`: two tokens; transactions that name both or one of them, with outputs
  of HTR and change between, and three that are refused or end the application, and
  one of 4 tokens, twice what `tokens[]` holds; a
  registry of 2, so that a third token overflows it; chunks of 32, 35 and 64 bytes, so
  that other commands come between any two elements.
* `keys`: the empty path, the account of the application (whose parent is not
  derivable), a branch and an address of it; any call may fail in each of five
  routines, one after the other in any order.
* `pure`: buffers of up to 4 bytes, with sizes up to 5 and within 5 of the range of
  `size_t`; change info with 0 to 12 entries of 36 paths at the borders of each check;
  all prefixes of each encoding; amounts at every power of ten, 1 to 19 digits, and
  at powers of two; addresses with each byte pattern that carries or does not; up to
  three change indices over reviews of up to five outputs, and indices near 255.

### Fairness

Weak fairness of the steps of a running handler (`Decode \/ Review`; in `AppIo`
the main loop): one thread, whose loops each consume an element. Weak fairness
of the user's decision: a screen waits until a button is pressed, and liveness is
claimed only for users who decide. Nothing is assumed of the host.

## 4. Proofs

`SignTxProofs` proves, for every set of transactions, keys and chunk sizes that
satisfies the assumptions of `SignTx`:

| theorem | statement |
| --- | --- |
| `Invariant` | `Spec => []IInv` |
| `TypeCorrect` | `Spec => []TypeOK`: counters stay in their C types, the bytes in `buffer[]` and the outputs in `outputs[]`, however many tokens are declared |
| `ApprovedCoversHolds` | `Spec => []ApprovedCovers` |
| `ApprovedCompleteHolds` | `Spec => []ApprovedCompleteNoChange` |
| `ReviewAlignedHolds` | `Spec => []ReviewAligned` |
| `ApprovedFrozenHolds` | `Spec => ApprovedFrozen` |

None of the properties is inductive. `IInv` (module `SignTxInv`) adds: which
phases, screens and states go together (`Phases`); that the context belongs to
the transaction being received (`Session`); how far the decoder is (`Progress`);
that slot j of `outputs[]` holds output `Base + j` and that the two review
counters differ by exactly `Base`, up to a wrap of one byte, because the review
of a faulty change info may run past the end (`Aligned`); that change entries of
decoded outputs were verified (`ChangeVerified`); that everything the review has
passed is covered (`PassedCovered`); that each decoded token has its pointer, if the
tokens fit (`TokensCounted`); and that a stopped decoder leaves nothing
behind the last element (`NothingLeft`). The proof has a lemma per action or
group of actions that erase alike (`EraseStep`), and states its argument about
the review once, in `AdvanceAligned` and `ReviewStep`.

The theorem `ApprovedCoversHolds` speaks of decoded outputs; with change, a
transaction may be approved before it is received (section 6), so its
unconditional completeness is not a theorem.

`AppIoProofs` proves, for every set of commands and every number of outputs that
satisfies `MaxOutputsAssumption`:

| theorem | statement |
| --- | --- |
| `Invariant` | `Spec => []IInv` (the `IInv` of this module) |
| `TypeCorrect` | `Spec => []TypeOK` |
| `IoStateAgreesHolds` | `Spec => []IoStateAgrees` |
| `QuestionIsOwedHolds` | `Spec => []QuestionIsOwed` |
| `Implements` | `Spec => KeepsPromise`: `AppIo` implements `RequestReply` |

Its `IInv` adds to the two checked invariants what they rest on: a command that
is being handled is owed its answer and has asked nothing yet (`HandlingInv`); an
answer that waits in the buffer is a status word, and an `OK` only with the
consent the command needs (`QueuedInv`); a handler that left its answer open has
asked (`AskedInv`); and the screens of a transaction belong to a command that
needs no consent (`ScreenInv`). Each lemma takes one kind of step (a restart, a
button that answers, a handler that asks, the transmission of a queued answer) and
concludes at once that `IInv` is kept and that the step is one of `RequestReply`
or a stutter of it; `NextStep` assigns every action of `Next` to one of them. The
refinement is the identity mapping; liveness is not part of it.

`SignTxProofs` goes on, from the same assumptions:

| theorem | statement |
| --- | --- |
| `BytesInvariant` | `Spec => [](IInv /\ BytesInv)` |
| `HashedIsDecodedHolds` | `Spec => []HashedIsDecoded` |
| `NextChunkFitsHolds` | `Spec => []NextChunkFits` |
| `LabelCountsHolds` | `Spec => []LabelCountsProperChange` |

`ChunkRoom`, the added invariant, bounds what is left in the buffer while the decoder
runs and when it stops: what is left then fits next to the longest chunk, and each
output decoded meanwhile has taken at least 32 of the 300 bytes. The lengths of the
outputs are summed in closed form (32 each, and 4 more for each of the long ones), so
that the sum needs lemmas about cardinalities and no recursion; so does the label,
which subtracts change entries on bytes.

`TxApprovalProofs` proves that `SignTx` implements `TxApproval`:

| theorem | statement |
| --- | --- |
| `ApprovalInvariant` | `Spec => [](IInv /\ BytesInv /\ Begun /\ TableDecoded)` |
| `SignedOnceHolds` | `ZeroByte = {FALSE}` implies `Spec => []SignedOnce` |
| `ImplementsApprovalHolds` | `ZeroByte = {FALSE}` implies `Spec => ImplementsApproval` |

`Begun` ties approvals and signatures to a transaction and a state, `TableDecoded` says
that even the old entries of `outputs[]` were decoded, and `DigestOnce` (inductive under
the hypothesis only) that the digest was finalised at most once and the flag says so.
Each action of `SignTx` is then one step of `TxApproval` or a stutter of it. The
hypothesis says that no digest begins with a zero byte. It cannot be dropped: without it
both properties are false, which is what `sign_tx_zero_digest` shows (section 6), because
`sighash_all[0]` doubles as the flag. The other theorems about `SignTx` are proved
without it.

`TokensProofs`, for every set of tokens, every number of secrets and every size of the
registry:

| theorem | statement |
| --- | --- |
| `Invariant` | `Spec => []IInv` |
| `TypeCorrect` | `Spec => []TypeOK` |
| `AcceptedEndorsedHolds` | `Spec => []AcceptedEndorsed` |
| `SignaturesKeptHolds` | `Spec => SignaturesKept` |
| `RegistryEndorsedHolds` | `Spec => []RegistryEndorsed` |
| `TokensRegisteredHolds` | `Spec => []TokensRegisteredUnlessSpoilt` |
| `ShownEndorsedHolds` | `Spec => []ShownEndorsed` |

The device remembers neither approvals nor resets. `Provenance` supplies the record: every
endorsement was signed with a secret the device has had, and with the present one exactly
if no reset was approved since. From this a signature that verifies was endorsed and has
not been revoked.

`HathorAppProofs`, for every instance of both parts that agrees on the tokens of each
transaction (`UidsAssumption`):

| theorem | statement |
| --- | --- |
| `Invariant` | `Spec => []IInv` |
| `CoupledHolds` | `Spec => []Coupled` |
| `ApprovedAsEndorsedHolds` | `Spec => []ApprovedAsEndorsed` |
| `ImplementsSignTx` | `Spec => S!Spec`: the composition is a `SignTx` |
| `ImplementsTokens` | `Spec => T!Spec`: and a `Tokens` |

None of its theorems assumes that the tokens fit in `tokens[]`; where they must, the
property excepts `spoilt`. Its `IInv` is the invariants of both parts, cited from their proofs through `INSTANCE`, and
what joins them: a transaction points to its own tokens in order (`Pointed`); token data
that pass the decoder select one of them (`TokenDataValid`); the screen shows an output
under the uid the transaction names (`OnScreen`); and every approval of such an output is
on record with that uid and an endorsed symbol (`Reviewed`). The last section of
`TxApprovalProofs` says what a step of SIGN_TX looks like from outside: it ends the session
or stays `Within` it. The two refinements justify reading the theorems about the parts as
theorems about the application.

`KeyCommandsProofs`, for every set of paths and every set of derivable ones:

| theorem | statement |
| --- | --- |
| `Invariant` | `Spec => []IInv` |
| `TypeCorrect` | `Spec => []TypeOK` |
| `KeysErasedHolds` | `Spec => []KeysErased` |
| `AnswersPathHolds` | `Spec => []AnswersPath` |
| `ChangeIsAddressHolds` | `Spec => []ChangeIsAddress` |

The invariant follows each routine through its calls: `InOrder` says that what is left is
the end of its program, `Targets` that it works for the last command, `KeyMade` and
`XpubMade` what the next call finds on the stack and in the context, and whose key it is
(GET_XPUB goes on to the parent half-way, `Owner`), `DigestMade` where a digest may be
half-made, and `Erasing` where the raw key is still there.

`ParsersProofs`, for buffers of any bytes, of any length below `SizeMod`:

| theorem | statement |
| --- | --- |
| `CursorStaysEverywhere` | `CursorKept`, which `CursorStays` checks on buffers of up to 4 bytes, for every buffer, cursor and size |
| `TokenReadBack` | a token that parses is in the bytes that were sent, and the signature is right behind it |
| `HeaderReadBack` | the same of the header of a transaction |
| `OutputStable` | what was decided about an output stays so when more bytes arrive |
| `OutputLength` | an accepted output has 32 or 36 bytes, all of them arrived; 36 are enough to decide |

`OutputStable` and `OutputLength` are what `SignTx` takes for granted when it decodes an
output as soon as its bytes are there, and gives it one of two lengths.

`CallsProofs`, for every set of inputs that satisfies the assumptions of `Calls`:

| theorem | statement |
| --- | --- |
| `CursorStaysHolds` | `Spec => []CursorStays` |
| `ElementsReadHolds` | `Spec => []ElementsRead`: outputs and tokens of any bytes |
| `ChangeInfoReadHolds` | `Spec => []ChangeInfoRead`: any number of entries, paths of any length |
| `SkipIsRunHolds` | `Spec => []SkipIsRun`: any counters and any list of indices |

The assumptions say what the code has: buffers are shorter than the range of `size_t`
(`CursorsAssumption`); a change info has at most 255 entries of paths of at most
`MAX_BIP32_PATH` levels (`ChangeAssumption`), an amount is at most 2^63
(`OutputsAssumption`), the lengths of a token are bytes (`TokensAssumption`), and the
counters of a review do not wrap while it skips (`ReviewsAssumption`; `SignTx` has the wrap,
and `Aligned` of `SignTxInv` accounts for it).

What the operators compute is recursive over the bytes and entries of their input. The
induction this takes does not come from the induction theorems of the library but from
`WFMin`: a set of numbers without a least element is empty, so the set of those at which a
claim fails is (`Induction`, `Descent`). From it `Recursion` derives that the function a
recursive definition describes exists, without which nothing is known of it. Two arguments
carry the rest. *Forward*: a parser that finds the bytes of an element at the cursor returns
the element and has passed exactly these bytes (`EntryForward`, `EntriesForward`,
`CodeForward`). *Longer*: what is read of a buffer is also read of a buffer with more behind
it (`EntryLonger`, `ChangeLonger`); so a parser that accepted a proper prefix would accept the
whole and stop at the end of the prefix, which is not where *Forward* says it stops.
`SkipIsRunHolds` rests on the sort: it is a permutation of the indices in ascending order
(`SortSorts`), so that one pass over them meets every index of the run (`PassStep`,
`PassSettles`).

The proofs corrected the models in two places. `Stage` of `SignTx` and `parse_output` were
`CASE` expressions with overlapping guards, whose value TLC takes from the first and TLA+
leaves open; the guards are now disjoint. And the composition lacked its assumptions about
the constants of its parts (`SignTxAssumption`, `TokensAssumption`, `UidsAssumption`,
`NothingAssumption`), without which nothing of them could be used.

Only model-checked: `TextReadsBack` and `TextFits`. What a text stands for is the value
of its digits, and with base 58 and base 256 of arbitrary length that value is a sum of
products of unbounded powers; the induction for it is within reach (see `CallsProofs`),
the arithmetic of its steps is not linear. Liveness (`CommandAnswered`, the answers of
`app_io`) rests on fairness and ENABLED, which are outside of the prover.

## 5. Not modelled

The cryptography of the operating system (keys are names, hashes injective); how
screens are drawn and paged; the bytes of the version; `common/write.c`,
`format_i64` and `format_fpu64`, which only the unit tests call; null pointers, which
no caller passes; the Python client, unit tests, fuzzer and its stubs, which are no
part of the application. That a flash write is atomic and that `io_exchange` delivers
one command at a time is assumed of the SDK. `PROJECT.json` gives
the reason for each component.

## 6. Where the code departs from what it says

* `sign_tx_split_change` (`display.c:340`): a change output that follows the last
  shown output of a chunk is counted before it has arrived; the user is asked to
  approve, and the device signs, a transaction without its last bytes.
* `sign_tx_change_past_end` (`display.c:263`): a change index equal to the number
  of outputs, as the tests draw it that are skipped as hanging
  (`tests/test_sign_cmd.py:27, 38`), makes the review run past the outputs of the chunk.
  Both counters step over the two equalities that end a review; confirming goes on
  through stale outputs, over 255 to 0 and over the end again, and the command is never
  answered, unless a read behind `outputs[]` faults.
* `sign_tx_tokens_overrun` (`sign_tx.c:333`): an eleventh token, which may be one of the
  ten again, has its pointer stored behind `tokens[]`.
* `sign_tx_zero_digest` (`sign_tx.c:241`): a digest that begins with a zero byte is
  finalised again for the next input, which gets another digest signed.
* `sign_tx_lost_reply` (`sign_tx.c:228`): a failing signature is never answered.
* `tokens_wiped` (`send_token_data.c:19`): one token too many erases the registry
  under a transaction in progress.

Seen while modelling, and not given a run: BAD_STATE for a call that skips the
approval does not cancel the process (`sign_tx.c:544`, against
`sign_tx.h:20-21`); a session whose first chunk broke off inside its change info or
header accepts more chunks (`sign_tx.c:564-565` says they are rejected); up to 8 outputs are decoded on a
call (`types.h:121` says 7; the array has 10); with repeated change entries
"Output i/n" miscounts (`display.c:288-293`); a token signature does not cover
the lengths of symbol and name (`doc/TOKEN.md` lists them among the data that is
signed).

From the modules of keys, texts and buffers:

* An amount of 19 digits after a symbol of four characters, or 18 digits after one of
  five, runs over `g_amount` (`display.c:331`); `doc/COMMANDS.md:163` documents
  `SW_DISPLAY_AMOUNT_FAIL`, which is never sent. `TextFits` does not claim these.
* `bip32_path_format` reports success for a last number that `snprintf` cut
  (`bip32.c:68-69`), because it measures what was written; no buffer is that short.
* `base58_encode` returns -1 for a buffer that is too short (`base58.c:135`), which
  `prepare_display_output` does not look at; `TextFits` shows that it does not happen.
* The client encodes an amount in eight bytes only if its bit 31 is set, and raises for
  other amounts from 2^32 on (`tests/app_client/transaction.py:59`); `HostBytes` follows
  `doc/TRANSACTION.md:49`.
* The xpub of `44'/280'/0'` cannot be derived, because its parent is outside of the
  path the application is loaded for; for an empty path the depth of the parent is
  computed as -1 (`get_xpub.c:52`).
* `get_xpub.c:64` erases `chain_code`, of 32 bytes, with the size of a public key, and
  the other routines do not erase their copy of it.
* `buffer_move` advances by the size of the destination and not by what it copied
  (`buffer.c:158`), and stays where it is if that is not possible.
* After the registry was erased under a transaction (`tokens_wiped`), the composed
  model reaches an approval with a symbol on the screen that no one approved for that
  token; `ApprovedAsEndorsed` therefore excepts it.

## 7. Plan

Done: `SignTx` with its refinement of `TxApproval`, `AppIo` with its refinement of
`RequestReply`, `Tokens`, `HathorApp`, `KeyCommands`, and the pure functions. Every safety
and action property that the passing runs check is a theorem (`SignedOnce` and
`ImplementsApproval` for digests that do not begin with a zero byte), except for
`TextReadsBack` and `TextFits`.

Left:

1. A theory of positional numbers, for `TextReadsBack` and `TextFits`.
2. `AppIo` and `HathorApp` composed, so that `CommandAnswered` is about a host.
