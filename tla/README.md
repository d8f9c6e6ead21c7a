# Verification of mikaki's managed work and messaging

mikaki is an OpenID provider on Cloudflare Workers. Beside the provider proper
it does two things whose correctness lies in the interplay of several stores:

* *managed work*: with an owner's consent it copies source material into a
  provider repository, using short-lived credentials that it mints, uses,
  revokes and proves dead. Its authority data is in a D1 database that an
  operator can restore to an earlier state, so an independent Durable Object
  keeps a write-ahead checkpoint of it, and a journal of every external effect;
* *messaging*: end-to-end encrypted conversations of browser devices. A device
  keeps an encrypted journal that its server cannot read but witnesses, so that
  a cloned or restored profile is noticed, and a ledger of closes, rejoins and
  device replacements that it must always be able to open again.

This directory holds TLA+ models of these parts, TLC runs over small instances
and TLAPS proofs.

## 1. Inventory

`W/` stands for `src/crates/worker/src/`, `E/` for
`src/crates/work-effect-worker/`, `U/` for `src/crates/worker/ui/messaging/`.

| Component | State | Operations | Talks to |
|---|---|---|---|
| Authority ledger (`work-checkpoint-worker/worker.ts`) | published checkpoint, pending and last permit, release floor, freeze | `begin`, `commit`, `status`, `raiseFloor`, `freeze` | called by the OP and the operator; every handler is one synchronous transaction |
| Checkpointed D1 writes (`W/work_store/checkpoint.rs`, migration 0011) | the marker row in D1, batches under way | `checkpoint_batch`, `settle_checkpoint`, `reconcile_authority_checkpoint`, `current_authority_checkpoint` | ledger, D1 |
| Mint journal (same Durable Object) | one record per credential slot | `claimMint`, `observeMint`, `custodyMint`, `revokeMint`, `closeMint`, `beginMintCleanup`, `recordMintCleanup`, `closeMintRefused` | mint gate, reconciler, closer |
| Mint gate, reconciler, closer (`E/mint*.ts`, `W/work_effect/refusal.rs`) | the memory of a call | `#mint`, `#reconcile`, close with a bearer probe | journal, OP, provider |
| Credential rows (`W/work_store/credentials.rs`, migration 0009) | state, observation, sealed secret, receipt | reserve, dispatch, capture, require revocation, confirm closed | D1 through `checkpoint_batch` |
| Copy job and workflow (`W/work_store/copy_job.rs`, `work-copy-worker/worker.ts`, migration 0014) | job row (state, next step, inflight, revision), workflow instance | start, advance, block, cleanup, drain, `run()` | OP, gates, consent |
| Initial repository effect (`E/worker.ts`, `E/reconcile.ts`) | effect records | `claimEffect`, `observeEffect`, `closeEffect`, ... | provider |
| Git use (`E/git.ts`, `E/git-transport.ts`, `W/work_effect/git.rs`) | the `git` part of a mint record, the memory of four nested calls | `claimGit`, `takeGit`, `finishGit`; gate, `execute`, transport | journal, OP, provider, Git host |
| Git host (`work-git-host-worker/worker.ts`, `scripts/work-git-*.ts`) | retained attempts, preflight, ready, an in-memory flag | `prepare`, `fetch`, push, readback | transport, provider |
| Preparations, consent (`W/work_store/preparations.rs`, `copy_consent.rs`, `W/work_effect/preparation.rs`, migrations 0007, 0013) | preparation and consent rows | reserve, dispatch, verify, cleanup; approve, withdraw | D1, the journal's evidence |
| Device journal and witness (`U/device-store.ts`, `U/http-witness.ts`, `W/messaging.rs`) | sealed record (head, pending) per profile, witnessed head | `bootstrap`, `request`, outboxes through `#locked`, `#synchronize`, `#persist` | IndexedDB, Web Locks, witness |
| Conversation ledger (`U/device-store.ts` `#apply`, `#open`; MLS engine in `design/probes/mls/src/bound.rs`) | invitation, recoveries, replacements, stops, outbox, MLS group with its fences | invite, join, close, rejoin, veto, replace, stop, approve a key | journal, messaging service |
| Admission and mail (`U/vault-device.ts`, `U/chat-view.ts`, `W/messaging_invitation.rs`, `W/messaging_delivery.rs`, `W/messaging_recovery.rs`) | channel row, packets, mailbox; the memory of a sync | approve, sync an admission, send, sync the mail, close | journal, HTTP service |
| The provider and the rest (tokens, passkeys, logout delivery, vault, agent access, clients) | see `PROJECT.json` | | |

What is hard about this code, and what the properties are aimed at:

* every `await` is a point where another request runs, and a request goes on
  after its caller timed out, was replayed or died;
* a reply may be lost although the call took effect, in D1, in the Durable
  Object and at the provider; a D1 batch may even execute after its result was
  given up;
* D1 may be restored behind everybody's back, the ledger not;
* D1, the Durable Object, the provider and the workflow engine are four stores
  with no common transaction: every protocol is an ordering of single writes;
* several entry points (gate, reconciler, closer, owner's stop, drain) work on
  one credential or job at the same time;
* a caller that gives up does not stop its callee: a push may reach a repository
  after everybody has written it off;
* a browser profile can be cloned or restored, tabs come and go between any two
  awaits, and what a device has sealed it must be able to open for ever.

The properties that make each part correct: a marker names one content and a
rolled-back database never passes as current (authority); at most one token per
slot, evidence that is true and closure that is proven (mint); one gate call per
step, one credential at a time, and a stop that holds (copy job); a bearer that
is sent once, under consent, and a verified preparation that really is a copy
(Git copy); one receipt per operation and no work on a rolled-back state
(journal); a state that can always be opened again (conversation); texts in
order, once, none lost, and progress (delivery). `PROJECT.json`
lists each hazard at its line with the properties that cover it.

## 2. Modules and the code they model

| Module | What it is |
|---|---|
| `AuthorityHistory` | abstract specification: one linear history of committed batches, the part of it that is published, and reads that either see all of it or are refused |
| `AuthorityCheckpoint` | the protocol between requests, D1 and the ledger |
| `AuthorityCheckpointProofs` | its inductive invariant, the safety theorems and the refinement proof |
| `MintEffect` | one credential slot in its four stores, with concurrent gates, reconcilers and closers |
| `MintEffectProofs` | its inductive invariant and the safety theorems |
| `CopyJob` | the job row, the workflow and any number of requests |
| `CopyJobProofs` | its inductive invariant and the safety theorems |
| `GitCopy` | the Git exchanges of a copy through five programs, and the verification of its preparation |
| `GitCopyProofs` | its inductive invariant and the safety theorems |
| `DeviceLedger` | abstract specification: one ledger of operations and envelopes that only grows |
| `DeviceJournal` | the journal of a device in several profiles and its witness; implements `DeviceLedger` |
| `DeviceJournalProofs` | its inductive invariant, the safety theorems and the refinement proof |
| `ConversationState` | what the commands do to one device's conversation, and what reopening demands of it |
| `ConversationStateProofs` | its inductive invariant and the theorems about ledgers, outbox and engine |
| `ConversationReopenProofs` | what the ledgers are to each other: that the chains of recoveries they name can be followed again, and that what is prepared fits |
| `MessageDelivery` | two devices and the service: admission, mailbox, close |
| `MessageDeliveryProofs` | its inductive invariant and the safety theorems |
| `MC*` | instances for TLC (symmetry sets, small sets of offers, requests and texts) |

### AuthorityCheckpoint

`ledger` is the Durable Object's state, `db` the D1 marker and the set of
operations its tables hold, `past` every state D1 was ever in (what a restore
may bring back), `sent` the batches that left for D1 and were not executed, and
`req[w]` the request `w`: where it is, which permit it holds and what it read.
Each handler of the Durable Object is one operator (`DOBegin`, `DOCommit`,
`Accepts`), because it runs in one synchronous transaction; each `await` of
`checkpoint.rs` is one action. `D1Apply`, `D1Abort` and `D1FenceMissed` execute
a batch that was sent, at any later time: the business batch starts with the
compare-and-swap on the marker and its guard, the fence is a bare `UPDATE` that
succeeds without effect when the marker moved. An error message that is not in
the code's list of definitive aborts is an unknown result, so it is
`BatchReplyLost`. `Crash` ends a request at any await; what it sent stays under
way. Enrolment and bootstrap are the initial state.

Checkpoint digests are modelled by a tip that is fresh for every new permit
(`tips`): the code hashes an operation identifier drawn at random.

### MintEffect

`ledger` is the journal's record of the slot, `native` the D1 row, `past` the
rows a restore may bring back, `token` what the provider holds and `actor[a]`
the memory of a running call. The journal's handlers are guard/update pairs
(`CanCustody`/`Custodied`). A token's metadata is abstracted to what the code
tells apart: as planned, of another scope, with too late an expiry. Receipts are
digests of fields of the record and are represented by what they certify.
`Block` is the state of the authority as this component sees it (a pending
permit, a freeze): D1 writes need `Current`, a claim needs only that nothing is
pending, since the ledger cannot see a restore that happened after the plan was
made.

### CopyJob

`job` is the `work_copy_job` row, `workflow` the one instance, with the
`step.do` it is in, `call[c]` a request to the OP. `TOTAL` is 19 in the code
(four further credentials); here it is `3 + 4 * Slots`, with the same phases in the same order. A
gate is modelled by what it may leave in the credential row (`Outcomes`), which
is what `execute_copy_phase` reads back. `stopped` and `late` are history
variables: how many gates were invoked after the consent was lost or the job
blocked. D1 restores are not in this module: a restored database is one the
authority does not accept (`Freeze`), which is what `AcceptedIsComplete` of
`AuthorityCheckpoint` establishes.

### GitCopy

For every role of a preparation one credential uploads the disclosed commit and,
after it was closed and its bearer refused, another one reads it back. A use is
one gate call and the programs it starts, kept in `call[c]`: the gate, the OP's
`execute`, the transport, the host and the Git program, each with its own
program counter, because each awaits the next and fails alone (`Die`, the
timeouts in `TransportAnswer` and `HostAnswer`, `HostRestart`) while its callee
goes on. `ledger` is the mint record with its `git` part, `row` the credential's
row, `marker` the checkpoint as a count of framed writes: a plan names the
marker it was made at, which is how the ledger and the transport notice a write
they cannot see. `Planned` is `git_effect_plan`, whose two equal reads of the
checkpoint make it one step. `repo` is what the provider's repository holds; a
push is create-only, and that it was accepted does not say what is there, which
only the readback establishes. Minting and closing are one step each
(`MintEffect` has their interleavings); of the initial credential, which creates
the empty repository, only the empty repository is left. The failure of a
host before it has retained the attempt (`Die`) also stands for a container that
is not running.

### DeviceJournal

`made` is every sealed state by its hash, `db[p]` the record of a profile,
`witness` the head of `messaging_generation`, `call[p]` the call that holds the
profile's Web Lock and `inflight` the compare-and-set requests the server has
not executed. A call reads the record and the witness, completes a candidate it
finds prepared (`#synchronize`), and persists its own: prepare locally, advance
the witness, publish locally. `Interrupt` ends it at any await; its request may
still arrive. `CopyProfile` clones a profile, or restores it from a backup.

### ConversationState

One step is one command of `#apply` that succeeds: a command is all or nothing.
The state is the journal's ledgers (`recoveries`, `replacements`, `stops`), the
outbox, the engine's group with its retired groups and its fence, and, of the
service, the verdict on each channel. An offer stands for its channel, its group
and its two endpoints. Hashes and signatures over these are left out; the checks
that compare offers, endpoints, order and counts are kept, in the commands and
in `ReplacementsOpen`, `StopsOpen`, `RecoveriesOpen` and `EngineOK`, which are
what `#open` and `restore` demand.

### MessageDelivery

A journal command is one step, as `DeviceJournal` shows it to be; an HTTP call is
two, since the service may execute it and the client never learn of it. `late`
holds requests whose client is gone; the service may still execute them. The
client's workflows follow `syncInvitation` and `syncDelivery` call by call.
Deadlines pass by `Expire`, for one message at a time; two clocks that differ are
not modelled. The limits (16 messages a sync, 64 unconsumed and 512 messages a
channel) are constants.

## 3. Runs

| Run | Bounds | States | Shows |
|---|---|---|---|
| `authority_checkpoint` | 2 requests, 2 operations, 3 faults, floor up to 2 | 1.39 M | `OneContentPerMarker`, `AcceptedIsComplete`, `AcknowledgedIsPublished`, `RefusedNeverApplied`, `WriteAhead`, and that the protocol implements `AuthorityHistory` |
| `authority_liveness` | 1 operation, 2 faults | 22 k | `CommittedIsPublished`, `RequestsEnd` |
| `mint_effect` | 2 gates and a reconciler, or 1 gate, a reconciler and a closer at a time | 1.92 M | `OneToken`, `EvidenceIsTrue`, `CustodyIsHeld`, `NativeClosureIsProven`, `SafetyIsFinal` |
| `mint_receipts` | 1 gate, 1 reconciler, 1 closer | | violation, see section 6 |
| `copy_job` | 2 requests, 1 slot, 2 faults | 3.10 M | `GateOnce`, `EarlierAreClosed`, `StopFences`, `TerminalIsFinal` |
| `copy_liveness` | 1 request, 1 slot, 4 faults | 137 k | `WorkflowEnds`, `QueuedIsPicked` |
| `copy_stop` | 2 requests, 1 slot, 1 fault | | violation, see section 6 |
| `git_copy` | 1 repository, 2 uses, 1 verification, 1 foreign event | 1.22 M | `OneSend`, `VerifiedIsProven`, `ClosedIsQuiet`, `UseIsConsented` |
| `device_journal` | 2 profiles, 1 operation with 2 commands, 4 sealed states, 1 fault, 1 clone | 1.08 M | `OneReceipt`, `EnvelopesAreFixed`, `NoRollback`, the refinement of `DeviceLedger`, `PreparedIsSettled` |
| `conversation_state` | 5 offers over 3 keys of the peer and 2 of the device, 2 retired groups | 126 k | `Reopens`, `RetirementsAgree`, `OutboxIsCurrent`, `ActivationFits` |
| `message_delivery` | 2 and 1 texts, limit 1, 2 unconsumed, 4 in all, 1 fault, 1 disturbance | 241 k | `InOrderOnce`, `NothingLost`, `JoinsMergedGroup`, `AdmissionSettles`, `TextsArrive` |
| `delivery_full` | the same without faults | | violation, see section 6 |

Why the bounds are enough. Authority: two requests can hold, settle and fence
each other's permit, two operations give a marker with a predecessor that is not
the genesis, and three faults allow a crash, a lost reply and a restore in one
behaviour; the theorems drop all four bounds. Mint: calls come back to idle, so
one identifier makes any number of calls one after the other, and nothing in the
module counts. The constraint `Concurrency` bounds only what overlaps; without
it, two gates, a reconciler and a closer reach 3.9 million states without an
error, and the theorems drop the number of concurrent calls. Copy job: two
requests are the losing and the winning admission, or an advance and a stop; one
slot has every phase; the workflow and the owner may send any number of requests
one after another; the theorems drop all three bounds. `copy_liveness` has a
single request at a time but four faults, so that `retain-copy-stop` exhausts its
three tries. Git copy: two uses are a use and its retry, or an upload that its
callers have given up and the readback; the foreign event is any one of a death,
a timeout, an expiry, a withdrawal, a cleanup, another write or a rollback. With
two foreign events TLC reaches 8.4 million states without an error, and the
theorems drop every bound. Journal: one message and one operation asked for with
two commands are what a conflict needs, four sealed states let a clone fall
behind and catch up; the theorems drop the bounds. Conversation: with six offers
and three retired groups TLC reaches 6 million states without an error.
Delivery: two texts of one device can be overtaken or repeated; with two texts
each, an expiry and a close TLC reaches 1.85 million states without an error.

Deadlock is checked in the authority, the mint and the journal, where something
can always happen. The other modules rightly stop: a copy whose consent is gone
and whose instance ended, a preparation that was cleaned, a conversation whose
offers are used up, a mailbox with nothing left to say.

Each property is also broken once: `PROJECT.json` names, for every property of a
passing run, a definition and a variant of it (`\* Mutant:` in the modules) with
a plausible bug, under which TLC finds the property violated. The types are not
checked in the runs where they are proved (all modules with proofs).

## 4. Fairness

*Authority.* Requests that are under way go on and D1 executes what it was sent
(weak fairness). A pending permit is settled by whoever comes next: the failed
`begin` of any later mutation takes the recovery steps of
`reconcile_authority_checkpoint`, and mutations arrive for ever because the
scheduled `auth_resources::collect` writes through the same `checkpoint_batch`.
`SF_vars(StartReconcile)` stands for that stream. The number of faults is
bounded, that is, faults stop for long enough at some point.

*Copy.* Requests go on (weak fairness). The workflow engine runs its next step
and the cron trigger fires every minute, whether or not other requests are under
way; since a free request identifier is a bound of the model and not of the
system, both are strongly fair. Owner actions, faults, withdrawal and freezing are
not fair at all.

*Journal.* A call in the home profile goes on, the server executes what arrives,
and the owner opens the device again after a failure: weak fairness of
`CallStep(Home)`, of executing requests and of `Begin(Home)`. Clones are not fair,
and `PreparedIsSettled` does not claim anything about a profile once it has been
cloned: the code refuses to work there.

*Delivery.* Each device goes on with what its screen repeats on a timer, and the
service answers: weak fairness of `Progress(d)` for each device. Sending, closing,
expiry, faults and late requests are not fair.

No liveness is claimed for the mint and the Git copy: the code promises that
nobody repeats an effect, not that a cleanup succeeds, and its callers retry by
hand.

## 5. Proofs

`AuthorityCheckpointProofs` proves for every number of requests, operations,
faults and releases: `TypeCorrect`, `OneContent`, `RollbackDetected`,
`AcknowledgedPublished`, `RefusalIsFinal`, `PermitFirst` and `Refinement`. None of the properties is inductive. The invariant `IInv` adds what
the argument is about: *a permit is the only right to move the marker, and it is
held in one place at a time*. It is pending in the ledger, and then either in
the hands of one request before submission, or sent, or resolved; once any D1
state carries the permit's next checkpoint, no batch under way can apply it
again. Its conjuncts are `StoreInv` (marker and content of past states),
`TokenInv` (who holds a permit), `FreshInv` (tips and operations not yet drawn
occur nowhere), `PermitInv` (what a request's permit says about the ledger),
`OutcomeInv` (what a result says about D1), `AckInv` and `RefusalInv` (what was
promised to callers). The assumption is `ConstantsAssumption`. For the
refinement, a step maps to an abstract commit, publication or read, or stutters,
and `IInv` supplies that a successful read sees the whole history.

`MintEffectProofs` proves `MintsOnce`, `EvidenceSound`, `ClosureProven`,
`CustodyHeld`, the action property `SafetyWins` and the types for every number of
gates, reconcilers and closers; it needs no assumption. The properties speak of
the stores, but they depend on what a call remembers across its awaits, so the
invariant has a part per call: `CallInv` says what each step of a call relies
on (the claimant's step: nothing was created yet; a step after an
acknowledgement: the token is dead; a record read earlier: the ledger has at
least its proofs). It survives the steps of others because a token that exists
never becomes unknown, a dead one stays dead, and the ledger's record only grows
(`Grows`). `StartedOnce` says that one call at a time holds the right to create.
`StepHandled` reduces every step to one of the ledger's eight handlers, from
which the action property follows.

`CopyJobProofs` proves `GateIsOnce`, `OneCredentialAtATime`, `StopIsFence`,
`TerminalJob` and the types for every number of credentials, requests and
faults (`ConstantsAssumption`: at least one credential). The invariant is that the
row's `inflight` names a holder: a request between admission and completion holds
exactly the row's next step, and there is only one (`HolderInv`). From it follow
that a step that was entered is behind the row or in flight (`InvokedInv`), that
every step the row has left closed its credential (`ClosedInv`, with
`EarlierStep` for the arithmetic of steps and slots) and that after a stop no
holder is added (`LateInv`).

`GitCopyProofs` proves `SentOnce`, `VerifiedIsACopy`, the action properties
`ClosureSilences` and `UseUnderConsent`, and the types for every number of
repositories, uses, verifications and foreign events (`ConstantsAssumption`: at
least one repository). The invariant: a ledger record only moves forward and is
not touched once it is closed, and the bearer of a closed record is dead
(`RecordInv`); the one right to send passes from the record to the transport that
takes it, which has not sent yet (`SendInv`); a result that reached any program
of a readback was a look at the disclosed objects, and a repository that is not
empty never changes (`ResultInv`); a plan that still names the checkpoint was
made under what the OP's database holds now (`PlanInv`); who has read the
evidence has all of it for good (`VerifyInv`).

`DeviceJournalProofs` proves `OneReceiptHolds`, `EnvelopesHold`, `NoRollbackHolds`,
`JournalImplementsLedger` and the types for every number of profiles, operations,
sealed states, faults and clones. The invariant (`Inductive`) says that every
sealed state extends the one it names as previous by one operation or by
envelopes, and that a request to the witness moves it from a state to one that
extends it. So the ledger of the witnessed head only grows, and whatever was once
witnessed stays within it: the head of every record and every call, and what was
answered or released. The refinement maps the abstract ledger to the witnessed
state.

`MessageDeliveryProofs` proves `ShownInOrderOnce` (`InOrderOnce`), `NoTextIsLost`
(`NothingLost`), `GroupIsMergedFirst` (`JoinsMergedGroup`) and the types for any
number of texts, any limits of journal and mailbox and any faults. The argument
is that a text is numbered once and its number is in one of three places: the
invariant `IInv` says what a device's journal, the mailbox and every call under
way have to do with each other, including calls whose answer is late: a repeated
admission finds its wire by its identifier, a read brings a run of the mailbox
without gaps, an acknowledgement never passes what the device has kept. It was
checked with TLC as an invariant of the `delivery` instance first (2,298,332
states).

`ConversationStateProofs` proves `OutboxNeverStale` (`OutboxIsCurrent`),
`FencesMatchLedgers` (`RetirementsAgree`) and the types for any set of offers and
any limit on retired groups (`OfferAssumption`: what an offer is). `IInv` relates
what five ledgers say of one conversation: where the invitation and its outbox
stand (`InvitationOK`, `OutboxOK`), that the last replacement is the only one
under way (`ReplacementsOpen`, `PendingOK`), that the open stops are a run at the
end of their ledger, apart from each other, and hold the conversation
(`StopsOrdered`, `StopsApart`, `StopsHold`), and that the engine's group, fences
and attested predecessor fit the ledgers (`EngineFit`). `EngineReopens` and
`ReplacementsReopen` are the parts of `Reopens` that follow. A sequence of
restarts retires the groups of several stops at once (`FlattenSeq`); the proofs
speak of the set of its elements and of its first one, which need no induction.

`ConversationReopenProofs` proves the rest of `Reopens`, and so the whole of it
(`AlwaysReopens`): `#persist` seals a state before anything opens it, so a state
that `#open` refuses would lock the device out of its own journal for good.

For `StopsReopen`, the chain of closed recoveries that a stop was linked to must
still be exactly that chain whenever the state is read again. Its invariant
`SInv` is about what ledgers are to each other: recoveries are distinct
(`RecoveriesDistinct`) and name successors (`SuccessorsOK`); the service's
row of a channel has one predecessor, so no channel is both a successor and a
replacement of something (`RowsOK`); a predecessor is replaced by one active
replacement at most (`ActiveOnce`), whose origin the engine has retired
(`OriginRetired`); an activated replacement that was stopped is the current
channel (`NativeOK`); chains stay bridged, because every command on one of their
entries is refused (`ChainsBridged`); stops of one predecessor are retired
together (`RetiredTogether`), and no two stops share a target (`StopsDisjoint`).

`RecoveriesReopen` needs to know that whatever followed a recovery is really
about it, and that nobody comes back to a channel that was left. Its invariant
`RInv` adds to `SInv`:

* what an entry says by itself and next to others: its successor and the vetoes
  it keeps (`EntriesOK`), the entry it goes on from (`LinksOK`), the replacement
  whose target it closes (`TargetsOK`), and what the service knows of it once it
  is decided (`DecidedOK`);
* where the conversation stands: a recovery that nothing has replaced is the
  current channel's (`CurrentIsLast`), what is to be replaced next is that channel
  (`OriginCurrent`), open stops hang on the last recovery (`StopsAtLast`), and
  before the first invitation there is none (`BeforeFirst`);
* that keys only grow newer: the channels this device has been in, or may be in
  next, lead to no key newer than the accepted one (`KnownOK`), a replacement
  leads to a newer key than its origin (`RanksGrow`), and a channel that was
  replaced led to an older key than every channel after it (`Ranked`, `Ahead`);
* what came after a recovery: its successor, a stop or a replacement
  (`Succession`), whose target was nowhere before (`FreshNext`);
* that a veto is final: a vetoed successor is nowhere in the ledgers and does
  not come back (`VetoesFinal`).

`RoomIsKept` (`ActivationFits`) says that what both owners agreed to is never
refused for lack of room: a device counts the groups that a replacement or a
rejoin will retire when it is prepared, and other commands come between that and
its activation. Its invariant `FInv` adds to the others:

* that what a command still has to retire does not grow behind its back: *whatever
  was closed or replaced is retired, or will be by the next activation*
  (`Covered`). What is due is the chain of the last recovery, the origin of the
  replacement whose target it closes, and what the open stops fence; every command
  that adds a recovery, decides a replacement or confirms a stop hands on what was
  due (`DueStays`), and an activation leaves nothing due (`NothingDue`);
* the two counts themselves: of all groups retired or reserved while a replacement
  is under way (`PendingFits`), and of what a rejoin retires (`RejoinFits`);
* what `Covered` needs of single entries: a channel that is not yet closed has no
  successor (`ClosingOK`), the target of an undecided replacement was not closed
  (`PendingFresh`), and a channel that was never a chat is nobody's origin
  (`FailedOK`, `OriginsPlain`).

TLC checked `SInv`, `RInv` and `FInv` first, on the run's instance (126,175
states) and, nearly all of their parts, on two larger ones.

Only model-checked: liveness and everything that needs fairness (`ENABLED` is
out of the prover's reach), and the three violations. Every safety invariant and
every action property of the passing runs is a theorem.

## 6. Findings

* `mint_receipts` (`ClosuresAgree`). `docs/work-artifacts-mint-gate.md:121`
  says that a closed record stays unsynchronized with the OP only under a freeze,
  a pending permit or an old marker. A gate that is between its probe and its
  close while the reconciler and the closer finish the slot leaves both receipts
  in the record; the OP row is closed on one of them and `synchronizeMintClosure`
  presents the other for ever, a conflict at `credentials.rs:938`. The token is
  dead in every such state: the safety properties hold.
* `copy_stop` (`StopIsRetained`). The stop of an interrupted admission is a
  read followed by a compare-and-swap whose result `cleanup_copy_job` drops. When
  it misses or fails, the OP answers `blocked`, the workflow completes and the
  row stays `running`; the scheduled drain lists queued jobs only, so nothing but
  another stop by the owner blocks it. No gate runs again (`GateOnce`,
  `StopFences`): the job is stuck, not unsafe.

* `delivery_full` (`CatchesUp`). `docs/mls-device-delivery.md:50-53` says that
  repeating the sync is enough to catch up. `syncDelivery` sends before it reads
  (`vault-device.ts:1803`), and a send the service refuses because the channel
  has 64 unconsumed (or 512) messages, in both directions together, throws out of
  it before the inbox loop. When both devices have something queued and the
  mailbox is full, no repetition reads anything. Nothing is lost (`NothingLost`),
  and without a full mailbox texts arrive (`TextsArrive`).

A further divergence, without a run: `docs/mls-admission-recovery.md:76-77` says
that synchronization persists `recovery_required` when it confirms closure or
expiry. The screen (`chat-view.ts:374`) calls `approveInvitation` before
`syncInvitation`, and the service refuses an approval on a blocked channel, so
from that screen the command `mark_invitation_failed` is not reached; other
callers of `syncInvitation` reach it.

## 7. Not modelled

The repository has some 83,000 lines of implementation; the modules stand for
about a twelfth of them. What they leave out, and why:

* Cryptography, parsing and formats (WebAuthn, JOSE, CBOR, the MLS protocol below
  `bound.rs`, the `identity` and `browser-wasm` crates): sequential code over
  bytes, with fuzz targets of its own and nothing for a model checker to
  interleave.
* User interfaces (`apps/mikaki-client/ui`, most of `ui/`), the conformance
  fixtures and local parties (`local/`), developer scripts, probes and the site:
  layout, test drivers and process I/O.
* The OpenID provider proper: code, PAR, DPoP and device-grant exchanges are
  mostly guarded SQL statements that consume a row and check their conditions
  in the same statement or batch (for example `enrollment.rs:354-362`), under the
  checkpoint modelled in `AuthorityCheckpoint`; what is left is validation of
  claims. Passkeys, enrolment and logout delivery likewise; a module
  for the retry queue of back-channel logout would be the next one worth writing.
* Vault records, record sharing and agent proposals: compare-and-swap on a
  revision per record. The interesting part, sealed state against a server that
  cannot read it, is what `DeviceJournal` has for messaging.
* The initial repository effect (`E/worker.ts`, `E/reconcile.ts`): its journal has
  the shape of the mint's (claim, observe, close, reconcile, refuse) without
  custody; `GitCopy` starts from its result, an empty repository.
* In modelled components: the reservation and quotas of credentials and
  preparations, prepared task candidates, renewal of messaging bindings, the
  commands only the MLS probes issue, the Git host's container start-up and the
  second fence inside the container.

Hazards without a property: the mint journal's capacity of 256 records
(`work-checkpoint-worker/worker.ts:514`) and the device's operation ledger of 512
entries (`device-store.ts:1167`). Both fail closed, and the code and its documents
promise nothing about what comes after.
