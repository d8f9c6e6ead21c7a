----------------------------- MODULE MintEffect -----------------------------
(***************************************************************************)
(* One upload or readback credential, from admission to closure.           *)
(*                                                                         *)
(* Four stores hold a view of the same token: the independent mint ledger  *)
(* (the record `ledger' of the Durable Object, work-checkpoint-worker),    *)
(* the OP's D1 row (`native', work_store/credentials.rs), the provider's   *)
(* inventory (`token') and the callers' memory (`actor').  The mint gate   *)
(* (mint.ts), the reconciler (mint-reconcile.ts) and the closer (mint-     *)
(* closure.ts) may run at the same time, any number of times; every await  *)
(* is a step boundary, and every call may fail, or take effect and lose    *)
(* its reply, or be the last thing its caller does.                        *)
(*                                                                         *)
(* A token is created at most once per slot, so its metadata is one of     *)
(* four observations: none, as planned ("good"), of another scope, or with *)
(* an expiry beyond the plan ("late").  Receipts are digests of that       *)
(* metadata and are represented by the proof they certify.                 *)
(***************************************************************************)
EXTENDS Naturals

CONSTANTS
    Gate,           \* concurrent calls of the mint gate
    Reconciler,     \* concurrent calls of the mint reconciler
    Closer          \* concurrent calls of the mint closer

\* A call belongs to one entry point.
ASSUME DisjointCallers ==
    /\ Gate \cap Reconciler = {}
    /\ Gate \cap Closer = {}
    /\ Reconciler \cap Closer = {}

VARIABLES
    ledger,         \* the mint ledger's record of the slot
    native,         \* the D1 row of the credential attempt
    past,           \* every row D1 ever held: what a restore may bring back
    preparation,    \* state of the preparation the row belongs to
    token,          \* the token at the provider
    created,        \* createToken calls that took effect
    blocked,        \* the authority has a pending permit, or is frozen
    restored,       \* D1 was restored: its marker is not the published one
    actor           \* the calls under way

vars == <<ledger, native, past, preparation, token, created, blocked, restored,
          actor>>

Observation == {"none", "good", "scope", "late"}
Evidence == {"none", "revoke_acknowledged", "revoked_inventory"}

Record == [state : {"absent", "outcome_unknown", "custodied", "closed"},
           observation : Observation, revoke_acknowledged : BOOLEAN,
           cleanup_requested : BOOLEAN, receipt : BOOLEAN,
           cleanup : Evidence, refusal : BOOLEAN]

NoRecord == [state |-> "absent", observation |-> "none",
             revoke_acknowledged |-> FALSE, cleanup_requested |-> FALSE,
             receipt |-> FALSE, cleanup |-> "none", refusal |-> FALSE]

Row == [state : {"reserved", "dispatched", "captured", "revocation_pending",
                 "closed"},
        observation : Observation, envelope : BOOLEAN, key_version : BOOLEAN,
        receipt : {"none", "gate", "refusal"}]

Reserved == [state |-> "reserved", observation |-> "none", envelope |-> FALSE,
             key_version |-> FALSE, receipt |-> "none"]

GateStep == {"plan", "claim", "before", "create", "observe", "verify",
             "capture", "custody", "abandon", "revoke", "revoked", "probe",
             "inventory", "close", "cleanup", "final", "sync", "fence"}
ReconcilerStep == {"begin", "list", "revoke_id", "revoked_id", "relist",
                   "info", "record", "sync", "sync_cleanup"}
CloserStep == {"unseal", "check", "bearer", "recheck", "reseal", "refuse",
               "latest", "sync"}

\* What a call remembers: the ledger record it holds, the credential it was
\* given back (returned), the metadata it took from it (observed), whether it
\* was asked to cancel, and the evidence it collected (method).
Call == [pc : {"idle"} \cup GateStep \cup ReconcilerStep \cup CloserStep,
         rec : Record, returned : BOOLEAN, observed : Observation,
         cancel : BOOLEAN, method : Evidence]

Idle == [pc |-> "idle", rec |-> NoRecord, returned |-> FALSE,
         observed |-> "none", cancel |-> FALSE, method |-> "none"]

Actor == Gate \cup Reconciler \cup Closer

TypeOK ==
    /\ ledger \in Record
    /\ native \in Row
    /\ past \subseteq Row
    /\ preparation \in {"dispatched", "cleanup_pending"}
    /\ token \in {"none", "active", "revoked", "expired", "absent"}
    /\ created \in Nat
    /\ blocked \in BOOLEAN
    /\ restored \in BOOLEAN
    /\ actor \in [Actor -> Call]

\* current_authority_checkpoint() passes, and checkpoint_batch() commits.
Current == ~blocked /\ ~restored

Init ==
    /\ ledger = NoRecord
    /\ native = Reserved
    /\ past = {Reserved}
    /\ preparation = "dispatched"
    /\ token = "none"
    /\ created = 0
    /\ blocked = FALSE
    /\ restored = FALSE
    /\ actor = [a \in Actor |-> Idle]

-----------------------------------------------------------------------------
(* The mint ledger.  Each handler is one synchronous transaction: a guard  *)
(* on the record r and the record it saves.                                *)

\* Mutant: a slot whose outcome was never observed is admitted again.
ClaimStartsUnobserved(r) ==
    \/ r.state = "absent"
    \/ r.state = "outcome_unknown" /\ r.observation = "none"

\* claimMint: a slot without a record starts; an existing one never again.
ClaimStarts(r) == r.state = "absent"

Claimed(r) == [r EXCEPT !.state = "outcome_unknown"]

\* observeMint
CanObserve(r, o) == r.state # "absent" /\ r.observation \in {"none", o}
Observed(r, o) == [r EXCEPT !.observation = o]

\* Mutant: custody does not look at the cleanup intent.
CanCustodyLate(r) ==
    /\ r.state \in {"outcome_unknown", "custodied"}
    /\ r.observation = "good"
    /\ ~r.revoke_acknowledged

\* custodyMint
CanCustody(r) ==
    /\ r.state \in {"outcome_unknown", "custodied"}
    /\ r.observation = "good"
    /\ ~r.revoke_acknowledged
    /\ ~r.cleanup_requested
Custodied(r) == [r EXCEPT !.state = "custodied"]

\* revokeMint, by the gate and, with safety, by the reconciler
CanRevoke(r, safety) ==
    /\ r.state \in {"outcome_unknown", "custodied"}
    /\ r.observation # "none"
    /\ safety => r.cleanup_requested /\ r.state = "outcome_unknown"
Revoked(r) == [r EXCEPT !.revoke_acknowledged = TRUE,
                        !.cleanup_requested = TRUE,
                        !.state = "outcome_unknown"]

\* closeMint
CanClose(r) ==
    /\ r.state # "absent"
    /\ r.observation = "good"
    /\ r.cleanup_requested
Closed(r) == [r EXCEPT !.state = "closed", !.receipt = TRUE]

\* beginMintCleanup
CanBegin(r, productive) ==
    /\ r.state \in {"outcome_unknown", "custodied"}
    /\ productive \/ r.state = "outcome_unknown"
Begun(r) == [r EXCEPT !.cleanup_requested = TRUE, !.state = "outcome_unknown"]

\* recordMintCleanup
CanRecord(r, o, method) ==
    /\ r.state = "outcome_unknown"
    /\ r.observation # "none" /\ r.observation = o
    /\ r.cleanup_requested
    /\ method = "revoke_acknowledged" => r.revoke_acknowledged
    /\ r.cleanup \in {"none", method}
Recorded(r, method) == [r EXCEPT !.cleanup = method]

\* closeMintRefused
CanRefuse(r, o) ==
    /\ r.state \in {"outcome_unknown", "closed"}
    /\ r.observation # "none" /\ r.observation = o
    /\ r.cleanup # "none"
    /\ r.cleanup_requested
Refused(r) == [r EXCEPT !.refusal = TRUE, !.state = "closed"]

-----------------------------------------------------------------------------
(* The OP's credential row.  Each operation ends in at most one framed     *)
(* batch with a compare-and-swap on the row's revision.                    *)

Write(row) == native' = row /\ past' = past \cup {row}

\* capture_credential with the returned secret.  An observation that is
\* already stored must come with the same sealed secret.  Whoever captures
\* went through the plan, so the row was dispatched before.
CanCapture(row, o) ==
    /\ row.state \in {"dispatched", "captured", "revocation_pending"}
    /\ row.observation = "none" \/ (row.observation = o /\ row.envelope)
CapturedState(row) ==
    IF row.state = "dispatched" /\ preparation = "dispatched"
    THEN "captured" ELSE "revocation_pending"
Captured(row, o) ==
    IF row.observation # "none" THEN row
    ELSE [row EXCEPT !.state = CapturedState(row), !.observation = o,
                     !.envelope = TRUE, !.key_version = TRUE]

\* mint-cleanup: capture_credential without a secret, then
\* require_credential_revocation.
CanCleanup(row, o) ==
    /\ row.state \in {"dispatched", "captured", "revocation_pending"}
    /\ row.observation \in {"none", o}
Cleaned(row, o) == [row EXCEPT !.state = "revocation_pending", !.observation = o]

\* confirm_credential_closed("refused", receipt)
ConfirmedClosed(row, receipt) ==
    [row EXCEPT !.state = "closed", !.envelope = FALSE, !.receipt = receipt]

\* mint_custody_status: the row of exactly this observation and sealing key.
HoldsCustody(row, o) == row.observation = o /\ row.key_version

\* refusal.rs Binding::validate
BindingValid(row, o) ==
    /\ o \in {"good", "late"}
    /\ HoldsCustody(row, o)
    /\ row.state \in {"revocation_pending", "closed"}

\* credential_for_cleanup
Unsealed(row) == row.state = "revocation_pending" /\ row.envelope

-----------------------------------------------------------------------------
(* Steps of a call.                                                        *)

At(a, pc) == actor[a].pc = pc
Goto(a, r) == actor' = [actor EXCEPT ![a] = r]
Continue(a, pc) == Goto(a, [actor[a] EXCEPT !.pc = pc])
Return(a) == Goto(a, Idle)

\* synchronized(env, r): only custody and closure have something to tell the
\* OP; any other record is the answer.
Synchronize(a, r) ==
    IF r.state \in {"custodied", "closed"}
    THEN Goto(a, [Idle EXCEPT !.pc = "sync", !.rec = r]) ELSE Return(a)

ledgerOnly == <<native, past, preparation, token, created, blocked, restored>>
nativeOnly == <<ledger, preparation, token, created, blocked, restored>>
tokenOnly == <<ledger, native, past, preparation, created, blocked, restored>>
stores == <<ledger, native, past, preparation, token, created, blocked,
            restored>>

\* A call ends early: it fails outside every handler of its own, is refused
\* with nothing left to do, or its isolate dies.
Die(a) ==
    /\ ~At(a, "idle")
    /\ Return(a)
    /\ UNCHANGED stores

-----------------------------------------------------------------------------
(* WorkMintGate.#mint, up to custody.                                      *)

GateLookup(g) ==
    /\ At(g, "idle")
    /\ IF ledger.state = "absent"
       THEN Continue(g, "plan")
       ELSE Synchronize(g, ledger)
    /\ UNCHANGED stores

\* op mint-plan: dispatch_credential, unless the row was dispatched before.
\* A lost reply leaves the row dispatched.
GatePlan(g) ==
    /\ At(g, "plan")
    /\ Current
    /\ preparation = "dispatched"
    /\ native.state \in {"reserved", "dispatched"}
    /\ Write([native EXCEPT !.state = "dispatched"])
    /\ Continue(g, "claim") \/ Return(g)
    /\ UNCHANGED nativeOnly

\* The ledger admits the plan on the published checkpoint; whether D1 was
\* restored since the plan was made is not visible to it.
GateClaim(g) ==
    /\ At(g, "claim")
    /\ ~blocked
    /\ IF ClaimStarts(ledger)
       THEN /\ ledger' = Claimed(ledger)
            /\ Continue(g, "before") \/ Return(g)
       ELSE /\ ledger' = ledger
            /\ Synchronize(g, ledger)
    /\ UNCHANGED ledgerOnly

\* The inventory before the mint holds no active token.
GateBefore(g) ==
    /\ At(g, "before")
    /\ token # "active"
    /\ Continue(g, "create")
    /\ UNCHANGED stores

\* createToken: the reply may be lost, hold unusable metadata (o is "none")
\* or no usable plaintext.
GateCreate(g) ==
    /\ At(g, "create")
    /\ token' = "active"
    /\ created' = created + 1
    /\ \E o \in Observation, plaintext \in BOOLEAN :
          Goto(g, [actor[g] EXCEPT !.pc = IF o = "none" THEN "abandon"
                                                        ELSE "observe",
                                   !.returned = plaintext, !.observed = o])
    /\ UNCHANGED <<ledger, native, past, preparation, blocked, restored>>

GateObserve(g) ==
    /\ At(g, "observe")
    /\ CanObserve(ledger, actor[g].observed)
    /\ ledger' = Observed(ledger, actor[g].observed)
    /\ Continue(g, "verify") \/ Continue(g, "abandon")
    /\ UNCHANGED ledgerOnly

\* Mutant: custody is recorded before the OP holds the secret.
GateVerifyCustody(g) ==
    /\ At(g, "verify")
    /\ actor[g].observed = "good" /\ actor[g].returned
    /\ token = "active"
    /\ Continue(g, "custody")
    /\ UNCHANGED stores

\* The returned credential is as planned and the inventory shows it active.
GateVerify(g) ==
    /\ At(g, "verify")
    /\ actor[g].observed = "good" /\ actor[g].returned
    /\ token = "active"
    /\ Continue(g, "capture")
    /\ UNCHANGED stores

\* op capture-mint: custody is claimed only for a row in state captured.
GateCapture(g) ==
    /\ At(g, "capture")
    /\ Current
    /\ CanCapture(native, actor[g].observed)
    /\ Write(Captured(native, actor[g].observed))
    /\ \/ native'.state = "captured" /\ Continue(g, "custody")
       \/ Continue(g, "abandon")
    /\ UNCHANGED nativeOnly

GateCustody(g) ==
    /\ At(g, "custody")
    /\ CanCustody(ledger)
    /\ ledger' = Custodied(ledger)
    /\ \/ Synchronize(g, Custodied(ledger))
       \/ Continue(g, "abandon")
    /\ UNCHANGED ledgerOnly

\* Any check or call of the try block fails.
GateFails(g) ==
    /\ actor[g].pc \in {"before", "create", "observe", "verify", "capture",
                         "custody"}
    /\ Continue(g, "abandon")
    /\ UNCHANGED stores

-----------------------------------------------------------------------------
(* WorkMintGate.#mint, after a failure.                                    *)

\* The cleanup intent comes first, as far as the ledger takes it.
GateAbandon(g) ==
    /\ At(g, "abandon")
    /\ \/ CanBegin(ledger, TRUE) /\ ledger' = Begun(ledger)
       \/ ledger' = ledger
    /\ Continue(g, IF actor[g].returned THEN "revoke" ELSE "final")
    /\ UNCHANGED ledgerOnly

\* Mutant: any end of the revocation call counts as an acknowledgement.
GateRevokeAnyEnd(g) ==
    /\ At(g, "revoke")
    /\ token' \in {token, IF token = "active" THEN "revoked" ELSE token}
    /\ Continue(g, IF actor[g].observed = "none" THEN "final" ELSE "revoked")
    /\ UNCHANGED tokenOnly

\* Revocation by plaintext: it may not reach the provider, and only a
\* positive answer counts as an acknowledgement.
GateRevoke(g) ==
    /\ At(g, "revoke")
    /\ \/ /\ token' = IF token = "active" THEN "revoked" ELSE token
          /\ Continue(g, IF actor[g].observed = "none" THEN "final" ELSE "revoked")
       \/ /\ token' \in {token, IF token = "active" THEN "revoked" ELSE token}
          /\ Continue(g, IF actor[g].observed = "none" THEN "final" ELSE "probe")
    /\ UNCHANGED tokenOnly

GateRevoked(g) ==
    /\ At(g, "revoked")
    /\ \/ CanRevoke(ledger, FALSE) /\ ledger' = Revoked(ledger)
       \/ ledger' = ledger
    /\ Continue(g, "probe")
    /\ UNCHANGED ledgerOnly

\* The bearer itself is refused with 403.
GateProbe(g) ==
    /\ At(g, "probe")
    /\ token # "active"
    /\ Continue(g, "inventory")
    /\ UNCHANGED stores

GateInventory(g) ==
    /\ At(g, "inventory")
    /\ token # "absent"
    /\ actor[g].observed = "good"
    /\ Continue(g, "close")
    /\ UNCHANGED stores

\* Mutant: the OP is told before the ledger retains the proof.
GateCloseEarly(g) ==
    /\ At(g, "close")
    /\ CanClose(ledger)
    /\ Synchronize(g, Closed(ledger))
    /\ UNCHANGED stores

GateClose(g) ==
    /\ At(g, "close")
    /\ CanClose(ledger)
    /\ ledger' = Closed(ledger)
    /\ \/ Synchronize(g, Closed(ledger))
       \/ Continue(g, "cleanup")
    /\ UNCHANGED ledgerOnly

\* Refusal or closure stays unknown.
GateUnconfirmed(g) ==
    /\ actor[g].pc \in {"probe", "inventory", "close"}
    /\ Continue(g, "cleanup")
    /\ UNCHANGED stores

\* op mint-cleanup, as far as the OP takes it.
GateCleanup(g) ==
    /\ At(g, "cleanup")
    /\ \/ /\ Current
          /\ CanCleanup(native, actor[g].observed)
          /\ Write(Cleaned(native, actor[g].observed))
       \/ UNCHANGED <<native, past>>
    /\ Continue(g, "final")
    /\ UNCHANGED nativeOnly

GateFinal(g) ==
    /\ At(g, "final")
    /\ Synchronize(g, ledger)
    /\ UNCHANGED stores

-----------------------------------------------------------------------------
(* Synchronization of the OP with the record a call holds.                 *)

\* op mint-close: a closed row answers by itself, with a conflict if it was
\* closed on another receipt.
MintClose(o) ==
    /\ BindingValid(native, o)
    /\ IF native.state = "closed"
       THEN UNCHANGED <<native, past>>
       ELSE Current /\ Write(ConfirmedClosed(native, "refusal"))

\* op capture-mint-closed: cleanup and closure are batches of their own.
CaptureMintClosed(o) ==
    /\ Current
    /\ CanCleanup(native, o)
    /\ LET cleaned == Cleaned(native, o)
           done == ConfirmedClosed(cleaned, "gate")
       IN  \/ native' = done /\ past' = past \cup {cleaned, done}
           \/ Write(cleaned)

\* Mutant: every retained record is taken for a closure.
SyncUnproven(a) ==
    /\ At(a, "sync")
    /\ IF actor[a].rec.refusal
       THEN MintClose(actor[a].rec.observation)
       ELSE CaptureMintClosed(actor[a].rec.observation)
    /\ Return(a)
    /\ UNCHANGED nativeOnly

\* synchronizeMintClosure, and synchronize of the closer.
SyncClosed(a) ==
    /\ At(a, "sync")
    /\ actor[a].rec.state = "closed"
    /\ a \in Closer => actor[a].rec.refusal
    /\ IF actor[a].rec.refusal
       THEN MintClose(actor[a].rec.observation)
       ELSE CaptureMintClosed(actor[a].rec.observation)
    /\ Return(a)
    /\ UNCHANGED nativeOnly

\* op mint-status: an OP that gave the credential up fences the custody.
GateStatus(g) ==
    /\ At(g, "sync")
    /\ actor[g].rec.state = "custodied"
    /\ Current
    /\ HoldsCustody(native, actor[g].rec.observation)
    /\ IF native.state \in {"revocation_pending", "closed"}
       THEN Continue(g, "fence") ELSE Return(g)
    /\ UNCHANGED stores

GateFence(g) ==
    /\ At(g, "fence")
    /\ CanBegin(ledger, TRUE)
    /\ ledger' = Begun(ledger)
    /\ Return(g)
    /\ UNCHANGED ledgerOnly

-----------------------------------------------------------------------------
(* WorkMintReconciler.#reconcile.                                          *)

\* Custody is touched only by an explicit cancellation.
ReconcileLookup(r, cancel) ==
    /\ At(r, "idle")
    /\ ledger.state # "absent"
    /\ cancel \/ ledger.state # "custodied"
    /\ Goto(r, [Idle EXCEPT !.rec = ledger, !.cancel = cancel,
                            !.pc = IF ledger.state = "closed" THEN "sync"
                                   ELSE IF ledger.cleanup # "none"
                                   THEN "sync_cleanup" ELSE "begin"])
    /\ UNCHANGED stores

\* begin() or cancel(): the intent is durable before any provider call.
ReconcileBegin(r) ==
    /\ At(r, "begin")
    /\ CanBegin(ledger, actor[r].cancel)
    /\ ledger' = Begun(ledger)
    /\ \/ Goto(r, [actor[r] EXCEPT !.pc = "list", !.rec = Begun(ledger)])
       \/ Return(r)
    /\ UNCHANGED ledgerOnly

\* MintSafety.#current: a held repository stops working with the first proof.
Maintainable == ledger.state = "outcome_unknown" /\ ledger.cleanup = "none"

\* The inventory decides what the known token needs; a token that is missing
\* without an acknowledgement, or expired, stays unknown.
ReconcileList(r) ==
    /\ At(r, "list")
    /\ Maintainable
    /\ actor[r].rec.observation # "none"
    /\ \/ /\ token = "absent"
          /\ actor[r].rec.revoke_acknowledged
          /\ Goto(r, [actor[r] EXCEPT !.pc = "info",
                                      !.method = "revoke_acknowledged"])
       \/ /\ token = "active"
          /\ Continue(r, "revoke_id")
       \/ /\ token = "revoked"
          /\ Goto(r, [actor[r] EXCEPT !.pc = "relist",
                                      !.method = "revoked_inventory"])
    /\ UNCHANGED stores

\* MintSafety.revokeToken: only the observed token of the planned scope.
ReconcileRevoke(r) ==
    /\ At(r, "revoke_id")
    /\ Maintainable
    /\ ledger.cleanup_requested
    /\ ledger.observation = actor[r].rec.observation
    /\ ledger.observation # "scope"
    /\ token = "active"
    /\ token' = "revoked"
    /\ Continue(r, "revoked_id") \/ Return(r)
    /\ UNCHANGED tokenOnly

ReconcileRevoked(r) ==
    /\ At(r, "revoked_id")
    /\ CanRevoke(ledger, TRUE)
    /\ ledger' = Revoked(ledger)
    /\ \/ Goto(r, [actor[r] EXCEPT !.pc = "relist",
                                   !.rec.revoke_acknowledged = TRUE,
                                   !.method = "revoke_acknowledged"])
       \/ Return(r)
    /\ UNCHANGED ledgerOnly

ReconcileRelist(r) ==
    /\ At(r, "relist")
    /\ Maintainable
    /\ \/ token = "revoked"
       \/ token = "absent" /\ actor[r].rec.revoke_acknowledged
    /\ Continue(r, "info")
    /\ UNCHANGED stores

\* repo.info(): the broker checks the ledger again before the proof is saved.
ReconcileInfo(r) ==
    /\ At(r, "info")
    /\ Maintainable
    /\ Continue(r, "record")
    /\ UNCHANGED stores

ReconcileRecord(r) ==
    /\ At(r, "record")
    /\ CanRecord(ledger, actor[r].rec.observation, actor[r].method)
    /\ ledger' = Recorded(ledger, actor[r].method)
    /\ \/ Goto(r, [actor[r] EXCEPT !.pc = "sync_cleanup",
                                   !.rec = Recorded(ledger, actor[r].method)])
       \/ Return(r)
    /\ UNCHANGED ledgerOnly

ReconcileSync(r) ==
    /\ At(r, "sync_cleanup")
    /\ Current
    /\ CanCleanup(native, actor[r].rec.observation)
    /\ Write(Cleaned(native, actor[r].rec.observation))
    /\ Return(r)
    /\ UNCHANGED nativeOnly

-----------------------------------------------------------------------------
(* WorkMintCloser, refusal.rs probe and WorkMintRefusalTransport.          *)

CloserLookup(c) ==
    /\ At(c, "idle")
    /\ ledger.cleanup_requested
    /\ ledger.cleanup # "none"
    /\ ledger.observation # "none"
    /\ ledger.state # "custodied"
    /\ Goto(c, [Idle EXCEPT !.rec = ledger,
                            !.pc = IF ledger.state = "closed" THEN "sync"
                                                              ELSE "unseal"])
    /\ UNCHANGED stores

\* probe(): the OP unseals the bearer for the transport.
CloserUnseal(c) ==
    /\ At(c, "unseal")
    /\ BindingValid(native, actor[c].rec.observation)
    /\ Unsealed(native)
    /\ Continue(c, "check")
    /\ UNCHANGED stores

\* The transport's check(), before and after it presents the bearer.
TransportCheck ==
    /\ ledger.state = "outcome_unknown"
    /\ ledger.cleanup_requested
    /\ ledger.cleanup # "none"
    /\ ~ledger.refusal
    /\ \/ token = "revoked"
       \/ token = "absent" /\ ledger.revoke_acknowledged

CloserCheck(c) ==
    /\ At(c, "check")
    /\ TransportCheck
    /\ Continue(c, "bearer")
    /\ UNCHANGED stores

\* The bearer is refused with 403.
CloserBearer(c) ==
    /\ At(c, "bearer")
    /\ token # "active"
    /\ Continue(c, "recheck")
    /\ UNCHANGED stores

CloserRecheck(c) ==
    /\ At(c, "recheck")
    /\ TransportCheck
    /\ Continue(c, "reseal")
    /\ UNCHANGED stores

\* probe() validates the row again before it answers with a proof.
CloserReseal(c) ==
    /\ At(c, "reseal")
    /\ Unsealed(native)
    /\ BindingValid(native, actor[c].rec.observation)
    /\ Continue(c, "refuse")
    /\ UNCHANGED stores

CloserRefuse(c) ==
    /\ At(c, "refuse")
    /\ CanRefuse(ledger, actor[c].rec.observation)
    /\ ledger' = Refused(ledger)
    /\ \/ Synchronize(c, Refused(ledger))
       \/ Continue(c, "latest")
    /\ UNCHANGED ledgerOnly

\* The probe or its retention fails: the latest record decides.
CloserFails(c) ==
    /\ actor[c].pc \in {"unseal", "check", "bearer", "recheck", "reseal",
                         "refuse"}
    /\ Continue(c, "latest")
    /\ UNCHANGED stores

CloserLatest(c) ==
    /\ At(c, "latest")
    /\ IF ledger.state = "closed" THEN Synchronize(c, ledger) ELSE Return(c)
    /\ UNCHANGED stores

-----------------------------------------------------------------------------
(* The provider, the OP's other work and the operator.                     *)

Expire ==
    /\ token = "active"
    /\ token' = "expired"
    /\ UNCHANGED <<ledger, native, past, preparation, created, blocked,
                    restored, actor>>

\* A dead token leaves the inventory.
Purge ==
    /\ token \in {"revoked", "expired"}
    /\ token' = "absent"
    /\ UNCHANGED <<ledger, native, past, preparation, created, blocked,
                    restored, actor>>

\* The preparation goes to cleanup and takes its credentials along.
PreparationCleanup ==
    /\ Current
    /\ preparation = "dispatched"
    /\ preparation' = "cleanup_pending"
    /\ Write(IF native.state \in {"reserved", "dispatched", "captured"}
             THEN [native EXCEPT !.state = "revocation_pending"] ELSE native)
    /\ UNCHANGED <<ledger, token, created, blocked, restored, actor>>

\* A permit becomes pending or is published; a freeze is never lifted.
Block ==
    /\ blocked' = ~blocked
    /\ UNCHANGED <<ledger, native, past, preparation, token, created,
                    restored, actor>>

\* D1 is restored: from now on its marker is refused everywhere.
Restore(row) ==
    /\ row \in past
    /\ native' = row
    /\ restored' = TRUE
    /\ UNCHANGED <<ledger, past, preparation, token, created, blocked, actor>>

-----------------------------------------------------------------------------

GateNext(g) ==
    \/ GateLookup(g) \/ GatePlan(g) \/ GateClaim(g) \/ GateBefore(g)
    \/ GateCreate(g) \/ GateObserve(g) \/ GateVerify(g) \/ GateCapture(g)
    \/ GateCustody(g) \/ GateFails(g) \/ GateAbandon(g) \/ GateRevoke(g)
    \/ GateRevoked(g) \/ GateProbe(g) \/ GateInventory(g) \/ GateClose(g)
    \/ GateUnconfirmed(g) \/ GateCleanup(g) \/ GateFinal(g)
    \/ GateStatus(g) \/ GateFence(g)

ReconcilerNext(r) ==
    \/ \E cancel \in BOOLEAN : ReconcileLookup(r, cancel)
    \/ ReconcileBegin(r) \/ ReconcileList(r) \/ ReconcileRevoke(r)
    \/ ReconcileRevoked(r) \/ ReconcileRelist(r) \/ ReconcileInfo(r)
    \/ ReconcileRecord(r) \/ ReconcileSync(r)

CloserNext(c) ==
    \/ CloserLookup(c) \/ CloserUnseal(c) \/ CloserCheck(c) \/ CloserBearer(c)
    \/ CloserRecheck(c) \/ CloserReseal(c) \/ CloserRefuse(c)
    \/ CloserFails(c) \/ CloserLatest(c)

Next ==
    \/ \E g \in Gate : GateNext(g)
    \/ \E r \in Reconciler : ReconcilerNext(r)
    \/ \E c \in Closer : CloserNext(c)
    \/ \E a \in Actor : SyncClosed(a) \/ Die(a)
    \/ \E row \in past : Restore(row)
    \/ Expire \/ Purge \/ PreparationCleanup \/ Block

Spec == Init /\ [][Next]_vars

-----------------------------------------------------------------------------
(* Properties.                                                             *)

\* The slot mints once: whatever is retried, lost or restored, and however
\* many gate calls race, createToken takes effect at most one time.
OneToken == created <= 1

\* Cleanup evidence in the ledger is true: an acknowledged revocation, a
\* recorded inventory or a closed record means a bearer that is refused, and
\* neither the gate nor the closer closes on an empty list alone.
EvidenceIsTrue ==
    ledger.revoke_acknowledged \/ ledger.cleanup # "none" \/ ledger.state = "closed"
        => token \in {"revoked", "expired", "absent"}

\* The OP erases its encrypted copy only on a proof that the independent
\* ledger retains, whichever of the racing callers brought it.
NativeClosureIsProven ==
    /\ native.receipt = "gate" => ledger.state = "closed" /\ ledger.receipt
    /\ native.receipt = "refusal" => ledger.state = "closed" /\ ledger.refusal

\* The ledger says custodied only while the OP holds, or held and closed, the
\* sealed credential of this observation, unless D1 was restored.
CustodyIsHeld ==
    ledger.state = "custodied" => restored \/ HoldsCustody(native, "good")

\* Safety wins over a mint in flight: after the cleanup intent no step brings
\* custody back, after closure no step reopens the slot, and no handler takes
\* an observation, an acknowledgement or a proof back or replaces it.
SafetyIsFinal ==
    [][/\ ledger.cleanup_requested => /\ ledger'.cleanup_requested
                                      /\ ledger'.state # "custodied"
       /\ ledger.state = "closed" => ledger'.state = "closed"
       /\ ledger.observation # "none" => ledger'.observation = ledger.observation
       /\ ledger.cleanup # "none" => ledger'.cleanup = ledger.cleanup
       /\ ledger.revoke_acknowledged => ledger'.revoke_acknowledged
       /\ ledger.refusal => ledger'.refusal]_vars

\* docs/work-artifacts-mint-gate.md says that a closed record is out of
\* synchronization with the OP only while frozen or pending framing or an old
\* marker prevents it: with a current authority, a closed row carries the
\* receipt that synchronizeMintClosure presents for the closed record.
ClosuresAgree ==
    Current /\ native.state = "closed" /\ ledger.state = "closed"
        => native.receipt = (IF ledger.refusal THEN "refusal" ELSE "gate")
=============================================================================
