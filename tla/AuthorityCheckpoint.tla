------------------------ MODULE AuthorityCheckpoint ------------------------
(***************************************************************************)
(* The write-ahead checkpoint of managed-work authority.                   *)
(*                                                                         *)
(* Two stores take part.  `ledger' is the SQLite Durable Object            *)
(* WorkCheckpoint (work-checkpoint-worker/worker.ts).  `db' is the primary *)
(* D1 database: the single row of work_authority_checkpoint (the marker)   *)
(* and, in `rows', the business batches whose effects the authority tables *)
(* hold.  An OP request runs checkpoint_batch, reconcile_authority_        *)
(* checkpoint or current_authority_checkpoint (work_store/checkpoint.rs);  *)
(* every await is a step boundary.                                         *)
(*                                                                         *)
(* The environment may lose any reply, end a request at any await, deliver *)
(* a submitted D1 batch after its request gave up, and restore D1 to any   *)
(* state it was ever in.  authority and epoch never change after           *)
(* enrollment and are left out of a checkpoint; tips and operation         *)
(* identifiers are random in the code and drawn from counters here.        *)
(***************************************************************************)
EXTENDS Naturals, FiniteSets

CONSTANTS
    Worker,         \* concurrent OP requests
    MaxOperations,  \* bound: mutations start below this many identifiers
    MaxFaults,      \* bound: crashes, lost replies and D1 restores
    MaxFloor        \* bound: highest release floor an operator sets

ASSUME ConstantsAssumption ==
    /\ MaxOperations \in Nat
    /\ MaxFaults \in Nat
    /\ MaxFloor \in Nat \ {0}

VARIABLES
    ledger,         \* the Durable Object's checkpoint_state
    db,             \* the D1 primary
    past,           \* every state D1 was ever in: what a restore may bring back
    sent,           \* batches submitted to D1 and not executed yet
    req,            \* the OP requests
    operations,     \* operation identifiers drawn so far
    tips,           \* tips drawn so far
    acknowledged,   \* operations whose checkpoint_batch returned Ok
    refused,        \* operations returned to the caller as a definitive abort
    faults          \* faults so far

vars == <<ledger, db, past, sent, req, operations, tips,
          acknowledged, refused, faults>>

RELEASE == 1        \* the OP's release

Checkpoint == [sequence : Nat, tip : Nat]
Permit == [operation : Nat, previous : Checkpoint, next : Checkpoint]
Database == [marker : Checkpoint, rows : SUBSET Nat]
Batch == [permit : Permit, kind : {"business", "fence"}]
Ledger == [checkpoint : Checkpoint, pending : Permit, last : Permit,
           release_floor : Nat, frozen : BOOLEAN]

Genesis == [sequence |-> 0, tip |-> 0]
NoPermit == [operation |-> 0, previous |-> Genesis, next |-> Genesis]

Steps == {"idle", "read", "begin", "recover", "submit", "await", "settle",
          "fencing", "resettle", "commit", "return", "observe", "status"}
Request == [pc : Steps, task : {"batch", "reconcile", "check"},
            phase : {"first", "recovering", "second"},
            operation : Nat, expected : Checkpoint, permit : Permit,
            outcome : {"none", "committed", "aborted", "lost"}]

Idle == [pc |-> "idle", task |-> "check", phase |-> "first", operation |-> 0,
         expected |-> Genesis, permit |-> NoPermit, outcome |-> "none"]

TypeOK ==
    /\ ledger \in Ledger
    /\ db \in Database
    /\ past \subseteq Database
    /\ sent \subseteq Batch
    /\ req \in [Worker -> Request]
    /\ operations \in Nat
    /\ tips \in Nat
    /\ acknowledged \subseteq Nat
    /\ refused \subseteq Nat
    /\ faults \in Nat

-----------------------------------------------------------------------------
(* The Durable Object.  Each handler is one synchronous transaction.       *)

\* current(release): the release floor and the freeze are checked first.
Current(release) == release >= ledger.release_floor /\ ~ledger.frozen

\* begin(): the pending permit answers the same operation again; otherwise
\* a permit is issued only on the published checkpoint.
BeginAgain(expected, operation) ==
    /\ ledger.pending # NoPermit
    /\ ledger.pending.operation = operation
    /\ ledger.pending.previous = expected

BeginFresh(expected) ==
    /\ ledger.pending = NoPermit
    /\ ledger.checkpoint = expected

BeginAccepted(expected, operation) ==
    Current(RELEASE) /\ (BeginAgain(expected, operation) \/ BeginFresh(expected))

NewPermit(expected, operation) ==
    [operation |-> operation, previous |-> expected,
     next |-> [sequence |-> expected.sequence + 1, tip |-> tips + 1]]

\* The permit begin() answers with, and what it stores.
BegunPermit(expected, operation) ==
    IF ledger.pending # NoPermit THEN ledger.pending
                                 ELSE NewPermit(expected, operation)

\* Mutant: begin() answers with a permit it did not save.
DOBeginUnsaved(expected, operation) ==
    /\ ledger' = ledger
    /\ tips' = tips + 1

DOBegin(expected, operation) ==
    /\ ledger' = [ledger EXCEPT !.pending = BegunPermit(expected, operation)]
    /\ tips' = IF ledger.pending # NoPermit THEN tips ELSE tips + 1

\* commit(): publishes exactly the pending permit; a repeat of the last
\* publication is answered without a change.
CommitAgain(permit) ==
    /\ ledger.pending = NoPermit
    /\ ledger.last = permit
    /\ ledger.checkpoint = permit.next

CommitAccepted(permit) ==
    /\ Current(RELEASE)
    /\ \/ CommitAgain(permit)
       \/ ledger.pending # NoPermit /\ ledger.pending = permit

DOCommit(permit) ==
    ledger' = [ledger EXCEPT !.checkpoint = permit.next,
                             !.last = permit,
                             !.pending = NoPermit]

\* Mutant: the currency check forgets the pending permit.
AcceptsWhilePending(marker) ==
    /\ Current(RELEASE)
    /\ ledger.checkpoint = marker

\* The test current_authority_checkpoint() applies to the marker it read.
Accepts(marker) ==
    /\ Current(RELEASE)
    /\ ledger.pending = NoPermit
    /\ ledger.release_floor # 0
    /\ ledger.checkpoint = marker

-----------------------------------------------------------------------------
(* The D1 primary.                                                         *)

\* The leading compare-and-swap of every batch, and the guard after it in a
\* business batch.
Matches(b) == db.marker = b.permit.previous

Applied(b) ==
    [marker |-> b.permit.next,
     rows |-> IF b.kind = "business" THEN db.rows \cup {b.permit.operation}
                                     ELSE db.rows]

Store(d) == db' = d /\ past' = past \cup {d}

-----------------------------------------------------------------------------

Init ==
    /\ ledger = [checkpoint |-> Genesis, pending |-> NoPermit,
                 last |-> NoPermit, release_floor |-> 1, frozen |-> FALSE]
    /\ db = [marker |-> Genesis, rows |-> {}]
    /\ past = {[marker |-> Genesis, rows |-> {}]}
    /\ sent = {}
    /\ req = [w \in Worker |-> Idle]
    /\ operations = 0
    /\ tips = 0
    /\ acknowledged = {}
    /\ refused = {}
    /\ faults = 0

Fault == faults < MaxFaults /\ faults' = faults + 1

\* Request w goes on with record r.
Goto(w, r) == req' = [req EXCEPT ![w] = r]

\* A step of request w that only changes w's own record.
Local == UNCHANGED <<ledger, db, past, sent, operations, tips,
                     acknowledged, refused, faults>>

\* A step of w that changes no more than its record and draws an operation.
Draw ==
    /\ operations' = operations + 1
    /\ UNCHANGED <<ledger, db, past, sent, tips, acknowledged, refused, faults>>

-----------------------------------------------------------------------------
(* checkpoint_batch.                                                       *)

\* A mutation arrives: its operation identifier is drawn.
StartBatch(w) ==
    /\ req[w].pc = "idle"
    /\ operations < MaxOperations
    /\ Goto(w, [Idle EXCEPT !.pc = "read", !.task = "batch",
                            !.operation = operations + 1])
    /\ Draw

\* primary_checkpoint(): the marker this request will begin from.
ReadPrimary(w) ==
    /\ req[w].pc = "read"
    /\ Goto(w, [req[w] EXCEPT !.pc = "begin", !.expected = db.marker])
    /\ Local

\* Mutant: a failed begin is retried from the primary marker.
AfterRefusedBeginRetry(w) == [req[w] EXCEPT !.pc = "read"]

\* Where a failed begin leads: the first one to recovery, the second to an
\* error for the caller.
AfterRefusedBegin(w) ==
    IF req[w].phase = "first"
    THEN [req[w] EXCEPT !.pc = "recover", !.phase = "recovering"]
    ELSE Idle

\* begin() succeeds and its reply arrives.
Begin(w) ==
    LET r == req[w] IN
    /\ r.pc = "begin"
    /\ BeginAccepted(r.expected, r.operation)
    /\ DOBegin(r.expected, r.operation)
    /\ Goto(w, [req[w] EXCEPT !.pc = "submit",
                              !.permit = BegunPermit(r.expected, r.operation)])
    /\ UNCHANGED <<db, past, sent, operations, acknowledged, refused, faults>>

\* begin() refuses: pending, mismatch, frozen or below the floor.
BeginRefused(w) ==
    /\ req[w].pc = "begin"
    /\ ~BeginAccepted(req[w].expected, req[w].operation)
    /\ Goto(w, AfterRefusedBegin(w))
    /\ Local

\* begin() takes effect but the reply is lost.
BeginReplyLost(w) ==
    LET r == req[w] IN
    /\ r.pc = "begin"
    /\ BeginAccepted(r.expected, r.operation)
    /\ DOBegin(r.expected, r.operation)
    /\ Goto(w, AfterRefusedBegin(w))
    /\ Fault
    /\ UNCHANGED <<db, past, sent, operations, acknowledged, refused>>

\* Mutant: a pending permit is an error for whoever finds it.
RecoverPendingNever(w) ==
    /\ req[w].pc = "recover"
    /\ Current(RELEASE)
    /\ ledger.pending # NoPermit
    /\ Goto(w, Idle)
    /\ Local

\* The status() call after a failed begin, and the first call of
\* reconcile_authority_checkpoint(), find a pending permit to settle.
RecoverPending(w) ==
    /\ req[w].pc = "recover"
    /\ Current(RELEASE)
    /\ ledger.pending # NoPermit
    /\ Goto(w, [req[w] EXCEPT !.pc = "settle", !.permit = ledger.pending])
    /\ Local

\* Nothing is pending, or status() is blocked: reconciliation goes on to its
\* observation, a mutation returns its begin error.
RecoverNothing(w) ==
    /\ req[w].pc = "recover"
    /\ ~Current(RELEASE) \/ ledger.pending = NoPermit
    /\ Goto(w, IF Current(RELEASE) /\ req[w].task = "reconcile"
               THEN [req[w] EXCEPT !.pc = "observe"]
               ELSE Idle)
    /\ Local

\* db.batch(): the framed batch leaves for D1.
Submit(w) ==
    /\ req[w].pc = "submit"
    /\ sent' = sent \cup {[permit |-> req[w].permit, kind |-> "business"]}
    /\ Goto(w, [req[w] EXCEPT !.pc = "await"])
    /\ UNCHANGED <<ledger, db, past, operations, tips, acknowledged, refused,
                   faults>>

\* Who still waits for the result of batch b.
Waiting(w, b) ==
    /\ req[w].permit = b.permit
    /\ req[w].pc = IF b.kind = "business" THEN "await" ELSE "fencing"

\* D1 answered batch b: the request waiting for it, if any, goes on.
Answer(b, outcome) ==
    req' = [w \in Worker |->
              IF ~Waiting(w, b) THEN req[w]
              ELSE IF b.kind = "business"
              THEN [req[w] EXCEPT !.pc = "settle", !.outcome = outcome]
              ELSE [req[w] EXCEPT !.pc = "resettle"]]

\* D1 executes b in one transaction and the marker moves.
D1Apply(b) ==
    /\ b \in sent
    /\ Matches(b)
    /\ Store(Applied(b))
    /\ Answer(b, "committed")
    /\ sent' = sent \ {b}
    /\ UNCHANGED <<ledger, operations, tips, acknowledged, refused, faults>>

\* D1 rolls a business batch back: its marker guard or one of its business
\* guards failed.
D1Abort(b) ==
    /\ b \in sent
    /\ b.kind = "business"
    /\ Answer(b, "aborted")
    /\ sent' = sent \ {b}
    /\ UNCHANGED <<ledger, db, past, operations, tips, acknowledged, refused,
                   faults>>

\* A fence is a bare UPDATE: on another marker it changes no row and succeeds.
D1FenceMissed(b) ==
    /\ b \in sent
    /\ b.kind = "fence"
    /\ ~Matches(b)
    /\ Answer(b, "none")
    /\ sent' = sent \ {b}
    /\ UNCHANGED <<ledger, db, past, operations, tips, acknowledged, refused,
                   faults>>

\* Mutant: an unknown result is taken for a definitive abort.
BatchReplyLostAsAbort(w) ==
    /\ req[w].pc = "await"
    /\ Goto(w, [req[w] EXCEPT !.pc = "settle", !.outcome = "aborted"])
    /\ Fault
    /\ UNCHANGED <<ledger, db, past, sent, operations, tips, acknowledged,
                   refused>>

\* The result of a business batch is lost, whether or not D1 executes it.
BatchReplyLost(w) ==
    /\ req[w].pc = "await"
    /\ Goto(w, [req[w] EXCEPT !.pc = "settle", !.outcome = "lost"])
    /\ Fault
    /\ UNCHANGED <<ledger, db, past, sent, operations, tips, acknowledged,
                   refused>>

-----------------------------------------------------------------------------
(* settle_checkpoint.                                                      *)

\* Mutant: an old marker is fenced whatever the batch's result was.
SettleFenceAnyway(w) ==
    /\ req[w].pc = "settle"
    /\ db.marker = req[w].permit.previous
    /\ sent' = sent \cup {[permit |-> req[w].permit, kind |-> "fence"]}
    /\ Goto(w, [req[w] EXCEPT !.pc = "fencing"])
    /\ UNCHANGED <<ledger, db, past, operations, tips, acknowledged, refused,
                   faults>>

\* The marker still names the previous checkpoint: only a definitive abort
\* may be fenced, anything else stays quarantined.
SettleFence(w) ==
    /\ req[w].pc = "settle"
    /\ db.marker = req[w].permit.previous
    /\ req[w].outcome = "aborted"
    /\ sent' = sent \cup {[permit |-> req[w].permit, kind |-> "fence"]}
    /\ Goto(w, [req[w] EXCEPT !.pc = "fencing"])
    /\ UNCHANGED <<ledger, db, past, operations, tips, acknowledged, refused,
                   faults>>

SettleQuarantine(w) ==
    /\ req[w].pc = "settle"
    /\ db.marker = req[w].permit.previous
    /\ req[w].outcome # "aborted"
    /\ Goto(w, Idle)
    /\ Local

\* The marker read, before or after the fence, decides about publication.
SettleReached(w) ==
    /\ req[w].pc \in {"settle", "resettle"}
    /\ db.marker = req[w].permit.next
    /\ Goto(w, [req[w] EXCEPT !.pc = "commit"])
    /\ Local

SettleMismatch(w) ==
    /\ req[w].pc \in {"settle", "resettle"}
    /\ req[w].pc = "settle" => db.marker # req[w].permit.previous
    /\ db.marker # req[w].permit.next
    /\ Goto(w, Idle)
    /\ Local

AfterCommit(w) ==
    [req[w] EXCEPT !.pc = IF req[w].phase = "recovering" THEN "observe"
                                                         ELSE "return"]

\* commit() with the observed marker.
Commit(w) ==
    /\ req[w].pc = "commit"
    /\ CommitAccepted(req[w].permit)
    /\ DOCommit(req[w].permit)
    /\ Goto(w, AfterCommit(w))
    /\ UNCHANGED <<db, past, sent, operations, tips, acknowledged, refused,
                   faults>>

\* Mutant: a refused publication is ignored.
CommitRefusedIgnored(w) ==
    /\ req[w].pc = "commit"
    /\ ~CommitAccepted(req[w].permit)
    /\ Goto(w, AfterCommit(w))
    /\ Local

CommitRefused(w) ==
    /\ req[w].pc = "commit"
    /\ ~CommitAccepted(req[w].permit)
    /\ Goto(w, Idle)
    /\ Local

\* commit() takes effect but the reply is lost: the caller gets an error.
CommitReplyLost(w) ==
    /\ req[w].pc = "commit"
    /\ CommitAccepted(req[w].permit)
    /\ DOCommit(req[w].permit)
    /\ Goto(w, Idle)
    /\ Fault
    /\ UNCHANGED <<db, past, sent, operations, tips, acknowledged, refused>>

\* The end of checkpoint_batch: D1's result goes to the caller.
Return(w) ==
    /\ req[w].pc = "return"
    /\ acknowledged' = IF req[w].outcome = "committed"
                       THEN acknowledged \cup {req[w].operation}
                       ELSE acknowledged
    /\ refused' = IF req[w].outcome = "aborted"
                  THEN refused \cup {req[w].operation}
                  ELSE refused
    /\ Goto(w, Idle)
    /\ UNCHANGED <<ledger, db, past, sent, operations, tips, faults>>

-----------------------------------------------------------------------------
(* current_authority_checkpoint and reconcile_authority_checkpoint.        *)

StartReconcile(w) ==
    /\ req[w].pc = "idle"
    /\ Goto(w, [Idle EXCEPT !.pc = "recover",
                            !.task = "reconcile",
                            !.phase = "recovering"])
    /\ Local

StartCheck(w) ==
    /\ req[w].pc = "idle"
    /\ Goto(w, [Idle EXCEPT !.pc = "observe"])
    /\ Local

Observe(w) ==
    /\ req[w].pc = "observe"
    /\ Goto(w, [req[w] EXCEPT !.pc = "status", !.expected = db.marker])
    /\ Local

\* The observation stands: a check ends well; a recovering mutation begins
\* again from it with a new operation identifier.
StatusAccepted(w) ==
    /\ req[w].pc = "status"
    /\ Accepts(req[w].expected)
    /\ \/ /\ req[w].task # "batch"
          /\ Goto(w, Idle)
          /\ Local
       \/ /\ req[w].task = "batch"
          /\ Goto(w, [req[w] EXCEPT !.pc = "begin", !.phase = "second",
                                    !.operation = operations + 1])
          /\ Draw

StatusRefused(w) ==
    /\ req[w].pc = "status"
    /\ ~Accepts(req[w].expected)
    /\ Goto(w, Idle)
    /\ Local

-----------------------------------------------------------------------------
(* Operator actions and the environment.                                   *)

RaiseFloor(v) ==
    /\ v >= ledger.release_floor
    /\ v # ledger.release_floor     \* raising to the same floor is a stutter
    /\ ledger' = [ledger EXCEPT !.release_floor = v]
    /\ UNCHANGED <<db, past, sent, req, operations, tips, acknowledged,
                   refused, faults>>

Freeze ==
    /\ ~ledger.frozen               \* freezing again is a stutter
    /\ ledger' = [ledger EXCEPT !.frozen = TRUE]
    /\ UNCHANGED <<db, past, sent, req, operations, tips, acknowledged,
                   refused, faults>>

\* A request ends at any await: an isolate dies, a read or a call fails
\* before it took effect.  What it already sent stays under way.
Crash(w) ==
    /\ req[w].pc # "idle"
    /\ Goto(w, Idle)
    /\ Fault
    /\ UNCHANGED <<ledger, db, past, sent, operations, tips, acknowledged,
                   refused>>

\* D1 is restored to a state it was in before.
Restore(d) ==
    /\ d \in past
    /\ d # db
    /\ db' = d
    /\ Fault
    /\ UNCHANGED <<ledger, past, sent, req, operations, tips, acknowledged,
                   refused>>

\* The awaits of one request.
RequestStep(w) ==
    \/ ReadPrimary(w) \/ Begin(w) \/ BeginRefused(w)
    \/ RecoverPending(w) \/ RecoverNothing(w)
    \/ Submit(w) \/ SettleFence(w) \/ SettleQuarantine(w)
    \/ SettleReached(w) \/ SettleMismatch(w)
    \/ Commit(w) \/ CommitRefused(w) \/ Return(w)
    \/ Observe(w) \/ StatusAccepted(w) \/ StatusRefused(w)

LostReply(w) == BeginReplyLost(w) \/ BatchReplyLost(w) \/ CommitReplyLost(w)

D1Step(b) == D1Apply(b) \/ D1Abort(b) \/ D1FenceMissed(b)

Next ==
    \/ \E w \in Worker : StartBatch(w) \/ StartReconcile(w) \/ StartCheck(w)
    \/ \E w \in Worker : RequestStep(w) \/ LostReply(w) \/ Crash(w)
    \/ \E b \in sent : D1Step(b)
    \/ \E d \in past : Restore(d)
    \/ \E v \in 1..MaxFloor : RaiseFloor(v)
    \/ Freeze

Spec == Init /\ [][Next]_vars

-----------------------------------------------------------------------------
(* Properties.                                                             *)

\* One marker names one content of the authority tables, over every state D1
\* was ever in: neither the fence of settle_checkpoint nor a late batch ever
\* gives a marker that exists a second content, so equality of markers is
\* equality of authority.
OneContentPerMarker ==
    \A s, t \in past : s.marker = t.marker => s.rows = t.rows

\* A database that passes current_authority_checkpoint() holds every batch
\* that ever committed, whatever restores, crashes and lost replies came
\* before: a rollback is always noticed.
AcceptedIsComplete ==
    \A s, t \in past : Accepts(s.marker) => t.rows \subseteq s.rows

\* The Durable Object publishes only a checkpoint that D1 committed, and what
\* checkpoint_batch returned as Ok is part of it: commit() is never reached on
\* an assumption about the marker, and no dispatch authorization is handed out
\* for a write the independent ledger does not know.
AcknowledgedIsPublished ==
    \E s \in past : s.marker = ledger.checkpoint /\ acknowledged \subseteq s.rows

\* The error of a definitive abort is final: that batch is in no state D1 was
\* or will be in, so its caller may act on the refusal.
RefusedNeverApplied ==
    \A o \in refused :
        /\ \A s \in past : o \notin s.rows
        /\ \A b \in sent : b.kind = "business" => b.permit.operation # o

\* Write-ahead: D1 is never past the permit the Durable Object issued, so an
\* operator reading both stores can always tell published, pending and
\* restored apart.
WriteAhead ==
    \A s \in past : \/ s.marker.sequence <= ledger.checkpoint.sequence
                    \/ s.marker = ledger.pending.next

\* The abstract history this protocol implements.
decided == UNION {s.rows : s \in past}
published ==
    UNION {s.rows : s \in {t \in past :
                 t.marker.sequence <= ledger.checkpoint.sequence}}
visible == IF Accepts(db.marker) THEN {db.rows} ELSE {}

History == INSTANCE AuthorityHistory
             WITH decided <- decided,
                  published <- published,
                  acknowledged <- acknowledged,
                  visible <- visible

\* The protocol implements AuthorityHistory: one linear history of operations
\* that every successful currency check sees in full.
ImplementsHistory == History!Spec

-----------------------------------------------------------------------------
(* Liveness.  Requests that are running go on, D1 executes what it was     *)
(* given, and later requests keep arriving that take the recovery path.    *)

Fairness ==
    /\ \A w \in Worker : WF_vars(RequestStep(w))
    /\ WF_vars(\E b \in sent : D1Step(b))
    /\ \A w \in Worker : SF_vars(StartReconcile(w))

FairSpec == Spec /\ Fairness

CommittedUnpublished ==
    ledger.pending # NoPermit /\ db.marker = ledger.pending.next

\* A batch D1 committed does not stay unpublished: whoever comes next
\* publishes it, also when the request that wrote it died, unless the
\* authority is blocked or D1 is restored meanwhile.
CommittedIsPublished ==
    CommittedUnpublished ~> (~CommittedUnpublished \/ ~Current(RELEASE))

\* Every request ends, also against a quarantined authority: no retry and no
\* settlement waits for a permit that nobody will publish.
RequestsEnd == \A w \in Worker : req[w].pc # "idle" ~> req[w].pc = "idle"
=============================================================================
