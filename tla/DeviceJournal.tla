--------------------------- MODULE DeviceJournal ---------------------------
(***************************************************************************)
(* The encrypted journal of a messaging device (ui/messaging/device-store  *)
(* .ts) and the head its server witnesses (messaging.rs).  One device may  *)
(* be open in several tabs of a browser profile, which take turns under an *)
(* exclusive Web Lock, and in several profiles when a profile was cloned   *)
(* or restored from a backup: each has its own database, and only the      *)
(* witness, moved by compare-and-set, is common.                           *)
(*                                                                         *)
(* A call reads the record, reads the witness, completes a prepared        *)
(* candidate it finds, and persists its own: prepare locally, advance the  *)
(* witness, publish locally.  It can fail or die between any two awaits,   *)
(* and a request it sent to the witness may arrive after it.               *)
(*                                                                         *)
(* A sealed state is known by its hash, here its place in `made`; 0 is the *)
(* genesis head.  Of a state the model keeps the ledger of operations and  *)
(* the envelopes of the queued messages, one message for each operation.   *)
(***************************************************************************)
EXTENDS Naturals, Sequences

CONSTANTS
    Profile,        \* browser profiles
    Home,           \* the profile the device was enrolled in
    Op,             \* operation ids chosen by callers
    Intent,         \* commands, by the hash of their canonical form
    Requests,       \* the commands callers attach to an operation id
    MaxSealed,      \* bound: sealed states
    MaxFaults,      \* bound: calls that fail or die
    MaxCopies       \* bound: times a profile is cloned over another

ASSUME ConstantsAssumption ==
    /\ Home \in Profile
    /\ Op # {} /\ Intent # {} /\ Requests \subseteq Op \X Intent
    /\ MaxSealed \in Nat
    /\ MaxFaults \in Nat /\ MaxCopies \in Nat

VARIABLES
    made,           \* every sealed state, by hash
    witness,        \* the head of messaging_generation
    db,             \* the record of each profile: head and pending
    call,           \* the call that holds the Web Lock of each profile
    inflight,       \* compare-and-set requests the server has not executed
    answered,       \* operations whose receipt was returned, ever
    released,       \* envelopes that were returned, ever
    holders,        \* profiles that hold the device's key and database
    faults, copies

vars == <<made, witness, db, call, inflight, answered, released,
          holders, faults, copies>>

Hash == Nat                                     \* 0 is the genesis head
Operation == [id : Op, intent : Intent, by : Hash]
Envelope == [message : Op, stamp : Hash]
Sealed == [previous : Hash, operations : SUBSET Operation,
           envelopes : SUBSET Envelope]
Record == [head : Hash, pending : Hash]

\* A call: what was asked, the record it read, the candidate it has
\* persisted itself (0: none yet), and the answers that were out when it began.
Call == [pc : {"idle", "read", "witness", "cas", "reply", "publish",
               "loaded", "done"},
         kind : {"bootstrap", "request", "outbox"},
         id : Op, intent : Intent, head : Hash, pending : Hash,
         own : Hash, known : SUBSET Operation]

TypeOK ==
    /\ made \in Seq(Sealed)
    /\ witness \in 0..Len(made)
    /\ db \in [Profile -> Record]
    /\ call \in [Profile -> Call]
    /\ inflight \subseteq [expected : Hash, next : Hash]
    /\ answered \subseteq Operation
    /\ released \subseteq Envelope
    /\ holders \subseteq Profile
    /\ faults \in 0..MaxFaults
    /\ copies \in 0..MaxCopies

Empty == [previous |-> 0, operations |-> {}, envelopes |-> {}]
State(h) == IF h = 0 THEN Empty ELSE made[h]

Idle == [pc |-> "idle", kind |-> "outbox", id |-> CHOOSE o \in Op : TRUE,
         intent |-> CHOOSE i \in Intent : TRUE, head |-> 0, pending |-> 0,
         own |-> 0, known |-> {}]

Init ==
    /\ made = <<>>
    /\ witness = 0
    /\ db = [p \in Profile |-> [head |-> 0, pending |-> 0]]
    /\ call = [p \in Profile |-> Idle]
    /\ inflight = {}
    /\ answered = {}
    /\ released = {}
    /\ holders = {Home}
    /\ faults = 0
    /\ copies = 0

-----------------------------------------------------------------------------
(* Calls and the lock.                                                     *)

At(p, pc) == call[p].pc = pc
Goto(p, c) == call' = [call EXCEPT ![p] = c]
\* An error ends the call: the candidate, if prepared, stays in the record.
Fail(p) == Goto(p, Idle)

others == <<answered, released, holders, faults, copies>>
\* A step that only moves a call.
Local == UNCHANGED <<made, witness, db, inflight, others>>

\* bootstrap(), request() and the outboxes enter #locked, in any tab of the
\* profile: navigator.locks admits one of them at a time.
Begin(p) ==
    /\ p \in holders
    /\ At(p, "idle")
    /\ \E k \in {"bootstrap", "request", "outbox"}, r \in Requests :
          Goto(p, [Idle EXCEPT !.pc = "read", !.kind = k, !.known = answered,
                       !.id = IF k = "request" THEN r[1] ELSE Idle.id,
                       !.intent = IF k = "request" THEN r[2] ELSE Idle.intent])
    /\ Local

-----------------------------------------------------------------------------
(* #synchronize.                                                           *)

ReadRecord(p) ==
    /\ At(p, "read")
    /\ Goto(p, [call[p] EXCEPT !.pc = "witness", !.head = db[p].head,
                               !.pending = db[p].pending])
    /\ Local

\* What #synchronize goes on with once it has a state: in the second round
\* #persist returns, and the call with it.
AfterSync(c) == IF c.own # 0 THEN "done" ELSE "loaded"

\* Mutant: a candidate the witness already has is taken for a conflict.
DecideUnanswered(c, seen) ==
    IF c.pending = 0
    THEN IF c.head = seen THEN AfterSync(c) ELSE "idle"
    ELSE IF State(c.pending).previous # c.head THEN "idle"
    ELSE IF seen = c.head THEN "cas"
    ELSE "idle"

\* Mutant: without a candidate the local head is taken as it is.
DecideTrusting(c, seen) ==
    IF c.pending = 0 THEN AfterSync(c)
    ELSE IF seen = c.pending THEN "publish"
    ELSE IF seen = c.head THEN "cas"
    ELSE "idle"

\* The local record against the witnessed head: rollback_or_state_loss,
\* invalid_pending_base and witness_conflict end the call.
Decide(c, seen) ==
    IF c.pending = 0
    THEN IF c.head = seen THEN AfterSync(c) ELSE "idle"
    ELSE IF State(c.pending).previous # c.head THEN "idle"
    ELSE IF seen = c.pending THEN "publish"
    ELSE IF seen = c.head THEN "cas"
    ELSE "idle"

ReadWitness(p) ==
    /\ At(p, "witness")
    /\ LET next == Decide(call[p], witness)
       IN  IF next = "idle" THEN Fail(p)
           ELSE Goto(p, [call[p] EXCEPT !.pc = next])
    /\ Local

\* The heads compareAndSet() sends.
CasOf(p) == [expected |-> call[p].head, next |-> call[p].pending]

SendCas(p) ==
    /\ At(p, "cas")
    /\ inflight' = inflight \cup {CasOf(p)}
    /\ Goto(p, [call[p] EXCEPT !.pc = "reply"])
    /\ UNCHANGED <<made, witness, db, others>>

\* Mutant: the UPDATE does not compare the head.
AdvanceBlind(r) == r.next

\* witness(): UPDATE ... WHERE head_revision=?5 AND head_hash IS ?6.
Advance(r) == IF witness = r.expected THEN r.next ELSE witness

Execute(r) ==
    /\ witness' = Advance(r)
    /\ inflight' = inflight \ {r}
    /\ UNCHANGED <<made, db, call, others>>

\* The answer is the head a SELECT reads after the UPDATE.
Reply(p) ==
    /\ At(p, "reply")
    /\ CasOf(p) \notin inflight
    /\ IF witness = call[p].pending
       THEN Goto(p, [call[p] EXCEPT !.pc = "publish"])
       ELSE Fail(p)
    /\ Local

Publish(p) ==
    /\ At(p, "publish")
    /\ LET c == call[p]
       IN  IF db[p] = [head |-> c.head, pending |-> c.pending]
           THEN /\ db' = [db EXCEPT ![p] = [head |-> c.pending, pending |-> 0]]
                /\ Goto(p, [c EXCEPT !.pc = AfterSync(c), !.head = c.pending,
                                     !.pending = 0])
           ELSE Fail(p) /\ UNCHANGED db
    /\ UNCHANGED <<made, witness, inflight, others>>

-----------------------------------------------------------------------------
(* What the calls do with the state #synchronize returned.                 *)

\* The entry of an operation id in the ledger of a state: {} or one.
Entry(s, id) == {e \in s.operations : e.id = id}
\* Messages that wait in the outbox without an envelope.
Unstamped(s) ==
    {o.id : o \in s.operations} \ {e.message : e \in s.envelopes}

Envelopes(s, n) == {[message |-> m, stamp |-> n] : m \in Unstamped(s)}

\* Mutant: the envelope is made anew whenever the clock has moved.
CandidateRestamped(c, s, n) ==
    [previous |-> c.head,
     operations |->
        IF c.kind # "request" THEN s.operations
        ELSE s.operations \cup
                {[id |-> c.id, intent |-> c.intent, by |-> n]},
     envelopes |->
        IF c.kind # "outbox" THEN s.envelopes
        ELSE {[message |-> o.id, stamp |-> n] : o \in s.operations}]

\* The state a call persists: request() appends its operation, the outboxes
\* fix the delivery of what is queued; a moved clock alone changes nothing
\* the model keeps.
Candidate(c, s, n) ==
    [previous |-> c.head,
     operations |->
        IF c.kind # "request" THEN s.operations
        ELSE s.operations \cup
                {[id |-> c.id, intent |-> c.intent, by |-> n]},
     envelopes |->
        IF c.kind # "outbox" THEN s.envelopes
        ELSE s.envelopes \cup Envelopes(s, n)]

\* #persist: seal, and write as pending if the record is still the one read.
Persist(p) ==
    LET c == call[p]
        n == Len(made) + 1
    IN  /\ n <= MaxSealed
        /\ made' = Append(made, Candidate(c, State(c.head), n))
        /\ IF db[p] = [head |-> c.head, pending |-> 0]
           THEN /\ db' = [db EXCEPT ![p].pending = n]
                /\ Goto(p, [c EXCEPT !.pc = "read", !.own = n])
           ELSE Fail(p) /\ UNCHANGED db
        /\ UNCHANGED <<witness, inflight, others>>

Initialized(p) == call[p].head # 0

Bootstrap(p) ==
    /\ At(p, "loaded") /\ call[p].kind = "bootstrap"
    /\ ~Initialized(p)
    /\ Persist(p)

\* The operation is in the ledger: its receipt is the answer, if the intent
\* is the same.
Replay(p) ==
    /\ At(p, "loaded") /\ call[p].kind = "request"
    /\ \E e \in Entry(State(call[p].head), call[p].id) :
          IF e.intent = call[p].intent
          THEN answered' = answered \cup {e}
          ELSE UNCHANGED answered
    /\ Goto(p, Idle)
    /\ UNCHANGED <<made, witness, db, inflight, released, holders, faults,
                   copies>>

\* Mutant: an operation id is looked up only when it was answered before.
FreshUnanswered(p) == ~\E e \in call[p].known : e.id = call[p].id

Fresh(p) == Entry(State(call[p].head), call[p].id) = {}

Request(p) ==
    /\ At(p, "loaded") /\ call[p].kind = "request"
    /\ Initialized(p)
    /\ Fresh(p)
    /\ Persist(p)

Outbox(p) ==
    /\ At(p, "loaded") /\ call[p].kind = "outbox"
    /\ Initialized(p)
    /\ Persist(p)

\* The clock has not moved and everything queued has its envelope.
OutboxUnchanged(p) ==
    /\ At(p, "loaded") /\ call[p].kind = "outbox"
    /\ Initialized(p)
    /\ Unstamped(State(call[p].head)) = {}
    /\ released' = released \cup State(call[p].head).envelopes
    /\ Goto(p, Idle)
    /\ UNCHANGED <<made, witness, db, inflight, answered, holders, faults,
                   copies>>

\* device_already_initialized, device_not_initialized, or an error nothing
\* was written for: clock_rollback, operation_ledger_full, device_state_full,
\* a frozen conversation or a changed key in the outboxes.
Refuse(p) ==
    /\ At(p, "loaded")
    /\ Fail(p)
    /\ Local

\* #persist returned: the receipt or the envelopes leave the adapter.
Return(p) ==
    /\ At(p, "done")
    /\ LET s == State(call[p].own)
       IN  /\ answered' = answered \cup
                 IF call[p].kind = "request" THEN Entry(s, call[p].id) ELSE {}
           /\ released' = released \cup
                 IF call[p].kind = "outbox" THEN s.envelopes ELSE {}
    /\ Goto(p, Idle)
    /\ UNCHANGED <<made, witness, db, inflight, holders, faults, copies>>

-----------------------------------------------------------------------------
(* Faults, clones and the specification.                                   *)

Fault == faults < MaxFaults /\ faults' = faults + 1

\* The page dies, close() is called, or an await fails: a storage error, an
\* expired session, a timeout, a lost request or a lost answer.
Interrupt(p) ==
    /\ ~At(p, "idle")
    /\ Fault
    /\ Fail(p)
    /\ inflight' \in {inflight, inflight \ {CasOf(p)}}
    /\ UNCHANGED <<made, witness, db, answered, released, holders, copies>>

\* The files of a profile replace those of one that is not running.
CopyProfile(p, q) ==
    /\ p # q
    /\ copies < MaxCopies
    /\ p \in holders
    /\ At(q, "idle")
    /\ copies' = copies + 1
    /\ db' = [db EXCEPT ![q] = db[p]]
    /\ holders' = holders \cup {q}
    /\ UNCHANGED <<made, witness, call, inflight, answered, released, faults>>

CallStep(p) ==
    \/ ReadRecord(p) \/ ReadWitness(p) \/ SendCas(p) \/ Reply(p) \/ Publish(p)
    \/ Bootstrap(p) \/ Replay(p) \/ Request(p) \/ Outbox(p)
    \/ OutboxUnchanged(p) \/ Refuse(p) \/ Return(p)

Next ==
    \/ \E p \in Profile : Begin(p) \/ CallStep(p) \/ Interrupt(p)
    \/ \E r \in inflight : Execute(r)
    \/ \E p, q \in Profile : CopyProfile(p, q)

Spec == Init /\ [][Next]_vars

-----------------------------------------------------------------------------
(* Properties.                                                             *)

\* Two callers never hold two receipts of one operation, whatever tabs,
\* clones and retries they came through.
OneReceipt == \A a, b \in answered : a.id = b.id => a = b

\* A message leaves with one envelope: its expiry and route are the same in
\* every retry, so the server can recognise it.
EnvelopesAreFixed ==
    \A a, b \in released : a.message = b.message => a = b

\* No rollback: a call that got a state works on one that holds every
\* operation that had been answered when the call began.
NoRollback ==
    \A p \in Profile : call[p].pc = "loaded" =>
        call[p].known \subseteq State(call[p].head).operations

\* The witnessed head carries the device: the journal is one ledger, and each
\* step of a call, a request or a clone is a step of that ledger.
Ledger == INSTANCE DeviceLedger
            WITH operations <- State(witness).operations,
                 envelopes <- State(witness).envelopes,
                 answered <- answered,
                 released <- released
ImplementsLedger == Ledger!Spec

\* A tab goes on with its call, the server executes what arrives, and the
\* device is opened again, where it was enrolled, after a failure.
Fairness ==
    /\ WF_vars(CallStep(Home))
    /\ WF_vars(\E r \in inflight : Execute(r))
    /\ WF_vars(Begin(Home))

FairSpec == Spec /\ Fairness

\* Without clones a prepared candidate never wedges the device: the next
\* calls complete it, whichever step of it was interrupted.
PreparedIsSettled ==
    db[Home].pending # 0 ~> (db[Home].pending = 0 \/ copies > 0)
=============================================================================
