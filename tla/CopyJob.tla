------------------------------ MODULE CopyJob ------------------------------
(***************************************************************************)
(* The copy of an approved preparation: the durable job of the OP          *)
(* (work_store/copy_job.rs), and the workflow that drives it (work-copy-   *)
(* worker).  The workflow knows an ordinal and the job knows a step; every *)
(* physical gate is entered by the request whose admission committed.      *)
(*                                                                         *)
(* A request is a sequence of awaits that goes on when its caller timed    *)
(* out, was replayed or died.  Every write is one checkpointed batch: it   *)
(* needs a current authority, and the triggers of migration 0014 repeat    *)
(* the conditions on the row and on the consent when it commits.           *)
(*                                                                         *)
(* The gates themselves are modelled by what they may leave in the         *)
(* credential row of the step's slot; MintEffect looks inside.             *)
(***************************************************************************)
EXTENDS Naturals

CONSTANTS
    Caller,         \* requests to the OP that may be under way at a time
    Slots,          \* upload and readback credentials of a copy
    MaxFaults       \* lost replies, failures, timeouts and replays

ASSUME ConstantsAssumption == Slots \in Nat \ {0} /\ MaxFaults \in Nat

VARIABLES
    job,            \* the work_copy_job row
    preparation,    \* state of the preparation
    consent,        \* work_copy_consent_current holds the consent
    current,        \* the authority accepts this database
    credential,     \* state of the credential row of each slot
    workflow,       \* the one workflow instance of this preparation
    call,           \* the requests under way
    invoked,        \* how often the gate of each step was invoked
    stopped,        \* the consent was lost or the job was blocked once
    late,           \* gates invoked since then
    faults          \* faults that happened so far

vars == <<job, preparation, consent, current, credential, workflow, call,
          invoked, stopped, late, faults>>

\* Two initial steps, four for every other credential, and verification.
TOTAL == 3 + 4 * Slots
Step == 0..(TOTAL - 1)

\* phase(): what a step does, and to which of the preparation's credentials.
phase(step) ==
    IF step < 2 THEN "initial"
    ELSE IF step = TOTAL - 1 THEN "verify"
    ELSE CASE (step - 2) % 4 = 0 -> "mint"
           [] (step - 2) % 4 = 1 -> "git"
           [] (step - 2) % 4 = 2 -> "reconcile"
           [] OTHER -> "close"
slot(step) == IF step < 2 THEN step ELSE 2 + ((step - 2) \div 4)
Slot == 0..(Slots + 1)

Job == [state : {"none", "queued", "running", "blocked", "verified"},
        next_step : 0..TOTAL, inflight : BOOLEAN, revision : Nat]
NoJob == [state |-> "none", next_step |-> 0, inflight |-> FALSE,
          revision |-> 0]
Terminal == {"blocked", "verified"}

\* status of the instance, its ordinal, the step.do it is in, the request it
\* waits for, the retries of retain-copy-stop and what run() returned.
Workflow == [status : {"none", "running", "complete", "errored"},
             pc : {"send", "wait", "stop", "stopwait", "end"},
             ordinal : Step, call : SUBSET Caller, tries : 0..2,
             result : {"none", "blocked", "verified"}]

\* A request: where it is, the step it was asked for, the revision it read,
\* whether the phase succeeded, the attempts to block it still makes, the
\* credentials it listed and the answer it will give after a cleanup.
Call == [pc : {"idle", "start", "read", "admit", "prepare", "dispatch",
               "reserve", "gate", "status", "reread", "finish", "project",
               "block", "blockwrite", "list", "sweep"},
         step : Step, revision : Nat, ok : BOOLEAN, blocks : 0..2,
         list : SUBSET Slot, answer : {"none", "blocked", "stopped"}]
Idle == [pc |-> "idle", step |-> 0, revision |-> 0, ok |-> FALSE,
         blocks |-> 0, list |-> {}, answer |-> "none"]

TypeOK ==
    /\ job \in Job
    /\ preparation \in {"reserved", "dispatched", "verified"}
    /\ consent \in BOOLEAN
    /\ current \in BOOLEAN
    /\ credential \in [Slot -> {"none", "reserved", "dispatched", "captured",
                                "revocation_pending", "closed"}]
    /\ workflow \in Workflow
    /\ call \in [Caller -> Call]
    /\ invoked \in [Step -> Nat]
    /\ stopped \in BOOLEAN
    /\ late \in Nat
    /\ faults \in 0..MaxFaults

\* The owner has approved the preparation; nothing is queued yet.
Init ==
    /\ job = NoJob
    /\ preparation = "reserved"
    /\ consent = TRUE
    /\ current = TRUE
    /\ credential = [s \in Slot |-> "none"]
    /\ workflow = [status |-> "none", pc |-> "end", ordinal |-> 0,
                   call |-> {}, tries |-> 0, result |-> "none"]
    /\ call = [c \in Caller |-> Idle]
    /\ invoked = [s \in Step |-> 0]
    /\ stopped = FALSE
    /\ late = 0
    /\ faults = 0

-----------------------------------------------------------------------------
(* Requests, their answers and the workflow that waits for them.           *)

At(c, pc) == call[c].pc = pc
Goto(c, r) == call' = [call EXCEPT ![c] = r]
Continue(c, pc) == Goto(c, [call[c] EXCEPT !.pc = pc])
Fault == faults < MaxFaults /\ faults' = faults + 1

\* Everything but the job row, the workflow and the requests.
around == <<preparation, consent, current, credential, invoked, late>>
\* A step that only moves a request.
Local == UNCHANGED <<job, workflow, stopped, faults, around>>

Ended(result) == [workflow EXCEPT !.status = "complete", !.pc = "end",
                                  !.call = {}, !.result = result]

\* Mutant: a failed step is sent again.
AfterReplyRetry(answer) ==
    IF answer = "error"
    THEN [workflow EXCEPT !.pc = IF workflow.pc = "wait" THEN "send" ELSE "stop",
                          !.call = {}]
    ELSE IF answer = "running" /\ workflow.ordinal + 1 < TOTAL
    THEN [workflow EXCEPT !.pc = "send", !.ordinal = workflow.ordinal + 1,
                          !.call = {}]
    ELSE Ended(IF answer = "verified" THEN "verified" ELSE "blocked")

\* run(): a step without retries, whose failure leads to retain-copy-stop,
\* which is tried three times.
AfterReply(answer) ==
    IF workflow.pc = "wait"
    THEN IF answer = "error" \/ (answer = "running" /\ workflow.ordinal + 1 = TOTAL)
         THEN [workflow EXCEPT !.pc = "stop", !.call = {}]
         ELSE IF answer = "running"
         THEN [workflow EXCEPT !.pc = "send", !.call = {},
                               !.ordinal = workflow.ordinal + 1]
         ELSE Ended(IF answer = "verified" THEN "verified" ELSE "blocked")
    ELSE IF answer # "error" THEN Ended("blocked")
    ELSE IF workflow.tries < 2
    THEN [workflow EXCEPT !.pc = "stop", !.call = {},
                          !.tries = workflow.tries + 1]
    ELSE [workflow EXCEPT !.status = "errored", !.pc = "end", !.call = {}]

\* The request ends; its answer counts if the workflow still waits for it.
Reply(c, answer) ==
    /\ Goto(c, Idle)
    /\ workflow' = IF workflow.call = {c} THEN AfterReply(answer) ELSE workflow

\* step.do native-copy-step-<ordinal>
SendAdvance(c) ==
    /\ workflow.pc = "send"
    /\ At(c, "idle")
    /\ Goto(c, [Idle EXCEPT !.pc = "read", !.step = workflow.ordinal])
    /\ workflow' = [workflow EXCEPT !.pc = "wait", !.call = {c}]
    /\ UNCHANGED <<job, stopped, faults, around>>

Cleanup(answer, blocks) == [Idle EXCEPT !.pc = "block", !.blocks = blocks,
                                        !.answer = answer]

\* step.do retain-copy-stop
SendStop(c) ==
    /\ workflow.pc = "stop"
    /\ At(c, "idle")
    /\ Goto(c, Cleanup("stopped", 1))
    /\ workflow' = [workflow EXCEPT !.pc = "stopwait", !.call = {c}]
    /\ UNCHANGED <<job, stopped, faults, around>>

\* Three minutes are over; the request goes on.
Timeout ==
    /\ workflow.pc \in {"wait", "stopwait"}
    /\ workflow' = AfterReply("error")
    /\ Fault
    /\ UNCHANGED <<job, stopped, call, around>>

\* The engine lost the result of a step and runs it again.
Replay ==
    /\ workflow.pc = "wait"
    /\ workflow' = [workflow EXCEPT !.pc = "send", !.call = {}]
    /\ Fault
    /\ UNCHANGED <<job, stopped, call, around>>

-----------------------------------------------------------------------------
(* Starting and stopping.                                                  *)

\* start_copy_job: the job is queued before the workflow is notified.
OwnerStart(c) ==
    /\ At(c, "idle")
    /\ consent
    /\ \/ /\ job.state = "none"
          /\ current
          /\ preparation = "reserved"
          /\ job' = [NoJob EXCEPT !.state = "queued", !.revision = 1]
          /\ Goto(c, [Idle EXCEPT !.pc = "start"]) \/ UNCHANGED call
       \/ /\ job.state = "queued"
          /\ job' = job
          /\ Goto(c, [Idle EXCEPT !.pc = "start"])
    /\ UNCHANGED <<workflow, stopped, faults, around>>

\* scheduled() with pending_copy_jobs: the list may be old when it is used.
Drain(c) ==
    /\ At(c, "idle")
    /\ current /\ consent
    /\ job.state = "queued"
    /\ Goto(c, [Idle EXCEPT !.pc = "start"])
    /\ Local

\* Mutant: a terminal instance is left alone.
StartOnly(c) ==
    /\ At(c, "start")
    /\ workflow' = IF workflow.status = "none"
                   THEN [workflow EXCEPT !.status = "running", !.pc = "send"]
                   ELSE workflow
    /\ Goto(c, Idle)
    /\ UNCHANGED <<job, stopped, faults, around>>

\* start(): the fixed instance is created once; a terminal one is not
\* restarted, its job is cancelled.
Start(c) ==
    /\ At(c, "start")
    /\ workflow' = IF workflow.status = "none"
                   THEN [workflow EXCEPT !.status = "running", !.pc = "send"]
                   ELSE workflow
    /\ Goto(c, IF workflow.status \in {"complete", "errored"}
               THEN Cleanup("stopped", 1) ELSE Idle)
    /\ UNCHANGED <<job, stopped, faults, around>>

\* The owner's stop, cleanup_copy.
OwnerStop(c) ==
    /\ At(c, "idle")
    /\ job.state # "none"
    /\ Goto(c, Cleanup("stopped", 1))
    /\ Local

-----------------------------------------------------------------------------
(* advance_copy_job.                                                       *)

Advance(c) ==
    /\ At(c, "read")
    /\ LET s == call[c].step IN
       \/ /\ s < job.next_step \/ job.state \in Terminal
          /\ Reply(c, job.state)
       \/ /\ s >= job.next_step /\ job.state \notin Terminal
          /\ s # job.next_step
          /\ Reply(c, "error")
       \/ /\ s = job.next_step /\ job.state \notin Terminal
          /\ Goto(c, IF job.inflight THEN Cleanup("blocked", 1)
                     ELSE [call[c] EXCEPT !.pc = "admit",
                                          !.revision = job.revision])
          /\ UNCHANGED workflow
    /\ UNCHANGED <<job, stopped, faults, around>>

\* Mutant: the admission is no compare-and-swap.
CanAdmitAny(c) == current /\ consent /\ job.next_step = call[c].step

\* The admission's compare-and-swap and the triggers behind it.
CanAdmit(c) ==
    /\ current /\ consent
    /\ job.revision = call[c].revision
    /\ job.next_step = call[c].step
    /\ ~job.inflight
    /\ job.state \in {"queued", "running"}

Admitted == [job EXCEPT !.state = "running", !.inflight = TRUE,
                        !.revision = job.revision + 1]

FirstPc(step) == IF step = 0 THEN "prepare"
                 ELSE IF phase(step) = "verify" THEN "gate" ELSE "reserve"

\* Without a positive answer the request ends, whether or not the admission
\* is in the row.
Admit(c) ==
    /\ At(c, "admit")
    /\ CanAdmit(c)
    /\ job' = Admitted
    /\ \/ /\ Continue(c, FirstPc(call[c].step))
          /\ UNCHANGED <<workflow, faults>>
       \/ Reply(c, "error") /\ Fault
    /\ UNCHANGED <<stopped, around>>

AdmitRefused(c) ==
    /\ At(c, "admit")
    /\ ~CanAdmit(c)
    /\ Reply(c, "error")
    /\ UNCHANGED <<job, stopped, faults, around>>

\* Step 0, after git-prepare: the authority, the consent and the job are
\* looked at again.
Recheck(c) ==
    /\ At(c, "prepare")
    /\ current /\ consent
    /\ job.state = "running" /\ job.next_step = 0 /\ job.inflight
    /\ Continue(c, "dispatch")
    /\ Local

\* dispatch_preparation: a preparation dispatched before is taken as it is.
Dispatch(c) ==
    /\ At(c, "dispatch")
    /\ preparation = "reserved" => current /\ consent
    /\ preparation' = IF preparation = "reserved" THEN "dispatched"
                                                  ELSE preparation
    /\ Continue(c, "reserve")
    /\ UNCHANGED <<job, workflow, consent, current, credential, invoked,
                   stopped, late, faults>>

\* reserve_credential for a new slot, copy_slot for an existing one.
Reserve(c) ==
    /\ At(c, "reserve")
    /\ LET s == call[c].step IN
       IF credential[slot(s)] = "none"
       THEN /\ phase(s) \in {"initial", "mint"}
            /\ current /\ consent
            /\ preparation = "dispatched"
            /\ credential' = [credential EXCEPT ![slot(s)] = "reserved"]
       ELSE UNCHANGED credential
    /\ Continue(c, "gate")
    /\ UNCHANGED <<job, workflow, preparation, consent, current, invoked,
                   stopped, late, faults>>

\* What a gate may leave in the credential row it works on.
Outcomes(p, state) ==
    {state} \cup
    IF ~current THEN {}
    ELSE CASE p = "initial" /\ state = "reserved" /\ consent ->
                  {"dispatched", "revocation_pending", "closed"}
           [] p = "mint" /\ state = "reserved" /\ consent ->
                  {"dispatched", "captured", "revocation_pending", "closed"}
           [] p = "git" /\ state = "captured" -> {"revocation_pending"}
           [] p = "reconcile" /\ state \in {"dispatched", "captured"} ->
                  {"revocation_pending"}
           [] p = "close" /\ state = "revocation_pending" -> {"closed"}
           [] OTHER -> {}

\* verify-preparation: both copies and every closed credential.
Verifiable ==
    /\ current
    /\ preparation = "dispatched"
    /\ \A s \in Slot : credential[s] = "closed"

Gate(c) ==
    LET s == call[c].step IN
    /\ At(c, "gate")
    /\ invoked' = [invoked EXCEPT ![s] = invoked[s] + 1]
    /\ late' = IF stopped THEN late + 1 ELSE late
    /\ IF phase(s) = "verify"
       THEN /\ credential' = credential
            /\ \/ preparation' = preparation
               \/ Verifiable /\ preparation' = "verified"
       ELSE /\ preparation' = preparation
            /\ \E state \in Outcomes(phase(s), credential[slot(s)]) :
                  credential' = [credential EXCEPT ![slot(s)] = state]
    /\ \/ Continue(c, "status")
       \/ Goto(c, [call[c] EXCEPT !.pc = "reread", !.ok = FALSE])
    /\ UNCHANGED <<job, workflow, consent, current, stopped, faults>>

\* Mutant: the gate's reply is enough.
PassedByReply(s) == TRUE

\* The row must agree with the gate's reply.
Passed(s) ==
    CASE phase(s) \in {"initial", "close"} -> credential[slot(s)] = "closed"
      [] phase(s) = "mint" -> credential[slot(s)] = "captured"
      [] phase(s) = "reconcile" -> credential[slot(s)] = "revocation_pending"
      [] phase(s) = "verify" -> preparation = "verified"
      [] OTHER -> TRUE

Status(c) ==
    /\ At(c, "status")
    /\ Goto(c, [call[c] EXCEPT !.pc = "reread", !.ok = Passed(call[c].step)])
    /\ Local

\* Any check or call of execute_copy_phase fails.
PhaseFails(c) ==
    /\ call[c].pc \in {"prepare", "dispatch", "reserve", "gate", "status"}
    /\ Goto(c, [call[c] EXCEPT !.pc = "reread", !.ok = FALSE])
    /\ Local

\* The row is read again; a failed phase is blocked and cleaned up.
Reread(c) ==
    /\ At(c, "reread")
    /\ Goto(c, IF call[c].ok
               THEN [call[c] EXCEPT !.pc = "finish", !.revision = job.revision]
               ELSE Cleanup("blocked", 2))
    /\ Local

\* Mutant: the completion does not look at the state of the job.
CanFinishBlocked(c) ==
    /\ current
    /\ job.revision = call[c].revision
    /\ job.inflight
    /\ job.next_step = call[c].step
    /\ IF call[c].step + 1 = TOTAL THEN preparation = "verified" ELSE consent

\* The completion's compare-and-swap and the triggers behind it.
CanFinish(c) ==
    /\ current
    /\ job.revision = call[c].revision
    /\ job.inflight
    /\ job.next_step = call[c].step
    /\ job.state = "running"
    /\ IF call[c].step + 1 = TOTAL THEN preparation = "verified" ELSE consent

\* Mutant: the last step reports the workflow's word for its end.
FinishedComplete(s) ==
    [job EXCEPT !.state = IF s + 1 = TOTAL THEN "complete" ELSE "running",
                !.next_step = s + 1, !.inflight = FALSE,
                !.revision = job.revision + 1]

Finished(s) ==
    [job EXCEPT !.state = IF s + 1 = TOTAL THEN "verified" ELSE "running",
                !.next_step = s + 1, !.inflight = FALSE,
                !.revision = job.revision + 1]

Finish(c) ==
    /\ At(c, "finish")
    /\ CanFinish(c)
    /\ job' = Finished(call[c].step)
    /\ \/ Continue(c, "project") /\ UNCHANGED <<workflow, faults>>
       \/ Reply(c, "error") /\ Fault
    /\ UNCHANGED <<stopped, around>>

\* A completion that is refused is an error, without any cleanup.
FinishRefused(c) ==
    /\ At(c, "finish")
    /\ ~CanFinish(c)
    /\ Reply(c, "error")
    /\ UNCHANGED <<job, stopped, faults, around>>

Project(c) ==
    /\ At(c, "project")
    /\ Reply(c, job.state)
    /\ UNCHANGED <<job, stopped, faults, around>>

-----------------------------------------------------------------------------
(* block_copy_job and cleanup_copy_job.                                    *)

\* After an attempt to block, successful or not.
AfterBlock(c) ==
    [call[c] EXCEPT !.pc = IF call[c].blocks = 2 THEN "block" ELSE "list",
                    !.blocks = call[c].blocks - 1]

BlockRead(c) ==
    /\ At(c, "block")
    /\ Goto(c, IF job.state \in Terminal THEN AfterBlock(c)
               ELSE [call[c] EXCEPT !.pc = "blockwrite",
                                    !.revision = job.revision])
    /\ Local

CanBlock(c) ==
    /\ current
    /\ job.revision = call[c].revision
    /\ job.state \in {"queued", "running"}

BlockWrite(c) ==
    /\ At(c, "blockwrite")
    /\ CanBlock(c)
    /\ job' = [job EXCEPT !.state = "blocked", !.revision = job.revision + 1]
    /\ stopped' = TRUE
    /\ Goto(c, AfterBlock(c))
    /\ UNCHANGED <<workflow, faults, around>>

\* The compare-and-swap misses, or the batch fails; nobody looks.
BlockMissed(c) ==
    /\ At(c, "blockwrite")
    /\ \/ ~CanBlock(c) /\ faults' = faults
       \/ Fault
    /\ Goto(c, AfterBlock(c))
    /\ UNCHANGED <<job, workflow, stopped, around>>

Obligations ==
    {s \in Slot : credential[s] \in {"dispatched", "captured",
                                     "revocation_pending"}}

List(c) ==
    /\ At(c, "list")
    /\ Goto(c, [call[c] EXCEPT !.pc = "sweep", !.list = Obligations])
    /\ Local

\* reconcile for an initial credential; revocation, cancel-mint and
\* close-mint for another.  Nothing of it has to succeed.
Sweep(c, s) ==
    /\ At(c, "sweep")
    /\ s \in call[c].list
    /\ \E state \in {credential[s]} \cup
                    IF ~current THEN {}
                    ELSE IF credential[s] = "closed" THEN {}
                    ELSE {"revocation_pending"} \cup
                         (IF s < 2 THEN {} ELSE {"closed"}) :
          credential' = [credential EXCEPT ![s] = state]
    /\ Goto(c, [call[c] EXCEPT !.list = @ \ {s}])
    /\ UNCHANGED <<job, workflow, preparation, consent, current, invoked,
                   stopped, late, faults>>

Swept(c) ==
    /\ At(c, "sweep")
    /\ call[c].list = {}
    /\ Reply(c, call[c].answer)
    /\ UNCHANGED <<job, stopped, faults, around>>

-----------------------------------------------------------------------------

\* A read or a write that is not retried fails, or the isolate dies.
Die(c) ==
    /\ ~At(c, "idle")
    /\ Reply(c, "error")
    /\ Fault
    /\ UNCHANGED <<job, stopped, around>>

\* Withdrawal, expiry, the end of the approving session or a changed source.
Withdraw ==
    /\ consent
    /\ consent' = FALSE
    /\ stopped' = TRUE
    /\ UNCHANGED <<job, preparation, current, credential, workflow, call,
                   invoked, late, faults>>

\* The authority is frozen, or this database is no longer the current one.
Freeze ==
    /\ current
    /\ current' = FALSE
    /\ UNCHANGED <<job, preparation, consent, credential, workflow, call,
                   invoked, stopped, late, faults>>

\* The awaits of a request.
RequestStep(c) ==
    \/ Start(c) \/ Advance(c) \/ Admit(c) \/ AdmitRefused(c)
    \/ Recheck(c) \/ Dispatch(c) \/ Reserve(c) \/ Gate(c) \/ Status(c)
    \/ PhaseFails(c) \/ Reread(c) \/ Finish(c) \/ FinishRefused(c)
    \/ Project(c) \/ BlockRead(c) \/ BlockWrite(c) \/ BlockMissed(c)
    \/ List(c) \/ Swept(c)
    \/ \E s \in Slot : Sweep(c, s)

Send(c) == SendAdvance(c) \/ SendStop(c)

Next ==
    \/ \E c \in Caller : RequestStep(c) \/ Send(c) \/ Die(c)
    \/ \E c \in Caller : OwnerStart(c) \/ Drain(c) \/ OwnerStop(c)
    \/ Timeout \/ Replay \/ Withdraw \/ Freeze

Spec == Init /\ [][Next]_vars

-----------------------------------------------------------------------------
(* Properties.                                                             *)

\* Only the winner of an admission invokes a gate: whatever is replayed,
\* timed out or lost, no step's gate is invoked twice.
GateOnce == \A s \in Step : invoked[s] <= 1

\* One credential at a time: no gate works on a credential, and nothing is
\* verified, before every earlier credential of the copy is closed in the row.
EarlierAreClosed ==
    \A s \in Step : invoked[s] > 0 =>
        \A t \in Slot : t < slot(s) => credential[t] = "closed"

\* A stop or a withdrawal fences the next effect: only the gate of a step
\* that was admitted before may still be invoked.
StopFences == late <= 1

\* A blocked or verified job never changes again, also when a completion or
\* an admission is under way.
TerminalIsFinal == [][job.state \in Terminal => job' = job]_job

\* advance_copy_job says of an admission it finds in flight: "Retain a stop
\* and known-ID cleanup; never replay that step or leave it looking ready to
\* advance."  When the workflow has ended with the job reported as blocked, no
\* request is under way and the authority is current, the row is not running.
StopIsRetained ==
    /\ workflow.result = "blocked"
    /\ current
    /\ \A c \in Caller : At(c, "idle")
    => job.state # "running"

-----------------------------------------------------------------------------
(* Liveness: requests that are under way go on, the workflow engine sends  *)
(* its steps (strong fairness, since the bound on concurrent requests is   *)
(* the model's and not the engine's) and the drain runs every minute.      *)

Fairness ==
    /\ \A c \in Caller : WF_vars(RequestStep(c))
    /\ SF_vars(\E c \in Caller : Send(c))
    /\ SF_vars(\E c \in Caller : Drain(c))

FairSpec == Spec /\ Fairness

\* The workflow ends: no step and no stop is tried for ever.
WorkflowEnds == workflow.status = "running" ~> workflow.status # "running"

\* A queued job does not stay queued behind a lost trigger, a dead request or
\* a workflow that ended without it.
QueuedIsPicked ==
    job.state = "queued" ~> job.state # "queued" \/ ~consent \/ ~current
=============================================================================
