--------------------------- MODULE CopyJobProofs ---------------------------
(***************************************************************************)
(* Safety of the copy job for any number of credentials, concurrent        *)
(* requests and faults.                                                    *)
(*                                                                         *)
(* The argument: between its admission and its completion a request holds  *)
(* the step the row names as in flight, and no second request does         *)
(* (HolderInv).  The row leaves that step only with the holder's           *)
(* completion, after the credential it worked on was seen closed           *)
(* (ClosedInv).  A step that was entered is never admitted again           *)
(* (InvokedInv), and after a stop nobody becomes a holder (LateInv).       *)
(***************************************************************************)
EXTENDS CopyJob, TLAPS

CredentialState == {"none", "reserved", "dispatched", "captured",
                    "revocation_pending", "closed"}

\* Where a request holds the step in flight, and before its gate.
Before == {"prepare", "dispatch", "reserve", "gate"}
Holding == Before \cup {"status", "reread", "finish"}

\* Where an attempt to block is still to be made.
BlocksInv ==
    \A c \in Caller : call[c].pc \in {"block", "blockwrite"}
                        => call[c].blocks \in 1..2

HolderInv ==
    /\ \A c \in Caller : call[c].pc \in Holding =>
          call[c].step = job.next_step /\ job.inflight
    /\ \A c, d \in Caller :
          call[c].pc \in Holding /\ call[d].pc \in Holding => c = d

\* The step, or the credential it ends with, is done.
Done(s) == phase(s) \in {"initial", "close"} => credential[slot(s)] = "closed"

ClosedInv ==
    /\ \A s \in Step : s < job.next_step => Done(s)
    /\ \A c \in Caller :
          call[c].pc = "finish" \/ (call[c].pc = "reread" /\ call[c].ok)
             => Done(call[c].step)
    /\ EarlierAreClosed

\* A job that is not queued yet has done nothing.
JobInv == job.state = "none" => job.next_step = 0 /\ ~job.inflight

InvokedInv ==
    /\ \A s \in Step : invoked[s] > 0 =>
          s < job.next_step \/ (s = job.next_step /\ job.inflight)
    /\ \A c \in Caller : call[c].pc \in Before => invoked[call[c].step] = 0
    /\ GateOnce

LateInv ==
    /\ stopped => ~consent \/ job.state = "blocked"
    /\ ~stopped => late = 0
    /\ \A c \in Caller : call[c].pc \in Before => late = 0
    /\ late <= 1

IInv ==
    /\ TypeOK
    /\ BlocksInv
    /\ JobInv
    /\ HolderInv
    /\ ClosedInv
    /\ InvokedInv
    /\ LateInv

-----------------------------------------------------------------------------
(* Steps and slots.                                                        *)

LEMMA TotalType == TOTAL \in Nat /\ TOTAL >= 7 /\ 0 \in Step
  BY ConstantsAssumption DEF TOTAL, Step

\* Every earlier credential of a step was closed by an earlier step.
LEMMA EarlierStep ==
    ASSUME NEW s \in Step, NEW t \in Slot, t < slot(s)
    PROVE  \E e \in Step : e < s /\ slot(e) = t /\ phase(e) \in {"initial", "close"}
  <1>1. CASE t < 2
    <2>1. t \in Step /\ t < s /\ slot(t) = t /\ phase(t) = "initial"
      BY <1>1, ConstantsAssumption DEF Step, Slot, slot, phase, TOTAL
    <2> QED
      BY <2>1
  <1>2. CASE t >= 2
    <2> DEFINE e == 4 * t - 3
    <2>1. s >= 2 /\ (s - 2) \div 4 >= t - 1
      BY <1>2 DEF slot, Slot, Step
    <2>2. s - 2 >= 4 * (t - 1)
      BY <2>1 DEF Slot, Step
    <2>3. e \in Step /\ e < s /\ e >= 5
      BY <1>2, <2>2, TotalType, ConstantsAssumption DEF Slot, Step
    <2>4. (e - 2) % 4 = 3 /\ (e - 2) \div 4 = t - 2
      BY <1>2 DEF Slot
    <2>5. slot(e) = t
      BY <2>3, <2>4, <1>2 DEF slot, Slot
    <2>6. e # TOTAL - 1
      BY <2>3, TotalType DEF Step
    <2> HIDE DEF e
    <2>7. phase(e) = "close"
      BY <2>3, <2>4, <2>6 DEF phase, Step
    <2> QED
      BY <2>3, <2>5, <2>7
  <1> QED
    BY <1>1, <1>2 DEF Slot

-----------------------------------------------------------------------------
(* Records.                                                                *)

LEMMA IdleType ==
    /\ Idle \in Call
    /\ Idle.pc = "idle" /\ Idle.step = 0
  BY TotalType DEF Idle, Call

LEMMA ContinueCall ==
    ASSUME TypeOK, NEW c \in Caller,
           NEW pc \in {"idle", "start", "read", "admit", "prepare", "dispatch",
                       "reserve", "gate", "status", "reread", "finish",
                       "project", "block", "blockwrite", "list", "sweep"},
           Continue(c, pc)
    PROVE  \E r \in Call :
              /\ Goto(c, r) /\ r.pc = pc
              /\ r.step = call[c].step /\ r.ok = call[c].ok
              /\ r.blocks = call[c].blocks
  <1> DEFINE r == [call[c] EXCEPT !.pc = pc]
  <1>1. call[c] \in Call
    BY DEF TypeOK
  <1>2. /\ r \in Call /\ r.pc = pc /\ r.step = call[c].step
        /\ r.ok = call[c].ok /\ r.blocks = call[c].blocks
    BY <1>1 DEF Call
  <1> QED
    BY <1>2 DEF Continue

LEMMA AfterReplyType ==
    ASSUME TypeOK, NEW answer
    PROVE  AfterReply(answer) \in Workflow
  <1>1. workflow \in Workflow
    BY DEF TypeOK
  <1>3. CASE workflow.pc = "wait"
    <2>1. CASE answer = "error" \/ (answer = "running" /\ workflow.ordinal + 1 = TOTAL)
      BY <1>1, <1>3, <2>1 DEF AfterReply, Workflow
    <2>2. CASE /\ ~(answer = "error" \/ (answer = "running" /\ workflow.ordinal + 1 = TOTAL))
               /\ answer = "running"
      <3>1. workflow.ordinal + 1 \in Step
        BY <1>1, <2>2, TotalType DEF Workflow, Step
      <3> DEFINE o == workflow.ordinal + 1
      <3>2. AfterReply(answer) = [workflow EXCEPT !.pc = "send", !.call = {},
                                                  !.ordinal = o]
        BY <1>3, <2>2 DEF AfterReply
      <3> HIDE DEF o
      <3>3. o \in Step
        BY <3>1 DEF o
      <3> QED
        BY <1>1, <3>2, <3>3 DEF Workflow
    <2>3. CASE /\ ~(answer = "error" \/ (answer = "running" /\ workflow.ordinal + 1 = TOTAL))
               /\ answer # "running"
      <3> DEFINE e == IF answer = "verified" THEN "verified" ELSE "blocked"
      <3>1. AfterReply(answer) = Ended(e) /\ e \in {"none", "blocked", "verified"}
        BY <1>3, <2>3 DEF AfterReply
      <3> HIDE DEF e
      <3> QED
        BY <1>1, <3>1 DEF Ended, Workflow
    <2> QED
      BY <2>1, <2>2, <2>3
  <1>4. CASE workflow.pc # "wait"
    <2>1. CASE answer # "error"
      BY <1>1, <1>4, <2>1 DEF AfterReply, Ended, Workflow
    <2>2. CASE answer = "error" /\ workflow.tries < 2
      <3> DEFINE n == workflow.tries + 1
      <3>1. n \in 0..2
        BY <1>1, <2>2 DEF Workflow
      <3>2. AfterReply(answer) = [workflow EXCEPT !.pc = "stop", !.call = {},
                                                  !.tries = n]
        BY <1>4, <2>2 DEF AfterReply
      <3> HIDE DEF n
      <3> QED
        BY <1>1, <3>1, <3>2 DEF Workflow
    <2>3. CASE answer = "error" /\ ~(workflow.tries < 2)
      BY <1>1, <1>4, <2>3 DEF AfterReply, Workflow
    <2> QED
      BY <2>1, <2>2, <2>3
  <1> QED
    BY <1>3, <1>4

LEMMA ReplyType ==
    ASSUME TypeOK, NEW c \in Caller, NEW answer, Reply(c, answer)
    PROVE  Goto(c, Idle) /\ workflow' \in Workflow
  BY AfterReplyType DEF Reply, TypeOK

LEMMA CleanupType ==
    ASSUME NEW answer \in {"blocked", "stopped"}, NEW b \in 1..2
    PROVE  /\ Cleanup(answer, b) \in Call
           /\ Cleanup(answer, b).pc = "block" /\ Cleanup(answer, b).blocks = b
  <1>1. b \in 0..2 /\ 0 \in Step /\ 0 \in Nat
    BY TotalType
  <1>2. Cleanup(answer, b) \in Call
    BY <1>1 DEF Cleanup, Idle, Call
  <1>3. Cleanup(answer, b).pc = "block"
    BY DEF Cleanup, Idle
  <1>4. Cleanup(answer, b).blocks = b
    BY DEF Cleanup, Idle
  <1> QED
    BY <1>2, <1>3, <1>4

LEMMA SlotType ==
    ASSUME NEW s \in Step, phase(s) # "verify"
    PROVE  slot(s) \in Slot
  <1>1. CASE s < 2
    BY <1>1, ConstantsAssumption DEF slot, Slot, Step
  <1>2. CASE s >= 2
    <2>1. s \in Nat /\ s < 2 + 4 * Slots
      BY <1>2, ConstantsAssumption DEF phase, Step, TOTAL
    <2>2. (s - 2) \div 4 \in Nat /\ (s - 2) \div 4 < Slots
      BY <1>2, <2>1, ConstantsAssumption
    <2> QED
      BY <1>2, <2>1, <2>2, ConstantsAssumption DEF slot, Slot
  <1> QED
    BY <1>1, <1>2 DEF Step

-----------------------------------------------------------------------------
(* Steps of a request that admit, invoke and complete nothing.             *)

LEMMA GotoOthers ==
    ASSUME TypeOK, NEW c \in Caller, NEW r \in Call, Goto(c, r)
    PROVE  /\ call' \in [Caller -> Call]
           /\ call'[c] = r
           /\ \A d \in Caller \ {c} : call'[d] = call[d]
  BY DEF TypeOK, Goto

\* A closed credential stays closed.
Closes == \A t \in Slot : credential[t] = "closed" => credential'[t] = "closed"

LEMMA DoneStable ==
    ASSUME Closes, NEW s \in Step, Done(s)
    PROVE  Done(s)'
  BY SlotType DEF Closes, Done

LEMMA CallStep ==
    ASSUME IInv, NEW c \in Caller, NEW r \in Call, Goto(c, r),
           TypeOK', Closes, consent' = consent,
           invoked' = invoked, late' = late,
           job'.next_step = job.next_step, job'.inflight = job.inflight,
           job.state = "blocked" => job'.state = "blocked",
           job'.state = "none" => job.state = "none",
           stopped => stopped', stopped' => stopped \/ job'.state = "blocked",
           r.pc \in {"block", "blockwrite"} => r.blocks \in 1..2,
           r.pc \in Holding => call[c].pc \in Holding /\ r.step = call[c].step,
           r.pc \in Before => call[c].pc \in Before,
           r.pc = "finish" \/ (r.pc = "reread" /\ r.ok) => Done(r.step)
    PROVE  IInv'
  <1>1. /\ call'[c] = r
        /\ \A d \in Caller \ {c} : call'[d] = call[d]
    BY GotoOthers DEF IInv
  <1>2. BlocksInv'
    BY <1>1 DEF IInv, BlocksInv
  <1>j. JobInv'
    BY DEF IInv, JobInv
  <1>3. HolderInv'
    BY <1>1 DEF IInv, HolderInv
  <1>4. ClosedInv'
    <2>1. ASSUME NEW s \in Step, s < job'.next_step PROVE Done(s)'
      BY <2>1, DoneStable DEF IInv, ClosedInv
    <2>2. ASSUME NEW d \in Caller,
                 call'[d].pc = "finish" \/ (call'[d].pc = "reread" /\ call'[d].ok)
          PROVE  Done(call[d].step)'
      <3>1. PICK s \in Step : s = call'[d].step
        BY DEF TypeOK, Call
      <3>2. Done(s)
        <4>1. CASE d = c
          BY <1>1, <2>2, <3>1, <4>1
        <4>2. CASE d # c
          BY <1>1, <2>2, <3>1, <4>2 DEF IInv, ClosedInv
        <4> QED
          BY <4>1, <4>2
      <3>3. Done(s)'
        BY <3>2, DoneStable
      <3> QED
        BY <3>1, <3>3 DEF Done
    <2>3. EarlierAreClosed'
      BY DEF IInv, ClosedInv, EarlierAreClosed, Closes
    <2> QED
      BY <2>1, <2>2, <2>3 DEF ClosedInv
  <1>5. InvokedInv'
    BY <1>1 DEF IInv, InvokedInv, GateOnce, Before, Holding
  <1>6. LateInv'
    BY <1>1 DEF IInv, LateInv
  <1> QED
    BY <1>2, <1>j, <1>3, <1>4, <1>5, <1>6 DEF IInv

\* Going on without holding more than before.
Modest(c, r) ==
    /\ r.pc \in {"block", "blockwrite"} => r.blocks \in 1..2
    /\ r.pc \in Holding => call[c].pc \in Holding /\ r.step = call[c].step
    /\ r.pc \in Before => call[c].pc \in Before
    /\ r.pc = "finish" \/ (r.pc = "reread" /\ r.ok) => Done(r.step)

LEMMA QuietStep ==
    ASSUME IInv, NEW c \in Caller, NEW r \in Call, Goto(c, r), Modest(c, r),
           UNCHANGED <<job, stopped, around>>, workflow' \in Workflow,
           faults' \in 0..MaxFaults
    PROVE  IInv'
  <1>1. TypeOK'
    BY GotoOthers DEF IInv, TypeOK, around
  <1>2. Closes
    BY DEF Closes, around
  <1> QED
    BY <1>1, <1>2, CallStep DEF around, Modest

LEMMA FaultType ==
    ASSUME IInv
    PROVE  /\ Fault => faults' \in 0..MaxFaults
           /\ faults \in 0..MaxFaults /\ workflow \in Workflow
  BY ConstantsAssumption DEF IInv, TypeOK, Fault

LEMMA IdleModest == ASSUME NEW c \in Caller PROVE Modest(c, Idle)
  BY IdleType DEF Modest, Holding, Before

LEMMA QuietReply ==
    ASSUME IInv, NEW c \in Caller, NEW answer, Reply(c, answer),
           UNCHANGED <<job, stopped, around>>,
           faults' = faults \/ Fault
    PROVE  IInv'
  BY ReplyType, FaultType, IdleType, IdleModest, QuietStep DEF IInv

LEMMA LocalStep ==
    ASSUME IInv, NEW c \in Caller, NEW r \in Call, Goto(c, r), Modest(c, r),
           Local
    PROVE  IInv'
  BY FaultType, QuietStep DEF Local

LEMMA SendAdvanceStep ==
    ASSUME IInv, NEW c \in Caller, SendAdvance(c) PROVE IInv'
  <1> DEFINE r == [Idle EXCEPT !.pc = "read", !.step = workflow.ordinal]
             w == [workflow EXCEPT !.pc = "wait", !.call = {c}]
  <1>1. workflow \in Workflow /\ workflow.ordinal \in Step
    BY DEF IInv, TypeOK, Workflow
  <1>2. r \in Call /\ r.pc = "read"
    BY <1>1, IdleType DEF Call
  <1>3. w \in Workflow
    BY <1>1 DEF Workflow
  <1>4. Modest(c, r)
    BY <1>2 DEF Modest, Holding, Before
  <1> QED
    BY <1>2, <1>3, <1>4, FaultType, QuietStep DEF SendAdvance

LEMMA SendStopStep ==
    ASSUME IInv, NEW c \in Caller, SendStop(c) PROVE IInv'
  <1> DEFINE r == Cleanup("stopped", 1)
             w == [workflow EXCEPT !.pc = "stopwait", !.call = {c}]
  <1>1. r \in Call /\ r.pc = "block" /\ r.blocks = 1
    BY CleanupType
  <1>2. w \in Workflow
    BY DEF IInv, TypeOK, Workflow
  <1>3. Modest(c, r)
    BY <1>1 DEF Modest, Holding, Before
  <1> QED
    BY <1>1, <1>2, <1>3, FaultType, QuietStep DEF SendStop

\* A cleanup is modest, whoever starts it.
LEMMA CleanupModest ==
    ASSUME NEW c \in Caller, NEW answer \in {"blocked", "stopped"},
           NEW b \in 1..2
    PROVE  Cleanup(answer, b) \in Call /\ Modest(c, Cleanup(answer, b))
  BY CleanupType DEF Modest, Holding, Before

LEMMA StartRecord ==
    ASSUME NEW c \in Caller
    PROVE  LET r == [Idle EXCEPT !.pc = "start"] IN r \in Call /\ Modest(c, r)
  <1> DEFINE r == [Idle EXCEPT !.pc = "start"]
  <1>1. r \in Call /\ r.pc = "start"
    BY IdleType DEF Call
  <1> HIDE DEF r
  <1>2. Modest(c, r)
    BY <1>1 DEF Modest, Holding, Before
  <1> QED
    BY <1>1, <1>2 DEF r

LEMMA StartSteps ==
    ASSUME IInv, NEW c \in Caller,
           Drain(c) \/ Start(c) \/ OwnerStop(c)
    PROVE  IInv'
  <1>1. CASE Drain(c)
    BY <1>1, StartRecord, LocalStep DEF Drain
  <1>2. CASE OwnerStop(c)
    BY <1>2, CleanupModest, LocalStep DEF OwnerStop
  <1>3. CASE Start(c)
    <2>1. workflow' \in Workflow
      <3>1. workflow \in Workflow
        BY DEF IInv, TypeOK
      <3> QED
        BY <1>3, <3>1 DEF Start, Workflow
    <2>2. PICK r \in Call : Goto(c, r) /\ Modest(c, r)
      BY <1>3, IdleType, IdleModest, CleanupModest DEF Start
    <2> QED
      BY <1>3, <2>1, <2>2, FaultType, QuietStep DEF Start
  <1> QED
    BY <1>1, <1>2, <1>3

LEMMA OwnerStartStep ==
    ASSUME IInv, NEW c \in Caller, OwnerStart(c) PROVE IInv'
  <1> DEFINE r == [Idle EXCEPT !.pc = "start"]
  <1>0. r \in Call /\ Modest(c, r)
    BY StartRecord
  <1>1. CASE job.state # "none"
    BY <1>0, <1>1, FaultType, QuietStep DEF OwnerStart
  <1>2. CASE job.state = "none"
    <2> DEFINE queued == [NoJob EXCEPT !.state = "queued", !.revision = 1]
    <2>1. NoJob \in Job /\ NoJob.next_step = 0 /\ ~NoJob.inflight
      BY TotalType DEF NoJob, Job
    <2>2. /\ queued \in Job /\ queued.next_step = 0 /\ ~queued.inflight
          /\ queued.state = "queued"
      BY <2>1 DEF Job
    <2>3. /\ job' = queued /\ call[c].pc = "idle"
          /\ Goto(c, r) \/ UNCHANGED call
          /\ UNCHANGED <<workflow, stopped, faults, around>>
      BY <1>2 DEF OwnerStart, At
    <2> HIDE DEF queued, r
    <2>4. PICK x \in Call : Goto(c, x) /\ Modest(c, x)
      <3>1. CASE UNCHANGED call
        <4>1. call[c] \in Call /\ call \in [Caller -> Call]
          BY DEF IInv, TypeOK
        <4>2. Goto(c, call[c])
          BY <3>1, <4>1 DEF Goto
        <4>3. Modest(c, call[c])
          BY <2>3 DEF Modest, Holding, Before
        <4> QED
          BY <4>1, <4>2, <4>3
      <3> QED
        BY <1>0, <2>3, <3>1
    <2>5. TypeOK'
      BY <2>2, <2>3, <2>4, GotoOthers DEF IInv, TypeOK, around
    <2>6. /\ Closes /\ job.next_step = 0 /\ job.inflight = FALSE
          /\ queued.inflight = FALSE
      BY <1>2, <2>2, <2>3 DEF Closes, around, IInv, JobInv, TypeOK, Job
    <2> QED
      BY <1>2, <2>2, <2>3, <2>4, <2>5, <2>6, CallStep DEF around, Modest
  <1> QED
    BY <1>1, <1>2

LEMMA AdvanceStep ==
    ASSUME IInv, NEW c \in Caller, Advance(c) PROVE IInv'
  <1>1. UNCHANGED <<job, stopped, faults, around>>
    BY DEF Advance
  <1>2. ASSUME NEW answer, Reply(c, answer) PROVE IInv'
    BY <1>1, <1>2, QuietReply
  <1>3. CASE Goto(c, Cleanup("blocked", 1)) /\ UNCHANGED workflow
    BY <1>1, <1>3, CleanupModest, FaultType, QuietStep
  <1> DEFINE r == [call[c] EXCEPT !.pc = "admit", !.revision = job.revision]
  <1>4. CASE Goto(c, r) /\ UNCHANGED workflow
    <2>1. call[c] \in Call /\ job.revision \in Nat
      BY DEF IInv, TypeOK, Job
    <2>2. r \in Call /\ r.pc = "admit"
      BY <2>1 DEF Call
    <2> HIDE DEF r
    <2>3. Modest(c, r)
      BY <2>2 DEF Modest, Holding, Before
    <2> QED
      BY <1>1, <1>4, <2>2, <2>3, FaultType, QuietStep
  <1> QED
    BY <1>2, <1>3, <1>4 DEF Advance

LEMMA RefusedSteps ==
    ASSUME IInv, NEW c \in Caller,
           \/ AdmitRefused(c) \/ FinishRefused(c) \/ Project(c) \/ Swept(c)
           \/ Die(c)
    PROVE  IInv'
  BY QuietReply DEF AdmitRefused, FinishRefused, Project, Swept, Die

\* The record of a request that goes on.
LEMMA ContinueModest ==
    ASSUME IInv, NEW c \in Caller,
           NEW pc \in {"dispatch", "reserve", "gate"}, call[c].pc \in Before,
           Continue(c, pc)
    PROVE  \E r \in Call : Goto(c, r) /\ Modest(c, r)
  <1>1. PICK r \in Call : /\ Goto(c, r) /\ r.pc = pc
                          /\ r.step = call[c].step
    BY ContinueCall DEF IInv
  <1> QED
    BY <1>1 DEF Modest, Holding, Before

LEMMA RecheckStep ==
    ASSUME IInv, NEW c \in Caller, Recheck(c) PROVE IInv'
  BY ContinueModest, LocalStep DEF Recheck, At, Before

LEMMA DispatchStep ==
    ASSUME IInv, NEW c \in Caller, Dispatch(c) PROVE IInv'
  <1>1. PICK r \in Call : Goto(c, r) /\ Modest(c, r)
    BY ContinueModest DEF Dispatch, At, Before
  <1>2. TypeOK'
    BY <1>1, GotoOthers DEF Dispatch, IInv, TypeOK
  <1>3. Closes
    BY DEF Dispatch, Closes
  <1> QED
    BY <1>1, <1>2, <1>3, CallStep DEF Dispatch, Modest

LEMMA ReserveStep ==
    ASSUME IInv, NEW c \in Caller, Reserve(c) PROVE IInv'
  <1>1. PICK r \in Call : Goto(c, r) /\ Modest(c, r)
    BY ContinueModest DEF Reserve, At, Before
  <1>2. credential \in [Slot -> CredentialState]
    BY DEF IInv, TypeOK, CredentialState
  <1>3. credential' \in [Slot -> CredentialState] /\ Closes
    BY <1>2 DEF Reserve, CredentialState, Closes
  <1>4. TypeOK'
    BY <1>1, <1>3, GotoOthers DEF Reserve, IInv, TypeOK, CredentialState
  <1> QED
    BY <1>1, <1>3, <1>4, CallStep DEF Reserve, Modest

\* The record of a request whose phase is over.
LEMMA RereadRecord ==
    ASSUME IInv, NEW c \in Caller, NEW ok \in BOOLEAN,
           call[c].pc \in Holding, ok => Done(call[c].step)
    PROVE  LET r == [call[c] EXCEPT !.pc = "reread", !.ok = ok]
           IN  r \in Call /\ Modest(c, r)
  <1> DEFINE r == [call[c] EXCEPT !.pc = "reread", !.ok = ok]
  <1>1. call[c] \in Call
    BY DEF IInv, TypeOK
  <1>2. r \in Call /\ r.pc = "reread" /\ r.ok = ok /\ r.step = call[c].step
    BY <1>1 DEF Call
  <1> HIDE DEF r
  <1>3. Modest(c, r)
    BY <1>2 DEF Modest, Before
  <1> QED
    BY <1>2, <1>3 DEF r

LEMMA StatusStep ==
    ASSUME IInv, NEW c \in Caller, Status(c) PROVE IInv'
  <1> DEFINE ok == Passed(call[c].step)
  <1>1. ok \in BOOLEAN
    BY DEF Passed
  <1>2. ok => Done(call[c].step)
    BY DEF Passed, Done
  <1>3. Goto(c, [call[c] EXCEPT !.pc = "reread", !.ok = ok]) /\ Local
    BY DEF Status
  <1>4. call[c].pc \in Holding
    BY DEF Status, At, Holding
  <1> HIDE DEF ok
  <1> QED
    BY <1>1, <1>2, <1>3, <1>4, RereadRecord, LocalStep

LEMMA PhaseFailsStep ==
    ASSUME IInv, NEW c \in Caller, PhaseFails(c) PROVE IInv'
  <1>1. call[c].pc \in Holding
    BY DEF PhaseFails, Holding, Before
  <1> QED
    BY <1>1, RereadRecord, LocalStep DEF PhaseFails

LEMMA RereadStep ==
    ASSUME IInv, NEW c \in Caller, Reread(c) PROVE IInv'
  <1>1. CASE ~call[c].ok
    BY <1>1, CleanupModest, LocalStep DEF Reread
  <1>2. CASE call[c].ok
    <2> DEFINE r == [call[c] EXCEPT !.pc = "finish", !.revision = job.revision]
    <2>1. call[c] \in Call /\ job.revision \in Nat /\ Done(call[c].step)
      BY <1>2 DEF IInv, TypeOK, Job, ClosedInv, Reread, At
    <2>2. r \in Call /\ r.pc = "finish" /\ r.step = call[c].step
      BY <2>1 DEF Call
    <2>3. Goto(c, r) /\ Local /\ call[c].pc = "reread"
      BY <1>2 DEF Reread, At
    <2> HIDE DEF r
    <2>4. Modest(c, r)
      BY <2>1, <2>2, <2>3 DEF Modest, Holding, Before
    <2> QED
      BY <2>2, <2>3, <2>4, LocalStep
  <1> QED
    BY <1>1, <1>2

LEMMA AfterBlockRecord ==
    ASSUME IInv, NEW c \in Caller, call[c].pc \in {"block", "blockwrite"}
    PROVE  AfterBlock(c) \in Call /\ Modest(c, AfterBlock(c))
  <1> DEFINE pc == IF call[c].blocks = 2 THEN "block" ELSE "list"
             b == call[c].blocks - 1
             r == [call[c] EXCEPT !.pc = pc, !.blocks = b]
  <1>1. call[c] \in Call /\ call[c].blocks \in 1..2
    BY DEF IInv, TypeOK, BlocksInv
  <1>2. /\ b \in 0..2 /\ pc \in {"block", "list"}
        /\ pc = "block" => b \in 1..2
    BY <1>1
  <1>3. AfterBlock(c) = r
    BY DEF AfterBlock
  <1> HIDE DEF pc, b
  <1>4. r \in Call /\ r.pc = pc /\ r.blocks = b
    BY <1>1, <1>2 DEF Call
  <1> HIDE DEF r
  <1>5. Modest(c, r)
    BY <1>2, <1>4 DEF Modest, Holding, Before
  <1> QED
    BY <1>3, <1>4, <1>5

LEMMA BlockReadStep ==
    ASSUME IInv, NEW c \in Caller, BlockRead(c) PROVE IInv'
  <1>1. call[c].pc = "block" /\ Local
    BY DEF BlockRead, At
  <1>2. CASE job.state \in Terminal
    BY <1>1, <1>2, AfterBlockRecord, LocalStep DEF BlockRead
  <1>3. CASE job.state \notin Terminal
    <2> DEFINE r == [call[c] EXCEPT !.pc = "blockwrite",
                                    !.revision = job.revision]
    <2>1. /\ call[c] \in Call /\ job.revision \in Nat
          /\ call[c].blocks \in 1..2
      BY <1>1 DEF IInv, TypeOK, Job, BlocksInv
    <2>2. r \in Call /\ r.pc = "blockwrite" /\ r.blocks = call[c].blocks
      BY <2>1 DEF Call
    <2>3. Goto(c, r)
      BY <1>3 DEF BlockRead
    <2> HIDE DEF r
    <2>4. Modest(c, r)
      BY <2>1, <2>2 DEF Modest, Holding, Before
    <2> QED
      BY <1>1, <2>2, <2>3, <2>4, LocalStep
  <1> QED
    BY <1>2, <1>3

LEMMA BlockMissedStep ==
    ASSUME IInv, NEW c \in Caller, BlockMissed(c) PROVE IInv'
  BY AfterBlockRecord, FaultType, QuietStep DEF BlockMissed, At

LEMMA BlockWriteStep ==
    ASSUME IInv, NEW c \in Caller, BlockWrite(c) PROVE IInv'
  <1> DEFINE n == job.revision + 1
             j == [job EXCEPT !.state = "blocked", !.revision = n]
  <1>1. /\ job' = j /\ stopped' = TRUE /\ Goto(c, AfterBlock(c))
        /\ UNCHANGED <<workflow, faults, around>>
        /\ call[c].pc = "blockwrite"
    BY DEF BlockWrite, At
  <1>2. job \in Job /\ n \in Nat
    BY DEF IInv, TypeOK, Job
  <1> HIDE DEF n
  <1>3. /\ j \in Job /\ j.state = "blocked" /\ j.next_step = job.next_step
        /\ j.inflight = job.inflight
    BY <1>2 DEF Job
  <1> HIDE DEF j
  <1>4. AfterBlock(c) \in Call /\ Modest(c, AfterBlock(c))
    BY <1>1, AfterBlockRecord
  <1>5. TypeOK'
    BY <1>1, <1>3, <1>4, GotoOthers DEF IInv, TypeOK, around
  <1>6. Closes
    BY <1>1 DEF Closes, around
  <1> QED
    BY <1>1, <1>3, <1>4, <1>5, <1>6, CallStep DEF around, Modest

LEMMA ListStep ==
    ASSUME IInv, NEW c \in Caller, List(c) PROVE IInv'
  <1> DEFINE r == [call[c] EXCEPT !.pc = "sweep", !.list = Obligations]
  <1>1. call[c] \in Call /\ Obligations \in SUBSET Slot
    BY DEF IInv, TypeOK, Obligations
  <1>2. r \in Call /\ r.pc = "sweep"
    BY <1>1 DEF Call
  <1>3. Goto(c, r) /\ Local
    BY DEF List
  <1> HIDE DEF r
  <1>4. Modest(c, r)
    BY <1>2 DEF Modest, Holding, Before
  <1> QED
    BY <1>2, <1>3, <1>4, LocalStep

LEMMA SweepStep ==
    ASSUME IInv, NEW c \in Caller, NEW s \in Slot, Sweep(c, s) PROVE IInv'
  <1> DEFINE l == call[c].list \ {s}
             r == [call[c] EXCEPT !.list = l]
  <1>1. call[c] \in Call /\ l \in SUBSET Slot /\ call[c].pc = "sweep"
    BY DEF IInv, TypeOK, Call, Sweep, At
  <1>2. Goto(c, r)
    BY DEF Sweep
  <1> HIDE DEF l
  <1>3. r \in Call /\ r.pc = "sweep"
    BY <1>1 DEF Call
  <1> HIDE DEF r
  <1>4. Modest(c, r)
    BY <1>3 DEF Modest, Holding, Before
  <1>5. credential \in [Slot -> CredentialState]
    BY DEF IInv, TypeOK, CredentialState
  <1>6. PICK state \in CredentialState :
           /\ credential' = [credential EXCEPT ![s] = state]
           /\ credential[s] = "closed" => state = "closed"
    BY <1>5 DEF Sweep, CredentialState
  <1>7. credential' \in [Slot -> CredentialState] /\ Closes
    BY <1>5, <1>6 DEF Closes
  <1>8. TypeOK'
    BY <1>2, <1>3, <1>7, GotoOthers DEF Sweep, IInv, TypeOK, CredentialState
  <1> QED
    BY <1>2, <1>3, <1>4, <1>7, <1>8, CallStep DEF Sweep, Modest

-----------------------------------------------------------------------------
(* Admission, gate and completion.                                         *)

\* Nobody holds a step when an admission commits, and nobody has entered it.
LEMMA AdmitStep ==
    ASSUME IInv, NEW c \in Caller, Admit(c) PROVE IInv'
  <1> DEFINE n == job.revision + 1
             j == [job EXCEPT !.state = "running", !.inflight = TRUE,
                              !.revision = n]
  <1>1. /\ CanAdmit(c) /\ job' = j /\ UNCHANGED <<stopped, around>>
    BY DEF Admit, Admitted
  <1>2. job \in Job /\ n \in Nat
    BY DEF IInv, TypeOK, Job
  <1> HIDE DEF n
  <1>3. /\ j \in Job /\ j.state = "running" /\ j.next_step = job.next_step
        /\ j.inflight = TRUE
    BY <1>2 DEF Job
  <1> HIDE DEF j
  <1>4. /\ consent /\ ~job.inflight /\ job.next_step = call[c].step
        /\ job.state # "blocked"
    BY <1>1 DEF CanAdmit
  <1>5. \A d \in Caller : call[d].pc \notin Holding
    BY <1>4 DEF IInv, HolderInv
  <1>6. call[c].step \in Step /\ invoked[call[c].step] = 0
    <2>1. call[c].step \in Step /\ invoked \in [Step -> Nat]
      BY DEF IInv, TypeOK, Call
    <2> QED
      BY <1>4, <2>1 DEF IInv, InvokedInv, Step
  <1>7. ~stopped /\ late = 0
    BY <1>4 DEF IInv, LateInv
  <1>8. PICK r \in Call : /\ Goto(c, r)
                          /\ r.pc \in Before => r.step = call[c].step
                          /\ r.pc \in Before \cup {"idle"}
    <2>1. CASE Goto(c, Idle)
      BY <2>1, IdleType DEF Before
    <2>2. CASE Continue(c, FirstPc(call[c].step))
      <3>1. FirstPc(call[c].step) \in {"prepare", "gate", "reserve"}
        BY DEF FirstPc
      <3> QED
        BY <2>2, <3>1, ContinueCall DEF IInv, Before
    <2> QED
      BY <2>1, <2>2 DEF Admit, Reply
  <1>9. workflow' \in Workflow /\ faults' \in 0..MaxFaults
    BY FaultType, ReplyType DEF Admit, IInv
  <1>10. /\ call' \in [Caller -> Call] /\ call'[c] = r
         /\ \A d \in Caller \ {c} : call'[d] = call[d]
    BY <1>8, GotoOthers DEF IInv
  <1>11. TypeOK'
    BY <1>1, <1>3, <1>9, <1>10 DEF IInv, TypeOK, around
  <1>12. BlocksInv' /\ JobInv'
    BY <1>1, <1>3, <1>8, <1>10 DEF IInv, BlocksInv, JobInv, Before
  <1>13. HolderInv'
    BY <1>1, <1>3, <1>4, <1>5, <1>8, <1>10 DEF HolderInv, Holding, Before
  <1>14. ClosedInv'
    <2>1. Closes
      BY <1>1 DEF Closes, around
    <2>2. ASSUME NEW s \in Step, s < job'.next_step PROVE Done(s)'
      BY <1>1, <1>3, <2>1, <2>2, DoneStable DEF IInv, ClosedInv
    <2>3. \A d \in Caller : call'[d].pc \notin {"finish", "reread"}
      BY <1>5, <1>8, <1>10 DEF Holding, Before
    <2>4. EarlierAreClosed'
      BY <1>1 DEF IInv, ClosedInv, EarlierAreClosed, around
    <2> QED
      BY <2>2, <2>3, <2>4 DEF ClosedInv
  <1>15. InvokedInv'
    <2>1. ASSUME NEW d \in Caller, call'[d].pc \in Before
          PROVE  invoked'[call'[d].step] = 0
      <3>1. d = c
        BY <1>5, <1>10, <2>1 DEF Holding
      <3> QED
        BY <1>1, <1>6, <1>8, <1>10, <2>1, <3>1 DEF around
    <2> QED
      BY <1>1, <1>3, <2>1 DEF IInv, InvokedInv, GateOnce, around
  <1>16. LateInv'
    BY <1>1, <1>7 DEF LateInv, around
  <1> QED
    BY <1>11, <1>12, <1>13, <1>14, <1>15, <1>16 DEF IInv

\* What a gate leaves is a state, and a closed credential stays closed.
LEMMA OutcomesType ==
    ASSUME NEW state \in CredentialState, NEW p
    PROVE  /\ Outcomes(p, state) \subseteq CredentialState
           /\ Outcomes(p, "closed") = {"closed"}
  BY DEF Outcomes, CredentialState

LEMMA GateStep ==
    ASSUME IInv, NEW c \in Caller, Gate(c) PROVE IInv'
  <1> DEFINE s == call[c].step
  <1>1. /\ call[c].pc = "gate"
        /\ invoked' = [invoked EXCEPT ![s] = invoked[s] + 1]
        /\ late' = IF stopped THEN late + 1 ELSE late
        /\ UNCHANGED <<job, workflow, consent, current, stopped, faults>>
    BY DEF Gate, At
  <1>2. /\ s \in Step /\ invoked \in [Step -> Nat] /\ invoked[s] = 0
        /\ late = 0 /\ s = job.next_step /\ job.inflight
    BY <1>1 DEF IInv, TypeOK, Call, InvokedInv, LateInv, HolderInv, Holding,
       Before
  <1>3. \A d \in Caller \ {c} : call[d].pc \notin Holding
    BY <1>1 DEF IInv, HolderInv, Holding, Before
  <1>4. /\ invoked' \in [Step -> Nat] /\ invoked'[s] = 1
        /\ \A x \in Step \ {s} : invoked'[x] = invoked[x]
    BY <1>1, <1>2
  <1>5. PICK r \in Call : /\ Goto(c, r) /\ r.pc \in {"status", "reread"}
                          /\ r.step = s
                          /\ r.pc = "reread" => ~r.ok
    <2>1. CASE Continue(c, "status")
      BY <2>1, ContinueCall DEF IInv
    <2> DEFINE r == [call[c] EXCEPT !.pc = "reread", !.ok = FALSE]
    <2>2. CASE Goto(c, r)
      <3>1. call[c] \in Call
        BY DEF IInv, TypeOK
      <3>2. r \in Call /\ r.pc = "reread" /\ r.step = s /\ ~r.ok
        BY <3>1 DEF Call
      <3> QED
        BY <2>2, <3>2
    <2> QED
      BY <2>1, <2>2 DEF Gate
  <1>6. /\ call' \in [Caller -> Call] /\ call'[c] = r
        /\ \A d \in Caller \ {c} : call'[d] = call[d]
    BY <1>5, GotoOthers DEF IInv
  <1>7. credential \in [Slot -> CredentialState]
    BY DEF IInv, TypeOK, CredentialState
  <1>8. credential' \in [Slot -> CredentialState] /\ Closes
    <2>1. CASE phase(s) = "verify"
      BY <1>7, <2>1 DEF Gate, Closes
    <2>2. CASE phase(s) # "verify"
      <3>1. slot(s) \in Slot
        BY <1>2, <2>2, SlotType
      <3>2. PICK state \in Outcomes(phase(s), credential[slot(s)]) :
               credential' = [credential EXCEPT ![slot(s)] = state]
        BY <2>2 DEF Gate
      <3>3. state \in CredentialState
            /\ (credential[slot(s)] = "closed" => state = "closed")
        BY <1>7, <3>1, <3>2, OutcomesType
      <3> QED
        BY <1>7, <3>1, <3>2, <3>3 DEF Closes
    <2> QED
      BY <2>1, <2>2
  <1>9. TypeOK'
    <2>1. preparation' \in {"reserved", "dispatched", "verified"}
      BY DEF Gate, IInv, TypeOK
    <2>2. late' \in Nat
      BY <1>1, <1>2
    <2> QED
      BY <1>1, <1>4, <1>6, <1>8, <2>1, <2>2
         DEF IInv, TypeOK, CredentialState
  <1>10. BlocksInv' /\ JobInv'
    BY <1>1, <1>5, <1>6 DEF IInv, BlocksInv, JobInv
  <1>11. HolderInv'
    BY <1>1, <1>2, <1>3, <1>5, <1>6 DEF HolderInv
  <1>12. ClosedInv'
    <2>1. ASSUME NEW x \in Step, x < job'.next_step PROVE Done(x)'
      BY <1>1, <1>8, <2>1, DoneStable DEF IInv, ClosedInv
    <2>2. \A d \in Caller :
             ~(call'[d].pc = "finish" \/ (call'[d].pc = "reread" /\ call'[d].ok))
      BY <1>3, <1>5, <1>6 DEF Holding
    <2>3. \A t \in Slot : t < slot(s) => credential'[t] = "closed"
      <3> SUFFICES ASSUME NEW t \in Slot, t < slot(s)
                   PROVE  credential'[t] = "closed"
        OBVIOUS
      <3>1. PICK e \in Step : /\ e < s /\ slot(e) = t
                              /\ phase(e) \in {"initial", "close"}
        BY <1>2, EarlierStep
      <3>2. credential[t] = "closed"
        BY <1>2, <3>1 DEF IInv, ClosedInv, Done
      <3> QED
        BY <1>8, <3>2 DEF Closes
    <2>4. EarlierAreClosed'
      <3> SUFFICES ASSUME NEW x \in Step, invoked'[x] > 0, NEW t \in Slot,
                          t < slot(x)
                   PROVE  credential'[t] = "closed"
        BY DEF EarlierAreClosed
      <3>1. CASE x = s
        BY <2>3, <3>1
      <3>2. CASE x # s
        BY <1>4, <1>8, <3>2 DEF IInv, ClosedInv, EarlierAreClosed, Closes
      <3> QED
        BY <3>1, <3>2
    <2> QED
      BY <2>1, <2>2, <2>4 DEF ClosedInv
  <1>13. InvokedInv'
    <2>1. \A d \in Caller : call'[d].pc \notin Before
      BY <1>3, <1>5, <1>6 DEF Holding, Before
    <2>2. GateOnce'
      BY <1>4 DEF IInv, InvokedInv, GateOnce
    <2>3. ASSUME NEW x \in Step, invoked'[x] > 0
          PROVE  x < job.next_step \/ (x = job.next_step /\ job.inflight)
      BY <1>2, <1>4, <2>3 DEF IInv, InvokedInv
    <2> QED
      BY <1>1, <2>1, <2>2, <2>3 DEF InvokedInv
  <1>14. LateInv'
    <2>1. \A d \in Caller : call'[d].pc \notin Before
      BY <1>3, <1>5, <1>6 DEF Holding, Before
    <2> QED
      BY <1>1, <1>2, <2>1 DEF IInv, LateInv
  <1> QED
    BY <1>9, <1>10, <1>11, <1>12, <1>13, <1>14 DEF IInv

\* The completion ends the only hold.
LEMMA FinishStep ==
    ASSUME IInv, NEW c \in Caller, Finish(c) PROVE IInv'
  <1> DEFINE s == call[c].step
             n == job.revision + 1
             state == IF s + 1 = TOTAL THEN "verified" ELSE "running"
             next == s + 1
             j == [job EXCEPT !.state = state, !.next_step = next,
                              !.inflight = FALSE, !.revision = n]
  <1>1. /\ call[c].pc = "finish" /\ CanFinish(c) /\ job' = j
        /\ UNCHANGED <<stopped, around>>
    BY DEF Finish, Finished, At
  <1>2. job \in Job /\ n \in Nat /\ s \in Step /\ next \in 0..TOTAL
        /\ state \in {"verified", "running"} /\ next = s + 1
    BY TotalType DEF IInv, TypeOK, Job, Call, Step
  <1> HIDE DEF n, state, next
  <1>3. /\ j \in Job /\ j.state \in {"verified", "running"}
        /\ j.next_step = next /\ j.inflight = FALSE
    BY <1>2 DEF Job
  <1> HIDE DEF j
  <1>4. s = job.next_step /\ job.inflight /\ job.state = "running"
    BY <1>1 DEF CanFinish
  <1>5. Done(s)
    BY <1>1 DEF IInv, ClosedInv
  <1>6. \A d \in Caller \ {c} : call[d].pc \notin Holding
    BY <1>1 DEF IInv, HolderInv, Holding
  <1>7. PICK r \in Call : Goto(c, r) /\ r.pc \in {"idle", "project"}
    <2>1. CASE Continue(c, "project")
      BY <2>1, ContinueCall DEF IInv
    <2>2. CASE Goto(c, Idle)
      BY <2>2, IdleType
    <2> QED
      BY <2>1, <2>2 DEF Finish, Reply
  <1>8. workflow' \in Workflow /\ faults' \in 0..MaxFaults
    BY FaultType, ReplyType DEF Finish, IInv
  <1>9. /\ call' \in [Caller -> Call] /\ call'[c] = r
        /\ \A d \in Caller \ {c} : call'[d] = call[d]
    BY <1>7, GotoOthers DEF IInv
  <1>10. TypeOK'
    BY <1>1, <1>3, <1>8, <1>9 DEF IInv, TypeOK, around
  <1>11. BlocksInv' /\ JobInv'
    BY <1>1, <1>3, <1>7, <1>9 DEF IInv, BlocksInv, JobInv
  <1>12. \A d \in Caller : call'[d].pc \notin Holding
    BY <1>6, <1>7, <1>9 DEF Holding, Before
  <1>13. HolderInv'
    BY <1>12 DEF HolderInv
  <1>14. ClosedInv'
    <2>1. Closes
      BY <1>1 DEF Closes, around
    <2>2. ASSUME NEW x \in Step, x < job'.next_step PROVE Done(x)'
      <3>1. x < job.next_step \/ x = s
        BY <1>1, <1>2, <1>3, <1>4, <2>2 DEF Step
      <3>2. Done(x)
        BY <1>5, <3>1 DEF IInv, ClosedInv
      <3> QED
        BY <2>1, <3>2, DoneStable
    <2>3. EarlierAreClosed'
      BY <1>1 DEF IInv, ClosedInv, EarlierAreClosed, around
    <2> QED
      BY <1>12, <2>2, <2>3 DEF ClosedInv, Holding
  <1>15. InvokedInv'
    <2>1. ASSUME NEW x \in Step, invoked[x] > 0 PROVE x < job'.next_step
      BY <1>1, <1>2, <1>3, <1>4, <2>1 DEF IInv, InvokedInv, Step
    <2> QED
      BY <1>1, <1>12, <2>1 DEF IInv, InvokedInv, GateOnce, around, Holding
  <1>16. LateInv'
    BY <1>1, <1>4, <1>12 DEF IInv, LateInv, around, Holding
  <1> QED
    BY <1>10, <1>11, <1>13, <1>14, <1>15, <1>16 DEF IInv

-----------------------------------------------------------------------------
(* The engine, the owner and the operator.                                 *)

LEMMA EnvironmentSteps ==
    ASSUME IInv, Timeout \/ Replay \/ Withdraw \/ Freeze \/ UNCHANGED vars
    PROVE  IInv'
  <1>1. /\ UNCHANGED <<job, preparation, credential, call, invoked, late>>
        /\ consent' \in BOOLEAN /\ current' \in BOOLEAN
        /\ stopped' \in BOOLEAN
        /\ consent' => consent
        /\ stopped => stopped'
        /\ stopped' => stopped \/ ~consent'
    <2>0. consent \in BOOLEAN /\ current \in BOOLEAN /\ stopped \in BOOLEAN
      BY DEF IInv, TypeOK
    <2>1. CASE Timeout \/ Replay
      BY <2>0, <2>1 DEF Timeout, Replay, around
    <2>2. CASE Withdraw
      BY <2>0, <2>2 DEF Withdraw
    <2>3. CASE Freeze
      BY <2>0, <2>3 DEF Freeze
    <2>4. CASE UNCHANGED vars
      BY <2>0, <2>4 DEF vars
    <2> QED
      BY <2>1, <2>2, <2>3, <2>4
  <1>2. faults' \in 0..MaxFaults
    BY FaultType DEF Timeout, Replay, Withdraw, Freeze, vars
  <1>3. workflow' \in Workflow
    <2>1. workflow \in Workflow
      BY DEF IInv, TypeOK
    <2>2. CASE Timeout
      BY <2>2, AfterReplyType DEF Timeout, IInv
    <2>3. CASE Replay
      BY <2>1, <2>3 DEF Replay, Workflow
    <2> QED
      BY <2>1, <2>2, <2>3 DEF Withdraw, Freeze, vars
  <1>4. TypeOK'
    BY <1>1, <1>2, <1>3 DEF IInv, TypeOK
  <1>5. BlocksInv' /\ JobInv' /\ HolderInv'
    BY <1>1 DEF IInv, BlocksInv, JobInv, HolderInv
  <1>6. ClosedInv'
    BY <1>1 DEF IInv, ClosedInv, Done, EarlierAreClosed
  <1>7. InvokedInv'
    BY <1>1 DEF IInv, InvokedInv, GateOnce
  <1>8. LateInv'
    BY <1>1 DEF IInv, LateInv
  <1> QED
    BY <1>4, <1>5, <1>6, <1>7, <1>8 DEF IInv

-----------------------------------------------------------------------------
(* The invariant and the theorems.                                         *)

LEMMA InitIInv == Init => IInv
  <1> SUFFICES ASSUME Init PROVE IInv
    OBVIOUS
  <1>1. /\ NoJob \in Job /\ NoJob.next_step = 0 /\ ~NoJob.inflight
    BY TotalType DEF NoJob, Job
  <1>2. workflow \in Workflow
    BY TotalType DEF Init, Workflow
  <1>3. TypeOK
    <2>1. /\ call \in [Caller -> Call] /\ invoked \in [Step -> Nat]
          /\ credential \in [Slot -> CredentialState]
      BY IdleType DEF Init, CredentialState
    <2>2. late \in Nat /\ faults \in 0..MaxFaults
      BY ConstantsAssumption DEF Init
    <2> QED
      BY <1>1, <1>2, <2>1, <2>2 DEF Init, TypeOK, CredentialState
  <1>4. \A c \in Caller : call[c].pc = "idle"
    BY IdleType DEF Init
  <1>5. \A s \in Step : invoked[s] = 0
    BY DEF Init
  <1>6. BlocksInv /\ JobInv /\ HolderInv
    BY <1>1, <1>4 DEF Init, BlocksInv, JobInv, HolderInv, Holding, Before
  <1>7. ClosedInv
    BY <1>1, <1>4, <1>5 DEF Init, ClosedInv, EarlierAreClosed, Step
  <1>8. InvokedInv /\ LateInv
    BY <1>4, <1>5 DEF Init, InvokedInv, LateInv, GateOnce, Before
  <1> QED
    BY <1>3, <1>6, <1>7, <1>8 DEF IInv

LEMMA NextIInv == IInv /\ [Next]_vars => IInv'
  <1> SUFFICES ASSUME IInv, [Next]_vars PROVE IInv'
    OBVIOUS
  <1>1. ASSUME NEW c \in Caller, RequestStep(c) PROVE IInv'
    <2>1. CASE \/ Start(c) \/ Advance(c) \/ Admit(c) \/ AdmitRefused(c)
               \/ Recheck(c) \/ Dispatch(c) \/ Reserve(c) \/ Gate(c)
      BY <2>1, StartSteps, AdvanceStep, AdmitStep, RefusedSteps, RecheckStep,
         DispatchStep, ReserveStep, GateStep
    <2>2. CASE \/ Status(c) \/ PhaseFails(c) \/ Reread(c) \/ Finish(c)
               \/ FinishRefused(c) \/ Project(c)
      BY <2>2, StatusStep, PhaseFailsStep, RereadStep, FinishStep,
         RefusedSteps
    <2>3. CASE \/ BlockRead(c) \/ BlockWrite(c) \/ BlockMissed(c) \/ List(c)
               \/ Swept(c) \/ \E s \in Slot : Sweep(c, s)
      BY <2>3, BlockReadStep, BlockWriteStep, BlockMissedStep, ListStep,
         RefusedSteps, SweepStep
    <2> QED
      BY <1>1, <2>1, <2>2, <2>3 DEF RequestStep
  <1>2. ASSUME NEW c \in Caller, Send(c) \/ Die(c) PROVE IInv'
    BY <1>2, SendAdvanceStep, SendStopStep, RefusedSteps DEF Send
  <1>3. ASSUME NEW c \in Caller, OwnerStart(c) \/ Drain(c) \/ OwnerStop(c)
        PROVE  IInv'
    BY <1>3, OwnerStartStep, StartSteps
  <1> QED
    BY <1>1, <1>2, <1>3, EnvironmentSteps DEF Next

LEMMA Invariance == Spec => []IInv
  BY InitIInv, NextIInv, PTL DEF Spec

\* Every variable has its type; in particular the workflow's ordinal and the
\* row's next step stay in range, and no request blocks more than it meant to.
THEOREM TypeCorrect == Spec => []TypeOK
  BY Invariance, PTL DEF IInv

\* The gate of a step is invoked at most once, for any number of requests,
\* replays, timeouts and failures.
THEOREM GateIsOnce == Spec => []GateOnce
  BY Invariance, PTL DEF IInv, InvokedInv

\* No gate works on a credential before every earlier one is closed.
THEOREM OneCredentialAtATime == Spec => []EarlierAreClosed
  BY Invariance, PTL DEF IInv, ClosedInv

\* After a stop or a withdrawal at most the gate that was admitted before is
\* invoked.
THEOREM StopIsFence == Spec => []StopFences
  <1>1. IInv => StopFences
    BY DEF IInv, LateInv, StopFences
  <1> QED
    BY <1>1, Invariance, PTL

\* A blocked or verified job is never changed.
THEOREM TerminalJob == Spec => TerminalIsFinal
  <1>1. [Next]_vars => [job.state \in Terminal => job' = job]_job
    <2> SUFFICES ASSUME [Next]_vars, job.state \in Terminal PROVE job' = job
      OBVIOUS
    <2> USE DEF Terminal
    <2>1. ASSUME NEW c \in Caller, RequestStep(c) PROVE job' = job
      BY <2>1 DEF RequestStep, Start, Advance, Admit, CanAdmit, AdmitRefused,
         Recheck, Dispatch, Reserve, Gate, Status, PhaseFails, Reread, Finish,
         CanFinish, FinishRefused, Project, BlockRead, BlockWrite, CanBlock,
         BlockMissed, List, Swept, Sweep, Local
    <2>2. ASSUME NEW c \in Caller, Send(c) \/ Die(c) PROVE job' = job
      BY <2>2 DEF Send, SendAdvance, SendStop, Die
    <2>3. ASSUME NEW c \in Caller, OwnerStart(c) \/ Drain(c) \/ OwnerStop(c)
          PROVE  job' = job
      BY <2>3 DEF OwnerStart, Drain, OwnerStop, Local
    <2> QED
      BY <2>1, <2>2, <2>3 DEF Next, Timeout, Replay, Withdraw, Freeze, vars
  <1> QED
    BY <1>1, PTL DEF Spec, TerminalIsFinal
=============================================================================
