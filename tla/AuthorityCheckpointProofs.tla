--------------------- MODULE AuthorityCheckpointProofs ---------------------
(***************************************************************************)
(* Proofs about AuthorityCheckpoint, for any set of requests and any       *)
(* bounds.                                                                 *)
(*                                                                         *)
(* The idea of the inductive invariant: a pending permit is the only right *)
(* to move the marker, that right is held in one place at a time (a        *)
(* request about to submit, a batch under way, a request that saw a        *)
(* definitive abort, a fence under way) and it is gone once any state of   *)
(* D1 carries the permit's next checkpoint.  So no checkpoint is ever      *)
(* reached twice, and a restored D1 can only be behind.                    *)
(***************************************************************************)
EXTENDS AuthorityCheckpoint, TLAPS

\* The two stores.
Unreached == \A s \in past : s.marker.sequence <= ledger.checkpoint.sequence

StoreInv ==
    /\ db \in past
    /\ ledger.pending # NoPermit =>
         /\ ledger.pending.previous = ledger.checkpoint
         /\ ledger.pending.next.sequence = ledger.checkpoint.sequence + 1
    /\ \A s \in past :
         \/ s.marker.sequence <= ledger.checkpoint.sequence
         \/ ledger.pending # NoPermit /\ s.marker = ledger.pending.next
    /\ \A s, t \in past : s.marker.sequence = t.marker.sequence => s = t
    /\ \A s, t \in past :
         s.marker.sequence <= t.marker.sequence => s.rows \subseteq t.rows
    /\ \E s \in past : s.marker = ledger.checkpoint

\* The right to move the marker.
Holder(w) ==
    \/ req[w].pc = "submit"
    \/ req[w].pc = "settle" /\ req[w].outcome = "aborted"

\* A request that runs its own permit, before it settles.
Running(w) == req[w].pc \in {"submit", "await", "fencing"}

TokenInv ==
    /\ \A w \in Worker : Holder(w) =>
         /\ req[w].permit = ledger.pending
         /\ ledger.pending # NoPermit
         /\ Unreached
         /\ sent = {}
    /\ \A b \in sent :
         /\ b.permit = ledger.pending
         /\ ledger.pending # NoPermit
         /\ Unreached
    /\ \A b, c \in sent : b = c
    /\ \A v, w \in Worker : Holder(v) /\ Holder(w) => v = w
    /\ \A v, w \in Worker :
         /\ Running(v) \/ Holder(v)
         /\ Running(w) \/ Holder(w)
         /\ req[v].permit = req[w].permit
         => v = w

\* Operation identifiers are fresh when a permit is asked for.
Asking(w) == req[w].pc \in {"read", "begin"}

FreshInv ==
    /\ ledger.pending.operation <= operations
    /\ \A w \in Worker : req[w].operation <= operations
    /\ \A w \in Worker : Asking(w) /\ ledger.pending # NoPermit
                           => ledger.pending.operation # req[w].operation
    /\ \A v, w \in Worker : /\ Asking(v) /\ Asking(w)
                            /\ req[v].operation = req[w].operation
                            => v = w

\* What a request knows about the permit it works on.
Reached(p) == \E s \in past : s.marker = p.next

Done(w) == \E s \in past : /\ s.marker = req[w].permit.next
                           /\ req[w].operation \in s.rows

PermitInv ==
    \A w \in Worker :
      /\ \/ req[w].permit = NoPermit
         \/ req[w].permit.next.sequence <= ledger.checkpoint.sequence
         \/ req[w].permit = ledger.pending
      /\ req[w].pc \in {"settle", "fencing", "resettle"} =>
           req[w].permit # NoPermit
      /\ req[w].pc = "commit" => req[w].permit # NoPermit /\ Reached(req[w].permit)
      /\ req[w].pc \in {"submit", "await"} =>
           /\ req[w].permit # NoPermit
           /\ req[w].permit.operation = req[w].operation
      /\ /\ req[w].pc \in {"settle", "commit", "return"}
         /\ req[w].outcome = "committed"
         => Done(w)
      /\ req[w].pc = "return" =>
           req[w].permit.next.sequence <= ledger.checkpoint.sequence

\* D1's result is known only to a request that settles its own permit.
OutcomeInv ==
    \A w \in Worker :
      /\ req[w].phase = "recovering" => req[w].outcome = "none"
      /\ req[w].pc \in {"read", "begin", "submit", "await"} =>
           req[w].phase # "recovering" /\ req[w].outcome = "none"
      /\ req[w].pc \in {"recover", "observe", "status"} =>
           req[w].outcome = "none"
      /\ req[w].pc = "recover" => req[w].phase = "recovering"
      /\ req[w].pc \in {"fencing", "resettle"} => req[w].outcome = "aborted"

AckInv ==
    \A o \in acknowledged :
        \E s \in past : /\ s.marker.sequence <= ledger.checkpoint.sequence
                        /\ o \in s.rows

\* An operation that is not in D1 yet, and one that never will be.
NotStored(o) == \A s \in past : o \notin s.rows

Dead(o) ==
    /\ o <= operations
    /\ NotStored(o)
    /\ \A b \in sent : b.kind = "business" => b.permit.operation # o
    /\ \A w \in Worker : req[w].pc \in {"read", "begin", "submit"}
                             => req[w].operation # o

RefusalInv ==
    /\ \A s \in past : \A o \in s.rows : o <= operations
    /\ \A w \in Worker : req[w].pc \in {"read", "begin", "submit"}
                             => NotStored(req[w].operation)
    /\ \A b \in sent : b.kind = "business" => NotStored(b.permit.operation)
    /\ \A w \in Worker : req[w].outcome = "aborted" => Dead(req[w].operation)
    /\ \A o \in refused : Dead(o)

IInv == /\ TypeOK /\ StoreInv /\ TokenInv /\ FreshInv /\ PermitInv
        /\ OutcomeInv /\ AckInv /\ RefusalInv

-----------------------------------------------------------------------------
(* Type correctness.                                                       *)

\* The literal records the code starts from are well formed.
LEMMA RecordTypes ==
    /\ Genesis \in Checkpoint
    /\ NoPermit \in Permit
    /\ Idle \in Request
  BY DEF Genesis, NoPermit, Idle, Checkpoint, Permit, Request, Steps

\* Init satisfies the type invariant.
LEMMA InitTypeOK == Init => TypeOK
  BY RecordTypes DEF Init, TypeOK, Ledger, Database, Batch

\* A permit issued by begin() is well formed.
LEMMA PermitType ==
    ASSUME TypeOK, NEW expected \in Checkpoint, NEW operation \in Nat
    PROVE  BegunPermit(expected, operation) \in Permit
  BY DEF TypeOK, BegunPermit, NewPermit, Permit, Checkpoint, Ledger

\* Going on with a well-formed record changes no other request.
LEMMA GotoFacts ==
    ASSUME TypeOK, NEW w \in Worker, NEW r \in Request, Goto(w, r)
    PROVE  /\ req' \in [Worker -> Request]
           /\ req'[w] = r
           /\ \A v \in Worker \ {w} : req'[v] = req[v]
  BY DEF Goto, TypeOK

\* The records the actions go on with are well formed.
LEMMA RecordUpdates ==
    ASSUME NEW r \in Request, NEW o \in Nat, NEW c \in Checkpoint,
           NEW p \in Permit
    PROVE  /\ \A k \in Steps : [r EXCEPT !.pc = k] \in Request
           /\ [r EXCEPT !.pc = "begin", !.expected = c] \in Request
           /\ [r EXCEPT !.pc = "status", !.expected = c] \in Request
           /\ [r EXCEPT !.pc = "recover", !.phase = "recovering"] \in Request
           /\ [r EXCEPT !.pc = "submit", !.permit = p] \in Request
           /\ [r EXCEPT !.pc = "settle", !.permit = p] \in Request
           /\ \A k \in {"committed", "aborted", "lost"} :
                [r EXCEPT !.pc = "settle", !.outcome = k] \in Request
           /\ [r EXCEPT !.pc = "begin", !.phase = "second",
                        !.operation = o] \in Request
           /\ [r EXCEPT !.pc = "read", !.task = "batch",
                        !.operation = o] \in Request
           /\ [r EXCEPT !.pc = "recover", !.task = "reconcile",
                        !.phase = "recovering"] \in Request
<1>1. \A k \in Steps : [r EXCEPT !.pc = k] \in Request
  BY DEF Request
<1>2. /\ [r EXCEPT !.pc = "begin", !.expected = c] \in Request
      /\ [r EXCEPT !.pc = "status", !.expected = c] \in Request
  BY DEF Request, Steps
<1>3. [r EXCEPT !.pc = "recover", !.phase = "recovering"] \in Request
  BY DEF Request, Steps
<1>4. /\ [r EXCEPT !.pc = "submit", !.permit = p] \in Request
      /\ [r EXCEPT !.pc = "settle", !.permit = p] \in Request
  BY DEF Request, Steps
<1>5. \A k \in {"committed", "aborted", "lost"} :
        [r EXCEPT !.pc = "settle", !.outcome = k] \in Request
  BY DEF Request, Steps
<1>6. [r EXCEPT !.pc = "begin", !.phase = "second",
                !.operation = o] \in Request
  BY DEF Request, Steps
<1>7. [r EXCEPT !.pc = "read", !.task = "batch", !.operation = o] \in Request
  BY DEF Request, Steps
<1>8. [r EXCEPT !.pc = "recover", !.task = "reconcile",
                !.phase = "recovering"] \in Request
  BY DEF Request, Steps
<1> QED
  BY <1>1, <1>2, <1>3, <1>4, <1>5, <1>6, <1>7, <1>8

\* The fields of a typed state the updates draw on.
LEMMA FieldTypes ==
    ASSUME TypeOK, NEW w \in Worker
    PROVE  /\ req[w] \in Request
           /\ req[w].pc \in Steps
           /\ req[w].operation \in Nat
           /\ req[w].expected \in Checkpoint
           /\ req[w].permit \in Permit
           /\ operations + 1 \in Nat
           /\ db.marker \in Checkpoint
           /\ ledger.pending \in Permit
           /\ ledger.checkpoint \in Checkpoint
  BY DEF TypeOK, Request, Database, Ledger

\* Every step keeps the type invariant.
LEMMA NextTypeOK == TypeOK /\ [Next]_vars => TypeOK'
<1> SUFFICES ASSUME TypeOK, [Next]_vars PROVE TypeOK'
  OBVIOUS
<1> USE RecordTypes
<1>a. ASSUME NEW w \in Worker, NEW r \in Request, Goto(w, r)
      PROVE  req' \in [Worker -> Request]
  BY <1>a, GotoFacts
<1>b. \A k \in Steps, w \in Worker : [req[w] EXCEPT !.pc = k] \in Request
  BY FieldTypes, RecordUpdates
<1>1. ASSUME NEW w \in Worker, StartBatch(w) PROVE TypeOK'
  <2>1. [Idle EXCEPT !.pc = "read", !.task = "batch",
                     !.operation = operations + 1] \in Request
    BY FieldTypes, RecordUpdates
  <2> QED
    BY <1>1, <1>a, <2>1 DEF StartBatch, Draw, TypeOK
<1>2. ASSUME NEW w \in Worker, StartReconcile(w) PROVE TypeOK'
  <2>1. [Idle EXCEPT !.pc = "recover", !.task = "reconcile",
                     !.phase = "recovering"] \in Request
    BY FieldTypes, RecordUpdates
  <2> QED
    BY <1>2, <1>a, <2>1 DEF StartReconcile, Local, TypeOK
<1>3. ASSUME NEW w \in Worker, StartCheck(w) PROVE TypeOK'
  <2>1. [Idle EXCEPT !.pc = "observe"] \in Request
    BY FieldTypes, RecordUpdates DEF Steps
  <2> QED
    BY <1>3, <1>a, <2>1 DEF StartCheck, Local, TypeOK
<1>4. ASSUME NEW w \in Worker, ReadPrimary(w) \/ Observe(w) PROVE TypeOK'
  <2>1. /\ [req[w] EXCEPT !.pc = "begin", !.expected = db.marker] \in Request
        /\ [req[w] EXCEPT !.pc = "status", !.expected = db.marker] \in Request
    BY FieldTypes, RecordUpdates
  <2> QED
    BY <1>4, <1>a, <2>1 DEF ReadPrimary, Observe, Local, TypeOK
<1>5. ASSUME NEW w \in Worker, Begin(w) \/ BeginReplyLost(w) PROVE TypeOK'
  <2> DEFINE p == BegunPermit(req[w].expected, req[w].operation)
  <2>1. p \in Permit
    BY PermitType, FieldTypes
  <2>2. /\ [req[w] EXCEPT !.pc = "submit", !.permit = p] \in Request
        /\ AfterRefusedBegin(w) \in Request
    BY <2>1, FieldTypes, RecordUpdates DEF AfterRefusedBegin
  <2>3. req' \in [Worker -> Request]
    BY <1>5, <1>a, <2>2 DEF Begin, BeginReplyLost
  <2>4. ledger' \in Ledger
    BY <1>5, <2>1 DEF Begin, BeginReplyLost, DOBegin, Ledger, TypeOK
  <2>5. tips' \in Nat /\ faults' \in Nat
    BY <1>5 DEF Begin, BeginReplyLost, DOBegin, Fault, TypeOK
  <2> QED
    BY <1>5, <2>3, <2>4, <2>5 DEF Begin, BeginReplyLost, TypeOK
<1>6. ASSUME NEW w \in Worker, BeginRefused(w) PROVE TypeOK'
  <2>1. AfterRefusedBegin(w) \in Request
    BY FieldTypes, RecordUpdates DEF AfterRefusedBegin
  <2> QED
    BY <1>6, <1>a, <2>1 DEF BeginRefused, Local, TypeOK
<1>7. ASSUME NEW w \in Worker, RecoverPending(w) PROVE TypeOK'
  <2>1. [req[w] EXCEPT !.pc = "settle", !.permit = ledger.pending] \in Request
    BY FieldTypes, RecordUpdates
  <2> QED
    BY <1>7, <1>a, <2>1 DEF RecoverPending, Local, TypeOK
<1>8. ASSUME NEW w \in Worker, RecoverNothing(w) PROVE TypeOK'
  BY <1>8, <1>a, <1>b DEF RecoverNothing, Local, TypeOK, Steps
<1>9. ASSUME NEW w \in Worker, Submit(w) \/ SettleFence(w) PROVE TypeOK'
  <2>1. req' \in [Worker -> Request]
    BY <1>9, <1>a, <1>b DEF Submit, SettleFence, Steps
  <2> QED
    BY <1>9, <2>1, FieldTypes DEF Submit, SettleFence, Batch, TypeOK
<1>10. ASSUME NEW w \in Worker,
              SettleQuarantine(w) \/ SettleMismatch(w) \/ CommitRefused(w)
                \/ StatusRefused(w)
       PROVE TypeOK'
  BY <1>10, <1>a DEF SettleQuarantine, SettleMismatch, CommitRefused,
                     StatusRefused, Local, TypeOK
<1>11. ASSUME NEW w \in Worker, SettleReached(w) PROVE TypeOK'
  BY <1>11, <1>a, <1>b DEF SettleReached, Local, TypeOK, Steps
<1>12. ASSUME NEW w \in Worker, Commit(w) \/ CommitReplyLost(w) PROVE TypeOK'
  <2>1. ledger' \in Ledger
    BY <1>12, FieldTypes DEF Commit, CommitReplyLost, DOCommit, Ledger, Permit,
                             TypeOK
  <2>2. AfterCommit(w) \in Request
    BY <1>b DEF AfterCommit, Steps
  <2>3. req' \in [Worker -> Request]
    BY <1>12, <1>a, <2>2 DEF Commit, CommitReplyLost
  <2>4. faults' \in Nat
    BY <1>12 DEF Commit, CommitReplyLost, Fault, TypeOK
  <2> QED
    BY <1>12, <2>1, <2>3, <2>4 DEF Commit, CommitReplyLost, TypeOK
<1>13. ASSUME NEW w \in Worker, Return(w) PROVE TypeOK'
  BY <1>13, <1>a, FieldTypes DEF Return, TypeOK
<1>14. ASSUME NEW w \in Worker, StatusAccepted(w) PROVE TypeOK'
  <2>1. [req[w] EXCEPT !.pc = "begin", !.phase = "second",
                       !.operation = operations + 1] \in Request
    BY FieldTypes, RecordUpdates
  <2> QED
    BY <1>14, <1>a, <2>1 DEF StatusAccepted, Local, Draw, TypeOK
<1>15. ASSUME NEW w \in Worker, BatchReplyLost(w) PROVE TypeOK'
  <2>1. [req[w] EXCEPT !.pc = "settle", !.outcome = "lost"] \in Request
    BY FieldTypes, RecordUpdates
  <2> QED
    BY <1>15, <1>a, <2>1 DEF BatchReplyLost, Fault, TypeOK
<1>16. ASSUME NEW w \in Worker, Crash(w) PROVE TypeOK'
  BY <1>16, <1>a DEF Crash, Fault, TypeOK
<1>17. ASSUME NEW b \in sent, D1Step(b) PROVE TypeOK'
  <2>1. b \in Batch
    BY DEF TypeOK
  <2>2. Applied(b) \in Database
    BY <2>1 DEF Applied, Database, Batch, Permit, TypeOK
  <2>3. \A w \in Worker, k \in {"committed", "aborted"} :
           [req[w] EXCEPT !.pc = "settle", !.outcome = k] \in Request
    BY FieldTypes, RecordUpdates
  <2>4. req' \in [Worker -> Request]
    BY <1>17, <2>3, <1>b, FieldTypes
       DEF D1Step, D1Apply, D1Abort, D1FenceMissed, Answer, Steps
  <2> QED
    BY <1>17, <2>2, <2>4 DEF D1Step, D1Apply, D1Abort, D1FenceMissed, Store,
                             TypeOK
<1>18. ASSUME NEW d \in past, Restore(d) PROVE TypeOK'
  BY <1>18 DEF Restore, Fault, TypeOK
<1>19. ASSUME NEW v \in 1..MaxFloor, RaiseFloor(v) PROVE TypeOK'
  BY <1>19, ConstantsAssumption DEF RaiseFloor, Ledger, TypeOK
<1>20. CASE Freeze
  BY <1>20 DEF Freeze, Ledger, TypeOK
<1>21. CASE UNCHANGED vars
  BY <1>21 DEF vars, TypeOK
<1> QED
  BY <1>1, <1>2, <1>3, <1>4, <1>5, <1>6, <1>7, <1>8, <1>9, <1>10, <1>11,
     <1>12, <1>13, <1>14, <1>15, <1>16, <1>17, <1>18, <1>19, <1>20, <1>21
     DEF Next, RequestStep, LostReply

\* TypeOK holds in every reachable state: both stores, the batches under way
\* and every request keep the shapes the Rust and TypeScript types give them.
THEOREM TypeCorrect == Spec => []TypeOK
  BY InitTypeOK, NextTypeOK, PTL DEF Spec

-----------------------------------------------------------------------------
(* The inductive invariant: steps that only move one request on.           *)

\* What a step of request w must respect when it leaves both stores and the
\* batches under way alone and takes no right to move the marker.
Quiet(w) ==
    /\ \A v \in Worker \ {w} : req'[v] = req[v]
    /\ UNCHANGED <<ledger, db, past, sent, acknowledged, refused>>
    /\ operations' >= operations
    /\ req'[w].pc \notin {"submit", "await", "fencing", "resettle", "return"}
    /\ req'[w].outcome = "aborted" =>
         /\ req'[w].pc # "settle"
         /\ req[w].outcome = "aborted"
         /\ req'[w].operation = req[w].operation
    /\ req'[w].operation <= operations'
    /\ req'[w].pc \in {"read", "begin"} =>
         \/ Asking(w) /\ req'[w].operation = req[w].operation
         \/ req'[w].operation = operations + 1 /\ operations' = operations + 1
    /\ req'[w].permit \in {NoPermit, req[w].permit, ledger.pending}
    /\ req'[w].pc = "settle" => req'[w].permit # NoPermit
    /\ req'[w].pc = "commit" =>
         req'[w].permit # NoPermit /\ Reached(req'[w].permit)
    /\ /\ req'[w].pc \in {"settle", "commit"}
       /\ req'[w].outcome = "committed"
       => \E s \in past : /\ s.marker = req'[w].permit.next
                          /\ req'[w].operation \in s.rows
    /\ req'[w].phase = "recovering" => req'[w].outcome = "none"
    /\ req'[w].pc \in {"read", "begin"} =>
         req'[w].phase # "recovering" /\ req'[w].outcome = "none"
    /\ req'[w].pc \in {"recover", "observe", "status"} =>
         req'[w].outcome = "none"
    /\ req'[w].pc = "recover" => req'[w].phase = "recovering"

\* A request step that touches neither store nor the batches under way, and
\* that takes no permit it did not have, keeps the inductive invariant.
LEMMA QuietPreserves ==
    ASSUME IInv, TypeOK', NEW w \in Worker, Quiet(w)
    PROVE  IInv'
<1>1. StoreInv'
  BY DEF IInv, StoreInv, Quiet
<1>2. TokenInv'
  <2>1. ~Holder(w)' /\ ~Running(w)'
    BY DEF Quiet, Holder, Running
  <2>2. \A v \in Worker \ {w} : (Holder(v)' <=> Holder(v))
                                /\ (Running(v)' <=> Running(v))
    BY DEF Quiet, Holder, Running
  <2>3. Unreached' <=> Unreached
    BY DEF Quiet, Unreached
  <2> QED
    BY <2>1, <2>2, <2>3 DEF IInv, TokenInv, Quiet
<1>3. FreshInv'
  <2>1. operations \in Nat /\ operations' \in Nat
    BY DEF IInv, TypeOK
  <2>2. \A v \in Worker : req[v].operation \in Nat /\ req'[v].operation \in Nat
    BY FieldTypes DEF IInv, TypeOK, Request
  <2>3. ledger.pending.operation \in Nat
    BY FieldTypes DEF IInv, TypeOK, Ledger, Permit
  <2> QED
    BY <2>1, <2>2, <2>3 DEF IInv, FreshInv, Quiet, Asking
<1>4. PermitInv'
  BY DEF IInv, PermitInv, Quiet, Done, Reached
<1>5. OutcomeInv'
  BY DEF IInv, OutcomeInv, Quiet
<1>6. AckInv'
  BY DEF IInv, AckInv, Quiet
<1>7. RefusalInv'
  <2>1. operations \in Nat /\ operations' \in Nat
    BY DEF IInv, TypeOK
  <2>2. \A v \in Worker : req[v].operation \in Nat /\ req'[v].operation \in Nat
    BY FieldTypes DEF IInv, TypeOK, Request
  <2>3. \A s \in past : \A o \in s.rows : o \in Nat
    BY DEF IInv, TypeOK, Database
  <2>4. refused \subseteq Nat
    BY DEF IInv, TypeOK
  <2>5. \A o \in Nat : NotStored(o)' <=> NotStored(o)
    BY DEF Quiet, NotStored
  <2>6. ASSUME NEW o \in Nat, Dead(o) PROVE Dead(o)'
    BY <2>1, <2>2, <2>5, <2>6 DEF Dead, Quiet, Asking
  <2>7. NotStored(operations + 1)
    BY <2>1, <2>3 DEF IInv, RefusalInv, NotStored
  <2>8. \A v \in Worker : req'[v].pc \in {"read", "begin", "submit"}
                            => NotStored(req[v].operation)'
    BY <2>1, <2>2, <2>7 DEF IInv, RefusalInv, Quiet, Asking, NotStored
  <2>9. \A s \in past' : \A o \in s.rows : o <= operations'
    BY <2>1, <2>3 DEF IInv, RefusalInv, Quiet
  <2>10. \A b \in sent' : b.kind = "business" => NotStored(b.permit.operation)'
    BY DEF IInv, RefusalInv, Quiet, NotStored
  <2>11. \A v \in Worker : req'[v].outcome = "aborted" => Dead(req[v].operation)'
    <3> SUFFICES ASSUME NEW v \in Worker, req'[v].outcome = "aborted"
                 PROVE  Dead(req[v].operation)'
      OBVIOUS
    <3>1. Dead(req[v].operation) /\ req'[v].operation = req[v].operation
      BY DEF IInv, RefusalInv, Quiet
    <3> QED
      BY <2>2, <2>6, <3>1 DEF Dead, NotStored
  <2>12. \A o \in refused' : Dead(o)'
    BY <2>4, <2>6 DEF IInv, RefusalInv, Quiet
  <2> QED
    BY <2>8, <2>9, <2>10, <2>11, <2>12 DEF RefusalInv
<1> QED
  BY <1>1, <1>2, <1>3, <1>4, <1>5, <1>6, <1>7 DEF IInv

\* Ending a request is quiet, whatever it was doing.
LEMMA EndQuiet ==
    ASSUME IInv, NEW w \in Worker, Goto(w, Idle),
           UNCHANGED <<ledger, db, past, sent, operations, acknowledged, refused>>
    PROVE  Quiet(w)
  BY GotoFacts, RecordTypes DEF Quiet, Idle, IInv, TypeOK

\* Every step of a request that touches neither store is quiet.
LEMMA QuietSteps ==
    ASSUME IInv, NEW w \in Worker,
           \/ StartBatch(w) \/ StartReconcile(w) \/ StartCheck(w)
           \/ ReadPrimary(w) \/ BeginRefused(w)
           \/ RecoverPending(w) \/ RecoverNothing(w)
           \/ SettleQuarantine(w) \/ SettleReached(w) \/ SettleMismatch(w)
           \/ CommitRefused(w) \/ Observe(w) \/ StatusAccepted(w)
           \/ StatusRefused(w) \/ BatchReplyLost(w) \/ Crash(w)
    PROVE  Quiet(w)
<1> USE RecordTypes
<1>t. TypeOK /\ operations \in Nat
  BY DEF IInv, TypeOK
<1>f. /\ req[w] \in Request
      /\ req[w].operation \in Nat /\ req[w].operation <= operations
      /\ db.marker \in Checkpoint /\ ledger.pending \in Permit
      /\ operations + 1 \in Nat
  BY <1>t, FieldTypes DEF IInv, FreshInv
<1>o. /\ req[w].phase = "recovering" => req[w].outcome = "none"
      /\ req[w].pc \in {"read", "begin", "submit", "await"} =>
           req[w].phase # "recovering" /\ req[w].outcome = "none"
      /\ req[w].pc \in {"recover", "observe", "status"} =>
           req[w].outcome = "none"
  BY DEF IInv, OutcomeInv
<1>1. CASE StartBatch(w)
  <2> DEFINE r == [Idle EXCEPT !.pc = "read", !.task = "batch",
                               !.operation = operations + 1]
  <2>1. r \in Request
    BY <1>f, RecordUpdates
  <2>2. req'[w] = r /\ \A v \in Worker \ {w} : req'[v] = req[v]
    BY <1>1, <1>t, <2>1, GotoFacts DEF StartBatch
  <2>3. /\ r.pc = "read" /\ r.operation = operations + 1
        /\ r.permit = NoPermit /\ r.outcome = "none" /\ r.phase = "first"
    BY DEF Idle
  <2> HIDE DEF r
  <2> QED
    BY <1>1, <1>t, <2>2, <2>3 DEF StartBatch, Draw, Quiet
<1>2. CASE StartReconcile(w)
  <2> DEFINE r == [Idle EXCEPT !.pc = "recover", !.task = "reconcile",
                               !.phase = "recovering"]
  <2>1. r \in Request
    BY <1>f, RecordUpdates
  <2>2. req'[w] = r /\ \A v \in Worker \ {w} : req'[v] = req[v]
    BY <1>2, <1>t, <2>1, GotoFacts DEF StartReconcile
  <2>3. /\ r.pc = "recover" /\ r.operation = 0
        /\ r.permit = NoPermit /\ r.outcome = "none" /\ r.phase = "recovering"
    BY DEF Idle
  <2> HIDE DEF r
  <2> QED
    BY <1>2, <1>t, <2>2, <2>3 DEF StartReconcile, Local, Quiet
<1>3. CASE StartCheck(w)
  <2> DEFINE r == [Idle EXCEPT !.pc = "observe"]
  <2>1. r \in Request
    BY <1>f, RecordUpdates DEF Steps
  <2>2. req'[w] = r /\ \A v \in Worker \ {w} : req'[v] = req[v]
    BY <1>3, <1>t, <2>1, GotoFacts DEF StartCheck
  <2>3. /\ r.pc = "observe" /\ r.operation = 0
        /\ r.permit = NoPermit /\ r.outcome = "none" /\ r.phase = "first"
    BY DEF Idle
  <2> HIDE DEF r
  <2> QED
    BY <1>3, <1>t, <2>2, <2>3 DEF StartCheck, Local, Quiet
<1>4. CASE ReadPrimary(w) \/ Observe(w)
  <2> DEFINE r(k) == [req[w] EXCEPT !.pc = k, !.expected = db.marker]
  <2>1. r("begin") \in Request /\ r("status") \in Request
    BY <1>f, RecordUpdates
  <2>2. PICK k \in {"begin", "status"} :
          /\ req'[w] = r(k)
          /\ \A v \in Worker \ {w} : req'[v] = req[v]
          /\ k = "begin" => req[w].pc = "read"
          /\ k = "status" => req[w].pc = "observe"
    BY <1>4, <1>t, <2>1, GotoFacts DEF ReadPrimary, Observe
  <2>3. /\ r(k).pc = k /\ r(k).operation = req[w].operation
        /\ r(k).permit = req[w].permit /\ r(k).outcome = req[w].outcome
        /\ r(k).phase = req[w].phase
    BY <1>f DEF Request
  <2> HIDE DEF r
  <2> QED
    BY <1>4, <1>t, <1>f, <1>o, <2>2, <2>3
       DEF ReadPrimary, Observe, Local, Quiet, Asking
<1>5. CASE BeginRefused(w)
  <2>1. CASE req[w].phase = "first"
    <3> DEFINE r == [req[w] EXCEPT !.pc = "recover", !.phase = "recovering"]
    <3>1. r \in Request
      BY <1>f, RecordUpdates
    <3>2. req'[w] = r /\ \A v \in Worker \ {w} : req'[v] = req[v]
      BY <1>5, <1>t, <2>1, <3>1, GotoFacts DEF BeginRefused, AfterRefusedBegin
    <3>3. /\ r.pc = "recover" /\ r.operation = req[w].operation
          /\ r.permit = req[w].permit /\ r.outcome = req[w].outcome
          /\ r.phase = "recovering"
      BY <1>f DEF Request
    <3> HIDE DEF r
    <3> QED
      BY <1>5, <1>t, <1>f, <1>o, <3>2, <3>3 DEF BeginRefused, Local, Quiet
  <2>2. CASE req[w].phase # "first"
    BY <1>5, <2>2, EndQuiet DEF BeginRefused, AfterRefusedBegin, Local
  <2> QED
    BY <2>1, <2>2
<1>6. CASE RecoverPending(w)
  <2> DEFINE r == [req[w] EXCEPT !.pc = "settle", !.permit = ledger.pending]
  <2>1. r \in Request
    BY <1>f, RecordUpdates
  <2>2. req'[w] = r /\ \A v \in Worker \ {w} : req'[v] = req[v]
    BY <1>6, <1>t, <2>1, GotoFacts DEF RecoverPending
  <2>3. /\ r.pc = "settle" /\ r.operation = req[w].operation
        /\ r.permit = ledger.pending /\ r.outcome = req[w].outcome
        /\ r.phase = req[w].phase
    BY <1>f DEF Request
  <2> HIDE DEF r
  <2> QED
    BY <1>6, <1>t, <1>f, <1>o, <2>2, <2>3 DEF RecoverPending, Local, Quiet
<1>7. CASE RecoverNothing(w)
  <2>1. CASE Goto(w, [req[w] EXCEPT !.pc = "observe"])
    <3> DEFINE r == [req[w] EXCEPT !.pc = "observe"]
    <3>1. r \in Request
      BY <1>f, RecordUpdates DEF Steps
    <3>2. req'[w] = r /\ \A v \in Worker \ {w} : req'[v] = req[v]
      BY <1>t, <2>1, <3>1, GotoFacts
    <3>3. /\ r.pc = "observe" /\ r.operation = req[w].operation
          /\ r.permit = req[w].permit /\ r.outcome = req[w].outcome
          /\ r.phase = req[w].phase
      BY <1>f DEF Request
    <3> HIDE DEF r
    <3> QED
      BY <1>7, <1>t, <1>f, <1>o, <3>2, <3>3 DEF RecoverNothing, Local, Quiet
  <2>2. CASE Goto(w, Idle)
    BY <1>7, <2>2, EndQuiet DEF RecoverNothing, Local
  <2> QED
    BY <1>7, <2>1, <2>2 DEF RecoverNothing
<1>8. CASE SettleReached(w)
  <2> DEFINE r == [req[w] EXCEPT !.pc = "commit"]
  <2>1. r \in Request
    BY <1>f, RecordUpdates DEF Steps
  <2>2. req'[w] = r /\ \A v \in Worker \ {w} : req'[v] = req[v]
    BY <1>8, <1>t, <2>1, GotoFacts DEF SettleReached
  <2>3. /\ r.pc = "commit" /\ r.operation = req[w].operation
        /\ r.permit = req[w].permit /\ r.outcome = req[w].outcome
        /\ r.phase = req[w].phase
    BY <1>f DEF Request
  <2>4. db \in past /\ db.marker = req[w].permit.next
    BY <1>8 DEF IInv, StoreInv, SettleReached
  <2>5. req[w].outcome = "committed" =>
          \E s \in past : /\ s.marker = req[w].permit.next
                          /\ req[w].operation \in s.rows
    BY <1>8 DEF IInv, PermitInv, OutcomeInv, Done, SettleReached
  <2>6. req[w].permit # NoPermit
    BY <1>8 DEF IInv, PermitInv, SettleReached
  <2> HIDE DEF r
  <2> QED
    BY <1>8, <1>t, <1>f, <1>o, <2>2, <2>3, <2>4, <2>5, <2>6
       DEF SettleReached, Local, Quiet, Reached
<1>9. CASE \/ SettleQuarantine(w) \/ SettleMismatch(w) \/ CommitRefused(w)
           \/ StatusRefused(w) \/ Crash(w)
  BY <1>9, EndQuiet DEF SettleQuarantine, SettleMismatch, CommitRefused,
                        StatusRefused, Crash, Local
<1>10. CASE StatusAccepted(w)
  <2>1. CASE req[w].task = "batch"
    <3> DEFINE r == [req[w] EXCEPT !.pc = "begin", !.phase = "second",
                                   !.operation = operations + 1]
    <3>1. r \in Request
      BY <1>f, RecordUpdates
    <3>2. req'[w] = r /\ \A v \in Worker \ {w} : req'[v] = req[v]
      BY <1>10, <1>t, <2>1, <3>1, GotoFacts DEF StatusAccepted
    <3>3. /\ r.pc = "begin" /\ r.operation = operations + 1
          /\ r.permit = req[w].permit /\ r.outcome = req[w].outcome
          /\ r.phase = "second"
      BY <1>f DEF Request
    <3> HIDE DEF r
    <3> QED
      BY <1>10, <1>t, <1>f, <1>o, <2>1, <3>2, <3>3
         DEF StatusAccepted, Draw, Quiet
  <2>2. CASE req[w].task # "batch"
    BY <1>10, <2>2, EndQuiet DEF StatusAccepted, Local
  <2> QED
    BY <2>1, <2>2
<1>11. CASE BatchReplyLost(w)
  <2> DEFINE r == [req[w] EXCEPT !.pc = "settle", !.outcome = "lost"]
  <2>1. r \in Request
    BY <1>f, RecordUpdates
  <2>2. req'[w] = r /\ \A v \in Worker \ {w} : req'[v] = req[v]
    BY <1>11, <1>t, <2>1, GotoFacts DEF BatchReplyLost
  <2>3. /\ r.pc = "settle" /\ r.operation = req[w].operation
        /\ r.permit = req[w].permit /\ r.outcome = "lost"
        /\ r.phase = req[w].phase
    BY <1>f DEF Request
  <2>4. req[w].permit # NoPermit
    BY <1>11 DEF IInv, PermitInv, BatchReplyLost
  <2> HIDE DEF r
  <2> QED
    BY <1>11, <1>t, <1>f, <1>o, <2>2, <2>3, <2>4 DEF BatchReplyLost, Quiet
<1> QED
  BY <1>1, <1>2, <1>3, <1>4, <1>5, <1>6, <1>7, <1>8, <1>9, <1>10, <1>11

-----------------------------------------------------------------------------
(* The inductive invariant: begin().                                       *)

\* What an accepted begin() of a fresh operation does to the ledger.
LEMMA BeginEffect ==
    ASSUME IInv, NEW w \in Worker, Begin(w) \/ BeginReplyLost(w)
    PROVE  LET p == BegunPermit(req[w].expected, req[w].operation) IN
           /\ ledger.pending = NoPermit
           /\ p \in Permit
           /\ p # NoPermit
           /\ p.operation = req[w].operation
           /\ p.previous = ledger.checkpoint
           /\ p.next.sequence = ledger.checkpoint.sequence + 1
           /\ ledger'.pending = p
           /\ ledger'.checkpoint = ledger.checkpoint
           /\ sent = {}
           /\ \A v \in Worker : ~Holder(v)
           /\ Unreached
<1> DEFINE p == BegunPermit(req[w].expected, req[w].operation)
<1>1. TypeOK /\ req[w].pc = "begin"
  BY DEF IInv, Begin, BeginReplyLost
<1>2. ledger.pending = NoPermit /\ ledger.checkpoint = req[w].expected
  BY <1>1 DEF IInv, FreshInv, Asking, Begin, BeginReplyLost, BeginAccepted,
              BeginAgain, BeginFresh
<1>3. p \in Permit
  BY <1>1, FieldTypes, PermitType
<1>4. p = [operation |-> req[w].operation, previous |-> req[w].expected,
           next |-> [sequence |-> req[w].expected.sequence + 1, tip |-> tips + 1]]
  BY <1>2 DEF BegunPermit, NewPermit
<1>5. /\ p.operation = req[w].operation
      /\ p.previous = ledger.checkpoint
      /\ p.next.sequence = ledger.checkpoint.sequence + 1
  BY <1>2, <1>4
<1>6. ledger.checkpoint.sequence \in Nat
  BY <1>1, FieldTypes DEF Checkpoint
<1>7. p # NoPermit
  BY <1>5, <1>6 DEF NoPermit, Genesis
<1>8. ledger'.pending = p /\ ledger'.checkpoint = ledger.checkpoint
  BY <1>1 DEF Begin, BeginReplyLost, DOBegin, TypeOK, Ledger
<1>9. sent = {} /\ \A v \in Worker : ~Holder(v)
  BY <1>2 DEF IInv, TokenInv
<1>10. Unreached
  BY <1>2 DEF IInv, StoreInv, Unreached
<1> HIDE DEF p
<1> QED
  BY <1>2, <1>3, <1>5, <1>7, <1>8, <1>9, <1>10 DEF p

\* The request of an accepted begin(): it goes on with the permit, or to the
\* recovery path when the reply is lost.
LEMMA BeginRequest ==
    ASSUME IInv, NEW w \in Worker, Begin(w) \/ BeginReplyLost(w)
    PROVE  LET p == BegunPermit(req[w].expected, req[w].operation) IN
           /\ \A v \in Worker \ {w} : req'[v] = req[v]
           /\ \/ /\ req'[w].pc = "submit" /\ req'[w].permit = p
                 /\ req'[w].operation = req[w].operation
                 /\ req'[w].outcome = "none" /\ req'[w].phase # "recovering"
              \/ /\ req'[w].pc = "recover" /\ req'[w].permit = req[w].permit
                 /\ req'[w].operation = req[w].operation
                 /\ req'[w].outcome = "none" /\ req'[w].phase = "recovering"
              \/ req'[w] = Idle
<1> DEFINE p == BegunPermit(req[w].expected, req[w].operation)
<1>1. TypeOK /\ req[w] \in Request /\ p \in Permit
  BY BeginEffect, FieldTypes DEF IInv
<1>2. req[w].outcome = "none" /\ req[w].phase # "recovering"
  BY DEF IInv, OutcomeInv, Begin, BeginReplyLost
<1>3. CASE Begin(w)
  <2> DEFINE r == [req[w] EXCEPT !.pc = "submit", !.permit = p]
  <2>1. r \in Request
    BY <1>1, FieldTypes, RecordUpdates
  <2>2. req'[w] = r /\ \A v \in Worker \ {w} : req'[v] = req[v]
    BY <1>1, <1>3, <2>1, GotoFacts DEF Begin
  <2>3. /\ r.pc = "submit" /\ r.permit = p /\ r.operation = req[w].operation
        /\ r.outcome = req[w].outcome /\ r.phase = req[w].phase
    BY <1>1 DEF Request
  <2> HIDE DEF r, p
  <2> QED
    BY <1>2, <2>2, <2>3 DEF p
<1>4. CASE BeginReplyLost(w) /\ req[w].phase = "first"
  <2> DEFINE r == [req[w] EXCEPT !.pc = "recover", !.phase = "recovering"]
  <2>1. r \in Request
    BY <1>1, FieldTypes, RecordUpdates
  <2>2. req'[w] = r /\ \A v \in Worker \ {w} : req'[v] = req[v]
    BY <1>1, <1>4, <2>1, GotoFacts DEF BeginReplyLost, AfterRefusedBegin
  <2>3. /\ r.pc = "recover" /\ r.permit = req[w].permit
        /\ r.operation = req[w].operation
        /\ r.outcome = req[w].outcome /\ r.phase = "recovering"
    BY <1>1 DEF Request
  <2> HIDE DEF r, p
  <2> QED
    BY <1>2, <2>2, <2>3
<1>5. CASE BeginReplyLost(w) /\ req[w].phase # "first"
  BY <1>1, <1>5, RecordTypes, GotoFacts DEF BeginReplyLost, AfterRefusedBegin
<1> QED
  BY <1>3, <1>4, <1>5

\* A permit issued by begin(), with or without its reply, is new: it keeps
\* the inductive invariant.
LEMMA BeginPreserves ==
    ASSUME IInv, TypeOK', NEW w \in Worker, Begin(w) \/ BeginReplyLost(w)
    PROVE  IInv'
<1> DEFINE p == BegunPermit(req[w].expected, req[w].operation)
<1>e. /\ ledger.pending = NoPermit
      /\ p \in Permit
      /\ p # NoPermit
      /\ p.operation = req[w].operation
      /\ p.previous = ledger.checkpoint
      /\ p.next.sequence = ledger.checkpoint.sequence + 1
      /\ ledger'.pending = p
      /\ ledger'.checkpoint = ledger.checkpoint
      /\ sent = {}
      /\ \A v \in Worker : ~Holder(v)
      /\ Unreached
  BY BeginEffect
<1>r. /\ \A v \in Worker \ {w} : req'[v] = req[v]
      /\ \/ /\ req'[w].pc = "submit" /\ req'[w].permit = p
            /\ req'[w].operation = req[w].operation
            /\ req'[w].outcome = "none" /\ req'[w].phase # "recovering"
         \/ /\ req'[w].pc = "recover" /\ req'[w].permit = req[w].permit
            /\ req'[w].operation = req[w].operation
            /\ req'[w].outcome = "none" /\ req'[w].phase = "recovering"
         \/ /\ req'[w].pc = "idle" /\ req'[w].permit = NoPermit
            /\ req'[w].operation = 0
            /\ req'[w].outcome = "none" /\ req'[w].phase # "recovering"
  BY BeginRequest DEF Idle
<1>u. /\ UNCHANGED <<db, past, sent, operations, acknowledged, refused>>
      /\ req[w].pc = "begin"
  BY DEF Begin, BeginReplyLost
<1> HIDE DEF p
<1>n. /\ operations \in Nat /\ p.operation \in Nat
      /\ ledger.checkpoint.sequence \in Nat
      /\ \A v \in Worker : /\ req[v].operation \in Nat
                           /\ req[v].permit.next.sequence \in Nat
  BY <1>e, FieldTypes DEF IInv, TypeOK, Permit, Checkpoint
<1>1. StoreInv'
  BY <1>e, <1>u DEF IInv, StoreInv, Unreached
<1>2. TokenInv'
  <2>1. Unreached'
    BY <1>e, <1>u DEF Unreached
  <2>2. \A v \in Worker \ {w} : ~Holder(v)' /\ (Running(v)' <=> Running(v))
    BY <1>e, <1>r DEF Holder, Running
  <2>3. \A v \in Worker \ {w} : req'[v].permit # p
    BY <1>e, <1>r, <1>n DEF IInv, PermitInv, NoPermit, Genesis
  <2>4. /\ Holder(w)' => req'[w].permit = p
        /\ Running(w)' => req'[w].permit = p
    BY <1>r DEF Holder, Running
  <2>5. \A v, x \in Worker \ {w} : /\ Running(v) /\ Running(x)
                                   /\ req[v].permit = req[x].permit
                                   => v = x
    BY DEF IInv, TokenInv
  <2>6. \A v, x \in Worker :
         /\ Running(v)' \/ Holder(v)'
         /\ Running(x)' \/ Holder(x)'
         /\ req'[v].permit = req'[x].permit
         => v = x
    BY <1>r, <2>2, <2>3, <2>4, <2>5
  <2> QED
    BY <1>e, <1>u, <2>1, <2>2, <2>4, <2>6 DEF TokenInv
<1>3. FreshInv'
  BY <1>e, <1>r, <1>u, <1>n DEF IInv, FreshInv, Asking
<1>4. PermitInv'
  BY <1>e, <1>r, <1>u, <1>n DEF IInv, PermitInv, Done, Reached
<1>5. OutcomeInv'
  BY <1>r DEF IInv, OutcomeInv
<1>6. AckInv'
  BY <1>e, <1>u DEF IInv, AckInv
<1>7. RefusalInv'
  <2>1. \A v \in Worker : /\ req'[v].pc \in {"read", "begin", "submit"}
                          => /\ req[v].pc \in {"read", "begin", "submit"}
                             /\ req'[v].operation = req[v].operation
    BY <1>r, <1>u
  <2>2. \A v \in Worker : req'[v].outcome = "aborted" =>
          /\ req[v].outcome = "aborted"
          /\ req'[v].operation = req[v].operation
    BY <1>r
  <2> QED
    BY <1>u, <2>1, <2>2 DEF IInv, RefusalInv, Dead, NotStored
<1> QED
  BY <1>1, <1>2, <1>3, <1>4, <1>5, <1>6, <1>7 DEF IInv

-----------------------------------------------------------------------------
(* The inductive invariant: a batch leaves for D1.                         *)

\* Submit and SettleFence hand the right to move the marker to a batch.
LEMMA SendPreserves ==
    ASSUME IInv, TypeOK', NEW w \in Worker, Submit(w) \/ SettleFence(w)
    PROVE  IInv'
<1>t. TypeOK /\ req[w] \in Request
  BY FieldTypes DEF IInv
<1>h. Holder(w)
  BY DEF Holder, Submit, SettleFence
<1>1. PICK k \in {"await", "fencing"}, c \in {"business", "fence"} :
        /\ Goto(w, [req[w] EXCEPT !.pc = k])
        /\ sent' = sent \cup {[permit |-> req[w].permit, kind |-> c]}
        /\ k = "await" => req[w].pc = "submit" /\ c = "business"
        /\ k = "fencing" => /\ req[w].pc = "settle" /\ req[w].outcome = "aborted"
                            /\ c = "fence"
  BY DEF Submit, SettleFence
<1>2. [req[w] EXCEPT !.pc = k] \in Request
  BY <1>t, FieldTypes, RecordUpdates DEF Steps
<1>3. /\ \A v \in Worker \ {w} : req'[v] = req[v]
      /\ req'[w].pc = k /\ req'[w].permit = req[w].permit
      /\ req'[w].operation = req[w].operation
      /\ req'[w].outcome = req[w].outcome /\ req'[w].phase = req[w].phase
  <2>1. /\ req'[w] = [req[w] EXCEPT !.pc = k]
        /\ \A v \in Worker \ {w} : req'[v] = req[v]
    BY <1>t, <1>1, <1>2, GotoFacts
  <2> QED
    BY <1>t, <2>1 DEF Request
<1>u. UNCHANGED <<ledger, db, past, operations, acknowledged, refused>>
  BY DEF Submit, SettleFence
<1>4. /\ sent = {} /\ req[w].permit = ledger.pending
      /\ ledger.pending # NoPermit /\ Unreached
      /\ \A v \in Worker \ {w} : ~Holder(v)
  BY <1>h DEF IInv, TokenInv
<1>5. \A b \in sent' : b = [permit |-> ledger.pending, kind |-> c]
  BY <1>1, <1>4
<1>6. StoreInv'
  BY <1>u DEF IInv, StoreInv
<1>7. TokenInv'
  <2>1. \A v \in Worker : ~Holder(v)'
    BY <1>3, <1>4 DEF Holder
  <2>2. \A v \in Worker : /\ Running(v)' => Running(v) \/ Holder(v)
                          /\ req'[v].permit = req[v].permit
    BY <1>3, <1>h DEF Running, Holder
  <2>3. \A v, x \in Worker : /\ Running(v)' /\ Running(x)'
                             /\ req'[v].permit = req'[x].permit
                             => v = x
    BY <2>2 DEF IInv, TokenInv
  <2>4. Unreached'
    BY <1>4, <1>u DEF Unreached
  <2> QED
    BY <1>4, <1>5, <1>u, <2>1, <2>3, <2>4 DEF TokenInv
<1>8. FreshInv'
  BY <1>3, <1>u DEF IInv, FreshInv, Asking
<1>9. PermitInv'
  BY <1>1, <1>3, <1>4, <1>u DEF IInv, PermitInv, Done, Reached
<1>10. OutcomeInv'
  BY <1>1, <1>3 DEF IInv, OutcomeInv
<1>11. AckInv'
  BY <1>u DEF IInv, AckInv
<1>12. RefusalInv'
  <2>1. \A v \in Worker : req'[v].pc \in {"read", "begin", "submit"}
                          => /\ req[v].pc \in {"read", "begin", "submit"}
                             /\ req'[v].operation = req[v].operation
    BY <1>3
  <2>2. \A v \in Worker : req'[v].outcome = "aborted" =>
          /\ req[v].outcome = "aborted"
          /\ req'[v].operation = req[v].operation
    BY <1>3
  <2>3. c = "business" => /\ req[w].pc = "submit"
                          /\ ledger.pending.operation = req[w].operation
    BY <1>1, <1>4 DEF IInv, PermitInv
  <2>4. \A b \in sent' : b.kind = "business" =>
          /\ b.permit.operation = req[w].operation
          /\ req[w].pc = "submit"
    BY <1>5, <2>3
  <2> QED
    BY <1>u, <2>1, <2>2, <2>4 DEF IInv, RefusalInv, Dead, NotStored
<1> QED
  BY <1>6, <1>7, <1>8, <1>9, <1>10, <1>11, <1>12 DEF IInv

-----------------------------------------------------------------------------
(* The inductive invariant: commit() and the return of checkpoint_batch.   *)

\* Publication by commit() keeps the inductive invariant: the marker that was
\* observed makes the permit one that D1 has used up.
LEMMA CommitPreserves ==
    ASSUME IInv, TypeOK', NEW w \in Worker, Commit(w) \/ CommitReplyLost(w)
    PROVE  IInv'
<1>t. TypeOK /\ req[w] \in Request /\ req[w].pc = "commit"
  BY FieldTypes DEF IInv, Commit, CommitReplyLost
<1>u. UNCHANGED <<db, past, sent, operations, acknowledged, refused>>
  BY DEF Commit, CommitReplyLost
<1>c. /\ req[w].permit # NoPermit
      /\ \E s \in past : s.marker = req[w].permit.next
      /\ req[w].outcome = "committed" => Done(w)
  BY <1>t DEF IInv, PermitInv, Reached
<1>n. /\ ledger.checkpoint.sequence \in Nat
      /\ ledger.pending.next.sequence \in Nat
      /\ \A v \in Worker : req[v].permit.next.sequence \in Nat
      /\ \A s \in past : s.marker.sequence \in Nat
  BY <1>t, FieldTypes DEF TypeOK, Permit, Checkpoint, Database
<1>1. /\ ledger'.checkpoint = req[w].permit.next
      /\ ledger'.pending = NoPermit
      /\ \/ ledger.pending = NoPermit /\ ledger.checkpoint = req[w].permit.next
         \/ /\ ledger.pending # NoPermit /\ ledger.pending = req[w].permit
            /\ req[w].permit.next.sequence = ledger.checkpoint.sequence + 1
  <2>1. /\ ledger'.checkpoint = req[w].permit.next
        /\ ledger'.pending = NoPermit
    BY <1>t DEF Commit, CommitReplyLost, DOCommit, TypeOK, Ledger
  <2> QED
    BY <2>1 DEF Commit, CommitReplyLost, CommitAccepted, CommitAgain, IInv,
                StoreInv
<1>2. /\ ledger'.checkpoint.sequence \in Nat
      /\ ledger.checkpoint.sequence <= ledger'.checkpoint.sequence
      /\ ledger.pending # NoPermit =>
           ledger.pending.next.sequence = ledger'.checkpoint.sequence
  BY <1>1, <1>n
<1>r. /\ \A v \in Worker \ {w} : req'[v] = req[v]
      /\ \/ /\ req'[w].pc = "observe" /\ req[w].phase = "recovering"
            /\ req'[w].permit = req[w].permit
            /\ req'[w].operation = req[w].operation
            /\ req'[w].outcome = req[w].outcome /\ req'[w].phase = req[w].phase
         \/ /\ req'[w].pc = "return"
            /\ req'[w].permit = req[w].permit
            /\ req'[w].operation = req[w].operation
            /\ req'[w].outcome = req[w].outcome /\ req'[w].phase = req[w].phase
         \/ /\ req'[w].pc = "idle" /\ req'[w].permit = NoPermit
            /\ req'[w].operation = 0
            /\ req'[w].outcome = "none" /\ req'[w].phase = "first"
  <2>1. CASE Commit(w)
    <3> DEFINE r == AfterCommit(w)
    <3>1. r \in Request
      BY <1>t, FieldTypes, RecordUpdates DEF AfterCommit, Steps
    <3>2. req'[w] = r /\ \A v \in Worker \ {w} : req'[v] = req[v]
      BY <1>t, <2>1, <3>1, GotoFacts DEF Commit
    <3>3. /\ r.pc = IF req[w].phase = "recovering" THEN "observe" ELSE "return"
          /\ r.permit = req[w].permit /\ r.operation = req[w].operation
          /\ r.outcome = req[w].outcome /\ r.phase = req[w].phase
      BY <1>t DEF AfterCommit, Request
    <3> HIDE DEF r
    <3> QED
      BY <3>2, <3>3
  <2>2. CASE CommitReplyLost(w)
    BY <1>t, <2>2, RecordTypes, GotoFacts DEF CommitReplyLost, Idle
  <2> QED
    BY <2>1, <2>2
<1>3. sent = {} /\ \A v \in Worker : ~Holder(v)
  <2>1. ~Unreached \/ ledger.pending = NoPermit
    BY <1>c, <1>1, <1>n DEF Unreached
  <2> QED
    BY <2>1 DEF IInv, TokenInv
<1>4. StoreInv'
  <2>1. \A s \in past : s.marker.sequence <= ledger'.checkpoint.sequence
    BY <1>1, <1>2, <1>n DEF IInv, StoreInv
  <2> QED
    BY <1>1, <1>c, <1>u, <2>1 DEF IInv, StoreInv
<1>5. TokenInv'
  <2>1. \A v \in Worker : ~Holder(v)'
    BY <1>3, <1>r, <1>t DEF Holder
  <2>2. \A v \in Worker : Running(v)' => Running(v) /\ v # w
    BY <1>r, <1>t DEF Running
  <2>3. \A v, x \in Worker : /\ Running(v)' /\ Running(x)'
                             /\ req'[v].permit = req'[x].permit
                             => v = x
    BY <1>r, <2>2 DEF IInv, TokenInv
  <2> QED
    BY <1>3, <1>u, <2>1, <2>3 DEF TokenInv
<1>6. FreshInv'
  <2>1. operations \in Nat /\ NoPermit.operation = 0
    BY <1>t DEF TypeOK, NoPermit
  <2> QED
    BY <1>1, <1>r, <1>t, <1>u, <2>1 DEF IInv, FreshInv, Asking
<1>7. PermitInv'
  BY <1>1, <1>2, <1>c, <1>n, <1>r, <1>t, <1>u DEF IInv, PermitInv, Done, Reached
<1>8. OutcomeInv'
  BY <1>r, <1>t DEF IInv, OutcomeInv
<1>9. AckInv'
  <2>1. \A s \in past : s.marker.sequence <= ledger.checkpoint.sequence =>
                          s.marker.sequence <= ledger'.checkpoint.sequence
    BY <1>2, <1>n
  <2> QED
    BY <1>u, <2>1 DEF IInv, AckInv
<1>10. RefusalInv'
  <2>1. \A v \in Worker : req'[v].pc \in {"read", "begin", "submit"}
                          => /\ req[v].pc \in {"read", "begin", "submit"}
                             /\ req'[v].operation = req[v].operation
    BY <1>r
  <2>2. \A v \in Worker : req'[v].outcome = "aborted" =>
          /\ req[v].outcome = "aborted"
          /\ req'[v].operation = req[v].operation
    BY <1>r
  <2> QED
    BY <1>u, <2>1, <2>2 DEF IInv, RefusalInv, Dead, NotStored
<1> QED
  BY <1>4, <1>5, <1>6, <1>7, <1>8, <1>9, <1>10 DEF IInv

\* Answering the caller of checkpoint_batch keeps the inductive invariant:
\* Ok only after publication, an error only once the batch can never apply.
LEMMA ReturnPreserves ==
    ASSUME IInv, TypeOK', NEW w \in Worker, Return(w)
    PROVE  IInv'
<1>t. TypeOK /\ req[w].pc = "return" /\ req[w].operation \in Nat
  BY FieldTypes DEF IInv, Return
<1>u. UNCHANGED <<ledger, db, past, sent, operations>>
  BY DEF Return
<1>r. /\ \A v \in Worker \ {w} : req'[v] = req[v]
      /\ req'[w].pc = "idle" /\ req'[w].permit = NoPermit
      /\ req'[w].operation = 0
      /\ req'[w].outcome = "none" /\ req'[w].phase = "first"
  BY <1>t, RecordTypes, GotoFacts DEF Return, Idle
<1>1. StoreInv'
  BY <1>u DEF IInv, StoreInv
<1>2. TokenInv'
  <2>1. \A v \in Worker : /\ Holder(v)' => Holder(v) /\ v # w
                          /\ Running(v)' => Running(v) /\ v # w
    BY <1>r DEF Holder, Running
  <2>2. Unreached' <=> Unreached
    BY <1>u DEF Unreached
  <2> QED
    BY <1>r, <1>u, <2>1, <2>2 DEF IInv, TokenInv
<1>3. FreshInv'
  BY <1>r, <1>u, <1>t DEF IInv, FreshInv, Asking, TypeOK
<1>4. PermitInv'
  BY <1>r, <1>u DEF IInv, PermitInv, Done, Reached
<1>5. OutcomeInv'
  BY <1>r DEF IInv, OutcomeInv
<1>6. AckInv'
  <2>1. req[w].outcome = "committed" =>
          \E s \in past : /\ s.marker.sequence <= ledger.checkpoint.sequence
                          /\ req[w].operation \in s.rows
    BY <1>t DEF IInv, PermitInv, Done
  <2>2. \A o \in acknowledged' :
          o \in acknowledged \/ (req[w].outcome = "committed" /\ o = req[w].operation)
    BY DEF Return
  <2> QED
    BY <1>u, <2>1, <2>2 DEF IInv, AckInv
<1>7. RefusalInv'
  <2>1. \A v \in Worker : req'[v].pc \in {"read", "begin", "submit"}
                          => /\ req[v].pc \in {"read", "begin", "submit"}
                             /\ req'[v].operation = req[v].operation
    BY <1>r
  <2>2. \A v \in Worker : req'[v].outcome = "aborted" =>
          /\ req[v].outcome = "aborted"
          /\ req'[v].operation = req[v].operation
    BY <1>r
  <2>3. \A o \in refused' : Dead(o)
    BY DEF Return, IInv, RefusalInv
  <2> QED
    BY <1>u, <2>1, <2>2, <2>3 DEF IInv, RefusalInv, Dead, NotStored
<1> QED
  BY <1>1, <1>2, <1>3, <1>4, <1>5, <1>6, <1>7 DEF IInv

-----------------------------------------------------------------------------
(* The inductive invariant: D1 executes a batch.                           *)

\* The answer to a batch moves only the request that waits for it.
LEMMA AnswerFacts ==
    ASSUME TypeOK, NEW b \in sent, NEW k \in {"committed", "aborted", "none"},
           b.kind = "business" => k # "none", Answer(b, k)
    PROVE  \A w \in Worker :
             /\ req'[w].permit = req[w].permit
             /\ req'[w].operation = req[w].operation
             /\ req'[w].phase = req[w].phase
             /\ \/ req'[w].pc = req[w].pc /\ req'[w].outcome = req[w].outcome
                \/ /\ req[w].pc = "await" /\ req[w].permit = b.permit
                   /\ b.kind = "business"
                   /\ req'[w].pc = "settle" /\ req'[w].outcome = k
                \/ /\ req[w].pc = "fencing" /\ req[w].permit = b.permit
                   /\ b.kind # "business"
                   /\ req'[w].pc = "resettle"
                   /\ req'[w].outcome = req[w].outcome
<1> SUFFICES ASSUME NEW w \in Worker
             PROVE  /\ req'[w].permit = req[w].permit
                    /\ req'[w].operation = req[w].operation
                    /\ req'[w].phase = req[w].phase
                    /\ \/ req'[w].pc = req[w].pc /\ req'[w].outcome = req[w].outcome
                       \/ /\ req[w].pc = "await" /\ req[w].permit = b.permit
                          /\ b.kind = "business"
                          /\ req'[w].pc = "settle" /\ req'[w].outcome = k
                       \/ /\ req[w].pc = "fencing" /\ req[w].permit = b.permit
                          /\ b.kind # "business"
                          /\ req'[w].pc = "resettle"
                          /\ req'[w].outcome = req[w].outcome
  OBVIOUS
<1>1. req[w] \in Request
  BY FieldTypes
<1>2. CASE ~Waiting(w, b)
  BY <1>2 DEF Answer
<1>3. CASE Waiting(w, b) /\ b.kind = "business"
  <2>1. req'[w] = [req[w] EXCEPT !.pc = "settle", !.outcome = k]
    BY <1>3 DEF Answer
  <2> QED
    BY <1>1, <1>3, <2>1 DEF Waiting, Request
<1>4. CASE Waiting(w, b) /\ b.kind # "business"
  <2>1. req'[w] = [req[w] EXCEPT !.pc = "resettle"]
    BY <1>4 DEF Answer
  <2> QED
    BY <1>1, <1>4, <2>1 DEF Waiting, Request
<1> QED
  BY <1>2, <1>3, <1>4

\* A batch that moves the marker uses the permit up.
LEMMA ApplyPreserves ==
    ASSUME IInv, TypeOK', NEW b \in sent, D1Apply(b)
    PROVE  IInv'
<1> DEFINE d == Applied(b)
<1>t. TypeOK /\ b \in Batch /\ b.permit \in Permit
  BY DEF IInv, TypeOK, Batch
<1>u. UNCHANGED <<ledger, operations, acknowledged, refused>>
  BY DEF D1Apply
<1>b. /\ b.permit = ledger.pending /\ ledger.pending # NoPermit
      /\ Unreached
      /\ sent' = {}
      /\ \A w \in Worker : ~Holder(w)
  BY DEF IInv, TokenInv, D1Apply
<1>d. /\ db' = d /\ past' = past \cup {d}
      /\ d.marker = ledger.pending.next
      /\ d.rows = IF b.kind = "business"
                  THEN db.rows \cup {ledger.pending.operation} ELSE db.rows
      /\ db.marker = ledger.checkpoint
      /\ d.marker.sequence = ledger.checkpoint.sequence + 1
  BY <1>b DEF D1Apply, Store, Applied, Matches, IInv, StoreInv
<1>r. \A w \in Worker :
        /\ req'[w].permit = req[w].permit
        /\ req'[w].operation = req[w].operation
        /\ req'[w].phase = req[w].phase
        /\ \/ req'[w].pc = req[w].pc /\ req'[w].outcome = req[w].outcome
           \/ /\ req[w].pc = "await" /\ req[w].permit = b.permit
              /\ b.kind = "business"
              /\ req'[w].pc = "settle" /\ req'[w].outcome = "committed"
           \/ /\ req[w].pc = "fencing" /\ req[w].permit = b.permit
              /\ b.kind # "business"
              /\ req'[w].pc = "resettle" /\ req'[w].outcome = req[w].outcome
  BY <1>t, AnswerFacts DEF D1Apply
<1>n. /\ ledger.checkpoint.sequence \in Nat
      /\ \A s \in past : s.marker.sequence \in Nat
  BY <1>t, FieldTypes DEF TypeOK, Ledger, Permit, Checkpoint, Database
<1> HIDE DEF d
<1>1. StoreInv'
  <2>1. \A s \in past : s.marker.sequence < d.marker.sequence
    BY <1>b, <1>d, <1>n DEF Unreached
  <2>2. \A s \in past : s.rows \subseteq d.rows
    <3>1. \A s \in past : s.marker.sequence <= db.marker.sequence
      BY <1>b, <1>d DEF Unreached
    <3>2. \A s \in past : s.rows \subseteq db.rows
      BY <3>1 DEF IInv, StoreInv
    <3> QED
      BY <1>d, <3>2
  <2>3. \A s, t \in past' : s.marker.sequence = t.marker.sequence => s = t
    BY <1>d, <1>n, <2>1 DEF IInv, StoreInv
  <2>4. \A s, t \in past' :
          s.marker.sequence <= t.marker.sequence => s.rows \subseteq t.rows
    BY <1>d, <1>n, <2>1, <2>2 DEF IInv, StoreInv
  <2>5. \A s \in past' :
          \/ s.marker.sequence <= ledger.checkpoint.sequence
          \/ ledger.pending # NoPermit /\ s.marker = ledger.pending.next
    BY <1>d, <1>b DEF Unreached
  <2> QED
    BY <1>d, <1>u, <2>3, <2>4, <2>5 DEF IInv, StoreInv
<1>2. TokenInv'
  <2>1. \A w \in Worker : ~Holder(w)'
    BY <1>b, <1>r DEF Holder
  <2>2. \A w \in Worker : Running(w)' => Running(w)
    BY <1>r DEF Running
  <2>3. \A v, x \in Worker : /\ Running(v)' /\ Running(x)'
                             /\ req'[v].permit = req'[x].permit
                             => v = x
    BY <1>r, <2>2 DEF IInv, TokenInv
  <2> QED
    BY <1>b, <2>1, <2>3 DEF TokenInv
<1>3. FreshInv'
  BY <1>r, <1>u DEF IInv, FreshInv, Asking
<1>4. PermitInv'
  <2>1. \A w \in Worker : Done(w) => Done(w)'
    BY <1>d, <1>r DEF Done
  <2>2. \A w \in Worker : Reached(req[w].permit) => Reached(req[w].permit)'
    BY <1>d, <1>r DEF Reached
  <2>3. ASSUME NEW w \in Worker, req[w].pc = "await", req[w].permit = b.permit,
               b.kind = "business"
        PROVE  Done(w)'
    <3>1. req[w].permit.operation = req[w].operation
      BY <2>3 DEF IInv, PermitInv
    <3> QED
      BY <1>b, <1>d, <1>r, <2>3, <3>1 DEF Done
  <2> HIDE DEF Done, Reached
  <2> QED
    BY <1>r, <1>u, <2>1, <2>2, <2>3 DEF IInv, PermitInv
<1>5. OutcomeInv'
  BY <1>r DEF IInv, OutcomeInv
<1>6. AckInv'
  BY <1>d, <1>u DEF IInv, AckInv
<1>7. RefusalInv'
  <2>1. /\ ledger.pending.operation <= operations
        /\ \A w \in Worker : req[w].pc \in {"read", "begin"} =>
             ledger.pending.operation # req[w].operation
    BY <1>b DEF IInv, FreshInv, Asking
  <2>2. \A w \in Worker : req[w].pc # "submit"
    BY <1>b DEF Holder
  <2>3. db \in past
    BY DEF IInv, StoreInv
  <2>4. ASSUME NEW o, NotStored(o),
               b.kind = "business" => o # ledger.pending.operation
        PROVE  NotStored(o)'
    BY <1>d, <2>3, <2>4 DEF NotStored
  <2>5. \A w \in Worker : req'[w].pc \in {"read", "begin", "submit"}
                          => NotStored(req[w].operation)'
    <3> SUFFICES ASSUME NEW w \in Worker,
                        req'[w].pc \in {"read", "begin", "submit"}
                 PROVE  NotStored(req[w].operation)'
      OBVIOUS
    <3>1. /\ req[w].pc \in {"read", "begin"}
          /\ req'[w].operation = req[w].operation
          /\ NotStored(req[w].operation)
      BY <1>r, <2>2 DEF IInv, RefusalInv
    <3> QED
      BY <2>1, <2>4, <3>1 DEF NotStored
  <2>6. ASSUME NEW o, Dead(o)
        PROVE  Dead(o)'
    <3>1. b.kind = "business" => o # ledger.pending.operation
      BY <1>b, <2>6 DEF Dead
    <3>2. NotStored(o)'
      BY <2>4, <2>6, <3>1 DEF Dead
    <3>3. \A w \in Worker : req'[w].pc \in {"read", "begin", "submit"} =>
            /\ req[w].pc \in {"read", "begin", "submit"}
            /\ req'[w].operation = req[w].operation
      BY <1>r
    <3> QED
      BY <1>b, <1>u, <2>6, <3>2, <3>3 DEF Dead
  <2>7. \A w \in Worker : req'[w].outcome = "aborted" => Dead(req[w].operation)'
    <3> SUFFICES ASSUME NEW w \in Worker, req'[w].outcome = "aborted"
                 PROVE  Dead(req[w].operation)'
      OBVIOUS
    <3>1. Dead(req[w].operation) /\ req'[w].operation = req[w].operation
      BY <1>r DEF IInv, RefusalInv
    <3> QED
      BY <2>6, <3>1 DEF Dead, NotStored
  <2>8. \A o \in refused' : Dead(o)'
    BY <1>u, <2>6 DEF IInv, RefusalInv
  <2>9. \A s \in past' : \A o \in s.rows : o <= operations'
    BY <1>d, <1>u, <2>1, <2>3 DEF IInv, RefusalInv
  <2> QED
    BY <1>b, <2>5, <2>7, <2>8, <2>9 DEF RefusalInv
<1> QED
  BY <1>1, <1>2, <1>3, <1>4, <1>5, <1>6, <1>7 DEF IInv

\* A batch that leaves the marker alone hands the right back to the request
\* that waits for it, or nobody has it any more.
LEMMA MissPreserves ==
    ASSUME IInv, TypeOK', NEW b \in sent, D1Abort(b) \/ D1FenceMissed(b)
    PROVE  IInv'
<1>t. TypeOK /\ b \in Batch
  BY DEF IInv, TypeOK
<1>u. UNCHANGED <<ledger, db, past, operations, acknowledged, refused>>
  BY DEF D1Abort, D1FenceMissed
<1>b. /\ b.permit = ledger.pending /\ ledger.pending # NoPermit
      /\ Unreached
      /\ sent' = {}
      /\ \A w \in Worker : ~Holder(w)
  BY DEF IInv, TokenInv, D1Abort, D1FenceMissed
<1>r. \A w \in Worker :
        /\ req'[w].permit = req[w].permit
        /\ req'[w].operation = req[w].operation
        /\ req'[w].phase = req[w].phase
        /\ \/ req'[w].pc = req[w].pc /\ req'[w].outcome = req[w].outcome
           \/ /\ req[w].pc = "await" /\ req[w].permit = b.permit
              /\ b.kind = "business"
              /\ req'[w].pc = "settle" /\ req'[w].outcome = "aborted"
           \/ /\ req[w].pc = "fencing" /\ req[w].permit = b.permit
              /\ b.kind # "business"
              /\ req'[w].pc = "resettle" /\ req'[w].outcome = req[w].outcome
  <2>1. CASE D1Abort(b)
    BY <1>t, <2>1, AnswerFacts DEF D1Abort
  <2>2. CASE D1FenceMissed(b)
    BY <1>t, <2>2, AnswerFacts DEF D1FenceMissed
  <2> QED
    BY <2>1, <2>2
<1>1. StoreInv'
  BY <1>u DEF IInv, StoreInv
<1>2. TokenInv'
  <2>1. \A w \in Worker : Holder(w)' =>
          /\ req[w].pc = "await" /\ req[w].permit = ledger.pending /\ Running(w)
          /\ req'[w].permit = ledger'.pending
    BY <1>b, <1>r, <1>u DEF Holder, Running
  <2>2. \A w \in Worker : Running(w)' => Running(w)
    BY <1>r DEF Running
  <2>3. Unreached'
    BY <1>b, <1>u DEF Unreached
  <2>4. \A v, x \in Worker :
          /\ Running(v)' \/ Holder(v)'
          /\ Running(x)' \/ Holder(x)'
          /\ req'[v].permit = req'[x].permit
          => v = x
    BY <1>r, <2>1, <2>2 DEF IInv, TokenInv
  <2>5. \A v, x \in Worker : Holder(v)' /\ Holder(x)' => v = x
    BY <1>r, <2>1, <2>4
  <2> QED
    BY <1>b, <1>u, <2>1, <2>3, <2>4, <2>5 DEF TokenInv
<1>3. FreshInv'
  BY <1>r, <1>u DEF IInv, FreshInv, Asking
<1>4. PermitInv'
  BY <1>r, <1>u DEF IInv, PermitInv, Done, Reached
<1>5. OutcomeInv'
  BY <1>r DEF IInv, OutcomeInv
<1>6. AckInv'
  BY <1>u DEF IInv, AckInv
<1>7. RefusalInv'
  <2>1. \A w \in Worker : req'[w].pc \in {"read", "begin", "submit"} =>
          /\ req[w].pc \in {"read", "begin", "submit"}
          /\ req'[w].operation = req[w].operation
    BY <1>r
  <2>2. ASSUME NEW o, Dead(o) PROVE Dead(o)'
    BY <1>b, <1>u, <2>1, <2>2 DEF Dead, NotStored
  <2>3. ASSUME NEW w \in Worker, req[w].pc = "await", req[w].permit = b.permit,
               b.kind = "business"
        PROVE  Dead(req[w].operation)'
    <3>1. b.permit.operation = req[w].operation
      BY <2>3 DEF IInv, PermitInv
    <3>2. NotStored(req[w].operation)
      BY <2>3, <3>1 DEF IInv, RefusalInv
    <3>3. \A v \in Worker : req[v].pc # "submit"
      BY <1>b DEF Holder
    <3>4. \A v \in Worker : req[v].pc \in {"read", "begin", "submit"} =>
            req[v].operation # req[w].operation
      BY <1>b, <3>1, <3>3 DEF IInv, FreshInv, Asking
    <3>5. req[w].operation <= operations
      BY DEF IInv, FreshInv
    <3> QED
      BY <1>b, <1>r, <1>u, <2>1, <3>2, <3>4, <3>5 DEF Dead, NotStored
  <2>4. \A w \in Worker : req'[w].outcome = "aborted" => Dead(req[w].operation)'
    <3> SUFFICES ASSUME NEW w \in Worker, req'[w].outcome = "aborted"
                 PROVE  Dead(req[w].operation)'
      OBVIOUS
    <3>1. CASE req[w].outcome = "aborted"
      <4>1. Dead(req[w].operation) /\ req'[w].operation = req[w].operation
        BY <1>r, <3>1 DEF IInv, RefusalInv
      <4> QED
        BY <2>2, <4>1 DEF Dead, NotStored
    <3>2. CASE req[w].outcome # "aborted"
      BY <1>r, <2>3, <3>2
    <3> QED
      BY <3>1, <3>2
  <2>5. \A w \in Worker : req'[w].pc \in {"read", "begin", "submit"}
                          => NotStored(req[w].operation)'
    BY <1>u, <2>1 DEF IInv, RefusalInv, NotStored
  <2>6. \A o \in refused' : Dead(o)'
    BY <1>u, <2>2 DEF IInv, RefusalInv
  <2> QED
    BY <1>b, <1>u, <2>4, <2>5, <2>6 DEF IInv, RefusalInv
<1> QED
  BY <1>1, <1>2, <1>3, <1>4, <1>5, <1>6, <1>7 DEF IInv

-----------------------------------------------------------------------------
(* The inductive invariant: the environment.                               *)

\* Operator steps, crashes and restores of D1 keep the inductive invariant.
LEMMA EnvironmentPreserves ==
    ASSUME IInv, TypeOK',
           UNCHANGED <<past, sent, req, operations, acknowledged, refused>>,
           db' \in past,
           ledger'.checkpoint = ledger.checkpoint,
           ledger'.pending = ledger.pending
    PROVE  IInv'
<1>1. StoreInv'
  BY DEF IInv, StoreInv
<1>2. TokenInv'
  BY DEF IInv, TokenInv, Holder, Running, Unreached
<1>3. FreshInv'
  BY DEF IInv, FreshInv, Asking
<1>4. PermitInv'
  BY DEF IInv, PermitInv, Done, Reached
<1>5. OutcomeInv'
  BY DEF IInv, OutcomeInv
<1>6. AckInv'
  BY DEF IInv, AckInv
<1>7. RefusalInv'
  BY DEF IInv, RefusalInv, Dead, NotStored
<1> QED
  BY <1>1, <1>2, <1>3, <1>4, <1>5, <1>6, <1>7 DEF IInv

-----------------------------------------------------------------------------
(* The invariant.                                                          *)

\* The enrolled authority starts in the inductive invariant.
LEMMA InitIInv == Init => IInv
<1> SUFFICES ASSUME Init PROVE IInv
  OBVIOUS
<1>1. TypeOK
  BY InitTypeOK
<1>2. \A w \in Worker : /\ req[w].pc = "idle" /\ req[w].operation = 0
                        /\ req[w].permit = NoPermit /\ req[w].phase = "first"
                        /\ req[w].outcome = "none"
  BY DEF Init, Idle
<1>3. StoreInv
  BY DEF Init, StoreInv, Genesis
<1>4. TokenInv
  BY <1>2 DEF Init, TokenInv, Holder, Running
<1>5. FreshInv
  BY <1>2 DEF Init, FreshInv, Asking, NoPermit
<1>6. PermitInv /\ OutcomeInv
  BY <1>2 DEF PermitInv, OutcomeInv
<1>7. AckInv /\ RefusalInv
  BY <1>2 DEF Init, AckInv, RefusalInv
<1> QED
  BY <1>1, <1>3, <1>4, <1>5, <1>6, <1>7 DEF IInv

\* Every step of the OP, the Durable Object, D1 and the environment keeps
\* the inductive invariant.
LEMMA NextIInv == IInv /\ [Next]_vars => IInv'
<1> SUFFICES ASSUME IInv, [Next]_vars PROVE IInv'
  OBVIOUS
<1>t. TypeOK /\ TypeOK'
  BY NextTypeOK DEF IInv
<1>1. ASSUME NEW w \in Worker,
             StartBatch(w) \/ StartReconcile(w) \/ StartCheck(w)
      PROVE  IInv'
  BY <1>1, <1>t, QuietSteps, QuietPreserves
<1>2. ASSUME NEW w \in Worker, RequestStep(w) \/ LostReply(w) \/ Crash(w)
      PROVE  IInv'
  <2>1. CASE Begin(w) \/ BeginReplyLost(w)
    BY <1>t, <2>1, BeginPreserves
  <2>2. CASE Submit(w) \/ SettleFence(w)
    BY <1>t, <2>2, SendPreserves
  <2>3. CASE Commit(w) \/ CommitReplyLost(w)
    BY <1>t, <2>3, CommitPreserves
  <2>4. CASE Return(w)
    BY <1>t, <2>4, ReturnPreserves
  <2>5. CASE \/ ReadPrimary(w) \/ BeginRefused(w)
             \/ RecoverPending(w) \/ RecoverNothing(w)
             \/ SettleQuarantine(w) \/ SettleReached(w) \/ SettleMismatch(w)
             \/ CommitRefused(w) \/ Observe(w) \/ StatusAccepted(w)
             \/ StatusRefused(w) \/ BatchReplyLost(w) \/ Crash(w)
    BY <1>t, <2>5, QuietSteps, QuietPreserves
  <2> QED
    BY <1>2, <2>1, <2>2, <2>3, <2>4, <2>5 DEF RequestStep, LostReply
<1>3. ASSUME NEW b \in sent, D1Step(b) PROVE IInv'
  BY <1>3, <1>t, ApplyPreserves, MissPreserves DEF D1Step
<1>4. ASSUME NEW d \in past, Restore(d) PROVE IInv'
  BY <1>4, <1>t, EnvironmentPreserves DEF Restore
<1>5. ASSUME NEW v \in 1..MaxFloor, RaiseFloor(v) PROVE IInv'
  <2>1. db \in past /\ ledger'.checkpoint = ledger.checkpoint
        /\ ledger'.pending = ledger.pending
    BY <1>5, <1>t DEF RaiseFloor, IInv, StoreInv, TypeOK, Ledger
  <2> QED
    BY <1>5, <1>t, <2>1, EnvironmentPreserves DEF RaiseFloor
<1>6. CASE Freeze
  <2>1. db \in past /\ ledger'.checkpoint = ledger.checkpoint
        /\ ledger'.pending = ledger.pending
    BY <1>6, <1>t DEF Freeze, IInv, StoreInv, TypeOK, Ledger
  <2> QED
    BY <1>6, <1>t, <2>1, EnvironmentPreserves DEF Freeze
<1>7. CASE UNCHANGED vars
  BY <1>7, <1>t, EnvironmentPreserves DEF vars, IInv, StoreInv
<1> QED
  BY <1>1, <1>2, <1>3, <1>4, <1>5, <1>6, <1>7 DEF Next

\* The inductive invariant holds in every reachable state.
LEMMA Invariance == Spec => []IInv
  BY InitIInv, NextIInv, PTL DEF Spec

-----------------------------------------------------------------------------
(* The properties, for every number of requests, faults and operations.    *)

\* Equal markers mean equal authority: settlement fences and late batches of
\* checkpoint_batch never give one marker two contents.
THEOREM OneContent == Spec => []OneContentPerMarker
<1>1. IInv => OneContentPerMarker
  BY DEF IInv, StoreInv, OneContentPerMarker
<1> QED
  BY <1>1, Invariance, PTL

\* A database that passes current_authority_checkpoint() lacks no batch that
\* ever committed: every rollback of D1 is noticed.
THEOREM RollbackDetected == Spec => []AcceptedIsComplete
<1>1. IInv => AcceptedIsComplete
  <2> SUFFICES ASSUME IInv, NEW s \in past, NEW t \in past, Accepts(s.marker)
               PROVE  t.rows \subseteq s.rows
    BY DEF AcceptedIsComplete
  <2>1. ledger.pending = NoPermit /\ s.marker = ledger.checkpoint
    BY DEF Accepts
  <2>2. t.marker.sequence <= s.marker.sequence
    BY <2>1 DEF IInv, StoreInv
  <2> QED
    BY <2>2 DEF IInv, StoreInv
<1> QED
  BY <1>1, Invariance, PTL

\* The ledger publishes only what D1 committed, whichever worker settles, and
\* no acknowledgement of checkpoint_batch precedes publication.
THEOREM AcknowledgedPublished == Spec => []AcknowledgedIsPublished
<1>1. IInv => AcknowledgedIsPublished
  <2> SUFFICES ASSUME IInv PROVE AcknowledgedIsPublished
    OBVIOUS
  <2>1. PICK s \in past : s.marker = ledger.checkpoint
    BY DEF IInv, StoreInv
  <2>2. \A o \in acknowledged : o \in s.rows
    BY <2>1 DEF IInv, StoreInv, AckInv
  <2> QED
    BY <2>1, <2>2 DEF AcknowledgedIsPublished
<1> QED
  BY <1>1, Invariance, PTL

\* A batch answered with a definitive abort is never in any state of D1.
THEOREM RefusalIsFinal == Spec => []RefusedNeverApplied
<1>1. IInv => RefusedNeverApplied
  BY DEF IInv, RefusalInv, Dead, NotStored, RefusedNeverApplied
<1> QED
  BY <1>1, Invariance, PTL

\* D1 is never ahead of the permit the ledger issued: checkpoint_batch asks
\* for the permit before it commits.
THEOREM PermitFirst == Spec => []WriteAhead
<1>1. IInv => WriteAhead
  BY DEF IInv, StoreInv, WriteAhead
<1> QED
  BY <1>1, Invariance, PTL

-----------------------------------------------------------------------------
(* The protocol implements AuthorityHistory.                               *)

\* Who passes the currency check reads what is published, and nothing is
\* decided beyond that.
LEMMA VisibleIsPublished ==
    IInv => (visible = {} \/ (visible = {published} /\ decided = published))
<1> SUFFICES ASSUME IInv, Accepts(db.marker)
             PROVE  db.rows = published /\ decided = published
  BY DEF visible
<1>1. /\ db \in past
      /\ \A s \in past : s.marker.sequence <= ledger.checkpoint.sequence
      /\ db.marker = ledger.checkpoint
  BY DEF IInv, StoreInv, Accepts
<1>2. ledger.checkpoint.sequence <= ledger.checkpoint.sequence
  BY <1>1
<1>3. \A s \in past : s.rows \subseteq db.rows
  BY <1>1 DEF IInv, StoreInv
<1>4. decided = db.rows
  BY <1>1, <1>3 DEF decided
<1>5. {t \in past : t.marker.sequence <= ledger.checkpoint.sequence} = past
  BY <1>1
<1> QED
  BY <1>4, <1>5 DEF published, decided

\* A step that leaves the committed states, the published checkpoint and the
\* acknowledgements alone only changes availability.
LEMMA StoresUnchanged ==
    ASSUME UNCHANGED past, ledger'.checkpoint = ledger.checkpoint,
           UNCHANGED acknowledged,
           (visible = {} \/ (visible = {published} /\ decided = published))'
    PROVE  History!Availability
<1>1. UNCHANGED <<decided, published>>
  BY DEF decided, published
<1> QED
  BY <1>1 DEF History!Availability

\* Every step of the protocol is a step of AuthorityHistory or a stutter.
LEMMA StepRefines == IInv /\ IInv' /\ [Next]_vars => [History!Next]_History!vars
<1> SUFFICES ASSUME IInv, IInv', [Next]_vars PROVE [History!Next]_History!vars
  OBVIOUS
<1> DEFINE Seen == visible = {} \/ (visible = {published} /\ decided = published)
<1>v. Seen /\ Seen'
  BY VisibleIsPublished, PTL
<1> HIDE DEF Seen
<1>t. TypeOK
  BY DEF IInv
<1>q. ASSUME UNCHANGED past, ledger'.checkpoint = ledger.checkpoint,
             UNCHANGED acknowledged
      PROVE  History!Next
  BY <1>q, <1>v, StoresUnchanged DEF Seen, History!Next
<1>1. ASSUME NEW w \in Worker,
             StartBatch(w) \/ StartReconcile(w) \/ StartCheck(w)
      PROVE  History!Next
  BY <1>1, <1>q DEF StartBatch, StartReconcile, StartCheck, Draw, Local
<1>2. ASSUME NEW w \in Worker, Begin(w) \/ BeginReplyLost(w)
      PROVE  History!Next
  BY <1>2, <1>q, BeginEffect DEF Begin, BeginReplyLost
<1>3. ASSUME NEW w \in Worker, Commit(w) \/ CommitReplyLost(w)
      PROVE  History!Next
  <2>1. UNCHANGED <<past, acknowledged>> /\ ledger'.pending = NoPermit
    BY <1>3, <1>t DEF Commit, CommitReplyLost, DOCommit, TypeOK, Ledger
  <2>2. \A s \in past : s.marker.sequence <= ledger'.checkpoint.sequence
    BY <2>1 DEF IInv, StoreInv
  <2>3. {t \in past' : t.marker.sequence <= ledger'.checkpoint.sequence} = past
    BY <2>1, <2>2
  <2>4. published' = decided /\ UNCHANGED decided
    BY <2>1, <2>3 DEF published, decided
  <2> QED
    BY <1>v, <2>1, <2>4 DEF Seen, History!Next, History!Publish
<1>4. ASSUME NEW w \in Worker, Return(w) PROVE [History!Next]_History!vars
  <2>1. UNCHANGED <<ledger, db, past>>
    BY <1>4 DEF Return
  <2>2. UNCHANGED <<decided, published, visible>>
    BY <2>1 DEF decided, published, visible, Accepts, Current
  <2>3. CASE req[w].outcome = "committed"
    <3>1. acknowledged' = acknowledged \cup {req[w].operation}
      BY <1>4, <2>3 DEF Return
    <3>2. \E s \in past : /\ s.marker.sequence <= ledger.checkpoint.sequence
                          /\ req[w].operation \in s.rows
      BY <1>4, <2>3 DEF Return, IInv, PermitInv, Done
    <3>3. req[w].operation \in published
      BY <3>2 DEF published
    <3> QED
      BY <2>2, <3>1, <3>3 DEF History!Next, History!Acknowledge
  <2>4. CASE req[w].outcome # "committed"
    BY <1>4, <2>2, <2>4 DEF Return, History!vars
  <2> QED
    BY <2>3, <2>4
<1>5. ASSUME NEW w \in Worker,
             \/ ReadPrimary(w) \/ BeginRefused(w)
             \/ RecoverPending(w) \/ RecoverNothing(w)
             \/ Submit(w) \/ SettleFence(w) \/ SettleQuarantine(w)
             \/ SettleReached(w) \/ SettleMismatch(w)
             \/ CommitRefused(w) \/ Observe(w) \/ StatusAccepted(w)
             \/ StatusRefused(w) \/ BatchReplyLost(w) \/ Crash(w)
      PROVE  History!Next
  BY <1>5, <1>q
     DEF ReadPrimary, BeginRefused, RecoverPending, RecoverNothing, Submit,
         SettleFence, SettleQuarantine, SettleReached, SettleMismatch,
         CommitRefused, Observe, StatusAccepted, StatusRefused,
         BatchReplyLost, Crash, Local, Draw
<1>6. ASSUME NEW b \in sent, D1Apply(b) PROVE [History!Next]_History!vars
  <2> DEFINE d == Applied(b)
  <2>1. /\ b.permit = ledger.pending /\ ledger.pending # NoPermit /\ Unreached
    BY DEF IInv, TokenInv
  <2>2. /\ past' = past \cup {d} /\ UNCHANGED <<ledger, acknowledged>>
        /\ d.marker.sequence = ledger.checkpoint.sequence + 1
        /\ d.rows = IF b.kind = "business"
                    THEN db.rows \cup {ledger.pending.operation} ELSE db.rows
    BY <1>6, <2>1 DEF D1Apply, Store, Applied, IInv, StoreInv
  <2> HIDE DEF d
  <2>3. visible = {} /\ visible' = {}
    BY <2>1, <2>2 DEF visible, Accepts
  <2>4. ledger.checkpoint.sequence \in Nat
    BY <1>t DEF TypeOK, Ledger, Checkpoint
  <2>5. /\ {t \in past : t.marker.sequence <= ledger.checkpoint.sequence} = past
        /\ {t \in past' : t.marker.sequence <= ledger'.checkpoint.sequence} = past
    BY <2>1, <2>2, <2>4 DEF Unreached
  <2>6. published = decided /\ UNCHANGED published
    BY <2>5 DEF published, decided
  <2>7. decided' = decided \cup d.rows
    BY <2>2 DEF decided
  <2>8. db.rows \subseteq decided
    BY DEF IInv, StoreInv, decided
  <2>9. CASE b.kind = "business"
    <3>1. decided' = decided \cup {ledger.pending.operation}
      BY <2>2, <2>7, <2>8, <2>9
    <3>2. ledger.pending.operation \in decided'
      BY <3>1
    <3> QED
      BY <2>2, <2>3, <2>6, <3>1, <3>2 DEF History!Next, History!Decide
  <2>10. CASE b.kind # "business"
    <3>1. decided' = decided
      BY <2>2, <2>7, <2>8, <2>10
    <3> QED
      BY <2>2, <2>3, <2>6, <3>1 DEF History!vars
  <2> QED
    BY <2>9, <2>10
<1>7. ASSUME NEW b \in sent, D1Abort(b) \/ D1FenceMissed(b)
      PROVE  History!Next
  BY <1>7, <1>q DEF D1Abort, D1FenceMissed
<1>8. ASSUME NEW d \in past, Restore(d) PROVE History!Next
  BY <1>8, <1>q DEF Restore
<1>9. ASSUME NEW v \in 1..MaxFloor, RaiseFloor(v) PROVE History!Next
  BY <1>9, <1>q, <1>t DEF RaiseFloor, TypeOK, Ledger
<1>10. CASE Freeze
  BY <1>10, <1>q, <1>t DEF Freeze, TypeOK, Ledger
<1>11. CASE UNCHANGED vars
  BY <1>11, <1>q DEF vars
<1> QED
  BY <1>1, <1>2, <1>3, <1>4, <1>5, <1>6, <1>7, <1>8, <1>9, <1>10, <1>11
     DEF Next, RequestStep, LostReply, D1Step

\* The checkpoint protocol of checkpoint.rs and worker.ts implements the
\* abstract history: whatever is lost, late, crashed or restored, there is one
\* line of decisions and a passed currency check shows all of it.
THEOREM Refinement == Spec => ImplementsHistory
<1>1. Init => History!Init
  <2> SUFFICES ASSUME Init PROVE History!Init
    OBVIOUS
  <2>1. decided = {} /\ published = {}
    BY DEF Init, decided, published
  <2>2. Accepts(db.marker) /\ db.rows = {}
    BY DEF Init, Accepts, Current, RELEASE
  <2>3. visible = {{}}
    BY <2>2 DEF visible
  <2> QED
    BY <2>1, <2>3 DEF History!Init, Init
<1> QED
  BY <1>1, StepRefines, Invariance, PTL DEF Spec, ImplementsHistory, History!Spec

=============================================================================
