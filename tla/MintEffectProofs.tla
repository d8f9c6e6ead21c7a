-------------------------- MODULE MintEffectProofs --------------------------
(***************************************************************************)
(* Safety of the mint effect for any number of concurrent gates,           *)
(* reconcilers and closers.                                                *)
(*                                                                         *)
(* The argument: only the call whose claim created the record may talk to  *)
(* createToken, and it does so once (StartedOnce).  A token that exists    *)
(* never becomes unknown again and a dead one stays dead, so what a call   *)
(* learned about it is still true when the call acts on it, whatever ran   *)
(* in between (CallInv).  The ledger's record only gains evidence, so a    *)
(* record that a call read earlier is covered by the current one.          *)
(***************************************************************************)
EXTENDS MintEffect, TLAPS

Dead == token \in {"revoked", "expired", "absent"}

\* Where a call holds the right to create the token.
Started == {"before", "create"}

\* What a row of D1 claims about its closure, and that a sealed secret was
\* sealed with a key.
RowInv(row) ==
    /\ row.receipt = "gate" => ledger.state = "closed" /\ ledger.receipt
    /\ row.receipt = "refusal" => ledger.state = "closed" /\ ledger.refusal
    /\ row.envelope => row.key_version

\* A record l the ledger may hold in the present state of the other stores.
Sound(l) ==
    /\ l.state = "absent" => created = 0
    /\ l.cleanup_requested => l.state # "custodied"
    /\ l.state = "closed" => l.receipt \/ l.refusal
    /\ l.revoke_acknowledged \/ l.cleanup # "none" \/ l.state = "closed" => Dead
    /\ l.state = "custodied" => restored \/ HoldsCustody(native, "good")

\* What a call knows at each of its steps.
CallInv(c) ==
    /\ c.returned => token # "none"
    /\ c.pc \in Started => created = 0 /\ ledger.state # "absent"
    /\ c.pc \in {"revoke", "revoked", "probe", "inventory", "close"}
         => token # "none"
    /\ c.pc \in {"revoked", "inventory", "close", "revoked_id", "relist",
                 "info", "record"} => Dead
    /\ c.pc = "capture" => c.observed = "good"
    /\ c.pc = "custody" => restored \/ HoldsCustody(native, "good")
    /\ c.rec.state = "closed" =>
         /\ ledger.state = "closed"
         /\ c.rec.refusal => ledger.refusal
         /\ ~c.rec.refusal => ledger.receipt

StoreInv ==
    /\ created = 0 <=> token = "none"
    /\ created <= 1
    /\ Sound(ledger)
    /\ native \in past
    /\ \A row \in past : RowInv(row)

StartedOnce ==
    \A a, b \in Actor :
        actor[a].pc \in Started /\ actor[b].pc \in Started => a = b

IInv ==
    /\ TypeOK
    /\ StoreInv
    /\ \A a \in Actor : CallInv(actor[a])
    /\ StartedOnce

Pc == {"idle"} \cup GateStep \cup ReconcilerStep \cup CloserStep

\* Steps at which a call relies on nothing.
Plain == Pc \ ({"before", "create", "revoke", "revoked", "probe", "inventory",
                "close", "revoked_id", "relist", "info", "record", "capture",
                "custody"})

-----------------------------------------------------------------------------
(* Records.                                                                *)

LEMMA IdleType ==
    /\ Idle \in Call
    /\ Idle.pc = "idle" /\ Idle.rec = NoRecord /\ ~Idle.returned
    /\ NoRecord \in Record /\ NoRecord.state = "absent"
  BY DEF Idle, Call, NoRecord, Record, Observation, Evidence, GateStep,
         ReconcilerStep, CloserStep

\* Continue(a, pc) keeps all but the place.
LEMMA ContinueCall ==
    ASSUME TypeOK, NEW a \in Actor, NEW pc \in Pc, Continue(a, pc)
    PROVE  \E r \in Call :
              /\ Goto(a, r)
              /\ r.pc = pc
              /\ r.rec = actor[a].rec /\ r.returned = actor[a].returned
              /\ r.observed = actor[a].observed
  <1> DEFINE r == [actor[a] EXCEPT !.pc = pc]
  <1>1. actor[a] \in Call
    BY DEF TypeOK
  <1>2. /\ r \in Call /\ r.pc = pc /\ r.rec = actor[a].rec
        /\ r.returned = actor[a].returned /\ r.observed = actor[a].observed
    BY <1>1 DEF Call, Pc
  <1> QED
    BY <1>2 DEF Continue

\* A call that synchronizes, or returns, holds the record or nothing.
LEMMA SynchronizeCall ==
    ASSUME NEW a \in Actor, NEW l \in Record, Synchronize(a, l)
    PROVE  \E r \in Call :
              /\ Goto(a, r)
              /\ r.pc \in {"sync", "idle"}
              /\ ~r.returned
              /\ r.rec = l \/ r.rec.state = "absent"
  <1> DEFINE r == [Idle EXCEPT !.pc = "sync", !.rec = l]
  <1>1. r \in Call /\ r.pc = "sync" /\ ~r.returned /\ r.rec = l
    BY IdleType DEF Call, Idle, Observation, Evidence, ReconcilerStep
  <1>2. CASE Goto(a, r)
    BY <1>1, <1>2
  <1>3. CASE Goto(a, Idle)
    BY <1>3, IdleType
  <1> QED
    BY <1>2, <1>3 DEF Synchronize, Return

\* The ledger's handlers store records.
LEMMA LedgerTypes ==
    ASSUME NEW l \in Record, NEW o \in Observation, NEW m \in Evidence
    PROVE  /\ Claimed(l) \in Record /\ Observed(l, o) \in Record
           /\ Custodied(l) \in Record /\ Revoked(l) \in Record
           /\ Closed(l) \in Record /\ Begun(l) \in Record
           /\ Recorded(l, m) \in Record /\ Refused(l) \in Record
  BY DEF Claimed, Observed, Custodied, Revoked, Closed, Begun, Recorded,
         Refused, Record

-----------------------------------------------------------------------------
(* Steps that change one store and one call.                               *)

\* What may happen to the ledger's record.
Grows(l) ==
    /\ ledger.state # "absent" => l.state # "absent"
    /\ ledger.state = "closed" => l.state = "closed"
    /\ ledger.receipt => l.receipt
    /\ ledger.refusal => l.refusal

LEMMA GotoOthers ==
    ASSUME TypeOK, NEW a \in Actor, NEW r \in Call, Goto(a, r)
    PROVE  /\ actor' \in [Actor -> Call]
           /\ actor'[a] = r
           /\ \A b \in Actor \ {a} : actor'[b] = actor[b]
  BY DEF TypeOK, Goto

LEMMA LedgerPreserves ==
    ASSUME IInv, NEW a \in Actor, NEW r \in Call, NEW l \in Record,
           ledger' = l, Goto(a, r), UNCHANGED ledgerOnly,
           Grows(l), Sound(l), CallInv(r)',
           r.pc \in Started =>
              \A b \in Actor \ {a} : actor[b].pc \notin Started
    PROVE  IInv'
  <1> USE GotoOthers DEF ledgerOnly
  <1>1. TypeOK'
    BY DEF IInv, TypeOK
  <1>2. StoreInv'
    <2>1. Sound(ledger)'
      BY DEF Sound, Dead, HoldsCustody
    <2>2. ASSUME NEW row \in past PROVE RowInv(row)'
      BY DEF IInv, StoreInv, RowInv, Grows
    <2> QED
      BY <2>1, <2>2 DEF IInv, StoreInv
  <1>3. ASSUME NEW b \in Actor PROVE CallInv(actor[b])'
    <2>1. CASE b = a
      BY <2>1 DEF IInv, CallInv, Dead, HoldsCustody
    <2>2. CASE b # a
      <3>1. CallInv(actor[b]) /\ actor'[b] = actor[b]
        BY <2>2 DEF IInv
      <3> QED
        BY <3>1 DEF CallInv, Grows, Dead, HoldsCustody
    <2> QED
      BY <2>1, <2>2
  <1>4. StartedOnce'
    BY DEF IInv, StartedOnce
  <1> QED
    BY <1>1, <1>2, <1>3, <1>4 DEF IInv

LEMMA QuietPreserves ==
    ASSUME IInv, NEW a \in Actor, NEW r \in Call, Goto(a, r),
           UNCHANGED stores, CallInv(r)',
           r.pc \in Started =>
              \A b \in Actor \ {a} : actor[b].pc \notin Started
    PROVE  IInv'
  <1>1. ledger \in Record /\ Grows(ledger) /\ Sound(ledger)
    BY DEF IInv, TypeOK, StoreInv, Grows
  <1> QED
    BY <1>1, LedgerPreserves DEF stores, ledgerOnly

LEMMA NativePreserves ==
    ASSUME IInv, NEW a \in Actor, NEW r \in Call, Goto(a, r),
           UNCHANGED nativeOnly, native' \in Row, past' \subseteq Row,
           native' \in past', \A row \in past' : RowInv(row),
           HoldsCustody(native, "good") => HoldsCustody(native', "good"),
           CallInv(r)', r.pc \notin Started
    PROVE  IInv'
  <1> USE GotoOthers DEF nativeOnly
  <1>1. TypeOK'
    BY DEF IInv, TypeOK
  <1>2. StoreInv'
    <2>1. Sound(ledger)'
      BY DEF IInv, StoreInv, Sound, Dead, HoldsCustody
    <2>2. ASSUME NEW row \in past' PROVE RowInv(row)'
      BY DEF RowInv
    <2> QED
      BY <2>1, <2>2 DEF IInv, StoreInv
  <1>3. ASSUME NEW b \in Actor PROVE CallInv(actor[b])'
    <2>1. CASE b = a
      BY <2>1 DEF IInv, CallInv, Dead, HoldsCustody
    <2>2. CASE b # a
      <3>1. CallInv(actor[b]) /\ actor'[b] = actor[b]
        BY <2>2 DEF IInv
      <3> QED
        BY <3>1 DEF CallInv, Dead, HoldsCustody
    <2> QED
      BY <2>1, <2>2
  <1>4. StartedOnce'
    BY DEF IInv, StartedOnce
  <1> QED
    BY <1>1, <1>2, <1>3, <1>4 DEF IInv

\* A step of the provider: no token is created.
LEMMA TokenPreserves ==
    ASSUME IInv, NEW a \in Actor, NEW r \in Call, Goto(a, r),
           UNCHANGED tokenOnly,
           token' \in {token, "revoked"}, token # "none" \/ token' = token,
           CallInv(r)', r.pc \notin Started
    PROVE  IInv'
  <1> USE GotoOthers DEF tokenOnly
  <1>1. TypeOK'
    BY DEF IInv, TypeOK
  <1>2. StoreInv'
    <2>1. Sound(ledger)'
      BY DEF IInv, StoreInv, Sound, Dead, HoldsCustody
    <2>2. ASSUME NEW row \in past PROVE RowInv(row)'
      BY DEF IInv, StoreInv, RowInv
    <2> QED
      BY <2>1, <2>2 DEF IInv, StoreInv
  <1>3. ASSUME NEW b \in Actor PROVE CallInv(actor[b])'
    <2>1. CASE b = a
      BY <2>1 DEF IInv, CallInv, Dead, HoldsCustody
    <2>2. CASE b # a
      <3>1. CallInv(actor[b]) /\ actor'[b] = actor[b]
        BY <2>2 DEF IInv
      <3> QED
        BY <3>1 DEF CallInv, Dead, HoldsCustody
    <2> QED
      BY <2>1, <2>2
  <1>4. StartedOnce'
    BY DEF IInv, StartedOnce
  <1> QED
    BY <1>1, <1>2, <1>3, <1>4 DEF IInv

\* Going on to a step that relies on nothing, or returning.
LEMMA PlainCall ==
    ASSUME IInv, NEW a \in Actor, NEW r \in Call, r.pc \in Plain,
           r.rec = actor[a].rec, r.returned = actor[a].returned
    PROVE  CallInv(r) /\ r.pc \notin Started
  BY DEF IInv, CallInv, Plain, Started

LEMMA IdleInv == CallInv(Idle) /\ CallInv(Idle)' /\ Idle.pc \notin Started
  BY IdleType DEF CallInv, Started

LEMMA QuietReturn ==
    ASSUME IInv, NEW a \in Actor, Return(a), UNCHANGED stores
    PROVE  IInv'
  BY IdleType, IdleInv, QuietPreserves DEF Return

LEMMA QuietContinue ==
    ASSUME IInv, NEW a \in Actor, NEW pc \in Plain, Continue(a, pc),
           UNCHANGED stores
    PROVE  IInv'
  <1>1. PICK r \in Call : /\ Goto(a, r) /\ r.pc = pc
                          /\ r.rec = actor[a].rec
                          /\ r.returned = actor[a].returned
    BY ContinueCall DEF IInv, Plain
  <1>2. CallInv(r)' /\ r.pc \notin Started
    BY <1>1, PlainCall DEF CallInv, Dead, HoldsCustody, stores
  <1> QED
    BY <1>1, <1>2, QuietPreserves

\* Synchronizing from the ledger's own record.
LEMMA QuietSynchronize ==
    ASSUME IInv, NEW a \in Actor, Synchronize(a, ledger), UNCHANGED stores
    PROVE  IInv'
  <1>1. PICK r \in Call : /\ Goto(a, r) /\ r.pc \in {"sync", "idle"}
                          /\ ~r.returned
                          /\ r.rec = ledger \/ r.rec.state = "absent"
    BY SynchronizeCall DEF IInv, TypeOK
  <1>2. CallInv(r)' /\ r.pc \notin Started
    BY <1>1 DEF CallInv, Started, IInv, StoreInv, Sound, stores
  <1> QED
    BY <1>1, <1>2, QuietPreserves

\* A handler of the ledger after which the call goes on, synchronizes or ends.
LEMMA LedgerContinue ==
    ASSUME IInv, NEW a \in Actor, NEW pc \in Plain, Continue(a, pc),
           NEW l \in Record, ledger' = l, Grows(l), Sound(l),
           UNCHANGED ledgerOnly
    PROVE  IInv'
  <1>1. PICK r \in Call : /\ Goto(a, r) /\ r.pc = pc
                          /\ r.rec = actor[a].rec
                          /\ r.returned = actor[a].returned
    BY ContinueCall DEF IInv, Plain
  <1>2. CallInv(r)' /\ r.pc \notin Started
    BY <1>1, PlainCall DEF CallInv, Grows, Plain, Started, ledgerOnly
  <1> QED
    BY <1>1, <1>2, LedgerPreserves

LEMMA LedgerReturn ==
    ASSUME IInv, NEW a \in Actor, Return(a),
           NEW l \in Record, ledger' = l, Grows(l), Sound(l),
           UNCHANGED ledgerOnly
    PROVE  IInv'
  BY IdleType, IdleInv, LedgerPreserves DEF Return

LEMMA LedgerSynchronize ==
    ASSUME IInv, NEW a \in Actor, NEW l \in Record, Synchronize(a, l),
           ledger' = l, Grows(l), Sound(l), UNCHANGED ledgerOnly
    PROVE  IInv'
  <1>1. PICK r \in Call : /\ Goto(a, r) /\ r.pc \in {"sync", "idle"}
                          /\ ~r.returned
                          /\ r.rec = l \/ r.rec.state = "absent"
    BY SynchronizeCall
  <1>2. CallInv(r)' /\ r.pc \notin Started
    BY <1>1 DEF CallInv, Started, Sound
  <1> QED
    BY <1>1, <1>2, LedgerPreserves

-----------------------------------------------------------------------------
(* What the ledger's handlers store is sound and grows.                    *)

\* The fields that the handlers with more than one assignment leave.
LEMMA Fields ==
    ASSUME NEW l \in Record
    PROVE  /\ Revoked(l).state = "outcome_unknown"
           /\ Revoked(l).cleanup_requested
           /\ Revoked(l).receipt = l.receipt /\ Revoked(l).refusal = l.refusal
           /\ Closed(l).state = "closed" /\ Closed(l).receipt
           /\ Closed(l).refusal = l.refusal
           /\ Begun(l).state = "outcome_unknown"
           /\ Begun(l).revoke_acknowledged = l.revoke_acknowledged
           /\ Begun(l).cleanup = l.cleanup
           /\ Begun(l).receipt = l.receipt /\ Begun(l).refusal = l.refusal
           /\ Refused(l).state = "closed" /\ Refused(l).refusal
           /\ Refused(l).receipt = l.receipt
  BY DEF Revoked, Closed, Begun, Refused, Record

LEMMA Unchanged ==
    ASSUME IInv
    PROVE  ledger \in Record /\ Grows(ledger) /\ Sound(ledger)
  BY DEF IInv, TypeOK, StoreInv, Grows

LEMMA ClaimSound ==
    ASSUME IInv, ClaimStarts(ledger)
    PROVE  /\ Claimed(ledger) \in Record
           /\ Grows(Claimed(ledger)) /\ Sound(Claimed(ledger))
           /\ Claimed(ledger).state = "outcome_unknown"
  BY LedgerTypes DEF IInv, TypeOK, StoreInv, Grows, Sound, Claimed,
     ClaimStarts, Record, Evidence, Observation

LEMMA ObserveSound ==
    ASSUME IInv, NEW o \in Observation, CanObserve(ledger, o)
    PROVE  /\ Observed(ledger, o) \in Record
           /\ Grows(Observed(ledger, o)) /\ Sound(Observed(ledger, o))
  BY LedgerTypes DEF IInv, TypeOK, StoreInv, Grows, Sound, Observed,
     CanObserve, Record, Evidence, Observation

LEMMA CustodySound ==
    ASSUME IInv, CanCustody(ledger), restored \/ HoldsCustody(native, "good")
    PROVE  /\ Custodied(ledger) \in Record
           /\ Grows(Custodied(ledger)) /\ Sound(Custodied(ledger))
  BY LedgerTypes DEF IInv, TypeOK, StoreInv, Grows, Sound, Custodied,
     CanCustody, Record, Evidence, Observation

LEMMA RevokeSound ==
    ASSUME IInv, NEW s \in BOOLEAN, CanRevoke(ledger, s), Dead
    PROVE  /\ Revoked(ledger) \in Record
           /\ Grows(Revoked(ledger)) /\ Sound(Revoked(ledger))
           /\ Revoked(ledger).state = "outcome_unknown"
  BY LedgerTypes, Fields DEF IInv, TypeOK, StoreInv, Grows, Sound, CanRevoke,
     Evidence, Observation

LEMMA CloseSound ==
    ASSUME IInv, CanClose(ledger), Dead
    PROVE  /\ Closed(ledger) \in Record
           /\ Grows(Closed(ledger)) /\ Sound(Closed(ledger))
  BY LedgerTypes, Fields DEF IInv, TypeOK, StoreInv, Grows, Sound, CanClose,
     Evidence, Observation

LEMMA BeginSound ==
    ASSUME IInv, NEW p \in BOOLEAN, CanBegin(ledger, p)
    PROVE  /\ Begun(ledger) \in Record
           /\ Grows(Begun(ledger)) /\ Sound(Begun(ledger))
           /\ Begun(ledger).state = "outcome_unknown"
  BY LedgerTypes, Fields DEF IInv, TypeOK, StoreInv, Grows, Sound, CanBegin,
     Evidence, Observation

LEMMA RecordSound ==
    ASSUME IInv, NEW o \in Observation, NEW m \in Evidence,
           CanRecord(ledger, o, m), Dead
    PROVE  /\ Recorded(ledger, m) \in Record
           /\ Grows(Recorded(ledger, m)) /\ Sound(Recorded(ledger, m))
           /\ Recorded(ledger, m).state = "outcome_unknown"
  BY LedgerTypes DEF IInv, TypeOK, StoreInv, Grows, Sound, Recorded,
     CanRecord, Record, Evidence, Observation

LEMMA RefuseSound ==
    ASSUME IInv, NEW o \in Observation, CanRefuse(ledger, o)
    PROVE  /\ Refused(ledger) \in Record
           /\ Grows(Refused(ledger)) /\ Sound(Refused(ledger))
  BY LedgerTypes, Fields DEF IInv, TypeOK, StoreInv, Grows, Sound, CanRefuse,
     Evidence, Observation

-----------------------------------------------------------------------------
(* The gate, up to custody.                                                *)

\* Places a call may go on to without relying on anything.
LEMMA PlainPlaces ==
    {"plan", "claim", "observe", "verify", "abandon", "cleanup", "final",
     "sync", "fence", "begin", "list", "revoke_id", "sync_cleanup", "unseal",
     "check", "bearer", "recheck", "reseal", "refuse", "latest", "idle"}
       \subseteq Plain
  BY DEF Plain, Pc, GateStep, ReconcilerStep, CloserStep

LEMMA GateLookupStep ==
    ASSUME IInv, NEW g \in Actor, GateLookup(g) PROVE IInv'
  BY QuietContinue, QuietSynchronize, PlainPlaces DEF GateLookup

LEMMA GatePlanStep ==
    ASSUME IInv, NEW g \in Actor, GatePlan(g) PROVE IInv'
  <1> DEFINE row == [native EXCEPT !.state = "dispatched"]
  <1>1. native \in Row /\ RowInv(native) /\ native \in past
    BY DEF IInv, TypeOK, StoreInv
  <1>2. row \in Row /\ RowInv(row)
        /\ (HoldsCustody(native, "good") => HoldsCustody(row, "good"))
    BY <1>1 DEF Row, RowInv, HoldsCustody
  <1>3. native' = row /\ past' = past \cup {row} /\ UNCHANGED nativeOnly
    BY DEF GatePlan, Write
  <1> HIDE DEF row
  <1>4. /\ native' \in Row /\ past' \subseteq Row /\ native' \in past'
        /\ \A x \in past' : RowInv(x)
        /\ HoldsCustody(native, "good") => HoldsCustody(native', "good")
    BY <1>2, <1>3 DEF IInv, TypeOK, StoreInv
  <1>5. PICK r \in Call : Goto(g, r) /\ CallInv(r)' /\ r.pc \notin Started
    <2>1. CASE Continue(g, "claim")
      <3>1. PICK r \in Call : /\ Goto(g, r) /\ r.pc = "claim"
                              /\ r.rec = actor[g].rec
                              /\ r.returned = actor[g].returned
        BY <2>1, ContinueCall, PlainPlaces DEF IInv, Plain
      <3>2. CallInv(r) /\ r.pc \notin Started
        BY <3>1, PlainCall, PlainPlaces
      <3>3. CallInv(r)'
        BY <3>1, <3>2, <1>3 DEF CallInv, Started, nativeOnly
      <3> QED
        BY <3>1, <3>2, <3>3
    <2>2. CASE Return(g)
      BY <2>2, IdleType, IdleInv DEF Return
    <2> QED
      BY <2>1, <2>2 DEF GatePlan
  <1> QED
    BY <1>3, <1>4, <1>5, NativePreserves

LEMMA GateClaimStep ==
    ASSUME IInv, NEW g \in Actor, GateClaim(g) PROVE IInv'
  <1>1. CASE ClaimStarts(ledger)
    <2>1. /\ ledger' = Claimed(ledger) /\ UNCHANGED ledgerOnly
          /\ Continue(g, "before") \/ Return(g)
      BY <1>1 DEF GateClaim
    <2>2. CASE Continue(g, "before")
      <3>1. PICK r \in Call : /\ Goto(g, r) /\ r.pc = "before"
                              /\ r.rec = actor[g].rec
                              /\ r.returned = actor[g].returned
        BY <2>2, ContinueCall DEF IInv, Pc, GateStep
      <3>2. created = 0 /\ ledger.state = "absent"
        BY <1>1 DEF ClaimStarts, IInv, StoreInv, Sound
      <3>3. \A b \in Actor : actor[b].pc \notin Started
        BY <3>2 DEF IInv, CallInv
      <3>4. CallInv(r)'
        BY <3>1, <3>2, <2>1, <1>1, ClaimSound
           DEF IInv, CallInv, Started, ledgerOnly
      <3> QED
        BY <3>1, <3>3, <3>4, <2>1, <1>1, ClaimSound, LedgerPreserves
    <2>3. CASE Return(g)
      BY <1>1, <2>1, <2>3, ClaimSound, LedgerReturn
    <2> QED
      BY <2>1, <2>2, <2>3
  <1>2. CASE ~ClaimStarts(ledger)
    BY <1>2, QuietSynchronize DEF GateClaim, ledgerOnly, stores
  <1> QED
    BY <1>1, <1>2

LEMMA GateBeforeStep ==
    ASSUME IInv, NEW g \in Actor, GateBefore(g) PROVE IInv'
  <1>1. /\ At(g, "before") /\ Continue(g, "create") /\ UNCHANGED stores
    BY DEF GateBefore
  <1>2. PICK r \in Call : /\ Goto(g, r) /\ r.pc = "create"
                          /\ r.rec = actor[g].rec
                          /\ r.returned = actor[g].returned
    BY <1>1, ContinueCall DEF IInv, Pc, GateStep
  <1>3. CallInv(r)'
    BY <1>1, <1>2 DEF IInv, CallInv, Started, At, stores
  <1>4. \A b \in Actor \ {g} : actor[b].pc \notin Started
    BY <1>1 DEF IInv, StartedOnce, At, Started
  <1> QED
    BY <1>1, <1>2, <1>3, <1>4, QuietPreserves

LEMMA GateCreateStep ==
    ASSUME IInv, NEW g \in Actor, GateCreate(g) PROVE IInv'
  <1>1. /\ actor[g].pc = "create" /\ token' = "active"
        /\ created' = created + 1
        /\ UNCHANGED <<ledger, native, past, preparation, blocked, restored>>
    BY DEF GateCreate, At
  <1>2. created = 0 /\ token = "none" /\ ledger.state # "absent"
        /\ ~Dead
    BY <1>1 DEF IInv, CallInv, StoreInv, Started, Dead
  <1>3. PICK o \in Observation, plaintext \in BOOLEAN :
           Goto(g, [actor[g] EXCEPT !.pc = IF o = "none" THEN "abandon"
                                                         ELSE "observe",
                                    !.returned = plaintext, !.observed = o])
    BY DEF GateCreate
  <1>4. PICK r \in Call : /\ Goto(g, r) /\ r.pc \in {"abandon", "observe"}
                          /\ r.rec = actor[g].rec
    <2> DEFINE pc == IF o = "none" THEN "abandon" ELSE "observe"
               r == [actor[g] EXCEPT !.pc = pc, !.returned = plaintext,
                                     !.observed = o]
    <2>1. actor[g] \in Call /\ pc \in GateStep /\ pc \in {"abandon", "observe"}
      BY DEF IInv, TypeOK, GateStep
    <2>2. Goto(g, r)
      BY <1>3
    <2> HIDE DEF pc
    <2>3. r \in Call /\ r.pc = pc /\ r.rec = actor[g].rec
      BY <2>1 DEF Call
    <2> QED
      BY <2>1, <2>2, <2>3
  <1>5. /\ actor' \in [Actor -> Call] /\ actor'[g] = r
        /\ \A b \in Actor \ {g} : actor'[b] = actor[b]
    BY <1>4, GotoOthers DEF IInv
  <1>6. TypeOK'
    BY <1>1, <1>5 DEF IInv, TypeOK
  <1>7. StoreInv'
    <2>1. Sound(ledger)'
      BY <1>1, <1>2 DEF IInv, StoreInv, Sound, HoldsCustody
    <2>2. ASSUME NEW row \in past PROVE RowInv(row)'
      BY <1>1 DEF IInv, StoreInv, RowInv
    <2> QED
      BY <1>1, <1>2, <2>1, <2>2 DEF IInv, StoreInv
  <1>8. \A b \in Actor \ {g} : actor[b].pc \notin Started
    BY <1>1 DEF IInv, StartedOnce, Started
  <1>9. ASSUME NEW b \in Actor PROVE CallInv(actor[b])'
    <2>1. CASE b = g
      <3>1. actor[g].rec.state # "closed" \/
               /\ ledger.state = "closed"
               /\ actor[g].rec.refusal => ledger.refusal
               /\ ~actor[g].rec.refusal => ledger.receipt
        BY DEF IInv, CallInv
      <3> QED
        BY <2>1, <3>1, <1>1, <1>4, <1>5 DEF CallInv, Started
    <2>2. CASE b # g
      <3>1. /\ CallInv(actor[b]) /\ actor'[b] = actor[b]
            /\ actor[b].pc \notin Started
        BY <2>2, <1>5, <1>8 DEF IInv
      <3> QED
        BY <3>1, <1>1, <1>2 DEF CallInv, HoldsCustody
    <2> QED
      BY <2>1, <2>2
  <1>10. StartedOnce'
    BY <1>4, <1>5, <1>8 DEF StartedOnce, Started
  <1> QED
    BY <1>6, <1>7, <1>9, <1>10 DEF IInv

\* Rows written to D1, after which the call goes on plainly or ends.
LEMMA NativeWrites ==
    ASSUME IInv, NEW a \in Actor, UNCHANGED nativeOnly,
           NEW new \in SUBSET Row, past' = past \cup new,
           native' \in Row, native' \in past', \A x \in new : RowInv(x),
           HoldsCustody(native, "good") => HoldsCustody(native', "good"),
           (\E pc \in Plain : Continue(a, pc)) \/ Return(a)
    PROVE  IInv'
  <1>1. past' \subseteq Row /\ \A x \in past' : RowInv(x)
    BY DEF IInv, TypeOK, StoreInv
  <1>2. PICK r \in Call : Goto(a, r) /\ CallInv(r)' /\ r.pc \notin Started
    <2>1. ASSUME NEW pc \in Plain, Continue(a, pc)
          PROVE  \E r \in Call : Goto(a, r) /\ CallInv(r)' /\ r.pc \notin Started
      <3>1. PICK r \in Call : /\ Goto(a, r) /\ r.pc = pc
                              /\ r.rec = actor[a].rec
                              /\ r.returned = actor[a].returned
        BY <2>1, ContinueCall DEF IInv, Plain
      <3>2. CallInv(r) /\ r.pc \notin Started
        BY <3>1, PlainCall
      <3>3. CallInv(r)'
        BY <3>1, <3>2 DEF CallInv, Started, nativeOnly, Plain
      <3> QED
        BY <3>1, <3>2, <3>3
    <2>2. CASE Return(a)
      BY <2>2, IdleType, IdleInv DEF Return
    <2> QED
      BY <2>1, <2>2
  <1> QED
    BY <1>1, <1>2, NativePreserves

\* The rows the OP's operations store.
LEMMA RowsSound ==
    ASSUME IInv, NEW o \in Observation
    PROVE  /\ native \in Row /\ RowInv(native)
           /\ CanCapture(native, o) =>
                /\ Captured(native, o) \in Row
                /\ RowInv(Captured(native, o))
                /\ HoldsCustody(Captured(native, o), o)
                /\ HoldsCustody(native, "good")
                     => HoldsCustody(Captured(native, o), "good")
           /\ CanCleanup(native, o) =>
                /\ Cleaned(native, o) \in Row
                /\ RowInv(Cleaned(native, o))
                /\ HoldsCustody(native, "good")
                     => HoldsCustody(Cleaned(native, o), "good")
  <1>1. native \in Row /\ RowInv(native)
    BY DEF IInv, TypeOK, StoreInv
  <1>2. ASSUME CanCapture(native, o)
        PROVE  /\ Captured(native, o) \in Row
               /\ RowInv(Captured(native, o))
               /\ HoldsCustody(Captured(native, o), o)
               /\ HoldsCustody(native, "good")
                     => HoldsCustody(Captured(native, o), "good")
    <2>1. CASE native.observation # "none"
      BY <1>1, <1>2, <2>1 DEF CanCapture, Captured, HoldsCustody, RowInv
    <2>2. CASE native.observation = "none"
      <3> DEFINE state == CapturedState(native)
                 row == [native EXCEPT !.state = state, !.observation = o,
                                       !.envelope = TRUE, !.key_version = TRUE]
      <3>1. Captured(native, o) = row /\ state \in {"captured", "revocation_pending"}
        BY <2>2 DEF Captured, CapturedState
      <3> HIDE DEF state
      <3>2. /\ row \in Row /\ row.observation = o /\ row.envelope
            /\ row.key_version /\ row.receipt = native.receipt
        BY <1>1, <3>1 DEF Row
      <3> HIDE DEF row
      <3> QED
        BY <1>1, <2>2, <3>1, <3>2 DEF HoldsCustody, RowInv
    <2> QED
      BY <2>1, <2>2
  <1>3. ASSUME CanCleanup(native, o)
        PROVE  /\ Cleaned(native, o) \in Row
               /\ RowInv(Cleaned(native, o))
               /\ HoldsCustody(native, "good")
                     => HoldsCustody(Cleaned(native, o), "good")
    <2>1. /\ Cleaned(native, o) \in Row
          /\ Cleaned(native, o).observation = o
          /\ Cleaned(native, o).receipt = native.receipt
          /\ Cleaned(native, o).envelope = native.envelope
          /\ Cleaned(native, o).key_version = native.key_version
      BY <1>1 DEF Row, Cleaned
    <2> QED
      BY <1>1, <1>3, <2>1 DEF CanCleanup, HoldsCustody, RowInv
  <1> QED
    BY <1>1, <1>2, <1>3

LEMMA ConfirmSound ==
    ASSUME NEW row \in Row, NEW receipt \in {"gate", "refusal"}, RowInv(row)
    PROVE  LET closed == ConfirmedClosed(row, receipt) IN
           /\ closed \in Row
           /\ closed.receipt = receipt
           /\ ~closed.envelope
           /\ HoldsCustody(row, "good") => HoldsCustody(closed, "good")
  BY DEF ConfirmedClosed, Row, HoldsCustody

LEMMA GateObserveStep ==
    ASSUME IInv, NEW g \in Actor, GateObserve(g) PROVE IInv'
  <1>1. actor[g].observed \in Observation
    BY DEF IInv, TypeOK, Call
  <1> QED
    BY <1>1, ObserveSound, LedgerContinue, PlainPlaces DEF GateObserve

LEMMA GateVerifyStep ==
    ASSUME IInv, NEW g \in Actor, GateVerify(g) PROVE IInv'
  <1>1. /\ actor[g].observed = "good" /\ Continue(g, "capture")
        /\ UNCHANGED stores
    BY DEF GateVerify
  <1>2. PICK r \in Call : /\ Goto(g, r) /\ r.pc = "capture"
                          /\ r.rec = actor[g].rec
                          /\ r.returned = actor[g].returned
                          /\ r.observed = actor[g].observed
    BY <1>1, ContinueCall DEF IInv, Pc, GateStep
  <1>3. CallInv(r)' /\ r.pc \notin Started
    BY <1>1, <1>2 DEF IInv, CallInv, Started, stores
  <1> QED
    BY <1>1, <1>2, <1>3, QuietPreserves

LEMMA GateCaptureStep ==
    ASSUME IInv, NEW g \in Actor, GateCapture(g) PROVE IInv'
  <1> DEFINE row == Captured(native, actor[g].observed)
  <1>1. actor[g].observed = "good" /\ actor[g].observed \in Observation
    BY DEF GateCapture, At, IInv, CallInv, TypeOK, Call
  <1>2. /\ CanCapture(native, actor[g].observed)
        /\ native' = row /\ past' = past \cup {row} /\ UNCHANGED nativeOnly
    BY DEF GateCapture, Write
  <1>3. /\ row \in Row /\ RowInv(row) /\ HoldsCustody(row, "good")
    BY <1>1, <1>2, RowsSound
  <1> HIDE DEF row
  <1>4. CASE Continue(g, "custody")
    <2>1. PICK r \in Call : /\ Goto(g, r) /\ r.pc = "custody"
                            /\ r.rec = actor[g].rec
                            /\ r.returned = actor[g].returned
      BY <1>4, ContinueCall DEF IInv, Pc, GateStep
    <2>2. CallInv(r)' /\ r.pc \notin Started
      BY <1>2, <1>3, <2>1 DEF IInv, CallInv, Started, nativeOnly, HoldsCustody
    <2>3. /\ native' \in Row /\ past' \subseteq Row /\ native' \in past'
          /\ \A x \in past' : RowInv(x)
          /\ HoldsCustody(native', "good")
      BY <1>2, <1>3 DEF IInv, TypeOK, StoreInv
    <2> QED
      BY <1>2, <2>1, <2>2, <2>3, NativePreserves
  <1>5. CASE Continue(g, "abandon")
    <2>1. /\ {row} \in SUBSET Row /\ native' \in Row /\ native' \in past'
          /\ \A x \in {row} : RowInv(x)
          /\ HoldsCustody(native', "good")
          /\ "abandon" \in Plain
      BY <1>2, <1>3, PlainPlaces
    <2> QED
      BY <1>2, <1>5, <2>1, NativeWrites
  <1> QED
    BY <1>4, <1>5 DEF GateCapture

LEMMA GateCustodyStep ==
    ASSUME IInv, NEW g \in Actor, GateCustody(g) PROVE IInv'
  <1>1. restored \/ HoldsCustody(native, "good")
    BY DEF GateCustody, At, IInv, CallInv
  <1> QED
    BY <1>1, CustodySound, LedgerSynchronize, LedgerContinue, PlainPlaces
       DEF GateCustody

LEMMA GateFailsStep ==
    ASSUME IInv, NEW g \in Actor, GateFails(g) PROVE IInv'
  BY QuietContinue, PlainPlaces DEF GateFails

-----------------------------------------------------------------------------
(* The gate, after a failure.                                              *)

LEMMA GateAbandonStep ==
    ASSUME IInv, NEW g \in Actor, GateAbandon(g) PROVE IInv'
  <1>1. PICK l \in Record : ledger' = l /\ Grows(l) /\ Sound(l)
    BY BeginSound, Unchanged DEF GateAbandon
  <1>2. UNCHANGED ledgerOnly
    BY DEF GateAbandon
  <1>3. CASE actor[g].returned
    <2>1. Continue(g, "revoke") /\ token # "none"
      BY <1>3 DEF GateAbandon, IInv, CallInv
    <2>2. PICK r \in Call : /\ Goto(g, r) /\ r.pc = "revoke"
                            /\ r.rec = actor[g].rec
                            /\ r.returned = actor[g].returned
      BY <2>1, ContinueCall DEF IInv, Pc, GateStep
    <2>3. CallInv(r)' /\ r.pc \notin Started
      BY <1>1, <1>2, <2>1, <2>2 DEF IInv, CallInv, Started, Grows, ledgerOnly
    <2> QED
      BY <1>1, <1>2, <2>2, <2>3, LedgerPreserves
  <1>4. CASE ~actor[g].returned
    BY <1>1, <1>2, <1>4, LedgerContinue, PlainPlaces DEF GateAbandon
  <1> QED
    BY <1>3, <1>4

LEMMA GateRevokeStep ==
    ASSUME IInv, NEW g \in Actor, GateRevoke(g) PROVE IInv'
  <1>1. token # "none" /\ UNCHANGED tokenOnly
        /\ token \in {"none", "active", "revoked", "expired", "absent"}
    BY DEF GateRevoke, At, IInv, CallInv, TypeOK
  <1>2. token' \in {token, "revoked"}
    BY DEF GateRevoke
  <1>3. PICK pc \in {"final", "revoked", "probe"} :
           /\ Continue(g, pc)
           /\ pc = "revoked" => token' = IF token = "active" THEN "revoked"
                                                             ELSE token
    BY DEF GateRevoke
  <1>4. PICK r \in Call : /\ Goto(g, r) /\ r.pc = pc
                          /\ r.rec = actor[g].rec
                          /\ r.returned = actor[g].returned
    BY <1>3, ContinueCall DEF IInv, Pc, GateStep
  <1>5. token' # "none" /\ (pc = "revoked" => Dead')
    BY <1>1, <1>2, <1>3 DEF Dead
  <1>6. CallInv(r)' /\ r.pc \notin Started
    BY <1>1, <1>3, <1>4, <1>5 DEF IInv, CallInv, Started, tokenOnly
  <1> QED
    BY <1>1, <1>2, <1>4, <1>6, TokenPreserves

\* Going on to a step that relies on a dead token, or only on a token.
LEMMA KnownContinue ==
    ASSUME IInv, NEW g \in Actor, NEW pc \in Pc \ {"before", "create",
           "capture", "custody"}, Continue(g, pc),
           NEW l \in Record, ledger' = l, Grows(l), Sound(l),
           UNCHANGED ledgerOnly, token # "none",
           pc \in {"revoked", "inventory", "close", "revoked_id", "relist",
                   "info", "record"} => Dead
    PROVE  IInv'
  <1>1. PICK r \in Call : /\ Goto(g, r) /\ r.pc = pc
                          /\ r.rec = actor[g].rec
                          /\ r.returned = actor[g].returned
    BY ContinueCall DEF IInv
  <1>2. CallInv(r)' /\ r.pc \notin Started
    BY <1>1 DEF IInv, CallInv, Started, Grows, ledgerOnly, Dead
  <1> QED
    BY <1>1, <1>2, LedgerPreserves

LEMMA KnownPlaces ==
    {"revoked", "probe", "inventory", "close", "relist", "info", "record",
     "revoked_id"} \subseteq Pc \ {"before", "create", "capture", "custody"}
  BY DEF Pc, GateStep, ReconcilerStep

LEMMA GateRevokedStep ==
    ASSUME IInv, NEW g \in Actor, GateRevoked(g) PROVE IInv'
  <1>1. Dead /\ token # "none"
    BY DEF GateRevoked, At, IInv, CallInv, Dead
  <1>2. PICK l \in Record : ledger' = l /\ Grows(l) /\ Sound(l)
    BY <1>1, RevokeSound, Unchanged DEF GateRevoked
  <1> QED
    BY <1>1, <1>2, KnownContinue, KnownPlaces DEF GateRevoked

LEMMA GateProbeStep ==
    ASSUME IInv, NEW g \in Actor, GateProbe(g) PROVE IInv'
  <1>1. Dead /\ token # "none"
    BY DEF GateProbe, At, IInv, CallInv, Dead, TypeOK
  <1> QED
    BY <1>1, Unchanged, KnownContinue, KnownPlaces
       DEF GateProbe, stores, ledgerOnly

LEMMA GateInventoryStep ==
    ASSUME IInv, NEW g \in Actor, GateInventory(g) PROVE IInv'
  <1>1. Dead /\ token # "none"
    BY DEF GateInventory, At, IInv, CallInv, Dead, TypeOK
  <1> QED
    BY <1>1, Unchanged, KnownContinue, KnownPlaces
       DEF GateInventory, stores, ledgerOnly

LEMMA GateCloseStep ==
    ASSUME IInv, NEW g \in Actor, GateClose(g) PROVE IInv'
  <1>1. Dead
    BY DEF GateClose, At, IInv, CallInv
  <1> QED
    BY <1>1, CloseSound, LedgerSynchronize, LedgerContinue, PlainPlaces
       DEF GateClose

LEMMA GateUnconfirmedStep ==
    ASSUME IInv, NEW g \in Actor, GateUnconfirmed(g) PROVE IInv'
  BY QuietContinue, PlainPlaces DEF GateUnconfirmed

\* Cleaned, or left alone.
LEMMA CleanupWrites ==
    ASSUME IInv, NEW a \in Actor, NEW o \in Observation, UNCHANGED nativeOnly,
           \/ CanCleanup(native, o) /\ Write(Cleaned(native, o))
           \/ UNCHANGED <<native, past>>,
           (\E pc \in Plain : Continue(a, pc)) \/ Return(a)
    PROVE  IInv'
  <1>1. CASE CanCleanup(native, o) /\ Write(Cleaned(native, o))
    <2> DEFINE row == Cleaned(native, o)
    <2>1. /\ row \in Row /\ RowInv(row)
          /\ HoldsCustody(native, "good") => HoldsCustody(row, "good")
      BY <1>1, RowsSound
    <2>2. native' = row /\ past' = past \cup {row}
      BY <1>1 DEF Write
    <2> HIDE DEF row
    <2>3. /\ {row} \in SUBSET Row /\ native' \in Row /\ native' \in past'
          /\ \A x \in {row} : RowInv(x)
          /\ HoldsCustody(native, "good") => HoldsCustody(native', "good")
      BY <2>1, <2>2
    <2> QED
      BY <2>2, <2>3, NativeWrites
  <1>2. CASE UNCHANGED <<native, past>>
    <2>1. UNCHANGED stores
      BY <1>2 DEF stores, nativeOnly
    <2> QED
      BY <2>1, QuietContinue, QuietReturn
  <1> QED
    BY <1>1, <1>2

LEMMA GateCleanupStep ==
    ASSUME IInv, NEW g \in Actor, GateCleanup(g) PROVE IInv'
  <1>1. actor[g].observed \in Observation
    BY DEF IInv, TypeOK, Call
  <1> QED
    BY <1>1, CleanupWrites, PlainPlaces DEF GateCleanup

LEMMA GateFinalStep ==
    ASSUME IInv, NEW g \in Actor, GateFinal(g) PROVE IInv'
  BY QuietSynchronize DEF GateFinal

LEMMA GateStatusStep ==
    ASSUME IInv, NEW g \in Actor, GateStatus(g) PROVE IInv'
  BY QuietContinue, QuietReturn, PlainPlaces DEF GateStatus

LEMMA GateFenceStep ==
    ASSUME IInv, NEW g \in Actor, GateFence(g) PROVE IInv'
  BY BeginSound, LedgerReturn DEF GateFence

LEMMA DieStep ==
    ASSUME IInv, NEW a \in Actor, Die(a) PROVE IInv'
  BY QuietReturn DEF Die

\* Synchronization closes a row only on a proof the ledger still holds.
LEMMA SyncClosedStep ==
    ASSUME IInv, NEW a \in Actor, SyncClosed(a) PROVE IInv'
  <1> DEFINE o == actor[a].rec.observation
  <1>1. /\ o \in Observation /\ Return(a) /\ UNCHANGED nativeOnly
        /\ ledger.state = "closed"
        /\ actor[a].rec.refusal => ledger.refusal
        /\ ~actor[a].rec.refusal => ledger.receipt
    BY DEF SyncClosed, IInv, CallInv, TypeOK, Call, Record
  <1>2. native \in Row /\ RowInv(native)
    BY <1>1, RowsSound
  <1>3. CASE actor[a].rec.refusal
    <2>1. MintClose(o)
      BY <1>3 DEF SyncClosed
    <2>2. CASE UNCHANGED <<native, past>>
      BY <1>1, <2>2, CleanupWrites
    <2>3. CASE Write(ConfirmedClosed(native, "refusal"))
      <3> DEFINE row == ConfirmedClosed(native, "refusal")
      <3>1. /\ row \in Row /\ row.receipt = "refusal" /\ ~row.envelope
            /\ HoldsCustody(native, "good") => HoldsCustody(row, "good")
        BY <1>2, ConfirmSound
      <3>2. native' = row /\ past' = past \cup {row}
        BY <2>3 DEF Write
      <3> HIDE DEF row
      <3>3. RowInv(row)
        BY <1>1, <1>3, <3>1 DEF RowInv
      <3>4. /\ {row} \in SUBSET Row /\ native' \in Row /\ native' \in past'
            /\ \A x \in {row} : RowInv(x)
            /\ HoldsCustody(native, "good") => HoldsCustody(native', "good")
        BY <3>1, <3>2, <3>3
      <3> QED
        BY <1>1, <3>2, <3>4, NativeWrites
    <2> QED
      BY <2>1, <2>2, <2>3 DEF MintClose
  <1>4. CASE ~actor[a].rec.refusal
    <2> DEFINE cleaned == Cleaned(native, o)
               done == ConfirmedClosed(cleaned, "gate")
    <2>1. /\ CanCleanup(native, o)
          /\ \/ native' = done /\ past' = past \cup {cleaned, done}
             \/ Write(cleaned)
      BY <1>4 DEF SyncClosed, CaptureMintClosed
    <2>2. /\ cleaned \in Row /\ RowInv(cleaned)
          /\ HoldsCustody(native, "good") => HoldsCustody(cleaned, "good")
      BY <1>1, <2>1, RowsSound
    <2>3. CASE Write(cleaned)
      BY <1>1, <2>1, <2>3, CleanupWrites
    <2>4. CASE native' = done /\ past' = past \cup {cleaned, done}
      <3> HIDE DEF cleaned
      <3>1. /\ done \in Row /\ done.receipt = "gate" /\ ~done.envelope
            /\ HoldsCustody(cleaned, "good") => HoldsCustody(done, "good")
        BY <2>2, ConfirmSound
      <3> HIDE DEF done
      <3>2. RowInv(done)
        BY <1>1, <1>4, <3>1 DEF RowInv
      <3>3. /\ {cleaned, done} \in SUBSET Row /\ native' \in Row
            /\ native' \in past'
            /\ \A x \in {cleaned, done} : RowInv(x)
            /\ HoldsCustody(native, "good") => HoldsCustody(native', "good")
        BY <2>2, <2>4, <3>1, <3>2
      <3> QED
        BY <1>1, <2>4, <3>3, NativeWrites
    <2> QED
      BY <2>1, <2>3, <2>4
  <1> QED
    BY <1>3, <1>4

-----------------------------------------------------------------------------
(* The reconciler.                                                         *)

\* A call that holds the record the ledger has after the step.
LEMMA HeldCall ==
    ASSUME IInv, NEW a \in Actor, NEW r \in Call, Goto(a, r),
           r.pc \in Plain, NEW l \in Record, ledger' = l, Grows(l), Sound(l),
           UNCHANGED ledgerOnly, r.rec = l,
           r.returned => actor[a].returned
    PROVE  IInv'
  <1>1. CallInv(r)' /\ r.pc \notin Started
    BY DEF IInv, CallInv, Plain, Started, Sound, ledgerOnly
  <1> QED
    BY <1>1, LedgerPreserves

LEMMA ReconcileLookupStep ==
    ASSUME IInv, NEW r \in Actor, NEW cancel \in BOOLEAN,
           ReconcileLookup(r, cancel)
    PROVE  IInv'
  <1> DEFINE pc == IF ledger.state = "closed" THEN "sync"
                   ELSE IF ledger.cleanup # "none"
                   THEN "sync_cleanup" ELSE "begin"
             c == [Idle EXCEPT !.rec = ledger, !.cancel = cancel, !.pc = pc]
  <1>1. Goto(r, c) /\ UNCHANGED stores /\ ledger \in Record
    BY DEF ReconcileLookup, IInv, TypeOK
  <1>2. pc \in {"sync", "sync_cleanup", "begin"}
    OBVIOUS
  <1>3. pc \in Plain /\ pc \in ReconcilerStep
    BY <1>2, PlainPlaces DEF ReconcilerStep
  <1> HIDE DEF pc
  <1>4. c \in Call /\ c.pc = pc /\ c.rec = ledger /\ ~c.returned
    BY <1>1, <1>3 DEF Call, Idle, Observation, Evidence
  <1> HIDE DEF c
  <1> QED
    BY <1>1, <1>3, <1>4, Unchanged, HeldCall DEF stores, ledgerOnly

LEMMA ReconcileBeginStep ==
    ASSUME IInv, NEW r \in Actor, ReconcileBegin(r) PROVE IInv'
  <1> DEFINE l == Begun(ledger)
             c == [actor[r] EXCEPT !.pc = "list", !.rec = l]
  <1>1. /\ CanBegin(ledger, actor[r].cancel) /\ ledger' = l
        /\ UNCHANGED ledgerOnly
        /\ Goto(r, c) \/ Return(r)
    BY DEF ReconcileBegin
  <1>2. actor[r] \in Call /\ actor[r].cancel \in BOOLEAN
    BY DEF IInv, TypeOK, Call
  <1>3. l \in Record /\ Grows(l) /\ Sound(l)
    BY <1>1, <1>2, BeginSound
  <1> HIDE DEF l
  <1>4. CASE Goto(r, c)
    <2>1. c \in Call /\ c.pc = "list" /\ c.rec = l
          /\ c.returned = actor[r].returned
      BY <1>2, <1>3 DEF Call, ReconcilerStep
    <2> HIDE DEF c
    <2> QED
      BY <1>1, <1>3, <1>4, <2>1, HeldCall, PlainPlaces
  <1>5. CASE Return(r)
    BY <1>1, <1>3, <1>5, LedgerReturn
  <1> QED
    BY <1>1, <1>4, <1>5

\* A step that stores evidence in the call, with a dead token.
LEMMA DeadCall ==
    ASSUME IInv, NEW a \in Actor, NEW m \in Evidence, Dead,
           NEW pc \in {"info", "relist"}, UNCHANGED stores,
           Goto(a, [actor[a] EXCEPT !.pc = pc, !.method = m])
    PROVE  IInv'
  <1> DEFINE c == [actor[a] EXCEPT !.pc = pc, !.method = m]
  <1>1. actor[a] \in Call /\ pc \in ReconcilerStep
    BY DEF IInv, TypeOK, ReconcilerStep
  <1>2. /\ c \in Call /\ c.pc = pc /\ c.rec = actor[a].rec
        /\ c.returned = actor[a].returned
    BY <1>1 DEF Call
  <1>3. PICK r \in Call : /\ r = c /\ Goto(a, r) /\ r.pc = pc
                          /\ r.rec = actor[a].rec
                          /\ r.returned = actor[a].returned
    BY <1>2
  <1>4. CallInv(r)' /\ r.pc \notin Started
    BY <1>3 DEF IInv, CallInv, Started, stores, Dead
  <1> QED
    BY <1>3, <1>4, QuietPreserves

LEMMA ReconcileListStep ==
    ASSUME IInv, NEW r \in Actor, ReconcileList(r) PROVE IInv'
  <1>1. CASE token = "active"
    BY <1>1, QuietContinue, PlainPlaces DEF ReconcileList
  <1>2. CASE token # "active"
    <2>1. Dead /\ UNCHANGED stores
      BY <1>2 DEF ReconcileList, Dead
    <2>2. PICK pc \in {"info", "relist"}, m \in Evidence :
             Goto(r, [actor[r] EXCEPT !.pc = pc, !.method = m])
      BY <1>2 DEF ReconcileList, Evidence
    <2> QED
      BY <2>1, <2>2, DeadCall
  <1> QED
    BY <1>1, <1>2

LEMMA ReconcileRevokeStep ==
    ASSUME IInv, NEW r \in Actor, ReconcileRevoke(r) PROVE IInv'
  <1>1. /\ token = "active" /\ token' = "revoked" /\ UNCHANGED tokenOnly
        /\ Continue(r, "revoked_id") \/ Return(r)
    BY DEF ReconcileRevoke
  <1>2. CASE Continue(r, "revoked_id")
    <2>1. PICK c \in Call : /\ Goto(r, c) /\ c.pc = "revoked_id"
                            /\ c.rec = actor[r].rec
                            /\ c.returned = actor[r].returned
      BY <1>2, ContinueCall DEF IInv, Pc, ReconcilerStep
    <2>2. CallInv(c)' /\ c.pc \notin Started
      BY <1>1, <2>1 DEF IInv, CallInv, Started, tokenOnly, Dead
    <2> QED
      BY <1>1, <2>1, <2>2, TokenPreserves
  <1>3. CASE Return(r)
    BY <1>1, <1>3, IdleType, IdleInv, TokenPreserves DEF Return
  <1> QED
    BY <1>1, <1>2, <1>3

LEMMA ReconcileRevokedStep ==
    ASSUME IInv, NEW r \in Actor, ReconcileRevoked(r) PROVE IInv'
  <1> DEFINE l == Revoked(ledger)
             c == [actor[r] EXCEPT !.pc = "relist",
                                   !.rec.revoke_acknowledged = TRUE,
                                   !.method = "revoke_acknowledged"]
  <1>1. /\ CanRevoke(ledger, TRUE) /\ ledger' = l /\ UNCHANGED ledgerOnly
        /\ Goto(r, c) \/ Return(r)
    BY DEF ReconcileRevoked
  <1>d. Dead
    BY DEF ReconcileRevoked, At, IInv, CallInv
  <1>2. l \in Record /\ Grows(l) /\ Sound(l)
    BY <1>1, <1>d, RevokeSound
  <1> HIDE DEF l
  <1>3. CASE Goto(r, c)
    <2>1. actor[r] \in Call /\ actor[r].rec \in Record
      BY DEF IInv, TypeOK, Call
    <2> DEFINE rec == [actor[r].rec EXCEPT !.revoke_acknowledged = TRUE]
    <2>2. /\ rec \in Record /\ rec.state = actor[r].rec.state
          /\ rec.refusal = actor[r].rec.refusal
      BY <2>1 DEF Record
    <2>3. c = [actor[r] EXCEPT !.pc = "relist", !.rec = rec,
                               !.method = "revoke_acknowledged"]
      BY <2>1 DEF Call
    <2> HIDE DEF rec
    <2>4. /\ c \in Call /\ c.pc = "relist" /\ c.rec = rec
          /\ c.returned = actor[r].returned
      BY <2>1, <2>2, <2>3 DEF Call, ReconcilerStep, Evidence
    <2>5. PICK d \in Call : /\ Goto(r, d) /\ d.pc = "relist"
                            /\ d.rec.state = actor[r].rec.state
                            /\ d.rec.refusal = actor[r].rec.refusal
                            /\ d.returned = actor[r].returned
      BY <1>3, <2>2, <2>4
    <2>6. CallInv(d)' /\ d.pc \notin Started
      BY <1>1, <1>d, <1>2, <2>5 DEF IInv, CallInv, Started, Grows, ledgerOnly, Dead
    <2> QED
      BY <1>1, <1>2, <2>5, <2>6, LedgerPreserves
  <1>4. CASE Return(r)
    BY <1>1, <1>2, <1>4, LedgerReturn
  <1> QED
    BY <1>1, <1>3, <1>4

LEMMA ReconcileRelistStep ==
    ASSUME IInv, NEW r \in Actor, ReconcileRelist(r) PROVE IInv'
  <1>1. Dead /\ token # "none"
    BY DEF ReconcileRelist, At, IInv, CallInv, Dead
  <1> QED
    BY <1>1, Unchanged, KnownContinue, KnownPlaces
       DEF ReconcileRelist, stores, ledgerOnly

LEMMA ReconcileInfoStep ==
    ASSUME IInv, NEW r \in Actor, ReconcileInfo(r) PROVE IInv'
  <1>1. Dead /\ token # "none"
    BY DEF ReconcileInfo, At, IInv, CallInv, Dead
  <1> QED
    BY <1>1, Unchanged, KnownContinue, KnownPlaces
       DEF ReconcileInfo, stores, ledgerOnly

LEMMA ReconcileRecordStep ==
    ASSUME IInv, NEW r \in Actor, ReconcileRecord(r) PROVE IInv'
  <1> DEFINE l == Recorded(ledger, actor[r].method)
             c == [actor[r] EXCEPT !.pc = "sync_cleanup", !.rec = l]
  <1>1. /\ CanRecord(ledger, actor[r].rec.observation, actor[r].method)
        /\ ledger' = l /\ UNCHANGED ledgerOnly
        /\ Goto(r, c) \/ Return(r)
    BY DEF ReconcileRecord
  <1>2. Dead
    BY DEF ReconcileRecord, At, IInv, CallInv
  <1>3. /\ actor[r] \in Call /\ actor[r].method \in Evidence
        /\ actor[r].rec.observation \in Observation
    BY DEF IInv, TypeOK, Call, Record
  <1>4. l \in Record /\ Grows(l) /\ Sound(l)
    BY <1>1, <1>2, <1>3, RecordSound
  <1> HIDE DEF l
  <1>5. CASE Goto(r, c)
    <2>1. /\ c \in Call /\ c.pc = "sync_cleanup" /\ c.rec = l
          /\ c.returned = actor[r].returned
      BY <1>3, <1>4 DEF Call, ReconcilerStep
    <2> HIDE DEF c
    <2> QED
      BY <1>1, <1>4, <1>5, <2>1, HeldCall, PlainPlaces
  <1>6. CASE Return(r)
    BY <1>1, <1>4, <1>6, LedgerReturn
  <1> QED
    BY <1>1, <1>5, <1>6

LEMMA ReconcileSyncStep ==
    ASSUME IInv, NEW r \in Actor, ReconcileSync(r) PROVE IInv'
  <1>1. actor[r].rec.observation \in Observation
    BY DEF IInv, TypeOK, Call, Record
  <1> QED
    BY <1>1, CleanupWrites DEF ReconcileSync

-----------------------------------------------------------------------------
(* The closer.                                                             *)

LEMMA CloserLookupStep ==
    ASSUME IInv, NEW c \in Actor, CloserLookup(c) PROVE IInv'
  <1> DEFINE pc == IF ledger.state = "closed" THEN "sync" ELSE "unseal"
             r == [Idle EXCEPT !.rec = ledger, !.pc = pc]
  <1>1. Goto(c, r) /\ UNCHANGED stores /\ ledger \in Record
    BY DEF CloserLookup, IInv, TypeOK
  <1>2. pc \in Plain /\ pc \in CloserStep
    BY PlainPlaces DEF CloserStep
  <1> HIDE DEF pc
  <1>3. r \in Call /\ r.pc = pc /\ r.rec = ledger /\ ~r.returned
    BY <1>1, <1>2 DEF Call, Idle, Observation, Evidence
  <1> HIDE DEF r
  <1> QED
    BY <1>1, <1>2, <1>3, Unchanged, HeldCall DEF stores, ledgerOnly

LEMMA CloserQuietSteps ==
    ASSUME IInv, NEW c \in Actor,
           \/ CloserUnseal(c) \/ CloserCheck(c) \/ CloserBearer(c)
           \/ CloserRecheck(c) \/ CloserReseal(c) \/ CloserFails(c)
    PROVE  IInv'
  BY QuietContinue, PlainPlaces DEF CloserUnseal, CloserCheck, CloserBearer,
     CloserRecheck, CloserReseal, CloserFails

LEMMA CloserRefuseStep ==
    ASSUME IInv, NEW c \in Actor, CloserRefuse(c) PROVE IInv'
  <1>1. actor[c].rec.observation \in Observation
    BY DEF IInv, TypeOK, Call, Record
  <1> QED
    BY <1>1, RefuseSound, LedgerSynchronize, LedgerContinue, PlainPlaces
       DEF CloserRefuse

LEMMA CloserLatestStep ==
    ASSUME IInv, NEW c \in Actor, CloserLatest(c) PROVE IInv'
  BY QuietSynchronize, QuietReturn DEF CloserLatest

-----------------------------------------------------------------------------
(* The environment.                                                        *)

\* Expiry and purge: a token that exists goes on to exist, a dead one is dead.
LEMMA ProviderSteps ==
    ASSUME IInv, Expire \/ Purge PROVE IInv'
  <1>1. /\ token # "none" /\ Dead' /\ token' \in {"expired", "absent"}
        /\ UNCHANGED <<ledger, native, past, preparation, created, blocked,
                       restored, actor>>
    BY DEF Expire, Purge, Dead
  <1>2. TypeOK'
    BY <1>1 DEF IInv, TypeOK
  <1>3. StoreInv'
    <2>1. Sound(ledger)'
      BY <1>1 DEF IInv, StoreInv, Sound, HoldsCustody
    <2>2. ASSUME NEW row \in past PROVE RowInv(row)'
      BY <1>1 DEF IInv, StoreInv, RowInv
    <2> QED
      BY <1>1, <2>1, <2>2 DEF IInv, StoreInv
  <1>4. ASSUME NEW a \in Actor PROVE CallInv(actor[a])'
    BY <1>1 DEF IInv, CallInv, HoldsCustody
  <1> QED
    BY <1>1, <1>2, <1>3, <1>4 DEF IInv, StartedOnce

LEMMA BlockStep ==
    ASSUME IInv, Block PROVE IInv'
  <1>1. /\ blocked' \in BOOLEAN
        /\ UNCHANGED <<ledger, native, past, preparation, token, created,
                       restored, actor>>
    BY DEF Block, IInv, TypeOK
  <1>2. TypeOK'
    BY <1>1 DEF IInv, TypeOK
  <1>3. StoreInv'
    <2>1. Sound(ledger)'
      BY <1>1 DEF IInv, StoreInv, Sound, HoldsCustody, Dead
    <2>2. ASSUME NEW row \in past PROVE RowInv(row)'
      BY <1>1 DEF IInv, StoreInv, RowInv
    <2> QED
      BY <1>1, <2>1, <2>2 DEF IInv, StoreInv
  <1>4. ASSUME NEW a \in Actor PROVE CallInv(actor[a])'
    BY <1>1 DEF IInv, CallInv, HoldsCustody, Dead
  <1> QED
    BY <1>1, <1>2, <1>3, <1>4 DEF IInv, StartedOnce

\* A row of the past, or the present row in another state.
LEMMA EnvironmentWrites ==
    ASSUME IInv, native' \in Row, past' = past \cup {native'},
           RowInv(native'), preparation' \in {"dispatched", "cleanup_pending"},
           restored' \in BOOLEAN, restored => restored',
           restored' \/ (HoldsCustody(native, "good")
                            => HoldsCustody(native', "good")),
           UNCHANGED <<ledger, token, created, blocked, actor>>
    PROVE  IInv'
  <1>2. TypeOK'
    BY DEF IInv, TypeOK
  <1>3. StoreInv'
    <2>1. Sound(ledger)'
      BY DEF IInv, StoreInv, Sound, HoldsCustody, Dead
    <2>2. ASSUME NEW row \in past' PROVE RowInv(row)'
      BY DEF IInv, StoreInv, RowInv
    <2> QED
      BY <2>1, <2>2 DEF IInv, StoreInv
  <1>4. ASSUME NEW a \in Actor PROVE CallInv(actor[a])'
    BY DEF IInv, CallInv, HoldsCustody, Dead
  <1> QED
    BY <1>2, <1>3, <1>4 DEF IInv, StartedOnce

LEMMA PreparationCleanupStep ==
    ASSUME IInv, PreparationCleanup PROVE IInv'
  <1> DEFINE row == [native EXCEPT !.state = "revocation_pending"]
  <1>1. native \in Row /\ RowInv(native) /\ native \in past
    BY DEF IInv, TypeOK, StoreInv
  <1>2. /\ row \in Row /\ RowInv(row)
        /\ HoldsCustody(native, "good") => HoldsCustody(row, "good")
    BY <1>1 DEF Row, RowInv, HoldsCustody
  <1>3. /\ native' \in {row, native} /\ past' = past \cup {native'}
        /\ preparation' = "cleanup_pending"
        /\ UNCHANGED <<ledger, token, created, blocked, restored, actor>>
    BY DEF PreparationCleanup, Write
  <1> HIDE DEF row
  <1>4. /\ native' \in Row /\ RowInv(native') /\ restored' = restored
        /\ HoldsCustody(native, "good") => HoldsCustody(native', "good")
        /\ restored \in BOOLEAN
    BY <1>1, <1>2, <1>3 DEF IInv, TypeOK
  <1> QED
    BY <1>3, <1>4, EnvironmentWrites

LEMMA RestoreStep ==
    ASSUME IInv, NEW row \in past, Restore(row) PROVE IInv'
  <1>1. /\ native' = row /\ restored' = TRUE /\ past' = past
        /\ UNCHANGED <<ledger, preparation, token, created, blocked, actor>>
    BY DEF Restore
  <1>2. row \in Row /\ RowInv(row) /\ past' = past \cup {row}
        /\ preparation \in {"dispatched", "cleanup_pending"}
    BY <1>1 DEF IInv, TypeOK, StoreInv
  <1> QED
    BY <1>1, <1>2, EnvironmentWrites

-----------------------------------------------------------------------------
(* The invariant and the theorems.                                         *)

LEMMA InitIInv == Init => IInv
  <1> SUFFICES ASSUME Init PROVE IInv
    OBVIOUS
  <1>1. /\ NoRecord \in Record /\ NoRecord.state = "absent"
        /\ ~NoRecord.cleanup_requested /\ ~NoRecord.revoke_acknowledged
        /\ NoRecord.cleanup = "none"
    BY DEF NoRecord, Record, Observation, Evidence
  <1>2. /\ Reserved \in Row /\ Reserved.receipt = "none"
        /\ ~Reserved.envelope
    BY DEF Reserved, Row, Observation
  <1>3. TypeOK
    BY <1>1, <1>2, IdleType DEF Init, TypeOK
  <1>4. StoreInv
    BY <1>1, <1>2 DEF Init, StoreInv, Sound, RowInv
  <1>5. \A a \in Actor : CallInv(actor[a])
    BY IdleInv DEF Init
  <1>6. StartedOnce
    BY IdleType DEF Init, StartedOnce, Started
  <1> QED
    BY <1>3, <1>4, <1>5, <1>6 DEF IInv

LEMMA StutterIInv == ASSUME IInv, UNCHANGED vars PROVE IInv'
  <1> USE DEF vars
  <1>2. TypeOK'
    BY DEF IInv, TypeOK
  <1>3. StoreInv'
    BY DEF IInv, StoreInv, Sound, HoldsCustody, Dead, RowInv
  <1>4. \A a \in Actor : CallInv(actor[a])'
    BY DEF IInv, CallInv, HoldsCustody, Dead
  <1> QED
    BY <1>2, <1>3, <1>4 DEF IInv, StartedOnce

LEMMA NextIInv == IInv /\ [Next]_vars => IInv'
  <1> SUFFICES ASSUME IInv, [Next]_vars PROVE IInv'
    OBVIOUS
  <1>1. ASSUME NEW g \in Gate, GateNext(g) PROVE IInv'
    <2>1. g \in Actor
      BY DEF Actor
    <2>2. CASE \/ GateLookup(g) \/ GatePlan(g) \/ GateClaim(g)
               \/ GateBefore(g) \/ GateCreate(g) \/ GateObserve(g)
               \/ GateVerify(g)
      BY <2>1, <2>2, GateLookupStep, GatePlanStep, GateClaimStep,
         GateBeforeStep, GateCreateStep, GateObserveStep, GateVerifyStep
    <2>3. CASE \/ GateCapture(g) \/ GateCustody(g) \/ GateFails(g)
               \/ GateAbandon(g) \/ GateRevoke(g) \/ GateRevoked(g)
               \/ GateProbe(g)
      BY <2>1, <2>3, GateCaptureStep, GateCustodyStep, GateFailsStep,
         GateAbandonStep, GateRevokeStep, GateRevokedStep, GateProbeStep
    <2>4. CASE \/ GateInventory(g) \/ GateClose(g) \/ GateUnconfirmed(g)
               \/ GateCleanup(g) \/ GateFinal(g) \/ GateStatus(g)
               \/ GateFence(g)
      BY <2>1, <2>4, GateInventoryStep, GateCloseStep, GateUnconfirmedStep,
         GateCleanupStep, GateFinalStep, GateStatusStep, GateFenceStep
    <2> QED
      BY <1>1, <2>2, <2>3, <2>4 DEF GateNext
  <1>2. ASSUME NEW r \in Reconciler, ReconcilerNext(r) PROVE IInv'
    <2>1. r \in Actor
      BY DEF Actor
    <2> QED
      BY <1>2, <2>1, ReconcileLookupStep, ReconcileBeginStep,
         ReconcileListStep, ReconcileRevokeStep, ReconcileRevokedStep,
         ReconcileRelistStep, ReconcileInfoStep, ReconcileRecordStep,
         ReconcileSyncStep DEF ReconcilerNext
  <1>3. ASSUME NEW c \in Closer, CloserNext(c) PROVE IInv'
    <2>1. c \in Actor
      BY DEF Actor
    <2> QED
      BY <1>3, <2>1, CloserLookupStep, CloserQuietSteps, CloserRefuseStep,
         CloserLatestStep DEF CloserNext
  <1>4. ASSUME NEW a \in Actor, SyncClosed(a) \/ Die(a) PROVE IInv'
    BY <1>4, SyncClosedStep, DieStep
  <1> QED
    BY <1>1, <1>2, <1>3, <1>4, ProviderSteps, BlockStep,
       PreparationCleanupStep, RestoreStep, StutterIInv DEF Next

LEMMA Invariance == Spec => []IInv
  BY InitIInv, NextIInv, PTL DEF Spec

\* Every variable has its type, for any number of callers.
THEOREM TypeCorrect == Spec => []TypeOK
  BY Invariance, PTL DEF IInv

\* However many gate calls race and whatever is lost or restored, createToken
\* takes effect at most once for a slot.
THEOREM MintsOnce == Spec => []OneToken
  <1>1. IInv => OneToken
    BY DEF IInv, StoreInv, OneToken
  <1> QED
    BY <1>1, Invariance, PTL

\* The ledger's evidence is true, its closure too, however late the answer
\* that brought it.
THEOREM EvidenceSound == Spec => []EvidenceIsTrue
  <1>1. IInv => EvidenceIsTrue
    BY DEF IInv, StoreInv, Sound, Dead, EvidenceIsTrue
  <1> QED
    BY <1>1, Invariance, PTL

\* The OP closes its row only on a proof that the independent ledger retains.
THEOREM ClosureProven == Spec => []NativeClosureIsProven
  <1>1. IInv => NativeClosureIsProven
    BY DEF IInv, StoreInv, RowInv, NativeClosureIsProven
  <1> QED
    BY <1>1, Invariance, PTL

\* The ledger claims custody only of what the OP holds.
THEOREM CustodyHeld == Spec => []CustodyIsHeld
  <1>1. IInv => CustodyIsHeld
    BY DEF IInv, StoreInv, Sound, CustodyIsHeld
  <1> QED
    BY <1>1, Invariance, PTL

-----------------------------------------------------------------------------
(* The action property.                                                    *)

\* What no handler may do to the ledger's record.
Final(l) ==
    /\ ledger.cleanup_requested => l.cleanup_requested /\ l.state # "custodied"
    /\ ledger.state = "closed" => l.state = "closed"
    /\ ledger.observation # "none" => l.observation = ledger.observation
    /\ ledger.cleanup # "none" => l.cleanup = ledger.cleanup
    /\ ledger.revoke_acknowledged => l.revoke_acknowledged
    /\ ledger.refusal => l.refusal

\* Every step leaves the record alone or is one of the ledger's handlers.
Handled ==
    \/ ledger' = ledger
    \/ ClaimStarts(ledger) /\ ledger' = Claimed(ledger)
    \/ \E o \in Observation : CanObserve(ledger, o) /\ ledger' = Observed(ledger, o)
    \/ CanCustody(ledger) /\ ledger' = Custodied(ledger)
    \/ \E s \in BOOLEAN : CanRevoke(ledger, s) /\ ledger' = Revoked(ledger)
    \/ CanClose(ledger) /\ ledger' = Closed(ledger)
    \/ \E p \in BOOLEAN : CanBegin(ledger, p) /\ ledger' = Begun(ledger)
    \/ \E o \in Observation, m \in Evidence :
          CanRecord(ledger, o, m) /\ ledger' = Recorded(ledger, m)
    \/ \E o \in Observation : CanRefuse(ledger, o) /\ ledger' = Refused(ledger)

LEMMA StepHandled ==
    ASSUME TypeOK, [Next]_vars PROVE Handled
  <1>t. ASSUME NEW a \in Actor
        PROVE  /\ actor[a].observed \in Observation
               /\ actor[a].rec.observation \in Observation
               /\ actor[a].method \in Evidence /\ actor[a].cancel \in BOOLEAN
    BY DEF TypeOK, Call, Record
  <1> USE DEF Handled
  <1>1. ASSUME NEW g \in Gate, GateNext(g) PROVE Handled
    <2>1. g \in Actor
      BY DEF Actor
    <2>2. CASE \/ GateLookup(g) \/ GatePlan(g) \/ GateBefore(g)
               \/ GateCreate(g) \/ GateVerify(g) \/ GateCapture(g)
               \/ GateFails(g) \/ GateRevoke(g) \/ GateProbe(g)
               \/ GateInventory(g) \/ GateUnconfirmed(g) \/ GateCleanup(g)
               \/ GateFinal(g) \/ GateStatus(g)
      BY <2>2 DEF GateLookup, GatePlan, GateBefore, GateCreate, GateVerify,
         GateCapture, GateFails, GateRevoke, GateProbe, GateInventory,
         GateUnconfirmed, GateCleanup, GateFinal, GateStatus, stores,
         nativeOnly, tokenOnly
    <2>3. CASE GateClaim(g) \/ GateCustody(g) \/ GateClose(g)
      BY <2>3 DEF GateClaim, GateCustody, GateClose
    <2>4. CASE GateObserve(g)
      BY <1>t, <2>1, <2>4 DEF GateObserve
    <2>5. CASE GateAbandon(g) \/ GateRevoked(g) \/ GateFence(g)
      BY <2>5 DEF GateAbandon, GateRevoked, GateFence
    <2> QED
      BY <1>1, <2>2, <2>3, <2>4, <2>5 DEF GateNext
  <1>2. ASSUME NEW r \in Reconciler, ReconcilerNext(r) PROVE Handled
    <2>1. r \in Actor
      BY DEF Actor
    <2>2. CASE \/ \E cancel \in BOOLEAN : ReconcileLookup(r, cancel)
               \/ ReconcileList(r) \/ ReconcileRevoke(r) \/ ReconcileRelist(r)
               \/ ReconcileInfo(r) \/ ReconcileSync(r)
      BY <2>2 DEF ReconcileLookup, ReconcileList, ReconcileRevoke,
         ReconcileRelist, ReconcileInfo, ReconcileSync, stores, nativeOnly,
         tokenOnly
    <2>3. CASE ReconcileBegin(r) \/ ReconcileRevoked(r)
      BY <1>t, <2>1, <2>3 DEF ReconcileBegin, ReconcileRevoked
    <2>4. CASE ReconcileRecord(r)
      BY <1>t, <2>1, <2>4 DEF ReconcileRecord
    <2> QED
      BY <1>2, <2>2, <2>3, <2>4 DEF ReconcilerNext
  <1>3. ASSUME NEW c \in Closer, CloserNext(c) PROVE Handled
    <2>1. c \in Actor
      BY DEF Actor
    <2>2. CASE CloserRefuse(c)
      BY <1>t, <2>1, <2>2 DEF CloserRefuse
    <2>3. CASE ~CloserRefuse(c)
      BY <1>3, <2>3 DEF CloserNext, CloserLookup, CloserUnseal, CloserCheck,
         CloserBearer, CloserRecheck, CloserReseal, CloserFails, CloserLatest,
         stores
    <2> QED
      BY <2>2, <2>3
  <1>4. ASSUME NEW a \in Actor, SyncClosed(a) \/ Die(a) PROVE Handled
    BY <1>4 DEF SyncClosed, Die, stores, nativeOnly
  <1>5. CASE \/ \E row \in past : Restore(row)
             \/ Expire \/ Purge \/ PreparationCleanup \/ Block
             \/ UNCHANGED vars
    BY <1>5 DEF Restore, Expire, Purge, PreparationCleanup, Block, vars
  <1> QED
    BY <1>1, <1>2, <1>3, <1>4, <1>5 DEF Next

LEMMA HandledIsFinal ==
    ASSUME TypeOK, Sound(ledger), Handled PROVE Final(ledger')
  <1> USE DEF Final, Sound, TypeOK
  <1>0. CASE ledger' = ledger
    BY <1>0
  <1>1. CASE ClaimStarts(ledger) /\ ledger' = Claimed(ledger)
    BY <1>1 DEF ClaimStarts, Claimed, Record
  <1>2. ASSUME NEW o \in Observation, CanObserve(ledger, o),
               ledger' = Observed(ledger, o)
        PROVE  Final(ledger')
    BY <1>2 DEF CanObserve, Observed, Record
  <1>3. CASE CanCustody(ledger) /\ ledger' = Custodied(ledger)
    BY <1>3 DEF CanCustody, Custodied, Record
  <1>4. ASSUME NEW s \in BOOLEAN, CanRevoke(ledger, s),
               ledger' = Revoked(ledger)
        PROVE  Final(ledger')
    <2>1. /\ Revoked(ledger).state = "outcome_unknown"
          /\ Revoked(ledger).cleanup_requested
          /\ Revoked(ledger).revoke_acknowledged
          /\ Revoked(ledger).observation = ledger.observation
          /\ Revoked(ledger).cleanup = ledger.cleanup
          /\ Revoked(ledger).refusal = ledger.refusal
      BY DEF Revoked, Record
    <2> QED
      BY <1>4, <2>1 DEF CanRevoke
  <1>5. CASE CanClose(ledger) /\ ledger' = Closed(ledger)
    <2>1. /\ Closed(ledger).state = "closed"
          /\ Closed(ledger).cleanup_requested = ledger.cleanup_requested
          /\ Closed(ledger).revoke_acknowledged = ledger.revoke_acknowledged
          /\ Closed(ledger).observation = ledger.observation
          /\ Closed(ledger).cleanup = ledger.cleanup
          /\ Closed(ledger).refusal = ledger.refusal
      BY DEF Closed, Record
    <2> QED
      BY <1>5, <2>1
  <1>6. ASSUME NEW p \in BOOLEAN, CanBegin(ledger, p), ledger' = Begun(ledger)
        PROVE  Final(ledger')
    <2>1. /\ Begun(ledger).state = "outcome_unknown"
          /\ Begun(ledger).cleanup_requested
          /\ Begun(ledger).revoke_acknowledged = ledger.revoke_acknowledged
          /\ Begun(ledger).observation = ledger.observation
          /\ Begun(ledger).cleanup = ledger.cleanup
          /\ Begun(ledger).refusal = ledger.refusal
      BY DEF Begun, Record
    <2> QED
      BY <1>6, <2>1 DEF CanBegin
  <1>7. ASSUME NEW o \in Observation, NEW m \in Evidence,
               CanRecord(ledger, o, m), ledger' = Recorded(ledger, m)
        PROVE  Final(ledger')
    BY <1>7 DEF CanRecord, Recorded, Record
  <1>8. ASSUME NEW o \in Observation, CanRefuse(ledger, o),
               ledger' = Refused(ledger)
        PROVE  Final(ledger')
    <2>1. /\ Refused(ledger).state = "closed"
          /\ Refused(ledger).refusal
          /\ Refused(ledger).cleanup_requested = ledger.cleanup_requested
          /\ Refused(ledger).revoke_acknowledged = ledger.revoke_acknowledged
          /\ Refused(ledger).observation = ledger.observation
          /\ Refused(ledger).cleanup = ledger.cleanup
      BY DEF Refused, Record
    <2> QED
      BY <1>8, <2>1
  <1> QED
    BY <1>0, <1>1, <1>2, <1>3, <1>4, <1>5, <1>6, <1>7, <1>8 DEF Handled

\* Safety wins over a mint in flight: no step of any caller takes a cleanup
\* intent, a closure, an observation or a proof back.
THEOREM SafetyWins == Spec => SafetyIsFinal
  <1>1. IInv /\ [Next]_vars => Final(ledger')
    BY StepHandled, HandledIsFinal DEF IInv, StoreInv
  <1>2. IInv /\ [Next]_vars =>
          [/\ ledger.cleanup_requested => /\ ledger'.cleanup_requested
                                          /\ ledger'.state # "custodied"
           /\ ledger.state = "closed" => ledger'.state = "closed"
           /\ ledger.observation # "none"
                => ledger'.observation = ledger.observation
           /\ ledger.cleanup # "none" => ledger'.cleanup = ledger.cleanup
           /\ ledger.revoke_acknowledged => ledger'.revoke_acknowledged
           /\ ledger.refusal => ledger'.refusal]_vars
    BY <1>1 DEF Final
  <1> QED
    BY <1>2, Invariance, PTL DEF Spec, SafetyIsFinal
=============================================================================
