------------------------ MODULE DeviceJournalProofs ------------------------
(***************************************************************************)
(* Safety of the device journal, and that it implements DeviceLedger, for  *)
(* any number of profiles, clones, calls, sealed states and faults.        *)
(*                                                                         *)
(* The argument: every sealed state extends the one it names as previous   *)
(* by one operation or by envelopes (SealedOK), and a request to the       *)
(* witness moves it from a state to one that extends it (RequestsOK).  So  *)
(* the ledger of the witnessed head only grows, and whatever was once      *)
(* witnessed stays within it: the head of every record, of every call, and *)
(* what was answered or released (WitnessedOK, CallsOK).                   *)
(*                                                                         *)
(* The invariant is stated with operators of constant level, whose         *)
(* arguments are the values of the variables.                              *)
(***************************************************************************)
EXTENDS DeviceJournal, TLAPS

St(m, h) == IF h = 0 THEN Empty ELSE m[h]
Within(s, t) ==
    s.operations \subseteq t.operations /\ s.envelopes \subseteq t.envelopes

\* One entry of the ledger, or envelopes, but not both.
Grown(s, t) ==
    \/ /\ \E e \in t.operations :
             /\ \A f \in s.operations : f.id # e.id
             /\ t.operations = s.operations \cup {e}
       /\ t.envelopes = s.envelopes
    \/ /\ t.operations = s.operations
       /\ s.envelopes \subseteq t.envelopes

Unique(t) ==
    /\ \A e, f \in t.operations : e.id = f.id => e = f
    /\ \A e, f \in t.envelopes : e.message = f.message => e = f

SealedOK(m) ==
    \A i \in 1..Len(m) :
        /\ m[i].previous \in 0..Len(m)
        /\ Grown(St(m, m[i].previous), m[i])
        /\ Unique(m[i])

RequestOK(r, m) == r.next \in 1..Len(m) /\ r.expected = m[r.next].previous

\* The record of a profile: its head was witnessed.
RecordOK(r, m, w) ==
    /\ r.head \in 0..Len(m)
    /\ r.pending \in 0..Len(m)
    /\ Within(St(m, r.head), St(m, w))

\* A call, with the record of its profile.
CallOK(c, r, m, w, a) ==
    /\ c.head \in 0..Len(m)
    /\ c.pending \in 0..Len(m)
    /\ c.own \in 0..Len(m)
    /\ Within(St(m, c.head), St(m, w))
    /\ c.known \subseteq a
    /\ c.pc \in {"cas", "reply", "publish"} =>
          c.pending # 0 /\ St(m, c.pending).previous = c.head
    /\ c.pc = "publish" => Within(St(m, c.pending), St(m, w))
    /\ c.pc = "publish" => c.known \subseteq St(m, c.pending).operations
    /\ c.pc = "loaded" => c.own = 0
    /\ c.pc = "loaded" => c.known \subseteq St(m, c.head).operations
    /\ c.pc = "done" => c.own = c.head
    /\ c.own # 0 /\ c.pc = "read" => r.pending = c.own
    /\ c.own # 0 /\ c.pc \in {"witness", "cas", "reply", "publish"} =>
          c.pending = c.own

RequestsOK == \A r \in inflight : RequestOK(r, made)
RecordsOK == \A p \in Profile : RecordOK(db[p], made, witness)
CallsOK == \A p \in Profile : CallOK(call[p], db[p], made, witness, answered)
WitnessedOK ==
    /\ answered \subseteq St(made, witness).operations
    /\ released \subseteq St(made, witness).envelopes

IInv ==
    /\ TypeOK
    /\ SealedOK(made)
    /\ RequestsOK
    /\ RecordsOK
    /\ CallsOK
    /\ WitnessedOK

-----------------------------------------------------------------------------
(* Sealed states.                                                          *)

LEMMA StateIsSt == \A h : State(h) = St(made, h)
  BY DEF State, St

LEMMA IdleFacts ==
    /\ Idle \in Call
    /\ Idle.pc = "idle" /\ Idle.head = 0 /\ Idle.pending = 0
    /\ Idle.own = 0 /\ Idle.known = {}
    /\ Idle.id \in Op /\ Idle.intent \in Intent
  <1>1. (CHOOSE o \in Op : TRUE) \in Op /\ (CHOOSE i \in Intent : TRUE) \in Intent
    BY ConstantsAssumption
  <1> QED
    BY <1>1 DEF Idle, Call, Hash

LEMMA StType ==
    ASSUME NEW m \in Seq(Sealed), NEW h \in 0..Len(m)
    PROVE  St(m, h) \in Sealed
  <1>1. Empty \in Sealed
    BY DEF Empty, Sealed, Hash
  <1>2. CASE h = 0
    BY <1>1, <1>2 DEF St
  <1>3. CASE h # 0
    <2>1. h \in 1..Len(m)
      BY <1>3
    <2> QED
      BY <1>3, <2>1 DEF St
  <1> QED
    BY <1>2, <1>3

LEMMA EmptyIsUnique == Unique(Empty) /\ \A s \in Sealed : Within(Empty, s)
  BY DEF Unique, Empty, Within

LEMMA StUnique ==
    ASSUME NEW m \in Seq(Sealed), SealedOK(m), NEW h \in 0..Len(m)
    PROVE  Unique(St(m, h))
  <1>1. CASE h = 0
    BY <1>1, EmptyIsUnique DEF St
  <1>2. CASE h # 0
    <2>1. h \in 1..Len(m)
      BY <1>2
    <2> QED
      BY <1>2, <2>1 DEF St, SealedOK
  <1> QED
    BY <1>1, <1>2

LEMMA WithinTrans ==
    ASSUME NEW s, NEW t, NEW u, Within(s, t), Within(t, u)
    PROVE  Within(s, u)
  BY DEF Within

\* What a longer sequence of sealed states keeps.
Longer(m, n) ==
    /\ Len(m) <= Len(n)
    /\ \A h \in 0..Len(m) : St(n, h) = St(m, h)

LEMMA AppendSt ==
    ASSUME NEW m \in Seq(Sealed), NEW x \in Sealed
    PROVE  /\ Append(m, x) \in Seq(Sealed)
           /\ Len(Append(m, x)) = Len(m) + 1
           /\ Longer(m, Append(m, x))
           /\ St(Append(m, x), Len(m) + 1) = x
  <1> DEFINE n == Append(m, x)
  <1>1. n \in Seq(Sealed) /\ Len(n) = Len(m) + 1 /\ Len(m) \in Nat
    OBVIOUS
  <1>2. \A i \in 1..Len(m) : n[i] = m[i]
    OBVIOUS
  <1>3. n[Len(m) + 1] = x
    OBVIOUS
  <1> HIDE DEF n
  <1>4. \A h \in 0..Len(m) : St(n, h) = St(m, h)
    <2>1. ASSUME NEW h \in 0..Len(m)
          PROVE  h = 0 \/ h \in 1..Len(m)
      BY <1>1
    <2> QED
      BY <1>2, <2>1 DEF St
  <1>5. St(n, Len(m) + 1) = x
    BY <1>1, <1>3 DEF St
  <1>6. Longer(m, n)
    BY <1>1, <1>4 DEF Longer
  <1> QED
    BY <1>1, <1>5, <1>6 DEF n

LEMMA LongerReflexive == \A m \in Seq(Sealed) : Longer(m, m)
  BY DEF Longer

LEMMA SealedAppend ==
    ASSUME NEW m \in Seq(Sealed), SealedOK(m), NEW x \in Sealed,
           x.previous \in 0..Len(m), Grown(St(m, x.previous), x), Unique(x)
    PROVE  SealedOK(Append(m, x))
  <1> DEFINE n == Append(m, x)
  <1>1. /\ n \in Seq(Sealed) /\ Len(n) = Len(m) + 1
        /\ Longer(m, n) /\ St(n, Len(m) + 1) = x
    BY AppendSt
  <1> HIDE DEF n
  <1>2. Len(m) \in Nat
    OBVIOUS
  <1>3. SUFFICES ASSUME NEW i \in 1..Len(n)
                 PROVE  /\ n[i].previous \in 0..Len(n)
                        /\ Grown(St(n, n[i].previous), n[i])
                        /\ Unique(n[i])
    BY DEF SealedOK, n
  <1>4. n[i] = St(n, i)
    BY <1>1, <1>2 DEF St
  <1>5. CASE i = Len(m) + 1
    <2>1. n[i] = x
      BY <1>1, <1>4, <1>5
    <2>2. St(n, x.previous) = St(m, x.previous)
      BY <1>1 DEF Longer
    <2> QED
      BY <1>1, <1>2, <2>1, <2>2
  <1>6. CASE i # Len(m) + 1
    <2>1. i \in 1..Len(m)
      BY <1>1, <1>2, <1>6
    <2>2. n[i] = m[i]
      BY <1>1, <1>2, <1>4, <2>1 DEF Longer, St
    <2>3. m[i].previous \in 0..Len(m) /\ Grown(St(m, m[i].previous), m[i]) /\ Unique(m[i])
      BY <2>1 DEF SealedOK
    <2>4. St(n, m[i].previous) = St(m, m[i].previous)
      BY <1>1, <2>3 DEF Longer
    <2> QED
      BY <1>1, <1>2, <2>2, <2>3, <2>4
  <1> QED
    BY <1>5, <1>6

LEMMA GrownWithin ==
    ASSUME NEW s, NEW t, Grown(s, t)
    PROVE  Within(s, t)
  BY DEF Grown, Within

\* What #persist seals extends what the call had loaded.
LEMMA CandidateExtends ==
    ASSUME NEW c \in Call, NEW s \in Sealed, NEW n \in Nat, Unique(s),
           c.kind = "request" => Entry(s, c.id) = {}
    PROVE  /\ Candidate(c, s, n) \in Sealed
           /\ Candidate(c, s, n).previous = c.head
           /\ Grown(s, Candidate(c, s, n))
           /\ Unique(Candidate(c, s, n))
  <1> DEFINE x == Candidate(c, s, n)
             o == [id |-> c.id, intent |-> c.intent, by |-> n]
             E == Envelopes(s, n)
  <1>1. /\ s.operations \subseteq Operation /\ s.envelopes \subseteq Envelope
        /\ c.head \in Nat /\ c.id \in Op /\ c.intent \in Intent
    BY DEF Sealed, Call, Hash
  <1>2. o \in Operation /\ o.id = c.id
    BY <1>1 DEF Operation, Hash
  <1>3. /\ E \subseteq Envelope
        /\ \A e \in E : e.stamp = n /\ \A f \in s.envelopes : f.message # e.message
    <2>1. Unstamped(s) \subseteq Op
      BY <1>1 DEF Unstamped, Operation
    <2>2. \A m \in Unstamped(s) : \A f \in s.envelopes : f.message # m
      BY DEF Unstamped
    <2>3. \A e \in E : e \in Envelope /\ e.stamp = n /\ e.message \in Unstamped(s)
      BY <2>1 DEF Envelopes, Envelope, Hash
    <2> QED
      BY <2>2, <2>3
  <1>4. \A e, f \in E : e.message = f.message => e = f
    BY DEF Envelopes
  <1>5. /\ x.previous = c.head
        /\ x.operations = IF c.kind # "request" THEN s.operations ELSE s.operations \cup {o}
        /\ x.envelopes = IF c.kind # "outbox" THEN s.envelopes ELSE s.envelopes \cup E
    BY DEF Candidate
  <1>6. x = [previous |-> x.previous, operations |-> x.operations,
             envelopes |-> x.envelopes]
    BY DEF Candidate
  <1> HIDE DEF x, o, E
  <1>7. x.operations \subseteq Operation /\ x.envelopes \subseteq Envelope
    BY <1>1, <1>2, <1>3, <1>5
  <1>8. x \in Sealed
    BY <1>1, <1>5, <1>6, <1>7 DEF Sealed, Hash
  <1>9. CASE c.kind = "request"
    <2>1. x.operations = s.operations \cup {o} /\ x.envelopes = s.envelopes
      BY <1>5, <1>9
    <2>2. \A f \in s.operations : f.id # o.id
      BY <1>2, <1>9 DEF Entry
    <2>3. Grown(s, x)
      BY <1>2, <2>1, <2>2 DEF Grown
    <2>4. Unique(x)
      BY <2>1, <2>2 DEF Unique
    <2> QED
      BY <1>5, <1>8, <2>3, <2>4 DEF x
  <1>10. CASE c.kind # "request"
    <2>1. x.operations = s.operations
      BY <1>5, <1>10
    <2>2. s.envelopes \subseteq x.envelopes
      BY <1>5
    <2>3. Grown(s, x)
      BY <2>1, <2>2 DEF Grown
    <2>4. \A e, f \in x.envelopes : e.message = f.message => e = f
      BY <1>3, <1>4, <1>5 DEF Unique
    <2>5. Unique(x)
      BY <2>1, <2>4 DEF Unique
    <2> QED
      BY <1>5, <1>8, <2>3, <2>5 DEF x
  <1> QED
    BY <1>9, <1>10
-----------------------------------------------------------------------------
(* What a step keeps.                                                      *)

LEMMA IdleOK ==
    ASSUME NEW m \in Seq(Sealed), NEW w \in 0..Len(m), NEW r, NEW a
    PROVE  CallOK(Idle, r, m, w, a)
  <1>1. St(m, w) \in Sealed /\ Len(m) \in Nat
    BY StType
  <1>2. Within(St(m, 0), St(m, w))
    BY <1>1, EmptyIsUnique DEF St
  <1> QED
    BY <1>1, <1>2, IdleFacts DEF CallOK

LEMMA CallKept ==
    ASSUME NEW c, NEW r, NEW s, NEW a, NEW b,
           NEW m \in Seq(Sealed), NEW w \in 0..Len(m),
           NEW n \in Seq(Sealed), NEW v \in 0..Len(n),
           CallOK(c, r, m, w, a),
           Longer(m, n), Within(St(m, w), St(n, v)), a \subseteq b,
           c.pc = "read" => s.pending = r.pending
    PROVE  CallOK(c, s, n, v, b)
  <1>1. Len(m) \in Nat /\ Len(n) \in Nat /\ Len(m) <= Len(n)
    BY DEF Longer
  <1>2. /\ c.head \in 0..Len(n) /\ c.pending \in 0..Len(n) /\ c.own \in 0..Len(n)
        /\ St(n, c.head) = St(m, c.head) /\ St(n, c.pending) = St(m, c.pending)
    BY <1>1 DEF CallOK, Longer
  <1>3. Within(St(n, c.head), St(n, v))
    BY <1>2, WithinTrans DEF CallOK
  <1>4. c.pc = "publish" => Within(St(n, c.pending), St(n, v))
    BY <1>2, WithinTrans DEF CallOK
  <1> QED
    BY <1>2, <1>3, <1>4 DEF CallOK

LEMMA RecordKept ==
    ASSUME NEW r,
           NEW m \in Seq(Sealed), NEW w \in 0..Len(m),
           NEW n \in Seq(Sealed), NEW v \in 0..Len(n),
           RecordOK(r, m, w), Longer(m, n), Within(St(m, w), St(n, v))
    PROVE  RecordOK(r, n, v)
  <1>1. Len(m) \in Nat /\ Len(n) \in Nat /\ Len(m) <= Len(n)
    BY DEF Longer
  <1>2. r.head \in 0..Len(n) /\ r.pending \in 0..Len(n) /\ St(n, r.head) = St(m, r.head)
    BY <1>1 DEF RecordOK, Longer
  <1>3. Within(St(n, r.head), St(n, v))
    BY <1>2, WithinTrans DEF RecordOK
  <1> QED
    BY <1>2, <1>3 DEF RecordOK

LEMMA RequestKept ==
    ASSUME NEW r, NEW m \in Seq(Sealed), NEW n \in Seq(Sealed),
           RequestOK(r, m), Longer(m, n)
    PROVE  RequestOK(r, n)
  <1>1. /\ Len(m) \in Nat /\ Len(n) \in Nat /\ Len(m) <= Len(n)
        /\ r.next \in 1..Len(m)
    BY DEF Longer, RequestOK
  <1>2. St(n, r.next) = St(m, r.next)
    BY <1>1 DEF Longer
  <1>3. n[r.next] = m[r.next]
    BY <1>1, <1>2 DEF St
  <1> QED
    BY <1>1, <1>3 DEF RequestOK

LEMMA WithinReflexive == \A s : Within(s, s)
  BY DEF Within

\* The ledger of the witnessed head is typed.
LEMMA WitnessedType ==
    ASSUME TypeOK
    PROVE  /\ St(made, witness) \in Sealed
           /\ St(made, witness).operations \subseteq Operation
           /\ St(made, witness).envelopes \subseteq Envelope
  <1>1. St(made, witness) \in Sealed
    BY StType DEF TypeOK
  <1> QED
    BY <1>1 DEF Sealed

\* A step of a call that leaves the sealed states, the witness and the records
\* alone; it may send requests and return what is in the ledger.
LEMMA Move ==
    ASSUME IInv, NEW p \in Profile, NEW c \in Call, Goto(p, c),
           UNCHANGED <<made, witness, db, holders, copies>>,
           answered \subseteq answered',
           answered' \subseteq St(made, witness).operations,
           released' \subseteq St(made, witness).envelopes,
           inflight' \subseteq [expected : Hash, next : Hash],
           \A r \in inflight' : RequestOK(r, made),
           faults' \in 0..MaxFaults,
           CallOK(c, db[p], made, witness, answered')
    PROVE  IInv'
  <1>1. TypeOK /\ made \in Seq(Sealed) /\ witness \in 0..Len(made)
    BY DEF IInv, TypeOK
  <1>2. call' = [call EXCEPT ![p] = c] /\ call' \in [Profile -> Call]
    BY <1>1 DEF Goto, TypeOK
  <1>3. TypeOK'
    BY <1>1, <1>2, WitnessedType DEF TypeOK
  <1>4. SealedOK(made)' /\ RecordsOK' /\ RequestsOK'
    BY DEF IInv, RecordsOK, RequestsOK
  <1>5. CallsOK'
    <2>1. SUFFICES ASSUME NEW q \in Profile
                   PROVE  CallOK(call'[q], db[q], made, witness, answered')
      BY DEF CallsOK
    <2>2. CASE q = p
      BY <1>2, <2>2
    <2>3. CASE q # p
      <3>1. call'[q] = call[q]
        BY <1>1, <1>2, <2>3 DEF TypeOK
      <3>2. CallOK(call[q], db[q], made, witness, answered)
        BY DEF IInv, CallsOK
      <3>3. Longer(made, made) /\ Within(St(made, witness), St(made, witness))
        BY <1>1, LongerReflexive, WithinReflexive
      <3> QED
        BY <1>1, <3>1, <3>2, <3>3, CallKept
    <2> QED
      BY <2>2, <2>3
  <1>6. WitnessedOK'
    BY DEF WitnessedOK
  <1> QED
    BY <1>3, <1>4, <1>5, <1>6 DEF IInv

\* A step that only moves a call.
LEMMA Quiet ==
    ASSUME IInv, NEW p \in Profile, NEW c \in Call, Goto(p, c), Local,
           CallOK(c, db[p], made, witness, answered)
    PROVE  IInv'
  <1>1. UNCHANGED <<made, witness, db, inflight, answered, released, holders,
                    faults, copies>>
    BY DEF Local, others
  <1>2. /\ answered' \subseteq St(made, witness).operations
        /\ released' \subseteq St(made, witness).envelopes
        /\ \A r \in inflight' : RequestOK(r, made)
        /\ faults' \in 0..MaxFaults
        /\ inflight' \subseteq [expected : Hash, next : Hash]
    BY <1>1 DEF IInv, WitnessedOK, RequestsOK, TypeOK
  <1> QED
    BY <1>1, <1>2, Move

\* A call that ends with nothing to show.
LEMMA FailKeeps ==
    ASSUME IInv, NEW p \in Profile, Fail(p), Local
    PROVE  IInv'
  <1>1. made \in Seq(Sealed) /\ witness \in 0..Len(made)
    BY DEF IInv, TypeOK
  <1>2. CallOK(Idle, db[p], made, witness, answered)
    BY <1>1, IdleOK
  <1> QED
    BY <1>2, IdleFacts, Quiet DEF Fail

\* A step of a call that writes the record of its profile and may seal a state.
LEMMA Write ==
    ASSUME IInv, NEW p \in Profile, NEW c \in Call, NEW r \in Record,
           call' = [call EXCEPT ![p] = c], db' = [db EXCEPT ![p] = r],
           UNCHANGED <<witness, inflight, others>>,
           made' \in Seq(Sealed), SealedOK(made'), Longer(made, made'),
           RecordOK(r, made', witness), CallOK(c, r, made', witness, answered)
    PROVE  IInv'
  <1>1. /\ made \in Seq(Sealed) /\ witness \in 0..Len(made)
        /\ db \in [Profile -> Record] /\ call \in [Profile -> Call]
        /\ Len(made) \in Nat /\ Len(made') \in Nat
    BY DEF IInv, TypeOK
  <1>2. /\ witness' = witness /\ inflight' = inflight /\ answered' = answered
        /\ released' = released /\ holders' = holders /\ faults' = faults
        /\ copies' = copies
    BY DEF others
  <1>3. witness \in 0..Len(made') /\ St(made', witness) = St(made, witness)
    BY <1>1 DEF Longer
  <1>4. Within(St(made, witness), St(made', witness))
    BY <1>3, WithinReflexive
  <1>5. TypeOK'
    BY <1>1, <1>2, <1>3 DEF IInv, TypeOK
  <1>6. RequestsOK'
    BY <1>1, <1>2, RequestKept DEF IInv, RequestsOK
  <1>7. RecordsOK'
    <2>1. SUFFICES ASSUME NEW q \in Profile
                   PROVE  RecordOK(db'[q], made', witness)
      BY <1>2 DEF RecordsOK
    <2>2. CASE q = p
      BY <1>1, <2>2
    <2>3. CASE q # p
      <3>1. db'[q] = db[q] /\ RecordOK(db[q], made, witness)
        BY <1>1, <2>3 DEF IInv, RecordsOK
      <3> QED
        BY <1>1, <1>3, <1>4, <3>1, RecordKept
    <2> QED
      BY <2>2, <2>3
  <1>8. CallsOK'
    <2>1. SUFFICES ASSUME NEW q \in Profile
                   PROVE  CallOK(call'[q], db'[q], made', witness, answered)
      BY <1>2 DEF CallsOK
    <2>2. CASE q = p
      BY <1>1, <2>2
    <2>3. CASE q # p
      <3>1. /\ call'[q] = call[q] /\ db'[q] = db[q]
            /\ CallOK(call[q], db[q], made, witness, answered)
        BY <1>1, <2>3 DEF IInv, CallsOK
      <3> QED
        BY <1>1, <1>3, <1>4, <3>1, CallKept
    <2> QED
      BY <2>2, <2>3
  <1>9. WitnessedOK'
    BY <1>2, <1>3 DEF IInv, WitnessedOK
  <1> QED
    BY <1>5, <1>6, <1>7, <1>8, <1>9 DEF IInv

Pc == {"idle", "read", "witness", "cas", "reply", "publish", "loaded", "done"}

LEMMA SetPc ==
    ASSUME NEW c \in Call, NEW pc \in Pc
    PROVE  LET d == [c EXCEPT !.pc = pc]
           IN  /\ d \in Call /\ d.pc = pc /\ d.kind = c.kind
               /\ d.head = c.head /\ d.pending = c.pending
               /\ d.own = c.own /\ d.known = c.known
  BY DEF Call, Pc

\* The facts of the invariant every step of a call starts from.
LEMMA CallFacts ==
    ASSUME IInv, NEW p \in Profile
    PROVE  /\ made \in Seq(Sealed) /\ Len(made) \in Nat
           /\ witness \in 0..Len(made)
           /\ call[p] \in Call
           /\ db[p] \in Record
           /\ CallOK(call[p], db[p], made, witness, answered)
           /\ RecordOK(db[p], made, witness)
           /\ SealedOK(made)
           /\ answered \subseteq St(made, witness).operations
           /\ released \subseteq St(made, witness).envelopes
  BY DEF IInv, TypeOK, CallsOK, RecordsOK, WitnessedOK

-----------------------------------------------------------------------------
(* The steps.                                                              *)

LEMMA BeginKeeps ==
    ASSUME IInv, NEW p \in Profile, Begin(p)
    PROVE  IInv'
  <1>1. PICK k \in {"bootstrap", "request", "outbox"}, r \in Requests :
          Goto(p, [Idle EXCEPT !.pc = "read", !.kind = k, !.known = answered,
                       !.id = IF k = "request" THEN r[1] ELSE Idle.id,
                       !.intent = IF k = "request" THEN r[2] ELSE Idle.intent])
    BY DEF Begin
  <1> DEFINE i == IF k = "request" THEN r[1] ELSE Idle.id
             t == IF k = "request" THEN r[2] ELSE Idle.intent
             c == [Idle EXCEPT !.pc = "read", !.kind = k, !.known = answered,
                               !.id = i, !.intent = t]
  <1>2. i \in Op /\ t \in Intent /\ answered \subseteq Operation
    BY ConstantsAssumption, IdleFacts DEF IInv, TypeOK
  <1>3. Goto(p, c)
    BY <1>1
  <1> HIDE DEF i, t
  <1>4. /\ c \in Call /\ c.pc = "read" /\ c.head = 0 /\ c.pending = 0
        /\ c.own = 0 /\ c.known = answered
    BY <1>2, IdleFacts DEF Call
  <1> HIDE DEF c
  <1>5. CallOK(Idle, db[p], made, witness, answered)
    BY CallFacts, IdleOK
  <1>6. CallOK(c, db[p], made, witness, answered)
    BY <1>4, <1>5, IdleFacts DEF CallOK
  <1> QED
    BY <1>3, <1>4, <1>6, Quiet DEF Begin

LEMMA ReadRecordKeeps ==
    ASSUME IInv, NEW p \in Profile, ReadRecord(p)
    PROVE  IInv'
  <1> DEFINE c == [call[p] EXCEPT !.pc = "witness", !.head = db[p].head,
                                  !.pending = db[p].pending]
  <1>1. Goto(p, c) /\ call[p].pc = "read"
    BY DEF ReadRecord, At
  <1>2. db[p].head \in Nat /\ db[p].pending \in Nat
    BY CallFacts DEF Record, Hash
  <1>3. /\ c \in Call /\ c.pc = "witness" /\ c.head = db[p].head
        /\ c.pending = db[p].pending /\ c.own = call[p].own
        /\ c.known = call[p].known
    BY <1>2, CallFacts DEF Call, Hash
  <1> HIDE DEF c
  <1>4. CallOK(c, db[p], made, witness, answered)
    BY <1>1, <1>3, CallFacts DEF CallOK, RecordOK
  <1> QED
    BY <1>1, <1>3, <1>4, Quiet DEF ReadRecord

LEMMA ReadWitnessKeeps ==
    ASSUME IInv, NEW p \in Profile, ReadWitness(p)
    PROVE  IInv'
  <1> DEFINE n == Decide(call[p], witness)
             c == [call[p] EXCEPT !.pc = n]
  <1>1. call[p].pc = "witness" /\ Local
    BY DEF ReadWitness, At
  <1>2. CASE n = "idle"
    BY <1>1, <1>2, FailKeeps DEF ReadWitness
  <1>3. CASE n # "idle"
    <2>1. Goto(p, c)
      BY <1>3 DEF ReadWitness
    <2>2. /\ n \in {"done", "loaded", "publish", "cas"}
          /\ n \in {"done", "loaded"} =>
                /\ call[p].pending = 0 /\ call[p].head = witness
                /\ n = AfterSync(call[p])
          /\ n \in {"publish", "cas"} =>
                /\ call[p].pending # 0
                /\ State(call[p].pending).previous = call[p].head
          /\ n = "publish" => witness = call[p].pending
      BY <1>3 DEF Decide, AfterSync
    <2> HIDE DEF n
    <2>3. /\ c \in Call /\ c.pc = n
          /\ c.head = call[p].head /\ c.pending = call[p].pending
          /\ c.own = call[p].own /\ c.known = call[p].known
      <3>1. n \in Pc /\ call[p] \in Call
        BY <2>2, CallFacts DEF Pc
      <3> QED
        BY <3>1, SetPc
    <2> HIDE DEF c
    <2>4. call[p].own # 0 => call[p].pending # 0
      BY <1>1, CallFacts DEF CallOK
    <2>5. n # "done" /\ n = "loaded" => call[p].own = 0
      BY <2>2, <2>4 DEF AfterSync
    <2>6. n # "done"
      BY <2>2, <2>4 DEF AfterSync
    <2>7. CallOK(c, db[p], made, witness, answered)
      <3>1. n \in {"loaded", "publish", "cas"}
        BY <2>2, <2>6
      <3>2. n = "loaded" => /\ call[p].own = 0
                            /\ call[p].known \subseteq St(made, call[p].head).operations
        BY <2>2, <2>5, <2>6, CallFacts DEF CallOK
      <3>3. n = "publish" =>
               /\ Within(St(made, call[p].pending), St(made, witness))
               /\ call[p].known \subseteq St(made, call[p].pending).operations
        BY <2>2, CallFacts, WithinReflexive DEF CallOK
      <3> QED
        BY <1>1, <2>2, <2>3, <3>1, <3>2, <3>3, CallFacts, StateIsSt DEF CallOK
    <2> QED
      BY <1>1, <2>1, <2>3, <2>7, Quiet
  <1> QED
    BY <1>2, <1>3
LEMMA SendCasKeeps ==
    ASSUME IInv, NEW p \in Profile, SendCas(p)
    PROVE  IInv'
  <1> DEFINE c == [call[p] EXCEPT !.pc = "reply"]
             r == [expected |-> call[p].head, next |-> call[p].pending]
  <1>1. /\ Goto(p, c) /\ call[p].pc = "cas" /\ inflight' = inflight \cup {r}
        /\ UNCHANGED <<made, witness, db, answered, released, holders, faults, copies>>
    BY DEF SendCas, At, CasOf, others
  <1>2. call[p] \in Call /\ "reply" \in Pc
    BY CallFacts DEF Pc
  <1>3. /\ c \in Call /\ c.pc = "reply"
        /\ c.head = call[p].head /\ c.pending = call[p].pending
        /\ c.own = call[p].own /\ c.known = call[p].known
    BY <1>2, SetPc
  <1>4. r \in [expected : Hash, next : Hash] /\ r.next = call[p].pending /\ r.expected = call[p].head
    BY <1>2 DEF Call
  <1> HIDE DEF c, r
  <1>5. CallOK(c, db[p], made, witness, answered')
    BY <1>1, <1>3, CallFacts DEF CallOK
  <1>6. RequestOK(r, made)
    <2>1. r.next # 0 /\ r.next \in 0..Len(made) /\ St(made, r.next).previous = r.expected
      BY <1>1, <1>4, CallFacts DEF CallOK
    <2> QED
      BY <2>1, CallFacts DEF RequestOK, St
  <1>7. \A x \in inflight' : RequestOK(x, made)
    BY <1>1, <1>6 DEF IInv, RequestsOK
  <1>8. /\ inflight' \subseteq [expected : Hash, next : Hash]
        /\ faults' \in 0..MaxFaults
    BY <1>1, <1>4 DEF IInv, TypeOK
  <1>9. answered' = answered /\ released' = released
    BY <1>1
  <1> QED
    BY <1>1, <1>3, <1>5, <1>7, <1>8, <1>9, CallFacts, Move

LEMMA ReplyKeeps ==
    ASSUME IInv, NEW p \in Profile, Reply(p)
    PROVE  IInv'
  <1> DEFINE c == [call[p] EXCEPT !.pc = "publish"]
  <1>1. call[p].pc = "reply" /\ Local
    BY DEF Reply, At
  <1>2. CASE witness # call[p].pending
    BY <1>1, <1>2, FailKeeps DEF Reply
  <1>3. CASE witness = call[p].pending
    <2>1. Goto(p, c)
      BY <1>3 DEF Reply
    <2>2. call[p] \in Call /\ "publish" \in Pc
      BY CallFacts DEF Pc
    <2>3. /\ c \in Call /\ c.pc = "publish"
          /\ c.head = call[p].head /\ c.pending = call[p].pending
          /\ c.own = call[p].own /\ c.known = call[p].known
      BY <2>2, SetPc
    <2> HIDE DEF c
    <2>4. /\ Within(St(made, call[p].pending), St(made, witness))
          /\ call[p].known \subseteq St(made, call[p].pending).operations
      BY <1>3, CallFacts, WithinReflexive DEF CallOK
    <2>5. CallOK(c, db[p], made, witness, answered)
      BY <1>1, <2>3, <2>4, CallFacts DEF CallOK
    <2> QED
      BY <1>1, <2>1, <2>3, <2>5, Quiet
  <1> QED
    BY <1>2, <1>3

LEMMA PublishKeeps ==
    ASSUME IInv, NEW p \in Profile, Publish(p)
    PROVE  IInv'
  <1>1. call[p].pc = "publish" /\ UNCHANGED <<made, witness, inflight, others>>
    BY DEF Publish, At
  <1>2. CASE db[p] # [head |-> call[p].head, pending |-> call[p].pending]
    BY <1>1, <1>2, FailKeeps DEF Publish, Local
  <1>3. CASE db[p] = [head |-> call[p].head, pending |-> call[p].pending]
    <2> DEFINE c == [call[p] EXCEPT !.pc = AfterSync(call[p]),
                                    !.head = call[p].pending, !.pending = 0]
               r == [head |-> call[p].pending, pending |-> 0]
    <2>1. call' = [call EXCEPT ![p] = c] /\ db' = [db EXCEPT ![p] = r]
      BY <1>3 DEF Publish, Goto
    <2>2. call[p] \in Call /\ call[p].pending \in Nat
      BY CallFacts DEF Call, Hash
    <2>3. AfterSync(call[p]) = IF call[p].own # 0 THEN "done" ELSE "loaded"
      BY DEF AfterSync
    <2>4. /\ c \in Call /\ c.pc = IF call[p].own # 0 THEN "done" ELSE "loaded"
          /\ c.head = call[p].pending /\ c.pending = 0
          /\ c.own = call[p].own /\ c.known = call[p].known
      BY <2>2, <2>3 DEF Call, Hash
    <2>5. r \in Record /\ r.head = call[p].pending /\ r.pending = 0
      BY <2>2 DEF Record, Hash
    <2> HIDE DEF c, r
    <2>6. CallOK(c, r, made, witness, answered)
      BY <1>1, <2>4, CallFacts DEF CallOK
    <2>7. RecordOK(r, made, witness)
      BY <1>1, <2>5, CallFacts DEF CallOK, RecordOK
    <2>8. made' = made /\ Longer(made, made)
      BY <1>1, CallFacts, LongerReflexive
    <2> QED
      BY <1>1, <2>1, <2>4, <2>5, <2>6, <2>7, <2>8, CallFacts, Write
  <1> QED
    BY <1>2, <1>3

LEMMA PersistKeeps ==
    ASSUME IInv, NEW p \in Profile, Persist(p), call[p].pc = "loaded",
           call[p].kind = "request" => Fresh(p)
    PROVE  IInv'
  <1> DEFINE n == Len(made) + 1
             s == St(made, call[p].head)
             x == Candidate(call[p], s, n)
  <1>1. /\ made' = Append(made, x)
        /\ UNCHANGED <<witness, inflight, others>>
    BY StateIsSt DEF Persist
  <1>2. /\ call[p] \in Call /\ call[p].head \in 0..Len(made) /\ n \in Nat
        /\ n # 0
    BY CallFacts DEF CallOK
  <1>3. s \in Sealed /\ Unique(s)
    BY <1>2, CallFacts, StType, StUnique
  <1>4. call[p].kind = "request" => Entry(s, call[p].id) = {}
    BY StateIsSt DEF Fresh
  <1> HIDE DEF s
  <1>5. x \in Sealed /\ x.previous = call[p].head /\ Grown(s, x) /\ Unique(x)
    BY <1>2, <1>3, <1>4, CandidateExtends
  <1> HIDE DEF x
  <1>6. SealedOK(Append(made, x))
    BY <1>2, <1>5, CallFacts, SealedAppend DEF s
  <1>7. /\ made' \in Seq(Sealed) /\ Len(made') = n /\ Longer(made, made')
        /\ SealedOK(made')
    BY <1>1, <1>5, <1>6, CallFacts, AppendSt
  <1>8. /\ witness \in 0..Len(made')
        /\ Within(St(made, witness), St(made', witness))
        /\ Within(St(made', call[p].head), St(made', witness))
    BY <1>2, <1>7, CallFacts, WithinReflexive DEF Longer, CallOK
  <1>9. CASE db[p] = [head |-> call[p].head, pending |-> 0]
    <2> DEFINE c == [call[p] EXCEPT !.pc = "read", !.own = n]
               r == [head |-> call[p].head, pending |-> n]
    <2>1. call' = [call EXCEPT ![p] = c]
      BY <1>9 DEF Persist, Goto
    <2>2. db' = [db EXCEPT ![p].pending = n]
      BY <1>9 DEF Persist
    <2>3. [db[p] EXCEPT !.pending = n] = r
      BY <1>9
    <2>4. db' = [db EXCEPT ![p] = r]
      BY <2>2, <2>3
    <2>5. /\ c \in Call /\ c.pc = "read" /\ c.head = call[p].head
          /\ c.pending = call[p].pending
          /\ c.own = n /\ c.known = call[p].known
      BY <1>2 DEF Call, Hash
    <2>6. r \in Record /\ r.head = call[p].head /\ r.pending = n
      BY <1>2 DEF Record, Hash
    <2> HIDE DEF c, r, n
    <2>7. CallOK(c, r, made', witness, answered)
      <3>1. call[p].pending \in 0..Len(made') /\ n \in 0..Len(made')
        BY <1>2, <1>7, CallFacts DEF CallOK, n
      <3>2. call[p].head \in 0..Len(made')
        BY <1>2, <1>7, CallFacts DEF n
      <3>3. call[p].known \subseteq answered
        BY CallFacts DEF CallOK
      <3> QED
        BY <1>8, <2>5, <2>6, <3>1, <3>2, <3>3 DEF CallOK
    <2>8. RecordOK(r, made', witness)
      BY <1>2, <1>7, <1>8, <2>6, CallFacts DEF RecordOK, n
    <2> QED
      BY <1>1, <1>7, <2>1, <2>4, <2>5, <2>6, <2>7, <2>8, Write
  <1>10. CASE db[p] # [head |-> call[p].head, pending |-> 0]
    <2>1. call' = [call EXCEPT ![p] = Idle] /\ db' = db
      BY <1>10 DEF Persist, Fail, Goto
    <2>2. db' = [db EXCEPT ![p] = db[p]]
      BY <2>1 DEF IInv, TypeOK
    <2>3. RecordOK(db[p], made', witness)
      BY <1>7, <1>8, CallFacts, RecordKept
    <2>4. CallOK(Idle, db[p], made', witness, answered)
      BY <1>7, <1>8, IdleOK
    <2> QED
      BY <1>1, <1>7, <2>1, <2>2, <2>3, <2>4, CallFacts, IdleFacts, Write
  <1> QED
    BY <1>9, <1>10
\* What a call returns is in the ledger of the witnessed head.
LEMMA LoadedWithin ==
    ASSUME IInv, NEW p \in Profile, call[p].pc \in {"loaded", "done"}
    PROVE  /\ State(call[p].head) \in Sealed
           /\ Unique(State(call[p].head))
           /\ State(call[p].head).operations \subseteq State(witness).operations
           /\ State(call[p].head).envelopes \subseteq State(witness).envelopes
           /\ call[p].pc = "done" => call[p].own = call[p].head
  <1>1. /\ call[p].head \in 0..Len(made)
        /\ Within(St(made, call[p].head), St(made, witness))
        /\ call[p].pc = "done" => call[p].own = call[p].head
    BY CallFacts DEF CallOK
  <1>2. St(made, call[p].head) \in Sealed /\ Unique(St(made, call[p].head))
    BY <1>1, CallFacts, StType, StUnique
  <1> QED
    BY <1>1, <1>2, StateIsSt DEF Within

\* A call that ends and returns entries of the ledger.
LEMMA EndKeeps ==
    ASSUME IInv, NEW p \in Profile, Goto(p, Idle),
           UNCHANGED <<made, witness, db, holders, copies>>,
           answered \subseteq answered',
           answered' \subseteq St(made, witness).operations,
           released' \subseteq St(made, witness).envelopes,
           inflight' \subseteq inflight,
           faults' \in 0..MaxFaults
    PROVE  IInv'
  <1>1. CallOK(Idle, db[p], made, witness, answered')
    BY CallFacts, IdleOK
  <1>2. /\ \A r \in inflight' : RequestOK(r, made)
        /\ inflight' \subseteq [expected : Hash, next : Hash]
    BY DEF IInv, RequestsOK, TypeOK
  <1> QED
    BY <1>1, <1>2, IdleFacts, Move

LEMMA ReplayKeeps ==
    ASSUME IInv, NEW p \in Profile, Replay(p)
    PROVE  IInv'
  <1>1. PICK e \in Entry(State(call[p].head), call[p].id) :
          IF e.intent = call[p].intent
          THEN answered' = answered \cup {e}
          ELSE UNCHANGED answered
    BY DEF Replay
  <1>2. e \in State(witness).operations
    BY <1>1, LoadedWithin DEF Entry, Replay, At
  <1>3. /\ answered \subseteq answered'
        /\ answered' \subseteq St(made, witness).operations
    BY <1>1, <1>2, StateIsSt, CallFacts
  <1>4. /\ inflight' = inflight /\ released' = released /\ faults' = faults
        /\ UNCHANGED <<made, witness, db, holders, copies>> /\ Goto(p, Idle)
    BY DEF Replay
  <1>5. faults \in 0..MaxFaults
    BY DEF IInv, TypeOK
  <1> QED
    BY <1>3, <1>4, <1>5, CallFacts, EndKeeps

LEMMA OutboxUnchangedKeeps ==
    ASSUME IInv, NEW p \in Profile, OutboxUnchanged(p)
    PROVE  IInv'
  <1>1. /\ inflight' = inflight /\ answered' = answered /\ faults' = faults
        /\ UNCHANGED <<made, witness, db, holders, copies>> /\ Goto(p, Idle)
        /\ released' = released \cup State(call[p].head).envelopes
        /\ call[p].pc = "loaded"
    BY DEF OutboxUnchanged, At
  <1>2. released' \subseteq St(made, witness).envelopes
    BY <1>1, LoadedWithin, CallFacts, StateIsSt
  <1>3. faults \in 0..MaxFaults
    BY DEF IInv, TypeOK
  <1> QED
    BY <1>1, <1>2, <1>3, CallFacts, EndKeeps

LEMMA ReturnKeeps ==
    ASSUME IInv, NEW p \in Profile, Return(p)
    PROVE  IInv'
  <1>1. /\ inflight' = inflight /\ faults' = faults
        /\ UNCHANGED <<made, witness, db, holders, copies>> /\ Goto(p, Idle)
        /\ call[p].pc = "done"
    BY DEF Return, At
  <1>2. /\ answered' = answered \cup
              IF call[p].kind = "request" THEN Entry(State(call[p].head), call[p].id) ELSE {}
        /\ released' = released \cup
              IF call[p].kind = "outbox" THEN State(call[p].head).envelopes ELSE {}
    BY <1>1, LoadedWithin DEF Return
  <1>3. /\ answered \subseteq answered'
        /\ answered' \subseteq St(made, witness).operations
        /\ released' \subseteq St(made, witness).envelopes
    BY <1>1, <1>2, LoadedWithin, CallFacts, StateIsSt DEF Entry
  <1>4. faults \in 0..MaxFaults
    BY DEF IInv, TypeOK
  <1> QED
    BY <1>1, <1>3, <1>4, EndKeeps

LEMMA InterruptKeeps ==
    ASSUME IInv, NEW p \in Profile, Interrupt(p)
    PROVE  IInv'
  <1>1. /\ inflight' \subseteq inflight
        /\ answered' = answered /\ released' = released
        /\ UNCHANGED <<made, witness, db, holders, copies>> /\ Goto(p, Idle)
    BY DEF Interrupt, Fail
  <1>2. faults' \in 0..MaxFaults
    BY ConstantsAssumption DEF IInv, TypeOK, Interrupt, Fault
  <1> QED
    BY <1>1, <1>2, CallFacts, EndKeeps

\* The witness moves from a state to one that extends it.
LEMMA ExecuteGrows ==
    ASSUME IInv, NEW r \in inflight, Execute(r)
    PROVE  /\ witness' \in 0..Len(made)
           /\ witness' # witness => Grown(St(made, witness), St(made, witness'))
           /\ Within(St(made, witness), St(made, witness'))
  <1>1. RequestOK(r, made) /\ SealedOK(made) /\ witness \in 0..Len(made) /\ Len(made) \in Nat
    BY DEF IInv, RequestsOK, TypeOK
  <1>2. CASE witness = r.expected
    <2>1. witness' = r.next
      BY <1>2 DEF Execute, Advance
    <2>2. /\ r.next \in 1..Len(made) /\ made[r.next].previous = witness
          /\ St(made, r.next) = made[r.next]
      BY <1>1, <1>2 DEF RequestOK, St
    <2>3. Grown(St(made, witness), St(made, r.next))
      BY <1>1, <2>2 DEF SealedOK
    <2> QED
      BY <1>1, <2>1, <2>2, <2>3, GrownWithin
  <1>3. CASE witness # r.expected
    BY <1>1, <1>3, WithinReflexive DEF Execute, Advance
  <1> QED
    BY <1>2, <1>3

LEMMA ExecuteKeeps ==
    ASSUME IInv, NEW r \in inflight, Execute(r)
    PROVE  IInv'
  <1>1. /\ made' = made /\ db' = db /\ call' = call /\ answered' = answered
        /\ released' = released /\ holders' = holders /\ faults' = faults
        /\ copies' = copies /\ inflight' = inflight \ {r}
    BY DEF Execute, others
  <1>2. /\ witness' \in 0..Len(made) /\ made \in Seq(Sealed) /\ witness \in 0..Len(made)
        /\ Within(St(made, witness), St(made, witness')) /\ Longer(made, made)
    BY ExecuteGrows, LongerReflexive DEF IInv, TypeOK
  <1>3. TypeOK' /\ SealedOK(made)'
    BY <1>1, <1>2 DEF IInv, TypeOK
  <1>4. RequestsOK'
    BY <1>1 DEF IInv, RequestsOK
  <1>5. RecordsOK'
    <2>1. SUFFICES ASSUME NEW p \in Profile
                   PROVE  RecordOK(db[p], made, witness')
      BY <1>1 DEF RecordsOK
    <2>2. RecordOK(db[p], made, witness)
      BY DEF IInv, RecordsOK
    <2> QED
      BY <1>2, <2>2, RecordKept
  <1>6. CallsOK'
    <2>1. SUFFICES ASSUME NEW p \in Profile
                   PROVE  CallOK(call[p], db[p], made, witness', answered)
      BY <1>1 DEF CallsOK
    <2>2. CallOK(call[p], db[p], made, witness, answered)
      BY DEF IInv, CallsOK
    <2> QED
      BY <1>2, <2>2, CallKept
  <1>7. WitnessedOK'
    BY <1>1, <1>2 DEF IInv, WitnessedOK, Within
  <1> QED
    BY <1>3, <1>4, <1>5, <1>6, <1>7 DEF IInv

LEMMA CopyProfileKeeps ==
    ASSUME IInv, NEW p \in Profile, NEW q \in Profile, CopyProfile(p, q)
    PROVE  IInv'
  <1>1. /\ made' = made /\ witness' = witness /\ call' = call
        /\ answered' = answered /\ released' = released
        /\ faults' = faults /\ inflight' = inflight
        /\ db' = [db EXCEPT ![q] = db[p]] /\ call[q].pc = "idle"
        /\ holders' = holders \cup {q}
    BY DEF CopyProfile, At
  <1>2. copies' \in 0..MaxCopies
    BY ConstantsAssumption DEF IInv, TypeOK, CopyProfile
  <1>3. TypeOK' /\ SealedOK(made)' /\ RequestsOK' /\ WitnessedOK'
    BY <1>1, <1>2 DEF IInv, TypeOK, RequestsOK, WitnessedOK
  <1>4. db \in [Profile -> Record]
    BY DEF IInv, TypeOK
  <1>5. RecordsOK'
    <2>1. \A x \in Profile : db'[x] = db[x] \/ db'[x] = db[p]
      BY <1>1, <1>4
    <2> QED
      BY <1>1, <2>1 DEF IInv, RecordsOK
  <1>6. CallsOK'
    <2>1. SUFFICES ASSUME NEW x \in Profile
                   PROVE  CallOK(call[x], db'[x], made, witness, answered)
      BY <1>1 DEF CallsOK
    <2>2. call[x].pc = "read" => db'[x].pending = db[x].pending
      BY <1>1, <1>4
    <2>3. CallOK(call[x], db[x], made, witness, answered)
      BY DEF IInv, CallsOK
    <2>4. Longer(made, made) /\ Within(St(made, witness), St(made, witness))
      BY CallFacts, LongerReflexive, WithinReflexive
    <2> QED
      BY <2>2, <2>3, <2>4, CallFacts, CallKept
  <1> QED
    BY <1>3, <1>5, <1>6 DEF IInv

LEMMA InitIInv == Init => IInv
  <1> SUFFICES ASSUME Init PROVE IInv
    OBVIOUS
  <1>1. made \in Seq(Sealed) /\ Len(made) = 0 /\ witness = 0
    BY DEF Init
  <1>2. Within(St(made, 0), St(made, 0))
    BY WithinReflexive
  <1>3. TypeOK
    BY <1>1, ConstantsAssumption, IdleFacts DEF Init, TypeOK, Record, Hash
  <1>4. SealedOK(made) /\ RequestsOK /\ WitnessedOK
    BY <1>1 DEF Init, SealedOK, RequestsOK, WitnessedOK
  <1>5. \A p \in Profile : db[p].head = 0 /\ db[p].pending = 0 /\ call[p] = Idle
    BY DEF Init
  <1>6. 0 \in 0..Len(made) /\ witness \in 0..Len(made)
    BY <1>1
  <1>7. RecordsOK
    BY <1>1, <1>2, <1>5, <1>6 DEF RecordsOK, RecordOK
  <1>8. CallsOK
    <2>1. \A p \in Profile : CallOK(Idle, db[p], made, witness, answered)
      BY <1>1, <1>6, IdleOK
    <2> QED
      BY <1>5, <2>1 DEF CallsOK
  <1> QED
    BY <1>3, <1>4, <1>7, <1>8 DEF IInv

LEMMA StutterKeeps == IInv /\ UNCHANGED vars => IInv'
  BY DEF IInv, vars, TypeOK, RequestsOK, RecordsOK, CallsOK, WitnessedOK

\* The invariant is inductive.
LEMMA NextIInv == IInv /\ [Next]_vars => IInv'
  <1> SUFFICES ASSUME IInv, [Next]_vars PROVE IInv'
    OBVIOUS
  <1>1. ASSUME NEW p \in Profile, Begin(p) PROVE IInv'
    BY <1>1, BeginKeeps
  <1>2. ASSUME NEW p \in Profile, Interrupt(p) PROVE IInv'
    BY <1>2, InterruptKeeps
  <1>3. ASSUME NEW p \in Profile, CallStep(p) PROVE IInv'
    <2>1. CASE ReadRecord(p)
      BY <2>1, ReadRecordKeeps
    <2>2. CASE ReadWitness(p)
      BY <2>2, ReadWitnessKeeps
    <2>3. CASE SendCas(p)
      BY <2>3, SendCasKeeps
    <2>4. CASE Reply(p)
      BY <2>4, ReplyKeeps
    <2>5. CASE Publish(p)
      BY <2>5, PublishKeeps
    <2>6. CASE Bootstrap(p)
      BY <2>6, PersistKeeps DEF Bootstrap, At
    <2>7. CASE Replay(p)
      BY <2>7, ReplayKeeps
    <2>8. CASE Request(p)
      BY <2>8, PersistKeeps DEF Request, At
    <2>9. CASE Outbox(p)
      BY <2>9, PersistKeeps DEF Outbox, At
    <2>10. CASE OutboxUnchanged(p)
      BY <2>10, OutboxUnchangedKeeps
    <2>11. CASE Refuse(p)
      BY <2>11, FailKeeps DEF Refuse
    <2>12. CASE Return(p)
      BY <2>12, ReturnKeeps
    <2> QED
      BY <1>3, <2>1, <2>2, <2>3, <2>4, <2>5, <2>6, <2>7, <2>8, <2>9, <2>10,
         <2>11, <2>12 DEF CallStep
  <1>4. ASSUME NEW r \in inflight, Execute(r) PROVE IInv'
    BY <1>4, ExecuteKeeps
  <1>5. ASSUME NEW p \in Profile, NEW q \in Profile, CopyProfile(p, q) PROVE IInv'
    BY <1>5, CopyProfileKeeps
  <1>6. CASE UNCHANGED vars
    BY <1>6, StutterKeeps
  <1> QED
    BY <1>1, <1>2, <1>3, <1>4, <1>5, <1>6 DEF Next

\* The inductive invariant holds of every reachable state.
THEOREM Inductive == Spec => []IInv
  BY InitIInv, NextIInv, PTL DEF Spec

\* Records, calls, requests and sealed states keep their types.
THEOREM TypeCorrect == Spec => []TypeOK
  <1>1. IInv => TypeOK
    BY DEF IInv
  <1> QED
    BY <1>1, Inductive, PTL

\* One operation has one receipt: request() answers from the ledger of a
\* witnessed head, whose ids are unique and which later heads only extend.
THEOREM OneReceiptHolds == Spec => []OneReceipt
  <1>1. IInv => OneReceipt
    <2> SUFFICES ASSUME IInv PROVE OneReceipt
      OBVIOUS
    <2>1. Unique(St(made, witness))
      BY StUnique DEF IInv, TypeOK
    <2> QED
      BY <2>1 DEF OneReceipt, IInv, WitnessedOK, Unique
  <1> QED
    BY <1>1, Inductive, PTL

\* A queued message is released with one envelope, whichever clone or retry
\* of invitationOutbox() and deliveryOutbox() released it.
THEOREM EnvelopesHold == Spec => []EnvelopesAreFixed
  <1>1. IInv => EnvelopesAreFixed
    <2> SUFFICES ASSUME IInv PROVE EnvelopesAreFixed
      OBVIOUS
    <2>1. Unique(St(made, witness))
      BY StUnique DEF IInv, TypeOK
    <2> QED
      BY <2>1 DEF EnvelopesAreFixed, IInv, WitnessedOK, Unique
  <1> QED
    BY <1>1, Inductive, PTL

\* What #synchronize returns holds every operation answered before the call.
THEOREM NoRollbackHolds == Spec => []NoRollback
  <1>1. IInv => NoRollback
    BY StateIsSt DEF IInv, CallsOK, CallOK, NoRollback
  <1> QED
    BY <1>1, Inductive, PTL
-----------------------------------------------------------------------------
(* The journal implements the ledger.                                      *)

LEMMA LedgerInit == Init => Ledger!Init
  BY DEF Init, Ledger!Init, State, Empty

\* A step that leaves the witnessed head and what was given out alone.
LEMMA LedgerStutter ==
    ASSUME State(witness)' = State(witness), UNCHANGED <<answered, released>>
    PROVE  UNCHANGED Ledger!vars
  BY DEF Ledger!vars

\* Only a new sealed state, an executed request and an answer can show.
LEMMA HeadKept ==
    ASSUME IInv, Longer(made, made'), witness' = witness
    PROVE  State(witness)' = State(witness)
  <1>1. St(made', witness) = St(made, witness)
    BY DEF Longer, IInv, TypeOK
  <1> QED
    BY <1>1 DEF State, St

LEMMA PersistStutters ==
    ASSUME IInv, NEW p \in Profile, Persist(p), call[p].pc = "loaded",
           call[p].kind = "request" => Fresh(p)
    PROVE  UNCHANGED Ledger!vars
  <1> DEFINE s == St(made, call[p].head)
             n == Len(made) + 1
             x == Candidate(call[p], s, n)
  <1>1. made' = Append(made, x) /\ witness' = witness /\ UNCHANGED <<answered, released>>
    BY StateIsSt DEF Persist, others
  <1>2. call[p].head \in 0..Len(made) /\ call[p] \in Call /\ n \in Nat
    BY CallFacts DEF CallOK
  <1>3. s \in Sealed /\ Unique(s)
    BY <1>2, CallFacts, StType, StUnique
  <1>4. call[p].kind = "request" => Entry(s, call[p].id) = {}
    BY StateIsSt DEF Fresh
  <1> HIDE DEF s
  <1>5. x \in Sealed
    BY <1>2, <1>3, <1>4, CandidateExtends
  <1> HIDE DEF x
  <1>6. Longer(made, made')
    BY <1>1, <1>5, CallFacts, AppendSt
  <1> QED
    BY <1>1, <1>6, HeadKept, LedgerStutter

LEMMA ReplayAnswers ==
    ASSUME IInv, NEW p \in Profile, Replay(p)
    PROVE  [Ledger!Next]_(Ledger!vars)
  <1>1. PICK e \in Entry(State(call[p].head), call[p].id) :
          IF e.intent = call[p].intent
          THEN answered' = answered \cup {e}
          ELSE UNCHANGED answered
    BY DEF Replay
  <1>2. e \in State(witness).operations
    BY <1>1, LoadedWithin DEF Entry, Replay, At
  <1>3. State(witness)' = State(witness) /\ released' = released
    BY DEF Replay, State
  <1>4. CASE answered' = answered \cup {e}
    <2>1. Ledger!Answer
      BY <1>2, <1>3, <1>4 DEF Ledger!Answer
    <2> QED
      BY <2>1 DEF Ledger!Next
  <1>5. CASE answered' = answered
    BY <1>3, <1>5, LedgerStutter
  <1> QED
    BY <1>1, <1>4, <1>5

LEMMA ReturnAnswers ==
    ASSUME IInv, NEW p \in Profile, Return(p)
    PROVE  [Ledger!Next]_(Ledger!vars)
  <1>1. call[p].pc = "done" /\ State(witness)' = State(witness)
    BY DEF Return, At, State
  <1>2. /\ answered' = answered \cup
              IF call[p].kind = "request" THEN Entry(State(call[p].head), call[p].id) ELSE {}
        /\ released' = released \cup
              IF call[p].kind = "outbox" THEN State(call[p].head).envelopes ELSE {}
    BY <1>1, LoadedWithin DEF Return
  <1>3. CASE call[p].kind = "request"
    <2> DEFINE E == Entry(State(call[p].head), call[p].id)
    <2>1. released' = released /\ answered' = answered \cup E
      BY <1>2, <1>3
    <2>2. /\ \A e, f \in E : e = f
          /\ E \subseteq State(witness).operations
      BY <1>1, LoadedWithin DEF Entry, Unique
    <2> HIDE DEF E
    <2>3. CASE E = {}
      <3>1. answered' = answered
        BY <2>1, <2>3
      <3> QED
        BY <1>1, <2>1, <3>1, LedgerStutter
    <2>4. CASE E # {}
      <3>1. PICK e \in E : E = {e}
        BY <2>2, <2>4
      <3>2. Ledger!Answer
        BY <1>1, <2>1, <2>2, <3>1 DEF Ledger!Answer
      <3> QED
        BY <3>2 DEF Ledger!Next
    <2> QED
      BY <2>3, <2>4
  <1>4. CASE call[p].kind = "outbox"
    <2>1. answered' = answered /\ released' = released \cup State(call[p].head).envelopes
      BY <1>2, <1>4
    <2>2. State(call[p].head).envelopes \in SUBSET State(witness).envelopes
      BY <1>1, LoadedWithin
    <2>3. Ledger!Release
      BY <1>1, <2>1, <2>2 DEF Ledger!Release
    <2> QED
      BY <2>3 DEF Ledger!Next
  <1>5. CASE call[p].kind \notin {"request", "outbox"}
    <2>1. answered' = answered /\ released' = released
      BY <1>2, <1>5
    <2> QED
      BY <1>1, <2>1, LedgerStutter
  <1> QED
    BY <1>3, <1>4, <1>5

LEMMA OutboxReleases ==
    ASSUME IInv, NEW p \in Profile, OutboxUnchanged(p)
    PROVE  Ledger!Release
  <1>1. /\ call[p].pc = "loaded" /\ State(witness)' = State(witness)
        /\ answered' = answered
        /\ released' = released \cup State(call[p].head).envelopes
    BY DEF OutboxUnchanged, At, State
  <1>2. State(call[p].head).envelopes \in SUBSET State(witness).envelopes
    BY <1>1, LoadedWithin
  <1> QED
    BY <1>1, <1>2 DEF Ledger!Release

LEMMA ExecuteExtends ==
    ASSUME IInv, NEW r \in inflight, Execute(r)
    PROVE  [Ledger!Next]_(Ledger!vars)
  <1> DEFINE s == St(made, witness)
             t == St(made, witness')
  <1>1. made' = made /\ UNCHANGED <<answered, released>>
    BY DEF Execute, others
  <1>2. State(witness) = s /\ State(witness)' = t
    BY <1>1 DEF State, St
  <1>3. Unique(t) /\ (witness' # witness => Grown(s, t))
    BY ExecuteGrows, StUnique DEF IInv, TypeOK
  <1>4. CASE witness' = witness
    BY <1>1, <1>2, <1>4, LedgerStutter
  <1>5. CASE witness' # witness
    <2>1. Grown(s, t)
      BY <1>3, <1>5
    <2> HIDE DEF s, t
    <2>2. CASE /\ \E e \in t.operations :
                     /\ \A f \in s.operations : f.id # e.id
                     /\ t.operations = s.operations \cup {e}
               /\ t.envelopes = s.envelopes
      <3>1. Ledger!Execute
        BY <1>1, <1>2, <2>2 DEF Ledger!Execute
      <3> QED
        BY <3>1 DEF Ledger!Next
    <2>3. CASE t.operations = s.operations /\ s.envelopes \subseteq t.envelopes
      <3>1. Ledger!Stamp
        BY <1>1, <1>2, <1>3, <2>3 DEF Ledger!Stamp, Unique
      <3> QED
        BY <3>1 DEF Ledger!Next
    <2> QED
      BY <2>1, <2>2, <2>3 DEF Grown
  <1> QED
    BY <1>4, <1>5

\* A step that seals nothing, executes nothing and returns nothing.
LEMMA UnseenStutters ==
    ASSUME UNCHANGED <<made, witness, answered, released>>
    PROVE  UNCHANGED Ledger!vars
  <1>1. State(witness)' = State(witness)
    BY DEF State
  <1> QED
    BY <1>1, LedgerStutter

LEMMA LedgerStep == IInv /\ [Next]_vars => [Ledger!Next]_(Ledger!vars)
  <1> SUFFICES ASSUME IInv, [Next]_vars PROVE [Ledger!Next]_(Ledger!vars)
    OBVIOUS
  <1>1. ASSUME NEW p \in Profile, Begin(p) \/ Interrupt(p)
        PROVE  [Ledger!Next]_(Ledger!vars)
    BY <1>1, UnseenStutters DEF Begin, Interrupt, Local, others
  <1>2. ASSUME NEW p \in Profile, CallStep(p)
        PROVE  [Ledger!Next]_(Ledger!vars)
    <2>1. CASE ReadRecord(p) \/ ReadWitness(p) \/ Reply(p) \/ Refuse(p)
      BY <2>1, UnseenStutters
         DEF ReadRecord, ReadWitness, Reply, Refuse, Local, others
    <2>2. CASE SendCas(p) \/ Publish(p)
      BY <2>2, UnseenStutters DEF SendCas, Publish, others
    <2>3. CASE Bootstrap(p)
      BY <2>3, PersistStutters DEF Bootstrap, At
    <2>4. CASE Request(p)
      BY <2>4, PersistStutters DEF Request, At
    <2>5. CASE Outbox(p)
      BY <2>5, PersistStutters DEF Outbox, At
    <2>6. CASE Replay(p)
      BY <2>6, ReplayAnswers
    <2>7. CASE OutboxUnchanged(p)
      BY <2>7, OutboxReleases DEF Ledger!Next
    <2>8. CASE Return(p)
      BY <2>8, ReturnAnswers
    <2> QED
      BY <1>2, <2>1, <2>2, <2>3, <2>4, <2>5, <2>6, <2>7, <2>8 DEF CallStep
  <1>3. ASSUME NEW r \in inflight, Execute(r)
        PROVE  [Ledger!Next]_(Ledger!vars)
    BY <1>3, ExecuteExtends
  <1>4. ASSUME NEW p \in Profile, NEW q \in Profile, CopyProfile(p, q)
        PROVE  [Ledger!Next]_(Ledger!vars)
    BY <1>4, UnseenStutters DEF CopyProfile
  <1>5. CASE UNCHANGED vars
    BY <1>5, UnseenStutters DEF vars
  <1> QED
    BY <1>1, <1>2, <1>3, <1>4, <1>5 DEF Next

\* Through tabs, clones, retries and late requests, request() and the outboxes
\* behave as one ledger: the one of the witnessed head.
THEOREM JournalImplementsLedger == Spec => ImplementsLedger
  BY LedgerInit, LedgerStep, Inductive, PTL
     DEF Spec, ImplementsLedger, Ledger!Spec
=============================================================================
