---------------------- MODULE ConversationStateProofs ----------------------
(***************************************************************************)
(* Proofs about ConversationState, for any offers and any limit on the     *)
(* retired groups.                                                         *)
(***************************************************************************)
EXTENDS ConversationState, FiniteSetTheorems, WellFoundedInduction, TLAPS

-----------------------------------------------------------------------------
(* Numbers and sequences.                                                  *)

\* A set of numbers that is not empty has a least member.
LEMMA Least ==
    ASSUME NEW T, T \subseteq Nat, T # {}
    PROVE  \E x \in T : \A y \in T : x <= y
  <1> DEFINE R == OpToRel(<, Nat)
  <1>1. IsWellFoundedOn(R, Nat)
    BY NatLessThanWellFounded
  <1>2. \A x, y \in Nat : <<x, y>> \in R <=> x < y
    BY DEF OpToRel
  <1> HIDE DEF R
  <1>3. \E x \in T : \A y \in T : <<y, x>> \notin R
    BY <1>1, WFMin
  <1>4. PICK x \in T : \A y \in T : <<y, x>> \notin R
    BY <1>3
  <1>5. ASSUME NEW y \in T PROVE x <= y
    <2>1. x \in Nat /\ y \in Nat /\ <<y, x>> \notin R
      BY <1>4
    <2>2. ~(y < x)
      BY <2>1, <1>2
    <2> QED BY <2>1, <2>2
  <1> QED BY <1>5

\* What holds at 1, and at the successor of each number up to n where it
\* holds, holds up to n.
LEMMA UpTo ==
    ASSUME NEW n \in Nat, NEW T, 1 \in T,
           \A k \in 1..n : k \in T /\ k + 1 <= n => k + 1 \in T
    PROVE  1..n \subseteq T
  <1> SUFFICES ASSUME (1..n) \ T # {} PROVE FALSE
    OBVIOUS
  <1>1. PICK x \in (1..n) \ T : \A y \in (1..n) \ T : x <= y
    <2> DEFINE D == (1..n) \ T
    <2>1. D \subseteq Nat /\ D # {}
      OBVIOUS
    <2> HIDE DEF D
    <2>2. \E x \in D : \A y \in D : x <= y
      BY <2>1, Least
    <2> QED BY <2>2 DEF D
  <1>2. x # 1 /\ x - 1 \in 1..n /\ (x - 1) + 1 = x
    BY <1>1
  <1>3. x - 1 \in T
    BY <1>1, <1>2
  <1> QED BY <1>1, <1>2, <1>3

\* Concatenation, by the members of the two sequences.
LEMMA ConcatSet ==
    ASSUME NEW S, NEW s \in Seq(S), NEW t \in Seq(S)
    PROVE  s \o t \in Seq(S) /\ ToSet(s \o t) = ToSet(s) \cup ToSet(t)
  <1>1. s \o t \in Seq(S) /\ Len(s \o t) = Len(s) + Len(t)
    OBVIOUS
  <1>2. \A i \in 1..(Len(s) + Len(t)) :
            (s \o t)[i] = IF i <= Len(s) THEN s[i] ELSE t[i - Len(s)]
    OBVIOUS
  <1>3. DOMAIN s = 1..Len(s) /\ DOMAIN t = 1..Len(t)
        /\ DOMAIN (s \o t) = 1..(Len(s) + Len(t))
    BY <1>1
  <1>4. \A x \in ToSet(s \o t) : x \in ToSet(s) \cup ToSet(t)
    <2> TAKE x \in ToSet(s \o t)
    <2>1. PICK i \in 1..(Len(s) + Len(t)) : x = (s \o t)[i]
      BY <1>3 DEF ToSet
    <2>2. CASE i <= Len(s)
      BY <2>1, <2>2, <1>2, <1>3 DEF ToSet
    <2>3. CASE ~(i <= Len(s))
      <3>1. i - Len(s) \in 1..Len(t)
        BY <2>3
      <3> QED BY <3>1, <2>1, <2>3, <1>2, <1>3 DEF ToSet
    <2> QED BY <2>2, <2>3
  <1>5. \A x \in ToSet(s) : x \in ToSet(s \o t)
    <2> TAKE x \in ToSet(s)
    <2>1. PICK i \in 1..Len(s) : x = s[i]
      BY <1>3 DEF ToSet
    <2>2. i \in 1..(Len(s) + Len(t)) /\ i <= Len(s)
      OBVIOUS
    <2> QED BY <2>1, <2>2, <1>2, <1>3 DEF ToSet
  <1>6. \A x \in ToSet(t) : x \in ToSet(s \o t)
    <2> TAKE x \in ToSet(t)
    <2>1. PICK i \in 1..Len(t) : x = t[i]
      BY <1>3 DEF ToSet
    <2>2. i + Len(s) \in 1..(Len(s) + Len(t)) /\ ~(i + Len(s) <= Len(s))
          /\ (i + Len(s)) - Len(s) = i
      OBVIOUS
    <2> QED BY <2>1, <2>2, <1>2, <1>3 DEF ToSet
  <1> QED BY <1>1, <1>4, <1>5, <1>6

\* FlattenSeq keeps the members of the sequences it joins, and no others.
LEMMA Flattened ==
    ASSUME NEW S, NEW ss \in Seq(Seq(S))
    PROVE  /\ FlattenSeq(ss) \in Seq(S)
           /\ ToSet(FlattenSeq(ss)) = UNION {ToSet(ss[i]) : i \in DOMAIN ss}
  <1> DEFINE n == Len(ss)
             Body(f, m) == [i \in 1..m |-> IF i = 1 THEN ss[i] ELSE f[i - 1] \o ss[i]]
             Parts(m) == UNION {ToSet(ss[i]) : i \in 1..m}
             T == {m \in 1..n : \E f : f = Body(f, m)}
  <1>0. n \in Nat /\ DOMAIN ss = 1..n /\ \A i \in 1..n : ss[i] \in Seq(S)
    OBVIOUS
  <1>1. CASE n = 0
    <2>1. FlattenSeq(ss) = ss /\ ss = <<>> /\ DOMAIN ss = {}
      BY <1>1, <1>0 DEF FlattenSeq
    <2> QED BY <2>1 DEF ToSet
  <1>2. CASE n # 0
    <2>1. 1 \in T
      <3> DEFINE g == [i \in 1..1 |-> ss[i]]
      <3>1. \A i \in 1..1 : g[i] = IF i = 1 THEN ss[i] ELSE g[i - 1] \o ss[i]
        OBVIOUS
      <3>2. g = [i \in 1..1 |-> g[i]]
        OBVIOUS
      <3> HIDE DEF g
      <3>3. g = Body(g, 1)
        BY <3>1, <3>2
      <3>4. \E f : f = Body(f, 1)
        BY <3>3
      <3>5. 1 \in 1..n
        BY <1>2, <1>0
      <3> QED BY <3>4, <3>5
    <2>2. ASSUME NEW m \in 1..n, m \in T, m + 1 <= n PROVE m + 1 \in T
      <3>1. PICK f : f = Body(f, m)
        BY <2>2
      <3> DEFINE g == [i \in 1..(m + 1) |-> IF i = m + 1 THEN f[m] \o ss[i] ELSE f[i]]
      <3>2. \A i \in 1..(m + 1) :
               g[i] = IF i = 1 THEN ss[i] ELSE g[i - 1] \o ss[i]
        <4> TAKE i \in 1..(m + 1)
        <4>1. CASE i = m + 1
          <5>1. i # 1 /\ i - 1 = m /\ m \in 1..(m + 1) /\ m # m + 1
            BY <4>1, <1>0
          <5> QED BY <5>1, <4>1
        <4>2. CASE i # m + 1
          <5>1. i \in 1..m /\ (i # 1 => i - 1 \in 1..(m + 1) /\ i - 1 # m + 1)
            BY <4>2, <1>0
          <5>2. f[i] = IF i = 1 THEN ss[i] ELSE f[i - 1] \o ss[i]
            BY <5>1, <3>1
          <5> QED BY <5>1, <5>2, <4>2
        <4> QED BY <4>1, <4>2
      <3> HIDE DEF g
      <3>3. g = Body(g, m + 1)
        <4>1. g = [i \in 1..(m + 1) |-> g[i]]
          BY DEF g
        <4> QED BY <4>1, <3>2
      <3>4. \E h : h = Body(h, m + 1)
        BY <3>3
      <3>5. m + 1 \in 1..n
        BY <2>2, <1>0
      <3> QED BY <3>4, <3>5
    <2>3. n \in T
      <3> HIDE DEF T, n
      <3>1. \A k \in 1..n : k \in T /\ k + 1 <= n => k + 1 \in T
        BY <2>2
      <3>2. 1..n \subseteq T
        BY <2>1, <3>1, <1>0, UpTo
      <3>3. n \in 1..n
        BY <1>0, <1>2
      <3> QED BY <3>2, <3>3
    <2> DEFINE flat == CHOOSE f : f = Body(f, n)
    <2>4. flat = Body(flat, n)
      <3>1. \E f : f = Body(f, n)
        BY <2>3
      <3> QED BY <3>1
    <2>5. FlattenSeq(ss) = flat[n]
      BY <1>2 DEF FlattenSeq
    <2> DEFINE U == {m \in 1..n : flat[m] \in Seq(S) /\ ToSet(flat[m]) = Parts(m)}
    <2> HIDE DEF flat, T
    <2>6. 1 \in U
      <3>1. flat[1] = ss[1] /\ 1 \in 1..n
        BY <2>4, <1>2, <1>0
      <3>2. 1..1 = {1}
        OBVIOUS
      <3> QED BY <3>1, <3>2, <1>0
    <2>7. ASSUME NEW m \in 1..n, m \in U, m + 1 <= n PROVE m + 1 \in U
      <3>1. m + 1 \in 1..n /\ m + 1 # 1 /\ (m + 1) - 1 = m
            /\ 1..(m + 1) = 1..m \cup {m + 1}
        BY <2>7, <1>0
      <3>2. flat[m + 1] = flat[m] \o ss[m + 1]
        BY <2>4, <3>1
      <3>3. flat[m] \in Seq(S) /\ ToSet(flat[m]) = Parts(m) /\ ss[m + 1] \in Seq(S)
        BY <2>7, <3>1, <1>0
      <3>4. flat[m + 1] \in Seq(S)
            /\ ToSet(flat[m + 1]) = ToSet(flat[m]) \cup ToSet(ss[m + 1])
        BY <3>2, <3>3, ConcatSet
      <3>5. Parts(m + 1) = Parts(m) \cup ToSet(ss[m + 1])
        BY <3>1
      <3> QED BY <3>1, <3>3, <3>4, <3>5
    <2>8. n \in U
      <3> HIDE DEF U, n
      <3>1. \A k \in 1..n : k \in U /\ k + 1 <= n => k + 1 \in U
        BY <2>7
      <3>2. 1..n \subseteq U
        BY <2>6, <3>1, <1>0, UpTo
      <3>3. n \in 1..n
        BY <1>0, <1>2
      <3> QED BY <3>2, <3>3
    <2> QED BY <2>5, <2>8, <1>0
  <1> QED BY <1>1, <1>2
-----------------------------------------------------------------------------
(* The inductive invariant.                                                *)

\* A channel is there from the first offer on.
InvitationOK ==
    invitation.offer = NoOffer \/ invitation.phase = "none" =>
        invitation = NoInvitation

\* No wire of another channel is queued unless the channel has failed.
OutboxOK ==
    ~Failed => \A w \in outbox : w.channel = invitation.offer

\* Stops are retired together, and the open ones have one origin.
StopsOrdered ==
    /\ Len(stops) <= MaxRetired
    /\ \A j, k \in DOMAIN stops : j < k =>
          /\ stops[j].phase # "stopping"
          /\ stops[j].next # stops[k].next
          /\ stops[j].phase # "retired" =>
                stops[k].phase # "retired" /\ stops[k].previous = stops[j].previous

\* What a stop bridges is not what it stopped from.
StopsApart ==
    \A k \in DOMAIN stops :
        /\ IsReplacement(stops[k].previous, stops[k].next)
        /\ stops[k].previous \notin ToSet(StopOffers(stops[k]))

\* The replacement that an open stop stopped: one that this device had
\* activated stays active, and no other one of this target is or becomes so.
StopsHold ==
    \A k \in OpenStops : \A j \in ReplacementOf(stops[k].next) :
        /\ replacements[j].previous = stops[k].previous
        /\ replacements[j].phase \notin {"cancelled", "cancelling", "recovering"}
        /\ ~stops[k].native => replacements[j].phase # "active"

\* A replacement that is under way and not stopped goes on from the stops that
\* were open when it was prepared.
UnderWay(r) ==
    r.phase \in {"prepared", "consented", "cancelling"} /\ StopOf(r.next) = {}
PendingOK ==
    \A i \in DOMAIN replacements : UnderWay(replacements[i]) =>
        /\ StoppedGroupsOK(replacements[i])
        /\ replacements[i].restart_from = NoOffer => OpenStops = {}

\* An engine that restore() accepts, with as many retired groups as counted.
EngineFit(e) == e \in Engine /\ IsFiniteSet(e.retired) /\ EngineOK(e)

IInv ==
    /\ TypeOK
    /\ InvitationOK
    /\ OutboxOK
    /\ ReplacementsOpen
    /\ StopsOrdered
    /\ StopsApart
    /\ StopsHold
    /\ PendingOK
    /\ RetirementsAgree
    /\ EngineFit(engine)
-----------------------------------------------------------------------------
(* Ledgers: one entry changed, one appended, all of them mapped.           *)

LEMMA Updated ==
    ASSUME NEW S, NEW s \in Seq(S), NEW i \in DOMAIN s, NEW v \in S
    PROVE  /\ [s EXCEPT ![i] = v] \in Seq(S)
           /\ DOMAIN [s EXCEPT ![i] = v] = DOMAIN s
           /\ Len([s EXCEPT ![i] = v]) = Len(s)
           /\ [s EXCEPT ![i] = v][i] = v
           /\ \A k \in DOMAIN s : k # i => [s EXCEPT ![i] = v][k] = s[k]
  OBVIOUS

LEMMA Appended ==
    ASSUME NEW S, NEW s \in Seq(S), NEW v \in S
    PROVE  /\ Append(s, v) \in Seq(S)
           /\ DOMAIN Append(s, v) = DOMAIN s \cup {Len(s) + 1}
           /\ Len(s) + 1 \notin DOMAIN s
           /\ Len(Append(s, v)) = Len(s) + 1
           /\ Append(s, v)[Len(s) + 1] = v
           /\ \A k \in DOMAIN s : Append(s, v)[k] = s[k]
  OBVIOUS

LEMMA Mapped ==
    ASSUME NEW S, NEW s \in Seq(S), NEW T, NEW f \in [DOMAIN s -> T]
    PROVE  /\ f \in Seq(T)
           /\ DOMAIN f = DOMAIN s
           /\ Len(f) = Len(s)
  OBVIOUS

LEMMA AppendSet ==
    ASSUME NEW S, NEW s \in Seq(S), NEW v \in S
    PROVE  ToSet(Append(s, v)) = ToSet(s) \cup {v}
  <1> DEFINE t == Append(s, v)
  <1>1. /\ DOMAIN t = DOMAIN s \cup {Len(s) + 1}
        /\ t[Len(s) + 1] = v
        /\ \A k \in DOMAIN s : t[k] = s[k]
    BY Appended
  <1> HIDE DEF t
  <1>2. ToSet(t) = ToSet(s) \cup {v}
    BY <1>1 DEF ToSet
  <1> QED BY <1>2 DEF t

\* The ledgers are ranges of numbers, and NoOffer is no offer.
LEMMA Domains ==
    ASSUME TypeOK
    PROVE  /\ DOMAIN recoveries = 1..Len(recoveries) /\ Len(recoveries) \in Nat
           /\ DOMAIN replacements = 1..Len(replacements) /\ Len(replacements) \in Nat
           /\ DOMAIN stops = 1..Len(stops) /\ Len(stops) \in Nat
           /\ \A i \in DOMAIN recoveries : recoveries[i] \in Recovery
           /\ \A i \in DOMAIN replacements : replacements[i] \in Replacement
           /\ \A i \in DOMAIN stops : stops[i] \in Stop
  BY DEF TypeOK

-----------------------------------------------------------------------------
(* The operators of the model.                                             *)

\* While stops are open, the newest stop is one of them.
LEMMA LastOpenIs ==
    ASSUME TypeOK, StopsOrdered, OpenStops # {}
    PROVE  /\ OpenStops \subseteq DOMAIN stops
           /\ Len(stops) \in OpenStops
           /\ LastOpen = Len(stops)
  <1>1. OpenStops \subseteq DOMAIN stops
    BY DEF OpenStops
  <1>2. PICK j \in OpenStops : TRUE
    OBVIOUS
  <1>3. /\ j \in 1..Len(stops) /\ DOMAIN stops = 1..Len(stops) /\ Len(stops) \in Nat
        /\ Len(stops) \in DOMAIN stops
        /\ stops[j].phase # "retired"
    BY <1>1, <1>2, Domains DEF OpenStops
  <1>4. Len(stops) \in OpenStops
    <2>0. j = Len(stops) \/ j < Len(stops)
      <3>1. \A n \in Nat : \A x \in 1..n : x = n \/ x < n
        OBVIOUS
      <3> QED BY <3>1, <1>3
    <2>1. CASE j = Len(stops)
      BY <2>1, <1>2
    <2>2. CASE j < Len(stops)
      BY <2>2, <1>3 DEF OpenStops, StopsOrdered
    <2> QED BY <2>0, <2>1, <2>2
  <1>5. \A k \in OpenStops : (\A i \in OpenStops : i <= k) <=> k = Len(stops)
    BY <1>1, <1>3, <1>4
  <1>6. LastOpen = Len(stops)
    BY <1>4, <1>5 DEF LastOpen
  <1> QED BY <1>1, <1>4, <1>6

LEMMA StopOffersAre ==
    ASSUME NEW s \in Stop
    PROVE  /\ StopOffers(s) \in Seq(Offer)
           /\ StopOffers(s) # <<>>
           /\ s.chain = <<>> => ToSet(StopOffers(s)) = {s.next}
  <1>1. s.next \in Offer /\ s.chain \in Seq(Offer)
    BY DEF Stop
  <1>2. ToSet(<<s.next>>) = {s.next}
    BY DEF ToSet
  <1> QED BY <1>1, <1>2 DEF StopOffers

\* What a replacement retires beside its origin: nothing, or what all open
\* stops fence.
LEMMA StoppedGroupsAre ==
    ASSUME TypeOK, NEW r
    PROVE  /\ StoppedGroups(r) \in Seq(Offer)
           /\ r.restart_from = NoOffer => StoppedGroups(r) = <<>>
           /\ r.restart_from # NoOffer =>
                 ToSet(StoppedGroups(r)) =
                    UNION {ToSet(StopOffers(stops[k])) : k \in OpenStops}
  <1>1. CASE r.restart_from = NoOffer
    BY <1>1 DEF StoppedGroups
  <1>2. CASE r.restart_from # NoOffer
    <2> DEFINE ss == [k \in DOMAIN stops |->
                         IF k \in OpenStops THEN StopOffers(stops[k]) ELSE <<>>]
    <2>1. \A k \in DOMAIN stops : StopOffers(stops[k]) \in Seq(Offer)
      BY Domains, StopOffersAre
    <2>2. ss \in [DOMAIN stops -> Seq(Offer)]
      BY <2>1
    <2>3. stops \in Seq(Stop)
      BY DEF TypeOK
    <2>4. DOMAIN ss = DOMAIN stops
          /\ \A k \in DOMAIN stops :
                ss[k] = IF k \in OpenStops THEN StopOffers(stops[k]) ELSE <<>>
      OBVIOUS
    <2>5. StoppedGroups(r) = FlattenSeq(ss)
      BY <1>2 DEF StoppedGroups
    <2> HIDE DEF ss
    <2>6. ss \in Seq(Seq(Offer))
      BY <2>2, <2>3, Mapped
    <2>7. /\ FlattenSeq(ss) \in Seq(Offer)
          /\ ToSet(FlattenSeq(ss)) = UNION {ToSet(ss[i]) : i \in DOMAIN ss}
      BY <2>6, Flattened
    <2>8. ToSet(<<>>) = {}
      BY DEF ToSet
    <2>9. OpenStops \subseteq DOMAIN stops
      BY DEF OpenStops
    <2>10. UNION {ToSet(ss[i]) : i \in DOMAIN ss} =
              UNION {ToSet(StopOffers(stops[k])) : k \in OpenStops}
      <3>1. \A i \in DOMAIN stops : i \notin OpenStops => ToSet(ss[i]) = {}
        BY <2>4, <2>8
      <3>2. \A i \in OpenStops : i \in DOMAIN ss /\ ToSet(ss[i]) = ToSet(StopOffers(stops[i]))
        BY <2>4, <2>9
      <3> QED BY <3>1, <3>2, <2>4
    <2> QED BY <1>2, <2>5, <2>7, <2>10
  <1> QED BY <1>1, <1>2

\* The root of a chain of recoveries.
LEMMA RootIs ==
    ASSUME NEW rs, NEW i \in Nat, Rooted(rs, i)
    PROVE  Root(rs, i) \in 1..i /\ IsRoot(rs, i, Root(rs, i))
  BY DEF Rooted, Root

LEMMA ChainOffersAre ==
    ASSUME NEW rs \in Seq(Recovery), NEW i \in DOMAIN rs, Rooted(rs, i)
    PROVE  /\ ChainOffers(rs, i) \in Seq(Offer)
           /\ Len(ChainOffers(rs, i)) >= 1
           /\ ToSet(ChainOffers(rs, i)) = {rs[k].offer : k \in Root(rs, i)..i}
  <1> DEFINE c == ChainOffers(rs, i)
             j == Root(rs, i)
  <1>1. i \in Nat /\ i \in 1..Len(rs) /\ Len(rs) \in Nat
    OBVIOUS
  <1>2. j \in 1..i
    BY <1>1, RootIs
  <1> HIDE DEF j
  <1>3. c = [k \in 1..(i - j + 1) |-> rs[j + k - 1].offer]
    BY DEF ChainOffers, j
  <1>4. \A k \in 1..(i - j + 1) : j + k - 1 \in 1..Len(rs)
    BY <1>1, <1>2
  <1>5. \A k \in 1..Len(rs) : rs[k].offer \in Offer
    <2>1. \A k \in 1..Len(rs) : rs[k] \in Recovery
      OBVIOUS
    <2>2. \A r \in Recovery : r.offer \in Offer
      BY DEF Recovery
    <2> QED BY <2>1, <2>2
  <1>6. i - j + 1 \in Nat /\ i - j + 1 >= 1
    BY <1>1, <1>2
  <1> DEFINE n == i - j + 1
  <1> HIDE DEF c, n
  <1>7. c \in Seq(Offer) /\ Len(c) = n /\ DOMAIN c = 1..n
    <2>1. n \in Nat
      BY <1>6 DEF n
    <2>2. c = [k \in 1..n |-> rs[j + k - 1].offer]
      BY <1>3 DEF n
    <2>3. \A k \in 1..n : rs[j + k - 1].offer \in Offer
      BY <1>4, <1>5 DEF n
    <2>4. c \in [1..n -> Offer]
      BY <2>2, <2>3
    <2> HIDE DEF j
    <2> QED BY <2>1, <2>4
  <1>8. ToSet(c) = {rs[k].offer : k \in j..i}
    <2>1. \A k \in 1..n : j + k - 1 \in j..i /\ c[k] = rs[j + k - 1].offer
      BY <1>1, <1>2, <1>3 DEF n
    <2>2. \A k \in j..i : k - j + 1 \in 1..n /\ c[k - j + 1] = rs[k].offer
      <3> TAKE k \in j..i
      <3>1. k - j + 1 \in 1..n /\ j + (k - j + 1) - 1 = k
        BY <1>1, <1>2 DEF n
      <3> QED BY <3>1, <2>1
    <2>3. ToSet(c) = {c[k] : k \in 1..n}
      BY <1>7 DEF ToSet
    <2>4. \A k \in 1..n : c[k] \in {rs[m].offer : m \in j..i}
      BY <2>1
    <2>5. \A k \in j..i : rs[k].offer \in {c[m] : m \in 1..n}
      BY <2>2
    <2> QED BY <2>3, <2>4, <2>5
  <1> QED BY <1>6, <1>7, <1>8 DEF c, j, n
-----------------------------------------------------------------------------
(* Retiring groups.                                                        *)

LEMMA LengthIs ==
    ASSUME NEW S, NEW s \in Seq(S), Len(s) >= 1
    PROVE  Len(s) \in Nat /\ (Len(s) = 1 \/ Len(s) > 1) /\ (Len(s) > 1 => Len(s) # 1)
  <1>1. Len(s) \in Nat
    OBVIOUS
  <1>2. \A n \in Nat : n >= 1 => (n = 1 \/ n > 1) /\ (n > 1 => n # 1)
    OBVIOUS
  <1> QED BY <1>1, <1>2

\* All members of a sequence but the last: no more than there are places.
LEMMA FrontIs ==
    ASSUME NEW S, NEW s \in Seq(S), Len(s) >= 1
    PROVE  /\ ToSet(Front(s)) = {s[k] : k \in 1..(Len(s) - 1)}
           /\ ToSet(Front(s)) \subseteq S
           /\ IsFiniteSet(ToSet(Front(s)))
           /\ Cardinality(ToSet(Front(s))) \in Nat
           /\ Cardinality(ToSet(Front(s))) <= Len(s) - 1
  <1> DEFINE n == Len(s) - 1
             t == Front(s)
             f == [k \in 1..n |-> s[k]]
  <1>1. n \in Nat /\ \A k \in 1..n : k \in DOMAIN s /\ s[k] \in S
    OBVIOUS
  <1>2. t = f
    BY DEF Front
  <1> HIDE DEF n, t
  <1>3. DOMAIN f = 1..n /\ \A k \in 1..n : f[k] = s[k]
    OBVIOUS
  <1> HIDE DEF f
  <1>4. ToSet(t) = {s[k] : k \in 1..n}
    BY <1>2, <1>3 DEF ToSet
  <1>5. f \in Surjection(1..n, ToSet(t))
    <2>1. f \in [1..n -> ToSet(t)]
      BY <1>3, <1>4 DEF f
    <2>2. \A x \in ToSet(t) : \E k \in 1..n : f[k] = x
      BY <1>3, <1>4
    <2> QED BY <2>1, <2>2 DEF Surjection
  <1>6. IsFiniteSet(1..n) /\ Cardinality(1..n) = n
    BY <1>1, FS_Interval
  <1>7. IsFiniteSet(ToSet(t)) /\ Cardinality(ToSet(t)) <= n
    BY <1>5, <1>6, FS_Surjection
  <1>8. Cardinality(ToSet(t)) \in Nat
    BY <1>7, FS_CardinalityType
  <1> QED BY <1>1, <1>4, <1>7, <1>8 DEF n, t

LEMMA FrontOfAppend ==
    ASSUME NEW S, NEW s \in Seq(S), NEW v \in S
    PROVE  Front(Append(s, v)) = s /\ Last(Append(s, v)) = v
  <1>1. Len(Append(s, v)) = Len(s) + 1 /\ Append(s, v)[Len(s) + 1] = v
    OBVIOUS
  <1>2. SubSeq(Append(s, v), 1, Len(s)) = s
    OBVIOUS
  <1> QED BY <1>1, <1>2 DEF Front, Last

LEMMA RetiredIs ==
    ASSUME NEW e \in Engine, NEW p \in Offer, NEW n \in Offer
    PROVE  /\ Retired(e, p, n) \in Engine
           /\ Retired(e, p, n).group = NoOffer
           /\ Retired(e, p, n).retired = e.retired \cup {p}
           /\ Retired(e, p, n).next = n
           /\ Retired(e, p, n).predecessor = NoPredecessor
  BY DEF Retired, Engine, Optional, NoPredecessor

LEMMA RetiredFit ==
    ASSUME NEW e, EngineFit(e), NEW p \in Offer, NEW n \in Offer, p # n,
           n \notin e.retired, Cardinality(e.retired) < MaxRetired
    PROVE  EngineFit(Retired(e, p, n))
  <1> DEFINE d == Retired(e, p, n)
  <1>1. e \in Engine /\ IsFiniteSet(e.retired) /\ Cardinality(e.retired) \in Nat
    BY FS_CardinalityType DEF EngineFit
  <1>2. /\ d \in Engine
        /\ d.group = NoOffer /\ d.retired = e.retired \cup {p} /\ d.next = n
        /\ d.predecessor = NoPredecessor
    BY <1>1, RetiredIs
  <1> HIDE DEF d
  <1>3. /\ IsFiniteSet(e.retired \cup {p})
        /\ Cardinality(e.retired \cup {p}) <= Cardinality(e.retired) + 1
    <2>1. /\ IsFiniteSet(e.retired \cup {p})
          /\ Cardinality(e.retired \cup {p}) =
                IF p \in e.retired THEN Cardinality(e.retired)
                ELSE Cardinality(e.retired) + 1
      BY <1>1, FS_AddElement
    <2> QED BY <2>1, <1>1
  <1>4. Cardinality(d.retired) <= MaxRetired
    <2>1. Cardinality(e.retired \cup {p}) \in Nat
      BY <1>3, FS_CardinalityType
    <2> QED BY <1>1, <1>2, <1>3, <2>1, OfferAssumption
  <1>5. e.retired \subseteq Offer
    BY <1>1 DEF Engine
  <1>6. n \notin d.retired /\ NoOffer \notin d.retired
    BY <1>2, <1>5, OfferAssumption
  <1> QED BY <1>2, <1>3, <1>4, <1>6 DEF EngineFit, EngineOK, d

LEMMA RestartedIs ==
    ASSUME NEW e \in Engine, NEW gs \in Seq(Offer), Len(gs) >= 1
    PROVE  /\ RestartedAll(e, gs) \in Engine
           /\ RestartedAll(e, gs).retired = e.retired \cup ToSet(Front(gs))
           /\ Len(gs) = 1 => RestartedAll(e, gs) = e
           /\ Len(gs) > 1 =>
                 /\ RestartedAll(e, gs).group = NoOffer
                 /\ RestartedAll(e, gs).next = Last(gs)
                 /\ RestartedAll(e, gs).predecessor = NoPredecessor
  <1>1. CASE Len(gs) = 1
    <2>1. ToSet(Front(gs)) = {}
      <3>1. 1..(Len(gs) - 1) = {}
        BY <1>1
      <3>2. ToSet(Front(gs)) = {gs[k] : k \in 1..(Len(gs) - 1)}
        BY FrontIs
      <3> QED BY <3>1, <3>2
    <2>2. RestartedAll(e, gs) = e
      BY <1>1 DEF RestartedAll
    <2> QED BY <2>1, <2>2, <1>1
  <1>2. CASE Len(gs) > 1
    <2> DEFINE d == Retired(e, gs[1], Last(gs))
               R == e.retired \cup ToSet(Front(gs))
    <2>1. gs[1] \in Offer /\ Last(gs) \in Offer
      BY <1>2 DEF Last
    <2>2. /\ d \in Engine /\ d.group = NoOffer /\ d.next = Last(gs)
          /\ d.predecessor = NoPredecessor
      <3>1. \A p, n \in Offer :
               /\ Retired(e, p, n) \in Engine
               /\ Retired(e, p, n).group = NoOffer
               /\ Retired(e, p, n).next = n
               /\ Retired(e, p, n).predecessor = NoPredecessor
        BY RetiredIs
      <3> QED BY <2>1, <3>1
    <2>3. R \subseteq Offer
      BY FrontIs DEF Engine
    <2>4. RestartedAll(e, gs) = [d EXCEPT !.retired = R]
      BY <1>2 DEF RestartedAll
    <2> HIDE DEF d, R
    <2>5. /\ [d EXCEPT !.retired = R] \in Engine
          /\ [d EXCEPT !.retired = R].retired = R
          /\ [d EXCEPT !.retired = R].group = d.group
          /\ [d EXCEPT !.retired = R].next = d.next
          /\ [d EXCEPT !.retired = R].predecessor = d.predecessor
      BY <2>2, <2>3 DEF Engine
    <2>6. Len(gs) # 1
      BY <1>2, LengthIs
    <2> QED BY <1>2, <2>6, <2>2, <2>4, <2>5 DEF R
  <1> QED BY <1>1, <1>2, LengthIs

LEMMA RestartedFit ==
    ASSUME NEW e, EngineFit(e), NEW gs \in Seq(Offer), Len(gs) >= 1,
           CanRestartAll(e, gs)
    PROVE  EngineFit(RestartedAll(e, gs))
  <1>0. e \in Engine /\ IsFiniteSet(e.retired) /\ Cardinality(e.retired) \in Nat
    BY FS_CardinalityType DEF EngineFit
  <1>1. CASE Len(gs) = 1
    BY <1>0, <1>1, RestartedIs
  <1>2. CASE Len(gs) > 1
    <2> DEFINE d == RestartedAll(e, gs)
               F == ToSet(Front(gs))
    <2>1. /\ d \in Engine /\ d.retired = e.retired \cup F
          /\ d.group = NoOffer /\ d.next = Last(gs) /\ d.predecessor = NoPredecessor
      BY <1>0, <1>2, RestartedIs
    <2>2. /\ F = {gs[k] : k \in 1..(Len(gs) - 1)} /\ F \subseteq Offer
          /\ IsFiniteSet(F) /\ Cardinality(F) \in Nat /\ Cardinality(F) <= Len(gs) - 1
      BY FrontIs
    <2>3. /\ Cardinality(e.retired) + Len(gs) - 1 <= MaxRetired
          /\ IsInjective(gs) /\ ToSet(gs) \cap e.retired = {}
      BY <1>2 DEF CanRestartAll
    <2> HIDE DEF d, F
    <2>4. /\ IsFiniteSet(e.retired \cup F)
          /\ Cardinality(e.retired \cup F) <= Cardinality(e.retired) + Cardinality(F)
      <3>1. /\ IsFiniteSet(e.retired \cup F)
            /\ Cardinality(e.retired \cup F) =
                  Cardinality(e.retired) + Cardinality(F) - Cardinality(e.retired \cap F)
        BY <1>0, <2>2, FS_Union
      <3>2. Cardinality(e.retired \cap F) \in Nat
        <4>1. IsFiniteSet(e.retired \cap F)
          BY <1>0, FS_Intersection
        <4> QED BY <4>1, FS_CardinalityType
      <3> QED BY <3>1, <3>2, <1>0, <2>2
    <2>5. Cardinality(d.retired) <= MaxRetired
      <3>1. Cardinality(e.retired \cup F) \in Nat
        BY <2>4, FS_CardinalityType
      <3>2. Len(gs) \in Nat
        OBVIOUS
      <3> QED BY <3>1, <3>2, <1>0, <2>1, <2>2, <2>3, <2>4, OfferAssumption
    <2>6. Last(gs) \notin e.retired \cup F
      <3>1. Last(gs) = gs[Len(gs)] /\ Len(gs) \in DOMAIN gs
        BY <1>2 DEF Last
      <3>2. \A k \in 1..(Len(gs) - 1) : gs[k] # gs[Len(gs)]
        BY <2>3, <1>2 DEF IsInjective
      <3>3. Last(gs) \in ToSet(gs)
        BY <3>1 DEF ToSet
      <3> QED BY <2>2, <2>3, <3>1, <3>2, <3>3
    <2>7. NoOffer \notin d.retired
      BY <2>1, OfferAssumption DEF Engine
    <2> QED BY <2>1, <2>4, <2>5, <2>6, <2>7 DEF EngineFit, EngineOK, d
  <1> QED BY <1>1, <1>2, LengthIs
-----------------------------------------------------------------------------
(* What the two activations make of the engine.                            *)

\* activate_rejoin retires the groups of the chain, and the group before an
\* abandoned replacement.
LEMMA RejoinedEngine ==
    ASSUME IInv, NEW i \in DOMAIN recoveries, NEW n \in Offer, ActivateRejoin(i, n)
    PROVE  /\ EngineFit(engine')
           /\ engine'.retired = engine.retired \cup ToSet(ChainOffers(recoveries, i))
                  \cup {replacements[j].previous : j \in Deferred(i)}
           /\ engine'.group = NoOffer /\ engine'.next = n
           /\ engine'.predecessor = NoPredecessor
  <1> DEFINE chain == ChainOffers(recoveries, i)
             groups == Append(chain, n)
  <1>1. /\ recoveries \in Seq(Recovery)
        /\ EngineFit(engine) /\ engine \in Engine
        /\ \A j \in DOMAIN replacements : replacements[j].previous \in Offer
    BY Domains DEF IInv, TypeOK, EngineFit, Replacement
  <1>2. ChainOK(recoveries, i)
    BY DEF ActivateRejoin, CanRejoin
  <1>3. chain \in Seq(Offer) /\ Len(chain) >= 1
    BY <1>1, <1>2, ChainOffersAre DEF ChainOK
  <1>4. Deferred(i) \subseteq DOMAIN replacements
    BY DEF Deferred, ReplacementOf
  <1>5. /\ Deferred(i) = {} =>
              CanRestartAll(engine, groups) /\ engine' = RestartedAll(engine, groups)
        /\ \A j \in Deferred(i) :
              LET e == Retired(engine, replacements[j].previous, groups[1])
              IN  /\ CanReplace(engine, replacements[j].previous, groups[1])
                  /\ CanRestartAll(e, groups) /\ engine' = RestartedAll(e, groups)
    BY DEF ActivateRejoin
  <1> HIDE DEF chain
  <1>6. /\ groups \in Seq(Offer) /\ Len(groups) > 1
        /\ groups[1] \in Offer /\ Front(groups) = chain /\ Last(groups) = n
    <2>1. groups \in Seq(Offer) /\ Len(groups) > 1 /\ groups[1] \in Offer
      BY <1>3
    <2> QED BY <2>1, <1>3, FrontOfAppend
  <1> HIDE DEF groups
  <1>7. Len(groups) >= 1
    BY <1>6
  <1>8. \A e \in Engine :
           /\ RestartedAll(e, groups).retired = e.retired \cup ToSet(chain)
           /\ RestartedAll(e, groups).group = NoOffer
           /\ RestartedAll(e, groups).next = n
           /\ RestartedAll(e, groups).predecessor = NoPredecessor
    BY <1>6, <1>7, RestartedIs
  <1>9. \A e : EngineFit(e) /\ CanRestartAll(e, groups) => EngineFit(RestartedAll(e, groups))
    BY <1>6, <1>7, RestartedFit
  <1>10. CASE Deferred(i) = {}
    BY <1>1, <1>5, <1>8, <1>9, <1>10 DEF chain
  <1>11. CASE Deferred(i) # {}
    <2>1. ASSUME NEW j \in Deferred(i)
          PROVE  /\ EngineFit(engine')
                 /\ engine'.retired =
                       engine.retired \cup {replacements[j].previous} \cup ToSet(chain)
                 /\ engine'.group = NoOffer /\ engine'.next = n
                 /\ engine'.predecessor = NoPredecessor
      <3> DEFINE p == replacements[j].previous
                 e == Retired(engine, p, groups[1])
      <3>1. p \in Offer
        BY <1>1, <1>4
      <3>2. CanReplace(engine, p, groups[1]) /\ CanRestartAll(e, groups)
            /\ engine' = RestartedAll(e, groups)
        BY <1>5
      <3>3. p # groups[1] /\ groups[1] \notin engine.retired
            /\ Cardinality(engine.retired) < MaxRetired
        BY <3>2 DEF CanReplace
      <3> HIDE DEF p
      <3>4. EngineFit(e)
        BY <1>1, <1>6, <3>1, <3>3, RetiredFit
      <3>5. e \in Engine /\ e.retired = engine.retired \cup {p}
        BY <1>1, <1>6, <3>1, RetiredIs
      <3> HIDE DEF e
      <3>6. /\ engine'.retired = e.retired \cup ToSet(chain)
            /\ engine'.group = NoOffer /\ engine'.next = n
            /\ engine'.predecessor = NoPredecessor
        BY <1>8, <3>2, <3>5
      <3> QED BY <1>9, <3>2, <3>4, <3>5, <3>6 DEF p
    <2>2. PICK j0 \in Deferred(i) : TRUE
      BY <1>11
    <2>3. engine'.retired = engine.retired \cup ToSet(chain)
                  \cup {replacements[j].previous : j \in Deferred(i)}
      BY <2>1, <2>2
    <2> QED BY <2>1, <2>2, <2>3 DEF chain
  <1> QED BY <1>10, <1>11

\* activate_replacement retires the origin and what the open stops fence; a
\* target this device had activated is among the latter, and its origin is
\* retired already.
LEMMA ReplacedEngine ==
    ASSUME IInv, NEW i \in DOMAIN replacements, ActivateReplacement(i)
    PROVE  /\ EngineFit(engine')
           /\ engine'.retired = engine.retired \cup {replacements[i].previous}
                                  \cup ToSet(StoppedGroups(replacements[i]))
           /\ engine'.group = NoOffer /\ engine'.predecessor = NoPredecessor
           /\ ~(\E k \in OpenStops : stops[k].native) =>
                 replacements[i].previous \notin engine.retired
  <1> DEFINE r == replacements[i]
             gs == StoppedGroups(r)
             groups == Append(gs, r.next)
             native == {k \in OpenStops : stops[k].native}
  <1>1. EngineFit(engine) /\ engine \in Engine /\ r.previous \in Offer /\ r.next \in Offer
    BY Domains DEF IInv, TypeOK, EngineFit, Replacement
  <1>2. gs \in Seq(Offer)
    BY StoppedGroupsAre DEF IInv
  <1>3. IF native # {}
        THEN /\ Len(groups) > 1
             /\ CanRestartActivated(engine, r.previous, groups[1], groups[2])
             /\ CanRestartAll(Retired(engine, groups[1], groups[2]), Tail(groups))
             /\ engine' = RestartedAll(Retired(engine, groups[1], groups[2]), Tail(groups))
        ELSE /\ CanReplace(engine, r.previous, groups[1])
             /\ CanRestartAll(Retired(engine, r.previous, groups[1]), groups)
             /\ engine' = RestartedAll(Retired(engine, r.previous, groups[1]), groups)
    BY DEF ActivateReplacement
  <1> HIDE DEF gs
  <1>4. /\ groups \in Seq(Offer) /\ Len(groups) \in Nat /\ Len(groups) >= 1
        /\ groups[1] \in Offer
        /\ Front(groups) = gs /\ Last(groups) = r.next
    <2>1. groups \in Seq(Offer) /\ Len(groups) \in Nat /\ Len(groups) >= 1
      BY <1>1, <1>2
    <2>2. groups[1] \in Offer
      BY <2>1
    <2> QED BY <2>1, <2>2, <1>1, <1>2, FrontOfAppend
  <1>5. native = {} => ~(\E k \in OpenStops : stops[k].native)
    OBVIOUS
  <1> HIDE DEF groups, native, r
  <1>8. \A p, n \in Offer :
           /\ Retired(engine, p, n) \in Engine
           /\ Retired(engine, p, n).retired = engine.retired \cup {p}
           /\ Retired(engine, p, n).group = NoOffer
           /\ Retired(engine, p, n).predecessor = NoPredecessor
    <2> TAKE p, n \in Offer
    <2>1. engine \in Engine
      BY <1>1
    <2> QED BY ONLY <2>1, RetiredIs, p \in Offer, n \in Offer
  <1>6. CASE native = {}
    <2> DEFINE e == Retired(engine, r.previous, groups[1])
    <2>1. /\ r.previous # groups[1] /\ groups[1] \notin engine.retired
          /\ Cardinality(engine.retired) < MaxRetired
          /\ r.previous \notin engine.retired
      BY <1>3, <1>6 DEF CanReplace
    <2>2. EngineFit(e)
      BY <1>1, <1>4, <2>1, RetiredFit
    <2>3. /\ e \in Engine /\ e.retired = engine.retired \cup {r.previous}
          /\ e.group = NoOffer /\ e.predecessor = NoPredecessor
      BY <1>1, <1>4, <1>8
    <2>4. CanRestartAll(e, groups) /\ engine' = RestartedAll(e, groups)
      BY <1>3, <1>6
    <2> HIDE DEF e
    <2>5. EngineFit(engine')
      BY <1>4, <2>2, <2>4, RestartedFit
    <2>6. engine'.retired = e.retired \cup ToSet(gs)
      BY <1>4, <2>3, <2>4, RestartedIs
    <2>7. engine'.group = NoOffer /\ engine'.predecessor = NoPredecessor
      <3>1. Len(groups) = 1 \/ Len(groups) > 1
        BY <1>4, LengthIs
      <3> QED BY <3>1, <1>4, <2>3, <2>4, RestartedIs
    <2> QED BY <2>1, <2>3, <2>5, <2>6, <2>7 DEF gs, r
  <1>7. CASE native # {}
    <2> DEFINE f == groups[1]
               e == Retired(engine, f, groups[2])
               rest == Tail(groups)
    <2>1. /\ Len(groups) > 1 /\ groups[2] \in Offer
          /\ rest \in Seq(Offer) /\ Len(rest) \in Nat /\ Len(rest) >= 1
      <3>1. Len(groups) > 1
        BY <1>3, <1>7
      <3> QED BY <3>1, <1>4
    <2>2. CanRestartActivated(engine, r.previous, f, groups[2])
      BY <1>3, <1>7
    <2>3. /\ groups[2] # f /\ groups[2] \notin engine.retired
          /\ Cardinality(engine.retired) < MaxRetired
          /\ r.previous \in engine.retired
      BY <2>2 DEF CanRestartActivated, CheckActivatedOrigin
    <2>4. EngineFit(e)
      BY <1>1, <1>4, <2>1, <2>3, RetiredFit
    <2>5. /\ e \in Engine /\ e.retired = engine.retired \cup {f}
          /\ e.group = NoOffer /\ e.predecessor = NoPredecessor
      BY <1>4, <2>1, <1>8
    <2>6. CanRestartAll(e, rest) /\ engine' = RestartedAll(e, rest)
      BY <1>3, <1>7
    <2>7. ToSet(gs) = {f} \cup ToSet(Front(rest))
      <3>1. ToSet(Front(groups)) = {groups[k] : k \in 1..(Len(groups) - 1)}
        BY <1>4, FrontIs
      <3>2. ToSet(Front(rest)) = {rest[k] : k \in 1..(Len(rest) - 1)}
        BY <2>1, FrontIs
      <3>3. /\ Len(rest) = Len(groups) - 1
            /\ \A k \in 1..Len(rest) : rest[k] = groups[k + 1]
        BY <1>4, <2>1
      <3> DEFINE n == Len(groups)
      <3>4. n \in Nat /\ n > 1 /\ Len(rest) = n - 1
        BY <1>4, <2>1, <3>3
      <3> HIDE DEF n, rest
      <3>5. \A k \in 1..(n - 1) : k = 1 \/ (k - 1 \in 1..((n - 1) - 1)
                                              /\ k - 1 \in 1..(n - 1) /\ (k - 1) + 1 = k)
        BY <3>4
      <3>6. \A k \in 1..((n - 1) - 1) : k + 1 \in 1..(n - 1) /\ k \in 1..(n - 1)
        BY <3>4
      <3>7. 1 \in 1..(n - 1)
        BY <3>4
      <3>8. \A k \in 1..(n - 1) : groups[k] = f \/ groups[k] \in ToSet(Front(rest))
        BY <3>2, <3>3, <3>4, <3>5
      <3>9. f \in {groups[k] : k \in 1..(n - 1)}
        BY <3>7
      <3>10. \A k \in 1..((n - 1) - 1) : rest[k] \in {groups[m] : m \in 1..(n - 1)}
        BY <3>3, <3>4, <3>6
      <3>11. {groups[k] : k \in 1..(n - 1)} = {f} \cup ToSet(Front(rest))
        BY <3>2, <3>4, <3>8, <3>9, <3>10
      <3> QED BY <1>4, <3>1, <3>11 DEF n
    <2> HIDE DEF e, rest
    <2>8. EngineFit(engine')
      BY <2>1, <2>4, <2>6, RestartedFit
    <2>9. engine'.retired = e.retired \cup ToSet(Front(rest))
      BY <2>1, <2>5, <2>6, RestartedIs
    <2>10. engine'.group = NoOffer /\ engine'.predecessor = NoPredecessor
      <3>1. Len(rest) = 1 \/ Len(rest) > 1
        BY <2>1, LengthIs
      <3> QED BY <3>1, <2>1, <2>5, <2>6, RestartedIs
    <2>11. \E k \in OpenStops : stops[k].native
      BY <1>7 DEF native
    <2> QED BY <2>3, <2>5, <2>7, <2>8, <2>9, <2>10, <2>11 DEF gs, r
  <1> QED BY <1>5, <1>6, <1>7
-----------------------------------------------------------------------------
(* Types.                                                                  *)

LEMMA FreshIs ==
    ASSUME NEW o \in Offer
    PROVE  /\ Fresh(o) \in Invitation /\ Fresh(o).offer = o /\ Fresh(o).phase = "prepared"
           /\ [Fresh(o) EXCEPT !.phase = "recovery_required"] \in Invitation
           /\ [Fresh(o) EXCEPT !.phase = "recovery_required"].offer = o
           /\ [Fresh(o) EXCEPT !.phase = "recovery_required"].phase = "recovery_required"
           /\ FreshOutbox(o) \subseteq Wire
           /\ \A w \in FreshOutbox(o) : w.channel = o
           /\ Fresh(o) # NoInvitation
           /\ [Fresh(o) EXCEPT !.phase = "recovery_required"] # NoInvitation
  <1>1. /\ Fresh(o) \in Invitation /\ Fresh(o).offer = o /\ Fresh(o).phase = "prepared"
        /\ [Fresh(o) EXCEPT !.phase = "recovery_required"] \in Invitation
        /\ [Fresh(o) EXCEPT !.phase = "recovery_required"].offer = o
        /\ [Fresh(o) EXCEPT !.phase = "recovery_required"].phase = "recovery_required"
    BY DEF Fresh, Invitation, Optional
  <1>2. \A w \in FreshOutbox(o) : w \in Wire /\ w.channel = o
    BY DEF FreshOutbox, Queue, Wire
  <1>3. NoInvitation.phase = "none"
    BY DEF NoInvitation
  <1> QED BY <1>1, <1>2, <1>3

LEMMA GroupIs ==
    ASSUME NEW e \in Engine, NEW g \in Optional, NEW m \in {1, 2}
    PROVE  /\ [e EXCEPT !.group = g, !.members = m] \in Engine
           /\ [e EXCEPT !.members = m] \in Engine
  <1>1. m \in 0..2
    OBVIOUS
  <1> DEFINE M == 0..2
             P == Optional \X Optional
  <1>2. m \in M
    BY <1>1
  <1>3. Engine = [group : Optional, members : M, retired : SUBSET Offer,
                  next : Optional, predecessor : P]
    BY DEF Engine
  <1> HIDE DEF M, P
  <1>4. [e EXCEPT !.members = m] \in Engine
    BY <1>2, <1>3
  <1>5. [e EXCEPT !.group = g, !.members = m] \in Engine
    BY <1>2, <1>3
  <1> QED BY <1>4, <1>5

LEMMA QueueIs ==
    ASSUME NEW o \in Offer,
           NEW K \in SUBSET {"key_package", "commit", "welcome", "application"}
    PROVE  Queue(o, K) \subseteq Wire /\ \A w \in Queue(o, K) : w.channel = o
  BY DEF Queue, Wire

LEMMA AnswersIs ==
    ASSUME rows \in [Offer -> Row], NEW p \in Optional, NEW n \in Offer,
           NEW v \in {"waiting", "admitted", "cancelled"}, Answers(p, n, v)
    PROVE  rows' \in [Offer -> Row]
  <1>1. [parent |-> p, verdict |-> v] \in Row
    BY DEF Row
  <1> QED BY <1>1 DEF Answers

LEMMA PublishedIs ==
    ASSUME rows \in [Offer -> Row], NEW p \in Optional, NEW n \in Offer, Published(p, n)
    PROVE  rows' \in [Offer -> Row]
  BY AnswersIs DEF Published

LEMMA ClosingIs ==
    ASSUME NEW o \in Offer, NEW b \in BOOLEAN, NEW f \in Optional
    PROVE  Closing(o, b, f) \in Recovery
  BY DEF Closing, Recovery, Optional

LEMMA PhaseIs ==
    ASSUME NEW r \in Replacement, NEW ph \in {"prepared", "consented", "active",
               "cancelling", "cancelled", "recovery_required", "recovering", "abandoned"}
    PROVE  /\ [r EXCEPT !.phase = ph] \in Replacement
           /\ [r EXCEPT !.phase = ph].phase = ph
           /\ [r EXCEPT !.phase = ph].previous = r.previous
           /\ [r EXCEPT !.phase = ph].next = r.next
           /\ [r EXCEPT !.phase = ph].cancellation = r.cancellation
           /\ [r EXCEPT !.phase = ph].confirmed = r.confirmed
           /\ [r EXCEPT !.phase = ph].restart_from = r.restart_from
  BY DEF Replacement

\* A channel that is there has an offer.
LEMMA ChannelIs ==
    ASSUME TypeOK, InvitationOK
    PROVE  /\ invitation \in Invitation /\ invitation.offer \in Optional
           /\ invitation # NoInvitation <=> invitation.offer \in Offer
           /\ invitation.phase # "none" => invitation.offer \in Offer
           /\ NoInvitation \in Invitation /\ NoInvitation.offer = NoOffer
           /\ NoInvitation.phase = "none"
  BY OfferAssumption DEF TypeOK, InvitationOK, Invitation, NoInvitation, Optional

LEMMA TalkType ==
    ASSUME IInv, Talk
    PROVE  TypeOK' /\ InvitationOK'
  <1>0. /\ TypeOK /\ InvitationOK
        /\ engine \in Engine /\ trusted \in Nat /\ outbox \subseteq Wire
        /\ rows \in [Offer -> Row]
    BY DEF IInv, TypeOK
  <1> USE ChannelIs
  <1>1. CASE \E o \in Offer : PrepareInvitation(o)
    <2>1. PICK o \in Offer : PrepareInvitation(o)
      BY <1>1
    <2>2. rows' \in [Offer -> Row]
      BY <1>0, <2>1, PublishedIs DEF PrepareInvitation, Optional
    <2>3. invitation' \in Invitation /\ InvitationOK' /\ outbox' \subseteq Wire
      BY <2>1, FreshIs, OfferAssumption DEF PrepareInvitation, InvitationOK
    <2> QED BY <1>0, <2>1, <2>2, <2>3 DEF PrepareInvitation, TypeOK
  <1>2. CASE InviteFromDelivery
    <2>1. engine' \in Engine
      BY <1>0, <1>2, GroupIs DEF InviteFromDelivery
    <2>2. outbox' \subseteq Wire
      BY <1>0, <1>2, QueueIs DEF InviteFromDelivery
    <2>3. invitation' \in Invitation /\ InvitationOK'
      BY <1>0, <1>2, OfferAssumption DEF InviteFromDelivery, Invitation, InvitationOK
    <2> QED BY <1>0, <1>2, <2>1, <2>2, <2>3 DEF InviteFromDelivery, TypeOK
  <1>3. CASE JoinFromDelivery
    <2>1. engine' \in Engine
      BY <1>0, <1>3, GroupIs DEF JoinFromDelivery
    <2>3. invitation' \in Invitation /\ InvitationOK'
      BY <1>0, <1>3, OfferAssumption DEF JoinFromDelivery, Invitation, InvitationOK
    <2> QED BY <1>0, <1>3, <2>1, <2>3 DEF JoinFromDelivery, TypeOK
  <1>4. CASE \E w \in outbox : AcceptDelivery(w)
    <2>1. PICK w \in outbox : AcceptDelivery(w)
      BY <1>4
    <2>2. engine' \in Engine
      BY <1>0, <2>1 DEF AcceptDelivery, Engine
    <2>3. invitation' \in Invitation /\ InvitationOK'
      <3>1. w.channel \in Offer
        BY <1>0 DEF Wire
      <3> QED BY <1>0, <2>1, <3>1, OfferAssumption DEF AcceptDelivery, Invitation, InvitationOK, NoInvitation
    <2> QED BY <1>0, <2>1, <2>2, <2>3 DEF AcceptDelivery, TypeOK
  <1>5. CASE CompleteInvitation
    <2>3. invitation' \in Invitation /\ InvitationOK'
      BY <1>0, <1>5, OfferAssumption DEF CompleteInvitation, Invitation, InvitationOK
    <2> QED BY <1>0, <1>5, <2>3 DEF CompleteInvitation, TypeOK
  <1>6. CASE SendChat
    <2>1. outbox' \subseteq Wire
      BY <1>0, <1>6, QueueIs DEF SendChat
    <2> QED BY <1>0, <1>6, <2>1 DEF SendChat, TypeOK, InvitationOK
  <1>7. CASE MarkInvitationFailed
    <2>3. invitation' \in Invitation /\ InvitationOK'
      BY <1>0, <1>7, OfferAssumption DEF MarkInvitationFailed, Invitation, InvitationOK
    <2> QED BY <1>0, <1>7, <2>3 DEF MarkInvitationFailed, TypeOK
  <1>8. CASE ApprovePeer
    BY <1>0, <1>8 DEF ApprovePeer, TypeOK, InvitationOK
  <1> QED BY <1>1, <1>2, <1>3, <1>4, <1>5, <1>6, <1>7, <1>8 DEF Talk
LEMMA RejoinType ==
    ASSUME IInv, Rejoin
    PROVE  TypeOK' /\ InvitationOK'
  <1>0. /\ TypeOK /\ InvitationOK
        /\ invitation \in Invitation /\ recoveries \in Seq(Recovery)
        /\ replacements \in Seq(Replacement) /\ rows \in [Offer -> Row]
        /\ \A i \in DOMAIN recoveries :
              /\ recoveries[i] \in Recovery
              /\ recoveries[i].offer \in Offer /\ recoveries[i].offer \in Optional
              /\ recoveries[i].next \in Optional
              /\ recoveries[i].next # NoOffer => recoveries[i].next \in Offer
        /\ \A j \in DOMAIN replacements : replacements[j] \in Replacement
    BY Domains DEF IInv, TypeOK, Recovery, Optional
  <1> USE ChannelIs
  <1>1. CASE BeginClose
    <2>1. Closing(invitation.offer, FALSE, NoOffer) \in Recovery
      BY <1>0, <1>1, ClosingIs DEF BeginClose, Optional
    <2>2. recoveries' \in Seq(Recovery)
      BY <1>0, <1>1, <2>1, Appended DEF BeginClose
    <2> QED BY <1>0, <1>1, <2>2 DEF BeginClose, TypeOK, InvitationOK
  <1>2. CASE \E i \in DOMAIN recoveries : CompleteClose(i)
    <2>1. PICK i \in DOMAIN recoveries : CompleteClose(i)
      BY <1>2
    <2>2. [recoveries[i] EXCEPT !.phase = "closed"] \in Recovery
      BY <1>0 DEF Recovery
    <2>3. recoveries' \in Seq(Recovery)
      BY <1>0, <2>1, <2>2, Updated DEF CompleteClose
    <2>4. replacements' \in [DOMAIN replacements -> Replacement]
      BY <1>0, <2>1, PhaseIs DEF CompleteClose
    <2>5. replacements' \in Seq(Replacement)
      BY <1>0, <2>4, Mapped
    <2> QED BY <1>0, <2>1, <2>3, <2>5 DEF CompleteClose, TypeOK, InvitationOK
  <1>3. CASE \E i \in DOMAIN recoveries, n \in Offer : PrepareRejoin(i, n)
    <2>1. PICK i \in DOMAIN recoveries, n \in Offer : PrepareRejoin(i, n)
      BY <1>3
    <2>2. [recoveries[i] EXCEPT !.next = n] \in Recovery
      BY <1>0 DEF Recovery, Optional
    <2>3. recoveries' \in Seq(Recovery)
      BY <1>0, <2>1, <2>2, Updated DEF PrepareRejoin
    <2> QED BY <1>0, <2>1, <2>3 DEF PrepareRejoin, TypeOK, InvitationOK
  <1>4. CASE \E i \in DOMAIN recoveries, n \in Offer : ActivateRejoin(i, n)
    <2>1. PICK i \in DOMAIN recoveries, n \in Offer : ActivateRejoin(i, n)
      BY <1>4
    <2>2. engine' \in Engine
      BY <2>1, RejoinedEngine DEF EngineFit
    <2>3. replacements' \in [DOMAIN replacements -> Replacement]
      BY <1>0, <2>1, PhaseIs DEF ActivateRejoin
    <2>4. replacements' \in Seq(Replacement)
      BY <1>0, <2>3, Mapped
    <2>5. \A k \in DOMAIN recoveries :
             [recoveries[k] EXCEPT !.phase = "rejoined"] \in Recovery
      BY <1>0 DEF Recovery
    <2>6. recoveries' \in [DOMAIN recoveries -> Recovery]
      <3>1. recoveries' = [k \in DOMAIN recoveries |->
               IF k \in Root(recoveries, i)..i
               THEN [recoveries[k] EXCEPT !.phase = "rejoined"] ELSE recoveries[k]]
        BY <2>1 DEF ActivateRejoin
      <3> QED BY <1>0, <2>5, <3>1
    <2>7. recoveries' \in Seq(Recovery)
      BY <1>0, <2>6, Mapped
    <2>8. rows' \in [Offer -> Row]
      BY <1>0, <2>1, AnswersIs DEF ActivateRejoin
    <2>9. invitation' \in Invitation /\ InvitationOK' /\ outbox' \subseteq Wire
      <3>1. invitation' = Fresh(n) /\ outbox' = FreshOutbox(n)
        BY <2>1 DEF ActivateRejoin
      <3> QED BY <3>1, FreshIs, OfferAssumption DEF InvitationOK
    <2> QED BY <1>0, <2>1, <2>2, <2>4, <2>7, <2>8, <2>9 DEF ActivateRejoin, TypeOK
  <1>5. CASE \E i \in DOMAIN recoveries : MarkRejoinFailed(i)
    <2>1. PICK i \in DOMAIN recoveries : MarkRejoinFailed(i)
      BY <1>5
    <2>2. [recoveries[i] EXCEPT !.successor_failed = TRUE] \in Recovery
      BY <1>0 DEF Recovery
    <2>3. recoveries' \in Seq(Recovery)
      BY <1>0, <2>1, <2>2, Updated DEF MarkRejoinFailed
    <2>4. rows' \in [Offer -> Row]
      BY <1>0, <2>1, PublishedIs DEF MarkRejoinFailed, CanFailRejoin
    <2> QED BY <1>0, <2>1, <2>3, <2>4 DEF MarkRejoinFailed, TypeOK, InvitationOK
  <1>6. CASE \E i \in DOMAIN recoveries : BeginRejoinRecovery(i)
    <2>1. PICK i \in DOMAIN recoveries : BeginRejoinRecovery(i)
      BY <1>6
    <2> DEFINE rs == [recoveries EXCEPT ![i].successor_failed = TRUE]
               c == Closing(recoveries[i].next, FALSE, recoveries[i].offer)
    <2>2. [recoveries[i] EXCEPT !.successor_failed = TRUE] \in Recovery
      BY <1>0 DEF Recovery
    <2>3. rs \in Seq(Recovery)
      BY <1>0, <2>2, Updated
    <2>4. recoveries[i].next \in Offer
      BY <1>0, <2>1 DEF BeginRejoinRecovery, CanFailRejoin
    <2>5. c \in Recovery
      BY <1>0, <2>4, ClosingIs
    <2>6. recoveries' = Append(rs, c)
      BY <2>1 DEF BeginRejoinRecovery
    <2> HIDE DEF rs, c
    <2>7. recoveries' \in Seq(Recovery)
      BY <2>3, <2>5, <2>6, Appended
    <2>8. rows' \in [Offer -> Row]
      BY <1>0, <2>1, <2>4, PublishedIs DEF BeginRejoinRecovery
    <2>9. invitation' \in Invitation /\ InvitationOK'
      BY <2>1, <2>4, FreshIs, OfferAssumption DEF BeginRejoinRecovery, InvitationOK
    <2> QED BY <1>0, <2>1, <2>7, <2>8, <2>9 DEF BeginRejoinRecovery, TypeOK
  <1>7. CASE \E i \in DOMAIN recoveries : BeginCancelRejoin(i)
    <2>1. PICK i \in DOMAIN recoveries : BeginCancelRejoin(i)
      BY <1>7
    <2> DEFINE cs == Append(recoveries[i].cancellations,
                            [next |-> recoveries[i].next, outcome |-> "pending"])
    <2>2. cs \in Seq(Cancellation)
      <3>1. recoveries[i].next \in Offer
        BY <1>0, <2>1 DEF BeginCancelRejoin, CanCancelRejoin
      <3>2. recoveries[i].cancellations \in Seq(Cancellation)
        BY <1>0 DEF Recovery
      <3> QED BY <3>1, <3>2 DEF Cancellation
    <2>3. recoveries' = [recoveries EXCEPT ![i] = [recoveries[i] EXCEPT !.cancellations = cs]]
      BY <2>1 DEF BeginCancelRejoin
    <2> HIDE DEF cs
    <2>4. [recoveries[i] EXCEPT !.cancellations = cs] \in Recovery
      BY <1>0, <2>2 DEF Recovery
    <2>5. recoveries' \in Seq(Recovery)
      BY <1>0, <2>3, <2>4, Updated
    <2> QED BY <1>0, <2>1, <2>5 DEF BeginCancelRejoin, TypeOK, InvitationOK
  <1>8. CASE \E i \in DOMAIN recoveries : \E v \in {"cancelled", "admitted"} :
                FinishCancelRejoin(i, v)
    <2>1. PICK i \in DOMAIN recoveries, v \in {"cancelled", "admitted"} :
             FinishCancelRejoin(i, v)
      BY <1>8
    <2> DEFINE r == recoveries[i]
               m == Len(r.cancellations)
               cs == [r.cancellations EXCEPT ![m].outcome = v]
               nx == IF v = "cancelled" THEN NoOffer ELSE r.next
               sf == IF v = "cancelled" THEN FALSE ELSE r.successor_failed
    <2>2. cs \in Seq(Cancellation)
      <3>1. r.cancellations \in Seq(Cancellation) /\ r.cancellations # <<>>
        BY <1>0, <2>1 DEF Recovery, FinishCancelRejoin, CancelPending
      <3>2. m \in DOMAIN r.cancellations /\ r.cancellations[m] \in Cancellation
        BY <3>1
      <3>3. [r.cancellations[m] EXCEPT !.outcome = v] \in Cancellation
        BY <3>2 DEF Cancellation
      <3> QED BY <3>1, <3>2, <3>3, Updated
    <2>3. recoveries' = [recoveries EXCEPT ![i] =
              [r EXCEPT !.cancellations = cs, !.next = nx, !.successor_failed = sf]]
      BY <2>1 DEF FinishCancelRejoin
    <2>4. nx \in Optional /\ sf \in BOOLEAN
      BY <1>0 DEF Recovery, Optional
    <2> HIDE DEF cs, nx, sf
    <2>5. [r EXCEPT !.cancellations = cs, !.next = nx, !.successor_failed = sf] \in Recovery
      BY <1>0, <2>2, <2>4 DEF Recovery
    <2>6. recoveries' \in Seq(Recovery)
      BY <1>0, <2>3, <2>5, Updated
    <2>7. rows' \in [Offer -> Row]
      BY <1>0, <2>1, AnswersIs DEF FinishCancelRejoin, CanCancelRejoin
    <2> QED BY <1>0, <2>1, <2>6, <2>7 DEF FinishCancelRejoin, TypeOK, InvitationOK
  <1> QED BY <1>1, <1>2, <1>3, <1>4, <1>5, <1>6, <1>7, <1>8 DEF Rejoin
\* A target goes on from the open stops, if there are any.
LEMMA RestartIs ==
    ASSUME TypeOK, StopsOrdered
    PROVE  /\ (IF OpenStops = {} THEN NoOffer ELSE stops[LastOpen].next) \in Optional
           /\ OpenStops # {} => stops[LastOpen].next \in Offer
  <1>1. OpenStops # {} => LastOpen \in DOMAIN stops
    BY LastOpenIs
  <1>2. \A k \in DOMAIN stops : stops[k].next \in Offer
    BY Domains DEF Stop
  <1> QED BY <1>1, <1>2 DEF Optional

LEMMA FirstGroupIs ==
    ASSUME TypeOK, NEW r, r.next \in Offer
    PROVE  FirstGroup(r) \in {r.next} \cup ToSet(StoppedGroups(r)) /\ FirstGroup(r) \in Offer
  <1> DEFINE gs == StoppedGroups(r)
  <1>1. gs \in Seq(Offer)
    BY StoppedGroupsAre
  <1>2. FirstGroup(r) = Append(gs, r.next)[1]
    BY DEF FirstGroup
  <1> HIDE DEF gs
  <1>3. CASE gs = <<>>
    BY <1>2, <1>3
  <1>4. CASE gs # <<>>
    <2>1. 1 \in DOMAIN gs /\ Append(gs, r.next)[1] = gs[1] /\ gs[1] \in Offer
      BY <1>1, <1>4
    <2> QED BY <2>1, <1>2 DEF ToSet, gs
  <1> QED BY <1>3, <1>4

\* The chain that a new stop is linked to.
LEMMA LinkIs ==
    ASSUME TypeOK, NEW p, NEW n
    PROVE  /\ Link(p, n) \in Seq(Offer)
           /\ Link(p, n) # <<>> =>
                 /\ recoveries # <<>>
                 /\ ChainOK(recoveries, Len(recoveries))
                 /\ Link(p, n) = ChainOffers(recoveries, Len(recoveries))
                 /\ BridgeOK(p, n, Link(p, n), recoveries, replacements)
  <1>1. CASE Link(p, n) = <<>>
    BY <1>1
  <1>2. CASE Link(p, n) # <<>>
    <2>1. /\ recoveries # <<>> /\ ChainOK(recoveries, Len(recoveries))
          /\ Link(p, n) = ChainOffers(recoveries, Len(recoveries))
          /\ BridgeOK(p, n, ChainOffers(recoveries, Len(recoveries)), recoveries, replacements)
      BY <1>2 DEF Link
    <2>2. recoveries \in Seq(Recovery) /\ Len(recoveries) \in DOMAIN recoveries
      BY <2>1 DEF TypeOK
    <2>3. Link(p, n) \in Seq(Offer)
      BY <2>1, <2>2, ChainOffersAre DEF ChainOK
    <2> QED BY <2>1, <2>3
  <1> QED BY <1>1, <1>2

LEMMA CancelledType ==
    ASSUME IInv, NEW i \in DOMAIN replacements,
           NEW v \in {"none", "pending", "cancelled", "admitted"}, Cancelled(i, v)
    PROVE  engine' \in Engine /\ replacements' \in Seq(Replacement) /\ outbox' \subseteq Wire
  <1>0. engine \in Engine /\ replacements \in Seq(Replacement)
        /\ replacements[i] \in Replacement
    BY Domains DEF IInv, TypeOK
  <1>1. [engine EXCEPT !.predecessor = NoPredecessor] \in Engine
    BY <1>0 DEF Engine, NoPredecessor, Optional
  <1>2. engine' \in Engine
    BY <1>0, <1>1 DEF Cancelled
  <1>3. [replacements[i] EXCEPT !.phase = "cancelled", !.cancellation = v] \in Replacement
    BY <1>0 DEF Replacement
  <1>4. replacements' =
           [replacements EXCEPT ![i] =
               [replacements[i] EXCEPT !.phase = "cancelled", !.cancellation = v]]
    BY <1>0 DEF Cancelled
  <1>5. replacements' \in Seq(Replacement)
    BY <1>0, <1>3, <1>4, Updated
  <1> QED BY <1>2, <1>5 DEF Cancelled

LEMMA ReplaceType ==
    ASSUME IInv, Replace
    PROVE  TypeOK' /\ InvitationOK'
  <1>0. /\ TypeOK /\ InvitationOK /\ StopsOrdered
        /\ invitation \in Invitation /\ recoveries \in Seq(Recovery)
        /\ replacements \in Seq(Replacement) /\ rows \in [Offer -> Row]
        /\ stops \in Seq(Stop) /\ engine \in Engine
        /\ \A i \in DOMAIN replacements :
              /\ replacements[i] \in Replacement
              /\ replacements[i].previous \in Offer /\ replacements[i].next \in Offer
              /\ replacements[i].previous \in Optional
              /\ replacements[i].cancellation \in {"none", "pending", "cancelled", "admitted"}
        /\ \A k \in DOMAIN stops : stops[k] \in Stop
    BY Domains DEF IInv, TypeOK, Replacement, Optional
  <1>1. CASE \E p, n \in Offer : PrepareReplacement(p, n)
    <2>1. PICK p, n \in Offer : PrepareReplacement(p, n)
      BY <1>1
    <2> DEFINE f == IF OpenStops = {} THEN NoOffer ELSE stops[LastOpen].next
               r == [previous |-> p, next |-> n, phase |-> "prepared",
                     cancellation |-> "none", confirmed |-> FALSE, restart_from |-> f]
    <2>2. f \in Optional
      BY <1>0, RestartIs
    <2>3. replacements' = Append(replacements, r)
      BY <2>1 DEF PrepareReplacement
    <2> HIDE DEF f
    <2>4. r \in Replacement
      BY <2>2 DEF Replacement
    <2> HIDE DEF r
    <2>5. replacements' \in Seq(Replacement)
      BY <1>0, <2>3, <2>4, Appended
    <2> QED BY <1>0, <2>1, <2>5 DEF PrepareReplacement, TypeOK, InvitationOK
  <1>2. CASE \E i \in DOMAIN replacements : AttestPredecessor(i)
    <2>1. PICK i \in DOMAIN replacements : AttestPredecessor(i)
      BY <1>2
    <2> DEFINE r == replacements[i]
               d == <<r.previous, FirstGroup(r)>>
    <2>2. d \in Optional \X Optional
      BY <1>0, FirstGroupIs DEF Optional
    <2>3. engine' = [engine EXCEPT !.predecessor = d]
          /\ replacements' = [replacements EXCEPT ![i] = [r EXCEPT !.confirmed = TRUE]]
      BY <1>0, <2>1 DEF AttestPredecessor
    <2> HIDE DEF d
    <2>4. engine' \in Engine
      BY <1>0, <2>2, <2>3 DEF Engine
    <2>5. [r EXCEPT !.confirmed = TRUE] \in Replacement
      BY <1>0 DEF Replacement
    <2>6. replacements' \in Seq(Replacement)
      BY <1>0, <2>3, <2>5, Updated
    <2> QED BY <1>0, <2>1, <2>4, <2>6 DEF AttestPredecessor, TypeOK, InvitationOK
  <1>3. CASE \E i \in DOMAIN replacements : Consent(i)
    <2>1. PICK i \in DOMAIN replacements : Consent(i)
      BY <1>3
    <2>2. replacements' \in Seq(Replacement)
      BY <1>0, <2>1, PhaseIs, Updated DEF Consent
    <2>3. rows' \in [Offer -> Row]
      BY <1>0, <2>1, PublishedIs DEF Consent
    <2> QED BY <1>0, <2>1, <2>2, <2>3 DEF Consent, TypeOK, InvitationOK
  <1>4. CASE \E i \in DOMAIN replacements : ActivateReplacement(i)
    <2>1. PICK i \in DOMAIN replacements : ActivateReplacement(i)
      BY <1>4
    <2>2. engine' \in Engine
      BY <2>1, ReplacedEngine DEF EngineFit
    <2>3. replacements' \in Seq(Replacement)
      BY <1>0, <2>1, PhaseIs, Updated DEF ActivateReplacement
    <2>4. \A k \in DOMAIN stops : [stops[k] EXCEPT !.phase = "retired"] \in Stop
      BY <1>0 DEF Stop
    <2>5. stops' \in [DOMAIN stops -> Stop]
      BY <2>1, <2>4 DEF ActivateReplacement
    <2>6. stops' \in Seq(Stop)
      BY <1>0, <2>5, Mapped
    <2>7. rows' \in [Offer -> Row]
      BY <1>0, <2>1, AnswersIs DEF ActivateReplacement
    <2>8. invitation' \in Invitation /\ InvitationOK' /\ outbox' \subseteq Wire
      <3> DEFINE o == replacements[i].next
      <3>1. o \in Offer /\ invitation' = Fresh(o) /\ outbox' = FreshOutbox(o)
        BY <1>0, <2>1 DEF ActivateReplacement
      <3> HIDE DEF o
      <3> QED BY <3>1, FreshIs, OfferAssumption DEF InvitationOK
    <2> QED BY <1>0, <2>1, <2>2, <2>3, <2>6, <2>7, <2>8 DEF ActivateReplacement, TypeOK
  <1>5. CASE \E i \in DOMAIN replacements : BeginCancelReplacement(i)
    <2>1. PICK i \in DOMAIN replacements : BeginCancelReplacement(i)
      BY <1>5
    <2>2. [replacements[i] EXCEPT !.phase = "cancelling", !.cancellation = "pending"]
             \in Replacement
      BY <1>0 DEF Replacement
    <2>3. replacements' = [replacements EXCEPT ![i] =
             [replacements[i] EXCEPT !.phase = "cancelling", !.cancellation = "pending"]]
      BY <1>0, <2>1 DEF BeginCancelReplacement
    <2>4. replacements' \in Seq(Replacement)
      BY <1>0, <2>2, <2>3, Updated
    <2> QED BY <1>0, <2>1, <2>4 DEF BeginCancelReplacement, TypeOK, InvitationOK
  <1>6. CASE \E i \in DOMAIN replacements : \E v \in {"cancelled", "admitted"} :
                FinishCancelReplacement(i, v)
    <2>1. PICK i \in DOMAIN replacements, v \in {"cancelled", "admitted"} :
             FinishCancelReplacement(i, v)
      BY <1>6
    <2>2. rows' \in [Offer -> Row]
      BY <1>0, <2>1, AnswersIs DEF FinishCancelReplacement
    <2>3. CASE Cancelled(i, v)
      BY <1>0, <2>1, <2>2, <2>3, CancelledType DEF Cancelled, TypeOK, InvitationOK
    <2>4. CASE ~Cancelled(i, v)
      <3>1. [replacements[i] EXCEPT !.phase = "consented", !.cancellation = v] \in Replacement
        BY <1>0 DEF Replacement
      <3>2. /\ replacements' = [replacements EXCEPT ![i] =
                  [replacements[i] EXCEPT !.phase = "consented", !.cancellation = v]]
            /\ UNCHANGED <<invitation, recoveries, stops, outbox, engine, trusted>>
        BY <1>0, <2>1, <2>4 DEF FinishCancelReplacement
      <3>3. replacements' \in Seq(Replacement)
        BY <1>0, <3>1, <3>2, Updated
      <3> QED BY <1>0, <2>2, <3>2, <3>3 DEF TypeOK, InvitationOK
    <2> QED BY <2>3, <2>4
  <1>7. CASE \E i \in DOMAIN replacements : ObserveReplacementCancelled(i)
    <2>1. PICK i \in DOMAIN replacements : ObserveReplacementCancelled(i)
      BY <1>7
    <2>2. rows' \in [Offer -> Row]
      BY <1>0, <2>1, AnswersIs DEF ObserveReplacementCancelled
    <2>3. Cancelled(i, replacements[i].cancellation)
      BY <2>1 DEF ObserveReplacementCancelled
    <2> QED BY <1>0, <2>2, <2>3, CancelledType DEF Cancelled, TypeOK, InvitationOK
  <1>8. CASE \E i \in DOMAIN replacements : MarkReplacementFailed(i)
    <2>1. PICK i \in DOMAIN replacements : MarkReplacementFailed(i)
      BY <1>8
    <2>2. replacements' \in Seq(Replacement)
      BY <1>0, <2>1, PhaseIs, Updated DEF MarkReplacementFailed
    <2>3. rows' \in [Offer -> Row]
      BY <1>0, <2>1, AnswersIs DEF MarkReplacementFailed
    <2> QED BY <1>0, <2>1, <2>2, <2>3 DEF MarkReplacementFailed, TypeOK, InvitationOK
  <1>9. CASE \E i \in DOMAIN replacements : BeginReplacementRecovery(i)
    <2>1. PICK i \in DOMAIN replacements : BeginReplacementRecovery(i)
      BY <1>9
    <2>2. replacements' \in Seq(Replacement)
      BY <1>0, <2>1, PhaseIs, Updated DEF BeginReplacementRecovery
    <2>3. rows' \in [Offer -> Row]
      BY <1>0, <2>1, AnswersIs DEF BeginReplacementRecovery
    <2>4. Closing(replacements[i].next, TRUE, NoOffer) \in Recovery
      BY <1>0, ClosingIs DEF Optional
    <2>5. recoveries' \in Seq(Recovery)
      BY <1>0, <2>1, <2>4, Appended DEF BeginReplacementRecovery
    <2>6. invitation' \in Invitation /\ InvitationOK'
      <3> DEFINE o == replacements[i].next
      <3>1. o \in Offer /\ invitation' = [Fresh(o) EXCEPT !.phase = "recovery_required"]
        BY <1>0, <2>1 DEF BeginReplacementRecovery
      <3> HIDE DEF o
      <3> QED BY <3>1, FreshIs, OfferAssumption DEF InvitationOK
    <2> QED BY <1>0, <2>1, <2>2, <2>3, <2>5, <2>6 DEF BeginReplacementRecovery, TypeOK
  <1>10. CASE \E p, n \in Offer : BeginStop(p, n)
    <2>1. PICK p, n \in Offer : BeginStop(p, n)
      BY <1>10
    <2> DEFINE act == \E r \in ToSet(replacements) :
                         r.phase = "active" /\ r.previous = p /\ r.next = n
               c == Link(p, n)
               s == [previous |-> p, next |-> n, phase |-> "stopping",
                     native |-> act, chain |-> c]
    <2>2. c \in Seq(Offer) /\ act \in BOOLEAN
      BY <1>0, LinkIs
    <2>3. stops' = Append(stops, s) /\ outbox' = {} /\ Answers(p, n, "admitted")
          /\ UNCHANGED <<invitation, recoveries, replacements, engine, trusted>>
      BY <2>1 DEF BeginStop
    <2> HIDE DEF act, c
    <2>4. s \in Stop
      BY <2>2 DEF Stop
    <2> HIDE DEF s
    <2>5. stops' \in Seq(Stop)
      BY <1>0, <2>3, <2>4, Appended
    <2>6. rows' \in [Offer -> Row]
      BY <1>0, <2>3, AnswersIs DEF Optional
    <2> QED BY <1>0, <2>3, <2>5, <2>6 DEF TypeOK, InvitationOK
  <1>11. CASE \E i \in DOMAIN stops : CompleteStop(i)
    <2>1. PICK i \in DOMAIN stops : CompleteStop(i)
      BY <1>11
    <2>2. [stops[i] EXCEPT !.phase = "stopped"] \in Stop
      BY <1>0 DEF Stop
    <2>3. stops' \in Seq(Stop)
      BY <1>0, <2>1, <2>2, Updated DEF CompleteStop
    <2>4. replacements' \in [DOMAIN replacements -> Replacement]
      BY <1>0, <2>1, PhaseIs DEF CompleteStop
    <2>5. replacements' \in Seq(Replacement)
      BY <1>0, <2>4, Mapped
    <2> QED BY <1>0, <2>1, <2>3, <2>5 DEF CompleteStop, TypeOK, InvitationOK
  <1> QED BY <1>1, <1>2, <1>3, <1>4, <1>5, <1>6, <1>7, <1>8, <1>9, <1>10, <1>11 DEF Replace
-----------------------------------------------------------------------------
(* How a step changes the entries of the ledgers.                          *)

LEMMA MessageFits ==
    ASSUME Accepts("message")
    PROVE  ~Failed /\ OpenStops = {} /\ ~Replacing
  <1>1. OpenStops = {}
    BY DEF Accepts
  <1>2. StoppedOrigins = {}
    BY <1>1 DEF StoppedOrigins
  <1> QED BY <1>1, <1>2 DEF Accepts

LEMMA OthersFit ==
    ASSUME NEW class \in {"rejoin", "mark", "failure", "close"}, Accepts(class)
    PROVE  OpenStops = {}
  BY DEF Accepts

\* Where a replacement goes from here: it never becomes prepared again, an
\* active or a cancelled one stays, and one becomes active only when no stop is
\* left open.
KeptReplacement(r, q, open) ==
    /\ q.previous = r.previous /\ q.next = r.next /\ q.restart_from = r.restart_from
    /\ q.cancellation = "pending" <=> q.phase = "cancelling"
    /\ q.cancellation = "cancelled" => q.phase = "cancelled"
    /\ q.confirmed => IsCurrent(q.previous, q.next)
    /\ q.phase # r.phase =>
          /\ r.phase \notin {"active", "cancelled"}
          /\ q.phase # "prepared"
          /\ r.phase = "abandoned" => q.phase = "active"
          /\ r.phase = "recovering" => q.phase = "abandoned"
          /\ q.phase = "active" => open = {}
          /\ q.phase \in {"consented", "cancelling"} =>
                r.phase \in {"prepared", "consented", "cancelling"}
ReplacementsKept ==
    /\ DOMAIN replacements' = DOMAIN replacements
    /\ \A j \in DOMAIN replacements :
          KeptReplacement(replacements[j], replacements'[j], OpenStops')

\* A stop is confirmed once, and retired once.
KeptStop(s, t) ==
    /\ t.previous = s.previous /\ t.next = s.next
    /\ t.native = s.native /\ t.chain = s.chain
    /\ \/ t.phase = s.phase
       \/ s.phase = "stopping" /\ t.phase = "stopped"
       \/ t.phase = "retired"
StopsKept ==
    /\ DOMAIN stops' = DOMAIN stops
    /\ \A k \in DOMAIN stops : KeptStop(stops[k], stops'[k])
    /\ \/ OpenStops' = OpenStops
       \/ OpenStops' = {} /\ \E i \in DOMAIN replacements : ActivateReplacement(i)

LEMMA UnchangedReplacements ==
    ASSUME IInv, UNCHANGED replacements
    PROVE  ReplacementsKept
  BY DEF IInv, ReplacementsOpen, ReplacementsKept, KeptReplacement

LEMMA UnchangedStops ==
    ASSUME UNCHANGED stops
    PROVE  StopsKept /\ OpenStops' = OpenStops
  BY DEF StopsKept, KeptStop, OpenStops

\* One replacement is changed.
LEMMA OneReplacement ==
    ASSUME IInv, NEW i \in DOMAIN replacements, NEW q,
           replacements' = [replacements EXCEPT ![i] = q],
           KeptReplacement(replacements[i], q, OpenStops')
    PROVE  ReplacementsKept
  <1>1. DOMAIN replacements' = DOMAIN replacements
        /\ replacements'[i] = q
        /\ \A j \in DOMAIN replacements : j # i => replacements'[j] = replacements[j]
    BY DEF IInv, TypeOK
  <1>2. \A j \in DOMAIN replacements :
           KeptReplacement(replacements[j], replacements[j], OpenStops')
    BY DEF IInv, ReplacementsOpen, KeptReplacement
  <1> QED BY <1>1, <1>2 DEF ReplacementsKept

\* Only the phase is.
LEMMA PhaseKept ==
    ASSUME NEW r \in Replacement, NEW open,
           NEW ph \in {"consented", "active", "recovery_required", "recovering", "abandoned"},
           r.cancellation \notin {"pending", "cancelled"},
           r.confirmed => IsCurrent(r.previous, r.next),
           r.phase \notin {"active", "cancelled", "cancelling"},
           r.phase = "abandoned" => ph = "active",
           r.phase = "recovering" => ph = "abandoned",
           ph = "active" => open = {},
           ph = "consented" => r.phase \in {"prepared", "consented"}
    PROVE  KeptReplacement(r, [r EXCEPT !.phase = ph], open)
  <1> DEFINE q == [r EXCEPT !.phase = ph]
  <1>1. /\ q.phase = ph /\ q.previous = r.previous /\ q.next = r.next
        /\ q.cancellation = r.cancellation /\ q.confirmed = r.confirmed
        /\ q.restart_from = r.restart_from
    BY PhaseIs
  <1> HIDE DEF q
  <1>2. KeptReplacement(r, q, open)
    BY <1>1 DEF KeptReplacement
  <1> QED BY <1>2 DEF q

LEMMA OnePhase ==
    ASSUME IInv, NEW i \in DOMAIN replacements,
           NEW ph \in {"consented", "active", "recovery_required", "recovering"},
           replacements' = [replacements EXCEPT ![i].phase = ph],
           replacements[i].phase \in {"prepared", "consented", "recovery_required"},
           ph = "active" => OpenStops' = {},
           ph = "consented" => replacements[i].phase \in {"prepared", "consented"}
    PROVE  ReplacementsKept
  <1> DEFINE r == replacements[i]
  <1>1. r \in Replacement
    BY Domains DEF IInv
  <1>2. replacements' = [replacements EXCEPT ![i] = [r EXCEPT !.phase = ph]]
    BY DEF IInv, TypeOK
  <1>3. /\ r.cancellation \notin {"pending", "cancelled"}
        /\ r.confirmed => IsCurrent(r.previous, r.next)
        /\ r.phase \in {"prepared", "consented", "recovery_required"}
        /\ ph = "consented" => r.phase \in {"prepared", "consented"}
    BY DEF IInv, ReplacementsOpen
  <1> HIDE DEF r
  <1>4. KeptReplacement(r, [r EXCEPT !.phase = ph], OpenStops')
    BY <1>1, <1>3, PhaseKept
  <1> QED BY <1>2, <1>4, OneReplacement DEF r

\* A command that cancels a replacement.
LEMMA CancelledKept ==
    ASSUME IInv, NEW i \in DOMAIN replacements,
           replacements[i].phase \in {"prepared", "consented", "cancelling"},
           NEW v, v # "pending", Cancelled(i, v)
    PROVE  ReplacementsKept
  <1> DEFINE r == replacements[i]
             q == [r EXCEPT !.phase = "cancelled", !.cancellation = v]
  <1>1. r \in Replacement
    BY Domains DEF IInv
  <1>2. /\ q.phase = "cancelled" /\ q.previous = r.previous /\ q.next = r.next
        /\ q.cancellation = v /\ q.confirmed = r.confirmed
        /\ q.restart_from = r.restart_from
    BY <1>1 DEF Replacement
  <1>3. replacements' = [replacements EXCEPT ![i] = q]
    BY DEF IInv, TypeOK, Cancelled
  <1>4. /\ r.confirmed => IsCurrent(r.previous, r.next)
        /\ r.phase \in {"prepared", "consented", "cancelling"}
    BY DEF IInv, ReplacementsOpen
  <1> HIDE DEF q, r
  <1>5. KeptReplacement(r, q, OpenStops')
    BY <1>2, <1>4 DEF KeptReplacement
  <1> QED BY <1>3, <1>5, OneReplacement DEF r

\* Every action but prepare_replacement keeps the replacements there are, and
\* every one but begin_stop_replacement the stops.
LEMMA NextKeeps ==
    ASSUME IInv, Next
    PROVE  /\ ReplacementsKept \/ \E p, n \in Offer : PrepareReplacement(p, n)
           /\ StopsKept \/ \E p, n \in Offer : BeginStop(p, n)
  <1>0. /\ TypeOK /\ replacements \in Seq(Replacement) /\ stops \in Seq(Stop)
        /\ \A i \in DOMAIN replacements : replacements[i] \in Replacement
        /\ \A k \in DOMAIN stops : stops[k] \in Stop
        /\ \A i \in DOMAIN replacements :
              LET r == replacements[i]
              IN  /\ r.cancellation = "pending" <=> r.phase = "cancelling"
                  /\ r.cancellation = "cancelled" => r.phase = "cancelled"
                  /\ r.confirmed => IsCurrent(r.previous, r.next)
    BY Domains DEF IInv, TypeOK, ReplacementsOpen
  <1> USE UnchangedReplacements, UnchangedStops
  <1>1. CASE Talk
    BY <1>1 DEF Talk, PrepareInvitation, InviteFromDelivery, JoinFromDelivery,
         AcceptDelivery, CompleteInvitation, SendChat, MarkInvitationFailed, ApprovePeer
  <1>2. CASE Rejoin
    <2>1. CASE BeginClose
      BY <2>1 DEF BeginClose
    <2>2. CASE \E i \in DOMAIN recoveries : CompleteClose(i)
      <3>1. PICK i \in DOMAIN recoveries : CompleteClose(i)
        BY <2>2
      <3>2. DOMAIN replacements' = DOMAIN replacements
        BY <3>1 DEF CompleteClose
      <3>3. \A j \in DOMAIN replacements :
               \/ replacements'[j] = replacements[j]
               \/ /\ replacements[j].phase = "recovering"
                  /\ replacements'[j] = [replacements[j] EXCEPT !.phase = "abandoned"]
        BY <3>1 DEF CompleteClose
      <3>4. \A j \in DOMAIN replacements :
               KeptReplacement(replacements[j], replacements'[j], OpenStops')
        <4> TAKE j \in DOMAIN replacements
        <4>1. KeptReplacement(replacements[j], replacements[j], OpenStops')
          BY <1>0 DEF KeptReplacement
        <4>2. /\ replacements[j] \in Replacement
              /\ replacements[j].confirmed =>
                    IsCurrent(replacements[j].previous, replacements[j].next)
          BY <1>0
        <4>3. replacements[j].phase = "recovering" =>
                 /\ replacements[j].cancellation \notin {"pending", "cancelled"}
                 /\ replacements[j].phase \notin {"active", "cancelled", "cancelling"}
          BY <1>0
        <4>4. replacements[j].phase = "recovering" =>
                 KeptReplacement(replacements[j],
                                 [replacements[j] EXCEPT !.phase = "abandoned"], OpenStops')
          BY <4>2, <4>3, PhaseKept
        <4> QED BY <4>1, <4>4, <3>3
      <3> QED BY <3>1, <3>2, <3>4 DEF CompleteClose, ReplacementsKept
    <2>3. CASE \E i \in DOMAIN recoveries, n \in Offer : PrepareRejoin(i, n)
      BY <2>3 DEF PrepareRejoin
    <2>4. CASE \E i \in DOMAIN recoveries, n \in Offer : ActivateRejoin(i, n)
      <3>1. PICK i \in DOMAIN recoveries, n \in Offer : ActivateRejoin(i, n)
        BY <2>4
      <3>2. DOMAIN replacements' = DOMAIN replacements
        BY <3>1 DEF ActivateRejoin
      <3>3. Deferred(i) # {} => \A j \in Deferred(i) : replacements[j].phase = "abandoned"
        BY <3>1 DEF ActivateRejoin
      <3>4. \A j \in DOMAIN replacements :
               \/ replacements'[j] = replacements[j]
               \/ /\ replacements[j].phase = "abandoned"
                  /\ replacements'[j] = [replacements[j] EXCEPT !.phase = "active"]
        BY <3>1, <3>3 DEF ActivateRejoin
      <3>5. StopsKept /\ OpenStops' = {}
        BY <3>1, OthersFit DEF ActivateRejoin, CanRejoin
      <3>6. \A j \in DOMAIN replacements :
               KeptReplacement(replacements[j], replacements'[j], OpenStops')
        <4> TAKE j \in DOMAIN replacements
        <4>1. KeptReplacement(replacements[j], replacements[j], OpenStops')
          BY <1>0 DEF KeptReplacement
        <4>2. /\ replacements[j] \in Replacement
              /\ replacements[j].confirmed =>
                    IsCurrent(replacements[j].previous, replacements[j].next)
          BY <1>0
        <4>3. replacements[j].phase = "abandoned" =>
                 /\ replacements[j].cancellation \notin {"pending", "cancelled"}
                 /\ replacements[j].phase \notin {"active", "cancelled", "cancelling"}
          BY <1>0
        <4>4. replacements[j].phase = "abandoned" =>
                 KeptReplacement(replacements[j],
                                 [replacements[j] EXCEPT !.phase = "active"], OpenStops')
          BY <4>2, <4>3, <3>5, PhaseKept
        <4> QED BY <4>1, <4>4, <3>4
      <3> QED BY <3>2, <3>5, <3>6 DEF ReplacementsKept
    <2>5. CASE \E i \in DOMAIN recoveries : MarkRejoinFailed(i) \/ BeginRejoinRecovery(i)
               \/ BeginCancelRejoin(i)
               \/ \E c \in {"cancelled", "admitted"} : FinishCancelRejoin(i, c)
      BY <2>5 DEF MarkRejoinFailed, BeginRejoinRecovery, BeginCancelRejoin, FinishCancelRejoin
    <2> QED BY <1>2, <2>1, <2>2, <2>3, <2>4, <2>5 DEF Rejoin
  <1>3. CASE Replace
    <2>1. CASE \E p, n \in Offer : PrepareReplacement(p, n)
      BY <2>1 DEF PrepareReplacement
    <2>2. CASE \E i \in DOMAIN replacements : AttestPredecessor(i)
      <3>1. PICK i \in DOMAIN replacements : AttestPredecessor(i)
        BY <2>2
      <3> DEFINE r == replacements[i]
                 q == [r EXCEPT !.confirmed = TRUE]
      <3>2. replacements' = [replacements EXCEPT ![i] = q] /\ IsCurrent(r.previous, r.next)
        BY <1>0, <3>1 DEF AttestPredecessor
      <3>3. /\ q.phase = r.phase /\ q.previous = r.previous /\ q.next = r.next
            /\ q.cancellation = r.cancellation /\ q.restart_from = r.restart_from
        BY <1>0 DEF Replacement
      <3>4. KeptReplacement(r, q, OpenStops')
        BY <1>0, <3>2, <3>3 DEF KeptReplacement
      <3> QED BY <3>1, <3>2, <3>4, OneReplacement DEF AttestPredecessor
    <2>3. CASE \E i \in DOMAIN replacements : Consent(i)
      <3>1. PICK i \in DOMAIN replacements : Consent(i)
        BY <2>3
      <3> QED BY <3>1, OnePhase DEF Consent, Pending
    <2>4. CASE \E i \in DOMAIN replacements : ActivateReplacement(i)
      <3>1. PICK i \in DOMAIN replacements : ActivateReplacement(i)
        BY <2>4
      <3>2. stops' = [k \in DOMAIN stops |-> [stops[k] EXCEPT !.phase = "retired"]]
            /\ replacements' = [replacements EXCEPT ![i].phase = "active"]
            /\ replacements[i].phase = "consented"
        BY <3>1 DEF ActivateReplacement, Pending
      <3>3. \A k \in DOMAIN stops :
               /\ [stops[k] EXCEPT !.phase = "retired"].phase = "retired"
               /\ [stops[k] EXCEPT !.phase = "retired"].previous = stops[k].previous
               /\ [stops[k] EXCEPT !.phase = "retired"].next = stops[k].next
               /\ [stops[k] EXCEPT !.phase = "retired"].native = stops[k].native
               /\ [stops[k] EXCEPT !.phase = "retired"].chain = stops[k].chain
        BY <1>0 DEF Stop
      <3>4. StopsKept /\ OpenStops' = {}
        BY <3>1, <3>2, <3>3 DEF StopsKept, KeptStop, OpenStops
      <3> QED BY <3>2, <3>4, OnePhase
    <2>5. CASE \E i \in DOMAIN replacements : BeginCancelReplacement(i)
      <3>1. PICK i \in DOMAIN replacements : BeginCancelReplacement(i)
        BY <2>5
      <3> DEFINE r == replacements[i]
                 q == [r EXCEPT !.phase = "cancelling", !.cancellation = "pending"]
      <3>2. replacements' = [replacements EXCEPT ![i] = q]
            /\ r.phase \in {"prepared", "consented"}
        BY <1>0, <3>1 DEF BeginCancelReplacement, Pending
      <3>3. /\ q.phase = "cancelling" /\ q.previous = r.previous /\ q.next = r.next
            /\ q.cancellation = "pending" /\ q.restart_from = r.restart_from
            /\ q.confirmed = r.confirmed
        BY <1>0 DEF Replacement
      <3>4. KeptReplacement(r, q, OpenStops')
        BY <1>0, <3>2, <3>3 DEF KeptReplacement
      <3> QED BY <3>1, <3>2, <3>4, OneReplacement DEF BeginCancelReplacement
    <2>6. CASE \E i \in DOMAIN replacements : \E v \in {"cancelled", "admitted"} :
                FinishCancelReplacement(i, v)
      <3>1. PICK i \in DOMAIN replacements, v \in {"cancelled", "admitted"} :
               FinishCancelReplacement(i, v)
        BY <2>6
      <3>2. replacements[i].phase = "cancelling"
        BY <3>1 DEF FinishCancelReplacement, Pending
      <3>3. CASE Cancelled(i, v)
        BY <3>1, <3>2, <3>3, CancelledKept DEF Cancelled
      <3>4. CASE ~Cancelled(i, v)
        <4> DEFINE r == replacements[i]
                   q == [r EXCEPT !.phase = "consented", !.cancellation = v]
        <4>1. v = "admitted" /\ replacements' = [replacements EXCEPT ![i] = q]
              /\ UNCHANGED stops
          BY <1>0, <3>1, <3>4 DEF FinishCancelReplacement
        <4>2. /\ q.phase = "consented" /\ q.previous = r.previous /\ q.next = r.next
              /\ q.cancellation = v /\ q.restart_from = r.restart_from
              /\ q.confirmed = r.confirmed
          BY <1>0 DEF Replacement
        <4>3. KeptReplacement(r, q, OpenStops')
          BY <1>0, <3>2, <4>1, <4>2 DEF KeptReplacement
        <4> QED BY <4>1, <4>3, OneReplacement
      <3> QED BY <3>3, <3>4
    <2>7. CASE \E i \in DOMAIN replacements : ObserveReplacementCancelled(i)
      <3>1. PICK i \in DOMAIN replacements : ObserveReplacementCancelled(i)
        BY <2>7
      <3>2. /\ replacements[i].phase \in {"prepared", "consented"}
            /\ Cancelled(i, replacements[i].cancellation)
        BY <3>1 DEF ObserveReplacementCancelled, Pending
      <3>3. replacements[i].cancellation # "pending"
        BY <1>0, <3>2
      <3> QED BY <3>2, <3>3, CancelledKept DEF Cancelled
    <2>8. CASE \E i \in DOMAIN replacements : MarkReplacementFailed(i)
      <3>1. PICK i \in DOMAIN replacements : MarkReplacementFailed(i)
        BY <2>8
      <3> QED BY <3>1, OnePhase DEF MarkReplacementFailed
    <2>9. CASE \E i \in DOMAIN replacements : BeginReplacementRecovery(i)
      <3>1. PICK i \in DOMAIN replacements : BeginReplacementRecovery(i)
        BY <2>9
      <3> QED BY <3>1, OnePhase DEF BeginReplacementRecovery
    <2>10. CASE \E p, n \in Offer : BeginStop(p, n)
      BY <2>10 DEF BeginStop
    <2>11. CASE \E i \in DOMAIN stops : CompleteStop(i)
      <3>1. PICK i \in DOMAIN stops : CompleteStop(i)
        BY <2>11
      <3>2. DOMAIN replacements' = DOMAIN replacements
        BY <3>1 DEF CompleteStop
      <3>3. stops[i].phase = "stopping" /\ i \in OpenStops
        BY <3>1 DEF CompleteStop, OpenStops
      <3>4. \A j \in DOMAIN replacements :
               \/ replacements'[j] = replacements[j]
               \/ /\ replacements[j].phase \notin
                        {"active", "cancelled", "cancelling", "recovering"}
                  /\ replacements'[j] = [replacements[j] EXCEPT !.phase = "abandoned"]
        BY <3>1, <3>3 DEF CompleteStop, IInv, StopsHold, ReplacementOf
      <3>5. \A j \in DOMAIN replacements :
               KeptReplacement(replacements[j], replacements'[j], OpenStops')
        <4> TAKE j \in DOMAIN replacements
        <4>1. KeptReplacement(replacements[j], replacements[j], OpenStops')
          BY <1>0 DEF KeptReplacement
        <4>2. replacements[j] \in Replacement
          BY <1>0
        <4>3. replacements[j].phase = "abandoned" =>
                 [replacements[j] EXCEPT !.phase = "abandoned"] = replacements[j]
          BY <4>2 DEF Replacement
        <4> QED BY <1>0, <4>1, <4>2, <4>3, <3>4, PhaseKept
      <3>6. StopsKept
        <4>1. stops' = [stops EXCEPT ![i] = [stops[i] EXCEPT !.phase = "stopped"]]
          BY <1>0, <3>1 DEF CompleteStop
        <4>2. /\ [stops[i] EXCEPT !.phase = "stopped"].phase = "stopped"
              /\ [stops[i] EXCEPT !.phase = "stopped"].previous = stops[i].previous
              /\ [stops[i] EXCEPT !.phase = "stopped"].next = stops[i].next
              /\ [stops[i] EXCEPT !.phase = "stopped"].native = stops[i].native
              /\ [stops[i] EXCEPT !.phase = "stopped"].chain = stops[i].chain
          BY <1>0 DEF Stop
        <4>3. /\ DOMAIN stops' = DOMAIN stops
              /\ stops'[i] = [stops[i] EXCEPT !.phase = "stopped"]
              /\ \A k \in DOMAIN stops : k # i => stops'[k] = stops[k]
          BY <1>0, <4>1
        <4>4. OpenStops' = OpenStops
          BY <3>3, <4>2, <4>3 DEF OpenStops
        <4> QED BY <3>3, <4>2, <4>3, <4>4 DEF StopsKept, KeptStop
      <3> QED BY <3>2, <3>5, <3>6 DEF ReplacementsKept
    <2> QED BY <1>3, <2>1, <2>2, <2>3, <2>4, <2>5, <2>6, <2>7, <2>8, <2>9, <2>10, <2>11
         DEF Replace
  <1> QED BY <1>1, <1>2, <1>3 DEF Next
-----------------------------------------------------------------------------
(* The outbox, the ledger of replacements and the ledger of stops.         *)

LEMMA OutboxStep ==
    ASSUME IInv, Next
    PROVE  OutboxOK'
  <1>0. /\ TypeOK /\ InvitationOK /\ OutboxOK
        /\ \A i \in DOMAIN recoveries : recoveries[i].next # NoOffer => recoveries[i].next \in Offer
        /\ \A j \in DOMAIN replacements : replacements[j].next \in Offer
    BY Domains DEF IInv, Recovery, Replacement, Optional
  <1>1. CASE Talk
    <2>1. CASE \E o \in Offer : PrepareInvitation(o)
      BY <2>1, FreshIs DEF PrepareInvitation, OutboxOK
    <2>2. CASE InviteFromDelivery
      <3>1. invitation.offer \in Offer /\ ~Failed
        BY <1>0, <2>2, ChannelIs DEF InviteFromDelivery, Failed
      <3>2. \A w \in Queue(invitation.offer, {"commit", "welcome"}) : w.channel = invitation.offer
        BY <3>1, QueueIs
      <3>3. invitation'.offer = invitation.offer
        BY <1>0, <2>2 DEF InviteFromDelivery, TypeOK, Invitation
      <3> QED BY <1>0, <2>2, <3>1, <3>2, <3>3 DEF InviteFromDelivery, OutboxOK
    <2>3. CASE JoinFromDelivery
      <3>1. ~Failed /\ invitation'.offer = invitation.offer
        BY <1>0, <2>3 DEF JoinFromDelivery, TypeOK, Invitation, Failed
      <3> QED BY <1>0, <2>3, <3>1 DEF JoinFromDelivery, OutboxOK
    <2>4. CASE \E w \in outbox : AcceptDelivery(w)
      <3>1. ~Failed
        BY <2>4, MessageFits DEF AcceptDelivery
      <3>2. invitation'.offer = invitation.offer /\ outbox' \subseteq outbox
        BY <1>0, <2>4 DEF AcceptDelivery, TypeOK, Invitation
      <3> QED BY <1>0, <3>1, <3>2 DEF OutboxOK
    <2>5. CASE CompleteInvitation
      <3>1. ~Failed
        BY <2>5, MessageFits DEF CompleteInvitation
      <3>2. invitation'.offer = invitation.offer /\ outbox' = outbox
        BY <1>0, <2>5 DEF CompleteInvitation, TypeOK, Invitation
      <3> QED BY <1>0, <3>1, <3>2 DEF OutboxOK
    <2>6. CASE SendChat
      <3>1. invitation.offer \in Offer /\ ~Failed
        BY <1>0, <2>6, ChannelIs DEF SendChat, Failed
      <3>2. \A w \in Queue(invitation.offer, {"application"}) : w.channel = invitation.offer
        BY <3>1, QueueIs
      <3> QED BY <1>0, <2>6, <3>1, <3>2 DEF SendChat, OutboxOK
    <2>7. CASE MarkInvitationFailed
      BY <1>0, <2>7 DEF MarkInvitationFailed, OutboxOK, Failed, TypeOK, Invitation
    <2>8. CASE ApprovePeer
      BY <1>0, <2>8 DEF ApprovePeer, OutboxOK, Failed
    <2> QED BY <1>1, <2>1, <2>2, <2>3, <2>4, <2>5, <2>6, <2>7, <2>8 DEF Talk
  <1>2. ASSUME UNCHANGED <<invitation, outbox>> PROVE OutboxOK'
    BY <1>0, <1>2 DEF OutboxOK, Failed
  <1>3. ASSUME outbox' = {} PROVE OutboxOK'
    BY <1>3 DEF OutboxOK
  <1>4. ASSUME NEW o \in Offer, invitation' = Fresh(o), outbox' = FreshOutbox(o)
        PROVE  OutboxOK'
    BY <1>4, FreshIs DEF OutboxOK
  <1>5. ASSUME NEW o \in Offer, invitation' = [Fresh(o) EXCEPT !.phase = "recovery_required"]
        PROVE  OutboxOK'
    BY <1>5, FreshIs DEF OutboxOK, Failed
  <1>6. CASE Rejoin
    <2>1. CASE \E i \in DOMAIN recoveries, n \in Offer : ActivateRejoin(i, n)
      BY <1>4, <2>1 DEF ActivateRejoin
    <2>2. CASE \E i \in DOMAIN recoveries : BeginRejoinRecovery(i)
      BY <1>0, <1>5, <2>2 DEF BeginRejoinRecovery, CanFailRejoin
    <2>3. CASE \/ BeginClose
               \/ \E i \in DOMAIN recoveries :
                     \/ CompleteClose(i) \/ MarkRejoinFailed(i) \/ BeginCancelRejoin(i)
                     \/ \E n \in Offer : PrepareRejoin(i, n)
                     \/ \E c \in {"cancelled", "admitted"} : FinishCancelRejoin(i, c)
      BY <1>2, <2>3 DEF BeginClose, CompleteClose, MarkRejoinFailed, BeginCancelRejoin,
           PrepareRejoin, FinishCancelRejoin
    <2> QED BY <1>6, <2>1, <2>2, <2>3 DEF Rejoin
  <1>7. CASE Replace
    <2>1. CASE \E i \in DOMAIN replacements : ActivateReplacement(i)
      BY <1>0, <1>4, <2>1 DEF ActivateReplacement
    <2>2. CASE \E i \in DOMAIN replacements : BeginReplacementRecovery(i)
      BY <1>0, <1>5, <2>2 DEF BeginReplacementRecovery
    <2>3. CASE \/ \E i \in DOMAIN replacements :
                     \/ ObserveReplacementCancelled(i)
                     \/ \E c \in {"cancelled", "admitted"} : FinishCancelReplacement(i, c)
               \/ \E p, n \in Offer : BeginStop(p, n)
      <3>1. ASSUME NEW i \in DOMAIN replacements, NEW v, Cancelled(i, v) PROVE OutboxOK'
        BY <1>3, <3>1 DEF Cancelled
      <3>2. CASE \E i \in DOMAIN replacements : ObserveReplacementCancelled(i)
        BY <3>1, <3>2 DEF ObserveReplacementCancelled
      <3>3. CASE \E i \in DOMAIN replacements : \E c \in {"cancelled", "admitted"} :
                    FinishCancelReplacement(i, c)
        BY <1>2, <3>1, <3>3 DEF FinishCancelReplacement
      <3>4. CASE \E p, n \in Offer : BeginStop(p, n)
        BY <1>3, <3>4 DEF BeginStop
      <3> QED BY <2>3, <3>2, <3>3, <3>4
    <2>4. CASE \/ \E p, n \in Offer : PrepareReplacement(p, n)
               \/ \E i \in DOMAIN replacements :
                     \/ AttestPredecessor(i) \/ Consent(i) \/ BeginCancelReplacement(i)
                     \/ MarkReplacementFailed(i)
               \/ \E i \in DOMAIN stops : CompleteStop(i)
      BY <1>2, <2>4 DEF PrepareReplacement, AttestPredecessor, Consent,
           BeginCancelReplacement, MarkReplacementFailed, CompleteStop
    <2> QED BY <1>7, <2>1, <2>2, <2>3, <2>4 DEF Replace
  <1> QED BY <1>1, <1>6, <1>7 DEF Next

\* The stop that a replacement goes on from stays, confirmed or retired.
LEMMA StopStays ==
    ASSUME IInv, StopsKept \/ \E p, n \in Offer : BeginStop(p, n)
    PROVE  /\ DOMAIN stops \subseteq DOMAIN stops'
           /\ \A k \in DOMAIN stops : KeptStop(stops[k], stops'[k])
  <1>1. CASE StopsKept
    BY <1>1 DEF StopsKept
  <1>2. CASE \E p, n \in Offer : BeginStop(p, n)
    <2>1. PICK s : stops' = Append(stops, s)
      BY <1>2 DEF BeginStop
    <2>2. /\ DOMAIN stops \subseteq DOMAIN stops'
          /\ \A k \in DOMAIN stops : stops'[k] = stops[k]
      BY <2>1 DEF IInv, TypeOK
    <2> QED BY <2>2 DEF KeptStop
  <1> QED BY <1>1, <1>2

LEMMA ReplacementsStep ==
    ASSUME IInv, Next, TypeOK'
    PROVE  ReplacementsOpen'
  <1>0. /\ TypeOK /\ ReplacementsOpen
        /\ replacements \in Seq(Replacement)
        /\ \A i \in DOMAIN replacements : replacements[i] \in Replacement
        /\ \A k \in DOMAIN stops : stops[k] \in Stop /\ stops'[k] \in Stop
    <2>1. TypeOK /\ ReplacementsOpen /\ replacements \in Seq(Replacement)
      BY DEF IInv, TypeOK
    <2>2. \A k \in DOMAIN stops : k \in DOMAIN stops'
      BY NextKeeps, StopStays
    <2>3. \A k \in DOMAIN stops' : stops'[k] \in Stop
      BY DEF TypeOK
    <2> QED BY <2>1, <2>2, <2>3, Domains
  <1>1. \A k \in DOMAIN stops : k \in DOMAIN stops' /\ KeptStop(stops[k], stops'[k])
    BY NextKeeps, StopStays
  \* The stop of restart_from, before and after.
  <1>2. ASSUME NEW f \in Offer, NEW p, NEW a \in BOOLEAN, NEW b \in BOOLEAN,
               b => a \/ OpenStops' = {},
               \E s \in ToSet(stops) :
                  /\ s.next = f /\ s.previous = p
                  /\ s.phase \in {"stopped", "retired"} /\ (a => s.phase = "retired")
        PROVE  \E s \in ToSet(stops') :
                  /\ s.next = f /\ s.previous = p
                  /\ s.phase \in {"stopped", "retired"} /\ (b => s.phase = "retired")
    <2>1. PICK k \in DOMAIN stops :
             /\ stops[k].next = f /\ stops[k].previous = p
             /\ stops[k].phase \in {"stopped", "retired"}
             /\ a => stops[k].phase = "retired"
      BY <1>2 DEF ToSet
    <2>2. k \in DOMAIN stops' /\ KeptStop(stops[k], stops'[k])
      BY <1>1
    <2>3. /\ stops'[k].next = f /\ stops'[k].previous = p
          /\ stops'[k].phase \in {"stopped", "retired"}
          /\ a => stops'[k].phase = "retired"
      BY <2>1, <2>2 DEF KeptStop
    <2>4. b => stops'[k].phase = "retired"
      BY <1>2, <2>2, <2>3 DEF OpenStops
    <2>5. stops'[k] \in ToSet(stops')
      BY <2>2 DEF ToSet
    <2> QED BY <2>3, <2>4, <2>5
  <1>3. CASE ReplacementsKept
    <2>1. DOMAIN replacements' = DOMAIN replacements
          /\ Len(replacements') = Len(replacements)
      <3>1. /\ DOMAIN replacements' = 1..Len(replacements') /\ Len(replacements') \in Nat
            /\ DOMAIN replacements = 1..Len(replacements) /\ Len(replacements) \in Nat
        BY DEF TypeOK, IInv
      <3>2. DOMAIN replacements' = DOMAIN replacements
        BY <1>3 DEF ReplacementsKept
      <3>3. \A m, n \in Nat : 1..m = 1..n => m = n
        BY SMT
      <3> QED BY <3>1, <3>2, <3>3
    <2>2. ASSUME NEW i \in DOMAIN replacements
          PROVE  LET r == replacements'[i]
                 IN
                 /\ IsReplacement(r.previous, r.next)
                 /\ r.cancellation = "pending" => r.phase = "cancelling"
                 /\ r.cancellation = "cancelled" => r.phase = "cancelled"
                 /\ r.phase = "cancelling" => r.cancellation = "pending"
                 /\ r.restart_from # NoOffer =>
                       \E s \in ToSet(stops') :
                          /\ s.next = r.restart_from
                          /\ s.previous = r.previous
                          /\ s.phase \in IF r.phase = "active" THEN {"retired"}
                                         ELSE {"stopped", "retired"}
                 /\ r.confirmed => IsCurrent(r.previous, r.next)
                 /\ i < Len(replacements) => r.phase \in {"active", "cancelled", "abandoned"}
      <3> DEFINE o == replacements[i]
                 r == replacements'[i]
      <3>1. KeptReplacement(o, r, OpenStops')
        BY <1>3 DEF ReplacementsKept
      <3>2. /\ o.restart_from # NoOffer => o.restart_from \in Offer
            /\ IsReplacement(o.previous, o.next)
            /\ i < Len(replacements) => o.phase \in {"active", "cancelled", "abandoned"}
            /\ o.restart_from # NoOffer =>
                       \E s \in ToSet(stops) :
                          /\ s.next = o.restart_from
                          /\ s.previous = o.previous
                          /\ s.phase \in IF o.phase = "active" THEN {"retired"}
                                         ELSE {"stopped", "retired"}
        BY <1>0 DEF ReplacementsOpen, Replacement, Optional
      <3> HIDE DEF o, r
      <3>3. r.phase = "active" => o.phase = "active" \/ OpenStops' = {}
        BY <3>1 DEF KeptReplacement
      <3>4. r.restart_from # NoOffer =>
               \E s \in ToSet(stops') :
                  /\ s.next = r.restart_from /\ s.previous = r.previous
                  /\ s.phase \in IF r.phase = "active" THEN {"retired"}
                                 ELSE {"stopped", "retired"}
        <4> DEFINE a == o.phase = "active"
                   b == r.phase = "active"
        <4>1. a \in BOOLEAN /\ b \in BOOLEAN /\ (b => a \/ OpenStops' = {})
          BY <3>3
        <4>2. r.restart_from = o.restart_from /\ r.previous = o.previous
          BY <3>1 DEF KeptReplacement
        <4>3. o.restart_from # NoOffer =>
                 \E s \in ToSet(stops) :
                    /\ s.next = o.restart_from /\ s.previous = o.previous
                    /\ s.phase \in {"stopped", "retired"} /\ (a => s.phase = "retired")
          BY <3>2
        <4> HIDE DEF a, b
        <4>4. o.restart_from # NoOffer =>
                 \E s \in ToSet(stops') :
                    /\ s.next = o.restart_from /\ s.previous = o.previous
                    /\ s.phase \in {"stopped", "retired"} /\ (b => s.phase = "retired")
          <5> SUFFICES ASSUME o.restart_from # NoOffer
                       PROVE  \E s \in ToSet(stops') :
                          /\ s.next = o.restart_from /\ s.previous = o.previous
                          /\ s.phase \in {"stopped", "retired"}
                          /\ (b => s.phase = "retired")
            OBVIOUS
          <5> DEFINE f == o.restart_from
                     p == o.previous
          <5>1. /\ f \in Offer
                /\ \E s \in ToSet(stops) :
                      /\ s.next = f /\ s.previous = p
                      /\ s.phase \in {"stopped", "retired"} /\ (a => s.phase = "retired")
            BY <3>2, <4>3
          <5> HIDE DEF f, p
          <5>2. \E s \in ToSet(stops') :
                      /\ s.next = f /\ s.previous = p
                      /\ s.phase \in {"stopped", "retired"} /\ (b => s.phase = "retired")
            BY <1>2, <4>1, <5>1
          <5> QED BY <5>2 DEF f, p
        <4> QED BY <4>2, <4>4 DEF b
      <3>5. i < Len(replacements) => r.phase \in {"active", "cancelled", "abandoned"}
        BY <3>1, <3>2 DEF KeptReplacement
      <3>6. /\ r.previous = o.previous /\ r.next = o.next
            /\ r.cancellation = "pending" <=> r.phase = "cancelling"
            /\ r.cancellation = "cancelled" => r.phase = "cancelled"
            /\ r.confirmed => IsCurrent(r.previous, r.next)
        BY <3>1 DEF KeptReplacement
      <3> QED BY <3>2, <3>4, <3>5, <3>6 DEF r
    <2>3. \A i \in DOMAIN replacements :
             {j \in DOMAIN replacements' : replacements'[j].next = replacements'[i].next} = {i}
      <3> TAKE i \in DOMAIN replacements
      <3>1. \A j \in DOMAIN replacements : replacements'[j].next = replacements[j].next
        BY <1>3 DEF ReplacementsKept, KeptReplacement
      <3>2. \A j \in DOMAIN replacements : replacements[j].next = replacements[i].next <=> j = i
        BY <1>0 DEF ReplacementsOpen, ReplacementOf
      <3> QED BY <2>1, <3>1, <3>2
    <2>4. Len(replacements') <= MaxRetired
      BY <1>0, <2>1 DEF ReplacementsOpen
    <2> QED BY <2>1, <2>2, <2>3, <2>4 DEF ReplacementsOpen, ReplacementOf
  <1>4. CASE \E p, n \in Offer : PrepareReplacement(p, n)
    <2>1. PICK p, n \in Offer : PrepareReplacement(p, n)
      BY <1>4
    <2> DEFINE f == IF OpenStops = {} THEN NoOffer ELSE stops[LastOpen].next
               r == [previous |-> p, next |-> n, phase |-> "prepared",
                     cancellation |-> "none", confirmed |-> FALSE, restart_from |-> f]
               m == Len(replacements)
    <2>2. /\ replacements' = Append(replacements, r) /\ stops' = stops
          /\ IsReplacement(p, n) /\ ReplacementOf(n) = {}
          /\ m < MaxRetired
          /\ StoppedFrom(p)
      BY <2>1 DEF PrepareReplacement
    <2>3. m > 0 => replacements[m].phase \in {"active", "abandoned", "cancelled"}
      <3>1. m > 0 => replacements # <<>>
        BY <1>0
      <3> QED BY <2>1, <3>1 DEF PrepareReplacement, Last
    <2>4. OpenStops # {} =>
             \E s \in ToSet(stops) : s.next = f /\ s.previous = p /\ s.phase = "stopped"
      <3>1. OpenStops # {} => LastOpen \in OpenStops /\ LastOpen \in DOMAIN stops
        BY LastOpenIs DEF IInv
      <3> QED BY <2>2, <3>1 DEF StoppedFrom, ToSet
    <2>5. /\ f \in Optional
          /\ r.previous = p /\ r.next = n /\ r.phase = "prepared" /\ r.cancellation = "none"
          /\ r.confirmed = FALSE /\ r.restart_from = f
          /\ f # NoOffer => OpenStops # {}
      BY RestartIs DEF IInv
    <2> HIDE DEF f
    <2>6. r \in Replacement
      BY <2>5 DEF Replacement
    <2> HIDE DEF r
    <2>7. /\ DOMAIN replacements = 1..m /\ m \in Nat
          /\ DOMAIN replacements' = DOMAIN replacements \cup {m + 1}
          /\ m + 1 \notin DOMAIN replacements
          /\ Len(replacements') = m + 1 /\ replacements'[m + 1] = r
          /\ \A k \in DOMAIN replacements : replacements'[k] = replacements[k]
      BY <1>0, <2>2, <2>6, Appended
    <2> HIDE DEF m
    <2>8. \A i \in DOMAIN replacements' :
             {j \in DOMAIN replacements' : replacements'[j].next = replacements'[i].next} = {i}
      <3> TAKE i \in DOMAIN replacements'
      <3>1. \A j \in DOMAIN replacements : replacements[j].next # n
        BY <2>2 DEF ReplacementOf
      <3>2. \A j, k \in DOMAIN replacements : replacements[j].next = replacements[k].next => j = k
        BY <1>0 DEF ReplacementsOpen, ReplacementOf
      <3>3. \A j, k \in DOMAIN replacements' :
               replacements'[j].next = replacements'[k].next => j = k
        BY <2>5, <2>7, <3>1, <3>2
      <3> QED BY <3>3
    <2>9. Len(replacements') <= MaxRetired
      BY <2>2, <2>7, OfferAssumption DEF m
    <2>10. \A i \in DOMAIN replacements : i < m + 1 =>
              replacements[i].phase \in {"active", "cancelled", "abandoned"}
      <3> TAKE i \in DOMAIN replacements
      <3>1. i = m \/ i < m
        <4>1. \A q \in Nat : \A x \in 1..q : x = q \/ x < q
          OBVIOUS
        <4> QED BY <4>1, <2>7
      <3>2. i \in 1..m => m > 0
        BY <2>7
      <3> QED BY <1>0, <2>3, <2>7, <3>1, <3>2 DEF ReplacementsOpen, m
    <2>11. ASSUME NEW i \in DOMAIN replacements'
           PROVE  LET q == replacements'[i]
                  IN
                  /\ IsReplacement(q.previous, q.next)
                  /\ q.cancellation = "pending" => q.phase = "cancelling"
                  /\ q.cancellation = "cancelled" => q.phase = "cancelled"
                  /\ q.phase = "cancelling" => q.cancellation = "pending"
                  /\ q.restart_from # NoOffer =>
                        \E s \in ToSet(stops') :
                           /\ s.next = q.restart_from
                           /\ s.previous = q.previous
                           /\ s.phase \in IF q.phase = "active" THEN {"retired"}
                                          ELSE {"stopped", "retired"}
                  /\ q.confirmed => IsCurrent(q.previous, q.next)
                  /\ i < Len(replacements') => q.phase \in {"active", "cancelled", "abandoned"}
      <3>1. CASE i = m + 1
        <4>1. replacements'[i] = r /\ ~(i < Len(replacements'))
          BY <3>1, <2>7
        <4> QED BY <2>2, <2>4, <2>5, <4>1
      <3>2. CASE i # m + 1
        <4>1. i \in DOMAIN replacements /\ replacements'[i] = replacements[i]
          BY <3>2, <2>7
        <4>2. i < Len(replacements') => replacements[i].phase \in {"active", "cancelled", "abandoned"}
          BY <2>7, <2>10, <4>1
        <4> QED BY <1>0, <2>2, <4>1, <4>2 DEF ReplacementsOpen
      <3> QED BY <3>1, <3>2
    <2> QED BY <2>8, <2>9, <2>11 DEF ReplacementsOpen, ReplacementOf
  <1> QED BY <1>3, <1>4, NextKeeps

\* The stop that begin_stop_replacement adds.
LEMMA BegunStop ==
    ASSUME IInv, NEW p \in Offer, NEW n \in Offer, BeginStop(p, n)
    PROVE  \E s \in Stop :
              /\ stops' = Append(stops, s)
              /\ s.previous = p /\ s.next = n /\ s.phase = "stopping"
              /\ IsReplacement(p, n) /\ p \notin ToSet(StopOffers(s))
              /\ StopOf(n) = {} /\ StoppedFrom(p) /\ Len(stops) < MaxRetired
              /\ UNCHANGED <<recoveries, replacements, engine>>
              /\ \A j \in ReplacementOf(n) :
                    /\ replacements[j].previous = p
                    /\ replacements[j].phase \notin {"cancelled", "cancelling", "recovering"}
                    /\ ~s.native => replacements[j].phase # "active"
              /\ \A j \in DOMAIN replacements : j = Len(replacements) =>
                    \/ replacements[j].phase \in {"active", "cancelled", "abandoned"}
                    \/ replacements[j].next = n
  <1>0. TypeOK /\ replacements \in Seq(Replacement)
    BY DEF IInv, TypeOK
  <1> DEFINE native == \E r \in ToSet(replacements) :
                          r.phase = "active" /\ r.previous = p /\ r.next = n
             c == Link(p, n)
             s == [previous |-> p, next |-> n, phase |-> "stopping",
                   native |-> native, chain |-> c]
  <1>1. /\ stops' = Append(stops, s)
        /\ IsReplacement(p, n) /\ StopOf(n) = {} /\ StoppedFrom(p)
        /\ Len(stops) < MaxRetired
        /\ UNCHANGED <<recoveries, replacements, engine>>
        /\ \A r \in ToSet(replacements) : r.next = n =>
              /\ r.previous = p
              /\ r.phase \notin {"cancelled", "cancelling", "recovering"}
        /\ Latest(replacements, LAMBDA r :
              r.phase \notin {"active", "cancelled", "abandoned"}) =>
                 Last(replacements).previous = p /\ Last(replacements).next = n
    BY DEF BeginStop
  <1>2. c \in Seq(Offer) /\ (c # <<>> =>
            /\ recoveries # <<>>
            /\ c = ChainOffers(recoveries, Len(recoveries))
            /\ BridgeOK(p, n, c, recoveries, replacements))
    BY <1>0, LinkIs
  <1>3. /\ s \in Stop /\ s.previous = p /\ s.next = n /\ s.phase = "stopping"
        /\ s.chain = c /\ s.native = native
    BY <1>2 DEF Stop
  <1>4. \A j \in ReplacementOf(n) :
           /\ replacements[j].previous = p
           /\ replacements[j].phase \notin {"cancelled", "cancelling", "recovering"}
           /\ ~native => replacements[j].phase # "active"
    BY <1>1 DEF ReplacementOf, ToSet
  <1>5. \A j \in DOMAIN replacements : j = Len(replacements) =>
           \/ replacements[j].phase \in {"active", "cancelled", "abandoned"}
           \/ replacements[j].next = n
    <2>1. replacements # <<>> => Last(replacements) = replacements[Len(replacements)]
      BY DEF Last
    <2>2. \A j \in DOMAIN replacements : replacements # <<>>
      BY <1>0
    <2> QED BY <1>1, <2>1, <2>2 DEF Latest
  <1> HIDE DEF native, c, s
  <1>6. p \notin ToSet(StopOffers(s))
    <2>1. CASE c = <<>>
      BY <1>1, <1>3, <2>1, StopOffersAre DEF IsReplacement
    <2>2. CASE c # <<>>
      <3>1. StopOffers(s) = c
        BY <1>3, <2>2 DEF StopOffers
      <3>2. PICK i \in DOMAIN recoveries :
               /\ ChainOK(recoveries, i) /\ ChainOffers(recoveries, i) = c
               /\ \A k \in Root(recoveries, i)..i : recoveries[k].offer # p
        BY <1>2, <2>2 DEF BridgeOK
      <3>3. recoveries \in Seq(Recovery) /\ Rooted(recoveries, i)
        BY <1>0, <3>2 DEF TypeOK, ChainOK
      <3>4. ToSet(c) = {recoveries[k].offer : k \in Root(recoveries, i)..i}
        BY <3>2, <3>3, ChainOffersAre
      <3> QED BY <3>1, <3>2, <3>4
    <2> QED BY <2>1, <2>2
  <1> QED BY <1>1, <1>3, <1>4, <1>5, <1>6

\* An entry keeps the targets it fences.
LEMMA SameOffers ==
    ASSUME NEW s, NEW t, KeptStop(s, t)
    PROVE  StopOffers(t) = StopOffers(s)
  BY DEF KeptStop, StopOffers

LEMMA StopsStep ==
    ASSUME IInv, Next, TypeOK'
    PROVE  StopsOrdered' /\ StopsApart'
  <1>0. /\ stops \in Seq(Stop) /\ StopsOrdered /\ StopsApart
        /\ DOMAIN stops = 1..Len(stops) /\ Len(stops) \in Nat
        /\ DOMAIN stops' = 1..Len(stops') /\ Len(stops') \in Nat
    BY DEF IInv, TypeOK
  <1>1. CASE StopsKept
    <2>1. /\ DOMAIN stops' = DOMAIN stops
          /\ \A k \in DOMAIN stops : KeptStop(stops[k], stops'[k])
          /\ OpenStops' = OpenStops \/ OpenStops' = {}
      BY <1>1 DEF StopsKept
    <2>2. Len(stops') = Len(stops)
      <3>1. \A m, n \in Nat : 1..m = 1..n => m = n
        BY SMT
      <3> QED BY <3>1, <1>0, <2>1
    <2>3. \A k \in DOMAIN stops : stops'[k].phase # "retired" =>
             k \in OpenStops' /\ OpenStops' = OpenStops /\ stops[k].phase # "retired"
      BY <2>1 DEF OpenStops
    <2>4. \A k \in DOMAIN stops :
             /\ stops[k].phase # "stopping" => stops'[k].phase # "stopping"
             /\ stops'[k].previous = stops[k].previous /\ stops'[k].next = stops[k].next
      BY <2>1 DEF KeptStop
    <2>5. ASSUME NEW j \in DOMAIN stops, NEW k \in DOMAIN stops, j < k
          PROVE  /\ stops'[j].phase # "stopping"
                 /\ stops'[j].next # stops'[k].next
                 /\ stops'[j].phase # "retired" =>
                       stops'[k].phase # "retired" /\ stops'[k].previous = stops'[j].previous
      <3>1. /\ stops[j].phase # "stopping" /\ stops[j].next # stops[k].next
            /\ stops[j].phase # "retired" =>
                  stops[k].phase # "retired" /\ stops[k].previous = stops[j].previous
        BY <1>0, <2>5 DEF StopsOrdered
      <3>2. stops'[j].phase # "retired" => k \in OpenStops'
        BY <2>3, <3>1 DEF OpenStops
      <3>3. k \in OpenStops' => stops'[k].phase # "retired"
        BY DEF OpenStops
      <3> QED BY <2>3, <2>4, <3>1, <3>2, <3>3
    <2>6. StopsOrdered'
      BY <1>0, <2>1, <2>2, <2>5 DEF StopsOrdered
    <2>7. \A k \in DOMAIN stops : StopOffers(stops'[k]) = StopOffers(stops[k])
      BY <2>1, SameOffers
    <2>8. StopsApart'
      BY <1>0, <2>1, <2>4, <2>7 DEF StopsApart
    <2> QED BY <2>6, <2>8
  <1>2. CASE \E p, n \in Offer : BeginStop(p, n)
    <2>1. PICK p \in Offer, n \in Offer : BeginStop(p, n)
      BY <1>2
    <2>2. PICK s \in Stop :
              /\ stops' = Append(stops, s)
              /\ s.previous = p /\ s.next = n /\ s.phase = "stopping"
              /\ IsReplacement(p, n) /\ p \notin ToSet(StopOffers(s))
              /\ StopOf(n) = {} /\ StoppedFrom(p) /\ Len(stops) < MaxRetired
      BY <2>1, BegunStop
    <2> DEFINE m == Len(stops)
    <2>3. /\ DOMAIN stops' = DOMAIN stops \cup {m + 1}
          /\ m + 1 \notin DOMAIN stops
          /\ Len(stops') = m + 1 /\ stops'[m + 1] = s
          /\ \A k \in DOMAIN stops : stops'[k] = stops[k]
      BY <1>0, <2>2, Appended
    <2>4. m + 1 <= MaxRetired
      BY <1>0, <2>2, OfferAssumption
    <2>5. \A j, k \in DOMAIN stops' : j < k =>
             j \in DOMAIN stops /\ (k = m + 1 \/ k \in DOMAIN stops)
      BY <1>0, <2>3
    <2> HIDE DEF m
    <2>6. \A j \in DOMAIN stops :
             /\ stops[j].phase # "stopping" /\ stops[j].next # n
             /\ stops[j].phase # "retired" => stops[j].previous = p
      BY <2>2 DEF StopOf, StoppedFrom, OpenStops
    <2>7. ASSUME NEW j \in DOMAIN stops', NEW k \in DOMAIN stops', j < k
          PROVE  /\ stops'[j].phase # "stopping"
                 /\ stops'[j].next # stops'[k].next
                 /\ stops'[j].phase # "retired" =>
                       stops'[k].phase # "retired" /\ stops'[k].previous = stops'[j].previous
      <3>1. j \in DOMAIN stops /\ stops'[j] = stops[j]
        BY <2>3, <2>5, <2>7
      <3>2. CASE k = m + 1
        BY <2>2, <2>3, <2>6, <3>1, <3>2
      <3>3. CASE k \in DOMAIN stops
        BY <1>0, <2>3, <2>7, <3>1, <3>3 DEF StopsOrdered
      <3> QED BY <2>5, <2>7, <3>2, <3>3
    <2>8. StopsOrdered'
      BY <2>3, <2>4, <2>7 DEF StopsOrdered
    <2>9. StopsApart'
      BY <1>0, <2>2, <2>3 DEF StopsApart
    <2> QED BY <2>8, <2>9
  <1> QED BY <1>1, <1>2, NextKeeps

\* A replacement that is stopped is neither cancelled nor recovered.
LEMMA StoppedStays ==
    ASSUME IInv, Next, ReplacementsKept
    PROVE  \A k \in OpenStops : \A j \in ReplacementOf(stops[k].next) :
              \/ replacements'[j].phase = replacements[j].phase
              \/ replacements'[j].phase \notin {"cancelled", "cancelling", "recovering"}
  <1> DEFINE Stays == \A k \in OpenStops : \A j \in ReplacementOf(stops[k].next) :
              \/ replacements'[j].phase = replacements[j].phase
              \/ replacements'[j].phase \notin {"cancelled", "cancelling", "recovering"}
  <1>0. /\ replacements \in Seq(Replacement)
        /\ \A j \in DOMAIN replacements : replacements[j] \in Replacement
    BY Domains DEF IInv, TypeOK
  <1>1. ASSUME UNCHANGED replacements PROVE Stays
    BY <1>1
  <1>2. ASSUME NEW i \in DOMAIN replacements, StopOf(replacements[i].next) = {}, NEW q,
               replacements' = [replacements EXCEPT ![i] = q]
        PROVE  Stays
    <2>1. \A j \in DOMAIN replacements : j # i => replacements'[j] = replacements[j]
      BY <1>2
    <2>2. \A k \in OpenStops : i \notin ReplacementOf(stops[k].next)
      BY <1>2 DEF StopOf, OpenStops, ReplacementOf
    <2> QED BY <2>1, <2>2 DEF ReplacementOf
  <1>3. ASSUME OpenStops = {} PROVE Stays
    BY <1>3
  <1>4. CASE Talk
    BY <1>1, <1>4 DEF Talk, PrepareInvitation, InviteFromDelivery, JoinFromDelivery,
         AcceptDelivery, CompleteInvitation, SendChat, MarkInvitationFailed, ApprovePeer
  <1>5. CASE Rejoin
    <2>1. CASE \E i \in DOMAIN recoveries :
                  CompleteClose(i) \/ \E n \in Offer : ActivateRejoin(i, n)
      <3>1. OpenStops = {}
        BY <2>1, OthersFit DEF CompleteClose, ActivateRejoin, CanRejoin
      <3> QED BY <1>3, <3>1
    <2>2. CASE \/ BeginClose
               \/ \E i \in DOMAIN recoveries :
                     \/ MarkRejoinFailed(i) \/ BeginCancelRejoin(i) \/ BeginRejoinRecovery(i)
                     \/ \E n \in Offer : PrepareRejoin(i, n)
                     \/ \E c \in {"cancelled", "admitted"} : FinishCancelRejoin(i, c)
      BY <1>1, <2>2 DEF BeginClose, MarkRejoinFailed, BeginCancelRejoin,
           BeginRejoinRecovery, PrepareRejoin, FinishCancelRejoin
    <2> QED BY <1>5, <2>1, <2>2 DEF Rejoin
  <1>6. CASE Replace
    <2>1. CASE \E p, n \in Offer : PrepareReplacement(p, n)
      <3>1. PICK q : replacements' = Append(replacements, q)
        BY <2>1 DEF PrepareReplacement
      <3>2. DOMAIN Append(replacements, q) # DOMAIN replacements
        BY <1>0
      <3> QED BY <3>1, <3>2 DEF ReplacementsKept
    <2>2. CASE \E i \in DOMAIN replacements :
                  \/ AttestPredecessor(i) \/ Consent(i) \/ ActivateReplacement(i)
                  \/ BeginCancelReplacement(i)
                  \/ \E c \in {"cancelled", "admitted"} : FinishCancelReplacement(i, c)
                  \/ ObserveReplacementCancelled(i)
      <3>1. PICK i \in DOMAIN replacements :
                  \/ AttestPredecessor(i) \/ Consent(i) \/ ActivateReplacement(i)
                  \/ BeginCancelReplacement(i)
                  \/ \E c \in {"cancelled", "admitted"} : FinishCancelReplacement(i, c)
                  \/ ObserveReplacementCancelled(i)
        BY <2>2
      <3>2. StopOf(replacements[i].next) = {}
        BY <3>1 DEF AttestPredecessor, Consent, ActivateReplacement,
             BeginCancelReplacement, FinishCancelReplacement,
             ObserveReplacementCancelled, Pending
      <3>3. ASSUME NEW v, Cancelled(i, v) PROVE Stays
        BY <1>0, <1>2, <3>2, <3>3 DEF Cancelled
      <3>4. CASE AttestPredecessor(i) \/ Consent(i) \/ ActivateReplacement(i)
                 \/ BeginCancelReplacement(i)
        <4>1. \E q : replacements' = [replacements EXCEPT ![i] = q]
          BY <1>0, <3>4 DEF AttestPredecessor, Consent, ActivateReplacement,
               BeginCancelReplacement
        <4> QED BY <1>2, <3>2, <4>1
      <3>5. CASE \E c \in {"cancelled", "admitted"} : FinishCancelReplacement(i, c)
        <4>1. PICK c \in {"cancelled", "admitted"} : FinishCancelReplacement(i, c)
          BY <3>5
        <4>2. CASE Cancelled(i, c)
          BY <3>3, <4>2
        <4>3. CASE ~Cancelled(i, c)
          <5>1. \E q : replacements' = [replacements EXCEPT ![i] = q]
            BY <1>0, <4>1, <4>3 DEF FinishCancelReplacement
          <5> QED BY <1>2, <3>2, <5>1
        <4> QED BY <4>2, <4>3
      <3>6. CASE ObserveReplacementCancelled(i)
        BY <3>3, <3>6 DEF ObserveReplacementCancelled
      <3> QED BY <3>1, <3>4, <3>5, <3>6
    <2>3. CASE \E i \in DOMAIN replacements :
                  MarkReplacementFailed(i) \/ BeginReplacementRecovery(i)
      <3>1. OpenStops = {}
        BY <2>3, OthersFit DEF MarkReplacementFailed, BeginReplacementRecovery
      <3> QED BY <1>3, <3>1
    <2>4. CASE \E p, n \in Offer : BeginStop(p, n)
      BY <1>1, <2>4 DEF BeginStop
    <2>5. CASE \E i \in DOMAIN stops : CompleteStop(i)
      <3>1. \A j \in DOMAIN replacements :
               \/ replacements'[j] = replacements[j]
               \/ replacements'[j] = [replacements[j] EXCEPT !.phase = "abandoned"]
        BY <2>5 DEF CompleteStop
      <3>2. \A j \in DOMAIN replacements :
               [replacements[j] EXCEPT !.phase = "abandoned"].phase = "abandoned"
        BY <1>0 DEF Replacement
      <3> QED BY <3>1, <3>2 DEF ReplacementOf
    <2> QED BY <1>6, <2>1, <2>2, <2>3, <2>4, <2>5 DEF Replace
  <1> QED BY <1>4, <1>5, <1>6 DEF Next

LEMMA HoldStep ==
    ASSUME IInv, Next, TypeOK'
    PROVE  StopsHold'
  <1>0. TypeOK /\ StopsHold /\ replacements \in Seq(Replacement) /\ stops \in Seq(Stop)
    BY DEF IInv, TypeOK
  <1>1. CASE StopsKept /\ ReplacementsKept
    <2>1. SUFFICES ASSUME NEW k \in DOMAIN stops', stops'[k].phase # "retired",
                          NEW j \in DOMAIN replacements',
                          replacements'[j].next = stops'[k].next
                   PROVE  /\ replacements'[j].previous = stops'[k].previous
                          /\ replacements'[j].phase \notin
                                {"cancelled", "cancelling", "recovering"}
                          /\ ~stops'[k].native => replacements'[j].phase # "active"
      BY DEF StopsHold, OpenStops, ReplacementOf
    <2>2. k \in OpenStops' /\ k \in OpenStops /\ k \in DOMAIN stops
      BY <1>1, <2>1 DEF StopsKept, OpenStops
    <2>3. KeptStop(stops[k], stops'[k])
      BY <1>1, <2>2 DEF StopsKept
    <2>4. j \in DOMAIN replacements
          /\ KeptReplacement(replacements[j], replacements'[j], OpenStops')
      BY <1>1, <2>1 DEF ReplacementsKept
    <2>5. j \in ReplacementOf(stops[k].next)
      BY <2>1, <2>3, <2>4 DEF ReplacementOf, KeptStop, KeptReplacement
    <2>6. /\ replacements[j].previous = stops[k].previous
          /\ replacements[j].phase \notin {"cancelled", "cancelling", "recovering"}
          /\ ~stops[k].native => replacements[j].phase # "active"
      BY <1>0, <2>2, <2>5 DEF StopsHold
    <2>7. replacements'[j].phase \notin {"cancelled", "cancelling", "recovering"}
      BY <1>1, <2>2, <2>5, <2>6, StoppedStays
    <2> QED BY <2>2, <2>3, <2>4, <2>6, <2>7 DEF KeptStop, KeptReplacement
  <1>2. CASE \E p, n \in Offer : PrepareReplacement(p, n)
    <2>1. PICK n, r :
             /\ replacements' = Append(replacements, r) /\ stops' = stops
             /\ StopOf(n) = {} /\ r.next = n
      BY <1>2 DEF PrepareReplacement
    <2>2. /\ DOMAIN replacements' = DOMAIN replacements \cup {Len(replacements) + 1}
          /\ replacements'[Len(replacements) + 1] = r
          /\ \A j \in DOMAIN replacements : replacements'[j] = replacements[j]
      BY <1>0, <2>1
    <2>3. \A k \in OpenStops : stops[k].next # n
      BY <2>1 DEF StopOf, OpenStops
    <2>4. \A k \in OpenStops : \A j \in DOMAIN replacements' :
             replacements'[j].next = stops[k].next =>
                j \in ReplacementOf(stops[k].next) /\ replacements'[j] = replacements[j]
      BY <2>1, <2>2, <2>3 DEF ReplacementOf
    <2>5. OpenStops' = OpenStops
      BY <2>1 DEF OpenStops
    <2> QED BY <1>0, <2>1, <2>4, <2>5 DEF StopsHold, ReplacementOf
  <1>3. CASE \E p, n \in Offer : BeginStop(p, n)
    <2>1. PICK p \in Offer, n \in Offer : BeginStop(p, n)
      BY <1>3
    <2>2. PICK s \in Stop :
              /\ stops' = Append(stops, s)
              /\ s.previous = p /\ s.next = n
              /\ UNCHANGED <<recoveries, replacements, engine>>
              /\ \A j \in ReplacementOf(n) :
                    /\ replacements[j].previous = p
                    /\ replacements[j].phase \notin {"cancelled", "cancelling", "recovering"}
                    /\ ~s.native => replacements[j].phase # "active"
      BY <2>1, BegunStop
    <2>3. /\ DOMAIN stops' = DOMAIN stops \cup {Len(stops) + 1}
          /\ stops'[Len(stops) + 1] = s
          /\ \A k \in DOMAIN stops : stops'[k] = stops[k]
      BY <1>0, <2>2
    <2>4. \A k \in DOMAIN stops : stops[k].phase # "retired" => k \in OpenStops
      BY DEF OpenStops
    <2>5. SUFFICES ASSUME NEW k \in DOMAIN stops', stops'[k].phase # "retired",
                          NEW j \in ReplacementOf(stops'[k].next)
                   PROVE  /\ replacements[j].previous = stops'[k].previous
                          /\ replacements[j].phase \notin
                                {"cancelled", "cancelling", "recovering"}
                          /\ ~stops'[k].native => replacements[j].phase # "active"
      BY <2>2 DEF StopsHold, OpenStops, ReplacementOf
    <2>6. CASE k = Len(stops) + 1
      BY <2>2, <2>3, <2>5, <2>6
    <2>7. CASE k # Len(stops) + 1
      BY <1>0, <2>3, <2>4, <2>5, <2>7 DEF StopsHold
    <2> QED BY <2>6, <2>7
  <1> QED BY <1>1, <1>2, <1>3, NextKeeps

\* The replacement that is under way is the newest one.
LEMMA UnderWayIsLast ==
    ASSUME TypeOK, ReplacementsOpen, NEW i \in DOMAIN replacements,
           replacements[i].phase \notin {"active", "cancelled", "abandoned"}
    PROVE  i = Len(replacements)
  <1>1. i \in 1..Len(replacements) /\ Len(replacements) \in Nat
    BY Domains
  <1>2. ~(i < Len(replacements))
    BY DEF ReplacementsOpen
  <1>3. \A m \in Nat : \A x \in 1..m : ~(x < m) => x = m
    OBVIOUS
  <1> QED BY <1>1, <1>2, <1>3

LEMMA PendingStep ==
    ASSUME IInv, Next, TypeOK', StopsOrdered'
    PROVE  PendingOK'
  <1>0. /\ TypeOK /\ ReplacementsOpen /\ StopsOrdered /\ PendingOK
        /\ replacements \in Seq(Replacement) /\ stops \in Seq(Stop)
        /\ \A k \in DOMAIN stops : stops[k] \in Stop
    BY Domains DEF IInv, TypeOK
  <1>1. SUFFICES ASSUME NEW i \in DOMAIN replacements',
                        replacements'[i].phase \in {"prepared", "consented", "cancelling"},
                        \A k \in DOMAIN stops' : stops'[k].next # replacements'[i].next
                 PROVE  /\ replacements'[i].restart_from # NoOffer =>
                              /\ OpenStops' # {}
                              /\ stops'[LastOpen'].next = replacements'[i].restart_from
                              /\ \A k \in OpenStops' :
                                    /\ stops'[k].phase = "stopped"
                                    /\ stops'[k].previous = replacements'[i].previous
                        /\ replacements'[i].restart_from = NoOffer => OpenStops' = {}
    BY DEF PendingOK, UnderWay, StopOf, StoppedGroupsOK, StoppedFrom
  <1>2. ASSUME OpenStops' = OpenStops PROVE LastOpen' = LastOpen
    BY <1>2 DEF LastOpen
  <1>3. CASE StopsKept /\ ReplacementsKept
    <2> DEFINE r == replacements[i]
               q == replacements'[i]
    <2>1. i \in DOMAIN replacements /\ KeptReplacement(r, q, OpenStops')
      BY <1>1, <1>3 DEF ReplacementsKept
    <2>2. /\ r.phase \in {"prepared", "consented", "cancelling"}
          /\ r.next = q.next /\ r.previous = q.previous /\ r.restart_from = q.restart_from
      BY <1>1, <2>1 DEF KeptReplacement
    <2>3. \A k \in DOMAIN stops :
             /\ k \in DOMAIN stops' /\ stops'[k].next = stops[k].next
             /\ stops'[k].previous = stops[k].previous
             /\ stops[k].phase = "stopped" => stops'[k].phase \in {"stopped", "retired"}
      BY <1>3 DEF StopsKept, KeptStop
    <2>4. UnderWay(r)
      BY <1>1, <2>2, <2>3 DEF UnderWay, StopOf
    <2>5. /\ r.restart_from # NoOffer =>
                /\ OpenStops # {} /\ stops[LastOpen].next = r.restart_from
                /\ StoppedFrom(r.previous)
          /\ r.restart_from = NoOffer => OpenStops = {}
      BY <1>0, <2>1, <2>4 DEF PendingOK, StoppedGroupsOK
    <2>6. CASE OpenStops' = OpenStops
      <3>1. LastOpen' = LastOpen
        BY <1>2, <2>6
      <3>2. OpenStops # {} => LastOpen \in DOMAIN stops
        BY <1>0, LastOpenIs
      <3>3. \A k \in OpenStops' : k \in DOMAIN stops /\ k \in OpenStops /\ stops'[k].phase # "retired"
        BY <2>6, <1>3 DEF OpenStops, StopsKept
      <3> QED BY <2>2, <2>3, <2>5, <2>6, <3>1, <3>2, <3>3 DEF StoppedFrom
    <2>7. CASE OpenStops' = {} /\ \E j \in DOMAIN replacements : ActivateReplacement(j)
      <3>1. PICK j \in DOMAIN replacements : ActivateReplacement(j)
        BY <2>7
      <3>2. /\ replacements[j].phase = "consented"
            /\ replacements' = [replacements EXCEPT ![j].phase = "active"]
        BY <3>1 DEF ActivateReplacement, Pending
      <3>3. j = Len(replacements) /\ i = Len(replacements)
        BY <1>0, <2>1, <2>2, <3>2, UnderWayIsLast
      <3>4. q.phase = "active"
        <4>1. replacements[j] \in Replacement /\ j \in DOMAIN replacements
          BY <1>0, Domains
        <4> QED BY <1>0, <3>2, <3>3, <4>1 DEF Replacement
      <3> QED BY <1>1, <3>4
    <2> QED BY <1>3, <2>6, <2>7 DEF StopsKept
  <1>4. CASE \E p, n \in Offer : PrepareReplacement(p, n)
    <2>1. PICK p \in Offer, n \in Offer : PrepareReplacement(p, n)
      BY <1>4
    <2> DEFINE f == IF OpenStops = {} THEN NoOffer ELSE stops[LastOpen].next
               r == [previous |-> p, next |-> n, phase |-> "prepared",
                     cancellation |-> "none", confirmed |-> FALSE, restart_from |-> f]
    <2>2. replacements' = Append(replacements, r) /\ stops' = stops /\ StoppedFrom(p)
      BY <2>1 DEF PrepareReplacement
    <2>3. /\ r.previous = p /\ r.restart_from = f
          /\ OpenStops = {} <=> f = NoOffer
          /\ f # NoOffer => f = stops[LastOpen].next
      BY <1>0, RestartIs, OfferAssumption
    <2> HIDE DEF f, r
    <2>4. /\ DOMAIN replacements' = DOMAIN replacements \cup {Len(replacements) + 1}
          /\ replacements'[Len(replacements) + 1] = r
          /\ \A j \in DOMAIN replacements : replacements'[j] = replacements[j]
      BY <1>0, <2>2
    <2>5. OpenStops' = OpenStops /\ LastOpen' = LastOpen
      BY <2>2, <1>2 DEF OpenStops
    <2>6. CASE i = Len(replacements) + 1
      BY <2>2, <2>3, <2>4, <2>5, <2>6 DEF StoppedFrom
    <2>7. CASE i # Len(replacements) + 1
      <3>1. i \in DOMAIN replacements /\ replacements'[i] = replacements[i]
        BY <1>1, <2>4, <2>7
      <3>2. UnderWay(replacements[i])
        BY <1>1, <2>2, <3>1 DEF UnderWay, StopOf
      <3> QED BY <1>0, <2>2, <2>5, <3>1, <3>2 DEF PendingOK, StoppedGroupsOK, StoppedFrom
    <2> QED BY <2>6, <2>7
  <1>5. CASE \E p, n \in Offer : BeginStop(p, n)
    <2>1. PICK p \in Offer, n \in Offer : BeginStop(p, n)
      BY <1>5
    <2>2. PICK s \in Stop :
              /\ stops' = Append(stops, s) /\ s.next = n
              /\ UNCHANGED <<recoveries, replacements, engine>>
              /\ \A j \in DOMAIN replacements : j = Len(replacements) =>
                    \/ replacements[j].phase \in {"active", "cancelled", "abandoned"}
                    \/ replacements[j].next = n
      BY <2>1, BegunStop
    <2>3. i \in DOMAIN replacements /\ replacements'[i] = replacements[i]
      BY <1>1, <2>2
    <2>4. i = Len(replacements)
      BY <1>0, <1>1, <2>3, UnderWayIsLast
    <2>5. replacements[i].next = n
      BY <1>1, <2>2, <2>3, <2>4
    <2>6. /\ Len(stops) + 1 \in DOMAIN stops' /\ stops'[Len(stops) + 1] = s
      BY <1>0, <2>2
    <2> QED BY <1>1, <2>2, <2>3, <2>5, <2>6
  <1> QED BY <1>3, <1>4, <1>5, NextKeeps

-----------------------------------------------------------------------------
(* The fences of the engine and of the ledgers.                            *)

Activates ==
    \/ \E i \in DOMAIN recoveries, n \in Offer : ActivateRejoin(i, n)
    \/ \E i \in DOMAIN replacements : ActivateReplacement(i)

\* Only the two activations make a replacement active.
LEMMA OthersReplace ==
    ASSUME IInv, Next, ~Activates
    PROVE  /\ \A j \in DOMAIN replacements :
                 /\ j \in DOMAIN replacements'
                 /\ replacements'[j].previous = replacements[j].previous
                 /\ replacements'[j].phase = "active" <=> replacements[j].phase = "active"
           /\ \A j \in DOMAIN replacements' \ DOMAIN replacements :
                 replacements'[j].phase # "active"
  <1> DEFINE Same == \A j \in DOMAIN replacements :
                 /\ replacements'[j].previous = replacements[j].previous
                 /\ replacements'[j].phase = "active" <=> replacements[j].phase = "active"
  <1>0. /\ replacements \in Seq(Replacement)
        /\ \A j \in DOMAIN replacements : replacements[j] \in Replacement
    BY Domains DEF IInv, TypeOK
  <1>1. CASE \E p, n \in Offer : PrepareReplacement(p, n)
    <2>1. PICK q : replacements' = Append(replacements, q) /\ q.phase = "prepared"
      BY <1>1 DEF PrepareReplacement
    <2>2. /\ DOMAIN replacements' = DOMAIN replacements \cup {Len(replacements) + 1}
          /\ replacements'[Len(replacements) + 1] = q
          /\ \A j \in DOMAIN replacements : replacements'[j] = replacements[j]
      BY <1>0, <2>1
    <2> QED BY <2>1, <2>2
  <1>2. CASE ReplacementsKept
    <2> SUFFICES Same
      BY <1>2 DEF ReplacementsKept
    <2>1. ASSUME UNCHANGED replacements PROVE Same
      BY <2>1
    <2>2. ASSUME NEW i \in DOMAIN replacements, NEW q,
                 replacements' = [replacements EXCEPT ![i] = q], q.phase # "active",
                 replacements[i].phase # "active"
          PROVE  Same
      <3>1. /\ replacements'[i] = q
            /\ \A j \in DOMAIN replacements : j # i => replacements'[j] = replacements[j]
        BY <2>2, <1>0
      <3> QED BY <2>2, <3>1, <1>2 DEF ReplacementsKept, KeptReplacement
    <2>3. ASSUME \A j \in DOMAIN replacements :
                    \/ replacements'[j] = replacements[j]
                    \/ /\ replacements[j].phase # "active"
                       /\ replacements'[j] = [replacements[j] EXCEPT !.phase = "abandoned"]
          PROVE  Same
      <3>1. \A j \in DOMAIN replacements :
               /\ [replacements[j] EXCEPT !.phase = "abandoned"].phase = "abandoned"
               /\ [replacements[j] EXCEPT !.phase = "abandoned"].previous
                     = replacements[j].previous
        BY <1>0, PhaseIs
      <3> QED BY <2>3, <3>1
    <2> HIDE DEF Same
    <2>4. CASE Talk
      BY <2>1, <2>4 DEF Talk, PrepareInvitation, InviteFromDelivery, JoinFromDelivery,
           AcceptDelivery, CompleteInvitation, SendChat, MarkInvitationFailed, ApprovePeer
    <2>5. CASE Rejoin
      <3>1. CASE \E i \in DOMAIN recoveries : CompleteClose(i)
        BY <2>3, <3>1 DEF CompleteClose
      <3>2. CASE \/ BeginClose
                 \/ \E i \in DOMAIN recoveries :
                       \/ MarkRejoinFailed(i) \/ BeginCancelRejoin(i) \/ BeginRejoinRecovery(i)
                       \/ \E n \in Offer : PrepareRejoin(i, n)
                       \/ \E c \in {"cancelled", "admitted"} : FinishCancelRejoin(i, c)
        BY <2>1, <3>2 DEF BeginClose, MarkRejoinFailed, BeginCancelRejoin,
             BeginRejoinRecovery, PrepareRejoin, FinishCancelRejoin
      <3> QED BY <2>5, <3>1, <3>2 DEF Rejoin, Activates
    <2>6. CASE Replace
      <3>1. ASSUME NEW i \in DOMAIN replacements, replacements[i].phase # "active",
                   NEW v, Cancelled(i, v)
            PROVE Same
        <4> DEFINE q == [replacements[i] EXCEPT !.phase = "cancelled", !.cancellation = v]
        <4>1. replacements' = [replacements EXCEPT ![i] = q] /\ q.phase = "cancelled"
          BY <1>0, <3>1 DEF Cancelled, Replacement
        <4> QED BY <2>2, <3>1, <4>1
      <3>2. CASE \E i \in DOMAIN replacements : AttestPredecessor(i)
        <4>1. PICK i \in DOMAIN replacements : AttestPredecessor(i)
          BY <3>2
        <4> DEFINE q == [replacements[i] EXCEPT !.confirmed = TRUE]
        <4>2. /\ replacements' = [replacements EXCEPT ![i] = q]
              /\ q.phase = replacements[i].phase /\ replacements[i].phase # "active"
          BY <1>0, <4>1 DEF AttestPredecessor, Pending, Replacement
        <4> QED BY <2>2, <4>2
      <3>3. CASE \E i \in DOMAIN replacements :
                    \/ Consent(i) \/ MarkReplacementFailed(i)
                    \/ BeginReplacementRecovery(i) \/ BeginCancelReplacement(i)
        <4>1. PICK i \in DOMAIN replacements :
                    \/ Consent(i) \/ MarkReplacementFailed(i)
                    \/ BeginReplacementRecovery(i) \/ BeginCancelReplacement(i)
          BY <3>3
        <4>2. \E q : replacements' = [replacements EXCEPT ![i] = q] /\ q.phase # "active"
          <5>1. \E ph \in {"consented", "recovery_required", "recovering"} :
                   \/ replacements' = [replacements EXCEPT ![i].phase = ph]
                   \/ replacements' = [replacements EXCEPT ![i].phase = "cancelling",
                                                           ![i].cancellation = "pending"]
            BY <4>1 DEF Consent, MarkReplacementFailed, BeginReplacementRecovery,
                 BeginCancelReplacement
          <5>2. PICK ph \in {"consented", "recovery_required", "recovering"} :
                   \/ replacements' = [replacements EXCEPT ![i] =
                                          [replacements[i] EXCEPT !.phase = ph]]
                   \/ replacements' = [replacements EXCEPT ![i] =
                                          [replacements[i] EXCEPT !.phase = "cancelling",
                                                                  !.cancellation = "pending"]]
            BY <1>0, <5>1
          <5>3. /\ [replacements[i] EXCEPT !.phase = ph].phase # "active"
                /\ [replacements[i] EXCEPT !.phase = "cancelling",
                                           !.cancellation = "pending"].phase # "active"
            BY <1>0 DEF Replacement
          <5> QED BY <5>2, <5>3
        <4>3. replacements[i].phase # "active"
          BY <4>1 DEF Consent, MarkReplacementFailed, BeginReplacementRecovery,
               BeginCancelReplacement, Pending
        <4> QED BY <2>2, <4>2, <4>3
      <3>4. CASE \E i \in DOMAIN replacements :
                    \/ \E c \in {"cancelled", "admitted"} : FinishCancelReplacement(i, c)
                    \/ ObserveReplacementCancelled(i)
        <4>1. PICK i \in DOMAIN replacements :
                    \/ \E c \in {"cancelled", "admitted"} : FinishCancelReplacement(i, c)
                    \/ ObserveReplacementCancelled(i)
          BY <3>4
        <4>2. replacements[i].phase # "active"
          BY <4>1 DEF FinishCancelReplacement, ObserveReplacementCancelled, Pending
        <4>3. \/ \E v : Cancelled(i, v)
              \/ replacements' = [replacements EXCEPT ![i].phase = "consented",
                                                      ![i].cancellation = "admitted"]
          BY <4>1 DEF FinishCancelReplacement, ObserveReplacementCancelled
        <4>4. [replacements[i] EXCEPT !.phase = "consented",
                                      !.cancellation = "admitted"].phase # "active"
          BY <1>0 DEF Replacement
        <4>5. \/ \E v : Cancelled(i, v)
              \/ replacements' = [replacements EXCEPT ![i] =
                    [replacements[i] EXCEPT !.phase = "consented",
                                            !.cancellation = "admitted"]]
          BY <1>0, <4>3
        <4> QED BY <2>2, <3>1, <4>2, <4>4, <4>5
      <3>5. CASE \E p, n \in Offer : BeginStop(p, n)
        BY <2>1, <3>5 DEF BeginStop
      <3>6. CASE \E i \in DOMAIN stops : CompleteStop(i)
        <4>1. PICK i \in DOMAIN stops : CompleteStop(i)
          BY <3>6
        <4>2. i \in OpenStops
          BY <4>1 DEF CompleteStop, OpenStops
        <4>3. \A j \in DOMAIN replacements :
                    \/ replacements'[j] = replacements[j]
                    \/ /\ replacements[j].phase # "active"
                       /\ replacements'[j] = [replacements[j] EXCEPT !.phase = "abandoned"]
          BY <4>1, <4>2 DEF CompleteStop, IInv, StopsHold, ReplacementOf
        <4> QED BY <2>3, <4>3
      <3>7. CASE \E p, n \in Offer : PrepareReplacement(p, n)
        <4>1. PICK q : replacements' = Append(replacements, q)
          BY <3>7 DEF PrepareReplacement
        <4>2. DOMAIN Append(replacements, q) # DOMAIN replacements
          BY <1>0
        <4> QED BY <4>1, <4>2, <1>2 DEF ReplacementsKept
      <3> QED BY <2>6, <3>2, <3>3, <3>4, <3>5, <3>6, <3>7 DEF Replace, Activates
    <2> QED BY <2>4, <2>5, <2>6 DEF Next
  <1> QED BY <1>1, <1>2, NextKeeps

\* Only activate_rejoin rejoins a channel.
LEMMA OthersRejoin ==
    ASSUME IInv, Next, ~\E i \in DOMAIN recoveries, n \in Offer : ActivateRejoin(i, n)
    PROVE  /\ \A j \in DOMAIN recoveries :
                 /\ j \in DOMAIN recoveries'
                 /\ recoveries'[j].offer = recoveries[j].offer
                 /\ recoveries'[j].phase = "rejoined" <=> recoveries[j].phase = "rejoined"
           /\ \A j \in DOMAIN recoveries' \ DOMAIN recoveries :
                 recoveries'[j].phase # "rejoined"
  <1> DEFINE Same(rs) ==
                 /\ DOMAIN rs = DOMAIN recoveries
                 /\ \A j \in DOMAIN recoveries :
                       /\ rs[j].offer = recoveries[j].offer
                       /\ rs[j].phase = "rejoined" <=> recoveries[j].phase = "rejoined"
             Goal == /\ \A j \in DOMAIN recoveries :
                           /\ j \in DOMAIN recoveries'
                           /\ recoveries'[j].offer = recoveries[j].offer
                           /\ recoveries'[j].phase = "rejoined"
                                 <=> recoveries[j].phase = "rejoined"
                     /\ \A j \in DOMAIN recoveries' \ DOMAIN recoveries :
                           recoveries'[j].phase # "rejoined"
  <1> SUFFICES Goal
    OBVIOUS
  <1>0. /\ recoveries \in Seq(Recovery)
        /\ \A j \in DOMAIN recoveries : recoveries[j] \in Recovery
    BY Domains DEF IInv, TypeOK
  <1>1. ASSUME Same(recoveries') PROVE Goal
    BY <1>1
  <1>2. ASSUME NEW rs \in Seq(Recovery), Same(rs), NEW o, NEW b, NEW f,
               recoveries' = Append(rs, Closing(o, b, f))
        PROVE  Goal
    <2>1. /\ DOMAIN recoveries' = DOMAIN rs \cup {Len(rs) + 1}
          /\ recoveries'[Len(rs) + 1] = Closing(o, b, f)
          /\ \A j \in DOMAIN rs : recoveries'[j] = rs[j]
      BY <1>2
    <2>2. Closing(o, b, f).phase = "closing"
      BY DEF Closing
    <2> QED BY <1>2, <2>1, <2>2
  <1>3. ASSUME NEW i \in DOMAIN recoveries, NEW r, r.offer = recoveries[i].offer,
               r.phase = "rejoined" <=> recoveries[i].phase = "rejoined"
        PROVE  Same([recoveries EXCEPT ![i] = r])
    BY <1>0, <1>3
  <1>4. ASSUME UNCHANGED recoveries PROVE Goal
    BY <1>4
  <1>5. Same(recoveries)
    OBVIOUS
  <1> HIDE DEF Same, Goal
  <1>6. CASE Talk \/ Replace
    <2>1. CASE \E i \in DOMAIN replacements : BeginReplacementRecovery(i)
      BY <1>0, <1>2, <1>5, <2>1 DEF BeginReplacementRecovery
    <2>2. ASSUME NEW i \in DOMAIN replacements, NEW v, Cancelled(i, v) PROVE Goal
      BY <1>4, <2>2 DEF Cancelled
    <2>3. CASE \E i \in DOMAIN replacements :
                    \/ \E c \in {"cancelled", "admitted"} : FinishCancelReplacement(i, c)
                    \/ ObserveReplacementCancelled(i)
      <3> QED BY <1>4, <2>2, <2>3 DEF FinishCancelReplacement, ObserveReplacementCancelled
    <2>4. CASE Talk
      BY <1>4, <2>4 DEF Talk, PrepareInvitation, InviteFromDelivery, JoinFromDelivery,
           AcceptDelivery, CompleteInvitation, SendChat, MarkInvitationFailed, ApprovePeer
    <2>5. CASE \/ \E p, n \in Offer : PrepareReplacement(p, n)
               \/ \E i \in DOMAIN replacements :
                     \/ AttestPredecessor(i) \/ Consent(i) \/ ActivateReplacement(i)
                     \/ BeginCancelReplacement(i) \/ MarkReplacementFailed(i)
               \/ \E p, n \in Offer : BeginStop(p, n)
               \/ \E i \in DOMAIN stops : CompleteStop(i)
      BY <1>4, <2>5 DEF PrepareReplacement, AttestPredecessor, Consent, ActivateReplacement,
           BeginCancelReplacement, MarkReplacementFailed, BeginStop, CompleteStop
    <2> QED BY <1>6, <2>1, <2>3, <2>4, <2>5 DEF Replace
  <1>7. CASE Rejoin
    <2>1. CASE BeginClose
      BY <1>0, <1>2, <1>5, <2>1 DEF BeginClose
    <2>2. CASE \E i \in DOMAIN recoveries : CompleteClose(i)
      <3>1. PICK i \in DOMAIN recoveries : CompleteClose(i)
        BY <2>2
      <3> DEFINE r == [recoveries[i] EXCEPT !.phase = "closed"]
      <3>2. /\ recoveries' = [recoveries EXCEPT ![i] = r] /\ recoveries[i].phase = "closing"
            /\ r.offer = recoveries[i].offer /\ r.phase = "closed"
        BY <1>0, <3>1 DEF CompleteClose, Recovery
      <3> HIDE DEF r
      <3>3. Same([recoveries EXCEPT ![i] = r])
        BY <1>3, <3>2
      <3> QED BY <1>1, <3>2, <3>3
    <2>3. CASE \E i \in DOMAIN recoveries : MarkRejoinFailed(i) \/ BeginRejoinRecovery(i)
      <3>1. PICK i \in DOMAIN recoveries : MarkRejoinFailed(i) \/ BeginRejoinRecovery(i)
        BY <2>3
      <3> DEFINE r == [recoveries[i] EXCEPT !.successor_failed = TRUE]
                 rs == [recoveries EXCEPT ![i] = r]
      <3>2. /\ r.offer = recoveries[i].offer /\ r.phase = recoveries[i].phase
            /\ rs \in Seq(Recovery)
            /\ \/ recoveries' = rs
               \/ \E o, b, f : recoveries' = Append(rs, Closing(o, b, f))
        <4>1. r \in Recovery /\ r.offer = recoveries[i].offer /\ r.phase = recoveries[i].phase
          BY <1>0 DEF Recovery
        <4>2. rs = [recoveries EXCEPT ![i].successor_failed = TRUE]
          BY <1>0
        <4>3. rs \in Seq(Recovery)
          BY <1>0, <4>1
        <4> HIDE DEF rs, r
        <4> QED BY <3>1, <4>1, <4>2, <4>3 DEF MarkRejoinFailed, BeginRejoinRecovery
      <3> HIDE DEF r
      <3>3. Same(rs)
        BY <1>3, <3>2
      <3> QED BY <1>1, <1>2, <3>2, <3>3
    <2>4. CASE \E i \in DOMAIN recoveries, n \in Offer : PrepareRejoin(i, n)
      <3>1. PICK i \in DOMAIN recoveries, n \in Offer : PrepareRejoin(i, n)
        BY <2>4
      <3> DEFINE r == [recoveries[i] EXCEPT !.next = n]
      <3>2. /\ recoveries' = [recoveries EXCEPT ![i] = r]
            /\ r.offer = recoveries[i].offer /\ r.phase = recoveries[i].phase
        BY <1>0, <3>1 DEF PrepareRejoin, Recovery
      <3> HIDE DEF r
      <3>3. Same([recoveries EXCEPT ![i] = r])
        BY <1>3, <3>2
      <3> QED BY <1>1, <3>2, <3>3
    <2>5. CASE \E i \in DOMAIN recoveries : BeginCancelRejoin(i)
      <3>1. PICK i \in DOMAIN recoveries : BeginCancelRejoin(i)
        BY <2>5
      <3> DEFINE r == [recoveries[i] EXCEPT !.cancellations =
                          Append(@, [next |-> recoveries[i].next, outcome |-> "pending"])]
      <3>2. /\ recoveries' = [recoveries EXCEPT ![i] = r]
            /\ r.offer = recoveries[i].offer /\ r.phase = recoveries[i].phase
        BY <1>0, <3>1 DEF BeginCancelRejoin, Recovery
      <3> HIDE DEF r
      <3>3. Same([recoveries EXCEPT ![i] = r])
        BY <1>3, <3>2
      <3> QED BY <1>1, <3>2, <3>3
    <2>6. CASE \E i \in DOMAIN recoveries : \E c \in {"cancelled", "admitted"} :
                  FinishCancelRejoin(i, c)
      <3>1. PICK i \in DOMAIN recoveries, c \in {"cancelled", "admitted"} :
               FinishCancelRejoin(i, c)
        BY <2>6
      <3>2. /\ recoveries'[i].offer = recoveries[i].offer
            /\ recoveries'[i].phase = recoveries[i].phase
            /\ DOMAIN recoveries' = DOMAIN recoveries
            /\ \A j \in DOMAIN recoveries : j # i => recoveries'[j] = recoveries[j]
        BY <1>0, <3>1 DEF FinishCancelRejoin, Recovery
      <3> QED BY <3>2 DEF Goal
    <2> QED BY <1>7, <2>1, <2>2, <2>3, <2>4, <2>5, <2>6 DEF Rejoin
  <1> QED BY <1>6, <1>7 DEF Next

\* The group after a step: one that a commit or a welcome made, one whose
\* predecessor is attested or forgotten, or the result of an activation.
LEMMA EngineStep ==
    ASSUME IInv, Next, TypeOK'
    PROVE  /\ EngineFit(engine')
           /\ ~Activates => engine'.retired = engine.retired
  <1>0. /\ TypeOK /\ EngineFit(engine) /\ engine \in Engine /\ engine' \in Engine
        /\ \A i \in DOMAIN replacements : replacements[i] \in Replacement
    BY Domains DEF IInv, EngineFit, TypeOK
  <1> DEFINE Goal == /\ EngineFit(engine')
                     /\ ~Activates => engine'.retired = engine.retired
  <1> SUFFICES Goal
    OBVIOUS
  <1>1. ASSUME UNCHANGED engine PROVE Goal
    BY <1>0, <1>1
  <1>2. ASSUME NEW g \in Offer, CheckBootstrap(engine, g), engine.group = NoOffer,
               engine'.retired = engine.retired, engine'.next = engine.next,
               engine'.predecessor = engine.predecessor, engine'.group = g
        PROVE  Goal
    BY <1>0, <1>2 DEF CheckBootstrap, CheckNewGroup, EngineFit, EngineOK
  <1>3. ASSUME engine'.retired = engine.retired, engine'.next = engine.next,
               engine'.predecessor \in {engine.predecessor, NoPredecessor},
               engine'.group = engine.group
        PROVE  Goal
    BY <1>0, <1>3 DEF EngineFit, EngineOK
  <1> HIDE DEF Goal
  <1>4. CASE Talk
    <2>1. CASE InviteFromDelivery
      <3>1. invitation.offer \in Offer
        BY <2>1, ChannelIs DEF IInv, InviteFromDelivery
      <3>2. /\ engine'.retired = engine.retired /\ engine'.next = engine.next
            /\ engine'.predecessor = engine.predecessor /\ engine'.group = invitation.offer
        BY <1>0, <2>1 DEF InviteFromDelivery, Engine
      <3> QED BY <1>2, <2>1, <3>1, <3>2 DEF InviteFromDelivery
    <2>2. CASE JoinFromDelivery
      <3>1. invitation.offer \in Offer
        BY <2>2, ChannelIs DEF IInv, JoinFromDelivery
      <3>2. /\ engine'.retired = engine.retired /\ engine'.next = engine.next
            /\ engine'.predecessor = engine.predecessor /\ engine'.group = invitation.offer
        BY <1>0, <2>2 DEF JoinFromDelivery, Engine
      <3> QED BY <1>2, <2>2, <3>1, <3>2 DEF JoinFromDelivery
    <2>3. CASE \E w \in outbox : AcceptDelivery(w)
      <3>1. /\ engine'.retired = engine.retired /\ engine'.next = engine.next
            /\ engine'.predecessor = engine.predecessor /\ engine'.group = engine.group
        BY <1>0, <2>3 DEF AcceptDelivery, Engine
      <3> QED BY <1>3, <3>1
    <2> QED BY <1>1, <1>4, <2>1, <2>2, <2>3 DEF Talk, PrepareInvitation,
          CompleteInvitation, SendChat, MarkInvitationFailed, ApprovePeer
  <1>5. CASE Rejoin
    <2>1. CASE \E i \in DOMAIN recoveries, n \in Offer : ActivateRejoin(i, n)
      BY <2>1, RejoinedEngine DEF Goal, Activates
    <2>2. CASE \/ BeginClose
               \/ \E i \in DOMAIN recoveries :
                     \/ CompleteClose(i) \/ MarkRejoinFailed(i) \/ BeginCancelRejoin(i)
                     \/ BeginRejoinRecovery(i)
                     \/ \E n \in Offer : PrepareRejoin(i, n)
                     \/ \E c \in {"cancelled", "admitted"} : FinishCancelRejoin(i, c)
      BY <1>1, <2>2 DEF BeginClose, CompleteClose, MarkRejoinFailed, BeginCancelRejoin,
           BeginRejoinRecovery, PrepareRejoin, FinishCancelRejoin
    <2> QED BY <1>5, <2>1, <2>2 DEF Rejoin
  <1>6. CASE Replace
    <2>1. CASE \E i \in DOMAIN replacements : ActivateReplacement(i)
      BY <2>1, ReplacedEngine DEF Goal, Activates
    <2>2. CASE \E i \in DOMAIN replacements : AttestPredecessor(i)
      <3>1. PICK i \in DOMAIN replacements : AttestPredecessor(i)
        BY <2>2
      <3> DEFINE r == replacements[i]
                 p == r.previous
                 f == FirstGroup(r)
      <3>2. /\ engine.group = NoOffer /\ engine.next = NoOffer
            /\ p \notin engine.retired /\ f \notin engine.retired
            /\ engine' = [engine EXCEPT !.predecessor = <<p, f>>]
            /\ r.restart_from # NoOffer => StoppedFrom(p)
        BY <3>1 DEF AttestPredecessor, StoppedGroupsOK
      <3>3. r \in Replacement /\ p \in Offer /\ r.next \in Offer /\ IsReplacement(p, r.next)
        BY <1>0 DEF IInv, ReplacementsOpen, Replacement
      <3>4. f \in {r.next} \cup ToSet(StoppedGroups(r)) /\ f \in Offer
        BY <1>0, <3>3, FirstGroupIs
      <3>5. p # f
        <4>1. p # r.next
          BY <3>3 DEF IsReplacement
        <4>2. ASSUME f \in ToSet(StoppedGroups(r)) PROVE p # f
          <5>1. r.restart_from # NoOffer
            <6>1. ToSet(<<>>) = {}
              BY DEF ToSet
            <6> QED BY <1>0, <4>2, <6>1, StoppedGroupsAre
          <5>2. PICK k \in OpenStops : f \in ToSet(StopOffers(stops[k]))
            BY <1>0, <4>2, <5>1, StoppedGroupsAre
          <5>3. stops[k].previous = p
            BY <3>2, <5>1 DEF StoppedFrom
          <5>4. stops[k].previous \notin ToSet(StopOffers(stops[k]))
            BY DEF IInv, StopsApart, OpenStops
          <5> QED BY <5>2, <5>3, <5>4
        <4> QED BY <3>4, <4>1, <4>2
      <3> HIDE DEF p, f, r
      <3>6. /\ engine'.retired = engine.retired /\ engine'.next = engine.next
            /\ engine'.predecessor = <<p, f>> /\ engine'.group = engine.group
        BY <1>0, <3>2 DEF Engine
      <3> QED BY <1>0, <3>2, <3>4, <3>5, <3>6 DEF Goal, EngineFit, EngineOK
    <2>3. ASSUME NEW i \in DOMAIN replacements, NEW v, Cancelled(i, v) PROVE Goal
      <3>1. \/ engine' = engine
            \/ engine' = [engine EXCEPT !.predecessor = NoPredecessor]
        BY <2>3 DEF Cancelled
      <3>2. /\ engine'.retired = engine.retired /\ engine'.next = engine.next
            /\ engine'.predecessor \in {engine.predecessor, NoPredecessor}
            /\ engine'.group = engine.group
        BY <1>0, <3>1 DEF Engine
      <3> QED BY <1>3, <3>2
    <2>4. CASE \E i \in DOMAIN replacements :
                  \/ \E c \in {"cancelled", "admitted"} : FinishCancelReplacement(i, c)
                  \/ ObserveReplacementCancelled(i)
      BY <1>1, <2>3, <2>4 DEF FinishCancelReplacement, ObserveReplacementCancelled
    <2>5. CASE \/ \E p, n \in Offer : PrepareReplacement(p, n)
               \/ \E i \in DOMAIN replacements :
                     \/ Consent(i) \/ BeginCancelReplacement(i)
                     \/ MarkReplacementFailed(i) \/ BeginReplacementRecovery(i)
               \/ \E p, n \in Offer : BeginStop(p, n)
               \/ \E i \in DOMAIN stops : CompleteStop(i)
      BY <1>1, <2>5 DEF PrepareReplacement, Consent, BeginReplacementRecovery,
           BeginCancelReplacement, MarkReplacementFailed, BeginStop, CompleteStop
    <2> QED BY <1>6, <2>1, <2>2, <2>4, <2>5 DEF Replace
  <1> QED BY <1>4, <1>5, <1>6 DEF Next

\* What fences a group: an entry of one of the three ledgers.
Fenced(o, reps, recs, ss) ==
    \/ \E j \in DOMAIN reps : reps[j].phase = "active" /\ reps[j].previous = o
    \/ \E j \in DOMAIN recs : recs[j].phase = "rejoined" /\ recs[j].offer = o
    \/ \E k \in DOMAIN ss : ss[k].phase = "retired" /\ o \in ToSet(StopOffers(ss[k]))

LEMMA AgreeIs ==
    /\ RetirementsAgree <=>
          \A o : o \in engine.retired <=> Fenced(o, replacements, recoveries, stops)
    /\ RetirementsAgree' <=>
          \A o : o \in engine'.retired <=> Fenced(o, replacements', recoveries', stops')
  <1> DEFINE A(reps) == {r.previous : r \in {x \in ToSet(reps) : x.phase = "active"}}
             J(recs) == {r.offer : r \in {x \in ToSet(recs) : x.phase = "rejoined"}}
             S(ss) == UNION {ToSet(StopOffers(s)) :
                               s \in {x \in ToSet(ss) : x.phase = "retired"}}
  <1>1. ASSUME NEW o, NEW reps, NEW recs, NEW ss
        PROVE  o \in A(reps) \cup J(recs) \cup S(ss) <=> Fenced(o, reps, recs, ss)
    <2>1. o \in A(reps) <=>
             \E j \in DOMAIN reps : reps[j].phase = "active" /\ reps[j].previous = o
      BY DEF ToSet
    <2>2. o \in J(recs) <=>
             \E j \in DOMAIN recs : recs[j].phase = "rejoined" /\ recs[j].offer = o
      BY DEF ToSet
    <2>3. o \in S(ss) <=>
             \E k \in DOMAIN ss : ss[k].phase = "retired" /\ o \in ToSet(StopOffers(ss[k]))
      <3>1. o \in S(ss) <=> \E s \in {x \in ToSet(ss) : x.phase = "retired"} :
                               o \in ToSet(StopOffers(s))
        OBVIOUS
      <3>2. \A x : x \in ToSet(ss) <=> \E k \in DOMAIN ss : x = ss[k]
        BY DEF ToSet
      <3> QED BY <3>1, <3>2
    <2> HIDE DEF A, J, S
    <2> QED BY <2>1, <2>2, <2>3 DEF Fenced
  <1>2. RetirementsAgree <=>
           engine.retired = A(replacements) \cup J(recoveries) \cup S(stops)
    BY DEF RetirementsAgree
  <1>3. RetirementsAgree' <=>
           engine'.retired = A(replacements') \cup J(recoveries') \cup S(stops')
    BY DEF RetirementsAgree
  <1> HIDE DEF A, J, S
  <1> QED BY <1>1, <1>2, <1>3

LEMMA RetirementsStep ==
    ASSUME IInv, Next, TypeOK'
    PROVE  RetirementsAgree'
  <1>0. /\ TypeOK /\ PendingOK
        /\ replacements \in Seq(Replacement) /\ recoveries \in Seq(Recovery)
        /\ stops \in Seq(Stop)
        /\ \A i \in DOMAIN replacements : replacements[i] \in Replacement
        /\ \A i \in DOMAIN recoveries : recoveries[i] \in Recovery
        /\ \A k \in DOMAIN stops : stops[k] \in Stop
    BY Domains DEF IInv, TypeOK
  <1>1. \A o : o \in engine.retired <=> Fenced(o, replacements, recoveries, stops)
    BY AgreeIs DEF IInv
  <1> SUFFICES ASSUME NEW o
               PROVE  o \in engine'.retired <=> Fenced(o, replacements', recoveries', stops')
    BY AgreeIs
  <1>2. CASE ~Activates
    <2>1. engine'.retired = engine.retired
      BY <1>2, EngineStep
    <2>2. (\E j \in DOMAIN replacements' :
              replacements'[j].phase = "active" /\ replacements'[j].previous = o)
          <=> (\E j \in DOMAIN replacements :
                  replacements[j].phase = "active" /\ replacements[j].previous = o)
      BY <1>2, OthersReplace
    <2>3. (\E j \in DOMAIN recoveries' :
              recoveries'[j].phase = "rejoined" /\ recoveries'[j].offer = o)
          <=> (\E j \in DOMAIN recoveries :
                  recoveries[j].phase = "rejoined" /\ recoveries[j].offer = o)
      BY <1>2, OthersRejoin DEF Activates
    <2>4. (\E k \in DOMAIN stops' :
              stops'[k].phase = "retired" /\ o \in ToSet(StopOffers(stops'[k])))
          <=> (\E k \in DOMAIN stops :
                  stops[k].phase = "retired" /\ o \in ToSet(StopOffers(stops[k])))
      <3>1. CASE StopsKept
        <4>1. OpenStops' = OpenStops /\ DOMAIN stops' = DOMAIN stops
          BY <1>2, <3>1 DEF StopsKept, Activates
        <4>2. \A k \in DOMAIN stops : stops'[k].phase = "retired" <=> stops[k].phase = "retired"
          BY <4>1 DEF OpenStops
        <4>3. \A k \in DOMAIN stops : StopOffers(stops'[k]) = StopOffers(stops[k])
          BY <3>1, SameOffers DEF StopsKept
        <4> QED BY <4>1, <4>2, <4>3
      <3>2. CASE \E p, n \in Offer : BeginStop(p, n)
        <4>1. PICK s : stops' = Append(stops, s) /\ s.phase = "stopping"
          BY <3>2 DEF BeginStop
        <4>2. /\ DOMAIN stops' = DOMAIN stops \cup {Len(stops) + 1}
              /\ stops'[Len(stops) + 1] = s
              /\ \A k \in DOMAIN stops : stops'[k] = stops[k]
          BY <1>0, <4>1
        <4> QED BY <4>1, <4>2
      <3> QED BY <3>1, <3>2, NextKeeps
    <2> QED BY <1>1, <2>1, <2>2, <2>3, <2>4 DEF Fenced
  <1>3. CASE \E i \in DOMAIN recoveries, n \in Offer : ActivateRejoin(i, n)
    <2>1. PICK i \in DOMAIN recoveries, n \in Offer : ActivateRejoin(i, n)
      BY <1>3
    <2> DEFINE roots == Root(recoveries, i)..i
    <2>2. engine'.retired = engine.retired \cup ToSet(ChainOffers(recoveries, i))
                  \cup {replacements[j].previous : j \in Deferred(i)}
      BY <2>1, RejoinedEngine
    <2>3. /\ replacements' = [j \in DOMAIN replacements |->
                IF j \in Deferred(i) THEN [replacements[j] EXCEPT !.phase = "active"]
                ELSE replacements[j]]
          /\ recoveries' = [k \in DOMAIN recoveries |->
                IF k \in roots THEN [recoveries[k] EXCEPT !.phase = "rejoined"]
                ELSE recoveries[k]]
          /\ stops' = stops /\ Rooted(recoveries, i)
      BY <2>1 DEF ActivateRejoin, CanRejoin, ChainOK
    <2>4. ToSet(ChainOffers(recoveries, i)) = {recoveries[k].offer : k \in roots}
      BY <1>0, <2>3, ChainOffersAre
    <2>5. roots \subseteq DOMAIN recoveries /\ Deferred(i) \subseteq DOMAIN replacements
      <3>1. Root(recoveries, i) \in 1..i /\ i \in 1..Len(recoveries) /\ Len(recoveries) \in Nat
        BY <1>0, <2>3, RootIs, Domains
      <3>2. roots \subseteq 1..Len(recoveries)
        BY <3>1
      <3> QED BY <1>0, <3>2 DEF Deferred, ReplacementOf
    <2> HIDE DEF roots
    <2>6. (\E j \in DOMAIN replacements' :
              replacements'[j].phase = "active" /\ replacements'[j].previous = o)
          <=> \/ \E j \in DOMAIN replacements :
                    replacements[j].phase = "active" /\ replacements[j].previous = o
              \/ o \in {replacements[j].previous : j \in Deferred(i)}
      <3>1. \A j \in DOMAIN replacements :
               /\ [replacements[j] EXCEPT !.phase = "active"].phase = "active"
               /\ [replacements[j] EXCEPT !.phase = "active"].previous
                     = replacements[j].previous
        BY <1>0, PhaseIs
      <3> QED BY <2>3, <2>5, <3>1
    <2>7. (\E j \in DOMAIN recoveries' :
              recoveries'[j].phase = "rejoined" /\ recoveries'[j].offer = o)
          <=> \/ \E j \in DOMAIN recoveries :
                    recoveries[j].phase = "rejoined" /\ recoveries[j].offer = o
              \/ o \in {recoveries[k].offer : k \in roots}
      <3>1. \A j \in DOMAIN recoveries :
               /\ [recoveries[j] EXCEPT !.phase = "rejoined"].phase = "rejoined"
               /\ [recoveries[j] EXCEPT !.phase = "rejoined"].offer = recoveries[j].offer
        BY <1>0 DEF Recovery
      <3> QED BY <2>3, <2>5, <3>1
    <2> QED BY <1>1, <2>2, <2>3, <2>4, <2>6, <2>7 DEF Fenced
  <1>4. CASE \E i \in DOMAIN replacements : ActivateReplacement(i)
    <2>1. PICK i \in DOMAIN replacements : ActivateReplacement(i)
      BY <1>4
    <2> DEFINE r == replacements[i]
    <2>2. engine'.retired = engine.retired \cup {r.previous} \cup ToSet(StoppedGroups(r))
      BY <2>1, ReplacedEngine
    <2>3. /\ replacements' = [replacements EXCEPT ![i].phase = "active"]
          /\ recoveries' = recoveries
          /\ stops' = [k \in DOMAIN stops |-> [stops[k] EXCEPT !.phase = "retired"]]
          /\ r.phase = "consented" /\ StopOf(r.next) = {}
      BY <2>1 DEF ActivateReplacement, Pending
    <2>4. UnderWay(r)
      BY <2>3 DEF UnderWay
    <2>5. ToSet(StoppedGroups(r)) = UNION {ToSet(StopOffers(stops[k])) : k \in OpenStops}
      <3>1. r.restart_from = NoOffer => OpenStops = {}
        BY <1>0, <2>4 DEF PendingOK
      <3>2. ToSet(<<>>) = {}
        BY DEF ToSet
      <3> QED BY <1>0, <3>1, <3>2, StoppedGroupsAre
    <2>6. (\E j \in DOMAIN replacements' :
              replacements'[j].phase = "active" /\ replacements'[j].previous = o)
          <=> \/ \E j \in DOMAIN replacements :
                    replacements[j].phase = "active" /\ replacements[j].previous = o
              \/ o = r.previous
      <3>1. replacements' = [replacements EXCEPT ![i] = [r EXCEPT !.phase = "active"]]
        BY <1>0, <2>3
      <3>2. /\ [r EXCEPT !.phase = "active"].phase = "active"
            /\ [r EXCEPT !.phase = "active"].previous = r.previous
        BY <1>0, PhaseIs
      <3>3. /\ DOMAIN replacements' = DOMAIN replacements
            /\ replacements'[i].phase = "active" /\ replacements'[i].previous = r.previous
            /\ \A j \in DOMAIN replacements : j # i => replacements'[j] = replacements[j]
        BY <1>0, <3>1, <3>2
      <3> QED BY <2>3, <3>3
    <2>7. (\E k \in DOMAIN stops' :
              stops'[k].phase = "retired" /\ o \in ToSet(StopOffers(stops'[k])))
          <=> \/ \E k \in DOMAIN stops :
                    stops[k].phase = "retired" /\ o \in ToSet(StopOffers(stops[k]))
              \/ \E k \in OpenStops : o \in ToSet(StopOffers(stops[k]))
      <3>1. \A k \in DOMAIN stops :
               /\ [stops[k] EXCEPT !.phase = "retired"].phase = "retired"
               /\ StopOffers([stops[k] EXCEPT !.phase = "retired"]) = StopOffers(stops[k])
        BY <1>0 DEF Stop, StopOffers
      <3> QED BY <2>3, <3>1 DEF OpenStops
    <2> HIDE DEF r
    <2>8. o \in ToSet(StoppedGroups(r)) <=> \E k \in OpenStops : o \in ToSet(StopOffers(stops[k]))
      BY <2>5
    <2> QED BY <1>1, <2>2, <2>3, <2>6, <2>7, <2>8 DEF Fenced
  <1> QED BY <1>2, <1>3, <1>4 DEF Activates

-----------------------------------------------------------------------------
(* The theorems.                                                           *)

LEMMA NextOK ==
    ASSUME IInv, Next
    PROVE  IInv'
  <1>1. TypeOK' /\ InvitationOK'
    BY TalkType, RejoinType, ReplaceType DEF Next
  <1>2. OutboxOK'
    BY OutboxStep
  <1>3. ReplacementsOpen'
    BY <1>1, ReplacementsStep
  <1>4. StopsOrdered' /\ StopsApart' /\ StopsHold'
    BY <1>1, StopsStep, HoldStep
  <1>5. PendingOK'
    BY <1>1, <1>4, PendingStep
  <1>6. RetirementsAgree'
    BY <1>1, RetirementsStep
  <1>7. EngineFit(engine)'
    BY <1>1, EngineStep DEF EngineFit, EngineOK
  <1> QED BY <1>1, <1>2, <1>3, <1>4, <1>5, <1>6, <1>7 DEF IInv

LEMMA InitOK ==
    ASSUME Init
    PROVE  IInv
  <1>0. /\ DOMAIN replacements = {} /\ DOMAIN recoveries = {} /\ DOMAIN stops = {}
        /\ Len(replacements) = 0 /\ Len(stops) = 0
    BY DEF Init
  <1>1. TypeOK
    <2>1. invitation \in Invitation
      BY DEF Init, NoInvitation, Invitation, Optional
    <2>2. engine \in Engine
      BY DEF Init, Engine, Optional, NoPredecessor
    <2>3. rows \in [Offer -> Row]
      BY DEF Init, Row, Optional
    <2> QED BY <2>1, <2>2, <2>3 DEF TypeOK, Init
  <1>2. InvitationOK /\ OutboxOK
    BY DEF Init, InvitationOK, OutboxOK
  <1>3. ReplacementsOpen /\ StopsOrdered /\ StopsApart
    BY <1>0, OfferAssumption DEF ReplacementsOpen, StopsOrdered, StopsApart
  <1>4. StopsHold /\ PendingOK
    BY <1>0 DEF StopsHold, PendingOK, OpenStops
  <1>5. RetirementsAgree
    <2>1. \A o : ~Fenced(o, replacements, recoveries, stops)
      BY <1>0 DEF Fenced
    <2>2. engine.retired = {}
      BY DEF Init
    <2> QED BY <2>1, <2>2, AgreeIs
  <1>6. EngineFit(engine)
    <2>1. IsFiniteSet({}) /\ Cardinality({}) = 0
      BY FS_EmptySet
    <2>2. /\ engine.retired = {} /\ engine.group = NoOffer
          /\ engine.predecessor = NoPredecessor
      BY DEF Init
    <2> QED BY <1>1, <2>1, <2>2, OfferAssumption DEF EngineFit, EngineOK, TypeOK
  <1> QED BY <1>1, <1>2, <1>3, <1>4, <1>5, <1>6 DEF IInv

\* The inductive invariant holds in every reachable state, whatever offers the
\* two owners may exchange and however many groups may be retired.
THEOREM InvariantHolds == Spec => []IInv
  <1>1. Init => IInv
    BY InitOK
  <1>2. IInv /\ [Next]_vars => IInv'
    <2>1. SUFFICES ASSUME IInv, [Next]_vars PROVE IInv'
      OBVIOUS
    <2>2. CASE Next
      BY <2>1, <2>2, NextOK
    <2>3. CASE UNCHANGED vars
      <3>1. TypeOK' /\ InvitationOK' /\ OutboxOK'
        BY <2>1, <2>3 DEF vars, IInv, TypeOK, InvitationOK, OutboxOK, Failed
      <3>2. ReplacementsOpen'
        BY <2>1, <2>3 DEF vars, IInv, ReplacementsOpen, ReplacementOf
      <3>3. StopsOrdered' /\ StopsApart'
        BY <2>1, <2>3 DEF vars, IInv, StopsOrdered, StopsApart
      <3>4. StopsHold'
        BY <2>1, <2>3 DEF vars, IInv, StopsHold, OpenStops, ReplacementOf
      <3>5. PendingOK'
        BY <2>1, <2>3 DEF vars, IInv, PendingOK, UnderWay, StopOf, StoppedGroupsOK,
             OpenStops, LastOpen, StoppedFrom
      <3>6. RetirementsAgree' /\ EngineFit(engine)'
        BY <2>1, <2>3 DEF vars, IInv, RetirementsAgree, EngineFit, EngineOK
      <3> QED BY <3>1, <3>2, <3>3, <3>4, <3>5, <3>6 DEF IInv
    <2> QED BY <2>1, <2>2, <2>3
  <1> QED BY <1>1, <1>2, PTL DEF Spec

\* The ledgers, the invitation and the engine keep their types under every
\* command of request().
THEOREM TypeCorrect == Spec => []TypeOK
  <1>1. IInv => TypeOK
    BY DEF IInv
  <1> QED BY <1>1, InvariantHolds, PTL

\* The outbox never releases a wire of another channel than the current one:
\* every activation and every stop empties or replaces it, and a channel that
\* failed releases nothing (#unfrozen).
THEOREM OutboxNeverStale == Spec => []OutboxIsCurrent
  <1>1. IInv => OutboxIsCurrent
    BY DEF IInv, OutboxOK, OutboxIsCurrent, Unfrozen
  <1> QED BY <1>1, InvariantHolds, PTL

\* The groups that the engine has retired are exactly those that the journal's
\* ledgers say were replaced, rejoined or stopped.
THEOREM FencesMatchLedgers == Spec => []RetirementsAgree
  <1>1. IInv => RetirementsAgree
    BY DEF IInv
  <1> QED BY <1>1, InvariantHolds, PTL

\* restore() accepts the group of every checkpoint a command leaves: no more
\* groups are retired than it allows, and none of them comes back.
THEOREM EngineReopens == Spec => []EngineOK(engine)
  <1>1. IInv => EngineOK(engine)
    BY DEF IInv, EngineFit
  <1> QED BY <1>1, InvariantHolds, PTL

\* #open accepts the ledger of replacements that a command leaves: each is of
\* one owner's device, none is entered twice, only the newest is under way, and
\* one that goes on from a stop finds that stop again.
THEOREM ReplacementsReopen == Spec => []ReplacementsOpen
  <1>1. IInv => ReplacementsOpen
    BY DEF IInv
  <1> QED BY <1>1, InvariantHolds, PTL
=============================================================================
