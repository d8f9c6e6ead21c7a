---------------------- MODULE ConversationReopenProofs ----------------------
(***************************************************************************)
(* Proofs about what ConversationState opens again: the ledgers of stops   *)
(* and of recoveries, for any offers and any limit on the retired groups;  *)
(* and that what is prepared still fits among those groups when it is      *)
(* activated.  They rest on the invariant of ConversationStateProofs.      *)
(***************************************************************************)
EXTENDS ConversationStateProofs

-----------------------------------------------------------------------------
(* Chains of recoveries.                                                   *)

LEMMA RootUnique ==
    ASSUME NEW rs, NEW i \in Nat, NEW j \in 1..i, IsRoot(rs, i, j)
    PROVE  Rooted(rs, i) /\ Root(rs, i) = j
  <1>1. Rooted(rs, i)
    BY DEF Rooted
  <1>2. Root(rs, i) \in 1..i /\ IsRoot(rs, i, Root(rs, i))
    BY <1>1, RootIs
  <1>3. \A x, y \in 1..i : IsRoot(rs, i, x) /\ IsRoot(rs, i, y) => ~(x < y)
    BY DEF IsRoot
  <1>4. ~(j < Root(rs, i)) /\ ~(Root(rs, i) < j)
    BY <1>2, <1>3
  <1> QED BY <1>1, <1>2, <1>4

\* Two chains that share an entry have one root.
LEMMA RootsMeet ==
    ASSUME NEW rs, NEW i \in Nat, NEW j \in 1..i, IsRoot(rs, i, j),
           NEW h \in Nat, NEW g \in 1..h, IsRoot(rs, h, g),
           NEW k \in Nat, k \in j..i, k \in g..h
    PROVE  g = j
  <1>1. CASE g < j
    <2>1. j \in (g + 1)..h
      BY <1>1
    <2> QED BY <2>1 DEF IsRoot
  <1>2. CASE j < g
    <2>1. g \in (j + 1)..i
      BY <1>2
    <2> QED BY <2>1 DEF IsRoot
  <1> QED BY <1>1, <1>2

\* What a stop bridges, entry by entry: from j, its root, to i.
BridgeAt(previous, next, chain, rs, reps, i, j) ==
    /\ chain # <<>> /\ Len(chain) <= MaxRecoveries /\ IsInjective(chain)
    /\ Len(rs) <= MaxRecoveries
    /\ rs[i].offer = Last(chain)
    /\ rs[i].next = NoOffer /\ ~rs[i].successor_failed
    /\ rs[j].replacement /\ rs[j].offer = next
    /\ chain = [k \in 1..(i - j + 1) |-> rs[j + k - 1].offer]
    /\ \E r \in ToSet(reps) :
          r.phase = "abandoned" /\ r.previous = previous /\ r.next = next
    /\ \A k \in (j + 1)..i :
          /\ rs[k - 1].offer = rs[k].deferred_from
          /\ rs[k - 1].successor_failed
          /\ rs[k - 1].next = rs[k].offer
    /\ \A k \in j..i :
          /\ rs[k].phase = "closed"
          /\ k > j => ~rs[k].replacement
          /\ rs[k].offer.own = next.own /\ rs[k].offer.peer = next.peer
          /\ rs[k].offer # previous
          /\ \A c \in ToSet(rs[k].cancellations) :
                \/ c.outcome = "cancelled"
                \/ /\ c.outcome = "admitted"
                   /\ k < i /\ c.next = rs[k + 1].offer

LEMMA BridgeIs ==
    ASSUME NEW rs, DOMAIN rs \subseteq Nat \ {0},
           NEW p, NEW n, NEW chain, NEW reps, BridgeOK(p, n, chain, rs, reps)
    PROVE  \E i \in DOMAIN rs : \E j \in 1..i :
              IsRoot(rs, i, j) /\ BridgeAt(p, n, chain, rs, reps, i, j)
  <1>1. PICK i \in DOMAIN rs :
          /\ rs[i].offer = Last(chain)
          /\ ChainOK(rs, i)
          /\ ChainOffers(rs, i) = chain
          /\ rs[Root(rs, i)].replacement
          /\ rs[Root(rs, i)].offer = n
          /\ \E r \in ToSet(reps) :
                r.phase = "abandoned" /\ r.previous = p /\ r.next = n
          /\ IsInjective(chain)
          /\ rs[i].next = NoOffer /\ ~rs[i].successor_failed
          /\ \A k \in Root(rs, i)..i :
                /\ rs[k].phase = "closed"
                /\ k > Root(rs, i) => ~rs[k].replacement
                /\ rs[k].offer.own = n.own /\ rs[k].offer.peer = n.peer
                /\ rs[k].offer # p
                /\ \A c \in ToSet(rs[k].cancellations) :
                      \/ c.outcome = "cancelled"
                      \/ /\ c.outcome = "admitted"
                         /\ k < i /\ c.next = rs[k + 1].offer
    BY DEF BridgeOK
  <1>2. Rooted(rs, i) /\ i \in Nat
    BY <1>1 DEF ChainOK
  <1>3. PICK j \in 1..i : j = Root(rs, i) /\ IsRoot(rs, i, j)
    BY <1>2, RootIs
  <1>4. BridgeAt(p, n, chain, rs, reps, i, j)
    <2>1. chain # <<>> /\ Len(chain) <= MaxRecoveries
      BY DEF BridgeOK
    <2>2. /\ Len(rs) <= MaxRecoveries
          /\ \A k \in (j + 1)..i :
                /\ rs[k - 1].offer = rs[k].deferred_from
                /\ rs[k - 1].successor_failed
                /\ rs[k - 1].next = rs[k].offer
      BY <1>1, <1>3 DEF ChainOK
    <2>3. chain = [k \in 1..(i - j + 1) |-> rs[j + k - 1].offer]
      BY <1>1, <1>3 DEF ChainOffers
    <2> QED BY <1>1, <1>3, <2>1, <2>2, <2>3 DEF BridgeAt
  <1> QED BY <1>3, <1>4

LEMMA IsBridge ==
    ASSUME NEW rs, NEW i \in DOMAIN rs, i \in Nat, NEW j \in 1..i, IsRoot(rs, i, j),
           NEW p, NEW n, NEW chain, NEW reps, BridgeAt(p, n, chain, rs, reps, i, j)
    PROVE  BridgeOK(p, n, chain, rs, reps)
  <1>1. Rooted(rs, i) /\ Root(rs, i) = j
    BY RootUnique
  <1>2. ChainOffers(rs, i) = chain
    BY <1>1 DEF ChainOffers, BridgeAt
  <1>3. ChainOK(rs, i)
    <2>1. \A k \in (j + 1)..i : k \in j..i /\ k - 1 \in j..i
      OBVIOUS
    <2>2. \A k \in j..i : rs[k].phase = "closed"
      BY DEF BridgeAt
    <2>3. \A k \in (j + 1)..i : rs[k - 1].phase = "closed" /\ rs[k].phase = "closed"
      BY <2>1, <2>2
    <2> QED BY <1>1, <2>3 DEF ChainOK, BridgeAt
  <1>4. /\ chain # <<>> /\ Len(chain) <= MaxRecoveries /\ IsInjective(chain)
        /\ rs[i].offer = Last(chain)
        /\ rs[i].next = NoOffer /\ ~rs[i].successor_failed
        /\ rs[j].replacement /\ rs[j].offer = n
        /\ \E r \in ToSet(reps) :
              r.phase = "abandoned" /\ r.previous = p /\ r.next = n
        /\ \A k \in j..i :
              /\ rs[k].phase = "closed"
              /\ k > j => ~rs[k].replacement
              /\ rs[k].offer.own = n.own /\ rs[k].offer.peer = n.peer
              /\ rs[k].offer # p
              /\ \A c \in ToSet(rs[k].cancellations) :
                    \/ c.outcome = "cancelled"
                    \/ /\ c.outcome = "admitted"
                       /\ k < i /\ c.next = rs[k + 1].offer
    BY DEF BridgeAt
  <1> QED BY <1>1, <1>2, <1>3, <1>4 DEF BridgeOK

-----------------------------------------------------------------------------
(* What a command does to the recoveries.                                  *)

\* An entry keeps its place: it may only get another successor.
KeptRecovery(r, q) ==
    /\ q.offer = r.offer /\ q.deferred_from = r.deferred_from
    /\ q.replacement = r.replacement
    /\ q.next \in {r.next, NoOffer} \/ IsSuccessor(r.offer, q.next)

\* A new entry is for an offer that had none; one that goes on from a failed
\* successor is published under its predecessor.
Begun(r) ==
    /\ RecoveryOf(r.offer) = {}
    /\ r.next = NoOffer
    /\ r.deferred_from # NoOffer =>
          \E k \in DOMAIN recoveries :
             /\ recoveries[k].offer = r.deferred_from
             /\ recoveries[k].next = r.offer
             /\ Published(r.deferred_from, r.offer)

\* A closed entry changes only by a rejoin of its chain, unless it is not
\* stopped.
Touched(k) ==
    \/ recoveries[k].phase = "closing"
    \/ ~RecoveryStopped(recoveries[k].offer)
    \/ \E x \in DOMAIN recoveries, n \in Offer :
          ActivateRejoin(x, n) /\ k \in Root(recoveries, x)..x

RecoveriesKept ==
    /\ \A k \in DOMAIN recoveries :
          /\ k \in DOMAIN recoveries'
          /\ KeptRecovery(recoveries[k], recoveries'[k])
          /\ recoveries'[k] # recoveries[k] => Touched(k)
    /\ \A k \in DOMAIN recoveries' \ DOMAIN recoveries :
          /\ k = Len(recoveries) + 1
          /\ Begun(recoveries'[k])
    /\ Len(recoveries') <= Len(recoveries) \/ Len(recoveries') <= MaxRecoveries

LEMMA SameRecoveries ==
    ASSUME TypeOK, UNCHANGED recoveries
    PROVE  RecoveriesKept
  <1>1. Len(recoveries) \in Nat
    BY Domains
  <1> QED BY <1>1 DEF RecoveriesKept, KeptRecovery

LEMMA OneRecovery ==
    ASSUME TypeOK, NEW i \in DOMAIN recoveries, Touched(i), NEW q,
           recoveries' = [recoveries EXCEPT ![i] = q], KeptRecovery(recoveries[i], q)
    PROVE  RecoveriesKept
  <1>0. recoveries \in Seq(Recovery) /\ Len(recoveries) \in Nat
    BY DEF TypeOK
  <1>1. /\ DOMAIN recoveries' = DOMAIN recoveries /\ Len(recoveries') = Len(recoveries)
        /\ recoveries'[i] = q
        /\ \A k \in DOMAIN recoveries : k # i => recoveries'[k] = recoveries[k]
    BY <1>0
  <1>2. \A k \in DOMAIN recoveries : KeptRecovery(recoveries[k], recoveries[k])
    BY DEF KeptRecovery
  <1> QED BY <1>0, <1>1, <1>2 DEF RecoveriesKept

LEMMA NewRecovery ==
    ASSUME TypeOK, NEW r \in Recovery, Begun(r), Len(recoveries) < MaxRecoveries,
           recoveries' = Append(recoveries, r)
    PROVE  RecoveriesKept
  <1>0. recoveries \in Seq(Recovery) /\ Len(recoveries) \in Nat /\ MaxRecoveries \in Nat
    BY OfferAssumption DEF TypeOK, MaxRecoveries
  <1>1. /\ DOMAIN recoveries' = DOMAIN recoveries \cup {Len(recoveries) + 1}
        /\ Len(recoveries') = Len(recoveries) + 1
        /\ recoveries'[Len(recoveries) + 1] = r
        /\ \A k \in DOMAIN recoveries : recoveries'[k] = recoveries[k]
    BY <1>0, Appended
  <1>2. \A k \in DOMAIN recoveries : KeptRecovery(recoveries[k], recoveries[k])
    BY DEF KeptRecovery
  <1>3. Len(recoveries) + 1 <= MaxRecoveries
    BY <1>0
  <1> QED BY <1>1, <1>2, <1>3 DEF RecoveriesKept

LEMMA RecoveriesKeep ==
    ASSUME IInv, Next
    PROVE  RecoveriesKept
  <1>0. /\ TypeOK /\ recoveries \in Seq(Recovery) /\ invitation \in Invitation
        /\ \A i \in DOMAIN replacements : replacements[i].next \in Offer
        /\ \A i \in DOMAIN recoveries :
              /\ recoveries[i] \in Recovery
              /\ recoveries[i].next # NoOffer => recoveries[i].next \in Offer
              /\ recoveries[i].offer \in Optional
    BY Domains DEF IInv, TypeOK, Recovery, Replacement, Optional
  <1>1. CASE Talk
    BY <1>0, <1>1, SameRecoveries DEF Talk, PrepareInvitation, InviteFromDelivery,
         JoinFromDelivery, AcceptDelivery, CompleteInvitation, SendChat,
         MarkInvitationFailed, ApprovePeer
  <1>2. CASE Rejoin
    <2>1. CASE BeginClose
      <3> DEFINE c == Closing(invitation.offer, FALSE, NoOffer)
      <3>1. c \in Recovery
        <4>1. invitation.offer \in Offer
          BY <1>0, <2>1, ChannelIs DEF BeginClose, IInv
        <4> QED BY <4>1, ClosingIs DEF Optional
      <3>2. Begun(c)
        BY <2>1 DEF BeginClose, Begun, Closing
      <3>3. recoveries' = Append(recoveries, c) /\ Len(recoveries) < MaxRecoveries
        BY <2>1 DEF BeginClose
      <3> HIDE DEF c
      <3> QED BY <1>0, <3>1, <3>2, <3>3, NewRecovery
    <2>2. CASE \E i \in DOMAIN recoveries : CompleteClose(i)
      <3>1. PICK i \in DOMAIN recoveries : CompleteClose(i)
        BY <2>2
      <3> DEFINE q == [recoveries[i] EXCEPT !.phase = "closed"]
      <3>2. recoveries' = [recoveries EXCEPT ![i] = q] /\ Touched(i)
        BY <3>1 DEF CompleteClose, Touched
      <3>3. KeptRecovery(recoveries[i], q)
        BY <1>0 DEF KeptRecovery, Recovery
      <3> QED BY <1>0, <3>2, <3>3, OneRecovery
    <2>3. CASE \E i \in DOMAIN recoveries, n \in Offer : PrepareRejoin(i, n)
      <3>1. PICK i \in DOMAIN recoveries, n \in Offer : PrepareRejoin(i, n)
        BY <2>3
      <3> DEFINE q == [recoveries[i] EXCEPT !.next = n]
      <3>2. recoveries' = [recoveries EXCEPT ![i] = q] /\ Touched(i)
            /\ IsSuccessor(recoveries[i].offer, n)
        BY <3>1 DEF PrepareRejoin, CanRejoin, Touched
      <3>3. KeptRecovery(recoveries[i], q)
        BY <1>0, <3>2 DEF KeptRecovery, Recovery
      <3> QED BY <1>0, <3>2, <3>3, OneRecovery
    <2>4. CASE \E i \in DOMAIN recoveries, n \in Offer : ActivateRejoin(i, n)
      <3>1. PICK i \in DOMAIN recoveries, n \in Offer : ActivateRejoin(i, n)
        BY <2>4
      <3>2. recoveries' = [k \in DOMAIN recoveries |->
               IF k \in Root(recoveries, i)..i
               THEN [recoveries[k] EXCEPT !.phase = "rejoined"] ELSE recoveries[k]]
        BY <3>1 DEF ActivateRejoin
      <3>3. DOMAIN recoveries' = DOMAIN recoveries
        BY <3>2
      <3>4. ASSUME NEW k \in DOMAIN recoveries
            PROVE  /\ KeptRecovery(recoveries[k], recoveries'[k])
                   /\ recoveries'[k] # recoveries[k] => Touched(k)
        <4>1. CASE k \in Root(recoveries, i)..i
          <5>1. recoveries'[k] = [recoveries[k] EXCEPT !.phase = "rejoined"]
            BY <3>2, <4>1
          <5>2. Touched(k)
            BY <3>1, <4>1 DEF Touched
          <5> QED BY <1>0, <5>1, <5>2 DEF KeptRecovery, Recovery
        <4>2. CASE k \notin Root(recoveries, i)..i
          BY <3>2, <4>2 DEF KeptRecovery
        <4> QED BY <4>1, <4>2
      <3>5. Len(recoveries') = Len(recoveries)
        BY <1>0, <3>2, <3>3, TalkType, RejoinType, <1>2 DEF TypeOK
      <3> QED BY <1>0, <3>3, <3>4, <3>5 DEF RecoveriesKept
    <2>5. CASE \E i \in DOMAIN recoveries : MarkRejoinFailed(i)
      <3>1. PICK i \in DOMAIN recoveries : MarkRejoinFailed(i)
        BY <2>5
      <3> DEFINE q == [recoveries[i] EXCEPT !.successor_failed = TRUE]
      <3>2. recoveries' = [recoveries EXCEPT ![i] = q] /\ Touched(i)
        BY <3>1 DEF MarkRejoinFailed, CanFailRejoin, Touched
      <3>3. KeptRecovery(recoveries[i], q)
        BY <1>0 DEF KeptRecovery, Recovery
      <3> QED BY <1>0, <3>2, <3>3, OneRecovery
    <2>6. CASE \E i \in DOMAIN recoveries : BeginRejoinRecovery(i)
      <3>1. PICK i \in DOMAIN recoveries : BeginRejoinRecovery(i)
        BY <2>6
      <3> DEFINE q == [recoveries[i] EXCEPT !.successor_failed = TRUE]
                 rs == [recoveries EXCEPT ![i] = q]
                 c == Closing(recoveries[i].next, FALSE, recoveries[i].offer)
                 m == Len(recoveries)
      <3>2. recoveries' = Append(rs, c) /\ Touched(i)
            /\ recoveries[i].next \in Offer /\ RecoveryOf(recoveries[i].next) = {}
            /\ m < MaxRecoveries
            /\ Published(recoveries[i].offer, recoveries[i].next)
        BY <1>0, <3>1 DEF BeginRejoinRecovery, CanFailRejoin, Touched
      <3>3. KeptRecovery(recoveries[i], q)
        BY <1>0 DEF KeptRecovery, Recovery
      <3>4. Begun(c)
        BY <3>2 DEF Begun, Closing
      <3>5. q \in Recovery
        BY <1>0 DEF Recovery
      <3>6. c \in Recovery
        BY <1>0, <3>2, ClosingIs
      <3> HIDE DEF q, c
      <3>7. /\ rs \in Seq(Recovery) /\ DOMAIN rs = DOMAIN recoveries /\ Len(rs) = m
            /\ rs[i] = q /\ \A k \in DOMAIN recoveries : k # i => rs[k] = recoveries[k]
        BY <1>0, <3>5, Updated
      <3> HIDE DEF rs
      <3>8. /\ DOMAIN recoveries' = DOMAIN recoveries \cup {m + 1}
            /\ m + 1 \notin DOMAIN recoveries
            /\ Len(recoveries') = m + 1 /\ recoveries'[m + 1] = c
            /\ \A k \in DOMAIN recoveries : recoveries'[k] = rs[k]
        BY <3>2, <3>6, <3>7, Appended
      <3>9. \A k \in DOMAIN recoveries : KeptRecovery(recoveries[k], recoveries[k])
        BY DEF KeptRecovery
      <3>10. m + 1 <= MaxRecoveries
        BY <1>0, <3>2, OfferAssumption DEF MaxRecoveries
      <3> QED BY <3>2, <3>3, <3>4, <3>7, <3>8, <3>9, <3>10 DEF RecoveriesKept
    <2>7. CASE \E i \in DOMAIN recoveries : BeginCancelRejoin(i)
      <3>1. PICK i \in DOMAIN recoveries : BeginCancelRejoin(i)
        BY <2>7
      <3> DEFINE cs == Append(recoveries[i].cancellations,
                              [next |-> recoveries[i].next, outcome |-> "pending"])
                 q == [recoveries[i] EXCEPT !.cancellations = cs]
      <3>2. recoveries' = [recoveries EXCEPT ![i] = q] /\ Touched(i)
        BY <3>1 DEF BeginCancelRejoin, CanCancelRejoin, Touched
      <3> HIDE DEF cs
      <3>3. KeptRecovery(recoveries[i], q)
        BY <1>0 DEF KeptRecovery, Recovery
      <3> QED BY <1>0, <3>2, <3>3, OneRecovery
    <2>8. CASE \E i \in DOMAIN recoveries : \E v \in {"cancelled", "admitted"} :
                  FinishCancelRejoin(i, v)
      <3>1. PICK i \in DOMAIN recoveries, v \in {"cancelled", "admitted"} :
               FinishCancelRejoin(i, v)
        BY <2>8
      <3> DEFINE r == recoveries[i]
                 cs == [r.cancellations EXCEPT ![Len(r.cancellations)].outcome = v]
                 nx == IF v = "cancelled" THEN NoOffer ELSE r.next
                 sf == IF v = "cancelled" THEN FALSE ELSE r.successor_failed
                 q == [r EXCEPT !.cancellations = cs, !.next = nx, !.successor_failed = sf]
      <3>2. recoveries' = [recoveries EXCEPT ![i] = q] /\ Touched(i)
        BY <3>1 DEF FinishCancelRejoin, CanCancelRejoin, Touched
      <3>3. nx \in {r.next, NoOffer}
        OBVIOUS
      <3> HIDE DEF cs, nx, sf
      <3>4. KeptRecovery(r, q)
        BY <1>0, <3>3 DEF KeptRecovery, Recovery
      <3> QED BY <1>0, <3>2, <3>4, OneRecovery
    <2> QED BY <1>2, <2>1, <2>2, <2>3, <2>4, <2>5, <2>6, <2>7, <2>8 DEF Rejoin
  <1>3. CASE Replace
    <2>1. CASE \E i \in DOMAIN replacements : BeginReplacementRecovery(i)
      <3>1. PICK i \in DOMAIN replacements : BeginReplacementRecovery(i)
        BY <2>1
      <3> DEFINE c == Closing(replacements[i].next, TRUE, NoOffer)
      <3>2. c \in Recovery
        BY <1>0, ClosingIs DEF Optional
      <3>3. Begun(c)
        BY <3>1 DEF BeginReplacementRecovery, Begun, Closing
      <3>4. recoveries' = Append(recoveries, c) /\ Len(recoveries) < MaxRecoveries
        BY <3>1 DEF BeginReplacementRecovery
      <3> HIDE DEF c
      <3> QED BY <1>0, <3>2, <3>3, <3>4, NewRecovery
    <2>2. ASSUME NEW i, NEW v, FinishCancelReplacement(i, v) \/ Cancelled(i, v)
          PROVE  UNCHANGED recoveries
      BY <2>2 DEF FinishCancelReplacement, Cancelled
    <2>3. CASE UNCHANGED recoveries
      BY <1>0, <2>3, SameRecoveries
    <2> QED BY <1>3, <2>1, <2>2, <2>3 DEF Replace, PrepareReplacement, AttestPredecessor,
         Consent, ActivateReplacement, BeginCancelReplacement,
         ObserveReplacementCancelled, MarkReplacementFailed, BeginStop, CompleteStop
  <1> QED BY <1>1, <1>2, <1>3 DEF Next

-----------------------------------------------------------------------------
(* The invariant of what is opened again, beyond the one of                *)
(* ConversationStateProofs.                                                *)

\* No channel is closed twice.
RecoveriesDistinct ==
    /\ Len(recoveries) <= MaxRecoveries
    /\ \A i, j \in DOMAIN recoveries : recoveries[i].offer = recoveries[j].offer => i = j

\* A successor is one: other channel, same endpoints.
SuccessorsOK ==
    \A i \in DOMAIN recoveries : recoveries[i].next # NoOffer =>
        IsSuccessor(recoveries[i].offer, recoveries[i].next)

\* The service knows the predecessor of what was stopped, and of a successor
\* that failed.
Under(o, p) == rows[o].verdict # "unpublished" /\ rows[o].parent = p
RowsOK ==
    /\ \A k \in DOMAIN stops : Under(stops[k].next, stops[k].previous)
    /\ \A i \in DOMAIN recoveries : recoveries[i].deferred_from # NoOffer =>
          /\ Under(recoveries[i].offer, recoveries[i].deferred_from)
          /\ IsSuccessor(recoveries[i].deferred_from, recoveries[i].offer)

\* An origin is replaced once, unless what replaced it was stopped since.
ActiveOnce ==
    \A i, j \in DOMAIN replacements :
        /\ i < j
        /\ replacements[i].phase = "active" /\ replacements[j].phase = "active"
        /\ replacements[i].previous = replacements[j].previous
        => \E k \in StopOf(replacements[i].next) : stops[k].phase = "retired"

\* The origin of the open stops is retired when one of them stopped what this
\* device had activated, and only then.
OriginRetired ==
    \A k \in OpenStops :
        stops[k].previous \in engine.retired <=> \E j \in OpenStops : stops[j].native

\* A stop of what this device had activated: it is the first that is open.
NativeOK ==
    \A i \in DOMAIN stops : stops[i].native =>
        /\ IsStable(stops[i].previous, stops[i].next)
        /\ stops[i].chain = <<>>
        /\ \E j \in DOMAIN replacements :
              /\ replacements[j].phase = "active"
              /\ replacements[j].previous = stops[i].previous
              /\ replacements[j].next = stops[i].next
        /\ stops[i].phase # "retired" =>
              /\ invitation.offer = stops[i].next
              /\ \A k \in 1..(i - 1) : stops[k].phase = "retired"

\* A chain stays as it was linked.
ChainsBridged ==
    \A k \in DOMAIN stops :
        stops[k].chain # <<>> => Bridged(stops[k], recoveries, replacements)

\* The stops that end with one replacement are retired together.
Ends(i) ==
    \E j \in DOMAIN replacements, last \in i..Len(stops) :
        /\ stops[last].next = replacements[j].restart_from
        /\ replacements[j].phase = "active"
        /\ replacements[j].previous = stops[i].previous
        /\ \A k \in i..last :
              stops[k].phase = "retired" /\ stops[k].previous = stops[i].previous
RetiredTogether ==
    \A i \in DOMAIN stops : stops[i].phase = "retired" => Ends(i)

\* No target is fenced by two stops.
StopsDisjoint ==
    \A j, k \in DOMAIN stops : j < k =>
        /\ ToSet(StopOffers(stops[k])) \cap ToSet(StopOffers(stops[j])) = {}
        /\ stops[k].next \notin ToSet(StopOffers(stops[j]))

SInv ==
    /\ RecoveriesDistinct
    /\ SuccessorsOK
    /\ RowsOK
    /\ ActiveOnce
    /\ OriginRetired
    /\ NativeOK
    /\ ChainsBridged
    /\ RetiredTogether
    /\ StopsDisjoint

-----------------------------------------------------------------------------
(* The recoveries and the rows of the service.                             *)

LEMMA DistinctStep ==
    ASSUME IInv, TypeOK', RecoveriesDistinct, RecoveriesKept
    PROVE  RecoveriesDistinct'
  <1>0. /\ Len(recoveries) \in Nat /\ Len(recoveries') \in Nat /\ MaxRecoveries \in Nat
        /\ DOMAIN recoveries' = 1..Len(recoveries')
    BY OfferAssumption DEF IInv, TypeOK, MaxRecoveries
  <1>1. Len(recoveries') <= MaxRecoveries
    BY <1>0 DEF RecoveriesKept, RecoveriesDistinct
  <1>2. \A k \in DOMAIN recoveries :
           k \in DOMAIN recoveries' /\ recoveries'[k].offer = recoveries[k].offer
    BY DEF RecoveriesKept, KeptRecovery
  <1>3. \A k \in DOMAIN recoveries' \ DOMAIN recoveries :
           /\ k = Len(recoveries) + 1
           /\ \A i \in DOMAIN recoveries : recoveries[i].offer # recoveries'[k].offer
    BY DEF RecoveriesKept, Begun, RecoveryOf
  <1> QED BY <1>1, <1>2, <1>3 DEF RecoveriesDistinct

LEMMA SuccessorsStep ==
    ASSUME SuccessorsOK, RecoveriesKept
    PROVE  SuccessorsOK'
  <1>1. \A k \in DOMAIN recoveries : KeptRecovery(recoveries[k], recoveries'[k])
    BY DEF RecoveriesKept
  <1>2. \A k \in DOMAIN recoveries' \ DOMAIN recoveries : recoveries'[k].next = NoOffer
    BY DEF RecoveriesKept, Begun
  <1> QED BY <1>1, <1>2 DEF SuccessorsOK, KeptRecovery

\* The service never forgets a channel, its predecessor or what was decided.
RowsKept ==
    \A o \in Offer : rows[o].verdict # "unpublished" =>
        /\ rows'[o].verdict # "unpublished" /\ rows'[o].parent = rows[o].parent
        /\ rows[o].verdict \in {"admitted", "cancelled"} =>
              rows'[o].verdict = rows[o].verdict

LEMMA AnswersKept ==
    ASSUME TypeOK, NEW p, NEW n \in Offer,
           NEW v \in {"waiting", "admitted", "cancelled"}, Answers(p, n, v)
    PROVE  /\ RowsKept
           /\ rows'[n].verdict # "unpublished" /\ rows'[n].parent = p
  <1>1. rows \in [Offer -> Row]
    BY DEF TypeOK
  <1>2. /\ rows'[n] = [parent |-> p, verdict |-> v]
        /\ \A o \in Offer : o # n => rows'[o] = rows[o]
        /\ rows[n].verdict # "unpublished" => rows[n].parent = p
        /\ rows[n].verdict \in {"unpublished", "waiting", v}
    BY <1>1 DEF Answers
  <1> QED BY <1>2 DEF RowsKept

LEMMA PublishedKept ==
    ASSUME TypeOK, NEW p, NEW n \in Offer, Published(p, n)
    PROVE  /\ RowsKept
           /\ rows'[n].verdict # "unpublished" /\ rows'[n].parent = p
  BY AnswersKept DEF Published

LEMMA RowsKeep ==
    ASSUME IInv, Next
    PROVE  RowsKept
  <1>0. /\ TypeOK
        /\ \A i \in DOMAIN replacements : replacements[i].next \in Offer
        /\ \A i \in DOMAIN recoveries :
              recoveries[i].next # NoOffer => recoveries[i].next \in Offer
    BY Domains DEF IInv, Recovery, Replacement, Optional
  <1>1. UNCHANGED rows => RowsKept
    BY DEF RowsKept
  <1>2. CASE Talk
    BY <1>0, <1>1, <1>2, PublishedKept DEF Talk, PrepareInvitation, InviteFromDelivery,
         JoinFromDelivery, AcceptDelivery, CompleteInvitation, SendChat,
         MarkInvitationFailed, ApprovePeer
  <1>3. CASE Rejoin
    <2>1. CASE BeginClose \/ \E i \in DOMAIN recoveries :
                  \/ CompleteClose(i) \/ BeginCancelRejoin(i)
                  \/ \E n \in Offer : PrepareRejoin(i, n)
      BY <1>1, <2>1 DEF BeginClose, CompleteClose, BeginCancelRejoin, PrepareRejoin
    <2>2. CASE \E i \in DOMAIN recoveries, n \in Offer : ActivateRejoin(i, n)
      BY <1>0, <2>2, AnswersKept DEF ActivateRejoin
    <2>3. CASE \E i \in DOMAIN recoveries : MarkRejoinFailed(i) \/ BeginRejoinRecovery(i)
      BY <1>0, <2>3, PublishedKept DEF MarkRejoinFailed, BeginRejoinRecovery, CanFailRejoin
    <2>4. CASE \E i \in DOMAIN recoveries : \E c \in {"cancelled", "admitted"} :
                  FinishCancelRejoin(i, c)
      BY <1>0, <2>4, AnswersKept DEF FinishCancelRejoin, CanCancelRejoin
    <2> QED BY <1>3, <2>1, <2>2, <2>3, <2>4 DEF Rejoin
  <1>4. CASE Replace
    <2>1. CASE \/ \E p, n \in Offer : PrepareReplacement(p, n)
               \/ \E i \in DOMAIN replacements :
                     AttestPredecessor(i) \/ BeginCancelReplacement(i)
               \/ \E i \in DOMAIN stops : CompleteStop(i)
      BY <1>1, <2>1 DEF PrepareReplacement, AttestPredecessor, BeginCancelReplacement,
           CompleteStop
    <2>2. CASE \E i \in DOMAIN replacements : Consent(i)
      BY <1>0, <2>2, PublishedKept DEF Consent
    <2>3. CASE \E i \in DOMAIN replacements : ActivateReplacement(i)
      <3>1. PICK i \in DOMAIN replacements :
               Answers(replacements[i].previous, replacements[i].next, "admitted")
        BY <2>3 DEF ActivateReplacement
      <3> QED BY <1>0, <3>1, AnswersKept
    <2>4. CASE \E i \in DOMAIN replacements : \E c \in {"cancelled", "admitted"} :
                  FinishCancelReplacement(i, c)
      <3>1. PICK i \in DOMAIN replacements, c \in {"cancelled", "admitted"} :
               Answers(replacements[i].previous, replacements[i].next, c)
        BY <2>4 DEF FinishCancelReplacement
      <3> QED BY <1>0, <3>1, AnswersKept
    <2>5. CASE \E i \in DOMAIN replacements : ObserveReplacementCancelled(i)
                  \/ MarkReplacementFailed(i) \/ BeginReplacementRecovery(i)
      <3>1. PICK i \in DOMAIN replacements, c \in {"cancelled", "admitted"} :
               Answers(replacements[i].previous, replacements[i].next, c)
        BY <2>5 DEF ObserveReplacementCancelled, MarkReplacementFailed,
             BeginReplacementRecovery
      <3> QED BY <1>0, <3>1, AnswersKept
    <2>6. CASE \E p, n \in Offer : BeginStop(p, n)
      BY <1>0, <2>6, AnswersKept DEF BeginStop
    <2> QED BY <1>4, <2>1, <2>2, <2>3, <2>4, <2>5, <2>6 DEF Replace
  <1> QED BY <1>2, <1>3, <1>4 DEF Next

LEMMA RowsStep ==
    ASSUME IInv, Next, TypeOK', RowsOK, SuccessorsOK, RecoveriesKept
    PROVE  RowsOK'
  <1>0. /\ TypeOK /\ RowsKept
        /\ \A k \in DOMAIN stops : stops[k].next \in Offer
        /\ \A i \in DOMAIN recoveries : recoveries[i].offer \in Offer
        /\ \A i \in DOMAIN recoveries' : recoveries'[i].offer \in Offer
    <2>1. \A i \in DOMAIN recoveries' : recoveries'[i] \in Recovery
      BY DEF TypeOK
    <2>2. \A r \in Recovery : r.offer \in Offer
      BY DEF Recovery
    <2> QED BY <2>1, <2>2, RowsKeep, Domains DEF IInv, Stop
  <1>1. \A o \in Offer : \A p : Under(o, p) => Under(o, p)'
    BY <1>0 DEF Under, RowsKept
  <1>2. ASSUME NEW k \in DOMAIN stops' PROVE Under(stops[k].next, stops[k].previous)'
    <2>1. CASE k \in DOMAIN stops
      <3>1. /\ stops'[k].next = stops[k].next /\ stops'[k].previous = stops[k].previous
            /\ Under(stops[k].next, stops[k].previous)
        BY <2>1, NextKeeps, StopStays DEF KeptStop, RowsOK
      <3> QED BY <1>0, <1>1, <2>1, <3>1 DEF Under
    <2>2. CASE k \notin DOMAIN stops
      <3>1. PICK p \in Offer, n \in Offer : BeginStop(p, n)
        BY <1>2, <2>2, NextKeeps DEF StopsKept
      <3>2. PICK s \in Stop : stops' = Append(stops, s) /\ s.previous = p /\ s.next = n
        BY <3>1, BegunStop
      <3>3. stops'[k] = s
        BY <1>0, <1>2, <2>2, <3>2 DEF TypeOK
      <3>4. rows'[n].verdict # "unpublished" /\ rows'[n].parent = p
        BY <1>0, <3>1, AnswersKept DEF BeginStop
      <3> QED BY <3>2, <3>3, <3>4 DEF Under
    <2> QED BY <2>1, <2>2
  <1>3. ASSUME NEW i \in DOMAIN recoveries', recoveries'[i].deferred_from # NoOffer
        PROVE  /\ Under(recoveries[i].offer, recoveries[i].deferred_from)'
               /\ IsSuccessor(recoveries'[i].deferred_from, recoveries'[i].offer)
    <2>1. CASE i \in DOMAIN recoveries
      <3>1. KeptRecovery(recoveries[i], recoveries'[i])
        BY <2>1 DEF RecoveriesKept
      <3>2. /\ Under(recoveries[i].offer, recoveries[i].deferred_from)
            /\ IsSuccessor(recoveries[i].deferred_from, recoveries[i].offer)
        BY <1>3, <2>1, <3>1 DEF KeptRecovery, RowsOK
      <3> QED BY <1>0, <1>1, <2>1, <3>1, <3>2 DEF KeptRecovery, Under
    <2>2. CASE i \notin DOMAIN recoveries
      <3>1. PICK k \in DOMAIN recoveries :
               /\ recoveries[k].offer = recoveries'[i].deferred_from
               /\ recoveries[k].next = recoveries'[i].offer
               /\ Published(recoveries'[i].deferred_from, recoveries'[i].offer)
        BY <1>3, <2>2 DEF RecoveriesKept, Begun
      <3>2. recoveries[k].next # NoOffer
        BY <1>0, <3>1, OfferAssumption
      <3>3. IsSuccessor(recoveries[k].offer, recoveries[k].next)
        BY <3>2 DEF SuccessorsOK
      <3>4. /\ rows'[recoveries'[i].offer].verdict # "unpublished"
            /\ rows'[recoveries'[i].offer].parent = recoveries'[i].deferred_from
        BY <1>0, <3>1, PublishedKept
      <3> QED BY <3>1, <3>3, <3>4 DEF Under
    <2> QED BY <2>1, <2>2
  <1> QED BY <1>2, <1>3 DEF RowsOK

-----------------------------------------------------------------------------
(* The chains that stops bridge.                                           *)

LEMMA BridgeOffers ==
    ASSUME NEW rs, NEW i \in Nat, NEW j \in 1..i,
           NEW p, NEW n, NEW chain, NEW reps, BridgeAt(p, n, chain, rs, reps, i, j)
    PROVE  \A k \in j..i : rs[k].offer \in ToSet(chain)
  <1>1. chain = [k \in 1..(i - j + 1) |-> rs[j + k - 1].offer]
    BY DEF BridgeAt
  <1> SUFFICES ASSUME NEW k \in j..i PROVE rs[k].offer \in ToSet(chain)
    OBVIOUS
  <1>2. k - j + 1 \in 1..(i - j + 1) /\ j + (k - j + 1) - 1 = k
    OBVIOUS
  <1>3. k - j + 1 \in DOMAIN chain /\ chain[k - j + 1] = rs[k].offer
    BY <1>1, <1>2
  <1> QED BY <1>3 DEF ToSet

\* A rejoin is of another chain than the one that a stop bridges.
LEMMA RejoinElsewhere ==
    ASSUME TypeOK, NEW i \in DOMAIN recoveries, NEW j \in 1..i, IsRoot(recoveries, i, j),
           NEW s \in ToSet(stops), Bridged(s, recoveries, replacements),
           BridgeAt(s.previous, s.next, s.chain, recoveries, replacements, i, j),
           NEW x \in DOMAIN recoveries, NEW n \in Offer, ActivateRejoin(x, n)
    PROVE  /\ Root(recoveries, x) \in 1..x
           /\ Root(recoveries, x) # j
           /\ \A k \in j..i : k \notin Root(recoveries, x)..x
  <1>0. i \in Nat /\ x \in Nat
    BY Domains
  <1>1. ChainOK(recoveries, x) /\ ~RecoveryStopped(recoveries[x].offer)
    BY DEF ActivateRejoin, CanRejoin
  <1>2. PICK g \in 1..x : g = Root(recoveries, x) /\ IsRoot(recoveries, x, g)
    BY <1>0, <1>1, RootIs DEF ChainOK
  <1>3. \A k \in j..i : RecoveryStopped(recoveries[k].offer)
    BY <1>0, BridgeOffers DEF RecoveryStopped
  <1>4. g # j
    <2>1. SUFFICES ASSUME g = j PROVE FALSE
      OBVIOUS
    <2>2. x \notin j..i
      BY <1>1, <1>3
    <2>3. i + 1 \in (g + 1)..x /\ (i + 1) - 1 = i
      BY <1>0, <1>2, <2>1, <2>2
    <2>4. recoveries[i].successor_failed
      BY <1>1, <1>2, <2>3 DEF ChainOK
    <2> QED BY <2>4 DEF BridgeAt
  <1>5. \A k \in j..i : k \in Nat
    BY <1>0
  <1> QED BY <1>0, <1>2, <1>4, <1>5, RootsMeet

\* While it waits for its rejoin, a replacement stays abandoned.
LEMMA StaysAbandoned ==
    ASSUME IInv, Next, NEW a \in DOMAIN replacements,
           replacements[a].phase = "abandoned",
           \A x \in DOMAIN recoveries, n \in Offer :
              ActivateRejoin(x, n) => a \notin Deferred(x)
    PROVE  /\ a \in DOMAIN replacements'
           /\ replacements'[a].phase = "abandoned"
           /\ replacements'[a].previous = replacements[a].previous
           /\ replacements'[a].next = replacements[a].next
  <1>0. replacements \in Seq(Replacement)
    BY DEF IInv, TypeOK
  <1>1. CASE \E p, n \in Offer : PrepareReplacement(p, n)
    <2>1. PICK q : replacements' = Append(replacements, q)
      BY <1>1 DEF PrepareReplacement
    <2>2. a \in DOMAIN replacements' /\ replacements'[a] = replacements[a]
      BY <1>0, <2>1
    <2> QED BY <2>2
  <1>2. CASE ReplacementsKept
    <2>1. a \in DOMAIN replacements'
          /\ KeptReplacement(replacements[a], replacements'[a], OpenStops')
      BY <1>2 DEF ReplacementsKept
    <2>2. CASE ~Activates
      BY <2>1, <2>2, OthersReplace DEF KeptReplacement
    <2>3. CASE \E x \in DOMAIN recoveries, n \in Offer : ActivateRejoin(x, n)
      <3>1. replacements'[a] = replacements[a]
        BY <2>3 DEF ActivateRejoin
      <3> QED BY <2>1, <3>1
    <2>4. CASE \E x \in DOMAIN replacements : ActivateReplacement(x)
      <3>1. PICK x \in DOMAIN replacements :
               /\ replacements[x].phase = "consented"
               /\ replacements' = [replacements EXCEPT ![x].phase = "active"]
        BY <2>4 DEF ActivateReplacement, Pending
      <3>2. replacements'[a] = replacements[a]
        BY <1>0, <3>1
      <3> QED BY <2>1, <3>2
    <2> QED BY <2>2, <2>3, <2>4 DEF Activates
  <1> QED BY <1>1, <1>2, NextKeeps

LEMMA BridgeKept ==
    ASSUME IInv, Next, TypeOK', RecoveriesDistinct, RecoveriesKept, RecoveriesDistinct',
           NEW s \in ToSet(stops), Bridged(s, recoveries, replacements)
    PROVE  Bridged(s, recoveries', replacements')
  <1>0. /\ TypeOK /\ DOMAIN recoveries \subseteq Nat \ {0}
        /\ \A x \in DOMAIN recoveries : \A y \in 1..x : y \in DOMAIN recoveries
        /\ \A x \in DOMAIN recoveries : x \in Nat
    BY Domains DEF IInv
  <1>1. PICK i \in DOMAIN recoveries : \E y \in 1..i :
            /\ IsRoot(recoveries, i, y)
            /\ BridgeAt(s.previous, s.next, s.chain, recoveries, replacements, i, y)
    BY <1>0, BridgeIs DEF Bridged
  <1>2. PICK j \in 1..i :
            /\ IsRoot(recoveries, i, j)
            /\ BridgeAt(s.previous, s.next, s.chain, recoveries, replacements, i, j)
    BY <1>1
  <1>3. \A k \in j..i : k \in DOMAIN recoveries
    BY <1>0, <1>1, <1>2
  <1>4. \A k \in j..i : RecoveryStopped(recoveries[k].offer)
    BY <1>0, <1>1, <1>2, BridgeOffers DEF RecoveryStopped
  <1>5. \A x \in DOMAIN recoveries, n \in Offer : ActivateRejoin(x, n) =>
            /\ Root(recoveries, x) \in 1..x
            /\ Root(recoveries, x) # j
            /\ \A k \in j..i : k \notin Root(recoveries, x)..x
    BY <1>0, <1>1, <1>2, RejoinElsewhere
  <1>6. \A k \in j..i : recoveries'[k] = recoveries[k]
    <2> TAKE k \in j..i
    <2>1. recoveries[k].phase = "closed"
      BY <1>2 DEF BridgeAt
    <2>2. ~Touched(k)
      BY <1>3, <1>4, <1>5, <2>1 DEF Touched
    <2> QED BY <1>3, <2>2 DEF RecoveriesKept
  <1>7. \E r \in ToSet(replacements') :
            r.phase = "abandoned" /\ r.previous = s.previous /\ r.next = s.next
    <2>1. PICK a \in DOMAIN replacements :
             /\ replacements[a].phase = "abandoned"
             /\ replacements[a].previous = s.previous /\ replacements[a].next = s.next
      <3>1. PICK r \in ToSet(replacements) :
               r.phase = "abandoned" /\ r.previous = s.previous /\ r.next = s.next
        BY <1>2 DEF BridgeAt
      <3>2. \E a \in DOMAIN replacements : r = replacements[a]
        BY DEF ToSet
      <3> QED BY <3>1, <3>2
    <2>2. j \in DOMAIN recoveries /\ recoveries[j].offer = s.next
      BY <1>0, <1>1, <1>2 DEF BridgeAt
    <2>3. ASSUME NEW x \in DOMAIN recoveries, NEW n \in Offer, ActivateRejoin(x, n),
                 a \in Deferred(x)
          PROVE  FALSE
      <3>1. replacements[a].next = recoveries[Root(recoveries, x)].offer
        BY <2>3 DEF Deferred, ReplacementOf
      <3>2. Root(recoveries, x) \in DOMAIN recoveries /\ Root(recoveries, x) # j
        BY <1>0, <1>5, <2>3
      <3> QED BY <2>1, <2>2, <3>1, <3>2 DEF RecoveriesDistinct
    <2>4. /\ a \in DOMAIN replacements'
          /\ replacements'[a].phase = "abandoned"
          /\ replacements'[a].previous = s.previous
          /\ replacements'[a].next = s.next
      BY <2>1, <2>3, StaysAbandoned
    <2> QED BY <2>4 DEF ToSet
  <1>8. i \in DOMAIN recoveries' /\ Len(recoveries') <= MaxRecoveries
    BY <1>1 DEF RecoveriesKept, RecoveriesDistinct
  <1>9. i \in j..i /\ j \in j..i /\ \A k \in (j + 1)..i : k \in j..i /\ k - 1 \in j..i
    BY <1>0, <1>1, <1>2
  <1>10. IsRoot(recoveries', i, j)
    BY <1>2, <1>6, <1>9 DEF IsRoot
  <1>11. BridgeAt(s.previous, s.next, s.chain, recoveries', replacements', i, j)
    <2>1. /\ s.chain # <<>> /\ Len(s.chain) <= MaxRecoveries /\ IsInjective(s.chain)
          /\ recoveries'[i].offer = Last(s.chain)
          /\ recoveries'[i].next = NoOffer /\ ~recoveries'[i].successor_failed
          /\ recoveries'[j].replacement /\ recoveries'[j].offer = s.next
      BY <1>2, <1>6, <1>9 DEF BridgeAt
    <2>2. s.chain = [k \in 1..(i - j + 1) |-> recoveries'[j + k - 1].offer]
      <3>1. s.chain = [k \in 1..(i - j + 1) |-> recoveries[j + k - 1].offer]
        BY <1>2 DEF BridgeAt
      <3>2. \A k \in 1..(i - j + 1) : j + k - 1 \in j..i
        BY <1>0, <1>1, <1>2
      <3> QED BY <1>6, <3>1, <3>2
    <2>3. \A k \in (j + 1)..i :
             /\ recoveries'[k - 1].offer = recoveries'[k].deferred_from
             /\ recoveries'[k - 1].successor_failed
             /\ recoveries'[k - 1].next = recoveries'[k].offer
      <3> TAKE k \in (j + 1)..i
      <3>1. /\ recoveries[k - 1].offer = recoveries[k].deferred_from
            /\ recoveries[k - 1].successor_failed
            /\ recoveries[k - 1].next = recoveries[k].offer
        BY <1>2 DEF BridgeAt
      <3>2. recoveries'[k] = recoveries[k] /\ recoveries'[k - 1] = recoveries[k - 1]
        BY <1>6, <1>9
      <3> QED BY <3>1, <3>2
    <2>4. \A k \in j..i :
          /\ recoveries'[k].phase = "closed"
          /\ k > j => ~recoveries'[k].replacement
          /\ recoveries'[k].offer.own = s.next.own
          /\ recoveries'[k].offer.peer = s.next.peer
          /\ recoveries'[k].offer # s.previous
          /\ \A c \in ToSet(recoveries'[k].cancellations) :
                \/ c.outcome = "cancelled"
                \/ /\ c.outcome = "admitted"
                   /\ k < i /\ c.next = recoveries'[k + 1].offer
      <3> TAKE k \in j..i
      <3>1. recoveries'[k] = recoveries[k]
        BY <1>6
      <3>2. k < i => k + 1 \in j..i
        BY <1>0, <1>1, <1>2
      <3>3. k < i => recoveries'[k + 1] = recoveries[k + 1]
        BY <1>6, <3>2
      <3> QED BY <1>2, <3>1, <3>3 DEF BridgeAt
    <2> QED BY <1>7, <1>8, <2>1, <2>2, <2>3, <2>4 DEF BridgeAt
  <1>12. DOMAIN recoveries' \subseteq Nat
    BY DEF TypeOK
  <1> QED BY <1>0, <1>1, <1>8, <1>10, <1>11, <1>12, IsBridge DEF Bridged

-----------------------------------------------------------------------------
(* A new stop.                                                             *)

\* Two replacements that are active with one origin: the one that was stopped
\* was retired.
LEMMA TwoActive ==
    ASSUME IInv, ActiveOnce, NEW a \in DOMAIN replacements, NEW b \in DOMAIN replacements,
           replacements[a].phase = "active", replacements[b].phase = "active",
           replacements[a].previous = replacements[b].previous, a # b
    PROVE  \/ \E k \in StopOf(replacements[a].next) : stops[k].phase = "retired"
           \/ \E k \in StopOf(replacements[b].next) : stops[k].phase = "retired"
  <1>1. a \in Nat /\ b \in Nat
    BY Domains DEF IInv
  <1>2. a < b \/ b < a
    BY <1>1
  <1> QED BY <1>2 DEF ActiveOnce

LEMMA OneStop ==
    ASSUME IInv, NEW j \in DOMAIN stops, NEW k \in DOMAIN stops, stops[j].next = stops[k].next
    PROVE  j = k
  <1>1. j \in Nat /\ k \in Nat
    BY Domains DEF IInv
  <1>2. ~(j < k) /\ ~(k < j)
    BY DEF IInv, StopsOrdered
  <1> QED BY <1>1, <1>2

\* Nothing else is stopped when this device's own replacement is.
LEMMA NativeAlone ==
    ASSUME IInv, ActiveOnce, OriginRetired, NativeOK,
           NEW p \in Offer, NEW n \in Offer, BeginStop(p, n),
           NEW a \in DOMAIN replacements, replacements[a].phase = "active",
           replacements[a].previous = p, replacements[a].next = n
    PROVE  OpenStops = {}
  <1> DEFINE inherited == {k \in OpenStops : stops[k].native /\ stops[k].previous = p}
  <1>1. /\ StopOf(n) = {} /\ StoppedFrom(p)
        /\ inherited = {} => CheckActivatedOrigin(engine, p, n)
    <2>1. \E r \in ToSet(replacements) : r.phase = "active" /\ r.previous = p /\ r.next = n
      BY DEF ToSet
    <2> QED BY <2>1 DEF BeginStop
  <1>2. inherited = {}
    <2>1. SUFFICES ASSUME NEW k \in OpenStops, stops[k].native, stops[k].previous = p
                   PROVE  FALSE
      OBVIOUS
    <2>2. k \in DOMAIN stops /\ stops[k].phase # "retired"
      BY DEF OpenStops
    <2>3. PICK b \in DOMAIN replacements :
             /\ replacements[b].phase = "active"
             /\ replacements[b].previous = p /\ replacements[b].next = stops[k].next
      BY <2>1, <2>2 DEF NativeOK
    <2>4. \A h \in StopOf(replacements[b].next) : stops[h].phase # "retired"
      BY <2>2, <2>3, OneStop DEF StopOf
    <2>5. a # b
      BY <1>1, <2>2, <2>3 DEF StopOf
    <2> QED BY <1>1, <2>3, <2>4, <2>5, TwoActive
  <1>3. p \in engine.retired
    BY <1>1, <1>2 DEF CheckActivatedOrigin
  <1>4. \A k \in OpenStops : stops[k].previous = p
    BY <1>1 DEF StoppedFrom
  <1> QED BY <1>2, <1>3, <1>4 DEF OriginRetired

\* A chain that is linked shares nothing with what is stopped already.
LEMMA LinkApart ==
    ASSUME IInv, RecoveriesDistinct, RowsOK, ChainsBridged,
           NEW p, NEW n, StopOf(n) = {}, Link(p, n) # <<>>, NEW k \in DOMAIN stops
    PROVE  ToSet(Link(p, n)) \cap ToSet(StopOffers(stops[k])) = {}
  <1>0. /\ TypeOK /\ stops[k].next # n
        /\ DOMAIN recoveries \subseteq Nat \ {0} /\ DOMAIN recoveries \subseteq Nat
        /\ \A x \in DOMAIN recoveries : \A y \in 1..x : y \in DOMAIN recoveries
    BY Domains DEF IInv, StopOf
  <1>1. BridgeOK(p, n, Link(p, n), recoveries, replacements)
    BY <1>0, LinkIs
  <1>2. PICK i \in DOMAIN recoveries : \E y \in 1..i :
            /\ IsRoot(recoveries, i, y)
            /\ BridgeAt(p, n, Link(p, n), recoveries, replacements, i, y)
    BY <1>0, <1>1, BridgeIs
  <1>3. PICK j \in 1..i :
            /\ IsRoot(recoveries, i, j)
            /\ BridgeAt(p, n, Link(p, n), recoveries, replacements, i, j)
    BY <1>2
  <1>4. \A y : DOMAIN [z \in 1..y |-> recoveries[j + z - 1].offer] = 1..y
    OBVIOUS
  <1>5. ASSUME NEW o \in ToSet(Link(p, n))
        PROVE  \E x \in j..i : recoveries[x].offer = o
    <2>1. Link(p, n) = [z \in 1..(i - j + 1) |-> recoveries[j + z - 1].offer]
      BY <1>3 DEF BridgeAt
    <2>2. PICK z \in 1..(i - j + 1) : recoveries[j + z - 1].offer = o
      BY <1>5, <2>1 DEF ToSet
    <2>3. j + z - 1 \in j..i
      BY <1>0, <1>2, <1>3
    <2> QED BY <2>2, <2>3
  <1>6. SUFFICES ASSUME NEW x \in j..i, recoveries[x].offer \in ToSet(StopOffers(stops[k]))
                 PROVE  FALSE
    BY <1>5
  <1>7. x \in DOMAIN recoveries /\ x \in Nat /\ i \in Nat
    BY <1>0, <1>2, <1>3, <1>6
  <1>8. CASE stops[k].chain = <<>>
    <2>0. stops[k] \in Stop
      BY <1>0, Domains
    <2>1. recoveries[x].offer = stops[k].next
      BY <1>6, <1>8, <2>0, StopOffersAre
    <2>2. x # j
      BY <1>0, <1>3, <2>1 DEF BridgeAt
    <2>3. x \in (j + 1)..i
      BY <1>3, <1>6, <1>7, <2>2
    <2>4. recoveries[x].deferred_from # NoOffer
      BY <1>3, <2>3 DEF IsRoot
    <2>5. /\ rows[stops[k].next].parent = recoveries[x].deferred_from
          /\ IsSuccessor(recoveries[x].deferred_from, stops[k].next)
      BY <1>7, <2>1, <2>4 DEF RowsOK, Under
    <2>6. /\ rows[stops[k].next].parent = stops[k].previous
          /\ IsReplacement(stops[k].previous, stops[k].next)
      BY DEF RowsOK, Under, IInv, StopsApart
    <2> QED BY <2>5, <2>6 DEF IsSuccessor, IsReplacement
  <1>9. CASE stops[k].chain # <<>>
    <2> DEFINE s == stops[k]
    <2>1. Bridged(s, recoveries, replacements)
      BY <1>9 DEF ChainsBridged
    <2>2. PICK h \in DOMAIN recoveries : \E y \in 1..h :
              /\ IsRoot(recoveries, h, y)
              /\ BridgeAt(s.previous, s.next, s.chain, recoveries, replacements, h, y)
      BY <1>0, <2>1, BridgeIs DEF Bridged
    <2>3. PICK g \in 1..h :
              /\ IsRoot(recoveries, h, g)
              /\ BridgeAt(s.previous, s.next, s.chain, recoveries, replacements, h, g)
      BY <2>2
    <2>4. recoveries[x].offer \in ToSet(s.chain)
      BY <1>6, <1>9 DEF StopOffers
    <2>5. \E y \in g..h : recoveries[y].offer = recoveries[x].offer
      <3>1. s.chain = [z \in 1..(h - g + 1) |-> recoveries[g + z - 1].offer]
        BY <2>3 DEF BridgeAt
      <3>2. PICK z \in 1..(h - g + 1) : recoveries[g + z - 1].offer = recoveries[x].offer
        BY <2>4, <3>1 DEF ToSet
      <3>3. g + z - 1 \in g..h
        BY <1>0, <2>2, <2>3
      <3> QED BY <3>2, <3>3
    <2>6. PICK y \in g..h : recoveries[y].offer = recoveries[x].offer
      BY <2>5
    <2>7. y \in DOMAIN recoveries /\ h \in Nat /\ y \in Nat
      BY <1>0, <2>2, <2>3, <2>6
    <2>8. y = x
      BY <1>7, <2>6, <2>7 DEF RecoveriesDistinct
    <2>9. g = j
      BY <1>3, <1>6, <1>7, <2>3, <2>6, <2>7, <2>8, RootsMeet
    <2> QED BY <1>0, <1>3, <2>3, <2>9 DEF BridgeAt
  <1> QED BY <1>8, <1>9

LEMMA NewStop ==
    ASSUME IInv, SInv, NEW p \in Offer, NEW n \in Offer, BeginStop(p, n)
    PROVE  \E s \in Stop :
              /\ stops' = Append(stops, s)
              /\ s.previous = p /\ s.next = n /\ s.phase = "stopping"
              /\ s.native =>
                    /\ OpenStops = {} /\ p \in engine.retired
                    /\ IsStable(p, n) /\ s.chain = <<>> /\ invitation.offer = n
                    /\ \E j \in DOMAIN replacements :
                          /\ replacements[j].phase = "active"
                          /\ replacements[j].previous = p /\ replacements[j].next = n
              /\ ~s.native =>
                    (p \in engine.retired <=> \E k \in OpenStops : stops[k].native)
              /\ s.chain # <<>> => Bridged(s, recoveries, replacements)
              /\ StoppedFrom(p)
              /\ \A k \in DOMAIN stops :
                    /\ ToSet(StopOffers(s)) \cap ToSet(StopOffers(stops[k])) = {}
                    /\ n \notin ToSet(StopOffers(stops[k]))
              /\ UNCHANGED <<invitation, recoveries, replacements, engine>>
  <1>0. TypeOK
    BY DEF IInv
  <1> DEFINE activated == \E r \in ToSet(replacements) :
                              r.phase = "active" /\ r.previous = p /\ r.next = n
             inherited == {k \in OpenStops : stops[k].native /\ stops[k].previous = p}
             c == Link(p, n)
             s == [previous |-> p, next |-> n, phase |-> "stopping",
                   native |-> activated, chain |-> c]
  <1>1. /\ stops' = Append(stops, s)
        /\ StopOf(n) = {} /\ StoppedFrom(p)
        /\ n \notin AllStopOffers
        /\ activated => IsStable(p, n) /\ invitation # NoInvitation
        /\ UNCHANGED <<invitation, recoveries, replacements, engine>>
    BY DEF BeginStop
  <1>2. /\ inherited # {} =>
              \A k \in inherited : CheckActivatedOrigin(engine, p, stops[k].next)
        /\ inherited = {} /\ activated => CheckActivatedOrigin(engine, p, n)
        /\ inherited = {} /\ ~activated => CheckReplacementOrigin(engine, p)
    BY DEF BeginStop
  <1>3. activated /\ p \notin StoppedOrigins => invitation.offer = n
    BY <1>1 DEF BeginStop
  <1>4. c \in Seq(Offer) /\ (c # <<>> => BridgeOK(p, n, c, recoveries, replacements))
    BY <1>0, LinkIs
  <1>5. activated => \E j \in DOMAIN replacements :
            /\ replacements[j].phase = "active"
            /\ replacements[j].previous = p /\ replacements[j].next = n
    BY DEF ToSet
  <1>6. activated => OpenStops = {}
    BY <1>5, NativeAlone DEF SInv
  <1>7. activated => c = <<>>
    <2>1. SUFFICES ASSUME activated, c # <<>> PROVE FALSE
      OBVIOUS
    <2>2. PICK r \in ToSet(replacements) : r.phase = "abandoned" /\ r.next = n
      BY <1>4, <2>1 DEF BridgeOK
    <2>3. PICK b \in DOMAIN replacements : r = replacements[b]
      BY DEF ToSet
    <2>4. PICK a \in DOMAIN replacements :
             replacements[a].phase = "active" /\ replacements[a].next = n
      BY <1>5, <2>1
    <2>5. a = b
      BY <2>2, <2>3, <2>4 DEF IInv, ReplacementsOpen, ReplacementOf
    <2> QED BY <2>2, <2>3, <2>4, <2>5
  <1> HIDE DEF c
  <1>8. s \in Stop
    BY <1>4 DEF Stop
  <1>9. /\ s.previous = p /\ s.next = n /\ s.phase = "stopping"
        /\ s.native = activated /\ s.chain = c
    OBVIOUS
  <1>10. activated => p \in engine.retired /\ invitation.offer = n
    <2>1. OpenStops = {} => inherited = {} /\ StoppedOrigins = {}
      BY DEF StoppedOrigins
    <2> QED BY <1>2, <1>3, <1>6, <2>1 DEF CheckActivatedOrigin
  <1>11. ~activated => (p \in engine.retired <=> \E k \in OpenStops : stops[k].native)
    <2>1. CASE inherited = {}
      <3>1. ~\E k \in OpenStops : stops[k].native
        BY <1>1, <2>1 DEF StoppedFrom
      <3>2. ~activated => p \notin engine.retired
        BY <1>2, <2>1 DEF CheckReplacementOrigin
      <3> QED BY <3>1, <3>2
    <2>2. CASE inherited # {}
      <3>1. PICK k \in inherited : CheckActivatedOrigin(engine, p, stops[k].next)
        BY <1>2, <2>2
      <3> QED BY <3>1 DEF CheckActivatedOrigin
    <2> QED BY <2>1, <2>2
  <1> HIDE DEF activated, s
  <1>12. \A k \in DOMAIN stops : n \notin ToSet(StopOffers(stops[k]))
    BY <1>1 DEF AllStopOffers, ToSet
  <1>13. \A k \in DOMAIN stops : ToSet(StopOffers(s)) \cap ToSet(StopOffers(stops[k])) = {}
    <2>1. CASE c = <<>>
      BY <1>8, <1>9, <1>12, <2>1, StopOffersAre
    <2>2. CASE c # <<>>
      BY <1>1, <1>9, <2>2, LinkApart DEF c, SInv, StopOffers
    <2> QED BY <2>1, <2>2
  <1>14. s.chain # <<>> => Bridged(s, recoveries, replacements)
    BY <1>4, <1>9 DEF Bridged
  <1> QED BY <1>1, <1>5, <1>6, <1>7, <1>8, <1>9, <1>10, <1>11, <1>12, <1>13, <1>14

\* The ledger of stops after a new stop.
LEMMA StopAppended ==
    ASSUME TypeOK, NEW s \in Stop, stops' = Append(stops, s), s.phase = "stopping"
    PROVE  /\ DOMAIN stops' = DOMAIN stops \cup {Len(stops) + 1}
           /\ Len(stops) + 1 \notin DOMAIN stops
           /\ Len(stops') = Len(stops) + 1
           /\ stops'[Len(stops) + 1] = s
           /\ \A k \in DOMAIN stops : stops'[k] = stops[k]
           /\ OpenStops' = OpenStops \cup {Len(stops) + 1}
           /\ \A k \in DOMAIN stops : k < Len(stops) + 1
  <1>0. stops \in Seq(Stop) /\ Len(stops) \in Nat /\ DOMAIN stops = 1..Len(stops)
    BY DEF TypeOK
  <1>1. /\ DOMAIN stops' = DOMAIN stops \cup {Len(stops) + 1}
        /\ Len(stops) + 1 \notin DOMAIN stops
        /\ Len(stops') = Len(stops) + 1
        /\ stops'[Len(stops) + 1] = s
        /\ \A k \in DOMAIN stops : stops'[k] = stops[k]
    BY <1>0, Appended
  <1>2. OpenStops' = OpenStops \cup {Len(stops) + 1}
    BY <1>1 DEF OpenStops
  <1> QED BY <1>0, <1>1, <1>2

-----------------------------------------------------------------------------
(* The ledger of stops, conjunct by conjunct.                              *)

LEMMA RetiredStays ==
    ASSUME IInv, Next, NEW k \in DOMAIN stops, stops[k].phase = "retired"
    PROVE  /\ k \in DOMAIN stops' /\ stops'[k].phase = "retired"
           /\ stops'[k].next = stops[k].next
  BY NextKeeps, StopStays DEF KeptStop

LEMMA ActiveOnceStep ==
    ASSUME IInv, Next, ActiveOnce, NativeOK
    PROVE  ActiveOnce'
  <1>0. /\ TypeOK /\ ReplacementsOpen
        /\ replacements \in Seq(Replacement)
        /\ \A x \in DOMAIN replacements : x \in Nat
    BY Domains DEF IInv, TypeOK
  <1>1. ASSUME NEW i \in DOMAIN replacements, NEW k \in StopOf(replacements[i].next),
               stops[k].phase = "retired", NEW o, o = replacements[i].next
        PROVE  \E x \in StopOf(o)' : stops'[x].phase = "retired"
    BY <1>1, RetiredStays DEF StopOf
  <1>2. CASE \E p, n \in Offer : PrepareReplacement(p, n)
    <2>1. PICK q : replacements' = Append(replacements, q) /\ q.phase = "prepared"
      BY <1>2 DEF PrepareReplacement
    <2>2. /\ DOMAIN replacements' = DOMAIN replacements \cup {Len(replacements) + 1}
          /\ replacements'[Len(replacements) + 1] = q
          /\ \A j \in DOMAIN replacements : replacements'[j] = replacements[j]
      BY <1>0, <2>1
    <2>3. \A x \in DOMAIN replacements' : replacements'[x].phase = "active" =>
             x \in DOMAIN replacements /\ replacements'[x] = replacements[x]
      BY <2>1, <2>2
    <2> QED BY <1>1, <2>3 DEF ActiveOnce
  <1>3. CASE ReplacementsKept
    <2> SUFFICES ASSUME NEW i \in DOMAIN replacements, NEW j \in DOMAIN replacements,
                        i < j, replacements'[i].phase = "active",
                        replacements'[j].phase = "active",
                        replacements[i].previous = replacements[j].previous
                 PROVE  \/ \E k \in StopOf(replacements[i].next) : stops[k].phase = "retired"
                        \/ OpenStops' = {} /\ \E k \in DOMAIN stops :
                              stops[k].next = replacements[i].next
      <3>1. SUFFICES ASSUME NEW i \in DOMAIN replacements', NEW j \in DOMAIN replacements',
                            i < j, replacements'[i].phase = "active",
                            replacements'[j].phase = "active",
                            replacements'[i].previous = replacements'[j].previous
                     PROVE  \E k \in StopOf(replacements[i].next)' :
                               stops'[k].phase = "retired"
        BY DEF ActiveOnce
      <3>2. /\ i \in DOMAIN replacements /\ j \in DOMAIN replacements
            /\ replacements'[i].next = replacements[i].next
            /\ replacements[i].previous = replacements[j].previous
        BY <1>3, <3>1 DEF ReplacementsKept, KeptReplacement
      <3>3. \/ \E k \in StopOf(replacements[i].next) : stops[k].phase = "retired"
            \/ OpenStops' = {} /\ \E k \in DOMAIN stops : stops[k].next = replacements[i].next
        BY <3>1, <3>2
      <3>4. ASSUME OpenStops' = {}, NEW k \in DOMAIN stops,
                   stops[k].next = replacements[i].next
            PROVE  \E x \in StopOf(replacements[i].next)' : stops'[x].phase = "retired"
        <4>1. k \in DOMAIN stops' /\ stops'[k].next = stops[k].next
          BY NextKeeps, StopStays DEF KeptStop
        <4>2. stops'[k].phase = "retired"
          BY <3>4, <4>1 DEF OpenStops
        <4> QED BY <3>2, <3>4, <4>1, <4>2 DEF StopOf
      <3> QED BY <1>1, <3>2, <3>3, <3>4
    <2>1. CASE replacements[i].phase = "active" /\ replacements[j].phase = "active"
      BY <2>1 DEF ActiveOnce
    <2>2. CASE \E x \in DOMAIN recoveries, n \in Offer : ActivateRejoin(x, n)
      <3>1. PICK x \in DOMAIN recoveries, n \in Offer : ActivateRejoin(x, n)
        BY <2>2
      <3>2. \A d \in Deferred(x) : replacements[d].previous \notin engine.retired
        BY <3>1 DEF ActivateRejoin, CanReplace
      <3>3. \A d \in DOMAIN replacements : d \notin Deferred(x) =>
               replacements'[d] = replacements[d]
        BY <3>1 DEF ActivateRejoin
      <3>4. \A d \in DOMAIN replacements : replacements[d].phase = "active" =>
               replacements[d].previous \in engine.retired
        BY AgreeIs DEF IInv, Fenced
      <3>5. \A d, e \in Deferred(x) : d = e
        BY <1>0 DEF Deferred, ReplacementOf, ReplacementsOpen
      <3>6. i # j
        BY <1>0
      <3> QED BY <2>1, <3>2, <3>3, <3>4, <3>5, <3>6
    <2>3. CASE \E x \in DOMAIN replacements : ActivateReplacement(x)
      <3>1. PICK x \in DOMAIN replacements : ActivateReplacement(x)
        BY <2>3
      <3> DEFINE r == replacements[x]
      <3>2. /\ r.phase = "consented" /\ StopOf(r.next) = {} /\ StoppedGroupsOK(r)
            /\ replacements' = [replacements EXCEPT ![x].phase = "active"]
            /\ stops' = [k \in DOMAIN stops |-> [stops[k] EXCEPT !.phase = "retired"]]
        BY <3>1 DEF ActivateReplacement, Pending
      <3>3. \A d \in DOMAIN replacements : d # x => replacements'[d] = replacements[d]
        BY <1>0, <3>2
      <3>4. OpenStops' = {}
        <4>1. \A k \in DOMAIN stops : stops[k] \in Stop
          BY <1>0, Domains
        <4>2. \A k \in DOMAIN stops : [stops[k] EXCEPT !.phase = "retired"].phase = "retired"
          BY <4>1 DEF Stop
        <4> QED BY <3>2, <4>2 DEF OpenStops
      <3>5. CASE j # x /\ i # x
        BY <2>1, <3>3, <3>5
      <3>6. CASE i = x
        <4>1. x = Len(replacements)
          BY <1>0, <3>2, UnderWayIsLast
        <4> QED BY <1>0, <3>6, <4>1
      <3>7. CASE j = x /\ i # x
        <4>1. replacements[i].phase = "active" /\ replacements[i].previous = r.previous
          BY <3>3, <3>7
        <4>2. r.previous \in engine.retired
          BY <4>1, AgreeIs DEF IInv, Fenced
        <4>3. PICK k \in OpenStops : stops[k].native
          BY <3>1, <4>2, ReplacedEngine
        <4>4. k \in DOMAIN stops /\ stops[k].phase # "retired"
          BY DEF OpenStops
        <4>5. r.restart_from # NoOffer
          BY <3>2, <4>3 DEF IInv, PendingOK, UnderWay
        <4>6. stops[k].previous = r.previous
          BY <3>2, <4>3, <4>5 DEF StoppedGroupsOK, StoppedFrom
        <4>7. PICK b \in DOMAIN replacements :
                 /\ replacements[b].phase = "active"
                 /\ replacements[b].previous = r.previous
                 /\ replacements[b].next = stops[k].next
          BY <4>3, <4>4, <4>6 DEF NativeOK
        <4>8. CASE i = b
          BY <3>4, <4>4, <4>7, <4>8
        <4>9. CASE i # b
          <5>1. \A h \in StopOf(replacements[b].next) : stops[h].phase # "retired"
            BY <4>4, <4>7, OneStop DEF StopOf
          <5> QED BY <4>1, <4>7, <4>9, <5>1, TwoActive
        <4> QED BY <4>8, <4>9
      <3> QED BY <3>5, <3>6, <3>7
    <2>4. CASE ~Activates
      BY <2>1, <2>4, OthersReplace
    <2> QED BY <2>2, <2>3, <2>4 DEF Activates
  <1> QED BY <1>2, <1>3, NextKeeps

LEMMA OriginStep ==
    ASSUME IInv, SInv, Next, TypeOK'
    PROVE  OriginRetired'
  <1>0. TypeOK
    BY DEF IInv
  <1>1. CASE StopsKept
    <2>1. CASE OpenStops' = {}
      BY <2>1 DEF OriginRetired
    <2>2. CASE OpenStops' = OpenStops /\ OpenStops # {}
      <3>1. ~Activates
        <4>1. \A i \in DOMAIN recoveries, n \in Offer : ~ActivateRejoin(i, n)
          BY <2>2, OthersFit DEF ActivateRejoin, CanRejoin
        <4>2. \A i \in DOMAIN replacements : ~ActivateReplacement(i)
          <5>1. SUFFICES ASSUME NEW i \in DOMAIN replacements, ActivateReplacement(i)
                         PROVE  FALSE
            OBVIOUS
          <5>2. stops' = [k \in DOMAIN stops |-> [stops[k] EXCEPT !.phase = "retired"]]
            BY <5>1 DEF ActivateReplacement
          <5>3. \A k \in DOMAIN stops :
                   [stops[k] EXCEPT !.phase = "retired"].phase = "retired"
            BY <1>0, Domains DEF Stop
          <5>4. OpenStops' = {}
            BY <5>2, <5>3 DEF OpenStops
          <5> QED BY <2>2, <5>4
        <4> QED BY <4>1, <4>2 DEF Activates
      <3>2. engine'.retired = engine.retired
        BY <3>1, EngineStep
      <3>3. \A k \in OpenStops : k \in DOMAIN stops
               /\ stops'[k].previous = stops[k].previous /\ stops'[k].native = stops[k].native
        BY <1>1 DEF StopsKept, KeptStop, OpenStops
      <3> QED BY <2>2, <3>2, <3>3 DEF SInv, OriginRetired
    <2> QED BY <1>1, <2>1, <2>2 DEF StopsKept
  <1>2. CASE \E p, n \in Offer : BeginStop(p, n)
    <2>1. PICK p \in Offer, n \in Offer : BeginStop(p, n)
      BY <1>2
    <2>2. PICK s \in Stop :
              /\ stops' = Append(stops, s)
              /\ s.previous = p /\ s.phase = "stopping"
              /\ s.native => OpenStops = {} /\ p \in engine.retired
              /\ ~s.native =>
                    (p \in engine.retired <=> \E k \in OpenStops : stops[k].native)
              /\ StoppedFrom(p)
              /\ engine' = engine
      BY <2>1, NewStop
    <2>3. /\ OpenStops' = OpenStops \cup {Len(stops) + 1}
          /\ stops'[Len(stops) + 1] = s
          /\ \A k \in OpenStops : stops'[k] = stops[k]
      BY <1>0, <2>2, StopAppended DEF OpenStops
    <2>4. \A k \in OpenStops : stops[k].previous = p
      BY <2>2 DEF StoppedFrom
    <2>5. \A k \in OpenStops' : stops'[k].previous = p
      BY <2>2, <2>3, <2>4
    <2>6. (\E k \in OpenStops' : stops'[k].native)
             <=> s.native \/ \E k \in OpenStops : stops[k].native
      BY <2>3
    <2> QED BY <2>2, <2>5, <2>6 DEF OriginRetired
  <1> QED BY <1>1, <1>2, NextKeeps

\* While stops are open the channel stays.
LEMMA ChannelHeld ==
    ASSUME IInv, Next, OpenStops # {}, OpenStops' # {}
    PROVE  UNCHANGED invitation
  <1>1. /\ ~Accepts("message") /\ ~Accepts("mark") /\ ~Accepts("rejoin")
        /\ ~Accepts("close") /\ ~Accepts("failure")
    BY MessageFits, OthersFit
  <1>2. \A i \in DOMAIN replacements : ~ActivateReplacement(i)
    <2>1. SUFFICES ASSUME NEW i \in DOMAIN replacements, ActivateReplacement(i)
                   PROVE  FALSE
      OBVIOUS
    <2>2. stops' = [k \in DOMAIN stops |-> [stops[k] EXCEPT !.phase = "retired"]]
      BY <2>1 DEF ActivateReplacement
    <2>3. \A k \in DOMAIN stops : [stops[k] EXCEPT !.phase = "retired"].phase = "retired"
      BY Domains DEF IInv, Stop
    <2> QED BY <2>2, <2>3 DEF OpenStops
  <1>3. CASE Talk
    BY <1>1, <1>3 DEF Talk, PrepareInvitation, InviteFromDelivery, JoinFromDelivery,
         AcceptDelivery, CompleteInvitation, SendChat, MarkInvitationFailed, ApprovePeer
  <1>4. CASE Rejoin
    <2>1. ~BeginClose /\ \A i \in DOMAIN recoveries : ~CompleteClose(i)
      BY <1>1 DEF BeginClose, CompleteClose
    <2>2. \A i \in DOMAIN recoveries, n \in Offer :
             ~PrepareRejoin(i, n) /\ ~ActivateRejoin(i, n)
      BY <1>1 DEF PrepareRejoin, ActivateRejoin, CanRejoin
    <2>3. \A i \in DOMAIN recoveries :
             ~MarkRejoinFailed(i) /\ ~BeginRejoinRecovery(i) /\ ~BeginCancelRejoin(i)
      BY <1>1 DEF MarkRejoinFailed, BeginRejoinRecovery, CanFailRejoin,
           BeginCancelRejoin, CanCancelRejoin
    <2>4. \A i \in DOMAIN recoveries : \A c : ~FinishCancelRejoin(i, c)
      BY <1>1 DEF FinishCancelRejoin, CanCancelRejoin
    <2> QED BY <1>4, <2>1, <2>2, <2>3, <2>4 DEF Rejoin
  <1>5. CASE Replace
    BY <1>1, <1>2, <1>5 DEF Replace, PrepareReplacement, AttestPredecessor, Consent,
         BeginCancelReplacement, FinishCancelReplacement, ObserveReplacementCancelled,
         Cancelled, MarkReplacementFailed, BeginReplacementRecovery, BeginStop, CompleteStop
  <1> QED BY <1>3, <1>4, <1>5 DEF Next

\* What is active stays active.
LEMMA StaysActive ==
    ASSUME IInv, Next, NEW j \in DOMAIN replacements, replacements[j].phase = "active"
    PROVE  /\ j \in DOMAIN replacements'
           /\ replacements'[j].phase = "active"
           /\ replacements'[j].previous = replacements[j].previous
           /\ replacements'[j].next = replacements[j].next
           /\ replacements'[j].restart_from = replacements[j].restart_from
  <1>1. CASE ReplacementsKept
    BY <1>1 DEF ReplacementsKept, KeptReplacement
  <1>2. CASE \E p, n \in Offer : PrepareReplacement(p, n)
    <2>1. PICK q : replacements' = Append(replacements, q)
      BY <1>2 DEF PrepareReplacement
    <2>2. j \in DOMAIN replacements' /\ replacements'[j] = replacements[j]
      BY <2>1 DEF IInv, TypeOK
    <2> QED BY <2>2
  <1> QED BY <1>1, <1>2, NextKeeps

LEMMA NativeStep ==
    ASSUME IInv, SInv, Next, TypeOK'
    PROVE  NativeOK'
  <1>0. TypeOK /\ Len(stops) \in Nat /\ DOMAIN stops = 1..Len(stops)
    BY Domains DEF IInv
  <1>1. ASSUME NEW i \in DOMAIN stops, i \in DOMAIN stops', stops'[i].native,
               KeptStop(stops[i], stops'[i])
        PROVE  /\ IsStable(stops'[i].previous, stops'[i].next)
               /\ stops'[i].chain = <<>>
               /\ \E j \in DOMAIN replacements' :
                     /\ replacements'[j].phase = "active"
                     /\ replacements'[j].previous = stops'[i].previous
                     /\ replacements'[j].next = stops'[i].next
               /\ stops'[i].phase # "retired" =>
                     /\ invitation'.offer = stops'[i].next
                     /\ \A k \in 1..(i - 1) : stops'[k].phase = "retired"
    <2>1. /\ IsStable(stops[i].previous, stops[i].next)
          /\ stops[i].chain = <<>>
          /\ stops[i].phase # "retired" =>
                /\ invitation.offer = stops[i].next
                /\ \A k \in 1..(i - 1) : stops[k].phase = "retired"
      BY <1>1 DEF SInv, NativeOK, KeptStop
    <2>2. PICK j \in DOMAIN replacements :
             /\ replacements[j].phase = "active"
             /\ replacements[j].previous = stops[i].previous
             /\ replacements[j].next = stops[i].next
      BY <1>1 DEF SInv, NativeOK, KeptStop
    <2>3. /\ j \in DOMAIN replacements'
          /\ replacements'[j].phase = "active"
          /\ replacements'[j].previous = stops[i].previous
          /\ replacements'[j].next = stops[i].next
      BY <2>2, StaysActive
    <2>4. ASSUME stops'[i].phase # "retired"
          PROVE  /\ invitation'.offer = stops[i].next
                 /\ \A k \in 1..(i - 1) : stops'[k].phase = "retired"
      <3>1. stops[i].phase # "retired"
        BY <1>1, <2>4 DEF KeptStop
      <3>2. i \in OpenStops /\ i \in OpenStops'
        BY <1>1, <2>4, <3>1 DEF OpenStops
      <3>3. UNCHANGED invitation
        BY <3>2, ChannelHeld
      <3>4. \A k \in 1..(i - 1) : k \in DOMAIN stops
        BY <1>0
      <3>5. \A k \in 1..(i - 1) : stops'[k].phase = "retired"
        BY <2>1, <3>1, <3>4, RetiredStays
      <3> QED BY <2>1, <3>1, <3>3, <3>5
    <2> QED BY <1>1, <2>1, <2>3, <2>4 DEF KeptStop
  <1>2. \A k \in DOMAIN stops : k \in DOMAIN stops' /\ KeptStop(stops[k], stops'[k])
    BY NextKeeps, StopStays
  <1>3. ASSUME NEW i \in DOMAIN stops', i \notin DOMAIN stops, stops'[i].native
        PROVE  /\ IsStable(stops'[i].previous, stops'[i].next)
               /\ stops'[i].chain = <<>>
               /\ \E j \in DOMAIN replacements' :
                     /\ replacements'[j].phase = "active"
                     /\ replacements'[j].previous = stops'[i].previous
                     /\ replacements'[j].next = stops'[i].next
               /\ stops'[i].phase # "retired" =>
                     /\ invitation'.offer = stops'[i].next
                     /\ \A k \in 1..(i - 1) : stops'[k].phase = "retired"
    <2>1. PICK p \in Offer, n \in Offer : BeginStop(p, n)
      BY <1>3, NextKeeps DEF StopsKept
    <2>2. PICK s \in Stop :
              /\ stops' = Append(stops, s)
              /\ s.previous = p /\ s.next = n /\ s.phase = "stopping"
              /\ s.native =>
                    /\ OpenStops = {}
                    /\ IsStable(p, n) /\ s.chain = <<>> /\ invitation.offer = n
                    /\ \E j \in DOMAIN replacements :
                          /\ replacements[j].phase = "active"
                          /\ replacements[j].previous = p /\ replacements[j].next = n
              /\ UNCHANGED <<invitation, replacements>>
      BY <2>1, NewStop
    <2>3. i = Len(stops) + 1 /\ stops'[i] = s
      BY <1>0, <1>3, <2>2, StopAppended
    <2>4. \A k \in 1..(i - 1) : k \in DOMAIN stops
      BY <1>0, <2>3
    <2>5. \A k \in 1..(i - 1) : stops'[k].phase = "retired"
      BY <1>3, <2>2, <2>3, <2>4, RetiredStays DEF OpenStops
    <2> QED BY <1>3, <2>2, <2>3, <2>5
  <1> QED BY <1>1, <1>2, <1>3 DEF NativeOK

LEMMA ChainsStep ==
    ASSUME IInv, SInv, Next, TypeOK', RecoveriesKept, RecoveriesDistinct'
    PROVE  ChainsBridged'
  <1>1. SUFFICES ASSUME NEW k \in DOMAIN stops', stops'[k].chain # <<>>
                 PROVE  Bridged(stops'[k], recoveries', replacements')
    BY DEF ChainsBridged
  <1>2. CASE k \in DOMAIN stops
    <2>1. KeptStop(stops[k], stops'[k])
      BY <1>2, NextKeeps, StopStays
    <2>2. Bridged(stops[k], recoveries, replacements) /\ stops[k] \in ToSet(stops)
      BY <1>1, <1>2, <2>1 DEF KeptStop, SInv, ChainsBridged, ToSet
    <2>3. Bridged(stops[k], recoveries', replacements')
      BY <2>2, BridgeKept DEF SInv
    <2> QED BY <2>1, <2>3 DEF KeptStop, Bridged
  <1>3. CASE k \notin DOMAIN stops
    <2>1. PICK p \in Offer, n \in Offer : BeginStop(p, n)
      BY <1>1, <1>3, NextKeeps DEF StopsKept
    <2>2. PICK s \in Stop :
              /\ stops' = Append(stops, s) /\ s.phase = "stopping"
              /\ s.chain # <<>> => Bridged(s, recoveries, replacements)
              /\ UNCHANGED <<recoveries, replacements>>
      BY <2>1, NewStop
    <2>3. stops'[k] = s
      BY <1>1, <1>3, <2>2, StopAppended DEF IInv
    <2> QED BY <1>1, <2>2, <2>3
  <1> QED BY <1>2, <1>3

LEMMA TogetherStep ==
    ASSUME IInv, SInv, Next, TypeOK'
    PROVE  RetiredTogether'
  <1>0. /\ TypeOK /\ DOMAIN stops = 1..Len(stops) /\ Len(stops) \in Nat
        /\ DOMAIN stops' = 1..Len(stops') /\ Len(stops') \in Nat
        /\ replacements \in Seq(Replacement)
        /\ \A k \in DOMAIN stops : stops[k] \in Stop
    BY Domains DEF IInv, TypeOK
  <1>1. \A k \in DOMAIN stops : k \in DOMAIN stops' /\ KeptStop(stops[k], stops'[k])
    BY NextKeeps, StopStays
  <1>2. Len(stops) <= Len(stops')
    BY <1>0, <1>1
  <1>3. SUFFICES ASSUME NEW i \in DOMAIN stops', stops'[i].phase = "retired"
                 PROVE  \E j \in DOMAIN replacements', last \in i..Len(stops') :
                           /\ stops'[last].next = replacements'[j].restart_from
                           /\ replacements'[j].phase = "active"
                           /\ replacements'[j].previous = stops'[i].previous
                           /\ \A k \in i..last : stops'[k].phase = "retired"
                                 /\ stops'[k].previous = stops'[i].previous
    BY DEF RetiredTogether, Ends
  <1>4. i \in DOMAIN stops
    <2>1. SUFFICES ASSUME i \notin DOMAIN stops PROVE FALSE
      OBVIOUS
    <2>2. PICK p \in Offer, n \in Offer : BeginStop(p, n)
      BY <1>3, <2>1, NextKeeps DEF StopsKept
    <2>3. PICK s \in Stop : stops' = Append(stops, s) /\ s.phase = "stopping"
      BY <2>2, NewStop
    <2>4. stops'[i] = s
      BY <1>0, <1>3, <2>1, <2>3, StopAppended
    <2> QED BY <1>3, <2>3, <2>4
  <1>5. CASE stops[i].phase = "retired"
    <2>1. PICK j \in DOMAIN replacements, last \in i..Len(stops) :
             /\ stops[last].next = replacements[j].restart_from
             /\ replacements[j].phase = "active"
             /\ replacements[j].previous = stops[i].previous
             /\ \A k \in i..last :
                   stops[k].phase = "retired" /\ stops[k].previous = stops[i].previous
      BY <1>4, <1>5 DEF SInv, RetiredTogether, Ends
    <2>2. /\ j \in DOMAIN replacements'
          /\ replacements'[j].phase = "active"
          /\ replacements'[j].previous = replacements[j].previous
          /\ replacements'[j].restart_from = replacements[j].restart_from
      BY <2>1, StaysActive
    <2>3. last \in DOMAIN stops /\ last \in i..Len(stops')
          /\ \A k \in i..last : k \in DOMAIN stops
      BY <1>0, <1>2, <1>4, <2>1
    <2>4. \A k \in i..last : stops'[k].phase = "retired"
             /\ stops'[k].previous = stops[k].previous
      BY <1>1, <2>1, <2>3 DEF KeptStop
    <2>5. /\ stops'[last].next = stops[last].next
          /\ stops'[i].previous = stops[i].previous
      BY <1>1, <1>4, <2>3 DEF KeptStop
    <2> QED BY <2>1, <2>2, <2>3, <2>4, <2>5
  <1>6. CASE stops[i].phase # "retired"
    <2>1. i \in OpenStops /\ i \notin OpenStops'
      BY <1>3, <1>4, <1>6 DEF OpenStops
    <2>2. StopsKept
      <3>1. SUFFICES ASSUME NEW p \in Offer, NEW n \in Offer, BeginStop(p, n) PROVE FALSE
        BY NextKeeps
      <3>2. PICK s \in Stop : stops' = Append(stops, s) /\ s.phase = "stopping"
        BY <3>1, NewStop
      <3>3. stops'[i] = stops[i]
        BY <1>0, <1>4, <3>2, StopAppended
      <3> QED BY <1>3, <1>6, <3>3
    <2>3. OpenStops' = {} /\ DOMAIN stops' = DOMAIN stops
      BY <2>1, <2>2 DEF StopsKept
    <2>4. PICK x \in DOMAIN replacements : ActivateReplacement(x)
      BY <2>1, <2>2 DEF StopsKept
    <2> DEFINE r == replacements[x]
    <2>5. /\ r.phase = "consented" /\ StopOf(r.next) = {} /\ StoppedGroupsOK(r)
          /\ replacements' = [replacements EXCEPT ![x].phase = "active"]
      BY <2>4 DEF ActivateReplacement, Pending
    <2>6. /\ x \in DOMAIN replacements'
          /\ replacements'[x].phase = "active"
          /\ replacements'[x].previous = r.previous
          /\ replacements'[x].restart_from = r.restart_from
      <3>1. r \in Replacement
        BY <1>0
      <3>2. replacements'[x] = [r EXCEPT !.phase = "active"] /\ x \in DOMAIN replacements'
        BY <1>0, <2>5
      <3> QED BY <3>1, <3>2 DEF Replacement
    <2>7. r.restart_from # NoOffer
      BY <2>1, <2>5 DEF IInv, PendingOK, UnderWay
    <2>8. /\ stops[Len(stops)].next = r.restart_from
          /\ stops[i].previous = r.previous
      <3>1. LastOpen = Len(stops)
        BY <1>0, <2>1, LastOpenIs DEF IInv
      <3> QED BY <2>1, <2>5, <2>7, <3>1 DEF StoppedGroupsOK, StoppedFrom
    <2>9. Len(stops) \in i..Len(stops') /\ Len(stops) \in DOMAIN stops
          /\ \A k \in i..Len(stops) : k \in DOMAIN stops
      BY <1>0, <1>2, <1>4
    <2>10. \A k \in i..Len(stops) : stops[k].previous = stops[i].previous
      <3> TAKE k \in i..Len(stops)
      <3>1. k = i \/ i < k
        BY <1>0, <1>4
      <3> QED BY <1>4, <1>6, <2>9, <3>1 DEF IInv, StopsOrdered
    <2>11. \A k \in i..Len(stops) : stops'[k].phase = "retired"
              /\ stops'[k].previous = stops'[i].previous
      <3> TAKE k \in i..Len(stops)
      <3>1. k \in DOMAIN stops'
        BY <1>1, <2>9
      <3>2. stops'[k].phase = "retired"
        BY <2>3, <3>1 DEF OpenStops
      <3> QED BY <1>1, <1>4, <2>9, <2>10, <3>2 DEF KeptStop
    <2>12. /\ stops'[Len(stops)].next = stops[Len(stops)].next
           /\ stops'[i].previous = stops[i].previous
      BY <1>1, <1>4, <2>9 DEF KeptStop
    <2> QED BY <2>6, <2>8, <2>9, <2>11, <2>12
  <1> QED BY <1>5, <1>6

LEMMA DisjointStep ==
    ASSUME IInv, SInv, Next, TypeOK'
    PROVE  StopsDisjoint'
  <1>0. TypeOK
    BY DEF IInv
  <1>1. \A k \in DOMAIN stops : /\ k \in DOMAIN stops' /\ KeptStop(stops[k], stops'[k])
                                /\ StopOffers(stops'[k]) = StopOffers(stops[k])
    BY NextKeeps, StopStays, SameOffers
  <1>2. SUFFICES ASSUME NEW j \in DOMAIN stops', NEW k \in DOMAIN stops', j < k
                 PROVE  /\ ToSet(StopOffers(stops'[k])) \cap ToSet(StopOffers(stops'[j])) = {}
                        /\ stops'[k].next \notin ToSet(StopOffers(stops'[j]))
    BY DEF StopsDisjoint
  <1>3. CASE j \in DOMAIN stops /\ k \in DOMAIN stops
    BY <1>1, <1>2, <1>3 DEF SInv, StopsDisjoint, KeptStop
  <1>4. CASE ~(j \in DOMAIN stops /\ k \in DOMAIN stops)
    <2>1. PICK p \in Offer, n \in Offer : BeginStop(p, n)
      BY <1>2, <1>4, NextKeeps DEF StopsKept
    <2>2. PICK s \in Stop :
              /\ stops' = Append(stops, s) /\ s.phase = "stopping" /\ s.next = n
              /\ \A x \in DOMAIN stops :
                    /\ ToSet(StopOffers(s)) \cap ToSet(StopOffers(stops[x])) = {}
                    /\ n \notin ToSet(StopOffers(stops[x]))
      BY <2>1, NewStop
    <2>3. /\ DOMAIN stops' = DOMAIN stops \cup {Len(stops) + 1}
          /\ stops'[Len(stops) + 1] = s
          /\ \A x \in DOMAIN stops : stops'[x] = stops[x] /\ x < Len(stops) + 1
      BY <1>0, <2>2, StopAppended
    <2>4. DOMAIN stops \subseteq Nat /\ Len(stops) \in Nat
      BY <1>0, Domains
    <2>5. j \in DOMAIN stops /\ k = Len(stops) + 1
      BY <1>2, <1>4, <2>3, <2>4
    <2> QED BY <2>2, <2>3, <2>5
  <1> QED BY <1>3, <1>4

-----------------------------------------------------------------------------
(* The ledger of stops opens again.                                        *)

LEMMA SNextOK ==
    ASSUME IInv, SInv, Next, IInv'
    PROVE  SInv'
  <1>1. TypeOK'
    BY DEF IInv
  <1>2. RecoveriesKept
    BY RecoveriesKeep
  <1>3. RecoveriesDistinct' /\ SuccessorsOK' /\ RowsOK'
    BY <1>1, <1>2, DistinctStep, SuccessorsStep, RowsStep DEF SInv
  <1>4. ActiveOnce' /\ OriginRetired' /\ NativeOK'
    BY <1>1, ActiveOnceStep, OriginStep, NativeStep DEF SInv
  <1>5. ChainsBridged' /\ RetiredTogether' /\ StopsDisjoint'
    BY <1>1, <1>2, <1>3, ChainsStep, TogetherStep, DisjointStep
  <1> QED BY <1>3, <1>4, <1>5 DEF SInv

LEMMA SInitOK ==
    ASSUME Init
    PROVE  SInv
  <1>1. /\ DOMAIN recoveries = {} /\ DOMAIN replacements = {} /\ DOMAIN stops = {}
        /\ Len(recoveries) = 0
    BY DEF Init
  <1>2. 0 <= MaxRecoveries
    BY OfferAssumption DEF MaxRecoveries
  <1>3. RecoveriesDistinct /\ SuccessorsOK /\ RowsOK
    BY <1>1, <1>2 DEF RecoveriesDistinct, SuccessorsOK, RowsOK
  <1>4. ActiveOnce /\ OriginRetired /\ NativeOK
    BY <1>1 DEF ActiveOnce, OriginRetired, NativeOK, OpenStops
  <1>5. ChainsBridged /\ RetiredTogether /\ StopsDisjoint
    BY <1>1 DEF ChainsBridged, RetiredTogether, StopsDisjoint
  <1> QED BY <1>3, <1>4, <1>5 DEF SInv

LEMMA SInvHolds == Spec => []SInv
  <1>1. Init => SInv
    BY SInitOK
  <1>2. IInv /\ IInv' /\ SInv /\ [Next]_vars => SInv'
    <2>1. SUFFICES ASSUME IInv, IInv', SInv, [Next]_vars PROVE SInv'
      OBVIOUS
    <2>2. CASE Next
      BY <2>1, <2>2, SNextOK
    <2>3. CASE UNCHANGED vars
      <3>1. RecoveriesDistinct' /\ SuccessorsOK' /\ RowsOK'
        BY <2>1, <2>3 DEF vars, SInv, RecoveriesDistinct, SuccessorsOK, RowsOK, Under
      <3>2. ActiveOnce' /\ OriginRetired' /\ NativeOK'
        BY <2>1, <2>3 DEF vars, SInv, ActiveOnce, StopOf, OriginRetired, OpenStops, NativeOK
      <3>3. ChainsBridged' /\ RetiredTogether' /\ StopsDisjoint'
        BY <2>1, <2>3 DEF vars, SInv, ChainsBridged, RetiredTogether, Ends, StopsDisjoint
      <3> QED BY <3>1, <3>2, <3>3 DEF SInv
    <2> QED BY <2>1, <2>2, <2>3
  <1> QED BY <1>1, <1>2, InvariantHolds, PTL DEF Spec

\* #open accepts the ledger of stops that a command leaves: the stops of a
\* target this device had activated and of a chain of recoveries still find
\* what they bridge, the retired ones the replacement they ended with, and no
\* target is fenced twice.
THEOREM StopsReopen == Spec => []StopsOpen
  <1>1. IInv /\ SInv => StopsOpen
    <2>1. SUFFICES ASSUME IInv, SInv PROVE StopsOpen
      OBVIOUS
    <2>2. DOMAIN stops = 1..Len(stops) /\ Len(stops) \in Nat
      BY <2>1, Domains DEF IInv
    <2>3. ASSUME NEW i \in DOMAIN stops
          PROVE  /\ IsReplacement(stops[i].previous, stops[i].next)
                 /\ stops[i].native =>
                       /\ IsStable(stops[i].previous, stops[i].next)
                       /\ stops[i].chain = <<>>
                       /\ \E r \in ToSet(replacements) : r.phase = "active"
                             /\ r.previous = stops[i].previous /\ r.next = stops[i].next
                       /\ stops[i].phase # "retired" =>
                             /\ invitation.offer = stops[i].next
                             /\ \A k \in 1..(i - 1) : stops[k].phase = "retired"
                 /\ stops[i].chain # <<>> => Bridged(stops[i], recoveries, replacements)
      <3>1. stops[i].native => \E r \in ToSet(replacements) : r.phase = "active"
               /\ r.previous = stops[i].previous /\ r.next = stops[i].next
        BY <2>1 DEF SInv, NativeOK, ToSet
      <3> QED BY <2>1, <3>1 DEF IInv, StopsApart, SInv, NativeOK, ChainsBridged
    <2>4. ASSUME NEW i \in DOMAIN stops, stops[i].phase = "retired"
          PROVE  \E r \in ToSet(replacements), last \in i..Len(stops) :
                    /\ stops[last].next = r.restart_from
                    /\ r.phase = "active"
                    /\ r.previous = stops[i].previous
                    /\ \A k \in i..last : stops[k].phase = "retired"
                          /\ stops[k].previous = stops[i].previous
      BY <2>1, <2>4 DEF SInv, RetiredTogether, Ends, ToSet
    <2>5. ASSUME NEW i \in DOMAIN stops, stops[i].phase = "stopping"
          PROVE  i = Len(stops)
      <3>1. ~(i < Len(stops))
        BY <2>1, <2>2, <2>5 DEF IInv, StopsOrdered
      <3> QED BY <2>2, <3>1
    <2>6. ASSUME NEW i \in DOMAIN stops, NEW k \in 1..(i - 1)
          PROVE  /\ stops[k].phase # "retired" =>
                       stops[i].phase # "retired" /\ stops[i].previous = stops[k].previous
                 /\ ToSet(StopOffers(stops[i])) \cap ToSet(StopOffers(stops[k])) = {}
                 /\ stops[i].next \notin ToSet(StopOffers(stops[k]))
      <3>1. k \in DOMAIN stops /\ k < i
        BY <2>2
      <3> QED BY <2>1, <3>1 DEF IInv, StopsOrdered, SInv, StopsDisjoint
    <2>7. Len(stops) <= MaxRetired
      BY <2>1 DEF IInv, StopsOrdered
    <2> QED BY <2>3, <2>4, <2>5, <2>6, <2>7 DEF StopsOpen
  <1> QED BY <1>1, InvariantHolds, SInvHolds, PTL

-----------------------------------------------------------------------------
(* The commands on one entry of the recoveries.                            *)

\* It stays one entry of one channel.
SameEntry(r, q) ==
    /\ q.offer = r.offer /\ q.deferred_from = r.deferred_from
    /\ q.replacement = r.replacement
SamePhase(r, q) == SameEntry(r, q) /\ q.phase = r.phase
SameNext(r, q) ==
    /\ SameEntry(r, q)
    /\ q.next = r.next /\ q.successor_failed = r.successor_failed
SameVetoes(r, q) == q.cancellations = r.cancellations

EntryCloses(k) ==
    /\ CompleteClose(k)
    /\ recoveries[k].phase = "closing" /\ recoveries'[k].phase = "closed"
    /\ SameNext(recoveries[k], recoveries'[k])
    /\ SameVetoes(recoveries[k], recoveries'[k])
EntryPrepares(k, n) ==
    /\ PrepareRejoin(k, n)
    /\ SamePhase(recoveries[k], recoveries'[k])
    /\ recoveries'[k].next = n
    /\ recoveries'[k].successor_failed = recoveries[k].successor_failed
    /\ SameVetoes(recoveries[k], recoveries'[k])
EntryRejoins(k, x, n) ==
    /\ ActivateRejoin(x, n) /\ k \in Root(recoveries, x)..x
    /\ recoveries[k].phase = "closed" /\ recoveries'[k].phase = "rejoined"
    /\ SameNext(recoveries[k], recoveries'[k])
    /\ SameVetoes(recoveries[k], recoveries'[k])
EntryFails(k) ==
    /\ MarkRejoinFailed(k) \/ BeginRejoinRecovery(k)
    /\ CanFailRejoin(k)
    /\ SamePhase(recoveries[k], recoveries'[k])
    /\ recoveries'[k].next = recoveries[k].next
    /\ recoveries'[k].successor_failed
    /\ SameVetoes(recoveries[k], recoveries'[k])
EntryCancels(k) ==
    /\ BeginCancelRejoin(k)
    /\ SamePhase(recoveries[k], recoveries'[k])
    /\ SameNext(recoveries[k], recoveries'[k])
    /\ recoveries'[k].cancellations =
          Append(recoveries[k].cancellations,
                 [next |-> recoveries[k].next, outcome |-> "pending"])
EntryCancelled(k, outcome) ==
    LET r == recoveries[k]
    IN
    /\ FinishCancelRejoin(k, outcome)
    /\ SamePhase(r, recoveries'[k])
    /\ recoveries'[k].next = IF outcome = "cancelled" THEN NoOffer ELSE r.next
    /\ recoveries'[k].successor_failed =
          IF outcome = "cancelled" THEN FALSE ELSE r.successor_failed
    /\ recoveries'[k].cancellations =
          [r.cancellations EXCEPT ![Len(r.cancellations)].outcome = outcome]

EntryStep(k) ==
    \/ recoveries'[k] = recoveries[k]
    \/ EntryCloses(k)
    \/ \E n \in Offer : EntryPrepares(k, n)
    \/ \E x \in DOMAIN recoveries, n \in Offer : EntryRejoins(k, x, n)
    \/ EntryFails(k)
    \/ EntryCancels(k)
    \/ \E c \in {"cancelled", "admitted"} : EntryCancelled(k, c)

\* A new entry.
NewEntry(r) ==
    \/ BeginClose /\ r = Closing(invitation.offer, FALSE, NoOffer)
    \/ \E i \in DOMAIN recoveries :
          /\ BeginRejoinRecovery(i) /\ EntryFails(i) /\ i = Len(recoveries)
          /\ r = Closing(recoveries[i].next, FALSE, recoveries[i].offer)
    \/ \E j \in DOMAIN replacements :
          /\ BeginReplacementRecovery(j)
          /\ r = Closing(replacements[j].next, TRUE, NoOffer)

EntrySteps ==
    /\ DOMAIN recoveries \subseteq DOMAIN recoveries'
    /\ \A k \in DOMAIN recoveries : EntryStep(k)
    /\ \A k \in DOMAIN recoveries' \ DOMAIN recoveries :
          /\ k = Len(recoveries) + 1
          /\ Len(recoveries') = Len(recoveries) + 1
          /\ NewEntry(recoveries'[k])

LEMMA OneEntry ==
    ASSUME TypeOK, NEW i \in DOMAIN recoveries, NEW q,
           recoveries' = [recoveries EXCEPT ![i] = q],
           recoveries'[i] = q => EntryStep(i)
    PROVE  EntrySteps
  <1>1. /\ DOMAIN recoveries' = DOMAIN recoveries
        /\ recoveries'[i] = q
        /\ \A k \in DOMAIN recoveries : k # i => recoveries'[k] = recoveries[k]
    BY DEF TypeOK
  <1>2. \A k \in DOMAIN recoveries : EntryStep(k)
    BY <1>1 DEF EntryStep
  <1> QED BY <1>1, <1>2 DEF EntrySteps

LEMMA AddedEntry ==
    ASSUME TypeOK, NEW r \in Recovery, recoveries' = Append(recoveries, r), NewEntry(r)
    PROVE  EntrySteps
  <1>1. /\ DOMAIN recoveries' = DOMAIN recoveries \cup {Len(recoveries) + 1}
        /\ Len(recoveries') = Len(recoveries) + 1
        /\ recoveries'[Len(recoveries) + 1] = r
        /\ \A k \in DOMAIN recoveries : recoveries'[k] = recoveries[k]
    BY Appended DEF TypeOK
  <1>2. \A k \in DOMAIN recoveries : EntryStep(k)
    BY <1>1 DEF EntryStep
  <1> QED BY <1>1, <1>2 DEF EntrySteps

\* A rejoin is one of every entry of its chain.
LEMMA RejoinedEntries ==
    ASSUME TypeOK, NEW i \in DOMAIN recoveries, NEW n \in Offer, ActivateRejoin(i, n)
    PROVE  /\ DOMAIN recoveries' = DOMAIN recoveries
           /\ \A k \in DOMAIN recoveries :
                 IF k \in Root(recoveries, i)..i THEN EntryRejoins(k, i, n)
                 ELSE recoveries'[k] = recoveries[k]
  <1>1. /\ recoveries' = [k \in DOMAIN recoveries |->
              IF k \in Root(recoveries, i)..i
              THEN [recoveries[k] EXCEPT !.phase = "rejoined"] ELSE recoveries[k]]
        /\ \A k \in Root(recoveries, i)..i : recoveries[k].phase = "closed"
    BY DEF ActivateRejoin
  <1>2. ASSUME NEW k \in DOMAIN recoveries, k \in Root(recoveries, i)..i
        PROVE  EntryRejoins(k, i, n)
    <2>1. recoveries'[k] = [recoveries[k] EXCEPT !.phase = "rejoined"]
      BY <1>1, <1>2
    <2>2. recoveries[k] \in Recovery
      BY Domains
    <2>3. /\ recoveries'[k].phase = "rejoined"
          /\ SameNext(recoveries[k], recoveries'[k])
          /\ SameVetoes(recoveries[k], recoveries'[k])
      BY <2>1, <2>2 DEF SameNext, SameEntry, SameVetoes, Recovery
    <2> QED BY <1>1, <1>2, <2>3 DEF EntryRejoins
  <1> QED BY <1>1, <1>2

LEMMA EntriesStep ==
    ASSUME IInv, Next
    PROVE  EntrySteps
  <1>0. /\ TypeOK /\ recoveries \in Seq(Recovery) /\ invitation \in Invitation
        /\ \A i \in DOMAIN replacements : replacements[i].next \in Offer
        /\ \A i \in DOMAIN recoveries :
              /\ recoveries[i] \in Recovery
              /\ recoveries[i].next # NoOffer => recoveries[i].next \in Offer
              /\ recoveries[i].offer \in Optional
    BY Domains DEF IInv, TypeOK, Recovery, Replacement, Optional
  <1>1. ASSUME UNCHANGED recoveries PROVE EntrySteps
    BY <1>1 DEF EntrySteps, EntryStep
  <1>2. CASE Talk
    BY <1>1, <1>2 DEF Talk, PrepareInvitation, InviteFromDelivery, JoinFromDelivery,
         AcceptDelivery, CompleteInvitation, SendChat, MarkInvitationFailed, ApprovePeer
  <1>3. CASE Rejoin
    <2>1. CASE BeginClose
      <3> DEFINE c == Closing(invitation.offer, FALSE, NoOffer)
      <3>1. c \in Recovery
        <4>1. invitation.offer \in Offer
          BY <1>0, <2>1, ChannelIs DEF BeginClose, IInv
        <4> QED BY <4>1, ClosingIs DEF Optional
      <3>2. recoveries' = Append(recoveries, c) /\ NewEntry(c)
        BY <2>1 DEF BeginClose, NewEntry
      <3> HIDE DEF c
      <3> QED BY <1>0, <3>1, <3>2, AddedEntry
    <2>2. CASE \E i \in DOMAIN recoveries : CompleteClose(i)
      <3>1. PICK i \in DOMAIN recoveries : CompleteClose(i)
        BY <2>2
      <3> DEFINE r == recoveries[i]
                 q == [r EXCEPT !.phase = "closed"]
      <3>2. recoveries' = [recoveries EXCEPT ![i] = q] /\ r.phase = "closing"
        BY <3>1 DEF CompleteClose
      <3>3. q.phase = "closed" /\ SameNext(r, q) /\ SameVetoes(r, q)
        BY <1>0 DEF SameNext, SameEntry, SameVetoes, Recovery
      <3>4. recoveries'[i] = q => EntryStep(i)
        BY <3>1, <3>2, <3>3 DEF EntryStep, EntryCloses
      <3> HIDE DEF q
      <3> QED BY <1>0, <3>2, <3>4, OneEntry
    <2>3. CASE \E i \in DOMAIN recoveries, n \in Offer : PrepareRejoin(i, n)
      <3>1. PICK i \in DOMAIN recoveries, n \in Offer : PrepareRejoin(i, n)
        BY <2>3
      <3> DEFINE r == recoveries[i]
                 q == [r EXCEPT !.next = n]
      <3>2. recoveries' = [recoveries EXCEPT ![i] = q]
        BY <3>1 DEF PrepareRejoin
      <3>3. /\ SamePhase(r, q) /\ q.next = n /\ q.successor_failed = r.successor_failed
            /\ SameVetoes(r, q)
        BY <1>0 DEF SamePhase, SameEntry, SameVetoes, Recovery
      <3>4. recoveries'[i] = q => EntryStep(i)
        BY <3>1, <3>2, <3>3 DEF EntryStep, EntryPrepares
      <3> HIDE DEF q
      <3> QED BY <1>0, <3>2, <3>4, OneEntry
    <2>4. CASE \E i \in DOMAIN recoveries, n \in Offer : ActivateRejoin(i, n)
      <3>1. PICK i \in DOMAIN recoveries, n \in Offer : ActivateRejoin(i, n)
        BY <2>4
      <3> QED BY <1>0, <3>1, RejoinedEntries DEF EntrySteps, EntryStep
    <2>5. ASSUME NEW i \in DOMAIN recoveries, MarkRejoinFailed(i) \/ BeginRejoinRecovery(i),
                 CanFailRejoin(i), NEW q, q = [recoveries[i] EXCEPT !.successor_failed = TRUE],
                 recoveries'[i] = q
          PROVE  EntryFails(i)
      <3>1. /\ SamePhase(recoveries[i], q) /\ q.next = recoveries[i].next
            /\ q.successor_failed /\ SameVetoes(recoveries[i], q)
        BY <1>0, <2>5 DEF SamePhase, SameEntry, SameVetoes, Recovery
      <3> QED BY <2>5, <3>1 DEF EntryFails
    <2>6. CASE \E i \in DOMAIN recoveries : MarkRejoinFailed(i)
      <3>1. PICK i \in DOMAIN recoveries : MarkRejoinFailed(i)
        BY <2>6
      <3> DEFINE q == [recoveries[i] EXCEPT !.successor_failed = TRUE]
      <3>2. recoveries' = [recoveries EXCEPT ![i] = q] /\ CanFailRejoin(i)
        BY <3>1 DEF MarkRejoinFailed
      <3>3. recoveries'[i] = q => EntryStep(i)
        BY <2>5, <3>1, <3>2 DEF EntryStep
      <3> HIDE DEF q
      <3> QED BY <1>0, <3>2, <3>3, OneEntry
    <2>7. CASE \E i \in DOMAIN recoveries : BeginRejoinRecovery(i)
      <3>1. PICK i \in DOMAIN recoveries : BeginRejoinRecovery(i)
        BY <2>7
      <3> DEFINE q == [recoveries[i] EXCEPT !.successor_failed = TRUE]
                 rs == [recoveries EXCEPT ![i] = q]
                 c == Closing(recoveries[i].next, FALSE, recoveries[i].offer)
                 m == Len(recoveries)
      <3>2. recoveries' = Append(rs, c) /\ CanFailRejoin(i)
        BY <3>1 DEF BeginRejoinRecovery
      <3>3. recoveries[i].next \in Offer /\ i = m
        BY <1>0, <3>2 DEF CanFailRejoin
      <3>4. recoveries'[i] = q => EntryFails(i)
        BY <2>5, <3>1, <3>2
      <3>5. q \in Recovery /\ c \in Recovery
        <4>1. c \in Recovery
          BY <1>0, <3>3, ClosingIs
        <4>2. q \in Recovery
          BY <1>0 DEF Recovery
        <4> QED BY <4>1, <4>2
      <3>6. EntryFails(i) => NewEntry(c)
        BY <3>1, <3>3 DEF NewEntry
      <3> HIDE DEF q, c
      <3>7. /\ rs \in Seq(Recovery) /\ DOMAIN rs = DOMAIN recoveries /\ Len(rs) = m
            /\ rs[i] = q /\ \A k \in DOMAIN recoveries : k # i => rs[k] = recoveries[k]
        BY <1>0, <3>5, Updated
      <3> HIDE DEF rs
      <3>8. /\ DOMAIN recoveries' = DOMAIN recoveries \cup {m + 1}
            /\ m + 1 \notin DOMAIN recoveries
            /\ Len(recoveries') = m + 1 /\ recoveries'[m + 1] = c
            /\ \A k \in DOMAIN recoveries : recoveries'[k] = rs[k]
        BY <3>2, <3>5, <3>7, Appended
      <3>9. EntryFails(i) /\ \A k \in DOMAIN recoveries : EntryStep(k)
        BY <3>4, <3>7, <3>8 DEF EntryStep
      <3> QED BY <3>6, <3>8, <3>9 DEF EntrySteps
    <2>8. CASE \E i \in DOMAIN recoveries : BeginCancelRejoin(i)
      <3>1. PICK i \in DOMAIN recoveries : BeginCancelRejoin(i)
        BY <2>8
      <3> DEFINE r == recoveries[i]
                 cs == Append(r.cancellations, [next |-> r.next, outcome |-> "pending"])
                 q == [r EXCEPT !.cancellations = cs]
      <3>2. recoveries' = [recoveries EXCEPT ![i] = q]
        BY <3>1 DEF BeginCancelRejoin
      <3>3. SamePhase(r, q) /\ SameNext(r, q) /\ q.cancellations = cs
        BY <1>0 DEF SamePhase, SameEntry, SameNext, Recovery
      <3>4. recoveries'[i] = q => EntryStep(i)
        BY <3>1, <3>2, <3>3 DEF EntryStep, EntryCancels
      <3> HIDE DEF q
      <3> QED BY <1>0, <3>2, <3>4, OneEntry
    <2>9. CASE \E i \in DOMAIN recoveries : \E v \in {"cancelled", "admitted"} :
                  FinishCancelRejoin(i, v)
      <3>1. PICK i \in DOMAIN recoveries, v \in {"cancelled", "admitted"} :
               FinishCancelRejoin(i, v)
        BY <2>9
      <3> DEFINE r == recoveries[i]
                 cs == [r.cancellations EXCEPT ![Len(r.cancellations)].outcome = v]
                 nx == IF v = "cancelled" THEN NoOffer ELSE r.next
                 sf == IF v = "cancelled" THEN FALSE ELSE r.successor_failed
                 q == [r EXCEPT !.cancellations = cs, !.next = nx, !.successor_failed = sf]
      <3>2. recoveries' = [recoveries EXCEPT ![i] = q]
        BY <3>1 DEF FinishCancelRejoin
      <3>3. /\ SamePhase(r, q) /\ q.next = nx /\ q.successor_failed = sf
            /\ q.cancellations = cs
        <4> HIDE DEF cs, nx, sf
        <4> QED BY <1>0 DEF SamePhase, SameEntry, Recovery
      <3>4. recoveries'[i] = q => EntryStep(i)
        BY <3>1, <3>2, <3>3 DEF EntryStep, EntryCancelled
      <3> HIDE DEF q
      <3> QED BY <1>0, <3>2, <3>4, OneEntry
    <2> QED BY <1>3, <2>1, <2>2, <2>3, <2>4, <2>6, <2>7, <2>8, <2>9 DEF Rejoin
  <1>4. CASE Replace
    <2>1. CASE \E i \in DOMAIN replacements : BeginReplacementRecovery(i)
      <3>1. PICK i \in DOMAIN replacements : BeginReplacementRecovery(i)
        BY <2>1
      <3> DEFINE c == Closing(replacements[i].next, TRUE, NoOffer)
      <3>2. recoveries' = Append(recoveries, c) /\ NewEntry(c)
        BY <3>1 DEF BeginReplacementRecovery, NewEntry
      <3>3. c \in Recovery
        BY <1>0, ClosingIs DEF Optional
      <3> HIDE DEF c
      <3> QED BY <1>0, <3>2, <3>3, AddedEntry
    <2>2. ASSUME NEW i, NEW v, FinishCancelReplacement(i, v) \/ Cancelled(i, v)
          PROVE  UNCHANGED recoveries
      BY <2>2 DEF FinishCancelReplacement, Cancelled
    <2> QED BY <1>1, <1>4, <2>1, <2>2 DEF Replace, PrepareReplacement, AttestPredecessor,
         Consent, ActivateReplacement, BeginCancelReplacement,
         ObserveReplacementCancelled, MarkReplacementFailed, BeginStop, CompleteStop
  <1> QED BY <1>2, <1>3, <1>4 DEF Next

-----------------------------------------------------------------------------
(* The invariant of the recoveries.                                        *)

\* One entry of the ledger: what was vetoed and what is being vetoed.
Vetoes(r) ==
    \A k \in DOMAIN r.cancellations :
        LET c == r.cancellations[k]
        IN
        /\ IsSuccessor(r.offer, c.next)
        /\ \A j \in 1..(k - 1) : r.cancellations[j].next # c.next
        /\ c.outcome # "cancelled" => k = Len(r.cancellations) /\ r.next = c.next
        /\ c.outcome = "cancelled" => r.next # c.next
        /\ c.outcome = "pending" => r.phase = "closed"
EntriesOK ==
    \A k \in DOMAIN recoveries :
        /\ recoveries[k].successor_failed \/ recoveries[k].phase = "rejoined" =>
              recoveries[k].next # NoOffer
        /\ Vetoes(recoveries[k])

\* An entry that goes on from a failed successor stands next to it.
LinkOK(rs, k) ==
    /\ k - 1 \in DOMAIN rs
    /\ rs[k - 1].offer = rs[k].deferred_from
    /\ rs[k - 1].successor_failed
    /\ rs[k - 1].next = rs[k].offer
    /\ rs[k - 1].phase \in {"closed", "rejoined"}
    /\ (rs[k - 1].phase = "rejoined") = (rs[k].phase = "rejoined")
    /\ ~CancelPending(rs[k - 1])
LinksOK ==
    \A k \in DOMAIN recoveries :
        recoveries[k].deferred_from # NoOffer => LinkOK(recoveries, k)

\* The recovery of a replacement's target.
TargetsOK ==
    \A k \in DOMAIN recoveries : recoveries[k].replacement =>
        \E j \in DOMAIN replacements :
           /\ replacements[j].next = recoveries[k].offer
           /\ replacements[j].phase \in {"recovering", "abandoned", "active"}

\* The service knows the predecessor of every replacement that was decided, and
\* has admitted the successor of every channel that was rejoined.
Linked(k) ==
    /\ k + 1 \in DOMAIN recoveries
    /\ recoveries[k + 1].deferred_from = recoveries[k].offer
DecidedOK ==
    /\ \A j \in DOMAIN replacements :
          replacements[j].phase \notin {"prepared", "consented", "cancelling"} =>
              Under(replacements[j].next, replacements[j].previous)
    /\ \A k \in DOMAIN recoveries : recoveries[k].phase = "rejoined" =>
          Linked(k) \/ rows[recoveries[k].next].verdict = "admitted"

\* The channels that this device has been in, or may be in next.
Known(o) ==
    /\ o # NoOffer
    /\ \/ o = invitation.offer
       \/ \E k \in DOMAIN recoveries : o \in {recoveries[k].offer, recoveries[k].next}
       \/ \E j \in DOMAIN replacements : o = replacements[j].next
\* They are routes to a key of the peer that is not newer than the one accepted.
KnownOK == \A o \in Offer : Known(o) => o.own /\ o.peer <= trusted
\* A replacement leads to a newer key, and to none older than the one before.
RanksGrow ==
    /\ \A j \in DOMAIN replacements : Known(replacements[j].previous) =>
          replacements[j].previous.peer < replacements[j].next.peer
    /\ \A i, j \in DOMAIN replacements : i < j =>
          replacements[i].next.peer <= replacements[j].next.peer

\* Where the conversation stands: the last recovery that nothing has replaced
\* is the current channel's, and what is replaced next is that channel.
BeforeFirst ==
    invitation = NoInvitation =>
        /\ recoveries = <<>>
        /\ replacements # <<>> => Replacing \/ OpenStops # {}
CurrentIsLast == Unreplaced => invitation.offer = Last(recoveries).offer
OriginCurrent ==
    /\ OpenStops = {}
    /\ Latest(replacements, LAMBDA r :
          r.phase \in {"prepared", "consented", "cancelling", "recovery_required"})
    => invitation = NoInvitation \/ invitation.offer = Last(replacements).previous
StopsAtLast ==
    OpenStops # {} /\ Unreplaced =>
        \E k \in OpenStops :
            \/ stops[k].previous = Last(recoveries).offer
            \/ Last(recoveries).offer \in ToSet(stops[k].chain)

\* What has taken the place of a recovery: its successor, a stop that was
\* retired with it, or a replacement.
StopRetired(o) ==
    \E k \in DOMAIN stops :
       /\ stops[k].phase = "retired"
       /\ Bridged(stops[k], recoveries, replacements)
       /\ o \in ToSet(stops[k].chain)
Superseded(o) ==
    \E j \in DOMAIN replacements :
       /\ replacements[j].phase \in {"active", "recovering", "abandoned"}
       /\ replacements[j].previous = o
Passed(k) ==
    recoveries[k].phase = "rejoined" \/ Linked(k) \/ StopRetired(recoveries[k].offer)
Succession ==
    \A k \in DOMAIN recoveries :
        k = Len(recoveries) \/ Passed(k) \/ Superseded(recoveries[k].offer)

\* A channel that was replaced led to an older key than everything after it.
Ranked ==
    \A j, k \in DOMAIN recoveries : j < k =>
        Passed(j) \/ recoveries[j].offer.peer < recoveries[k].offer.peer
Ahead ==
    invitation # NoInvitation /\ RecoveryOf(invitation.offer) = {} =>
        \A k \in DOMAIN recoveries :
            Passed(k) \/ recoveries[k].offer.peer < invitation.offer.peer

\* The successor of the last recovery is nowhere else yet.
FreshNext ==
    Latest(recoveries, LAMBDA r : r.phase # "rejoined" /\ r.next # NoOffer) =>
        LET n == Last(recoveries).next
        IN
        /\ RecoveryOf(n) = {}
        /\ \A j \in DOMAIN replacements : replacements[j].previous # n
        /\ \A k \in OpenStops : stops[k].previous # n

\* A successor that was vetoed is nowhere, and does not come back.
VetoesFinal ==
    \A o \in VetoedRejoins :
        /\ ~Known(o)
        /\ \A j \in DOMAIN replacements : replacements[j].previous # o
        /\ \A k \in OpenStops : stops[k].previous # o

RInv ==
    /\ EntriesOK
    /\ LinksOK
    /\ TargetsOK
    /\ DecidedOK
    /\ KnownOK
    /\ RanksGrow
    /\ BeforeFirst
    /\ CurrentIsLast
    /\ OriginCurrent
    /\ StopsAtLast
    /\ Succession
    /\ Ranked
    /\ Ahead
    /\ FreshNext
    /\ VetoesFinal

-----------------------------------------------------------------------------
(* The current channel, and entries by themselves and side by side.        *)

ChannelStep ==
    \/ invitation'.offer = invitation.offer
    \/ \E o \in Offer : PrepareInvitation(o) /\ invitation'.offer = o
    \/ \E x \in DOMAIN recoveries, n \in Offer :
          ActivateRejoin(x, n) /\ invitation'.offer = n
    \/ \E x \in DOMAIN recoveries :
          BeginRejoinRecovery(x) /\ invitation'.offer = recoveries[x].next
    \/ \E j \in DOMAIN replacements :
          ActivateReplacement(j) /\ invitation'.offer = replacements[j].next
    \/ \E j \in DOMAIN replacements :
          BeginReplacementRecovery(j) /\ invitation'.offer = replacements[j].next

LEMMA ChannelSteps ==
    ASSUME IInv, Next
    PROVE  ChannelStep
  <1>0. /\ TypeOK /\ invitation \in Invitation
        /\ \A i \in DOMAIN replacements : replacements[i].next \in Offer
        /\ \A i \in DOMAIN recoveries :
              recoveries[i].next # NoOffer => recoveries[i].next \in Offer
    BY Domains DEF IInv, TypeOK, Recovery, Replacement, Optional
  <1>1. CASE invitation'.offer = invitation.offer
    BY <1>1 DEF ChannelStep
  <1>2. CASE Talk
    <2>1. CASE \E o \in Offer : PrepareInvitation(o)
      <3>1. PICK o \in Offer : PrepareInvitation(o)
        BY <2>1
      <3>2. invitation'.offer = o
        BY <3>1, FreshIs DEF PrepareInvitation
      <3> QED BY <3>1, <3>2 DEF ChannelStep
    <2>2. CASE ~\E o \in Offer : PrepareInvitation(o)
      <3>1. invitation'.offer = invitation.offer
        BY <1>0, <1>2, <2>2 DEF Talk, InviteFromDelivery, JoinFromDelivery, AcceptDelivery,
           CompleteInvitation, SendChat, MarkInvitationFailed, ApprovePeer, Invitation
      <3> QED BY <1>1, <3>1
    <2> QED BY <2>1, <2>2
  <1>3. CASE Rejoin
    <2>1. CASE \E x \in DOMAIN recoveries, n \in Offer : ActivateRejoin(x, n)
      <3>1. PICK x \in DOMAIN recoveries, n \in Offer : ActivateRejoin(x, n)
        BY <2>1
      <3>2. invitation'.offer = n
        BY <3>1, FreshIs DEF ActivateRejoin
      <3> QED BY <3>1, <3>2 DEF ChannelStep
    <2>2. CASE \E x \in DOMAIN recoveries : BeginRejoinRecovery(x)
      <3>1. PICK x \in DOMAIN recoveries : BeginRejoinRecovery(x)
        BY <2>2
      <3>2. recoveries[x].next \in Offer
        BY <1>0, <3>1 DEF BeginRejoinRecovery, CanFailRejoin
      <3>3. invitation'.offer = recoveries[x].next
        BY <3>1, <3>2, FreshIs DEF BeginRejoinRecovery
      <3> QED BY <3>1, <3>3 DEF ChannelStep
    <2>3. CASE \A x \in DOMAIN recoveries :
                  ~BeginRejoinRecovery(x) /\ \A n \in Offer : ~ActivateRejoin(x, n)
      <3>1. CASE BeginClose
        BY <1>1, <3>1 DEF BeginClose
      <3>2. ASSUME NEW i \in DOMAIN recoveries,
                   \/ CompleteClose(i) \/ MarkRejoinFailed(i) \/ BeginCancelRejoin(i)
                   \/ \E n \in Offer : PrepareRejoin(i, n)
                   \/ \E c \in {"cancelled", "admitted"} : FinishCancelRejoin(i, c)
            PROVE  invitation'.offer = invitation.offer
        BY <3>2 DEF CompleteClose, PrepareRejoin, MarkRejoinFailed, BeginCancelRejoin,
           FinishCancelRejoin
      <3>3. CASE \E i \in DOMAIN recoveries :
                   \/ CompleteClose(i)
                   \/ \E n \in Offer : PrepareRejoin(i, n) \/ ActivateRejoin(i, n)
                   \/ MarkRejoinFailed(i)
                   \/ BeginRejoinRecovery(i)
                   \/ BeginCancelRejoin(i)
                   \/ \E c \in {"cancelled", "admitted"} : FinishCancelRejoin(i, c)
        <4>1. PICK i \in DOMAIN recoveries :
                   \/ CompleteClose(i)
                   \/ \E n \in Offer : PrepareRejoin(i, n)
                   \/ MarkRejoinFailed(i)
                   \/ BeginCancelRejoin(i)
                   \/ \E c \in {"cancelled", "admitted"} : FinishCancelRejoin(i, c)
          <5>1. PICK i \in DOMAIN recoveries :
                   \/ CompleteClose(i)
                   \/ \E n \in Offer : PrepareRejoin(i, n) \/ ActivateRejoin(i, n)
                   \/ MarkRejoinFailed(i)
                   \/ BeginRejoinRecovery(i)
                   \/ BeginCancelRejoin(i)
                   \/ \E c \in {"cancelled", "admitted"} : FinishCancelRejoin(i, c)
            BY <3>3
          <5>2. ~BeginRejoinRecovery(i) /\ \A n \in Offer : ~ActivateRejoin(i, n)
            BY <2>3
          <5> QED BY <5>1, <5>2
        <4>2. invitation'.offer = invitation.offer
          BY <3>2, <4>1
        <4> QED BY <1>1, <4>2
      <3> QED BY <1>3, <3>1, <3>3 DEF Rejoin
    <2> QED BY <2>1, <2>2, <2>3
  <1>4. CASE Replace
    <2>1. CASE \E j \in DOMAIN replacements : ActivateReplacement(j)
      <3>1. PICK j \in DOMAIN replacements : ActivateReplacement(j)
        BY <2>1
      <3>2. invitation' = Fresh(replacements[j].next)
        BY <3>1 DEF ActivateReplacement
      <3>3. invitation'.offer = replacements[j].next
        BY <1>0, <3>2, FreshIs
      <3> QED BY <3>1, <3>3 DEF ChannelStep
    <2>2. CASE \E j \in DOMAIN replacements : BeginReplacementRecovery(j)
      <3>1. PICK j \in DOMAIN replacements : BeginReplacementRecovery(j)
        BY <2>2
      <3>2. invitation'.offer = replacements[j].next
        BY <1>0, <3>1, FreshIs DEF BeginReplacementRecovery
      <3> QED BY <3>1, <3>2 DEF ChannelStep
    <2>3. CASE ~\E j \in DOMAIN replacements :
                  ActivateReplacement(j) \/ BeginReplacementRecovery(j)
      <3>1. ASSUME NEW i, NEW v, FinishCancelReplacement(i, v) \/ Cancelled(i, v)
            PROVE  UNCHANGED invitation
        BY <3>1 DEF FinishCancelReplacement, Cancelled
      <3>2. UNCHANGED invitation
        BY <1>4, <2>3, <3>1 DEF Replace, PrepareReplacement, AttestPredecessor, Consent,
           BeginCancelReplacement, ObserveReplacementCancelled, MarkReplacementFailed,
           BeginStop, CompleteStop
      <3> QED BY <1>1, <3>2
    <2> QED BY <2>1, <2>2, <2>3
  <1> QED BY <1>2, <1>3, <1>4 DEF Next

\* The links of a chain that is rejoined.
LEMMA RejoinedLinks ==
    ASSUME TypeOK, LinksOK, NEW x \in DOMAIN recoveries, NEW n \in Offer,
           ActivateRejoin(x, n)
    PROVE  /\ x \in Nat /\ Root(recoveries, x) \in 1..x
           /\ recoveries[Root(recoveries, x)].deferred_from = NoOffer
           /\ recoveries[x].next = n /\ ~CancelPending(recoveries[x])
           /\ ~recoveries[x].successor_failed
           /\ \A k \in Root(recoveries, x)..x : k # x =>
                 /\ recoveries[k].next = recoveries[k + 1].offer
                 /\ ~CancelPending(recoveries[k])
                 /\ Linked(k)
  <1>0. x \in Nat /\ DOMAIN recoveries = 1..Len(recoveries) /\ Len(recoveries) \in Nat
    BY Domains
  <1>1. /\ ChainOK(recoveries, x) /\ recoveries[x].next = n
        /\ ~CancelPending(recoveries[x]) /\ ~recoveries[x].successor_failed
    BY DEF ActivateRejoin, CanRejoin
  <1>2. PICK g \in 1..x : g = Root(recoveries, x) /\ IsRoot(recoveries, x, g)
    BY <1>0, <1>1, RootIs DEF ChainOK
  <1>3. recoveries[g].deferred_from = NoOffer
    BY <1>2 DEF IsRoot
  <1>4. ASSUME NEW k \in g..x, k # x
        PROVE  /\ recoveries[k].next = recoveries[k + 1].offer
               /\ ~CancelPending(recoveries[k])
               /\ Linked(k)
    <2>1. k + 1 \in (g + 1)..x /\ k + 1 \in DOMAIN recoveries /\ (k + 1) - 1 = k
      BY <1>0, <1>4
    <2>2. recoveries[k + 1].deferred_from # NoOffer
      BY <1>2, <2>1 DEF IsRoot
    <2>3. LinkOK(recoveries, k + 1)
      BY <2>1, <2>2 DEF LinksOK
    <2> QED BY <2>1, <2>3 DEF LinkOK, Linked
  <1> QED BY <1>0, <1>1, <1>2, <1>3, <1>4

LEMMA VetoesKept ==
    ASSUME TypeOK, SuccessorsOK, EntriesOK, LinksOK,
           NEW k \in DOMAIN recoveries, EntryStep(k)
    PROVE  /\ recoveries'[k].successor_failed \/ recoveries'[k].phase = "rejoined" =>
                 recoveries'[k].next # NoOffer
           /\ Vetoes(recoveries'[k])
  <1> DEFINE r == recoveries[k]
             q == recoveries'[k]
             cs == r.cancellations
             m == Len(cs)
  <1>0. /\ r \in Recovery /\ cs \in Seq(Cancellation) /\ m \in Nat /\ DOMAIN cs = 1..m
        /\ \A j \in 1..m : cs[j] \in Cancellation /\ cs[j].next \in Offer
        /\ NoOffer \notin Offer /\ k \in Nat
        /\ r.next # NoOffer => IsSuccessor(r.offer, r.next)
    <2>1. r \in Recovery /\ k \in Nat
      BY Domains
    <2>2. cs \in Seq(Cancellation)
      BY <2>1 DEF Recovery
    <2>3. /\ m \in Nat /\ DOMAIN cs = 1..m
          /\ \A j \in 1..m : cs[j] \in Cancellation
      BY <2>2
    <2>4. \A c \in Cancellation : c.next \in Offer
      BY DEF Cancellation
    <2> QED BY <2>1, <2>2, <2>3, <2>4, OfferAssumption DEF SuccessorsOK
  <1>1. /\ r.successor_failed \/ r.phase = "rejoined" => r.next # NoOffer
        /\ Vetoes(r)
    BY DEF EntriesOK
  <1>2. \A j \in 1..m :
           /\ IsSuccessor(r.offer, cs[j].next)
           /\ \A h \in 1..(j - 1) : cs[h].next # cs[j].next
           /\ cs[j].outcome # "cancelled" => j = m /\ r.next = cs[j].next
           /\ cs[j].outcome = "cancelled" => r.next # cs[j].next
           /\ cs[j].outcome = "pending" => r.phase = "closed"
    BY <1>0, <1>1 DEF Vetoes
  <1>3. CASE q = r
    BY <1>1, <1>3
  <1>4. CASE EntryCloses(k)
    <2>1. Vetoes(q)
      BY <1>0, <1>2, <1>4 DEF EntryCloses, SameNext, SameEntry, SameVetoes, Vetoes
    <2> QED BY <1>1, <1>4, <2>1 DEF EntryCloses, SameNext
  <1>5. ASSUME NEW n \in Offer, EntryPrepares(k, n)
        PROVE  q.next # NoOffer /\ Vetoes(q)
    <2>1. r.next \in {NoOffer, n} /\ n \notin VetoedRejoins
      BY <1>5 DEF EntryPrepares, PrepareRejoin, CanRejoin
    <2>2. \A j \in 1..m : cs[j].outcome = "cancelled" => cs[j].next # n
      <3>1. SUFFICES ASSUME NEW j \in 1..m, cs[j].outcome = "cancelled", cs[j].next = n
                     PROVE  n \in VetoedRejoins
        BY <2>1
      <3>2. r \in ToSet(recoveries) /\ cs[j] \in ToSet(r.cancellations)
        BY <1>0 DEF ToSet
      <3> QED BY <3>1, <3>2 DEF VetoedRejoins
    <2>3. Vetoes(q)
      BY <1>0, <1>2, <1>5, <2>1, <2>2 DEF EntryPrepares, SamePhase, SameEntry, SameVetoes, Vetoes
    <2> QED BY <1>0, <1>5, <2>3 DEF EntryPrepares
  <1>6. ASSUME NEW x \in DOMAIN recoveries, NEW n \in Offer, EntryRejoins(k, x, n)
        PROVE  q.next # NoOffer /\ Vetoes(q)
    <2>1. /\ k \in Root(recoveries, x)..x /\ ActivateRejoin(x, n)
          /\ Root(recoveries, x) \in 1..x /\ x \in 1..Len(recoveries)
      BY <1>6, RejoinedLinks, Domains DEF EntryRejoins
    <2>2. r.next # NoOffer /\ ~CancelPending(r)
      <3>1. k # x => k + 1 \in DOMAIN recoveries
        BY <1>0, <2>1, Domains
      <3>2. k # x => recoveries[k + 1].offer \in Offer
        BY <3>1, Domains DEF Recovery
      <3> QED BY <1>0, <2>1, <3>2, RejoinedLinks
    <2>3. \A j \in 1..m : cs[j].outcome # "pending"
      <3>1. SUFFICES ASSUME NEW j \in 1..m, cs[j].outcome = "pending" PROVE FALSE
        OBVIOUS
      <3>2. j = m /\ cs # <<>>
        BY <1>0, <1>2, <3>1
      <3>3. Last(cs) = cs[m]
        BY DEF Last
      <3> QED BY <2>2, <3>1, <3>2, <3>3 DEF CancelPending
    <2>4. Vetoes(q)
      BY <1>0, <1>2, <1>6, <2>3 DEF EntryRejoins, SameNext, SameEntry, SameVetoes, Vetoes
    <2> QED BY <1>6, <2>2, <2>4 DEF EntryRejoins, SameNext
  <1>7. CASE EntryFails(k)
    <2>1. q.next # NoOffer
      BY <1>7 DEF EntryFails, CanFailRejoin
    <2>2. Vetoes(q)
      BY <1>0, <1>2, <1>7 DEF EntryFails, SamePhase, SameEntry, SameVetoes, Vetoes
    <2> QED BY <2>1, <2>2
  <1>8. CASE EntryCancels(k)
    <2> DEFINE c == [next |-> r.next, outcome |-> "pending"]
    <2>1. /\ r.phase = "closed" /\ r.next # NoOffer
          /\ \A j \in 1..m : cs[j].next # r.next
      <3>1. \A j \in 1..m : cs[j] \in ToSet(cs)
        BY <1>0 DEF ToSet
      <3> QED BY <1>8, <3>1 DEF EntryCancels, BeginCancelRejoin, CanCancelRejoin
    <2>2. /\ Len(Append(cs, c)) = m + 1 /\ DOMAIN Append(cs, c) = 1..(m + 1)
          /\ Append(cs, c)[m + 1] = c /\ \A j \in 1..m : Append(cs, c)[j] = cs[j]
      BY <1>0
    <2>3. /\ q.cancellations = Append(cs, c) /\ q.next = r.next /\ q.offer = r.offer
          /\ q.phase = r.phase /\ q.successor_failed = r.successor_failed
      BY <1>8 DEF EntryCancels, SamePhase, SameEntry, SameNext
    <2>4. c.next = r.next /\ c.outcome = "pending"
      OBVIOUS
    <2> HIDE DEF c
    <2>5. ASSUME NEW j \in 1..(m + 1)
          PROVE  LET d == q.cancellations[j]
                 IN  /\ IsSuccessor(q.offer, d.next)
                     /\ \A h \in 1..(j - 1) : q.cancellations[h].next # d.next
                     /\ d.outcome # "cancelled" => j = m + 1 /\ q.next = d.next
                     /\ d.outcome = "cancelled" => q.next # d.next
                     /\ d.outcome = "pending" => q.phase = "closed"
      <3>1. CASE j = m + 1
        BY <1>0, <2>1, <2>2, <2>3, <2>4, <3>1
      <3>2. CASE j # m + 1
        <4>1. j \in 1..m /\ q.cancellations[j] = cs[j]
              /\ \A h \in 1..(j - 1) : q.cancellations[h] = cs[h]
          BY <1>0, <2>2, <2>3, <3>2
        <4> QED BY <1>2, <2>1, <2>3, <4>1
      <3> QED BY <3>1, <3>2
    <2>6. Vetoes(q)
      BY <2>2, <2>3, <2>5 DEF Vetoes
    <2> QED BY <2>1, <2>3, <2>6
  <1>9. ASSUME NEW v \in {"cancelled", "admitted"}, EntryCancelled(k, v)
        PROVE  /\ q.successor_failed \/ q.phase = "rejoined" => q.next # NoOffer
               /\ Vetoes(q)
    <2> DEFINE ds == [cs EXCEPT ![m].outcome = v]
    <2>1. /\ q.cancellations = ds /\ q.offer = r.offer /\ q.phase = r.phase
          /\ q.next = (IF v = "cancelled" THEN NoOffer ELSE r.next)
          /\ q.successor_failed = (IF v = "cancelled" THEN FALSE ELSE r.successor_failed)
          /\ CancelPending(r) /\ r.phase = "closed"
      BY <1>9 DEF EntryCancelled, SamePhase, SameEntry, FinishCancelRejoin, CanCancelRejoin
    <2>2. m \in 1..m /\ cs[m].outcome = "pending"
      BY <1>0, <2>1 DEF CancelPending, Last
    <2>3. /\ Len(ds) = m /\ DOMAIN ds = 1..m
          /\ ds[m].next = cs[m].next /\ ds[m].outcome = v
          /\ \A j \in 1..m : j # m => ds[j] = cs[j]
      <3>1. ds = [cs EXCEPT ![m] = [cs[m] EXCEPT !.outcome = v]]
        BY <1>0
      <3>2. /\ [cs[m] EXCEPT !.outcome = v] \in Cancellation
            /\ [cs[m] EXCEPT !.outcome = v].next = cs[m].next
            /\ [cs[m] EXCEPT !.outcome = v].outcome = v
        BY <1>0, <2>2 DEF Cancellation
      <3> QED BY <1>0, <2>2, <3>1, <3>2
    <2> HIDE DEF ds
    <2>4. \A j \in 1..m : j # m => cs[j].outcome = "cancelled"
      BY <1>2
    <2>5. \A j \in 1..m : ds[j].next = cs[j].next
      BY <2>3
    <2>6. ASSUME NEW j \in 1..m
          PROVE  /\ IsSuccessor(q.offer, ds[j].next)
                 /\ \A h \in 1..(j - 1) : ds[h].next # ds[j].next
                 /\ ds[j].outcome # "cancelled" => j = m /\ q.next = ds[j].next
                 /\ ds[j].outcome = "cancelled" => q.next # ds[j].next
                 /\ ds[j].outcome = "pending" => q.phase = "closed"
      <3>1. \A h \in 1..(j - 1) : h \in 1..m
        BY <1>0
      <3>2. \A h \in 1..(j - 1) : ds[h].next # ds[j].next
        BY <1>2, <2>5, <3>1
      <3>3. v = "cancelled" => q.next # ds[j].next /\ ds[j].outcome = "cancelled"
        BY <1>0, <2>1, <2>3, <2>4, <2>5
      <3>4. v = "admitted" => q.next = r.next /\ (j = m => ds[j].outcome = "admitted")
        BY <2>1, <2>3
      <3>5. j # m => ds[j] = cs[j] /\ cs[j].outcome = "cancelled"
        BY <2>3, <2>4
      <3>6. cs[m].outcome = "pending" => r.next = cs[m].next
        BY <1>2, <2>2
      <3> QED BY <1>2, <2>1, <2>2, <2>5, <3>2, <3>3, <3>4, <3>5, <3>6
    <2>7. Vetoes(q)
      BY <2>1, <2>3, <2>6 DEF Vetoes
    <2>8. q.successor_failed \/ q.phase = "rejoined" => q.next # NoOffer
      BY <1>1, <2>1
    <2> QED BY <2>7, <2>8
  <1>10. \/ q = r \/ EntryCloses(k) \/ \E n \in Offer : EntryPrepares(k, n)
         \/ \E x \in DOMAIN recoveries, n \in Offer : EntryRejoins(k, x, n)
         \/ EntryFails(k) \/ EntryCancels(k)
         \/ \E c \in {"cancelled", "admitted"} : EntryCancelled(k, c)
    BY DEF EntryStep
  <1> QED BY <1>3, <1>4, <1>5, <1>6, <1>7, <1>8, <1>9, <1>10

LEMMA EntriesKept ==
    ASSUME TypeOK, SuccessorsOK, EntriesOK, LinksOK, EntrySteps
    PROVE  EntriesOK'
  <1>1. ASSUME NEW k \in DOMAIN recoveries', k \notin DOMAIN recoveries
        PROVE  /\ ~recoveries'[k].successor_failed /\ recoveries'[k].phase = "closing"
               /\ Vetoes(recoveries'[k])
    <2>1. NewEntry(recoveries'[k])
      BY <1>1 DEF EntrySteps
    <2>2. /\ ~recoveries'[k].successor_failed /\ recoveries'[k].phase = "closing"
          /\ recoveries'[k].cancellations = <<>>
      BY <2>1 DEF NewEntry, Closing
    <2> QED BY <2>2 DEF Vetoes
  <1>2. ASSUME NEW k \in DOMAIN recoveries
        PROVE  /\ recoveries'[k].successor_failed \/ recoveries'[k].phase = "rejoined" =>
                     recoveries'[k].next # NoOffer
               /\ Vetoes(recoveries'[k])
    <2>1. EntryStep(k)
      BY DEF EntrySteps
    <2> QED BY <2>1, VetoesKept
  <1> QED BY <1>1, <1>2 DEF EntriesOK

\* An entry that goes on from another one stays next to it.
LEMMA LinksKept ==
    ASSUME TypeOK, TypeOK', LinksOK, EntrySteps
    PROVE  LinksOK'
  <1>0. /\ DOMAIN recoveries = 1..Len(recoveries) /\ Len(recoveries) \in Nat
        /\ \A k \in DOMAIN recoveries : k \in Nat
        /\ \A k \in DOMAIN recoveries :
              recoveries[k] \in Recovery /\ recoveries[k].offer \in Offer
        /\ \A k \in DOMAIN recoveries : k \in DOMAIN recoveries' /\ EntryStep(k)
    <2>1. \A r \in Recovery : r.offer \in Offer
      BY DEF Recovery
    <2> QED BY <2>1, Domains DEF EntrySteps
  <1>1. ASSUME NEW k \in DOMAIN recoveries', k \notin DOMAIN recoveries,
               recoveries'[k].deferred_from # NoOffer
        PROVE  LinkOK(recoveries', k)
    <2>1. k = Len(recoveries) + 1 /\ NewEntry(recoveries'[k])
      BY <1>1 DEF EntrySteps
    <2>2. PICK i \in DOMAIN recoveries :
             /\ i = Len(recoveries) /\ EntryFails(i)
             /\ recoveries'[k] = Closing(recoveries[i].next, FALSE, recoveries[i].offer)
      <3>2. recoveries'[k] # Closing(invitation.offer, FALSE, NoOffer)
        <4>1. Closing(invitation.offer, FALSE, NoOffer).deferred_from = NoOffer
          BY DEF Closing
        <4> QED BY <1>1, <4>1
      <3>3. \A j \in DOMAIN replacements :
               recoveries'[k] # Closing(replacements[j].next, TRUE, NoOffer)
        <4> TAKE j \in DOMAIN replacements
        <4>1. Closing(replacements[j].next, TRUE, NoOffer).deferred_from = NoOffer
          BY DEF Closing
        <4> QED BY <1>1, <4>1
      <3> QED BY <2>1, <3>2, <3>3 DEF NewEntry
    <2>3. /\ recoveries'[k].offer = recoveries[i].next
          /\ recoveries'[k].deferred_from = recoveries[i].offer
          /\ recoveries'[k].phase = "closing"
      BY <2>2 DEF Closing
    <2>4. /\ recoveries[i].phase = "closed" /\ ~CancelPending(recoveries[i])
          /\ recoveries'[i].phase = "closed" /\ recoveries'[i].successor_failed
          /\ recoveries'[i].offer = recoveries[i].offer
          /\ recoveries'[i].next = recoveries[i].next
          /\ ~CancelPending(recoveries'[i])
      BY <2>2 DEF EntryFails, CanFailRejoin, SamePhase, SameEntry, SameVetoes, CancelPending
    <2>5. k - 1 = i /\ i \in DOMAIN recoveries'
      BY <1>0, <2>1, <2>2
    <2> QED BY <2>3, <2>4, <2>5 DEF LinkOK
  <1>2. ASSUME NEW k \in DOMAIN recoveries, recoveries'[k].deferred_from # NoOffer
        PROVE  LinkOK(recoveries', k)
    <2> DEFINE a == k - 1
               r == recoveries[a]
               q == recoveries'[a]
    <2>1. /\ SameEntry(recoveries[k], recoveries'[k])
          /\ \/ (recoveries'[k].phase = "rejoined") = (recoveries[k].phase = "rejoined")
             \/ \E x \in DOMAIN recoveries, n \in Offer : EntryRejoins(k, x, n)
      BY <1>0 DEF EntryStep, EntryCloses, EntryPrepares, EntryRejoins, EntryFails,
         EntryCancels, EntryCancelled, SamePhase, SameNext, SameEntry
    <2>2. recoveries[k].deferred_from # NoOffer /\ LinkOK(recoveries, k)
      BY <1>2, <2>1 DEF SameEntry, LinksOK
    <2>3. /\ a \in DOMAIN recoveries /\ a + 1 = k /\ a # Len(recoveries)
          /\ r.offer = recoveries[k].deferred_from /\ r.successor_failed
          /\ r.next = recoveries[k].offer /\ r.phase \in {"closed", "rejoined"}
          /\ (r.phase = "rejoined") = (recoveries[k].phase = "rejoined")
          /\ ~CancelPending(r)
      BY <1>0, <2>2 DEF LinkOK
    <2> HIDE DEF a
    <2>4. q = r \/ \E x \in DOMAIN recoveries, n \in Offer : EntryRejoins(a, x, n)
      <3>1. EntryStep(a)
        BY <1>0, <2>3
      <3>2. ~EntryCloses(a)
        BY <2>3 DEF EntryCloses
      <3>3. \A n \in Offer : ~EntryPrepares(a, n)
        BY <2>3 DEF EntryPrepares, PrepareRejoin, CanRejoin
      <3>4. ~EntryFails(a) /\ ~EntryCancels(a)
        BY <2>3 DEF EntryFails, CanFailRejoin, EntryCancels, BeginCancelRejoin, CanCancelRejoin
      <3>5. \A c : ~EntryCancelled(a, c)
        BY <2>3 DEF EntryCancelled, FinishCancelRejoin, CanCancelRejoin
      <3> QED BY <3>1, <3>2, <3>3, <3>4, <3>5 DEF EntryStep
    <2>5. ASSUME NEW x \in DOMAIN recoveries, NEW n \in Offer,
                 EntryRejoins(a, x, n) \/ EntryRejoins(k, x, n)
          PROVE  EntryRejoins(a, x, n) /\ EntryRejoins(k, x, n)
      <3>1. ActivateRejoin(x, n)
        BY <2>5 DEF EntryRejoins
      <3>2. /\ x \in Nat /\ Root(recoveries, x) \in 1..x
            /\ recoveries[Root(recoveries, x)].deferred_from = NoOffer
            /\ ~recoveries[x].successor_failed
        BY <3>1, RejoinedLinks
      <3>3. a \in Root(recoveries, x)..x \/ k \in Root(recoveries, x)..x
        BY <2>5 DEF EntryRejoins
      <3>4. a # x /\ k # Root(recoveries, x)
        BY <2>2, <2>3, <3>2
      <3>5. a \in Nat /\ k \in Nat
        BY <1>0, <2>3
      <3>6. a \in Root(recoveries, x)..x /\ k \in Root(recoveries, x)..x
        BY <2>3, <3>2, <3>3, <3>4, <3>5
      <3> QED BY <2>3, <3>1, <3>6, RejoinedEntries
    <2>6. /\ q.offer = r.offer /\ q.next = r.next /\ q.successor_failed = r.successor_failed
          /\ q.phase \in {"closed", "rejoined"} /\ ~CancelPending(q)
      BY <2>3, <2>4 DEF EntryRejoins, SameNext, SameEntry, SameVetoes, CancelPending
    <2>7. (q.phase = "rejoined") = (recoveries'[k].phase = "rejoined")
      BY <2>1, <2>3, <2>4, <2>5 DEF EntryRejoins
    <2>8. a \in DOMAIN recoveries'
      BY <1>0, <2>3
    <2> QED BY <2>1, <2>3, <2>6, <2>7, <2>8 DEF LinkOK, SameEntry, a
  <1> QED BY <1>1, <1>2 DEF LinksOK

\* The recovery of a replacement's target stays one.
LEMMA TargetsStep ==
    ASSUME IInv, Next, TargetsOK, EntrySteps
    PROVE  TargetsOK'
  <1>1. \A j \in DOMAIN replacements :
           /\ j \in DOMAIN replacements'
           /\ replacements'[j].next = replacements[j].next
           /\ replacements[j].phase \in {"recovering", "abandoned", "active"} =>
                 replacements'[j].phase \in {"recovering", "abandoned", "active"}
    <2>1. CASE ReplacementsKept
      BY <2>1 DEF ReplacementsKept, KeptReplacement
    <2>2. CASE \E p, n \in Offer : PrepareReplacement(p, n)
      <3>1. PICK q : replacements' = Append(replacements, q)
        BY <2>2 DEF PrepareReplacement
      <3> QED BY <3>1 DEF IInv, TypeOK
    <2> QED BY <2>1, <2>2, NextKeeps
  <1>2. ASSUME NEW k \in DOMAIN recoveries', recoveries'[k].replacement
        PROVE  \E j \in DOMAIN replacements' :
                  /\ replacements'[j].next = recoveries'[k].offer
                  /\ replacements'[j].phase \in {"recovering", "abandoned", "active"}
    <2>1. CASE k \in DOMAIN recoveries
      <3>1. SameEntry(recoveries[k], recoveries'[k])
        BY <2>1 DEF EntrySteps, EntryStep, EntryCloses, EntryPrepares, EntryRejoins,
           EntryFails, EntryCancels, EntryCancelled, SamePhase, SameNext, SameEntry
      <3>2. PICK j \in DOMAIN replacements :
               /\ replacements[j].next = recoveries[k].offer
               /\ replacements[j].phase \in {"recovering", "abandoned", "active"}
        BY <1>2, <2>1, <3>1 DEF SameEntry, TargetsOK
      <3> QED BY <1>1, <3>1, <3>2 DEF SameEntry
    <2>2. CASE k \notin DOMAIN recoveries
      <3>1. NewEntry(recoveries'[k])
        BY <2>2 DEF EntrySteps
      <3>2. PICK j \in DOMAIN replacements :
               /\ BeginReplacementRecovery(j)
               /\ recoveries'[k] = Closing(replacements[j].next, TRUE, NoOffer)
        BY <1>2, <3>1 DEF NewEntry, Closing
      <3>3. recoveries'[k].offer = replacements[j].next
        BY <3>2 DEF Closing
      <3>4. replacements'[j] = [replacements[j] EXCEPT !.phase = "recovering"]
        BY <3>2 DEF BeginReplacementRecovery, IInv, TypeOK
      <3>5. replacements'[j].phase = "recovering"
        BY <3>4, PhaseIs, Domains DEF IInv
      <3> QED BY <1>1, <3>3, <3>5
    <2> QED BY <2>1, <2>2
  <1> QED BY <1>2 DEF TargetsOK

LEMMA EntriesSame ==
    ASSUME EntrySteps, NEW k \in DOMAIN recoveries
    PROVE  /\ k \in DOMAIN recoveries' /\ SameEntry(recoveries[k], recoveries'[k])
           /\ recoveries[k].phase = "rejoined" => recoveries'[k] = recoveries[k]
           /\ recoveries[k].phase # "rejoined" /\ recoveries'[k].phase = "rejoined" =>
                 \E x \in DOMAIN recoveries, n \in Offer : EntryRejoins(k, x, n)
  <1>1. EntryStep(k) /\ k \in DOMAIN recoveries'
    BY DEF EntrySteps
  <1>2. SameEntry(recoveries[k], recoveries'[k])
    BY <1>1 DEF EntryStep, EntryCloses, EntryPrepares, EntryRejoins, EntryFails,
       EntryCancels, EntryCancelled, SamePhase, SameNext, SameEntry
  <1>3. recoveries[k].phase = "rejoined" => recoveries'[k] = recoveries[k]
    BY <1>1 DEF EntryStep, EntryCloses, EntryPrepares, PrepareRejoin, CanRejoin,
       EntryRejoins, EntryFails, CanFailRejoin, EntryCancels, BeginCancelRejoin,
       EntryCancelled, FinishCancelRejoin, CanCancelRejoin
  <1>4. recoveries[k].phase # "rejoined" /\ recoveries'[k].phase = "rejoined" =>
           \E x \in DOMAIN recoveries, n \in Offer : EntryRejoins(k, x, n)
    BY <1>1 DEF EntryStep, EntryCloses, EntryPrepares, EntryFails, EntryCancels,
       EntryCancelled, SamePhase
  <1> QED BY <1>1, <1>2, <1>3, <1>4

LEMMA LinkedStays ==
    ASSUME IInv, EntrySteps, NEW k \in DOMAIN recoveries, Linked(k)
    PROVE  Linked(k)'
  <1>1. /\ k + 1 \in DOMAIN recoveries
        /\ recoveries[k + 1].deferred_from = recoveries[k].offer
    BY DEF Linked
  <1>2. /\ SameEntry(recoveries[k], recoveries'[k]) /\ k + 1 \in DOMAIN recoveries'
        /\ SameEntry(recoveries[k + 1], recoveries'[k + 1])
    BY <1>1, EntriesSame
  <1> QED BY <1>1, <1>2 DEF SameEntry, Linked

\* A replacement is decided by an answer of the service, or by a stop.
UndecidedPhase(r) == r.phase \in {"prepared", "consented", "cancelling"}
Decides(j) ==
    \/ \E v \in {"waiting", "admitted", "cancelled"} :
          Answers(replacements[j].previous, replacements[j].next, v)
    \/ \E k \in OpenStops : replacements[j].next = stops[k].next

LEMMA OneDecided ==
    ASSUME IInv, NEW i \in DOMAIN replacements, NEW q,
           replacements' = [replacements EXCEPT ![i] = q],
           Decides(i) \/ UndecidedPhase(q),
           NEW j \in DOMAIN replacements, UndecidedPhase(replacements[j])
    PROVE  UndecidedPhase(replacements'[j]) \/ Decides(j)
  <1>1. replacements'[j] = IF j = i THEN q ELSE replacements[j]
    BY DEF IInv, TypeOK
  <1> QED BY <1>1

LEMMA DecidedBy ==
    ASSUME IInv, Next, NEW j \in DOMAIN replacements, UndecidedPhase(replacements[j])
    PROVE  UndecidedPhase(replacements'[j]) \/ Decides(j)
  <1>0. replacements \in Seq(Replacement) /\ \A i \in DOMAIN replacements :
           replacements[i] \in Replacement
    BY Domains DEF IInv, TypeOK
  <1>1. CASE replacements'[j] = replacements[j]
    BY <1>1 DEF UndecidedPhase
  <1>2. ASSUME NEW i \in DOMAIN replacements, NEW q,
               replacements' = [replacements EXCEPT ![i] = q],
               Decides(i) \/ UndecidedPhase(q)
        PROVE  UndecidedPhase(replacements'[j]) \/ Decides(j)
    BY <1>2, OneDecided
  <1>3. CASE Talk
    BY <1>1, <1>3 DEF Talk, PrepareInvitation, InviteFromDelivery, JoinFromDelivery,
       AcceptDelivery, CompleteInvitation, SendChat, MarkInvitationFailed, ApprovePeer
  <1>4. CASE Rejoin
    <2>1. ASSUME NEW i \in DOMAIN recoveries, CompleteClose(i)
          PROVE  replacements'[j] = replacements[j]
      BY <2>1 DEF CompleteClose, UndecidedPhase
    <2>2. ASSUME NEW i \in DOMAIN recoveries, NEW n \in Offer, ActivateRejoin(i, n)
          PROVE  replacements'[j] = replacements[j]
      <3>1. j \notin Deferred(i)
        BY <2>2 DEF ActivateRejoin, UndecidedPhase
      <3> QED BY <2>2, <3>1 DEF ActivateRejoin
    <2>3. CASE BeginClose
      BY <1>1, <2>3 DEF BeginClose
    <2>4. ASSUME NEW i \in DOMAIN recoveries,
                   \/ CompleteClose(i)
                   \/ \E n \in Offer : PrepareRejoin(i, n) \/ ActivateRejoin(i, n)
                   \/ MarkRejoinFailed(i)
                   \/ BeginRejoinRecovery(i)
                   \/ BeginCancelRejoin(i)
                   \/ \E c \in {"cancelled", "admitted"} : FinishCancelRejoin(i, c)
          PROVE  replacements'[j] = replacements[j]
      BY <2>1, <2>2, <2>4 DEF PrepareRejoin, MarkRejoinFailed, BeginRejoinRecovery,
         BeginCancelRejoin, FinishCancelRejoin
    <2> QED BY <1>1, <1>4, <2>3, <2>4 DEF Rejoin
  <1>5. CASE Replace
    <2>1. ASSUME NEW i \in DOMAIN replacements,
                 NEW ph \in {"consented", "active", "recovery_required", "recovering"},
                 replacements' = [replacements EXCEPT ![i].phase = ph],
                 Decides(i) \/ ph = "consented"
          PROVE  UndecidedPhase(replacements'[j]) \/ Decides(j)
      <3> DEFINE q == [replacements[i] EXCEPT !.phase = ph]
      <3>1. q.phase = ph
        BY <1>0, PhaseIs
      <3>2. replacements' = [replacements EXCEPT ![i] = q]
        BY <2>1
      <3>3. Decides(i) \/ UndecidedPhase(q)
        BY <2>1, <3>1 DEF UndecidedPhase
      <3> HIDE DEF q
      <3> QED BY <1>2, <3>2, <3>3
    <2>2. ASSUME NEW i \in DOMAIN replacements, NEW ph, NEW v,
                 replacements' = [replacements EXCEPT ![i].phase = ph, ![i].cancellation = v],
                 ph \in {"cancelled", "consented", "cancelling"},
                 Decides(i) \/ ph # "cancelled"
          PROVE  UndecidedPhase(replacements'[j]) \/ Decides(j)
      <3> DEFINE q == [replacements[i] EXCEPT !.phase = ph, !.cancellation = v]
      <3>1. q.phase = ph
        BY <1>0 DEF Replacement
      <3>2. replacements' = [replacements EXCEPT ![i] = q]
        BY <1>0, <2>2
      <3>3. Decides(i) \/ UndecidedPhase(q)
        BY <2>2, <3>1 DEF UndecidedPhase
      <3> HIDE DEF q
      <3> QED BY <1>2, <3>2, <3>3
    <2>3. CASE \E p, n \in Offer : PrepareReplacement(p, n)
      <3>1. PICK q : replacements' = Append(replacements, q)
        BY <2>3 DEF PrepareReplacement
      <3>2. replacements'[j] = replacements[j]
        BY <1>0, <3>1
      <3> QED BY <1>1, <3>2
    <2>4. ASSUME NEW i \in DOMAIN replacements, AttestPredecessor(i)
          PROVE  UndecidedPhase(replacements'[j]) \/ Decides(j)
      <3> DEFINE q == [replacements[i] EXCEPT !.confirmed = TRUE]
      <3>1. q.phase = replacements[i].phase
        BY <1>0 DEF Replacement
      <3>2. replacements' = [replacements EXCEPT ![i] = q] /\ UndecidedPhase(q)
        BY <2>4, <3>1 DEF AttestPredecessor, Pending, UndecidedPhase
      <3> HIDE DEF q
      <3> QED BY <1>2, <3>2
    <2>5. ASSUME NEW i \in DOMAIN replacements, Consent(i)
          PROVE  UndecidedPhase(replacements'[j]) \/ Decides(j)
      BY <2>1, <2>5 DEF Consent
    <2>6. ASSUME NEW i \in DOMAIN replacements, ActivateReplacement(i)
          PROVE  UndecidedPhase(replacements'[j]) \/ Decides(j)
      <3>1. /\ replacements' = [replacements EXCEPT ![i].phase = "active"]
            /\ Answers(replacements[i].previous, replacements[i].next, "admitted")
        BY <2>6 DEF ActivateReplacement
      <3> QED BY <2>1, <3>1 DEF Decides
    <2>7. ASSUME NEW i \in DOMAIN replacements, BeginCancelReplacement(i)
          PROVE  UndecidedPhase(replacements'[j]) \/ Decides(j)
      <3>1. \E ph \in {"cancelling"}, v \in {"pending"} :
               replacements' = [replacements EXCEPT ![i].phase = ph, ![i].cancellation = v]
        BY <2>7 DEF BeginCancelReplacement
      <3> QED BY <2>2, <3>1
    <2>8. ASSUME NEW i \in DOMAIN replacements, NEW c \in {"cancelled", "admitted"},
                 FinishCancelReplacement(i, c)
          PROVE  UndecidedPhase(replacements'[j]) \/ Decides(j)
      <3>1. Decides(i)
        BY <2>8 DEF FinishCancelReplacement, Decides
      <3>2. \E ph \in {"cancelled", "consented"} :
               replacements' = [replacements EXCEPT ![i].phase = ph, ![i].cancellation = c]
        BY <2>8 DEF FinishCancelReplacement, Cancelled
      <3> QED BY <2>2, <3>1, <3>2
    <2>9. ASSUME NEW i \in DOMAIN replacements, ObserveReplacementCancelled(i)
          PROVE  UndecidedPhase(replacements'[j]) \/ Decides(j)
      <3>1. Decides(i)
        BY <2>9 DEF ObserveReplacementCancelled, Decides
      <3>2. replacements' = [replacements EXCEPT ![i].phase = "cancelled",
                                ![i].cancellation = replacements[i].cancellation]
        BY <2>9 DEF ObserveReplacementCancelled, Cancelled
      <3> QED BY <2>2, <3>1, <3>2
    <2>10. ASSUME NEW i \in DOMAIN replacements,
                  MarkReplacementFailed(i) \/ BeginReplacementRecovery(i)
           PROVE  UndecidedPhase(replacements'[j]) \/ Decides(j)
      <3>1. Decides(i)
        BY <2>10 DEF MarkReplacementFailed, BeginReplacementRecovery, Decides
      <3>2. \E ph \in {"recovery_required", "recovering"} :
               replacements' = [replacements EXCEPT ![i].phase = ph]
        BY <2>10 DEF MarkReplacementFailed, BeginReplacementRecovery
      <3> QED BY <2>1, <3>1, <3>2
    <2>11. ASSUME NEW p \in Offer, NEW n \in Offer, BeginStop(p, n)
           PROVE  replacements'[j] = replacements[j]
      BY <2>11 DEF BeginStop
    <2>12. ASSUME NEW k \in DOMAIN stops, CompleteStop(k)
           PROVE  UndecidedPhase(replacements'[j]) \/ Decides(j)
      <3>1. k \in OpenStops
        BY <2>12 DEF CompleteStop, OpenStops
      <3>2. CASE replacements[j].next = stops[k].next
        BY <3>1, <3>2 DEF Decides
      <3>3. CASE replacements[j].next # stops[k].next
        <4>1. replacements'[j] = replacements[j]
          BY <2>12, <3>3 DEF CompleteStop
        <4> QED BY <1>1, <4>1
      <3> QED BY <3>2, <3>3
    <2> QED BY <1>1, <1>5, <2>3, <2>4, <2>5, <2>6, <2>7, <2>8, <2>9, <2>10, <2>11, <2>12
            DEF Replace
  <1> QED BY <1>3, <1>4, <1>5 DEF Next

LEMMA DecidedStep ==
    ASSUME IInv, Next, RowsOK, DecidedOK, EntriesOK, LinksOK, EntrySteps
    PROVE  DecidedOK'
  <1>0. /\ TypeOK /\ RowsKept /\ replacements \in Seq(Replacement)
        /\ \A j \in DOMAIN replacements : replacements[j].next \in Offer
        /\ \A k \in DOMAIN recoveries :
              recoveries[k].next # NoOffer => recoveries[k].next \in Offer
    BY RowsKeep, Domains DEF IInv, TypeOK, Replacement, Recovery, Optional
  <1>1. \A o \in Offer : \A p : Under(o, p) => Under(o, p)'
    BY <1>0 DEF Under, RowsKept
  <1>2. ASSUME NEW j \in DOMAIN replacements', ~UndecidedPhase(replacements'[j])
        PROVE  Under(replacements[j].next, replacements[j].previous)'
    <2>1. CASE j \in DOMAIN replacements
      <3>1. /\ replacements'[j].next = replacements[j].next
            /\ replacements'[j].previous = replacements[j].previous
        <4>1. CASE \E p, n \in Offer : PrepareReplacement(p, n)
          <5>1. PICK q : replacements' = Append(replacements, q)
            BY <4>1 DEF PrepareReplacement
          <5>2. replacements'[j] = replacements[j]
            BY <1>0, <2>1, <5>1
          <5> QED BY <5>2
        <4> QED BY <2>1, <4>1, NextKeeps DEF ReplacementsKept, KeptReplacement
      <3>2. CASE ~UndecidedPhase(replacements[j])
        <4>1. Under(replacements[j].next, replacements[j].previous)
          BY <2>1, <3>2 DEF DecidedOK, UndecidedPhase
        <4> QED BY <1>0, <1>1, <2>1, <3>1, <4>1 DEF Under
      <3>3. CASE UndecidedPhase(replacements[j])
        <4>1. Decides(j)
          BY <1>2, <2>1, <3>3, DecidedBy
        <4>2. CASE \E v \in {"waiting", "admitted", "cancelled"} :
                      Answers(replacements[j].previous, replacements[j].next, v)
          BY <1>0, <2>1, <3>1, <4>2, AnswersKept DEF Under
        <4>3. CASE \E k \in OpenStops : replacements[j].next = stops[k].next
          <5>1. PICK k \in OpenStops : replacements[j].next = stops[k].next
            BY <4>3
          <5>2. stops[k].previous = replacements[j].previous
            BY <2>1, <5>1 DEF IInv, StopsHold, ReplacementOf
          <5>3. Under(stops[k].next, stops[k].previous)
            BY <5>1 DEF RowsOK, OpenStops
          <5> QED BY <1>0, <1>1, <2>1, <3>1, <5>1, <5>2, <5>3 DEF Under
        <4> QED BY <4>1, <4>2, <4>3 DEF Decides
      <3> QED BY <3>2, <3>3
    <2>2. CASE j \notin DOMAIN replacements
      <3>1. PICK p \in Offer, n \in Offer : PrepareReplacement(p, n)
        BY <1>2, <2>2, NextKeeps DEF ReplacementsKept
      <3>2. replacements'[j].phase = "prepared"
        BY <1>0, <1>2, <2>2, <3>1 DEF PrepareReplacement
      <3> QED BY <1>2, <3>2 DEF UndecidedPhase
    <2> QED BY <2>1, <2>2
  <1>3. ASSUME NEW k \in DOMAIN recoveries', recoveries'[k].phase = "rejoined"
        PROVE  Linked(k)' \/ rows'[recoveries'[k].next].verdict = "admitted"
    <2>1. k \in DOMAIN recoveries
      <3>1. SUFFICES ASSUME k \notin DOMAIN recoveries PROVE FALSE
        OBVIOUS
      <3>2. NewEntry(recoveries'[k])
        BY <3>1 DEF EntrySteps
      <3> QED BY <1>3, <3>2 DEF NewEntry, Closing
    <2>2. CASE recoveries[k].phase = "rejoined"
      <3>1. recoveries'[k] = recoveries[k]
        BY <2>1, <2>2, EntriesSame
      <3>2. Linked(k) => Linked(k)'
        BY <2>1, LinkedStays
      <3>3. rows[recoveries[k].next].verdict = "admitted" \/ Linked(k)
        BY <2>1, <2>2 DEF DecidedOK
      <3>4. Linked(k) \/ rows'[recoveries[k].next].verdict = "admitted"
        <4>1. recoveries[k].next \in Offer
          BY <1>0, <2>1, <2>2 DEF EntriesOK
        <4> QED BY <1>0, <3>3, <4>1 DEF RowsKept
      <3> QED BY <3>1, <3>2, <3>4
    <2>3. CASE recoveries[k].phase # "rejoined"
      <3>1. PICK x \in DOMAIN recoveries, n \in Offer : EntryRejoins(k, x, n)
        BY <1>3, <2>1, <2>3, EntriesSame
      <3>2. ActivateRejoin(x, n) /\ k \in Root(recoveries, x)..x
            /\ recoveries'[k].next = recoveries[k].next
        BY <3>1 DEF EntryRejoins, SameNext
      <3>3. CASE k = x
        <4>1. recoveries[k].next = n /\ Answers(recoveries[x].offer, n, "admitted")
          BY <3>2, <3>3 DEF ActivateRejoin
        <4>2. rows'[n].verdict = "admitted"
          BY <4>1 DEF Answers, IInv, TypeOK
        <4> QED BY <3>2, <4>1, <4>2
      <3>4. CASE k # x
        <4>1. Linked(k)
          BY <1>0, <3>2, <3>4, RejoinedLinks
        <4> QED BY <2>1, <4>1, LinkedStays
      <3> QED BY <3>3, <3>4
    <2> QED BY <2>2, <2>3
  <1> QED BY <1>2, <1>3 DEF DecidedOK, UndecidedPhase

-----------------------------------------------------------------------------
(* The ledgers only grow, and what took a channel's place keeps it.        *)

NewReplacement(j) ==
    /\ j = Len(replacements) + 1 /\ Len(replacements') = j
    /\ replacements'[j].previous \in Offer /\ replacements'[j].next \in Offer
    /\ replacements'[j].phase = "prepared"
    /\ PrepareReplacement(replacements'[j].previous, replacements'[j].next)
ReplacementsGrow ==
    /\ DOMAIN replacements \subseteq DOMAIN replacements'
    /\ \A j \in DOMAIN replacements :
          KeptReplacement(replacements[j], replacements'[j], OpenStops')
    /\ \A j \in DOMAIN replacements' \ DOMAIN replacements : NewReplacement(j)

LEMMA ReplacementsGrowing ==
    ASSUME IInv, Next
    PROVE  ReplacementsGrow
  <1>0. replacements \in Seq(Replacement)
    BY DEF IInv, TypeOK
  <1>1. CASE ReplacementsKept
    BY <1>1 DEF ReplacementsKept, ReplacementsGrow
  <1>2. CASE \E p, n \in Offer : PrepareReplacement(p, n)
    <2>1. PICK p \in Offer, n \in Offer : PrepareReplacement(p, n)
      BY <1>2
    <2> DEFINE r == [previous |-> p, next |-> n, phase |-> "prepared",
                     cancellation |-> "none", confirmed |-> FALSE,
                     restart_from |-> IF OpenStops = {} THEN NoOffer
                                      ELSE stops[LastOpen].next]
               m == Len(replacements)
    <2>2. replacements' = Append(replacements, r)
      BY <2>1 DEF PrepareReplacement
    <2>3. r.previous = p /\ r.next = n /\ r.phase = "prepared"
      OBVIOUS
    <2> HIDE DEF r
    <2>4. /\ DOMAIN replacements' = DOMAIN replacements \cup {m + 1}
          /\ Len(replacements') = m + 1 /\ replacements'[m + 1] = r
          /\ \A k \in DOMAIN replacements : replacements'[k] = replacements[k]
      BY <1>0, <2>2
    <2>5. \A j \in DOMAIN replacements :
             KeptReplacement(replacements[j], replacements[j], OpenStops')
      BY DEF IInv, ReplacementsOpen, KeptReplacement
    <2>6. NewReplacement(m + 1)
      BY <2>1, <2>3, <2>4 DEF NewReplacement
    <2> QED BY <2>4, <2>5, <2>6 DEF ReplacementsGrow
  <1> QED BY <1>1, <1>2, NextKeeps

BegunAt(k) ==
    /\ k = Len(stops) + 1 /\ Len(stops') = k
    /\ stops'[k].previous \in Offer /\ stops'[k].next \in Offer
    /\ stops'[k].phase = "stopping"
    /\ stops'[k].chain = Link(stops'[k].previous, stops'[k].next)
    /\ OpenStops' = OpenStops \cup {k}
    /\ BeginStop(stops'[k].previous, stops'[k].next)
StopsGrow ==
    /\ DOMAIN stops \subseteq DOMAIN stops'
    /\ \A k \in DOMAIN stops : KeptStop(stops[k], stops'[k])
    /\ OpenStops' \cap DOMAIN stops \subseteq OpenStops
    /\ \A k \in DOMAIN stops' \ DOMAIN stops : BegunAt(k)

LEMMA StopsGrowing ==
    ASSUME IInv, Next
    PROVE  StopsGrow
  <1>0. TypeOK /\ stops \in Seq(Stop)
    BY DEF IInv, TypeOK
  <1>1. CASE StopsKept
    BY <1>1 DEF StopsKept, StopsGrow
  <1>2. CASE \E p, n \in Offer : BeginStop(p, n)
    <2>1. PICK p \in Offer, n \in Offer : BeginStop(p, n)
      BY <1>2
    <2> DEFINE b == \E r \in ToSet(replacements) :
                       r.phase = "active" /\ r.previous = p /\ r.next = n
               s == [previous |-> p, next |-> n, phase |-> "stopping",
                     native |-> b, chain |-> Link(p, n)]
               m == Len(stops)
    <2>2. stops' = Append(stops, s)
      BY <2>1 DEF BeginStop
    <2>3. /\ s.previous = p /\ s.next = n /\ s.phase = "stopping" /\ s.chain = Link(p, n)
          /\ s \in Stop
      BY <1>0, LinkIs DEF Stop
    <2> HIDE DEF s
    <2>4. /\ DOMAIN stops' = DOMAIN stops \cup {m + 1}
          /\ Len(stops') = m + 1 /\ stops'[m + 1] = s
          /\ \A k \in DOMAIN stops : stops'[k] = stops[k]
          /\ OpenStops' = OpenStops \cup {m + 1}
          /\ m + 1 \notin DOMAIN stops
      BY <1>0, <2>2, <2>3, StopAppended
    <2>5. \A k \in DOMAIN stops : KeptStop(stops[k], stops[k])
      BY DEF KeptStop
    <2>6. BegunAt(m + 1)
      BY <2>1, <2>3, <2>4 DEF BegunAt
    <2> QED BY <2>4, <2>5, <2>6 DEF StopsGrow
  <1> QED BY <1>1, <1>2, NextKeeps

LEMMA SupersededStays ==
    ASSUME ReplacementsGrow, NEW o, Superseded(o)
    PROVE  Superseded(o)'
  BY DEF ReplacementsGrow, KeptReplacement, Superseded

LEMMA StopRetiredStays ==
    ASSUME StopsGrow, ChainsBridged', NEW o, StopRetired(o)
    PROVE  StopRetired(o)'
  <1>1. PICK k \in DOMAIN stops : stops[k].phase = "retired" /\ o \in ToSet(stops[k].chain)
    BY DEF StopRetired
  <1>2. /\ k \in DOMAIN stops' /\ stops'[k].phase = "retired"
        /\ stops'[k].chain = stops[k].chain
    BY <1>1 DEF StopsGrow, KeptStop
  <1>3. stops[k].chain # <<>>
    BY <1>1 DEF ToSet
  <1> QED BY <1>1, <1>2, <1>3 DEF ChainsBridged, StopRetired

LEMMA PassedStays ==
    ASSUME IInv, EntrySteps, StopsGrow, ChainsBridged',
           NEW k \in DOMAIN recoveries, Passed(k)
    PROVE  Passed(k)'
  <1>1. SameEntry(recoveries[k], recoveries'[k])
        /\ (recoveries[k].phase = "rejoined" => recoveries'[k] = recoveries[k])
    BY EntriesSame
  <1>2. StopRetired(recoveries[k].offer) => StopRetired(recoveries[k].offer)'
    <2>1. ASSUME NEW o, StopRetired(o), o = recoveries[k].offer, o = recoveries'[k].offer
          PROVE  StopRetired(recoveries[k].offer)'
      <3>1. StopRetired(o)'
        BY <2>1, StopRetiredStays
      <3> QED BY <2>1, <3>1
    <2> QED BY <1>1, <2>1 DEF SameEntry
  <1> QED BY <1>1, <1>2, LinkedStays DEF Passed

-----------------------------------------------------------------------------
(* The channels a device comes to know.                                    *)

\* A rejoin goes to a channel of a present key, and only where nothing has
\* taken the closed one's place.
LEMMA RejoinContext ==
    ASSUME NEW i \in DOMAIN recoveries, NEW n \in Offer, ActivateRejoin(i, n)
    PROVE  /\ ContextIs(n) /\ IsSuccessor(recoveries[i].offer, n)
           /\ recoveries[i].phase = "closed" /\ recoveries[i].next = n
           /\ ~recoveries[i].successor_failed
           /\ ~RecoveryStopped(recoveries[i].offer)
  <1>1. ContextIs(n)
    <2>1. CASE Deferred(i) = {}
      BY <2>1 DEF ActivateRejoin
    <2>2. CASE Deferred(i) # {}
      BY <2>2 DEF ActivateRejoin
    <2> QED BY <2>1, <2>2
  <1> QED BY <1>1 DEF ActivateRejoin, CanRejoin

\* Before the first invitation there is nothing to know.
LEMMA NothingBefore ==
    ASSUME TypeOK, InvitationOK, BeforeFirst, NEW o \in Offer, PrepareInvitation(o)
    PROVE  /\ DOMAIN recoveries = {} /\ DOMAIN replacements = {}
           /\ UNCHANGED <<recoveries, replacements, trusted>> /\ ContextIs(o)
  <1>1. invitation = NoInvitation /\ Accepts("message") /\ ContextIs(o)
    BY DEF PrepareInvitation, CheckBootstrap
  <1>2. ~Replacing /\ OpenStops = {}
    BY <1>1, MessageFits
  <1>3. recoveries = <<>> /\ replacements = <<>>
    BY <1>1, <1>2 DEF BeforeFirst
  <1> QED BY <1>1, <1>3 DEF PrepareInvitation

LEMMA TrustGrows ==
    ASSUME TypeOK, Next
    PROVE  trusted <= trusted'
  <1>0. trusted \in Nat
    BY DEF TypeOK
  <1>1. ASSUME NEW i, NEW v, FinishCancelReplacement(i, v) \/ Cancelled(i, v)
        PROVE  UNCHANGED trusted
    BY <1>1 DEF FinishCancelReplacement, Cancelled
  <1>2. trusted' \in {trusted, trusted + 1}
    <2>1. CASE Talk
      BY <2>1 DEF Talk, PrepareInvitation, InviteFromDelivery, JoinFromDelivery,
         AcceptDelivery, CompleteInvitation, SendChat, MarkInvitationFailed, ApprovePeer
    <2>2. CASE Rejoin
      BY <2>2 DEF Rejoin, BeginClose, CompleteClose, PrepareRejoin, ActivateRejoin,
         MarkRejoinFailed, BeginRejoinRecovery, BeginCancelRejoin, FinishCancelRejoin
    <2>3. CASE Replace
      BY <1>1, <2>3 DEF Replace, PrepareReplacement, AttestPredecessor, Consent,
         ActivateReplacement, BeginCancelReplacement, ObserveReplacementCancelled,
         MarkReplacementFailed, BeginReplacementRecovery, BeginStop, CompleteStop
    <2> QED BY <2>1, <2>2, <2>3 DEF Next
  <1> QED BY <1>0, <1>2

\* What the next state still knows of an entry of the recoveries.
LEMMA NextOfEntry ==
    ASSUME EntrySteps, NEW k \in DOMAIN recoveries
    PROVE  /\ recoveries'[k].offer = recoveries[k].offer
           /\ \/ recoveries'[k].next \in {recoveries[k].next, NoOffer}
              \/ \E n \in Offer : EntryPrepares(k, n)
  BY DEF EntrySteps, EntryStep, EntryCloses, EntryPrepares, EntryRejoins, EntryFails,
     EntryCancels, EntryCancelled, SamePhase, SameNext, SameEntry

LEMMA NewEntryIs ==
    ASSUME EntrySteps, NEW k \in DOMAIN recoveries' \ DOMAIN recoveries
    PROVE  /\ k = Len(recoveries) + 1 /\ Len(recoveries') = k
           /\ recoveries'[k].next = NoOffer /\ recoveries'[k].phase = "closing"
           /\ recoveries'[k].cancellations = <<>>
           /\ \/ BeginClose /\ recoveries'[k].offer = invitation.offer
              \/ \E i \in DOMAIN recoveries :
                    /\ BeginRejoinRecovery(i) /\ i = Len(recoveries)
                    /\ recoveries'[k].offer = recoveries[i].next
                    /\ recoveries'[k].deferred_from = recoveries[i].offer
              \/ \E j \in DOMAIN replacements :
                    /\ BeginReplacementRecovery(j)
                    /\ recoveries'[k].offer = replacements[j].next
  BY DEF EntrySteps, NewEntry, Closing

\* A channel is new to the device only when its owner chose it just now: it is
\* a route to the present key, or a successor of one known, and was never left.
LEMMA KnownStep ==
    ASSUME IInv, Next, BeforeFirst, KnownOK, EntrySteps, ReplacementsGrow,
           NEW o \in Offer, Known(o)', ~Known(o)
    PROVE  /\ o.own /\ o.peer <= trusted
           /\ \A j \in DOMAIN replacements' : replacements'[j].previous # o
           /\ o \notin VetoedRejoins
  <1>0. TypeOK /\ InvitationOK /\ trusted \in Nat
        /\ (\A x \in Offer : x # NoOffer /\ x.peer \in Nat)
        /\ \A k \in DOMAIN recoveries : recoveries[k].offer \in Offer
    BY OfferAssumption, Domains DEF IInv, TypeOK, Recovery
  <1>1. ASSUME NEW k \in DOMAIN recoveries, o \in {recoveries[k].offer, recoveries[k].next}
        PROVE  FALSE
    BY <1>0, <1>1 DEF Known
  <1>2. ASSUME NEW j \in DOMAIN replacements, o = replacements[j].next
        PROVE  FALSE
    BY <1>0, <1>2 DEF Known
  <1>3. o # invitation.offer
    BY <1>0 DEF Known
  <1>4. CASE \E x \in Offer : PrepareInvitation(x)
    <2>1. PICK x \in Offer : PrepareInvitation(x)
      BY <1>4
    <2>2. /\ DOMAIN recoveries = {} /\ DOMAIN replacements = {} /\ ContextIs(x)
          /\ UNCHANGED <<recoveries, replacements, trusted>>
      BY <1>0, <2>1, NothingBefore
    <2>3. invitation'.offer = x
      BY <2>1, FreshIs DEF PrepareInvitation
    <2>4. o = x
      BY <2>2, <2>3 DEF Known
    <2>5. VetoedRejoins = {}
      BY <2>2 DEF VetoedRejoins, ToSet
    <2> QED BY <1>0, <2>2, <2>4, <2>5 DEF ContextIs
  <1>5. CASE \E k \in DOMAIN recoveries : EntryPrepares(k, o)
    <2>1. PICK k \in DOMAIN recoveries : EntryPrepares(k, o)
      BY <1>5
    <2>2. /\ IsSuccessor(recoveries[k].offer, o)
          /\ o \notin VetoedRejoins
          /\ \A r \in ToSet(replacements) : r.previous # o
          /\ UNCHANGED replacements
      BY <2>1 DEF EntryPrepares, PrepareRejoin, CanRejoin
    <2>3. Known(recoveries[k].offer)
      BY <1>0 DEF Known
    <2>4. recoveries[k].offer.own /\ recoveries[k].offer.peer <= trusted
      BY <1>0, <2>3 DEF KnownOK
    <2>5. \A j \in DOMAIN replacements : replacements[j].previous # o
      BY <2>2 DEF ToSet
    <2> QED BY <2>2, <2>4, <2>5 DEF IsSuccessor
  <1>6. CASE \E j \in DOMAIN replacements' \ DOMAIN replacements : o = replacements'[j].next
    <2>1. PICK j \in DOMAIN replacements' \ DOMAIN replacements : o = replacements'[j].next
      BY <1>6
    <2>2. /\ NewReplacement(j)
          /\ \A i \in DOMAIN replacements : replacements'[i].previous = replacements[i].previous
      BY <2>1 DEF ReplacementsGrow, KeptReplacement
    <2>3. /\ ContextIs(o) /\ o \notin VetoedRejoins
          /\ \A r \in ToSet(replacements) : r.previous # o
          /\ IsReplacement(replacements'[j].previous, o)
      BY <2>1, <2>2 DEF NewReplacement, PrepareReplacement
    <2>4. \A i \in DOMAIN replacements : replacements'[i].previous # o
      BY <2>2, <2>3 DEF ToSet
    <2>5. \A i \in DOMAIN replacements' : i \in DOMAIN replacements \/ i = j
      BY <2>2 DEF ReplacementsGrow, NewReplacement
    <2> QED BY <1>0, <2>3, <2>4, <2>5 DEF ContextIs, IsReplacement
  <1>7. CASE o = invitation'.offer
    <2>1. ChannelStep
      BY ChannelSteps
    <2>2. ASSUME NEW x \in DOMAIN recoveries, NEW n \in Offer, ActivateRejoin(x, n), o = n
          PROVE  FALSE
      BY <1>1, <2>2, RejoinContext
    <2> QED BY <1>1, <1>2, <1>3, <1>4, <1>7, <2>1, <2>2 DEF ChannelStep
  <1>8. CASE \E k \in DOMAIN recoveries' : o \in {recoveries'[k].offer, recoveries'[k].next}
    <2>1. PICK k \in DOMAIN recoveries' : o \in {recoveries'[k].offer, recoveries'[k].next}
      BY <1>8
    <2>2. CASE k \in DOMAIN recoveries
      <3>1. o = recoveries'[k].next /\ recoveries'[k].next \notin {recoveries[k].next, NoOffer}
        BY <1>0, <1>1, <2>1, <2>2, NextOfEntry
      <3>2. PICK n \in Offer : EntryPrepares(k, n)
        BY <2>2, <3>1, NextOfEntry
      <3>3. n = o
        BY <3>1, <3>2 DEF EntryPrepares
      <3> QED BY <1>5, <2>2, <3>2, <3>3
    <2>3. CASE k \notin DOMAIN recoveries
      <3>1. o = recoveries'[k].offer
        BY <1>0, <2>1, <2>3, NewEntryIs
      <3> QED BY <1>1, <1>2, <1>3, <2>1, <2>3, <3>1, NewEntryIs
    <2> QED BY <2>2, <2>3
  <1>9. CASE \E j \in DOMAIN replacements' : o = replacements'[j].next
    <2>1. \A j \in DOMAIN replacements : replacements'[j].next = replacements[j].next
      BY DEF ReplacementsGrow, KeptReplacement
    <2> QED BY <1>2, <1>6, <1>9, <2>1
  <1> QED BY <1>7, <1>8, <1>9 DEF Known

LEMMA KnownAgain ==
    ASSUME IInv, Next, BeforeFirst, KnownOK, EntrySteps, ReplacementsGrow
    PROVE  KnownOK'
  <1>1. trusted <= trusted' /\ trusted \in Nat /\ trusted' \in Nat
    BY TrustGrows, NextOK DEF IInv, TypeOK
  <1>2. \A o \in Offer : o.peer \in Nat
    BY OfferAssumption
  <1>3. ASSUME NEW o \in Offer, Known(o)'
        PROVE  o.own /\ o.peer <= trusted'
    <2>1. o.own /\ o.peer <= trusted
      BY <1>3, KnownStep DEF KnownOK
    <2> QED BY <1>1, <1>2, <2>1
  <1> QED BY <1>3 DEF KnownOK

LEMMA RanksStep ==
    ASSUME IInv, Next, BeforeFirst, KnownOK, RanksGrow, EntrySteps, ReplacementsGrow
    PROVE  RanksGrow'
  <1>0. /\ TypeOK /\ trusted \in Nat /\ DOMAIN replacements = 1..Len(replacements)
        /\ Len(replacements) \in Nat
        /\ \A x \in Offer : x # NoOffer /\ x.peer \in Nat /\ x.own \in BOOLEAN
        /\ \A j \in DOMAIN replacements :
              replacements[j].previous \in Offer /\ replacements[j].next \in Offer
    BY OfferAssumption, Domains DEF IInv, TypeOK, Replacement
  <1>1. \A j \in DOMAIN replacements :
           /\ replacements'[j].previous = replacements[j].previous
           /\ replacements'[j].next = replacements[j].next
    BY DEF ReplacementsGrow, KeptReplacement
  <1>2. \A j \in DOMAIN replacements' \ DOMAIN replacements :
           /\ j = Len(replacements) + 1
           /\ replacements'[j].previous \in Offer /\ replacements'[j].next \in Offer
           /\ IsReplacement(replacements'[j].previous, replacements'[j].next)
           /\ ContextIs(replacements'[j].next)
    BY DEF ReplacementsGrow, NewReplacement, PrepareReplacement
  <1>3. ASSUME NEW j \in DOMAIN replacements', Known(replacements[j].previous)'
        PROVE  replacements'[j].previous.peer < replacements'[j].next.peer
    <2> DEFINE p == replacements'[j].previous
    <2>1. p \in Offer
      BY <1>0, <1>1, <1>2
    <2>2. Known(p)
      <3>1. ASSUME NEW q \in Offer, q = p, ~Known(q) PROVE FALSE
        <4>1. Known(q)'
          BY <1>3, <3>1 DEF Known
        <4>2. \A i \in DOMAIN replacements' : replacements'[i].previous # q
          BY <3>1, <4>1, KnownStep
        <4> QED BY <3>1, <4>2
      <3> QED BY <2>1, <3>1
    <2>3. CASE j \in DOMAIN replacements
      BY <1>1, <2>2, <2>3 DEF RanksGrow
    <2>4. CASE j \notin DOMAIN replacements
      <3>1. p.own /\ p.peer <= trusted
        BY <2>1, <2>2 DEF KnownOK
      <3>2. replacements'[j].next.own /\ replacements'[j].next.peer = trusted
        BY <1>2, <2>4 DEF ContextIs
      <3>3. p.own = replacements'[j].next.own
        BY <1>0, <1>2, <2>1, <2>4, <3>1, <3>2
      <3>4. p.peer # replacements'[j].next.peer
        BY <1>2, <2>4, <3>3 DEF IsReplacement
      <3> QED BY <1>0, <2>1, <3>1, <3>2, <3>4
    <2> QED BY <2>3, <2>4
  <1>4. ASSUME NEW i \in DOMAIN replacements', NEW j \in DOMAIN replacements', i < j
        PROVE  replacements'[i].next.peer <= replacements'[j].next.peer
    <2>1. i \in DOMAIN replacements
      <3>1. i \notin DOMAIN replacements => i = Len(replacements) + 1
        BY <1>2
      <3>2. j \in 1..Len(replacements) \/ j = Len(replacements) + 1
        BY <1>0, <1>2
      <3> QED BY <1>0, <1>4, <3>1, <3>2
    <2>2. CASE j \in DOMAIN replacements
      BY <1>1, <1>4, <2>1, <2>2 DEF RanksGrow
    <2>3. CASE j \notin DOMAIN replacements
      <3>1. Known(replacements[i].next)
        BY <1>0, <2>1 DEF Known
      <3>2. replacements[i].next.peer <= trusted
        BY <1>0, <2>1, <3>1 DEF KnownOK
      <3> QED BY <1>1, <1>2, <2>1, <2>3, <3>2 DEF ContextIs
    <2> QED BY <2>2, <2>3
  <1> QED BY <1>3, <1>4 DEF RanksGrow

-----------------------------------------------------------------------------
(* Where the conversation stands.                                          *)

LEMMA LastIs ==
    ASSUME TypeOK
    PROVE  /\ recoveries # <<>> <=> Len(recoveries) \in DOMAIN recoveries
           /\ recoveries = <<>> <=> DOMAIN recoveries = {}
           /\ Last(recoveries) = recoveries[Len(recoveries)]
           /\ replacements # <<>> <=> Len(replacements) \in DOMAIN replacements
           /\ replacements = <<>> <=> DOMAIN replacements = {}
           /\ Last(replacements) = replacements[Len(replacements)]
  BY DEF TypeOK, Last

LEMMA UnreplacedIs ==
    ASSUME TypeOK
    PROVE  Unreplaced <=>
              /\ Len(recoveries) \in DOMAIN recoveries
              /\ recoveries[Len(recoveries)].phase # "rejoined"
              /\ ~Superseded(recoveries[Len(recoveries)].offer)
              /\ ~StopRetired(recoveries[Len(recoveries)].offer)
  <1>1. \A r : RecoveryReplaced(r, recoveries, replacements, stops)
                  <=> Superseded(r.offer) \/ StopRetired(r.offer)
    BY DEF RecoveryReplaced, Superseded, StopRetired, ToSet
  <1> QED BY <1>1, LastIs DEF Unreplaced, Latest, Recovering

\* Only the last replacement is under way, and it holds the conversation.
LEMMA ReplacingIs ==
    ASSUME TypeOK, ReplacementsOpen, NEW j \in DOMAIN replacements,
           replacements[j].phase \notin {"active", "cancelled", "abandoned"}
    PROVE  j = Len(replacements) /\ Replacing
  <1>1. j = Len(replacements)
    BY UnderWayIsLast
  <1> QED BY <1>1, LastIs DEF Replacing, Latest

LEMMA ChannelThere ==
    ASSUME IInv
    PROVE  /\ invitation = NoInvitation <=> invitation.offer = NoOffer
           /\ invitation # NoInvitation <=> invitation.offer \in Offer
           /\ NoOffer \notin Offer
  BY OfferAssumption, ChannelIs DEF IInv, InvitationOK

\* A rejoin is of the last recovery, which nothing has replaced.
LEMMA RejoinsLast ==
    ASSUME IInv, KnownOK, RanksGrow, LinksOK, Succession,
           NEW x \in DOMAIN recoveries, NEW n \in Offer, ActivateRejoin(x, n)
    PROVE  /\ x = Len(recoveries)
           /\ ~Superseded(recoveries[x].offer) /\ ~Passed(x)
           /\ Unreplaced
  <1>0. /\ TypeOK /\ trusted \in Nat
        /\ \A o \in Offer : o # NoOffer /\ o.peer \in Nat
        /\ \A k \in DOMAIN recoveries : recoveries[k].offer \in Offer
        /\ \A j \in DOMAIN replacements : replacements[j].next \in Offer
        /\ DOMAIN recoveries = 1..Len(recoveries) /\ Len(recoveries) \in Nat
    BY OfferAssumption, Domains DEF IInv, TypeOK, Recovery, Replacement
  <1>1. /\ ContextIs(n) /\ IsSuccessor(recoveries[x].offer, n)
        /\ recoveries[x].phase = "closed"
        /\ ~recoveries[x].successor_failed
        /\ ~RecoveryStopped(recoveries[x].offer)
    BY RejoinContext
  <1>2. ~Superseded(recoveries[x].offer)
    <2>1. SUFFICES ASSUME NEW j \in DOMAIN replacements,
                          replacements[j].previous = recoveries[x].offer
                   PROVE  FALSE
      BY DEF Superseded
    <2>2. Known(recoveries[x].offer) /\ Known(replacements[j].next)
      BY <1>0 DEF Known
    <2>3. recoveries[x].offer.peer < replacements[j].next.peer
          /\ replacements[j].next.peer <= trusted
      BY <1>0, <2>1, <2>2 DEF RanksGrow, KnownOK
    <2> QED BY <1>0, <1>1, <2>3 DEF ContextIs, IsSuccessor
  <1>3. ~StopRetired(recoveries[x].offer)
    BY <1>1 DEF StopRetired, RecoveryStopped, ToSet
  <1>4. ~Linked(x)
    <2>1. SUFFICES ASSUME Linked(x) PROVE FALSE
      OBVIOUS
    <2>2. x + 1 \in DOMAIN recoveries /\ recoveries[x + 1].deferred_from # NoOffer
          /\ (x + 1) - 1 = x
      BY <1>0, <2>1 DEF Linked
    <2>3. LinkOK(recoveries, x + 1)
      BY <2>2 DEF LinksOK
    <2> QED BY <1>1, <2>2, <2>3 DEF LinkOK
  <1>5. ~Passed(x)
    BY <1>1, <1>3, <1>4 DEF Passed
  <1>6. x = Len(recoveries)
    BY <1>2, <1>5 DEF Succession
  <1> QED BY <1>0, <1>1, <1>2, <1>3, <1>5, <1>6, UnreplacedIs

LEMMA FirstStep ==
    ASSUME IInv, Next, IInv', BeforeFirst, EntrySteps
    PROVE  BeforeFirst'
  <1> SUFFICES ASSUME invitation' = NoInvitation
               PROVE  /\ recoveries' = <<>>
                      /\ replacements' # <<>> => (Replacing \/ OpenStops # {})'
    BY DEF BeforeFirst
  <1>0. /\ TypeOK /\ TypeOK' /\ ReplacementsOpen
        /\ NoOffer \notin Offer /\ NoInvitation.offer = NoOffer
        /\ \A k \in DOMAIN recoveries : recoveries[k].next # NoOffer =>
              recoveries[k].next \in Offer
        /\ \A j \in DOMAIN replacements :
              replacements[j] \in Replacement /\ replacements[j].next \in Offer
        /\ replacements \in Seq(Replacement)
    BY OfferAssumption, Domains
       DEF IInv, TypeOK, Recovery, Replacement, Optional, NoInvitation
  <1>1. /\ invitation = NoInvitation
        /\ \A o \in Offer : ~PrepareInvitation(o)
        /\ \A j \in DOMAIN replacements :
              ~ActivateReplacement(j) /\ ~BeginReplacementRecovery(j)
    <2>1. /\ \A o \in Offer : invitation'.offer # o
          /\ \A o \in Offer : invitation' # Fresh(o)
                /\ invitation' # [Fresh(o) EXCEPT !.phase = "recovery_required"]
      BY <1>0, FreshIs
    <2>2. \A o \in Offer : ~PrepareInvitation(o)
      BY <2>1 DEF PrepareInvitation
    <2>3. \A j \in DOMAIN replacements :
              ~ActivateReplacement(j) /\ ~BeginReplacementRecovery(j)
      BY <1>0, <2>1 DEF ActivateReplacement, BeginReplacementRecovery
    <2>4. invitation'.offer = invitation.offer
      <3>1. \A x \in DOMAIN recoveries : BeginRejoinRecovery(x) => recoveries[x].next \in Offer
        BY <1>0 DEF BeginRejoinRecovery, CanFailRejoin
      <3> QED BY <1>0, <2>1, <2>2, <2>3, <3>1, ChannelSteps DEF ChannelStep
    <2> QED BY <1>0, <2>2, <2>3, <2>4, ChannelThere
  <1>2. DOMAIN recoveries = {}
        /\ (replacements # <<>> => Replacing \/ OpenStops # {})
    BY <1>0, <1>1, LastIs DEF BeforeFirst
  <1>3. recoveries' = <<>>
    <2>1. DOMAIN recoveries' = {}
      <3>1. SUFFICES ASSUME NEW k \in DOMAIN recoveries' PROVE FALSE
        OBVIOUS
      <3> QED BY <1>1, <1>2, NewEntryIs DEF BeginClose
    <2> QED BY <1>0, <2>1 DEF TypeOK
  <1>4. CASE Talk
    <2>1. UNCHANGED <<replacements, stops>>
      BY <1>1, <1>4 DEF Talk, InviteFromDelivery, JoinFromDelivery,
         AcceptDelivery, CompleteInvitation, SendChat, MarkInvitationFailed, ApprovePeer
    <2> QED BY <1>2, <1>3, <2>1 DEF Replacing, OpenStops, Latest
  <1>5. CASE Rejoin
    BY <1>1, <1>2, <1>5 DEF Rejoin, BeginClose
  <1>6. CASE Replace
    <2>1. CASE \E p, n \in Offer : BeginStop(p, n)
      <3>1. PICK p \in Offer, n \in Offer : BeginStop(p, n)
        BY <2>1
      <3>2. PICK s \in Stop : stops' = Append(stops, s) /\ s.phase = "stopping"
        BY <3>1, BegunStop
      <3>3. OpenStops' # {}
        BY <1>0, <3>2, StopAppended
      <3> QED BY <1>3, <3>3
    <2>2. CASE \E k \in DOMAIN stops : CompleteStop(k)
      <3>1. PICK k \in DOMAIN stops : CompleteStop(k)
        BY <2>2
      <3>2. k \in DOMAIN stops' /\ stops'[k].phase = "stopped"
        BY <1>0, <3>1, Domains DEF CompleteStop, TypeOK, Stop
      <3>3. OpenStops' # {}
        BY <3>2 DEF OpenStops
      <3> QED BY <1>3, <3>3
    <2>3. ASSUME NEW q, q.phase \notin {"active", "abandoned"},
                 \/ replacements' = Append(replacements, q)
                 \/ \E i \in DOMAIN replacements :
                       /\ replacements[i].phase \notin {"active", "cancelled", "abandoned"}
                       /\ replacements' = [replacements EXCEPT ![i] = q]
          PROVE  Replacing'
      <3>1. replacements' # <<>> /\ Last(replacements') = replacements'[Len(replacements')]
        BY <1>0, <2>3 DEF Last
      <3>2. CASE replacements' = Append(replacements, q)
        <4>1. Last(replacements') = q
          BY <1>0, <3>1, <3>2
        <4> QED BY <2>3, <3>1, <4>1 DEF Replacing, Latest
      <3>3. ASSUME NEW i \in DOMAIN replacements,
                   replacements[i].phase \notin {"active", "cancelled", "abandoned"},
                   replacements' = [replacements EXCEPT ![i] = q]
            PROVE  Replacing'
        <4>1. i = Len(replacements)
          BY <1>0, <3>3, ReplacingIs
        <4>2. replacements'[Len(replacements')] = q
          BY <1>0, <3>3, <4>1
        <4> QED BY <2>3, <3>1, <4>2 DEF Replacing, Latest
      <3> QED BY <2>3, <3>2, <3>3
    <2>4. CASE \E p, n \in Offer : PrepareReplacement(p, n)
      <3>1. PICK q : replacements' = Append(replacements, q) /\ q.phase = "prepared"
        BY <2>4 DEF PrepareReplacement
      <3> QED BY <1>3, <2>3, <3>1
    <2>5. ASSUME NEW i \in DOMAIN replacements, AttestPredecessor(i)
          PROVE  Replacing'
      <3> DEFINE q == [replacements[i] EXCEPT !.confirmed = TRUE]
      <3>1. /\ replacements[i].phase \in {"prepared", "consented"}
            /\ replacements' = [replacements EXCEPT ![i] = q]
            /\ q.phase = replacements[i].phase
        BY <1>0, <2>5 DEF AttestPredecessor, Pending, Replacement
      <3> HIDE DEF q
      <3> QED BY <2>3, <3>1
    <2>6. ASSUME NEW i \in DOMAIN replacements, Consent(i) \/ MarkReplacementFailed(i)
          PROVE  Replacing'
      <3>1. /\ replacements[i].phase \in {"prepared", "consented"}
            /\ \E ph \in {"consented", "recovery_required"} :
                  replacements' = [replacements EXCEPT ![i].phase = ph]
        BY <2>6 DEF Consent, MarkReplacementFailed, Pending
      <3>2. PICK ph \in {"consented", "recovery_required"} :
               replacements' = [replacements EXCEPT ![i] = [replacements[i] EXCEPT !.phase = ph]]
        BY <3>1
      <3> DEFINE q == [replacements[i] EXCEPT !.phase = ph]
      <3>3. q.phase = ph /\ replacements' = [replacements EXCEPT ![i] = q]
        BY <1>0, <3>2, PhaseIs
      <3> HIDE DEF q
      <3> QED BY <2>3, <3>1, <3>3
    <2>7. ASSUME NEW i \in DOMAIN replacements,
                 \/ BeginCancelReplacement(i) \/ ObserveReplacementCancelled(i)
                 \/ \E c \in {"cancelled", "admitted"} : FinishCancelReplacement(i, c)
          PROVE  Replacing'
      <3>1. /\ replacements[i].phase \in {"prepared", "consented", "cancelling"}
            /\ \E ph \in {"cancelling", "cancelled", "consented"}, v \in
                     {"pending", "cancelled", "admitted", replacements[i].cancellation} :
                  replacements' = [replacements EXCEPT ![i].phase = ph, ![i].cancellation = v]
        BY <2>7 DEF BeginCancelReplacement, ObserveReplacementCancelled,
           FinishCancelReplacement, Cancelled, Pending
      <3>2. PICK ph \in {"cancelling", "cancelled", "consented"}, v \in
                     {"pending", "cancelled", "admitted", replacements[i].cancellation} :
               replacements' = [replacements EXCEPT ![i].phase = ph, ![i].cancellation = v]
        BY <3>1
      <3> DEFINE q == [replacements[i] EXCEPT !.phase = ph, !.cancellation = v]
      <3>3. q.phase = ph
        BY <1>0 DEF Replacement
      <3>4. replacements' = [replacements EXCEPT ![i] = q]
        BY <1>0, <3>2
      <3> HIDE DEF q
      <3> QED BY <2>3, <3>1, <3>3, <3>4
    <2> QED BY <1>1, <1>3, <1>6, <2>1, <2>2, <2>4, <2>5, <2>6, <2>7 DEF Replace
  <1> QED BY <1>4, <1>5, <1>6 DEF Next

LEMMA UnreplacedNext ==
    ASSUME TypeOK', Unreplaced'
    PROVE  LET m == Len(recoveries')
           IN  /\ m \in DOMAIN recoveries' /\ Last(recoveries)' = recoveries'[m]
               /\ recoveries'[m].phase # "rejoined"
               /\ \A o : o = recoveries'[m].offer => ~Superseded(o)' /\ ~StopRetired(o)'
  <1> DEFINE m == Len(recoveries')
  <1>1. \A r : RecoveryReplaced(r, recoveries', replacements', stops')
                  <=> Superseded(r.offer)' \/ StopRetired(r.offer)'
    BY DEF RecoveryReplaced, Superseded, StopRetired, ToSet
  <1>2. /\ recoveries' # <<>> /\ Last(recoveries') = recoveries'[m]
        /\ m \in DOMAIN recoveries'
    BY DEF TypeOK, Last, Unreplaced, Latest
  <1>3. /\ recoveries'[m].phase # "rejoined"
        /\ ~RecoveryReplaced(recoveries'[m], recoveries', replacements', stops')
    BY <1>2 DEF Unreplaced, Recovering, Latest
  <1> QED BY <1>1, <1>2, <1>3

\* While nothing is stopped, a replacement under way is of the current channel.
LEMMA OriginIsLast ==
    ASSUME IInv, BeforeFirst, CurrentIsLast, OriginCurrent, OpenStops = {}, Unreplaced,
           NEW j \in DOMAIN replacements,
           replacements[j].phase \in
              {"prepared", "consented", "cancelling", "recovery_required"}
    PROVE  replacements[j].previous = recoveries[Len(recoveries)].offer
  <1>0. TypeOK /\ ReplacementsOpen
    BY DEF IInv
  <1>1. j = Len(replacements)
    BY <1>0, ReplacingIs
  <1>2. Latest(replacements, LAMBDA r :
          r.phase \in {"prepared", "consented", "cancelling", "recovery_required"})
    BY <1>0, <1>1, LastIs DEF Latest
  <1>3. invitation # NoInvitation
    BY <1>0, LastIs, UnreplacedIs DEF BeforeFirst
  <1>4. invitation.offer = Last(replacements).previous
    BY <1>2, <1>3 DEF OriginCurrent
  <1> QED BY <1>0, <1>1, <1>4, LastIs DEF CurrentIsLast

\* A replacement that is activated takes the place of the last recovery.
LEMMA ReplacementTakes ==
    ASSUME IInv, ChainsBridged', BeforeFirst, CurrentIsLast, OriginCurrent, StopsAtLast,
           Unreplaced, NEW j \in DOMAIN replacements, ActivateReplacement(j),
           NEW o, o = recoveries[Len(recoveries)].offer
    PROVE  Superseded(o)' \/ StopRetired(o)'
  <1> DEFINE r == replacements[j]
  <1>0. TypeOK /\ \A k \in DOMAIN stops : stops[k] \in Stop
    BY Domains DEF IInv
  <1>1. /\ r.phase = "consented" /\ StopOf(r.next) = {}
        /\ stops' = [k \in DOMAIN stops |-> [stops[k] EXCEPT !.phase = "retired"]]
        /\ replacements' = [replacements EXCEPT ![j].phase = "active"]
    BY DEF ActivateReplacement, Pending
  <1>2. r.previous = o => Superseded(o)'
    <2>1. replacements' = [replacements EXCEPT ![j] = [r EXCEPT !.phase = "active"]]
      BY <1>0, <1>1 DEF TypeOK
    <2>2. replacements'[j] = [r EXCEPT !.phase = "active"] /\ j \in DOMAIN replacements'
      BY <1>0, <2>1 DEF TypeOK
    <2>3. replacements'[j].phase = "active" /\ replacements'[j].previous = r.previous
      BY <1>0, <2>2, PhaseIs, Domains
    <2> QED BY <2>2, <2>3 DEF Superseded
  <1>3. CASE OpenStops = {}
    BY <1>1, <1>2, <1>3, OriginIsLast
  <1>4. CASE OpenStops # {}
    <2>1. PICK k \in OpenStops : \/ stops[k].previous = o \/ o \in ToSet(stops[k].chain)
      BY <1>0, <1>4, LastIs DEF StopsAtLast
    <2>2. StoppedFrom(r.previous)
      BY <1>1, <1>4 DEF IInv, PendingOK, UnderWay, StoppedGroupsOK
    <2>3. CASE stops[k].previous = o
      BY <1>2, <2>2, <2>3 DEF StoppedFrom
    <2>4. CASE o \in ToSet(stops[k].chain)
      <3>1. k \in DOMAIN stops' /\ stops'[k] = [stops[k] EXCEPT !.phase = "retired"]
        BY <1>1 DEF OpenStops
      <3>2. stops'[k].phase = "retired" /\ stops'[k].chain = stops[k].chain
        BY <1>0, <3>1 DEF Stop, OpenStops
      <3>3. stops'[k].chain # <<>>
        BY <2>4, <3>2 DEF ToSet
      <3> QED BY <2>4, <3>1, <3>2, <3>3 DEF StopRetired, ChainsBridged
    <2> QED BY <2>1, <2>3, <2>4
  <1> QED BY <1>3, <1>4

\* An entry that is still last and that nothing has replaced was so before.
LEMMA UnreplacedBefore ==
    ASSUME IInv, IInv', ChainsBridged', EntrySteps, ReplacementsGrow, StopsGrow,
           Unreplaced', Len(recoveries') \in DOMAIN recoveries
    PROVE  /\ Unreplaced /\ Len(recoveries') = Len(recoveries)
           /\ Last(recoveries)' = recoveries'[Len(recoveries)]
           /\ recoveries'[Len(recoveries)].offer = recoveries[Len(recoveries)].offer
           /\ recoveries'[Len(recoveries)].phase # "rejoined"
  <1> DEFINE m == Len(recoveries')
             o == recoveries[m].offer
  <1>0. /\ TypeOK /\ TypeOK' /\ DOMAIN recoveries = 1..Len(recoveries)
        /\ DOMAIN recoveries' = 1..m /\ m \in Nat /\ Len(recoveries) \in Nat
    BY Domains DEF IInv, TypeOK
  <1>1. m = Len(recoveries)
    <2>1. DOMAIN recoveries \subseteq DOMAIN recoveries'
      BY DEF EntrySteps
    <2>2. m \in 1..Len(recoveries)
      BY <1>0
    <2>3. Len(recoveries) \in DOMAIN recoveries
      BY <1>0, <2>2
    <2>4. Len(recoveries) \in 1..m
      BY <1>0, <2>1, <2>3
    <2>5. m <= Len(recoveries) /\ Len(recoveries) <= m
      BY <2>2, <2>4
    <2>6. m \in Int /\ Len(recoveries) \in Int
      BY <1>0
    <2> HIDE DEF m
    <2> QED BY <2>5, <2>6
  <1>2. /\ Last(recoveries)' = recoveries'[m] /\ recoveries'[m].phase # "rejoined"
        /\ \A x : x = recoveries'[m].offer => ~Superseded(x)' /\ ~StopRetired(x)'
    BY <1>0, UnreplacedNext
  <1>3. /\ recoveries'[m].offer = o
        /\ recoveries[m].phase # "rejoined"
    BY <1>2, EntriesSame DEF SameEntry
  <1>4. ~Superseded(o) /\ ~StopRetired(o)
    <2>1. \A x : Superseded(x) => Superseded(x)'
      BY SupersededStays
    <2>2. \A x : StopRetired(x) => StopRetired(x)'
      BY StopRetiredStays
    <2>3. \A x : x = o => ~Superseded(x) /\ ~StopRetired(x)
      BY <1>2, <1>3, <2>1, <2>2
    <2> QED BY <2>3
  <1> QED BY <1>0, <1>1, <1>2, <1>3, <1>4, UnreplacedIs

LEMMA CurrentStep ==
    ASSUME IInv, Next, IInv', ChainsBridged', EntrySteps, ReplacementsGrow, StopsGrow,
           KnownOK, RanksGrow, LinksOK, Succession, BeforeFirst, CurrentIsLast,
           OriginCurrent, StopsAtLast
    PROVE  CurrentIsLast'
  <1> SUFFICES ASSUME Unreplaced' PROVE invitation'.offer = Last(recoveries)'.offer
    BY DEF CurrentIsLast
  <1> DEFINE m == Len(recoveries')
  <1>0. /\ TypeOK /\ TypeOK' /\ InvitationOK
        /\ \A k \in DOMAIN recoveries : recoveries[k].next # NoOffer =>
              recoveries[k].next \in Offer
        /\ \A j \in DOMAIN replacements : replacements[j].next \in Offer
    BY Domains DEF IInv, TypeOK, Recovery, Replacement, Optional
  <1>1. /\ m \in DOMAIN recoveries' /\ Last(recoveries)' = recoveries'[m]
        /\ recoveries'[m].phase # "rejoined"
        /\ \A o : o = recoveries'[m].offer => ~Superseded(o)' /\ ~StopRetired(o)'
    BY <1>0, UnreplacedNext
  <1>2. CASE m \notin DOMAIN recoveries
    <2>1. CASE BeginClose /\ recoveries'[m].offer = invitation.offer
      BY <1>1, <2>1 DEF BeginClose
    <2>2. ASSUME NEW i \in DOMAIN recoveries, BeginRejoinRecovery(i),
                 recoveries'[m].offer = recoveries[i].next
          PROVE  invitation'.offer = recoveries'[m].offer
      <3>1. recoveries[i].next \in Offer
        BY <1>0, <2>2 DEF BeginRejoinRecovery, CanFailRejoin
      <3> QED BY <2>2, <3>1, FreshIs DEF BeginRejoinRecovery
    <2>3. ASSUME NEW j \in DOMAIN replacements, BeginReplacementRecovery(j),
                 recoveries'[m].offer = replacements[j].next
          PROVE  invitation'.offer = recoveries'[m].offer
      BY <1>0, <2>3, FreshIs DEF BeginReplacementRecovery
    <2> QED BY <1>1, <1>2, <2>1, <2>2, <2>3, NewEntryIs
  <1>3. CASE m \in DOMAIN recoveries
    <2>1. /\ Unreplaced /\ m = Len(recoveries)
          /\ recoveries'[m].offer = recoveries[m].offer
      BY <1>3, UnreplacedBefore
    <2>2. invitation.offer = recoveries[m].offer
      BY <1>0, <2>1, LastIs DEF CurrentIsLast
    <2>3. ~\E o \in Offer : PrepareInvitation(o)
      BY <1>0, <1>3, NothingBefore
    <2>4. ~\E x \in DOMAIN recoveries, n \in Offer : ActivateRejoin(x, n)
      <3>1. SUFFICES ASSUME NEW x \in DOMAIN recoveries, NEW n \in Offer,
                            ActivateRejoin(x, n)
                     PROVE  FALSE
        OBVIOUS
      <3>2. x = m
        BY <2>1, <3>1, RejoinsLast
      <3>3. ChainOK(recoveries, x) /\ x \in Nat
        BY <1>0, <3>1, Domains DEF ActivateRejoin, CanRejoin
      <3>4. x \in Root(recoveries, x)..x
        BY <3>3, RootIs DEF ChainOK
      <3>5. recoveries'[x].phase = "rejoined"
        BY <1>0, <3>1, <3>4, RejoinedEntries DEF EntryRejoins
      <3> QED BY <1>1, <3>2, <3>5
    <2>5. \A j \in DOMAIN replacements : ~ActivateReplacement(j)
      BY <1>1, <2>1, ReplacementTakes
    <2>6. \A x \in DOMAIN recoveries : ~BeginRejoinRecovery(x)
      <3>1. SUFFICES ASSUME NEW x \in DOMAIN recoveries, BeginRejoinRecovery(x)
                     PROVE  FALSE
        OBVIOUS
      <3>2. \E rs, c : /\ rs = [recoveries EXCEPT ![x].successor_failed = TRUE]
                       /\ recoveries' = Append(rs, c)
        BY <3>1 DEF BeginRejoinRecovery
      <3>3. PICK rs, c : /\ rs = [recoveries EXCEPT ![x].successor_failed = TRUE]
                         /\ recoveries' = Append(rs, c)
        BY <3>2
      <3>4. DOMAIN rs = 1..Len(recoveries) /\ Len(recoveries) \in Nat
        BY <1>0, <3>3, Domains
      <3>5. Len(rs) = Len(recoveries)
        BY <1>0, <3>3 DEF TypeOK
      <3>6. Len(recoveries') = Len(recoveries) + 1
        BY <1>0, <3>3, <3>5 DEF TypeOK
      <3> QED BY <2>1, <3>4, <3>6
    <2>7. \A j \in DOMAIN replacements : ~BeginReplacementRecovery(j)
      <3>1. SUFFICES ASSUME NEW j \in DOMAIN replacements, BeginReplacementRecovery(j)
                     PROVE  FALSE
        OBVIOUS
      <3>2. \E c : recoveries' = Append(recoveries, c)
        BY <3>1 DEF BeginReplacementRecovery
      <3>3. Len(recoveries') = Len(recoveries) + 1 /\ Len(recoveries) \in Nat
        BY <1>0, <3>2 DEF TypeOK
      <3> QED BY <2>1, <3>3
    <2>8. invitation'.offer = invitation.offer
      BY <2>3, <2>4, <2>5, <2>6, <2>7, ChannelSteps DEF ChannelStep
    <2> QED BY <1>1, <2>1, <2>2, <2>8
  <1> QED BY <1>2, <1>3

LEMMA OriginCurrentStep ==
    ASSUME IInv, Next, IInv', OriginCurrent
    PROVE  OriginCurrent'
  <1> DEFINE before == {"prepared", "consented", "cancelling", "recovery_required"}
             m == Len(replacements')
  <1> SUFFICES ASSUME OpenStops' = {}, m \in DOMAIN replacements',
                      replacements'[m].phase \in before
               PROVE  \/ invitation' = NoInvitation
                      \/ invitation'.offer = replacements'[m].previous
    <2>1. Last(replacements') = replacements'[m]
      BY DEF Last
    <2>2. replacements' # <<>> => m \in DOMAIN replacements'
      BY DEF IInv, TypeOK
    <2> QED BY <2>1, <2>2 DEF OriginCurrent, Latest
  <1>0. /\ TypeOK /\ TypeOK' /\ ReplacementsOpen /\ replacements \in Seq(Replacement)
        /\ \A j \in DOMAIN replacements : replacements[j] \in Replacement
        /\ NoInvitation.offer = NoOffer
    BY Domains DEF IInv, TypeOK, NoInvitation
  <1>1. ReplacementsGrow /\ StopsGrow
    BY ReplacementsGrowing, StopsGrowing
  <1>2. CASE m \notin DOMAIN replacements
    <2>1. PrepareReplacement(replacements'[m].previous, replacements'[m].next)
      BY <1>1, <1>2 DEF ReplacementsGrow, NewReplacement
    <2>2. OpenStops = {} /\ UNCHANGED invitation
      BY <2>1 DEF PrepareReplacement, OpenStops
    <2>3. StoppedOrigins = {}
      BY <2>2 DEF StoppedOrigins
    <2> QED BY <2>1, <2>2, <2>3 DEF PrepareReplacement
  <1>3. CASE m \in DOMAIN replacements
    <2> DEFINE r == replacements[m]
    <2>1. /\ replacements'[m].previous = r.previous /\ r.phase \in before
      BY <1>0, <1>1, <1>3 DEF ReplacementsGrow, KeptReplacement, Replacement
    <2>2. m = Len(replacements) /\ Replacing
      BY <1>0, <1>3, <2>1, ReplacingIs
    <2>3. ASSUME NEW j \in DOMAIN replacements, replacements[j].phase \in before
          PROVE  j = m
      BY <1>0, <2>2, <2>3, ReplacingIs
    <2>4. \A j \in DOMAIN replacements : ~ActivateReplacement(j)
      <3>1. SUFFICES ASSUME NEW j \in DOMAIN replacements, ActivateReplacement(j)
                     PROVE  FALSE
        OBVIOUS
      <3>2. /\ replacements[j].phase = "consented"
            /\ replacements' = [replacements EXCEPT ![j].phase = "active"]
        BY <3>1 DEF ActivateReplacement, Pending
      <3>3. j = m
        BY <2>3, <3>2
      <3>4. replacements'[m].phase = "active"
        BY <1>0, <1>3, <3>2, <3>3 DEF Replacement
      <3> QED BY <3>4
    <2>5. \A j \in DOMAIN replacements : ~BeginReplacementRecovery(j)
      <3>1. SUFFICES ASSUME NEW j \in DOMAIN replacements, BeginReplacementRecovery(j)
                     PROVE  FALSE
        OBVIOUS
      <3>2. /\ replacements[j].phase \in before
            /\ replacements' = [replacements EXCEPT ![j].phase = "recovering"]
        BY <3>1 DEF BeginReplacementRecovery
      <3>3. j = m
        BY <2>3, <3>2
      <3>4. replacements'[m].phase = "recovering"
        BY <1>0, <1>3, <3>2, <3>3 DEF Replacement
      <3> QED BY <3>4
    <2>6. OpenStops = {}
      <3>1. CASE StopsKept
        BY <2>4, <3>1 DEF StopsKept
      <3>2. CASE \E p, n \in Offer : BeginStop(p, n)
        <4>1. PICK p \in Offer, n \in Offer : BeginStop(p, n)
          BY <3>2
        <4>2. PICK s \in Stop : stops' = Append(stops, s) /\ s.phase = "stopping"
          BY <4>1, BegunStop
        <4>3. OpenStops' # {}
          BY <1>0, <4>2, StopAppended
        <4> QED BY <4>3
      <3> QED BY <3>1, <3>2, NextKeeps
    <2>7. invitation = NoInvitation \/ invitation.offer = r.previous
      <3>1. Latest(replacements, LAMBDA x : x.phase \in before)
        BY <1>0, <1>3, <2>1, <2>2, LastIs DEF Latest
      <3> QED BY <1>0, <2>2, <2>6, <3>1, LastIs DEF OriginCurrent
    <2>8. ~Accepts("message") /\ ~Accepts("rejoin")
      BY <2>2 DEF Accepts
    <2>9. invitation'.offer = invitation.offer
      <3>1. /\ \A o \in Offer : ~PrepareInvitation(o)
            /\ \A x \in DOMAIN recoveries, n \in Offer : ~ActivateRejoin(x, n)
            /\ \A x \in DOMAIN recoveries : ~BeginRejoinRecovery(x)
        BY <2>8 DEF PrepareInvitation, ActivateRejoin, CanRejoin, BeginRejoinRecovery,
           CanFailRejoin
      <3> QED BY <2>4, <2>5, <3>1, ChannelSteps DEF ChannelStep
    <2>10. invitation'.offer = NoOffer => invitation' = NoInvitation
      BY DEF IInv, InvitationOK
    <2> QED BY <1>0, <2>1, <2>7, <2>9, <2>10
  <1> QED BY <1>2, <1>3

\* Open stops hold the recoveries as they are.
LEMMA HeldRecoveries ==
    ASSUME IInv, EntrySteps, OpenStops # {}
    PROVE  /\ DOMAIN recoveries' = DOMAIN recoveries
           /\ \A k \in DOMAIN recoveries : recoveries'[k] = recoveries[k]
  <1>1. ~Accepts("rejoin") /\ ~Accepts("close") /\ ~Accepts("failure")
    BY OthersFit
  <1>2. \A k \in DOMAIN recoveries : recoveries'[k] = recoveries[k]
    BY <1>1 DEF EntrySteps, EntryStep, EntryCloses, CompleteClose, EntryPrepares,
       PrepareRejoin, CanRejoin, EntryRejoins, ActivateRejoin, EntryFails, CanFailRejoin,
       EntryCancels, BeginCancelRejoin, EntryCancelled, FinishCancelRejoin, CanCancelRejoin
  <1>3. DOMAIN recoveries' \ DOMAIN recoveries = {}
    BY <1>1, NewEntryIs DEF BeginClose, BeginRejoinRecovery, CanFailRejoin,
       BeginReplacementRecovery
  <1> QED BY <1>2, <1>3 DEF EntrySteps

LEMMA StopsAtStep ==
    ASSUME IInv, Next, IInv', ChainsBridged', EntrySteps, ReplacementsGrow, StopsGrow,
           StopsAtLast
    PROVE  StopsAtLast'
  <1> SUFFICES ASSUME OpenStops' # {}, Unreplaced'
               PROVE  \E k \in OpenStops' :
                         \/ stops'[k].previous = Last(recoveries)'.offer
                         \/ Last(recoveries)'.offer \in ToSet(stops'[k].chain)
    BY DEF StopsAtLast
  <1> DEFINE m == Len(recoveries)
             o == recoveries[m].offer
  <1>0. TypeOK /\ TypeOK' /\ OpenStops \subseteq DOMAIN stops
        /\ DOMAIN recoveries = 1..m /\ DOMAIN recoveries' = 1..Len(recoveries')
        /\ m \in Nat /\ Len(recoveries') \in Nat
    BY Domains DEF IInv, OpenStops, TypeOK
  <1>1. Len(recoveries') \in DOMAIN recoveries'
    BY <1>0, UnreplacedNext
  <1>2. ASSUME DOMAIN recoveries' = DOMAIN recoveries
        PROVE  Unreplaced /\ Last(recoveries)'.offer = o
    BY <1>1, <1>2, UnreplacedBefore
  <1>3. ASSUME OpenStops # {}, OpenStops \subseteq OpenStops'
        PROVE  \E k \in OpenStops' :
                  stops'[k].previous = o \/ o \in ToSet(stops'[k].chain)
    <2>1. DOMAIN recoveries' = DOMAIN recoveries
      BY <1>3, HeldRecoveries
    <2>2. PICK k \in OpenStops : stops[k].previous = o \/ o \in ToSet(stops[k].chain)
      BY <1>0, <1>2, <1>3, <2>1, LastIs DEF StopsAtLast
    <2> QED BY <1>0, <1>3, <2>2 DEF StopsGrow, KeptStop
  <1>4. CASE StopsKept
    <2>1. OpenStops' = OpenStops
      BY <1>4 DEF StopsKept
    <2> QED BY <1>2, <1>3, <2>1, HeldRecoveries
  <1>5. CASE \E p, n \in Offer : BeginStop(p, n)
    <2>1. PICK p \in Offer, n \in Offer : BeginStop(p, n)
      BY <1>5
    <2> DEFINE c == Link(p, n)
               x == Len(stops) + 1
    <2>2. UNCHANGED recoveries
      BY <2>1 DEF BeginStop
    <2>3. Unreplaced /\ Last(recoveries)'.offer = o
      BY <1>2, <2>2
    <2>4. /\ x \in OpenStops' /\ OpenStops \subseteq OpenStops'
          /\ stops'[x].previous = p /\ stops'[x].chain = c
      <3> DEFINE b == \E r \in ToSet(replacements) :
                         r.phase = "active" /\ r.previous = p /\ r.next = n
                 s == [previous |-> p, next |-> n, phase |-> "stopping",
                       native |-> b, chain |-> c]
      <3>1. stops' = Append(stops, s)
        BY <2>1 DEF BeginStop
      <3>2. s \in Stop /\ s.previous = p /\ s.chain = c /\ s.phase = "stopping"
        BY <1>0, LinkIs DEF Stop
      <3> HIDE DEF s
      <3> QED BY <1>0, <3>1, <3>2, StopAppended
    <2>5. CASE OpenStops # {}
      BY <1>3, <2>3, <2>4, <2>5
    <2>6. CASE OpenStops = {} /\ c = <<>>
      <3>1. p \notin StoppedOrigins
        BY <2>6 DEF StoppedOrigins
      <3>2. Latest(recoveries, LAMBDA r : r.phase # "rejoined")
        BY <1>0, <2>3, LastIs, UnreplacedIs DEF Latest
      <3>3. Last(recoveries).offer = p
        BY <2>1, <2>6, <3>1, <3>2 DEF BeginStop
      <3> QED BY <1>0, <2>3, <2>4, <3>3, LastIs
    <2>7. CASE c # <<>>
      <3>1. ChainOK(recoveries, m) /\ c = ChainOffers(recoveries, m) /\ recoveries # <<>>
        BY <1>0, <2>7, LinkIs
      <3>2. /\ m \in DOMAIN recoveries /\ Rooted(recoveries, m)
            /\ recoveries \in Seq(Recovery)
        BY <1>0, <3>1, LastIs DEF ChainOK, TypeOK
      <3>3. /\ ToSet(c) = {recoveries[k].offer : k \in Root(recoveries, m)..m}
            /\ Root(recoveries, m) \in 1..m
        BY <1>0, <3>1, <3>2, ChainOffersAre, RootIs
      <3>4. o \in ToSet(c)
        <4>1. m \in Root(recoveries, m)..m
          BY <1>0, <3>3
        <4> QED BY <3>3, <4>1
      <3> QED BY <2>3, <2>4, <3>4
    <2> QED BY <2>5, <2>6, <2>7
  <1> QED BY <1>4, <1>5, NextKeeps

-----------------------------------------------------------------------------
(* What takes a recovery's place, and the ranks of the keys.               *)

\* A channel that was replaced led to an older key than the present one and
\* than the target of the last replacement.
LEMMA SupersededBelow ==
    ASSUME TypeOK, KnownOK, RanksGrow, NEW k \in DOMAIN recoveries,
           Superseded(recoveries[k].offer)
    PROVE  /\ recoveries[k].offer.peer < trusted
           /\ \A j \in DOMAIN replacements : j = Len(replacements) =>
                 recoveries[k].offer.peer < replacements[j].next.peer
  <1>0. /\ trusted \in Nat /\ DOMAIN replacements = 1..Len(replacements)
        /\ Len(replacements) \in Nat
        /\ \A o \in Offer : o # NoOffer /\ o.peer \in Nat
        /\ recoveries[k].offer \in Offer
        /\ \A j \in DOMAIN replacements : replacements[j].next \in Offer
    BY OfferAssumption, Domains DEF TypeOK, Recovery, Replacement
  <1>1. PICK i \in DOMAIN replacements : replacements[i].previous = recoveries[k].offer
    BY DEF Superseded
  <1>2. Known(recoveries[k].offer) /\ Known(replacements[i].next)
    BY <1>0 DEF Known
  <1>3. /\ recoveries[k].offer.peer < replacements[i].next.peer
        /\ replacements[i].next.peer <= trusted
    BY <1>0, <1>1, <1>2 DEF RanksGrow, KnownOK
  <1>4. ASSUME NEW j \in DOMAIN replacements, j = Len(replacements)
        PROVE  replacements[i].next.peer <= replacements[j].next.peer
    <2>1. i < j \/ i = j
      BY <1>0, <1>4
    <2> QED BY <1>0, <2>1 DEF RanksGrow
  <1> QED BY <1>0, <1>3, <1>4

\* Which recovery a new one follows.
LEMMA NewEntryFollows ==
    ASSUME IInv, Next, EntrySteps, ReplacementsGrow, StopsGrow, ChainsBridged',
           BeforeFirst, CurrentIsLast, OriginCurrent,
           NEW k \in DOMAIN recoveries' \ DOMAIN recoveries,
           NEW m, m = Len(recoveries), m \in DOMAIN recoveries
    PROVE  Passed(m)' \/ Superseded(recoveries[m].offer)'
  <1> DEFINE o == recoveries[m].offer
  <1>0. TypeOK /\ ReplacementsOpen /\ recoveries'[m].offer = o
        /\ \A j \in DOMAIN replacements : replacements[j] \in Replacement
    BY EntriesSame, Domains DEF IInv, SameEntry
  <1>1. ASSUME Superseded(o) PROVE Superseded(recoveries[m].offer)'
    <2>1. \A x : Superseded(x) => Superseded(x)'
      BY SupersededStays
    <2> QED BY <1>0, <1>1, <2>1
  <1>2. CASE Passed(m) \/ Superseded(o)
    BY <1>1, <1>2, PassedStays
  <1>3. CASE ~Passed(m) /\ ~Superseded(o)
    <2>1. Unreplaced
      BY <1>0, <1>3, UnreplacedIs DEF Passed
    <2>2. invitation.offer = o
      BY <1>0, <2>1, LastIs DEF CurrentIsLast
    <2>3. ~BeginClose
      BY <2>2 DEF BeginClose, RecoveryOf
    <2>4. ASSUME NEW i \in DOMAIN recoveries, i = m,
                 recoveries'[k].deferred_from = recoveries[i].offer, k = m + 1
          PROVE  Passed(m)'
      BY <1>0, <2>4 DEF Passed, Linked
    <2>5. ASSUME NEW j \in DOMAIN replacements, BeginReplacementRecovery(j)
          PROVE  Superseded(recoveries[m].offer)'
      <3>1. /\ replacements[j].phase \in {"prepared", "consented", "recovery_required"}
            /\ Accepts("failure")
            /\ replacements' = [replacements EXCEPT ![j].phase = "recovering"]
        BY <2>5 DEF BeginReplacementRecovery
      <3>2. OpenStops = {}
        BY <3>1, OthersFit
      <3>3. replacements[j].previous = o
        BY <2>1, <3>1, <3>2, OriginIsLast
      <3>4. /\ j \in DOMAIN replacements'
            /\ replacements'[j] = [replacements[j] EXCEPT !.phase = "recovering"]
        BY <1>0, <3>1 DEF TypeOK
      <3>5. replacements'[j].phase = "recovering" /\ replacements'[j].previous = o
        BY <1>0, <3>3, <3>4, PhaseIs
      <3> QED BY <1>0, <3>4, <3>5 DEF Superseded
    <2> QED BY <2>3, <2>4, <2>5, NewEntryIs
  <1> QED BY <1>2, <1>3

LEMMA SuccessionStep ==
    ASSUME IInv, Next, EntrySteps, ReplacementsGrow, StopsGrow, ChainsBridged',
           BeforeFirst, CurrentIsLast, OriginCurrent, Succession
    PROVE  Succession'
  <1> SUFFICES ASSUME NEW k \in DOMAIN recoveries', k # Len(recoveries')
               PROVE  Passed(k)' \/ Superseded(recoveries[k].offer)'
    BY DEF Succession
  <1>1. k \in DOMAIN recoveries
    BY NewEntryIs
  <1>2. CASE k # Len(recoveries)
    <2>1. Passed(k) \/ Superseded(recoveries[k].offer)
      BY <1>1, <1>2 DEF Succession
    <2>2. Passed(k) => Passed(k)'
      BY <1>1, PassedStays
    <2>3. \A x : Superseded(x) => Superseded(x)'
      BY SupersededStays
    <2>4. recoveries'[k].offer = recoveries[k].offer
      BY <1>1, NextOfEntry
    <2> QED BY <2>1, <2>2, <2>3, <2>4
  <1>3. CASE k = Len(recoveries)
    <2>1. \E x \in DOMAIN recoveries' : x \notin DOMAIN recoveries
      <3>1. SUFFICES ASSUME DOMAIN recoveries' \subseteq DOMAIN recoveries PROVE FALSE
        OBVIOUS
      <3>2. DOMAIN recoveries' = DOMAIN recoveries
        BY <3>1 DEF EntrySteps
      <3>3. DOMAIN recoveries = 1..Len(recoveries) /\ Len(recoveries) \in Nat
        BY Domains DEF IInv
      <3>4. Len(recoveries') = Len(recoveries)
        <4>1. DOMAIN recoveries' = 1..Len(recoveries') /\ Len(recoveries') \in Nat
          BY NextOK, Domains DEF IInv, TypeOK
        <4> DEFINE a == Len(recoveries')
                   b == Len(recoveries)
        <4>2. 1..a = 1..b /\ a \in Nat /\ b \in Nat /\ b \in 1..b
          BY <1>1, <1>3, <3>2, <3>3, <4>1
        <4> HIDE DEF a, b
        <4>3. b \in 1..a /\ a \in 1..b
          BY <4>2
        <4>4. b <= a /\ a <= b
          BY <4>3
        <4>5. a = b
          BY <4>2, <4>4
        <4> QED BY <4>5 DEF a, b
      <3> QED BY <1>3, <3>4
    <2> QED BY <1>1, <1>3, <2>1, NewEntryFollows
  <1> QED BY <1>2, <1>3

LEMMA RankedStep ==
    ASSUME IInv, SuccessorsOK, Next, EntrySteps, ReplacementsGrow, StopsGrow,
           ChainsBridged', BeforeFirst, CurrentIsLast, OriginCurrent, KnownOK, RanksGrow,
           Succession, Ranked, Ahead
    PROVE  Ranked'
  <1>0. /\ TypeOK /\ ReplacementsOpen
        /\ DOMAIN recoveries = 1..Len(recoveries) /\ Len(recoveries) \in Nat
        /\ \A j \in DOMAIN recoveries : recoveries[j].offer \in Offer
        /\ \A o \in Offer : o # NoOffer /\ o.peer \in Nat
    BY OfferAssumption, Domains DEF IInv, TypeOK, Recovery
  <1>1. \A j \in DOMAIN recoveries :
           /\ recoveries'[j].offer = recoveries[j].offer
           /\ Passed(j) => Passed(j)'
    BY NextOfEntry, PassedStays
  <1>2. ASSUME NEW k \in DOMAIN recoveries' \ DOMAIN recoveries,
               NEW j \in DOMAIN recoveries, ~Passed(j)'
        PROVE  recoveries[j].offer.peer < recoveries'[k].offer.peer
    <2>1. ~Passed(j)
      BY <1>1, <1>2
    <2>2. CASE BeginClose /\ recoveries'[k].offer = invitation.offer
      BY <2>1, <2>2 DEF BeginClose, Ahead
    <2>3. ASSUME NEW i \in DOMAIN recoveries, BeginRejoinRecovery(i), i = Len(recoveries),
                 recoveries'[k].offer = recoveries[i].next,
                 recoveries'[k].deferred_from = recoveries[i].offer,
                 k = Len(recoveries) + 1
          PROVE  recoveries[j].offer.peer < recoveries'[k].offer.peer
      <3>1. recoveries[i].next # NoOffer
        BY <2>3 DEF BeginRejoinRecovery, CanFailRejoin
      <3>2. recoveries[i].offer.peer = recoveries[i].next.peer
        BY <3>1 DEF SuccessorsOK, IsSuccessor
      <3>3. j # i
        BY <1>1, <1>2, <2>3 DEF Passed, Linked
      <3>4. j < i
        BY <1>0, <2>3, <3>3
      <3>5. recoveries[j].offer.peer < recoveries[i].offer.peer
        BY <2>1, <3>4 DEF Ranked
      <3> QED BY <2>3, <3>2, <3>5
    <2>4. ASSUME NEW r \in DOMAIN replacements, BeginReplacementRecovery(r),
                 recoveries'[k].offer = replacements[r].next
          PROVE  recoveries[j].offer.peer < recoveries'[k].offer.peer
      <3>1. /\ replacements[r].phase \in {"prepared", "consented", "recovery_required"}
            /\ Accepts("failure")
        BY <2>4 DEF BeginReplacementRecovery
      <3>2. r = Len(replacements)
        BY <1>0, <3>1, ReplacingIs
      <3>3. CASE Superseded(recoveries[j].offer)
        BY <1>0, <2>4, <3>2, <3>3, SupersededBelow
      <3>4. CASE ~Superseded(recoveries[j].offer)
        <4>1. j = Len(recoveries)
          BY <2>1, <3>4 DEF Succession
        <4>2. Unreplaced
          BY <1>0, <2>1, <3>4, <4>1, UnreplacedIs DEF Passed
        <4>3. OpenStops = {}
          BY <3>1, OthersFit
        <4>4. replacements[r].previous = recoveries[j].offer
          BY <3>1, <4>1, <4>2, <4>3, OriginIsLast
        <4>5. Known(replacements[r].previous)
          BY <1>0, <4>4 DEF Known
        <4> QED BY <2>4, <4>4, <4>5 DEF RanksGrow
      <3> QED BY <3>3, <3>4
    <2> QED BY <1>2, <2>2, <2>3, <2>4, NewEntryIs
  <1>3. ASSUME NEW j \in DOMAIN recoveries', NEW k \in DOMAIN recoveries', j < k
        PROVE  Passed(j)' \/ recoveries'[j].offer.peer < recoveries'[k].offer.peer
    <2>1. j \in DOMAIN recoveries
      <3>1. SUFFICES ASSUME j \notin DOMAIN recoveries PROVE FALSE
        OBVIOUS
      <3>2. j = Len(recoveries) + 1
        BY <3>1, NewEntryIs
      <3>3. k \in DOMAIN recoveries \/ k = Len(recoveries) + 1
        BY NewEntryIs
      <3> QED BY <1>0, <1>3, <3>2, <3>3
    <2>2. CASE k \in DOMAIN recoveries
      BY <1>1, <1>3, <2>1, <2>2 DEF Ranked
    <2>3. CASE k \notin DOMAIN recoveries
      BY <1>1, <1>2, <2>1, <2>3
    <2> QED BY <2>2, <2>3
  <1> QED BY <1>3 DEF Ranked

LEMMA AheadStep ==
    ASSUME IInv, Next, IInv', EntrySteps, ReplacementsGrow, StopsGrow,
           ChainsBridged', BeforeFirst, CurrentIsLast, OriginCurrent, StopsAtLast,
           KnownOK, RanksGrow, LinksOK, KnownOK', RanksGrow', Succession, Ahead
    PROVE  Ahead'
  <1> SUFFICES ASSUME invitation' # NoInvitation, RecoveryOf(invitation.offer)' = {},
                      NEW k \in DOMAIN recoveries', ~Passed(k)'
               PROVE  recoveries'[k].offer.peer < invitation'.offer.peer
    BY DEF Ahead
  <1>0. /\ TypeOK /\ TypeOK' /\ InvitationOK /\ ReplacementsOpen
        /\ trusted \in Nat /\ trusted' \in Nat
        /\ \A j \in DOMAIN recoveries : recoveries[j].offer \in Offer
        /\ \A j \in DOMAIN recoveries : recoveries[j].next # NoOffer =>
              recoveries[j].next \in Offer
        /\ \A j \in DOMAIN replacements : replacements[j].next \in Offer
        /\ \A o \in Offer : o # NoOffer /\ o.peer \in Nat
    BY OfferAssumption, Domains DEF IInv, TypeOK, Recovery, Replacement, Optional
  <1>1. \A x \in DOMAIN recoveries' : recoveries'[x].offer # invitation'.offer
    BY DEF RecoveryOf
  <1>2. k \in DOMAIN recoveries
    <2>1. SUFFICES ASSUME k \notin DOMAIN recoveries PROVE FALSE
      OBVIOUS
    <2>2. ~(BeginClose /\ recoveries'[k].offer = invitation.offer)
      BY <1>1 DEF BeginClose
    <2>3. ASSUME NEW i \in DOMAIN recoveries, BeginRejoinRecovery(i),
                 recoveries'[k].offer = recoveries[i].next
          PROVE  FALSE
      <3>1. recoveries[i].next \in Offer
        BY <1>0, <2>3 DEF BeginRejoinRecovery, CanFailRejoin
      <3> QED BY <1>1, <2>3, <3>1, FreshIs DEF BeginRejoinRecovery
    <2>4. ASSUME NEW j \in DOMAIN replacements, BeginReplacementRecovery(j),
                 recoveries'[k].offer = replacements[j].next
          PROVE  FALSE
      <3>1. invitation'.offer = replacements[j].next
        BY <1>0, <2>4, FreshIs DEF BeginReplacementRecovery
      <3> QED BY <1>1, <2>4, <3>1
    <2> QED BY <2>1, <2>2, <2>3, <2>4, NewEntryIs
  <1>3. /\ recoveries'[k].offer = recoveries[k].offer
        /\ ~Passed(k)
    BY <1>2, NextOfEntry, PassedStays
  <1>4. CASE invitation'.offer = invitation.offer
    <2>1. \A x \in DOMAIN recoveries :
             x \in DOMAIN recoveries' /\ recoveries'[x].offer = recoveries[x].offer
      BY NextOfEntry DEF EntrySteps
    <2>2. RecoveryOf(invitation.offer) = {}
      BY <1>1, <1>4, <2>1 DEF RecoveryOf
    <2>3. invitation # NoInvitation
      <3>1. invitation'.offer # NoOffer
        BY DEF IInv, InvitationOK
      <3> QED BY <1>4, <3>1, ChannelThere
    <2> QED BY <1>2, <1>3, <1>4, <2>2, <2>3 DEF Ahead
  <1>5. ASSUME NEW o \in Offer, PrepareInvitation(o)
        PROVE  FALSE
    BY <1>0, <1>2, <1>5, NothingBefore
  <1>6. ASSUME NEW x \in DOMAIN recoveries, NEW n \in Offer, ActivateRejoin(x, n),
               invitation'.offer = n
        PROVE  recoveries'[k].offer.peer < invitation'.offer.peer
    <2>1. x = Len(recoveries) /\ n.peer = trusted
      BY <1>6, RejoinsLast, RejoinContext DEF ContextIs
    <2>2. k # x
      <3>1. ChainOK(recoveries, x) /\ x \in Nat
        BY <1>0, <1>6, Domains DEF ActivateRejoin, CanRejoin
      <3>2. x \in Root(recoveries, x)..x
        BY <3>1, RootIs DEF ChainOK
      <3>3. recoveries'[x].phase = "rejoined"
        BY <1>0, <1>6, <3>2, RejoinedEntries DEF EntryRejoins
      <3> QED BY <3>3 DEF Passed
    <2>3. Superseded(recoveries[k].offer)
      BY <1>2, <1>3, <2>1, <2>2 DEF Succession
    <2> QED BY <1>0, <1>2, <1>3, <1>6, <2>1, <2>3, SupersededBelow
  <1>7. ASSUME NEW x \in DOMAIN recoveries, BeginRejoinRecovery(x),
               invitation'.offer = recoveries[x].next
        PROVE  FALSE
    <2>1. /\ x = Len(recoveries) /\ recoveries[x].next \in Offer
          /\ recoveries' = Append([recoveries EXCEPT ![x].successor_failed = TRUE],
                                  Closing(recoveries[x].next, FALSE, recoveries[x].offer))
      BY <1>0, <1>7 DEF BeginRejoinRecovery, CanFailRejoin
    <2>2. PICK rs, c : /\ rs = [recoveries EXCEPT ![x].successor_failed = TRUE]
                       /\ c.offer = recoveries[x].next
                       /\ recoveries' = Append(rs, c)
      BY <2>1 DEF Closing
    <2>3. /\ Len(rs) + 1 \in DOMAIN recoveries' /\ recoveries'[Len(rs) + 1] = c
      BY <1>0, <2>2 DEF TypeOK
    <2> QED BY <1>1, <1>7, <2>2, <2>3
  <1>8. ASSUME NEW j \in DOMAIN replacements, ActivateReplacement(j),
               invitation'.offer = replacements[j].next
        PROVE  recoveries'[k].offer.peer < invitation'.offer.peer
    <2>1. ContextIs(replacements[j].next) /\ UNCHANGED <<recoveries, trusted>>
      BY <1>8 DEF ActivateReplacement
    <2>2. CASE Superseded(recoveries[k].offer)
      BY <1>0, <1>2, <1>3, <1>8, <2>1, <2>2, SupersededBelow DEF ContextIs
    <2>3. CASE ~Superseded(recoveries[k].offer)
      <3>1. k = Len(recoveries)
        BY <1>2, <1>3, <2>3 DEF Succession
      <3>2. Unreplaced
        BY <1>0, <1>2, <1>3, <2>3, <3>1, UnreplacedIs DEF Passed
      <3> DEFINE o == recoveries[k].offer
      <3>3. \A x : x = o => Superseded(x)' \/ StopRetired(x)'
        BY <1>8, <3>1, <3>2, ReplacementTakes
      <3>4. ~StopRetired(recoveries[k].offer)'
        BY DEF Passed
      <3>5. PICK i \in DOMAIN replacements' : replacements'[i].previous = o
        <4>1. \A x : x = o => Superseded(x)'
          BY <1>3, <3>3, <3>4
        <4> QED BY <4>1 DEF Superseded
      <3>6. replacements'[i].next \in Offer
        <4>1. replacements' \in Seq(Replacement)
          BY <1>0 DEF TypeOK
        <4>2. replacements'[i] \in Replacement
          BY <4>1
        <4> QED BY <4>2 DEF Replacement
      <3>7. Known(recoveries[k].offer)' /\ Known(replacements[i].next)'
        BY <1>0, <1>2, <1>3, <3>6 DEF Known
      <3>8. replacements'[i].previous.peer < replacements'[i].next.peer
        <4>1. Known(replacements[i].previous)'
          BY <1>3, <3>5, <3>7
        <4> QED BY <4>1 DEF RanksGrow
      <3>9. replacements'[i].next.peer <= trusted'
        BY <3>6, <3>7 DEF KnownOK
      <3> QED BY <1>0, <1>2, <1>3, <1>8, <2>1, <3>5, <3>6, <3>8, <3>9 DEF ContextIs
    <2> QED BY <2>2, <2>3
  <1>9. ASSUME NEW j \in DOMAIN replacements, BeginReplacementRecovery(j),
               invitation'.offer = replacements[j].next
        PROVE  FALSE
    <2>1. PICK c : c.offer = replacements[j].next /\ recoveries' = Append(recoveries, c)
      BY <1>9 DEF BeginReplacementRecovery, Closing
    <2>2. /\ Len(recoveries) + 1 \in DOMAIN recoveries'
          /\ recoveries'[Len(recoveries) + 1] = c
      BY <1>0, <2>1 DEF TypeOK
    <2> QED BY <1>1, <1>9, <2>1, <2>2
  <1> QED BY <1>4, <1>5, <1>6, <1>7, <1>8, <1>9, ChannelSteps DEF ChannelStep

-----------------------------------------------------------------------------
(* Successors that are chosen, and those that are vetoed.                  *)

\* In the chain that a stop bridges only the last channel has no successor yet.
LEMMA StopEnds ==
    ASSUME TypeOK, RecoveriesDistinct, NEW k \in DOMAIN recoveries,
           StopRetired(recoveries[k].offer)
    PROVE  recoveries[k].next = NoOffer \/ Linked(k)
  <1>0. DOMAIN recoveries = 1..Len(recoveries) /\ Len(recoveries) \in Nat
        /\ DOMAIN recoveries \subseteq Nat \ {0}
    BY Domains
  <1>1. PICK x \in DOMAIN stops :
           /\ Bridged(stops[x], recoveries, replacements)
           /\ recoveries[k].offer \in ToSet(stops[x].chain)
    BY DEF StopRetired
  <1> DEFINE s == stops[x]
  <1>2. PICK i \in DOMAIN recoveries : \E j \in 1..i :
           BridgeAt(s.previous, s.next, s.chain, recoveries, replacements, i, j)
    <2>1. BridgeOK(s.previous, s.next, s.chain, recoveries, replacements)
      BY <1>1 DEF Bridged
    <2> HIDE DEF s
    <2> QED BY <1>0, <2>1, BridgeIs
  <1>3. PICK j \in 1..i :
           BridgeAt(s.previous, s.next, s.chain, recoveries, replacements, i, j)
    BY <1>2
  <1>4. /\ s.chain = [y \in 1..(i - j + 1) |-> recoveries[j + y - 1].offer]
        /\ recoveries[i].next = NoOffer
        /\ \A y \in (j + 1)..i : recoveries[y - 1].offer = recoveries[y].deferred_from
    BY <1>3 DEF BridgeAt
  <1>5. PICK y \in 1..(i - j + 1) : recoveries[j + y - 1].offer = recoveries[k].offer
    BY <1>1, <1>4 DEF ToSet
  <1>6. j + y - 1 \in j..i /\ j + y - 1 \in DOMAIN recoveries
    BY <1>0
  <1>7. k = j + y - 1
    BY <1>5, <1>6 DEF RecoveriesDistinct
  <1>8. CASE k = i
    BY <1>4, <1>8
  <1>9. CASE k # i
    <2>1. k + 1 \in (j + 1)..i /\ (k + 1) - 1 = k /\ k + 1 \in DOMAIN recoveries
      BY <1>0, <1>6, <1>7, <1>9
    <2> QED BY <1>4, <2>1 DEF Linked
  <1> QED BY <1>8, <1>9

\* The successor of the last recovery is not the current channel.
LEMMA NextElsewhere ==
    ASSUME IInv, RecoveriesDistinct, SuccessorsOK, FreshNext, Ahead,
           NEW m, m = Len(recoveries), m \in DOMAIN recoveries,
           recoveries[m].phase # "rejoined", recoveries[m].next # NoOffer
    PROVE  /\ recoveries[m].next # invitation.offer
           /\ RecoveryOf(recoveries[m].next) = {}
           /\ \A j \in DOMAIN replacements : replacements[j].previous # recoveries[m].next
           /\ \A k \in OpenStops : stops[k].previous # recoveries[m].next
           /\ ~StopRetired(recoveries[m].offer)
  <1> DEFINE n == recoveries[m].next
  <1>0. /\ TypeOK /\ DOMAIN recoveries = 1..Len(recoveries) /\ Len(recoveries) \in Nat
        /\ n \in Offer /\ recoveries[m].offer \in Offer
        /\ \A o \in Offer : o # NoOffer /\ o.peer \in Nat
    BY OfferAssumption, Domains DEF IInv, TypeOK, Recovery, Optional
  <1>1. /\ RecoveryOf(n) = {}
        /\ \A j \in DOMAIN replacements : replacements[j].previous # n
        /\ \A k \in OpenStops : stops[k].previous # n
    <2>1. Latest(recoveries, LAMBDA r : r.phase # "rejoined" /\ r.next # NoOffer)
          /\ Last(recoveries).next = n
      BY <1>0, LastIs DEF Latest
    <2> QED BY <2>1 DEF FreshNext
  <1>2. ~Linked(m)
    BY <1>0 DEF Linked
  <1>3. ~StopRetired(recoveries[m].offer)
    BY <1>0, <1>2, StopEnds
  <1>4. n # invitation.offer
    <2>1. SUFFICES ASSUME n = invitation.offer PROVE FALSE
      OBVIOUS
    <2>2. invitation # NoInvitation
      BY <1>0, <2>1, ChannelThere
    <2>3. RecoveryOf(invitation.offer) = {}
      BY <1>1, <2>1
    <2>4. Passed(m) \/ recoveries[m].offer.peer < n.peer
      BY <2>1, <2>2, <2>3 DEF Ahead
    <2>5. recoveries[m].offer.peer = n.peer
      BY DEF SuccessorsOK, IsSuccessor
    <2> QED BY <1>0, <1>2, <1>3, <2>4, <2>5 DEF Passed
  <1> QED BY <1>1, <1>3, <1>4

\* What is replaced or stopped is the current chat, or the origin of another
\* replacement or stop.
LEMMA OriginsOld ==
    ASSUME IInv, BeforeFirst, DOMAIN recoveries # {}, NEW p \in Offer, NEW n \in Offer,
           PrepareReplacement(p, n) \/ BeginStop(p, n)
    PROVE  \/ p = invitation.offer /\ invitation.phase = "active"
           \/ \E j \in DOMAIN replacements : replacements[j].previous = p
           \/ \E k \in OpenStops : stops[k].previous = p
  <1>0. TypeOK
    BY DEF IInv
  <1>1. invitation # NoInvitation
    BY <1>0, LastIs DEF BeforeFirst
  <1>2. p \in StoppedOrigins => \E k \in OpenStops : stops[k].previous = p
    BY DEF StoppedOrigins
  <1>3. CASE PrepareReplacement(p, n)
    BY <1>1, <1>2, <1>3 DEF PrepareReplacement
  <1>4. CASE BeginStop(p, n)
    <2>1. CASE \E r \in ToSet(replacements) :
                  r.phase = "active" /\ r.previous = p /\ r.next = n
      BY <2>1 DEF ToSet
    <2>2. CASE Link(p, n) # <<>>
      <3>1. \E r \in ToSet(replacements) : r.previous = p
        BY <1>0, <2>2, LinkIs DEF BridgeOK
      <3> QED BY <3>1 DEF ToSet
    <2>3. CASE /\ ~\E r \in ToSet(replacements) :
                      r.phase = "active" /\ r.previous = p /\ r.next = n
               /\ Link(p, n) = <<>> /\ p \notin StoppedOrigins
      BY <1>1, <1>4, <2>3 DEF BeginStop
    <2> QED BY <1>2, <2>1, <2>2, <2>3
  <1> QED BY <1>3, <1>4

\* No new origin is a channel that is none yet and is not the current chat.
LEMMA OriginsApart ==
    ASSUME IInv, BeforeFirst, DOMAIN recoveries # {}, ReplacementsGrow, StopsGrow,
           NEW o, o = invitation.offer => invitation.phase # "active",
           \A j \in DOMAIN replacements : replacements[j].previous # o,
           \A k \in OpenStops : stops[k].previous # o
    PROVE  /\ \A j \in DOMAIN replacements' : replacements'[j].previous # o
           /\ \A k \in OpenStops' : stops'[k].previous # o
  <1>1. ASSUME NEW j \in DOMAIN replacements'
        PROVE  replacements'[j].previous # o
    <2>1. CASE j \in DOMAIN replacements
      BY <2>1 DEF ReplacementsGrow, KeptReplacement
    <2>2. CASE j \notin DOMAIN replacements
      <3>1. NewReplacement(j)
        BY <2>2 DEF ReplacementsGrow
      <3> QED BY <3>1, OriginsOld DEF NewReplacement
    <2> QED BY <2>1, <2>2
  <1>2. ASSUME NEW k \in OpenStops'
        PROVE  stops'[k].previous # o
    <2>1. CASE k \in DOMAIN stops
      BY <1>2, <2>1 DEF StopsGrow, KeptStop
    <2>2. CASE k \notin DOMAIN stops
      <3>1. BegunAt(k)
        BY <1>2, <2>2 DEF StopsGrow, OpenStops
      <3> QED BY <3>1, OriginsOld DEF BegunAt
    <2> QED BY <2>1, <2>2
  <1> QED BY <1>1, <1>2

LEMMA FreshNextStep ==
    ASSUME IInv, RecoveriesDistinct, SuccessorsOK, Next, IInv', EntrySteps,
           ReplacementsGrow, StopsGrow, BeforeFirst, FreshNext, Ahead
    PROVE  FreshNext'
  <1> DEFINE m == Len(recoveries')
  <1>0. /\ TypeOK /\ TypeOK' /\ DOMAIN recoveries = 1..Len(recoveries)
        /\ Len(recoveries) \in Nat
    BY Domains DEF IInv
  <1> SUFFICES ASSUME m \in DOMAIN recoveries', recoveries'[m].phase # "rejoined",
                      recoveries'[m].next # NoOffer
               PROVE  /\ \A k \in DOMAIN recoveries' :
                            recoveries'[k].offer # recoveries'[m].next
                      /\ \A j \in DOMAIN replacements' :
                            replacements'[j].previous # recoveries'[m].next
                      /\ \A k \in OpenStops' : stops'[k].previous # recoveries'[m].next
    <2>1. recoveries' # <<>> => m \in DOMAIN recoveries'
      BY <1>0 DEF TypeOK
    <2> QED BY <2>1 DEF FreshNext, Latest, Last, RecoveryOf
  <1> DEFINE n == recoveries'[m].next
  <1>1. m \in DOMAIN recoveries /\ DOMAIN recoveries' = DOMAIN recoveries
        /\ m = Len(recoveries)
    <2>1. m \in DOMAIN recoveries
      BY NewEntryIs
    <2>2. \A k \in DOMAIN recoveries' : k \in DOMAIN recoveries
      <3>1. \A k \in DOMAIN recoveries' \ DOMAIN recoveries : m = k
        BY NewEntryIs
      <3> QED BY <2>1, <3>1
    <2>3. DOMAIN recoveries' = DOMAIN recoveries
      BY <2>2 DEF EntrySteps
    <2>4. DOMAIN recoveries' = 1..m /\ m \in Nat
      BY <1>0 DEF TypeOK
    <2> DEFINE b == Len(recoveries)
    <2>5. 1..m = 1..b /\ m \in 1..b /\ m \in Nat /\ b \in Nat
      BY <1>0, <2>1, <2>3, <2>4
    <2>6. m = b
      <3> HIDE DEF m, b
      <3>1. m <= b /\ b \in 1..b
        BY <2>5
      <3>2. b <= m
        BY <2>5, <3>1
      <3> QED BY <2>5, <3>1, <3>2
    <2> QED BY <2>1, <2>3, <2>6
  <1>2. /\ \A k \in DOMAIN recoveries : recoveries'[k].offer = recoveries[k].offer
        /\ recoveries[m].phase # "rejoined"
    BY <1>1, NextOfEntry, EntriesSame
  <1>3. /\ n # invitation.offer
        /\ \A k \in DOMAIN recoveries : recoveries[k].offer # n
        /\ \A j \in DOMAIN replacements : replacements[j].previous # n
        /\ \A k \in OpenStops : stops[k].previous # n
    <2>1. CASE n = recoveries[m].next
      <3>1. recoveries[m].next # NoOffer
        BY <2>1
      <3> QED BY <1>1, <1>2, <2>1, <3>1, NextElsewhere DEF RecoveryOf
    <2>2. CASE n # recoveries[m].next
      <3>1. PICK x \in Offer : EntryPrepares(m, x)
        BY <1>1, <2>2, NextOfEntry
      <3>2. n = x /\ CanRejoin(m, n)
        BY <3>1 DEF EntryPrepares, PrepareRejoin
      <3>3. /\ RecoveryOf(n) = {} /\ Accepts("rejoin")
            /\ \A r \in ToSet(replacements) : r.previous # n
            /\ IsSuccessor(recoveries[m].offer, n)
        BY <3>2 DEF CanRejoin
      <3>4. OpenStops = {}
        BY <3>3, OthersFit
      <3>5. n # invitation.offer
        <4>1. SUFFICES ASSUME n = invitation.offer PROVE FALSE
          OBVIOUS
        <4>2. invitation # NoInvitation /\ RecoveryOf(invitation.offer) = {}
          BY <3>2, <3>1, <3>3, <4>1, ChannelThere
        <4>3. Passed(m) \/ recoveries[m].offer.peer < n.peer
          BY <1>1, <4>1, <4>2 DEF Ahead
        <4>4. ~Linked(m)
          BY <1>0, <1>1 DEF Linked
        <4>5. ~StopRetired(recoveries[m].offer)
          BY <3>2 DEF CanRejoin, StopRetired, RecoveryStopped, ToSet
        <4>6. /\ recoveries[m].offer.peer = n.peer
              /\ recoveries[m].offer.peer \in Nat
          BY <1>0, <1>1, <3>3, OfferAssumption, Domains DEF IsSuccessor, Recovery
        <4> QED BY <1>2, <4>3, <4>4, <4>5, <4>6 DEF Passed
      <3> QED BY <3>3, <3>4, <3>5 DEF RecoveryOf, ToSet
    <2> QED BY <2>1, <2>2
  <1>4. /\ \A j \in DOMAIN replacements' : replacements'[j].previous # n
        /\ \A k \in OpenStops' : stops'[k].previous # n
    <2> HIDE DEF n
    <2> QED BY <1>1, <1>3, OriginsApart
  <1> QED BY <1>1, <1>2, <1>3, <1>4

\* Vetoed is what some entry records as cancelled.
LEMMA VetoedIs ==
    ASSUME NEW o
    PROVE  /\ o \in VetoedRejoins <=>
                 \E k \in DOMAIN recoveries : \E i \in DOMAIN recoveries[k].cancellations :
                    /\ recoveries[k].cancellations[i].outcome = "cancelled"
                    /\ recoveries[k].cancellations[i].next = o
           /\ (o \in VetoedRejoins)' <=>
                 \E k \in DOMAIN recoveries' : \E i \in DOMAIN recoveries'[k].cancellations :
                    /\ recoveries'[k].cancellations[i].outcome = "cancelled"
                    /\ recoveries'[k].cancellations[i].next = o
  BY DEF VetoedRejoins, ToSet

\* A target becomes vetoed when the service confirms it.
LEMMA VetoedBy ==
    ASSUME TypeOK, EntriesOK, EntrySteps, NEW o, (o \in VetoedRejoins)', o \notin VetoedRejoins
    PROVE  \E k \in DOMAIN recoveries :
              /\ EntryCancelled(k, "cancelled") /\ recoveries[k].next = o
              /\ k = Len(recoveries)
  <1>1. PICK k \in DOMAIN recoveries' : \E i \in DOMAIN recoveries'[k].cancellations :
           /\ recoveries'[k].cancellations[i].outcome = "cancelled"
           /\ recoveries'[k].cancellations[i].next = o
    BY VetoedIs
  <1>2. PICK i \in DOMAIN recoveries'[k].cancellations :
           /\ recoveries'[k].cancellations[i].outcome = "cancelled"
           /\ recoveries'[k].cancellations[i].next = o
    BY <1>1
  <1>3. k \in DOMAIN recoveries
    <2>1. SUFFICES ASSUME k \notin DOMAIN recoveries PROVE FALSE
      OBVIOUS
    <2>2. recoveries'[k].cancellations = <<>>
      BY <2>1, NewEntryIs
    <2> QED BY <1>2, <2>2
  <1> DEFINE r == recoveries[k]
             cs == r.cancellations
             x == Len(cs)
  <1>4. cs \in Seq(Cancellation) /\ r \in Recovery
    BY <1>3, Domains DEF Recovery
  <1>5. ~\E y \in DOMAIN cs : cs[y].outcome = "cancelled" /\ cs[y].next = o
    BY <1>3, VetoedIs
  <1>6. recoveries'[k].cancellations # cs
    BY <1>2, <1>5
  <1>7. ~EntryCancels(k)
    <2>1. SUFFICES ASSUME EntryCancels(k) PROVE FALSE
      OBVIOUS
    <2> DEFINE c == [next |-> r.next, outcome |-> "pending"]
    <2>2. recoveries'[k].cancellations = Append(cs, c)
      BY <2>1 DEF EntryCancels
    <2>3. c.outcome = "pending"
      OBVIOUS
    <2> HIDE DEF c
    <2>4. Append(cs, c)[i] = c \/ (i \in DOMAIN cs /\ Append(cs, c)[i] = cs[i])
      BY <1>2, <1>4, <2>2
    <2> QED BY <1>2, <1>5, <2>2, <2>3, <2>4
  <1>8. PICK v \in {"cancelled", "admitted"} : EntryCancelled(k, v)
    BY <1>3, <1>6, <1>7 DEF EntrySteps, EntryStep, EntryCloses, EntryPrepares,
       EntryRejoins, EntryFails, SameVetoes
  <1>9. /\ recoveries'[k].cancellations = [cs EXCEPT ![x].outcome = v]
        /\ k = Len(recoveries) /\ CancelPending(r)
    BY <1>8 DEF EntryCancelled, FinishCancelRejoin, CanCancelRejoin
  <1>10. cs # <<>> /\ x \in DOMAIN cs /\ cs[x].outcome = "pending"
    BY <1>4, <1>9 DEF CancelPending, Last
  <1>11. r.next = cs[x].next
    BY <1>3, <1>10 DEF EntriesOK, Vetoes
  <1>12. /\ DOMAIN recoveries'[k].cancellations = DOMAIN cs
         /\ \A y \in DOMAIN cs : y # x => recoveries'[k].cancellations[y] = cs[y]
         /\ recoveries'[k].cancellations[x] = [cs[x] EXCEPT !.outcome = v]
    BY <1>4, <1>9, <1>10
  <1>13. i = x
    BY <1>2, <1>5, <1>12
  <1>14. /\ recoveries'[k].cancellations[x].outcome = v
         /\ recoveries'[k].cancellations[x].next = cs[x].next
    <2>1. cs[x] \in Cancellation
      BY <1>4, <1>10
    <2>2. \A c \in Cancellation :
             [c EXCEPT !.outcome = v].outcome = v /\ [c EXCEPT !.outcome = v].next = c.next
      BY DEF Cancellation
    <2> QED BY <2>1, <2>2, <1>12
  <1>15. v = "cancelled" /\ o = r.next
    BY <1>2, <1>11, <1>13, <1>14
  <1> QED BY <1>3, <1>8, <1>9, <1>15

LEMMA VetoesFinalStep ==
    ASSUME IInv, RecoveriesDistinct, SuccessorsOK, RowsOK, Next, IInv', EntrySteps,
           ReplacementsGrow, StopsGrow, EntriesOK, LinksOK, DecidedOK, KnownOK, BeforeFirst,
           Succession, Ranked, Ahead, FreshNext, VetoesFinal
    PROVE  VetoesFinal'
  <1>0. /\ TypeOK /\ TypeOK' /\ ReplacementsOpen
        /\ DOMAIN recoveries = 1..Len(recoveries) /\ Len(recoveries) \in Nat
        /\ \A o \in Offer : o # NoOffer /\ o.peer \in Nat
        /\ \A k \in DOMAIN recoveries :
              recoveries[k] \in Recovery /\ recoveries[k].offer \in Offer
        /\ \A j \in DOMAIN replacements : replacements[j].next \in Offer
    BY OfferAssumption, Domains DEF IInv, Recovery, Replacement
  <1> SUFFICES ASSUME NEW o, (o \in VetoedRejoins)'
               PROVE  /\ ~Known(o)'
                      /\ \A j \in DOMAIN replacements' : replacements'[j].previous # o
                      /\ \A k \in OpenStops' : stops'[k].previous # o
    BY DEF VetoesFinal
  <1>1. CASE o \in VetoedRejoins
    <2>1. o \in Offer /\ DOMAIN recoveries # {}
      <3>1. PICK k \in DOMAIN recoveries : \E i \in DOMAIN recoveries[k].cancellations :
               recoveries[k].cancellations[i].next = o
        BY <1>1, VetoedIs
      <3>2. recoveries[k].cancellations \in Seq(Cancellation)
        BY <1>0 DEF Recovery
      <3>3. PICK i \in DOMAIN recoveries[k].cancellations :
               recoveries[k].cancellations[i].next = o
        BY <3>1
      <3>4. recoveries[k].cancellations[i] \in Cancellation
        BY <3>2, <3>3
      <3>5. o \in Offer
        BY <3>3, <3>4 DEF Cancellation
      <3> QED BY <3>1, <3>5
    <2>2. /\ ~Known(o)
          /\ \A j \in DOMAIN replacements : replacements[j].previous # o
          /\ \A k \in OpenStops : stops[k].previous # o
      BY <1>1 DEF VetoesFinal
    <2>3. ~Known(o)'
      BY <1>1, <2>1, <2>2, KnownStep
    <2>4. o # invitation.offer
      BY <1>0, <2>1, <2>2 DEF Known
    <2> QED BY <2>1, <2>2, <2>3, <2>4, OriginsApart
  <1>2. CASE o \notin VetoedRejoins
    <2>1. PICK m \in DOMAIN recoveries :
             /\ EntryCancelled(m, "cancelled") /\ recoveries[m].next = o
             /\ m = Len(recoveries)
      BY <1>0, <1>2, VetoedBy
    <2>2. /\ FinishCancelRejoin(m, "cancelled") /\ CanCancelRejoin(m)
          /\ recoveries'[m].next = NoOffer
          /\ Answers(recoveries[m].offer, o, "cancelled")
          /\ UNCHANGED <<invitation, replacements, stops>>
      BY <2>1 DEF EntryCancelled, FinishCancelRejoin
    <2>3. /\ recoveries[m].phase = "closed" /\ o # NoOffer /\ Accepts("rejoin")
          /\ o \in Offer /\ IsSuccessor(recoveries[m].offer, o)
      BY <1>0, <2>1, <2>2 DEF CanCancelRejoin, Recovery, Optional, SuccessorsOK
    <2>4. /\ o # invitation.offer
          /\ RecoveryOf(o) = {}
          /\ \A j \in DOMAIN replacements : replacements[j].previous # o
          /\ \A k \in OpenStops : stops[k].previous # o
      <3>1. /\ recoveries[m].phase # "rejoined" /\ recoveries[m].next # NoOffer
        BY <2>1, <2>3
      <3> QED BY <2>1, <3>1, NextElsewhere
    <2>5. rows[o].verdict # "admitted"
          /\ (rows[o].verdict # "unpublished" => rows[o].parent = recoveries[m].offer)
      BY <2>2 DEF Answers
    <2>6. ASSUME NEW k \in DOMAIN recoveries, k # m
          PROVE  recoveries[k].next # o
      <3>1. SUFFICES ASSUME recoveries[k].next = o PROVE FALSE
        OBVIOUS
      <3>2. ~Linked(k)
        <4>1. SUFFICES ASSUME Linked(k) PROVE FALSE
          OBVIOUS
        <4>2. /\ k + 1 \in DOMAIN recoveries /\ (k + 1) - 1 = k
              /\ recoveries[k + 1].deferred_from # NoOffer
          <5>1. /\ k + 1 \in DOMAIN recoveries
                /\ recoveries[k + 1].deferred_from = recoveries[k].offer
            BY <4>1 DEF Linked
          <5>2. k \in Nat
            BY <1>0
          <5> QED BY <1>0, <5>1, <5>2
        <4>3. recoveries[k].next = recoveries[k + 1].offer
          BY <4>2 DEF LinksOK, LinkOK
        <4> QED BY <2>4, <3>1, <4>2, <4>3 DEF RecoveryOf
      <3>3. recoveries[k].phase # "rejoined"
        BY <2>5, <3>1, <3>2 DEF DecidedOK
      <3>4. ~StopRetired(recoveries[k].offer)
        BY <1>0, <2>3, <3>1, <3>2, StopEnds
      <3>5. ~Passed(k)
        BY <3>2, <3>3, <3>4 DEF Passed
      <3>6. k < m
        BY <1>0, <2>1, <2>6
      <3>7. recoveries[k].offer.peer < recoveries[m].offer.peer
        BY <3>5, <3>6 DEF Ranked
      <3>8. recoveries[k].offer.peer = o.peer
        BY <2>3, <3>1 DEF SuccessorsOK, IsSuccessor
      <3> QED BY <1>0, <2>3, <3>7, <3>8 DEF IsSuccessor
    <2>7. ASSUME NEW j \in DOMAIN replacements
          PROVE  replacements[j].next # o
      <3>1. SUFFICES ASSUME replacements[j].next = o PROVE FALSE
        OBVIOUS
      <3>2. CASE UndecidedPhase(replacements[j])
        <4>1. Replacing
          BY <1>0, <3>2, ReplacingIs DEF UndecidedPhase
        <4> QED BY <2>3, <4>1 DEF Accepts
      <3>3. CASE ~UndecidedPhase(replacements[j])
        <4>1. Under(o, replacements[j].previous)
          BY <3>1, <3>3 DEF DecidedOK, UndecidedPhase
        <4>2. replacements[j].previous = recoveries[m].offer
          BY <2>5, <4>1 DEF Under
        <4>3. IsReplacement(recoveries[m].offer, o)
          BY <3>1, <4>2 DEF IInv, ReplacementsOpen
        <4> QED BY <2>3, <4>3 DEF IsReplacement, IsSuccessor
      <3> QED BY <3>2, <3>3
    <2>8. ASSUME NEW k \in DOMAIN recoveries'
          PROVE  o \notin {recoveries'[k].offer, recoveries'[k].next}
      <3>1. k \in DOMAIN recoveries
        <4>1. DOMAIN recoveries' = DOMAIN recoveries
          BY <1>0, <2>2 DEF FinishCancelRejoin, TypeOK
        <4> QED BY <4>1
      <3>2. recoveries'[k].offer = recoveries[k].offer
        BY <3>1, NextOfEntry
      <3>3. k # m => recoveries'[k] = recoveries[k]
        BY <1>0, <2>2, <3>1 DEF FinishCancelRejoin, TypeOK
      <3> QED BY <2>2, <2>3, <2>4, <2>6, <3>1, <3>2, <3>3 DEF RecoveryOf
    <2>9. ~Known(o)'
      BY <2>2, <2>4, <2>7, <2>8 DEF Known
    <2>10. OpenStops' = OpenStops
      BY <2>2 DEF OpenStops
    <2> QED BY <2>2, <2>4, <2>9, <2>10
  <1> QED BY <1>1, <1>2

-----------------------------------------------------------------------------
(* The ledger of recoveries opens again.                                   *)

LEMMA RNextOK ==
    ASSUME IInv, SInv, RInv, Next, IInv', SInv'
    PROVE  RInv'
  <1>1. /\ RecoveriesDistinct /\ SuccessorsOK /\ RowsOK /\ ChainsBridged'
        /\ TypeOK /\ TypeOK'
    BY DEF IInv, SInv
  <1>2. EntrySteps /\ ReplacementsGrow /\ StopsGrow
    BY EntriesStep, ReplacementsGrowing, StopsGrowing
  <1>3. EntriesOK' /\ LinksOK' /\ TargetsOK' /\ DecidedOK'
    BY <1>1, <1>2, EntriesKept, LinksKept, TargetsStep, DecidedStep DEF RInv
  <1>4. KnownOK' /\ RanksGrow'
    BY <1>2, KnownAgain, RanksStep DEF RInv
  <1>5. BeforeFirst' /\ CurrentIsLast' /\ OriginCurrent' /\ StopsAtLast'
    BY <1>1, <1>2, FirstStep, CurrentStep, OriginCurrentStep, StopsAtStep DEF RInv
  <1>6. Succession' /\ Ranked'
    BY <1>1, <1>2, SuccessionStep, RankedStep DEF RInv
  <1>7. Ahead'
    BY <1>1, <1>2, <1>4, AheadStep DEF RInv
  <1>8. FreshNext' /\ VetoesFinal'
    BY <1>1, <1>2, FreshNextStep, VetoesFinalStep DEF RInv
  <1> QED BY <1>3, <1>4, <1>5, <1>6, <1>7, <1>8 DEF RInv

LEMMA RInitOK ==
    ASSUME Init
    PROVE  RInv
  <1>1. /\ recoveries = <<>> /\ replacements = <<>> /\ stops = <<>>
        /\ invitation = NoInvitation
        /\ DOMAIN recoveries = {} /\ DOMAIN replacements = {} /\ DOMAIN stops = {}
    BY DEF Init
  <1>2. OpenStops = {} /\ VetoedRejoins = {}
    <2>1. \A o : o \notin VetoedRejoins
      BY <1>1, VetoedIs
    <2> QED BY <1>1, <2>1 DEF OpenStops
  <1>3. EntriesOK /\ LinksOK /\ TargetsOK /\ DecidedOK
    BY <1>1 DEF EntriesOK, LinksOK, TargetsOK, DecidedOK
  <1>4. KnownOK /\ RanksGrow
    <2>1. NoInvitation.offer = NoOffer
      BY DEF NoInvitation
    <2> QED BY <1>1, <2>1 DEF KnownOK, RanksGrow, Known
  <1>5. BeforeFirst /\ CurrentIsLast /\ OriginCurrent /\ StopsAtLast
    BY <1>1, <1>2 DEF BeforeFirst, CurrentIsLast, OriginCurrent, StopsAtLast, Unreplaced,
       Latest
  <1>6. Succession /\ Ranked /\ Ahead /\ FreshNext /\ VetoesFinal
    BY <1>1, <1>2 DEF Succession, Ranked, Ahead, FreshNext, VetoesFinal, Latest
  <1> QED BY <1>3, <1>4, <1>5, <1>6 DEF RInv

LEMMA RInvHolds == Spec => []RInv
  <1>1. Init => RInv
    BY RInitOK
  <1>2. IInv /\ IInv' /\ SInv /\ SInv' /\ RInv /\ [Next]_vars => RInv'
    <2>1. SUFFICES ASSUME IInv, IInv', SInv, SInv', RInv, [Next]_vars PROVE RInv'
      OBVIOUS
    <2>2. CASE Next
      BY <2>1, <2>2, RNextOK
    <2>3. CASE UNCHANGED vars
      <3>1. EntriesOK' /\ LinksOK' /\ TargetsOK' /\ DecidedOK'
        BY <2>1, <2>3 DEF vars, RInv, EntriesOK, Vetoes, LinksOK, LinkOK, CancelPending,
           TargetsOK, DecidedOK, Under, Linked
      <3>2. KnownOK' /\ RanksGrow'
        BY <2>1, <2>3 DEF vars, RInv, KnownOK, RanksGrow, Known
      <3>3. BeforeFirst' /\ CurrentIsLast' /\ OriginCurrent' /\ StopsAtLast'
        BY <2>1, <2>3 DEF vars, RInv, BeforeFirst, Replacing, OpenStops, CurrentIsLast,
           Unreplaced, Recovering, Latest, OriginCurrent, StopsAtLast
      <3>4. Succession' /\ Ranked' /\ Ahead'
        BY <2>1, <2>3 DEF vars, RInv, Succession, Passed, Linked, StopRetired, Superseded,
           Ranked, Ahead, RecoveryOf
      <3>5. FreshNext' /\ VetoesFinal'
        BY <2>1, <2>3 DEF vars, RInv, FreshNext, Latest, RecoveryOf, OpenStops,
           VetoesFinal, VetoedRejoins, Known
      <3> QED BY <3>1, <3>2, <3>3, <3>4, <3>5 DEF RInv
    <2> QED BY <2>1, <2>2, <2>3
  <1> QED BY <1>1, <1>2, InvariantHolds, SInvHolds, PTL DEF Spec

\* What follows a failed successor is linked to it, from its root on.
LEMMA ChainWhole ==
    ASSUME TypeOK, RecoveriesDistinct, LinksOK, NEW i \in DOMAIN recoveries
    PROVE  ChainOK(recoveries, i)
  <1> DEFINE root(j) == recoveries[j].deferred_from = NoOffer
             Steps == {d \in Nat : d < i /\ root(i - d)}
  <1>0. /\ DOMAIN recoveries = 1..Len(recoveries) /\ Len(recoveries) \in Nat
        /\ i \in Nat /\ 1 <= i /\ i <= Len(recoveries)
    BY Domains
  <1>1. root(1)
    <2>1. 1 - 1 \notin DOMAIN recoveries /\ 1 \in DOMAIN recoveries
      BY <1>0
    <2> QED BY <2>1 DEF LinksOK, LinkOK
  <1>2. i - 1 \in Steps
    BY <1>0, <1>1
  <1>3. PICK d \in Steps : \A e \in Steps : d <= e
    <2>1. Steps \subseteq Nat /\ Steps # {}
      BY <1>2
    <2> HIDE DEF Steps
    <2> QED BY <2>1, Least
  <1> DEFINE j == i - d
  <1>4. j \in 1..i /\ root(j) /\ j \in Nat
    BY <1>0, <1>3
  <1>5. ASSUME NEW k \in (j + 1)..i PROVE recoveries[k].deferred_from # NoOffer
    <2>1. i - k \in Nat /\ i - k < d /\ i - k < i /\ i - (i - k) = k
      BY <1>0, <1>3, <1>4
    <2>2. i - k \notin Steps
      BY <1>3, <2>1
    <2> QED BY <2>1, <2>2
  <1>6. IsRoot(recoveries, i, j)
    BY <1>4, <1>5 DEF IsRoot
  <1>7. Rooted(recoveries, i) /\ Root(recoveries, i) = j
    BY <1>0, <1>4, <1>6, RootUnique
  <1>8. ASSUME NEW k \in (j + 1)..i PROVE LinkOK(recoveries, k)
    <2>1. k \in DOMAIN recoveries
      BY <1>0, <1>4
    <2> QED BY <1>5, <2>1 DEF LinksOK
  <1> HIDE DEF j
  <1> QED BY <1>7, <1>8 DEF ChainOK, LinkOK, RecoveriesDistinct

\* #open accepts the ledger of recoveries that a command leaves.  No channel
\* is closed twice; a chain of failed successors is whole up to its root; every
\* recovery but the last was rejoined, went on from its failed successor, or
\* was replaced; and a successor whose absence the service confirmed stands
\* nowhere in the journal, so restore() finds each target where it expects it.
THEOREM RecoveriesReopen == Spec => []RecoveriesOpen
  <1>1. IInv /\ SInv /\ RInv => RecoveriesOpen
    <2>1. SUFFICES ASSUME IInv, SInv, RInv PROVE RecoveriesOpen
      OBVIOUS
    <2>2. /\ TypeOK /\ RecoveriesDistinct /\ SuccessorsOK
          /\ EntriesOK /\ LinksOK /\ TargetsOK /\ Succession /\ VetoesFinal
      BY <2>1 DEF IInv, SInv, RInv
    <2>3. Len(recoveries) <= MaxRecoveries
      BY <2>2 DEF RecoveriesDistinct
    <2>4. ASSUME NEW i \in DOMAIN recoveries
          PROVE  /\ ChainOK(recoveries, i)
                 /\ RecoveryOf(recoveries[i].offer) = {i}
                 /\ recoveries[i].next # NoOffer =>
                       IsSuccessor(recoveries[i].offer, recoveries[i].next)
                 /\ recoveries[i].successor_failed \/ recoveries[i].phase = "rejoined" =>
                       recoveries[i].next # NoOffer
                 /\ recoveries[i].replacement =>
                       \E p \in ToSet(replacements) :
                          /\ p.next = recoveries[i].offer
                          /\ p.phase \in {"recovering", "abandoned", "active"}
      <3>1. ChainOK(recoveries, i)
        BY <2>2, ChainWhole
      <3>2. RecoveryOf(recoveries[i].offer) = {i}
        BY <2>2 DEF RecoveryOf, RecoveriesDistinct
      <3>3. recoveries[i].replacement =>
               \E p \in ToSet(replacements) :
                  /\ p.next = recoveries[i].offer
                  /\ p.phase \in {"recovering", "abandoned", "active"}
        BY <2>2 DEF TargetsOK, ToSet
      <3> QED BY <2>2, <3>1, <3>2, <3>3 DEF SuccessorsOK, EntriesOK
    <2>5. ASSUME NEW i \in DOMAIN recoveries
          PROVE  \/ i = Len(recoveries)
                 \/ recoveries[i].phase = "rejoined"
                 \/ recoveries[i + 1].deferred_from = recoveries[i].offer
                 \/ RecoveryReplaced(recoveries[i], recoveries, replacements, stops)
      <3>1. CASE Superseded(recoveries[i].offer)
        BY <3>1 DEF Superseded, RecoveryReplaced, ToSet
      <3>2. CASE StopRetired(recoveries[i].offer)
        BY <3>2 DEF StopRetired, RecoveryReplaced, ToSet
      <3> QED BY <2>2, <3>1, <3>2 DEF Succession, Passed, Linked
    <2>6. ASSUME NEW i \in DOMAIN recoveries, NEW k \in DOMAIN recoveries[i].cancellations,
                 recoveries[i].cancellations[k].outcome = "cancelled"
          PROVE  LET n == recoveries[i].cancellations[k].next
                 IN
                 /\ \A p \in ToSet(replacements) : n \notin {p.previous, p.next}
                 /\ \A q \in ToSet(recoveries) : n \notin {q.offer, q.next}
      <3> DEFINE n == recoveries[i].cancellations[k].next
      <3>1. n \in VetoedRejoins
        BY <2>6, VetoedIs
      <3>2. n # NoOffer
        <4>1. recoveries[i] \in Recovery
          BY <2>2, Domains
        <4>2. recoveries[i].cancellations \in Seq(Cancellation)
          BY <4>1 DEF Recovery
        <4>3. recoveries[i].cancellations[k] \in Cancellation
          BY <4>2
        <4>4. n \in Offer
          BY <4>3 DEF Cancellation
        <4> QED BY <4>4, OfferAssumption
      <3>3. /\ ~Known(n)
            /\ \A j \in DOMAIN replacements : replacements[j].previous # n
        BY <2>2, <3>1 DEF VetoesFinal
      <3> QED BY <3>2, <3>3 DEF Known, ToSet
    <2>7. ASSUME NEW i \in DOMAIN recoveries, NEW k \in DOMAIN recoveries[i].cancellations
          PROVE  LET r == recoveries[i]
                     c == recoveries[i].cancellations[k]
                 IN
                 /\ IsSuccessor(r.offer, c.next)
                 /\ \A j \in 1..(k - 1) : r.cancellations[j].next # c.next
                 /\ c.outcome # "cancelled" =>
                       k = Len(r.cancellations) /\ r.next = c.next
                 /\ c.outcome = "cancelled" => r.next # c.next
                 /\ c.outcome = "pending" => r.phase = "closed"
      BY <2>2 DEF EntriesOK, Vetoes
    <2>8. ASSUME NEW i \in DOMAIN recoveries, NEW k \in DOMAIN recoveries[i].cancellations
          PROVE  LET r == recoveries[i]
                     c == r.cancellations[k]
                 IN
                 /\ IsSuccessor(r.offer, c.next)
                 /\ \A j \in 1..(k - 1) : r.cancellations[j].next # c.next
                 /\ c.outcome # "cancelled" =>
                       k = Len(r.cancellations) /\ r.next = c.next
                 /\ c.outcome = "pending" => r.phase = "closed"
                 /\ c.outcome = "cancelled" =>
                       /\ r.next # c.next
                       /\ \A p \in ToSet(replacements) : c.next \notin {p.previous, p.next}
                       /\ \A q \in ToSet(recoveries) : c.next \notin {q.offer, q.next}
      BY <2>6, <2>7
    <2>9. \A i \in DOMAIN recoveries :
             LET r == recoveries[i]
             IN  /\ r.replacement =>
                       \E p \in ToSet(replacements) :
                          p.next = r.offer /\ p.phase \in {"recovering", "abandoned", "active"}
                 /\ r.successor_failed => r.next # NoOffer
                 /\ r.next # NoOffer => IsSuccessor(r.offer, r.next)
                 /\ r.phase = "rejoined" => r.next # NoOffer
      BY <2>4
    <2> QED BY <2>3, <2>4, <2>5, <2>8, <2>9 DEF RecoveriesOpen
  <1> QED BY <1>1, InvariantHolds, SInvHolds, RInvHolds, PTL

\* Every state a command leaves can be read again: what #persist seals, #open
\* and restore() accept, whatever the device and the service did before; so no
\* command locks the device out of its own journal.
THEOREM AlwaysReopens == Spec => []Reopens
  <1>1. ReplacementsOpen /\ StopsOpen /\ RecoveriesOpen /\ EngineOK(engine) => Reopens
    BY DEF Reopens
  <1> QED BY <1>1, ReplacementsReopen, StopsReopen, RecoveriesReopen, EngineReopens, PTL

-----------------------------------------------------------------------------
(* The invariant of what fits among the retired groups.                    *)

\* A channel has its successor chosen only once it is closed, and a replacement
\* whose target is closed has been given up.
Settled(r) == r.phase \in {"active", "recovering", "abandoned"}
ClosingOK ==
    /\ \A k \in DOMAIN recoveries :
          recoveries[k].phase = "closing" => recoveries[k].next = NoOffer
    /\ \A j \in DOMAIN replacements, k \in DOMAIN recoveries :
          /\ replacements[j].phase = "recovering"
          /\ recoveries[k].replacement
          /\ recoveries[k].offer = replacements[j].next
          => recoveries[k].phase = "closing"

\* The target of a replacement that is not decided has not been closed.
Undecided(r) == r.phase \in {"prepared", "consented", "cancelling", "recovery_required"}
PendingFresh ==
    \A j \in DOMAIN replacements :
        Undecided(replacements[j]) => RecoveryOf(replacements[j].next) = {}

\* A channel that was to be the next one, and failed, never was a chat: it is
\* no origin of a replacement or of an open stop.
Plain(r) == r.deferred_from = NoOffer /\ ~r.replacement
FailedOK ==
    \A k \in DOMAIN recoveries :
        recoveries[k].offer = invitation.offer => Plain(recoveries[k]) \/ Failed
OriginsPlain ==
    \A k \in DOMAIN recoveries :
        /\ \A j \in DOMAIN replacements :
              replacements[j].previous = recoveries[k].offer => Plain(recoveries[k])
        /\ \A x \in OpenStops :
              stops[x].previous = recoveries[k].offer => Plain(recoveries[k])

\* What the next activation retires: the last recovery's chain with the group
\* it was to replace, unless something has taken its place, and what is stopped.
Reserved(i, o) ==
    \/ \E k \in Root(recoveries, i)..i : recoveries[k].offer = o
    \/ \E j \in Deferred(i) : replacements[j].previous = o
Due(o) ==
    \/ Unreplaced /\ Reserved(Len(recoveries), o)
    \/ \E k \in OpenStops : o = stops[k].previous \/ o \in ToSet(StopOffers(stops[k]))
\* Whatever was closed or replaced is retired, or will be by then.
Left(o) == RecoveryOf(o) # {} \/ Superseded(o)
Covered == \A o \in Offer : Left(o) => o \in engine.retired \/ Due(o)

\* The room that was reserved when a replacement or a rejoin was prepared is
\* still there.
PendingFits ==
    \A j \in DOMAIN replacements : UnderWay(replacements[j]) =>
        Cardinality(Retirements({replacements[j].previous})) <= MaxRetired
Retiring(i) ==
    engine.retired \cup ToSet(ChainOffers(recoveries, i))
        \cup {replacements[j].previous : j \in Deferred(i)}
RejoinFits ==
    \A i \in DOMAIN recoveries :
        recoveries[i].phase = "closed" /\ recoveries[i].next # NoOffer =>
            Cardinality(Retiring(i)) <= MaxRetired

FInv ==
    /\ ClosingOK
    /\ PendingFresh
    /\ FailedOK
    /\ OriginsPlain
    /\ Covered
    /\ PendingFits
    /\ RejoinFits

-----------------------------------------------------------------------------
(* Entries that are closing, and replacements that are decided.            *)

\* Nothing happens to an entry before the service has confirmed that it closed.
LEMMA ClosingStays ==
    ASSUME EntrySteps, NEW k \in DOMAIN recoveries, recoveries'[k].phase = "closing"
    PROVE  recoveries'[k] = recoveries[k]
  <1>1. EntryStep(k)
    BY DEF EntrySteps
  <1>2. ASSUME EntryCloses(k) PROVE FALSE
    BY <1>2 DEF EntryCloses
  <1>3. ASSUME NEW n \in Offer, EntryPrepares(k, n) PROVE FALSE
    BY <1>3 DEF EntryPrepares, PrepareRejoin, CanRejoin, SamePhase
  <1>4. ASSUME NEW x \in DOMAIN recoveries, NEW n \in Offer, EntryRejoins(k, x, n)
        PROVE  FALSE
    BY <1>4 DEF EntryRejoins
  <1>5. ASSUME EntryFails(k) PROVE FALSE
    BY <1>5 DEF EntryFails, CanFailRejoin, SamePhase
  <1>6. ASSUME EntryCancels(k) PROVE FALSE
    BY <1>6 DEF EntryCancels, BeginCancelRejoin, CanCancelRejoin, SamePhase
  <1>7. ASSUME NEW c \in {"cancelled", "admitted"}, EntryCancelled(k, c) PROVE FALSE
    BY <1>7 DEF EntryCancelled, FinishCancelRejoin, CanCancelRejoin, SamePhase
  <1> QED BY <1>1, <1>2, <1>3, <1>4, <1>5, <1>6, <1>7 DEF EntryStep

\* What decides a replacement: its activation, the close of its target, or the
\* confirmed stop of its target.
LEMMA SettledBy ==
    ASSUME IInv, Next, NEW j \in DOMAIN replacements,
           ~Settled(replacements[j]), Settled(replacements'[j])
    PROVE  \/ ActivateReplacement(j)
           \/ BeginReplacementRecovery(j)
           \/ \E x \in OpenStops : CompleteStop(x) /\ replacements[j].next = stops[x].next
  <1>0. /\ replacements \in Seq(Replacement)
        /\ \A i \in DOMAIN replacements : replacements[i] \in Replacement
        /\ replacements'[j] # replacements[j]
    BY Domains DEF IInv, TypeOK
  <1>1. ASSUME NEW i \in DOMAIN replacements, NEW q,
               replacements' = [replacements EXCEPT ![i] = q]
        PROVE  j = i /\ Settled(q)
    <2>1. replacements'[j] = IF j = i THEN q ELSE replacements[j]
      BY <1>0, <1>1
    <2> QED BY <1>0, <2>1
  <1>2. ASSUME NEW i \in DOMAIN replacements, NEW ph,
               replacements' = [replacements EXCEPT ![i].phase = ph]
        PROVE  j = i /\ ph \in {"active", "recovering", "abandoned"}
    <2> DEFINE q == [replacements[i] EXCEPT !.phase = ph]
    <2>1. q.phase = ph
      BY <1>0 DEF Replacement
    <2>2. replacements' = [replacements EXCEPT ![i] = q]
      BY <1>2
    <2>3. j = i /\ Settled(q)
      <3> HIDE DEF q
      <3> QED BY <1>1, <2>2
    <2> QED BY <2>1, <2>3 DEF Settled
  <1>3. ASSUME NEW i \in DOMAIN replacements, NEW ph, NEW v,
               replacements' = [replacements EXCEPT ![i].phase = ph, ![i].cancellation = v]
        PROVE  ph \in {"active", "recovering", "abandoned"}
    <2> DEFINE q == [replacements[i] EXCEPT !.phase = ph, !.cancellation = v]
    <2>1. q.phase = ph
      BY <1>0 DEF Replacement
    <2>2. replacements' = [replacements EXCEPT ![i] = q]
      BY <1>0, <1>3
    <2>3. Settled(q)
      <3> HIDE DEF q
      <3> QED BY <1>1, <2>2
    <2> QED BY <2>1, <2>3 DEF Settled
  <1>4. CASE Talk
    BY <1>0, <1>4 DEF Talk, PrepareInvitation, InviteFromDelivery, JoinFromDelivery,
       AcceptDelivery, CompleteInvitation, SendChat, MarkInvitationFailed, ApprovePeer
  <1>5. CASE Rejoin
    <2>1. ASSUME NEW i \in DOMAIN recoveries, CompleteClose(i)
          PROVE  replacements'[j] = replacements[j]
      BY <2>1 DEF CompleteClose, Settled
    <2>2. ASSUME NEW i \in DOMAIN recoveries, NEW n \in Offer, ActivateRejoin(i, n)
          PROVE  replacements'[j] = replacements[j]
      <3>1. j \notin Deferred(i)
        BY <2>2 DEF ActivateRejoin, Settled
      <3> QED BY <2>2, <3>1 DEF ActivateRejoin
    <2>3. CASE BeginClose
      BY <1>0, <2>3 DEF BeginClose
    <2>4. ASSUME NEW i \in DOMAIN recoveries,
                   \/ CompleteClose(i)
                   \/ \E n \in Offer : PrepareRejoin(i, n) \/ ActivateRejoin(i, n)
                   \/ MarkRejoinFailed(i)
                   \/ BeginRejoinRecovery(i)
                   \/ BeginCancelRejoin(i)
                   \/ \E c \in {"cancelled", "admitted"} : FinishCancelRejoin(i, c)
          PROVE  replacements'[j] = replacements[j]
      BY <2>1, <2>2, <2>4 DEF PrepareRejoin, MarkRejoinFailed, BeginRejoinRecovery,
         BeginCancelRejoin, FinishCancelRejoin
    <2> QED BY <1>0, <1>5, <2>3, <2>4 DEF Rejoin
  <1>6. CASE Replace
    <2>1. ASSUME NEW p \in Offer, NEW n \in Offer, PrepareReplacement(p, n) PROVE FALSE
      <3>1. PICK q : replacements' = Append(replacements, q)
        BY <2>1 DEF PrepareReplacement
      <3> QED BY <1>0, <3>1
    <2>2. ASSUME NEW i \in DOMAIN replacements, AttestPredecessor(i) PROVE FALSE
      <3> DEFINE q == [replacements[i] EXCEPT !.confirmed = TRUE]
      <3>1. q.phase = replacements[i].phase
        BY <1>0 DEF Replacement
      <3>2. replacements' = [replacements EXCEPT ![i] = q] /\ ~Settled(q)
        BY <2>2, <3>1 DEF AttestPredecessor, Pending, Settled
      <3> HIDE DEF q
      <3> QED BY <1>1, <3>2
    <2>3. ASSUME NEW i \in DOMAIN replacements, Consent(i) PROVE FALSE
      <3>1. replacements' = [replacements EXCEPT ![i].phase = "consented"]
        BY <2>3 DEF Consent
      <3>2. "consented" \in {"active", "recovering", "abandoned"}
        BY <1>2, <3>1
      <3> QED BY <3>2
    <2>4. ASSUME NEW i \in DOMAIN replacements, ActivateReplacement(i) PROVE j = i
      <3>1. replacements' = [replacements EXCEPT ![i].phase = "active"]
        BY <2>4 DEF ActivateReplacement
      <3> QED BY <1>2, <3>1
    <2>5. ASSUME NEW i \in DOMAIN replacements, BeginCancelReplacement(i) PROVE FALSE
      <3>1. \E v \in {"pending"} : replacements' =
               [replacements EXCEPT ![i].phase = "cancelling", ![i].cancellation = v]
        BY <2>5 DEF BeginCancelReplacement
      <3>2. "cancelling" \in {"active", "recovering", "abandoned"}
        BY <1>3, <3>1
      <3> QED BY <3>2
    <2>6. ASSUME NEW i \in DOMAIN replacements, NEW c \in {"cancelled", "admitted"},
                 FinishCancelReplacement(i, c)
          PROVE  FALSE
      <3>1. \E ph \in {"cancelled", "consented"} :
               replacements' = [replacements EXCEPT ![i].phase = ph, ![i].cancellation = c]
        BY <2>6 DEF FinishCancelReplacement, Cancelled
      <3> QED BY <1>3, <3>1
    <2>7. ASSUME NEW i \in DOMAIN replacements, ObserveReplacementCancelled(i) PROVE FALSE
      <3>1. replacements' = [replacements EXCEPT ![i].phase = "cancelled",
                                ![i].cancellation = replacements[i].cancellation]
        BY <2>7 DEF ObserveReplacementCancelled, Cancelled
      <3>2. "cancelled" \in {"active", "recovering", "abandoned"}
        BY <1>3, <3>1
      <3> QED BY <3>2
    <2>8. ASSUME NEW i \in DOMAIN replacements, MarkReplacementFailed(i) PROVE FALSE
      <3>1. replacements' = [replacements EXCEPT ![i].phase = "recovery_required"]
        BY <2>8 DEF MarkReplacementFailed
      <3>2. "recovery_required" \in {"active", "recovering", "abandoned"}
        BY <1>2, <3>1
      <3> QED BY <3>2
    <2>9. ASSUME NEW i \in DOMAIN replacements, BeginReplacementRecovery(i) PROVE j = i
      <3>1. replacements' = [replacements EXCEPT ![i].phase = "recovering"]
        BY <2>9 DEF BeginReplacementRecovery
      <3> QED BY <1>2, <3>1
    <2>10. ASSUME NEW p \in Offer, NEW n \in Offer, BeginStop(p, n) PROVE FALSE
      BY <1>0, <2>10 DEF BeginStop
    <2>11. ASSUME NEW k \in DOMAIN stops, CompleteStop(k)
           PROVE  k \in OpenStops /\ replacements[j].next = stops[k].next
      <3>1. k \in OpenStops
        BY <2>11 DEF CompleteStop, OpenStops
      <3>2. replacements[j].next # stops[k].next => replacements'[j] = replacements[j]
        BY <2>11 DEF CompleteStop
      <3> QED BY <1>0, <3>1, <3>2
    <2> QED BY <1>6, <2>1, <2>2, <2>3, <2>4, <2>5, <2>6, <2>7, <2>8, <2>9, <2>10, <2>11
            DEF Replace
  <1> QED BY <1>4, <1>5, <1>6 DEF Next

\* A channel that is closing is closed next, if anything happens to it.
LEMMA ClosingLeaves ==
    ASSUME EntrySteps, NEW k \in DOMAIN recoveries, recoveries[k].phase = "closing"
    PROVE  recoveries'[k] = recoveries[k] \/ EntryCloses(k)
  <1>1. EntryStep(k)
    BY DEF EntrySteps
  <1>2. ASSUME NEW n \in Offer, EntryPrepares(k, n) PROVE FALSE
    BY <1>2 DEF EntryPrepares, PrepareRejoin, CanRejoin
  <1>3. ASSUME NEW x \in DOMAIN recoveries, NEW n \in Offer, EntryRejoins(k, x, n)
        PROVE  FALSE
    BY <1>3 DEF EntryRejoins
  <1>4. ASSUME EntryFails(k) PROVE FALSE
    BY <1>4 DEF EntryFails, CanFailRejoin
  <1>5. ASSUME EntryCancels(k) PROVE FALSE
    BY <1>5 DEF EntryCancels, BeginCancelRejoin, CanCancelRejoin
  <1>6. ASSUME NEW c \in {"cancelled", "admitted"}, EntryCancelled(k, c) PROVE FALSE
    BY <1>6 DEF EntryCancelled, FinishCancelRejoin, CanCancelRejoin
  <1> QED BY <1>1, <1>2, <1>3, <1>4, <1>5, <1>6 DEF EntryStep

LEMMA ClosingStep ==
    ASSUME IInv, Next, IInv', ClosingOK, EntrySteps, ReplacementsGrow
    PROVE  ClosingOK'
  <1>1. ASSUME NEW k \in DOMAIN recoveries', recoveries'[k].phase = "closing"
        PROVE  recoveries'[k].next = NoOffer
    BY <1>1, ClosingStays, NewEntryIs DEF ClosingOK
  <1>2. ASSUME NEW j \in DOMAIN replacements', NEW k \in DOMAIN recoveries',
               replacements'[j].phase = "recovering", recoveries'[k].replacement,
               recoveries'[k].offer = replacements'[j].next
        PROVE  recoveries'[k].phase = "closing"
    <2>1. CASE k \notin DOMAIN recoveries
      BY <2>1, NewEntryIs
    <2>2. CASE k \in DOMAIN recoveries
      <3>1. recoveries[k].replacement /\ recoveries[k].offer = recoveries'[k].offer
        BY <1>2, <2>2, EntriesSame DEF SameEntry
      <3>2. j \in DOMAIN replacements
        BY <1>2 DEF ReplacementsGrow, NewReplacement
      <3>3. KeptReplacement(replacements[j], replacements'[j], OpenStops')
        BY <3>2 DEF ReplacementsGrow
      <3>4. recoveries[k].offer = replacements[j].next
        BY <1>2, <3>1, <3>3 DEF KeptReplacement
      <3>5. replacements[j].phase = "recovering"
        <4>1. SUFFICES ASSUME replacements[j].phase # "recovering" PROVE FALSE
          OBVIOUS
        <4>2. ~Settled(replacements[j]) /\ Settled(replacements'[j])
          BY <1>2, <3>3, <4>1 DEF KeptReplacement, Settled
        <4>3. CASE ActivateReplacement(j)
          BY <1>2, <3>2, <4>3 DEF ActivateReplacement, IInv, TypeOK, Replacement
        <4>4. CASE BeginReplacementRecovery(j)
          BY <2>2, <3>4, <4>4 DEF BeginReplacementRecovery, RecoveryOf
        <4>5. ASSUME NEW x \in OpenStops, CompleteStop(x) PROVE FALSE
          <5>1. \/ replacements'[j] = replacements[j]
                \/ replacements'[j] = [replacements[j] EXCEPT !.phase = "abandoned"]
            BY <3>2, <4>5 DEF CompleteStop
          <5>2. replacements[j] \in Replacement
            BY <3>2, Domains DEF IInv
          <5> QED BY <1>2, <4>1, <5>1, <5>2 DEF Replacement
        <4> QED BY <3>2, <4>2, <4>3, <4>4, <4>5, SettledBy
      <3>6. recoveries[k].phase = "closing"
        BY <2>2, <3>1, <3>2, <3>4, <3>5 DEF ClosingOK
      <3>7. ~EntryCloses(k)
        <4>1. SUFFICES ASSUME CompleteClose(k) PROVE FALSE
          BY DEF EntryCloses
        <4>2. replacements'[j] = [replacements[j] EXCEPT !.phase = "abandoned"]
          BY <3>1, <3>2, <3>4, <3>5, <4>1 DEF CompleteClose
        <4>3. replacements[j] \in Replacement
          BY <3>2, Domains DEF IInv
        <4> QED BY <1>2, <4>2, <4>3 DEF Replacement
      <3> QED BY <2>2, <3>6, <3>7, ClosingLeaves
    <2> QED BY <2>1, <2>2
  <1> QED BY <1>1, <1>2 DEF ClosingOK

\* While a replacement is not decided, the conversation is where it starts from.
LEMMA PendingFreshStep ==
    ASSUME IInv, Next, IInv', OriginCurrent, PendingFresh, EntrySteps, ReplacementsGrow
    PROVE  PendingFresh'
  <1>0. TypeOK /\ ReplacementsOpen /\ TypeOK'
    BY DEF IInv
  <1> SUFFICES ASSUME NEW j \in DOMAIN replacements', Undecided(replacements'[j]),
                      NEW k \in DOMAIN recoveries',
                      recoveries'[k].offer = replacements'[j].next
               PROVE  FALSE
    BY DEF PendingFresh, RecoveryOf, Undecided
  <1>1. CASE j \notin DOMAIN replacements
    <2>1. /\ PrepareReplacement(replacements'[j].previous, replacements'[j].next)
          /\ UNCHANGED recoveries /\ RecoveryOf(replacements'[j].next) = {}
      BY <1>1 DEF ReplacementsGrow, NewReplacement, PrepareReplacement
    <2> QED BY <2>1 DEF RecoveryOf
  <1>2. CASE j \in DOMAIN replacements
    <2>1. KeptReplacement(replacements[j], replacements'[j], OpenStops')
      BY <1>2 DEF ReplacementsGrow
    <2>2. Undecided(replacements[j]) /\ replacements'[j].next = replacements[j].next
      BY <2>1, <1>0, <1>2, Domains DEF KeptReplacement, Undecided, Replacement
    <2>3. RecoveryOf(replacements[j].next) = {}
      BY <1>2, <2>2 DEF PendingFresh
    <2>4. k \notin DOMAIN recoveries
      BY <2>2, <2>3, EntriesSame DEF SameEntry, RecoveryOf
    <2>5. j = Len(replacements) /\ Replacing
      BY <1>0, <1>2, <2>2, ReplacingIs DEF Undecided
    <2>6. CASE BeginClose /\ recoveries'[k].offer = invitation.offer
      <3>1. invitation # NoInvitation /\ OpenStops = {}
        BY <2>6, OthersFit DEF BeginClose
      <3>2. replacements # <<>> /\ Last(replacements) = replacements[j]
        BY <1>0, <1>2, <2>5, LastIs
      <3>3. invitation.offer = replacements[j].previous
        BY <2>2, <3>1, <3>2 DEF OriginCurrent, Latest, Undecided
      <3>4. replacements[j].previous # replacements[j].next
        BY <1>0, <1>2 DEF ReplacementsOpen, IsReplacement
      <3> QED BY <2>2, <2>6, <3>3, <3>4
    <2>7. ASSUME NEW i \in DOMAIN recoveries, BeginRejoinRecovery(i) PROVE FALSE
      BY <2>5, <2>7 DEF BeginRejoinRecovery, CanFailRejoin, Accepts
    <2>8. ASSUME NEW i \in DOMAIN replacements, BeginReplacementRecovery(i) PROVE FALSE
      <3>1. i = j
        BY <1>0, <2>5, <2>8, ReplacingIs DEF BeginReplacementRecovery
      <3>2. replacements'[j].phase = "recovering"
        BY <1>0, <1>2, <2>8, <3>1, Domains DEF BeginReplacementRecovery, TypeOK, Replacement
      <3> QED BY <3>2 DEF Undecided
    <2> QED BY <2>4, <2>6, <2>7, <2>8, NewEntryIs
  <1> QED BY <1>1, <1>2

\* A channel that failed stays so until another takes its place.
LEMMA FailedStays ==
    ASSUME IInv, Next, Failed, ~Activates
    PROVE  Failed'
  <1>0. invitation \in Invitation /\ invitation.phase = "recovery_required"
    BY DEF IInv, TypeOK, Failed
  <1>1. UNCHANGED invitation => Failed'
    BY <1>0 DEF Failed
  <1>2. ~Accepts("message")
    BY MessageFits
  <1>3. CASE Talk
    <2>1. ASSUME NEW o \in Offer, PrepareInvitation(o) PROVE FALSE
      BY <1>2, <2>1 DEF PrepareInvitation
    <2>2. CASE MarkInvitationFailed
      BY <1>0, <2>2 DEF MarkInvitationFailed, Failed, Invitation
    <2> QED BY <1>1, <1>2, <1>3, <2>1, <2>2 DEF Talk, InviteFromDelivery, JoinFromDelivery,
         AcceptDelivery, CompleteInvitation, SendChat, ApprovePeer
  <1>4. CASE Rejoin
    <2>1. ASSUME NEW i \in DOMAIN recoveries, BeginRejoinRecovery(i) PROVE Failed'
      <3>1. invitation' = [Fresh(recoveries[i].next) EXCEPT !.phase = "recovery_required"]
        BY <2>1 DEF BeginRejoinRecovery
      <3> QED BY <3>1 DEF Failed, Fresh
    <2>2. ASSUME NEW i \in DOMAIN recoveries,
                   \/ CompleteClose(i)
                   \/ \E n \in Offer : PrepareRejoin(i, n) \/ ActivateRejoin(i, n)
                   \/ MarkRejoinFailed(i)
                   \/ BeginRejoinRecovery(i)
                   \/ BeginCancelRejoin(i)
                   \/ \E c \in {"cancelled", "admitted"} : FinishCancelRejoin(i, c)
          PROVE  Failed'
      BY <1>1, <2>1, <2>2 DEF CompleteClose, PrepareRejoin, MarkRejoinFailed,
         BeginCancelRejoin, FinishCancelRejoin, Activates
    <2>3. CASE BeginClose
      BY <1>1, <2>3 DEF BeginClose
    <2> QED BY <1>4, <2>2, <2>3 DEF Rejoin
  <1>5. CASE Replace
    <2>1. ASSUME NEW i \in DOMAIN replacements, BeginReplacementRecovery(i) PROVE Failed'
      <3>1. invitation' = [Fresh(replacements[i].next) EXCEPT !.phase = "recovery_required"]
        BY <2>1 DEF BeginReplacementRecovery
      <3> QED BY <3>1 DEF Failed, Fresh
    <2>2. ASSUME NEW i \in DOMAIN replacements,
                 \/ AttestPredecessor(i) \/ Consent(i) \/ ActivateReplacement(i)
                 \/ BeginCancelReplacement(i)
                 \/ \E c \in {"cancelled", "admitted"} : FinishCancelReplacement(i, c)
                 \/ ObserveReplacementCancelled(i) \/ MarkReplacementFailed(i)
                 \/ BeginReplacementRecovery(i)
          PROVE  Failed'
      BY <1>1, <2>1, <2>2 DEF AttestPredecessor, Consent, BeginCancelReplacement,
         FinishCancelReplacement, ObserveReplacementCancelled, Cancelled,
         MarkReplacementFailed, Activates
    <2> QED BY <1>1, <1>5, <2>2 DEF Replace, PrepareReplacement, BeginStop, CompleteStop
  <1> QED BY <1>3, <1>4, <1>5 DEF Next

\* What is closed while its channel is the current one: a chat, or a channel
\* that failed before it was one.
LEMMA FailedStep ==
    ASSUME IInv, Next, IInv', EntrySteps, BeforeFirst, PendingFresh, FailedOK
    PROVE  FailedOK'
  <1>0. TypeOK /\ InvitationOK
    BY DEF IInv
  <1> SUFFICES ASSUME NEW k \in DOMAIN recoveries',
                      recoveries'[k].offer = invitation'.offer, ~Plain(recoveries'[k])
               PROVE  Failed'
    BY DEF FailedOK, Plain, Failed
  <1>1. ASSUME NEW x \in DOMAIN recoveries, NEW n \in Offer, ActivateRejoin(x, n) PROVE FALSE
    <2>1. invitation'.offer = n /\ RecoveryOf(n) = {}
      BY <1>1 DEF ActivateRejoin, CanRejoin, Fresh
    <2>2. DOMAIN recoveries' = DOMAIN recoveries
      BY <1>0, <1>1, RejoinedEntries
    <2> QED BY <2>1, <2>2, EntriesSame DEF SameEntry, RecoveryOf
  <1>2. ASSUME NEW j \in DOMAIN replacements, ActivateReplacement(j) PROVE FALSE
    <2>1. /\ invitation'.offer = replacements[j].next /\ UNCHANGED recoveries
          /\ replacements[j].phase = "consented"
      BY <1>2 DEF ActivateReplacement, Pending, Fresh
    <2>2. RecoveryOf(replacements[j].next) = {}
      BY <2>1 DEF PendingFresh, Undecided
    <2> QED BY <2>1, <2>2 DEF RecoveryOf
  <1>3. ASSUME NEW i \in DOMAIN recoveries, BeginRejoinRecovery(i) PROVE Failed'
    <2>1. invitation' = [Fresh(recoveries[i].next) EXCEPT !.phase = "recovery_required"]
      BY <1>3 DEF BeginRejoinRecovery
    <2> QED BY <2>1 DEF Failed, Fresh
  <1>4. ASSUME NEW j \in DOMAIN replacements, BeginReplacementRecovery(j) PROVE Failed'
    <2>1. invitation' = [Fresh(replacements[j].next) EXCEPT !.phase = "recovery_required"]
      BY <1>4 DEF BeginReplacementRecovery
    <2> QED BY <2>1 DEF Failed, Fresh
  <1>5. ASSUME NEW o \in Offer, PrepareInvitation(o) PROVE FALSE
    <2>1. DOMAIN recoveries = {} /\ UNCHANGED recoveries
      BY <1>0, <1>5, NothingBefore
    <2> QED BY <2>1
  <1>6. CASE ~Activates /\ invitation'.offer = invitation.offer
    <2>1. CASE k \notin DOMAIN recoveries
      <3>1. NewEntry(recoveries'[k])
        BY <2>1 DEF EntrySteps
      <3>2. recoveries'[k] # Closing(invitation.offer, FALSE, NoOffer)
        BY DEF Plain, Closing
      <3> QED BY <1>3, <1>4, <3>1, <3>2 DEF NewEntry
    <2>2. CASE k \in DOMAIN recoveries
      <3>1. SameEntry(recoveries[k], recoveries'[k])
        BY <2>2, EntriesSame
      <3>2. recoveries[k].offer = invitation.offer /\ ~Plain(recoveries[k])
        BY <1>6, <3>1 DEF SameEntry, Plain
      <3>3. Failed
        BY <2>2, <3>2 DEF FailedOK
      <3> QED BY <1>6, <3>3, FailedStays
    <2> QED BY <2>1, <2>2
  <1>7. ChannelStep
    BY ChannelSteps
  <1> QED BY <1>1, <1>2, <1>3, <1>4, <1>5, <1>6, <1>7 DEF ChannelStep, Activates

\* The target of the last replacement is no origin.
LEMMA TargetNew ==
    ASSUME IInv, KnownOK, RanksGrow, NEW i \in DOMAIN replacements,
           i = Len(replacements), NEW j \in DOMAIN replacements
    PROVE  replacements[j].previous # replacements[i].next
  <1>0. /\ TypeOK /\ DOMAIN replacements = 1..Len(replacements)
        /\ Len(replacements) \in Nat
        /\ replacements[i] \in Replacement /\ replacements[j] \in Replacement
    BY Domains DEF IInv
  <1>1. /\ replacements[i].next \in Offer /\ replacements[j].next \in Offer
        /\ replacements[i].next # NoOffer
    BY <1>0, OfferAssumption DEF Replacement
  <1>2. replacements[i].next.peer \in Nat /\ replacements[j].next.peer \in Nat
    BY <1>1, OfferAssumption
  <1>3. Known(replacements[i].next)
    BY <1>1 DEF Known
  <1>4. replacements[j].next.peer <= replacements[i].next.peer
    <2>1. j < i \/ j = i
      BY <1>0
    <2> QED BY <1>2, <2>1 DEF RanksGrow
  <1>5. replacements[j].previous = replacements[i].next =>
           replacements[i].next.peer < replacements[j].next.peer
    BY <1>3 DEF RanksGrow
  <1> QED BY <1>2, <1>4, <1>5

\* Only what has been the current chat becomes an origin.
LEMMA OriginsPlainStep ==
    ASSUME IInv, RecoveriesDistinct, SuccessorsOK, Next, IInv', EntrySteps,
           ReplacementsGrow, StopsGrow, BeforeFirst, KnownOK, RanksGrow, FreshNext, Ahead,
           FailedOK, OriginsPlain
    PROVE  OriginsPlain'
  <1>0. TypeOK /\ ReplacementsOpen
    BY DEF IInv
  <1> SUFFICES ASSUME NEW k \in DOMAIN recoveries', ~Plain(recoveries'[k])
               PROVE  /\ \A j \in DOMAIN replacements' :
                            replacements'[j].previous # recoveries'[k].offer
                      /\ \A x \in OpenStops' : stops'[x].previous # recoveries'[k].offer
    BY DEF OriginsPlain, Plain
  <1> DEFINE o == recoveries'[k].offer
  <1>2. CASE k \in DOMAIN recoveries
    <2>1. SameEntry(recoveries[k], recoveries'[k])
      BY <1>2, EntriesSame
    <2>2. o = recoveries[k].offer /\ ~Plain(recoveries[k])
      BY <2>1 DEF SameEntry, Plain
    <2>3. /\ \A j \in DOMAIN replacements : replacements[j].previous # o
          /\ \A x \in OpenStops : stops[x].previous # o
          /\ o = invitation.offer => Failed
      BY <1>2, <2>2 DEF OriginsPlain, FailedOK
    <2> HIDE DEF o
    <2>4. o = invitation.offer => invitation.phase # "active"
      BY <2>3 DEF Failed
    <2>5. DOMAIN recoveries # {}
      BY <1>2
    <2>6. /\ \A j \in DOMAIN replacements' : replacements'[j].previous # o
          /\ \A x \in OpenStops' : stops'[x].previous # o
      BY <2>3, <2>4, <2>5, OriginsApart
    <2> QED BY <2>6 DEF o
  <1>3. CASE k \notin DOMAIN recoveries
    <2>1. NewEntry(recoveries'[k])
      BY <1>3 DEF EntrySteps
    <2>2. recoveries'[k] # Closing(invitation.offer, FALSE, NoOffer)
      BY DEF Plain, Closing
    <2>3. ASSUME NEW m \in DOMAIN recoveries, BeginRejoinRecovery(m), m = Len(recoveries),
                 o = recoveries[m].next
          PROVE  /\ \A j \in DOMAIN replacements' : replacements'[j].previous # o
                 /\ \A x \in OpenStops' : stops'[x].previous # o
      <3>1. /\ recoveries[m].phase = "closed" /\ recoveries[m].next # NoOffer
            /\ UNCHANGED <<stops, replacements>>
        BY <2>3 DEF BeginRejoinRecovery, CanFailRejoin
      <3>2. /\ \A j \in DOMAIN replacements : replacements[j].previous # o
            /\ \A x \in OpenStops : stops[x].previous # o
        BY <2>3, <3>1, NextElsewhere
      <3> HIDE DEF o
      <3> QED BY <3>1, <3>2 DEF OpenStops
    <2>4. ASSUME NEW i \in DOMAIN replacements, BeginReplacementRecovery(i),
                 o = replacements[i].next
          PROVE  /\ \A j \in DOMAIN replacements' : replacements'[j].previous # o
                 /\ \A x \in OpenStops' : stops'[x].previous # o
      <3>1. /\ UNCHANGED stops /\ OpenStops = {}
            /\ \E q : replacements' = [replacements EXCEPT ![i] = q]
        BY <2>4, OthersFit DEF BeginReplacementRecovery
      <3>2. i = Len(replacements)
        BY <1>0, <2>4, ReplacingIs DEF BeginReplacementRecovery
      <3>3. \A j \in DOMAIN replacements : replacements[j].previous # o
        BY <2>4, <3>2, TargetNew
      <3>4. DOMAIN replacements' = DOMAIN replacements
        BY <3>1
      <3> HIDE DEF o
      <3> QED BY <3>1, <3>3, <3>4 DEF ReplacementsGrow, KeptReplacement, OpenStops
    <2> QED BY <2>1, <2>2, <2>3, <2>4 DEF NewEntry, Closing
  <1> QED BY <1>2, <1>3

-----------------------------------------------------------------------------
(* What is counted as retired.                                             *)

CountedSet(reps, recs, ss, extra) ==
    {r.previous : r \in {x \in ToSet(reps) : x.phase = "active"}}
    \cup {r.offer : r \in {x \in ToSet(recs) : x.phase = "rejoined"}}
    \cup (UNION {ToSet(StopOffers(s)) : s \in ToSet(ss)})
    \cup extra
Counted(o, reps, recs, ss) ==
    \/ \E j \in DOMAIN reps : reps[j].phase = "active" /\ reps[j].previous = o
    \/ \E j \in DOMAIN recs : recs[j].phase = "rejoined" /\ recs[j].offer = o
    \/ \E k \in DOMAIN ss : o \in ToSet(StopOffers(ss[k]))

LEMMA CountedIs ==
    ASSUME NEW reps, NEW recs, NEW ss, NEW extra, NEW o
    PROVE  o \in CountedSet(reps, recs, ss, extra) <=>
              Counted(o, reps, recs, ss) \/ o \in extra
  <1> DEFINE A == {r.previous : r \in {x \in ToSet(reps) : x.phase = "active"}}
             J == {r.offer : r \in {x \in ToSet(recs) : x.phase = "rejoined"}}
             S == UNION {ToSet(StopOffers(s)) : s \in ToSet(ss)}
  <1>1. o \in A <=>
           \E j \in DOMAIN reps : reps[j].phase = "active" /\ reps[j].previous = o
    BY DEF ToSet
  <1>2. o \in J <=>
           \E j \in DOMAIN recs : recs[j].phase = "rejoined" /\ recs[j].offer = o
    BY DEF ToSet
  <1>3. o \in S <=> \E k \in DOMAIN ss : o \in ToSet(StopOffers(ss[k]))
    <2>1. o \in S <=> \E s \in ToSet(ss) : o \in ToSet(StopOffers(s))
      OBVIOUS
    <2>2. \A x : x \in ToSet(ss) <=> \E k \in DOMAIN ss : x = ss[k]
      BY DEF ToSet
    <2> QED BY <2>1, <2>2
  <1>4. CountedSet(reps, recs, ss, extra) = A \cup J \cup S \cup extra
    BY DEF CountedSet
  <1> HIDE DEF A, J, S
  <1> QED BY <1>1, <1>2, <1>3, <1>4 DEF Counted

LEMMA RetirementsAre ==
    ASSUME NEW extra
    PROVE  Retirements(extra) = CountedSet(replacements, recoveries, stops, extra)
  BY DEF Retirements, AllStopOffers, CountedSet

\* The image of a finite set, and the elements of a sequence, are finite.
LEMMA ImageFinite ==
    ASSUME NEW S, IsFiniteSet(S), NEW f, DOMAIN f = S, NEW T,
           \A t \in T : \E s \in S : f[s] = t
    PROVE  IsFiniteSet(T)
  <1> DEFINE D == {s \in S : f[s] \in T}
             g == [s \in D |-> f[s]]
  <1>1. IsFiniteSet(D)
    <2>1. D \in SUBSET S
      OBVIOUS
    <2> HIDE DEF D
    <2> QED BY <2>1, FS_Subset
  <1>2. g \in Surjection(D, T)
    <2>1. g \in [D -> T]
      OBVIOUS
    <2>2. \A t \in T : \E s \in D : g[s] = t
      OBVIOUS
    <2> HIDE DEF D, g
    <2> QED BY <2>1, <2>2 DEF Surjection
  <1> HIDE DEF D, g
  <1> QED BY <1>1, <1>2, FS_Surjection

LEMMA ElementsFinite ==
    ASSUME NEW S, NEW s \in Seq(S)
    PROVE  IsFiniteSet(DOMAIN s) /\ IsFiniteSet(ToSet(s))
  <1>1. DOMAIN s = 1..Len(s) /\ Len(s) \in Nat
    OBVIOUS
  <1>2. IsFiniteSet(1..Len(s))
    BY <1>1, FS_Interval
  <1>3. \A t \in ToSet(s) : \E k \in DOMAIN s : s[k] = t
    BY DEF ToSet
  <1> QED BY <1>1, <1>2, <1>3, ImageFinite

LEMMA CountedFinite ==
    ASSUME TypeOK, NEW extra, IsFiniteSet(extra)
    PROVE  IsFiniteSet(Retirements(extra))
  <1> DEFINE A == {r.previous : r \in {x \in ToSet(replacements) : x.phase = "active"}}
             J == {r.offer : r \in {x \in ToSet(recoveries) : x.phase = "rejoined"}}
             S == {ToSet(StopOffers(s)) : s \in ToSet(stops)}
             fa == [j \in DOMAIN replacements |-> replacements[j].previous]
             fj == [k \in DOMAIN recoveries |-> recoveries[k].offer]
             fs == [k \in DOMAIN stops |-> ToSet(StopOffers(stops[k]))]
  <1>0. /\ replacements \in Seq(Replacement) /\ recoveries \in Seq(Recovery)
        /\ stops \in Seq(Stop)
    BY DEF TypeOK
  <1>1. IsFiniteSet(DOMAIN replacements) /\ IsFiniteSet(DOMAIN recoveries)
        /\ IsFiniteSet(DOMAIN stops)
    BY <1>0, ElementsFinite
  <1>2. IsFiniteSet(A)
    <2>1. \A o \in A : \E j \in DOMAIN replacements : fa[j] = o
      BY DEF ToSet
    <2>2. DOMAIN fa = DOMAIN replacements
      OBVIOUS
    <2> HIDE DEF A, fa
    <2> QED BY <1>1, <2>1, <2>2, ImageFinite
  <1>3. IsFiniteSet(J)
    <2>1. \A o \in J : \E k \in DOMAIN recoveries : fj[k] = o
      BY DEF ToSet
    <2>2. DOMAIN fj = DOMAIN recoveries
      OBVIOUS
    <2> HIDE DEF J, fj
    <2> QED BY <1>1, <2>1, <2>2, ImageFinite
  <1>4. IsFiniteSet(UNION S)
    <2>1. \A t \in S : \E k \in DOMAIN stops : fs[k] = t
      BY DEF ToSet
    <2>2. DOMAIN fs = DOMAIN stops
      OBVIOUS
    <2>3. IsFiniteSet(S)
      <3> HIDE DEF S, fs
      <3> QED BY <1>1, <2>1, <2>2, ImageFinite
    <2>4. \A t \in S : IsFiniteSet(t)
      <3>1. \A k \in DOMAIN stops : IsFiniteSet(ToSet(StopOffers(stops[k])))
        <4>1. ASSUME NEW k \in DOMAIN stops PROVE StopOffers(stops[k]) \in Seq(Offer)
          BY Domains, StopOffersAre
        <4> QED BY <4>1, ElementsFinite
      <3> QED BY <2>1, <3>1
    <2> HIDE DEF S
    <2> QED BY <2>3, <2>4, FS_UNION
  <1>5. Retirements(extra) = A \cup J \cup (UNION S) \cup extra
    BY DEF Retirements, AllStopOffers
  <1> HIDE DEF A, J, S
  <1>6. IsFiniteSet(A \cup J)
    BY <1>2, <1>3, FS_Union
  <1>7. IsFiniteSet(A \cup J \cup (UNION S))
    BY <1>4, <1>6, FS_Union
  <1> QED BY <1>5, <1>7, FS_Union

\* Only an activation or a new stop changes what is counted.
LEMMA CountedSame ==
    ASSUME IInv, Next, ~Activates, StopsGrow, DOMAIN stops' = DOMAIN stops, NEW extra
    PROVE  CountedSet(replacements', recoveries', stops', extra) =
              CountedSet(replacements, recoveries, stops, extra)
  <1>1. ~\E i \in DOMAIN recoveries, n \in Offer : ActivateRejoin(i, n)
    BY DEF Activates
  <1>2. \A k \in DOMAIN stops : StopOffers(stops'[k]) = StopOffers(stops[k])
    BY SameOffers DEF StopsGrow
  <1>3. \A o : (\E j \in DOMAIN replacements' : /\ replacements'[j].phase = "active"
                                               /\ replacements'[j].previous = o)
           <=> (\E j \in DOMAIN replacements : /\ replacements[j].phase = "active"
                                              /\ replacements[j].previous = o)
    BY OthersReplace
  <1>4. \A o : (\E j \in DOMAIN recoveries' : /\ recoveries'[j].phase = "rejoined"
                                             /\ recoveries'[j].offer = o)
           <=> (\E j \in DOMAIN recoveries : /\ recoveries[j].phase = "rejoined"
                                            /\ recoveries[j].offer = o)
    BY <1>1, OthersRejoin
  <1>5. \A o : Counted(o, replacements', recoveries', stops') <=>
                  Counted(o, replacements, recoveries, stops)
    BY <1>2, <1>3, <1>4 DEF Counted
  <1> DEFINE C == CountedSet(replacements', recoveries', stops', extra)
             D == CountedSet(replacements, recoveries, stops, extra)
  <1>6. \A o : o \in C <=> o \in D
    BY <1>5, CountedIs
  <1>7. C = D
    <2> HIDE DEF C, D
    <2> QED BY <1>6
  <1> QED BY <1>7

\* The room counted when a replacement was prepared is still there: nothing else
\* is activated while it is under way, and a stop would stop it.
LEMMA PendingFitsStep ==
    ASSUME IInv, Next, IInv', PendingFits, ReplacementsGrow, StopsGrow
    PROVE  PendingFits'
  <1>0. TypeOK /\ ReplacementsOpen
    BY DEF IInv
  <1> SUFFICES ASSUME NEW j \in DOMAIN replacements',
                      replacements'[j].phase \in {"prepared", "consented", "cancelling"},
                      \A x \in DOMAIN stops' : stops'[x].next # replacements'[j].next
               PROVE  Cardinality(CountedSet(replacements', recoveries', stops',
                                             {replacements'[j].previous})) <= MaxRetired
    BY DEF PendingFits, UnderWay, StopOf, Retirements, AllStopOffers, CountedSet
  <1>1. j \in DOMAIN replacements =>
           /\ replacements[j].phase \in {"prepared", "consented", "cancelling"}
           /\ replacements'[j].previous = replacements[j].previous
           /\ replacements'[j].next = replacements[j].next
           /\ j = Len(replacements) /\ Replacing
    <2>1. j \in DOMAIN replacements =>
             /\ replacements[j].phase \in {"prepared", "consented", "cancelling"}
             /\ replacements'[j].previous = replacements[j].previous
             /\ replacements'[j].next = replacements[j].next
      BY DEF ReplacementsGrow, KeptReplacement
    <2> QED BY <1>0, <2>1, ReplacingIs
  <1>2. ~Activates
    <2>1. ASSUME NEW x \in DOMAIN recoveries, NEW n \in Offer, ActivateRejoin(x, n)
          PROVE  FALSE
      <3>1. j \in DOMAIN replacements /\ Accepts("rejoin")
        BY <2>1 DEF ActivateRejoin, CanRejoin
      <3> QED BY <1>1, <3>1 DEF Accepts
    <2>2. ASSUME NEW i \in DOMAIN replacements, ActivateReplacement(i) PROVE FALSE
      <3>1. /\ replacements' = [replacements EXCEPT ![i].phase = "active"]
            /\ replacements[i].phase = "consented"
        BY <2>2 DEF ActivateReplacement, Pending
      <3>2. j \in DOMAIN replacements
        BY <3>1
      <3>3. i = j
        BY <1>0, <1>1, <3>1, <3>2, ReplacingIs
      <3>4. replacements'[j].phase = "active"
        BY <1>0, <3>1, <3>2, <3>3, Domains DEF Replacement
      <3> QED BY <3>4
    <2> QED BY <2>1, <2>2 DEF Activates
  <1>3. DOMAIN stops' = DOMAIN stops
    <2>1. ASSUME NEW k \in DOMAIN stops', k \notin DOMAIN stops PROVE FALSE
      <3>1. BeginStop(stops'[k].previous, stops'[k].next)
        BY <2>1 DEF StopsGrow, BegunAt
      <3>2. UNCHANGED replacements
        BY <3>1 DEF BeginStop
      <3>3. /\ j = Len(replacements) /\ j \in DOMAIN replacements
            /\ replacements[j].phase \notin {"active", "cancelled", "abandoned"}
            /\ replacements'[j].next = replacements[j].next
        BY <1>1, <3>2
      <3>4. replacements # <<>> /\ Last(replacements) = replacements[j]
        BY <1>0, <3>3, LastIs
      <3>5. Last(replacements).next = stops'[k].next
        BY <3>1, <3>3, <3>4 DEF BeginStop, Latest
      <3> QED BY <3>3, <3>4, <3>5
    <2> QED BY <2>1 DEF StopsGrow
  <1>4. CASE j \in DOMAIN replacements
    <2>1. UnderWay(replacements[j])
      <3>1. \A x \in DOMAIN stops : stops'[x].next = stops[x].next
        BY DEF StopsGrow, KeptStop
      <3> QED BY <1>1, <1>3, <1>4, <3>1 DEF UnderWay, StopOf
    <2>2. Cardinality(Retirements({replacements[j].previous})) <= MaxRetired
      BY <1>4, <2>1 DEF PendingFits
    <2> QED BY <1>1, <1>2, <1>3, <1>4, <2>2, CountedSame, RetirementsAre
  <1>5. CASE j \notin DOMAIN replacements
    <2>1. PrepareReplacement(replacements'[j].previous, replacements'[j].next)
      BY <1>5 DEF ReplacementsGrow, NewReplacement
    <2>2. Cardinality(Retirements({replacements'[j].previous})) <= MaxRetired
      BY <2>1 DEF PrepareReplacement, CountOK
    <2> QED BY <1>2, <1>3, <2>2, CountedSame, RetirementsAre
  <1> QED BY <1>4, <1>5

-----------------------------------------------------------------------------
(* What is due to be retired.                                              *)

\* An entry keeps its root.
LEMMA RootStays ==
    ASSUME TypeOK, RecoveriesDistinct, LinksOK, EntrySteps, NEW i \in DOMAIN recoveries
    PROVE  /\ Root(recoveries, i) \in 1..i /\ IsRoot(recoveries, i, Root(recoveries, i))
           /\ Root(recoveries', i) = Root(recoveries, i)
  <1> DEFINE j == Root(recoveries, i)
  <1>0. DOMAIN recoveries = 1..Len(recoveries) /\ Len(recoveries) \in Nat /\ i \in Nat
    BY Domains
  <1>1. j \in 1..i /\ IsRoot(recoveries, i, j)
    <2>1. Rooted(recoveries, i)
      BY ChainWhole DEF ChainOK
    <2> QED BY <1>0, <2>1, RootIs
  <1> HIDE DEF j
  <1>2. \A k \in 1..i : recoveries'[k].deferred_from = recoveries[k].deferred_from
    <2>1. \A k \in 1..i : k \in DOMAIN recoveries
      BY <1>0
    <2> QED BY <2>1, EntriesSame DEF SameEntry
  <1>3. IsRoot(recoveries', i, j)
    <2>1. \A k \in (j + 1)..i : k \in 1..i
      BY <1>0, <1>1
    <2> QED BY <1>1, <1>2, <2>1 DEF IsRoot
  <1>4. Root(recoveries', i) = j
    BY <1>0, <1>1, <1>3, RootUnique
  <1> QED BY <1>1, <1>4 DEF j

\* A new entry is its own root, or it goes on from the last one.
LEMMA NewRoot ==
    ASSUME TypeOK, RecoveriesDistinct, LinksOK, EntrySteps,
           NEW i \in DOMAIN recoveries' \ DOMAIN recoveries
    PROVE  /\ recoveries'[i].deferred_from = NoOffer => Root(recoveries', i) = i
           /\ recoveries'[i].deferred_from # NoOffer =>
                 /\ Len(recoveries) \in DOMAIN recoveries
                 /\ Root(recoveries', i) = Root(recoveries, Len(recoveries))
  <1> DEFINE m == Len(recoveries)
  <1>0. DOMAIN recoveries = 1..m /\ m \in Nat /\ i = m + 1 /\ i \in Nat
    BY Domains, NewEntryIs
  <1>1. CASE recoveries'[i].deferred_from = NoOffer
    <2>1. IsRoot(recoveries', i, i) /\ i \in 1..i
      BY <1>0, <1>1 DEF IsRoot
    <2> QED BY <1>0, <1>1, <2>1, RootUnique
  <1>2. CASE recoveries'[i].deferred_from # NoOffer
    <2>1. m \in DOMAIN recoveries
      <3>1. NewEntry(recoveries'[i])
        BY DEF EntrySteps
      <3>2. \A o, b : recoveries'[i] # Closing(o, b, NoOffer)
        BY <1>2 DEF Closing
      <3> QED BY <3>1, <3>2 DEF NewEntry
    <2> DEFINE j == Root(recoveries, m)
    <2>2. j \in 1..m /\ IsRoot(recoveries, m, j)
      BY <2>1, RootStays
    <2> HIDE DEF j
    <2>3. \A k \in 1..m : recoveries'[k].deferred_from = recoveries[k].deferred_from
      BY <1>0, EntriesSame DEF SameEntry
    <2>4. IsRoot(recoveries', i, j)
      <3>1. \A k \in (j + 1)..i : k \in (j + 1)..m \/ k = i
        BY <1>0, <2>2
      <3>2. \A k \in (j + 1)..m : k \in 1..m
        BY <1>0, <2>2
      <3>3. /\ recoveries[j].deferred_from = NoOffer
            /\ \A k \in (j + 1)..m : recoveries[k].deferred_from # NoOffer
        BY <2>2 DEF IsRoot
      <3>4. /\ recoveries'[j].deferred_from = NoOffer
            /\ \A k \in (j + 1)..i : recoveries'[k].deferred_from # NoOffer
        <4> HIDE DEF m
        <4> QED BY <1>2, <2>2, <2>3, <3>1, <3>2, <3>3
      <3> QED BY <3>4 DEF IsRoot
    <2>5. j \in 1..i
      BY <1>0, <2>2
    <2>6. Root(recoveries', i) = j
      <3> HIDE DEF m
      <3> QED BY <1>0, <2>4, <2>5, RootUnique
    <2> QED BY <1>2, <2>1, <2>6 DEF j
  <1> QED BY <1>1, <1>2

\* What an entry reserves, it goes on to reserve, and the entry that goes on from
\* it reserves it too.
LEMMA ReservedStays ==
    ASSUME TypeOK, RecoveriesDistinct, LinksOK, EntrySteps, ReplacementsGrow,
           NEW i \in DOMAIN recoveries, NEW o, Reserved(i, o),
           NEW h \in DOMAIN recoveries', h = i \/ h = i + 1,
           Root(recoveries', h) = Root(recoveries, i)
    PROVE  Reserved(h, o)'
  <1> DEFINE j == Root(recoveries, i)
  <1>0. DOMAIN recoveries = 1..Len(recoveries) /\ Len(recoveries) \in Nat /\ i \in Nat
        /\ h \in Nat /\ i <= h
    BY Domains
  <1>1. j \in 1..i
    BY RootStays
  <1>2. \A k \in 1..i : /\ k \in DOMAIN recoveries
                        /\ SameEntry(recoveries[k], recoveries'[k])
    <2>1. \A k \in 1..i : k \in DOMAIN recoveries
      BY <1>0
    <2> QED BY <2>1, EntriesSame
  <1> HIDE DEF j
  <1>3. ASSUME NEW k \in j..i, recoveries[k].offer = o PROVE Reserved(h, o)'
    <2>1. k \in j..h /\ k \in 1..i
      BY <1>0, <1>1
    <2>2. recoveries'[k].offer = o
      BY <1>2, <1>3, <2>1 DEF SameEntry
    <2> QED BY <2>1, <2>2 DEF Reserved, j
  <1>4. ASSUME NEW x \in Deferred(i), replacements[x].previous = o PROVE Reserved(h, o)'
    <2>1. /\ x \in DOMAIN replacements /\ recoveries[j].replacement
          /\ replacements[x].next = recoveries[j].offer
      BY <1>4 DEF Deferred, ReplacementOf, j
    <2>2. /\ x \in DOMAIN replacements' /\ replacements'[x].next = replacements[x].next
          /\ replacements'[x].previous = o
      BY <1>4, <2>1 DEF ReplacementsGrow, KeptReplacement
    <2>3. SameEntry(recoveries[j], recoveries'[j])
      BY <1>1, <1>2
    <2>4. recoveries'[j].replacement /\ recoveries'[j].offer = replacements'[x].next
      BY <2>1, <2>2, <2>3 DEF SameEntry
    <2> QED BY <2>2, <2>4 DEF Reserved, Deferred, ReplacementOf, j
  <1> QED BY <1>3, <1>4 DEF Reserved, j

\* A chat that was closed reserves itself only.
LEMMA ReservedPlain ==
    ASSUME TypeOK, NEW i \in DOMAIN recoveries, Plain(recoveries[i]), NEW o, Reserved(i, o)
    PROVE  o = recoveries[i].offer
  <1>0. i \in Nat /\ i \in 1..i /\ i..i = {i}
    BY Domains
  <1>1. IsRoot(recoveries, i, i)
    BY <1>0 DEF IsRoot, Plain
  <1>2. Root(recoveries, i) = i
    BY <1>0, <1>1, RootUnique
  <1>3. Deferred(i) = {}
    BY <1>2 DEF Deferred, Plain
  <1> QED BY <1>0, <1>2, <1>3 DEF Reserved

\* What a stop bridges has been closed.
LEMMA ChainClosed ==
    ASSUME TypeOK, NEW x \in DOMAIN stops, Bridged(stops[x], recoveries, replacements),
           NEW o \in ToSet(stops[x].chain)
    PROVE  RecoveryOf(o) # {}
  <1> DEFINE s == stops[x]
  <1>0. /\ DOMAIN recoveries = 1..Len(recoveries) /\ Len(recoveries) \in Nat
        /\ DOMAIN recoveries \subseteq Nat \ {0}
    BY Domains
  <1>1. BridgeOK(s.previous, s.next, s.chain, recoveries, replacements)
    BY DEF Bridged
  <1>2. PICK i \in DOMAIN recoveries : \E j \in 1..i :
           BridgeAt(s.previous, s.next, s.chain, recoveries, replacements, i, j)
    <2> HIDE DEF s
    <2> QED BY <1>0, <1>1, BridgeIs
  <1>3. PICK j \in 1..i :
           BridgeAt(s.previous, s.next, s.chain, recoveries, replacements, i, j)
    BY <1>2
  <1>4. s.chain = [y \in 1..(i - j + 1) |-> recoveries[j + y - 1].offer]
    BY <1>3 DEF BridgeAt
  <1>5. PICK y \in 1..(i - j + 1) : recoveries[j + y - 1].offer = o
    BY <1>4 DEF ToSet
  <1>6. j + y - 1 \in DOMAIN recoveries
    BY <1>0
  <1> QED BY <1>5, <1>6 DEF RecoveryOf

\* What an entry of a stopped chain reserves, the stop fences.
LEMMA ReservedInStop ==
    ASSUME TypeOK, ReplacementsOpen, RecoveriesDistinct,
           NEW x \in DOMAIN stops, Bridged(stops[x], recoveries, replacements),
           NEW i \in DOMAIN recoveries, recoveries[i].offer \in ToSet(stops[x].chain),
           NEW o, Reserved(i, o)
    PROVE  o \in ToSet(stops[x].chain) \/ o = stops[x].previous
  <1> DEFINE s == stops[x]
  <1>0. /\ DOMAIN recoveries = 1..Len(recoveries) /\ Len(recoveries) \in Nat
        /\ DOMAIN recoveries \subseteq Nat \ {0} /\ i \in Nat
    BY Domains
  <1>1. BridgeOK(s.previous, s.next, s.chain, recoveries, replacements)
    BY DEF Bridged
  <1>2. PICK b \in DOMAIN recoveries : \E j \in 1..b :
           /\ IsRoot(recoveries, b, j)
           /\ BridgeAt(s.previous, s.next, s.chain, recoveries, replacements, b, j)
    <2> HIDE DEF s
    <2> QED BY <1>0, <1>1, BridgeIs
  <1>3. PICK j \in 1..b :
           /\ IsRoot(recoveries, b, j)
           /\ BridgeAt(s.previous, s.next, s.chain, recoveries, replacements, b, j)
    BY <1>2
  <1>4. /\ s.chain = [y \in 1..(b - j + 1) |-> recoveries[j + y - 1].offer]
        /\ recoveries[j].offer = s.next
        /\ \E r \in ToSet(replacements) : r.previous = s.previous /\ r.next = s.next
    BY <1>3 DEF BridgeAt
  <1>5. PICK y \in 1..(b - j + 1) : recoveries[j + y - 1].offer = recoveries[i].offer
    BY <1>4 DEF ToSet
  <1>6. j + y - 1 \in j..b /\ j + y - 1 \in DOMAIN recoveries
    BY <1>0
  <1>7. i = j + y - 1
    BY <1>5, <1>6 DEF RecoveriesDistinct
  <1>8. i \in j..b /\ j \in 1..i
    BY <1>0, <1>6, <1>7
  <1>9. Root(recoveries, i) = j
    <2>1. \A k \in (j + 1)..i : k \in (j + 1)..b
      BY <1>0, <1>8
    <2>2. IsRoot(recoveries, i, j)
      BY <1>3, <2>1 DEF IsRoot
    <2> QED BY <1>0, <1>8, <2>2, RootUnique
  <1>10. \A k \in j..i : recoveries[k].offer \in ToSet(s.chain)
    <2>1. \A k \in j..b : recoveries[k].offer \in ToSet(s.chain)
      <3> HIDE DEF s
      <3> QED BY <1>0, <1>3, BridgeOffers
    <2>2. \A k \in j..i : k \in j..b
      BY <1>0, <1>8
    <2> QED BY <2>1, <2>2
  <1>11. ASSUME NEW d \in Deferred(i) PROVE replacements[d].previous = s.previous
    <2>1. d \in DOMAIN replacements /\ replacements[d].next = s.next
      BY <1>4, <1>9, <1>11 DEF Deferred, ReplacementOf
    <2>2. PICK r \in DOMAIN replacements :
             replacements[r].previous = s.previous /\ replacements[r].next = s.next
      BY <1>4 DEF ToSet
    <2>3. d = r
      BY <2>1, <2>2 DEF ReplacementsOpen, ReplacementOf
    <2> QED BY <2>2, <2>3
  <1> QED BY <1>9, <1>10, <1>11 DEF Reserved

\* When the last entry holds the conversation again.
LEMMA UnreplacedAgain ==
    ASSUME TypeOK', NEW m, m = Len(recoveries'), m \in DOMAIN recoveries',
           recoveries'[m].phase # "rejoined",
           NEW o, o = recoveries'[m].offer, ~Superseded(o)', ~StopRetired(o)'
    PROVE  Unreplaced'
  <1>1. \A r : RecoveryReplaced(r, recoveries', replacements', stops')
                  <=> Superseded(r.offer)' \/ StopRetired(r.offer)'
    BY DEF RecoveryReplaced, Superseded, StopRetired, ToSet
  <1>2. recoveries' # <<>> /\ Last(recoveries') = recoveries'[m]
    BY DEF Last
  <1>3. ~RecoveryReplaced(recoveries'[m], recoveries', replacements', stops')
    <2>1. \A r : r.offer = o => ~Superseded(r.offer)' /\ ~StopRetired(r.offer)'
      BY DEF Superseded, StopRetired
    <2> QED BY <1>1, <2>1
  <1> QED BY <1>2, <1>3 DEF Unreplaced, Recovering, Latest

LEMMA DueAgain ==
    ASSUME NEW o, \/ /\ Unreplaced'
                     /\ \E m : m = Len(recoveries') /\ Reserved(m, o)'
                  \/ \E k \in OpenStops' :
                        o = stops'[k].previous \/ o \in ToSet(StopOffers(stops'[k]))
    PROVE  Due(o)'
  BY DEF Due, Reserved, Deferred, ReplacementOf

\* An activated replacement retires its origin, and with it every open stop.
LEMMA RetiresStops ==
    ASSUME IInv, NEW i \in DOMAIN replacements, ActivateReplacement(i)
    PROVE  /\ replacements[i].previous \in engine'.retired
           /\ \A k \in OpenStops :
                 /\ stops[k].previous \in engine'.retired
                 /\ ToSet(StopOffers(stops[k])) \subseteq engine'.retired
  <1> DEFINE r == replacements[i]
  <1>0. TypeOK
    BY DEF IInv
  <1>1. engine'.retired = engine.retired \cup {r.previous} \cup ToSet(StoppedGroups(r))
    BY ReplacedEngine
  <1>2. UnderWay(r)
    BY DEF ActivateReplacement, Pending, UnderWay
  <1>3. OpenStops # {} => r.restart_from # NoOffer /\ StoppedFrom(r.previous)
    BY <1>2 DEF IInv, PendingOK, StoppedGroupsOK
  <1>4. r.restart_from # NoOffer => ToSet(StoppedGroups(r)) =
           UNION {ToSet(StopOffers(stops[k])) : k \in OpenStops}
    BY <1>0, StoppedGroupsAre
  <1> HIDE DEF r
  <1>5. ASSUME NEW k \in OpenStops
        PROVE  /\ stops[k].previous \in engine'.retired
               /\ ToSet(StopOffers(stops[k])) \subseteq engine'.retired
    <2>1. stops[k].previous = r.previous
      BY <1>3 DEF StoppedFrom
    <2>2. ToSet(StopOffers(stops[k])) \subseteq ToSet(StoppedGroups(r))
      BY <1>3, <1>4
    <2> QED BY <1>1, <2>1, <2>2
  <1> QED BY <1>1, <1>5 DEF r

\* What a stop is to fence stays due until it is fenced.
LEMMA StopDueStays ==
    ASSUME IInv, Next, StopsGrow, NEW k \in OpenStops,
           NEW o, o = stops[k].previous \/ o \in ToSet(StopOffers(stops[k]))
    PROVE  o \in engine'.retired \/ Due(o)'
  <1>0. TypeOK /\ k \in DOMAIN stops
    BY DEF IInv, OpenStops
  <1>1. CASE k \in OpenStops'
    <2>1. /\ stops'[k].previous = stops[k].previous
          /\ StopOffers(stops'[k]) = StopOffers(stops[k])
      BY <1>0, SameOffers DEF StopsGrow, KeptStop
    <2> QED BY <1>1, <2>1, DueAgain
  <1>2. CASE k \notin OpenStops'
    <2>1. ASSUME NEW p \in Offer, NEW n \in Offer, BeginStop(p, n) PROVE FALSE
      <3>1. \E s \in Stop : stops' = Append(stops, s) /\ s.phase = "stopping"
        BY <2>1, BegunStop
      <3>2. OpenStops \subseteq OpenStops'
        BY <1>0, <3>1, StopAppended
      <3> QED BY <1>2, <3>2
    <2>2. PICK i \in DOMAIN replacements : ActivateReplacement(i)
      BY <1>2, <2>1, NextKeeps DEF StopsKept
    <2> QED BY <2>2, RetiresStops
  <1> QED BY <1>1, <1>2

\* A new entry holds the conversation: nothing has taken its place.
LEMMA NewUnreplaced ==
    ASSUME IInv, IInv', EntrySteps, ChainsBridged,
           NEW k \in DOMAIN recoveries' \ DOMAIN recoveries,
           NEW o, o = recoveries'[k].offer, RecoveryOf(o) = {}, ~Superseded(o)',
           UNCHANGED stops
    PROVE  Unreplaced'
  <1>0. TypeOK /\ TypeOK'
    BY DEF IInv
  <1>1. k = Len(recoveries') /\ recoveries'[k].phase = "closing"
    BY NewEntryIs
  <1>2. ~StopRetired(o)'
    <2>1. SUFFICES ASSUME NEW x \in DOMAIN stops, o \in ToSet(stops[x].chain) PROVE FALSE
      BY DEF StopRetired
    <2>2. stops[x].chain # <<>>
      BY <2>1 DEF ToSet
    <2>3. Bridged(stops[x], recoveries, replacements)
      BY <2>2 DEF ChainsBridged
    <2> QED BY <1>0, <2>1, <2>3, ChainClosed
  <1> QED BY <1>0, <1>1, <1>2, UnreplacedAgain

\* The close of a replacement's target: its origin is due to be retired with it.
LEMMA RecoveryDue ==
    ASSUME IInv, IInv', RecoveriesDistinct, LinksOK, EntrySteps, ReplacementsGrow,
           ChainsBridged, KnownOK, RanksGrow,
           NEW j \in DOMAIN replacements, BeginReplacementRecovery(j)
    PROVE  \A o : o = replacements[j].previous => Due(o)'
  <1> DEFINE n == Len(recoveries) + 1
             c == Closing(replacements[j].next, TRUE, NoOffer)
             t == replacements[j].next
  <1>0. /\ TypeOK /\ TypeOK' /\ ReplacementsOpen
        /\ DOMAIN recoveries = 1..Len(recoveries) /\ Len(recoveries) \in Nat
        /\ recoveries \in Seq(Recovery)
    BY Domains DEF IInv, TypeOK
  <1>1. /\ recoveries' = Append(recoveries, c) /\ RecoveryOf(t) = {}
        /\ UNCHANGED stops
        /\ replacements' = [replacements EXCEPT ![j].phase = "recovering"]
    BY DEF BeginReplacementRecovery
  <1>2. /\ n \in DOMAIN recoveries' \ DOMAIN recoveries /\ recoveries'[n] = c
        /\ Len(recoveries') = n
    <2> HIDE DEF c
    <2> QED BY <1>0, <1>1
  <1>3. c.offer = t /\ c.replacement /\ c.deferred_from = NoOffer
    BY DEF Closing
  <1>4. j = Len(replacements)
    BY <1>0, ReplacingIs DEF BeginReplacementRecovery
  <1>5. DOMAIN replacements' = DOMAIN replacements
        /\ \A i \in DOMAIN replacements : /\ replacements'[i].previous = replacements[i].previous
                                         /\ replacements'[i].next = replacements[i].next
    BY <1>1 DEF ReplacementsGrow, KeptReplacement
  <1>6. \A o : o = t => ~Superseded(o)'
    <2>1. \A i \in DOMAIN replacements : replacements[i].previous # t
      BY <1>4, TargetNew
    <2> HIDE DEF t
    <2> QED BY <1>5, <2>1 DEF Superseded
  <1>7. Unreplaced'
    <2>1. ASSUME NEW k, k = n, NEW o, o = t PROVE Unreplaced'
      <3>1. /\ k \in DOMAIN recoveries' \ DOMAIN recoveries
            /\ o = recoveries'[k].offer
            /\ RecoveryOf(o) = {}
            /\ ~Superseded(o)'
        BY <1>1, <1>2, <1>3, <1>6, <2>1
      <3> HIDE DEF n, c, t
      <3> QED BY <1>1, <3>1, NewUnreplaced
    <2> QED BY <2>1
  <1>8. Root(recoveries', n) = n
    <2> HIDE DEF n, c
    <2> QED BY <1>0, <1>2, <1>3, NewRoot
  <1>9. ASSUME NEW o, o = replacements[j].previous PROVE \A m : m = n => Reserved(m, o)'
    <2>1. recoveries'[n].replacement /\ recoveries'[n].offer = replacements'[j].next
      BY <1>2, <1>3, <1>5
    <2>2. j \in DOMAIN replacements' /\ replacements'[j].previous = o
      BY <1>5, <1>9
    <2> HIDE DEF n, c
    <2>3. ASSUME NEW m, m = n PROVE Reserved(m, o)'
      <3>1. /\ Root(recoveries', m) = m /\ recoveries'[m].replacement
            /\ recoveries'[m].offer = replacements'[j].next
        BY <1>8, <2>1, <2>3
      <3> QED BY <2>2, <3>1 DEF Reserved, Deferred, ReplacementOf
    <2> QED BY <2>3
  <1>10. ASSUME NEW o, o = replacements[j].previous PROVE Due(o)'
    <2>1. PICK m : m = n
      OBVIOUS
    <2>2. m = Len(recoveries') /\ Reserved(m, o)'
      BY <1>2, <1>9, <1>10, <2>1
    <2> HIDE DEF n, c
    <2> QED BY <1>7, <2>2, DueAgain
  <1> QED BY <1>10

\* A group that is retired is never taken back.
LEMMA RetiredGrows ==
    ASSUME IInv, Next, TypeOK'
    PROVE  engine.retired \subseteq engine'.retired
  <1>1. ASSUME NEW i \in DOMAIN recoveries, NEW n \in Offer, ActivateRejoin(i, n)
        PROVE  engine.retired \subseteq engine'.retired
    BY <1>1, RejoinedEngine
  <1>2. ASSUME NEW i \in DOMAIN replacements, ActivateReplacement(i)
        PROVE  engine.retired \subseteq engine'.retired
    BY <1>2, ReplacedEngine
  <1> QED BY <1>1, <1>2, EngineStep DEF Activates

\* What goes on from the last entry, or is the close of the target that was to
\* replace it, reserves what that entry reserved.
LEMMA AddedDue ==
    ASSUME IInv, IInv', SInv, RInv, OriginsPlain, EntrySteps, ReplacementsGrow, Unreplaced,
           NEW k \in DOMAIN recoveries' \ DOMAIN recoveries,
           NEW m, m = Len(recoveries), NEW o, Reserved(m, o)
    PROVE  Due(o)'
  <1>0. /\ TypeOK /\ TypeOK' /\ ReplacementsOpen /\ RecoveriesDistinct /\ SuccessorsOK
        /\ LinksOK /\ ChainsBridged /\ KnownOK /\ RanksGrow /\ CurrentIsLast /\ BeforeFirst
        /\ OriginCurrent /\ FreshNext /\ Ahead
    BY DEF IInv, SInv, RInv
  <1>1. /\ m \in DOMAIN recoveries /\ recoveries[m].phase # "rejoined" /\ m \in Nat
        /\ Last(recoveries) = recoveries[m] /\ recoveries[m].offer # NoOffer
    <2>1. m \in DOMAIN recoveries /\ recoveries[m].phase # "rejoined"
      BY <1>0, UnreplacedIs
    <2> QED BY <1>0, <2>1, Domains, LastIs, OfferAssumption DEF Recovery
  <1>2. k = m + 1 /\ Len(recoveries') = k
    BY NewEntryIs
  <1>3. CASE BeginClose
    <2>1. RecoveryOf(invitation.offer) = {}
      BY <1>3 DEF BeginClose
    <2>2. invitation.offer = recoveries[m].offer
      BY <1>0, <1>1 DEF CurrentIsLast
    <2> QED BY <1>1, <2>1, <2>2 DEF RecoveryOf
  <1>4. ASSUME BeginRejoinRecovery(m), recoveries'[k].offer = recoveries[m].next,
               recoveries'[k].deferred_from = recoveries[m].offer
        PROVE  Due(o)'
    <2>1. recoveries[m].next # NoOffer /\ UNCHANGED stops /\ UNCHANGED replacements
      BY <1>4 DEF BeginRejoinRecovery, CanFailRejoin
    <2>2. /\ RecoveryOf(recoveries[m].next) = {}
          /\ \A j \in DOMAIN replacements : replacements[j].previous # recoveries[m].next
      BY <1>0, <1>1, <2>1, NextElsewhere
    <2>3. \A p : p = recoveries[m].next => ~Superseded(p)'
      BY <2>1, <2>2 DEF Superseded
    <2>4. Unreplaced'
      <3>1. ASSUME NEW p, p = recoveries'[k].offer PROVE Unreplaced'
        <4>1. RecoveryOf(p) = {} /\ ~Superseded(p)'
          BY <1>4, <2>2, <2>3, <3>1
        <4> QED BY <1>0, <2>1, <3>1, <4>1, NewUnreplaced
      <3> QED BY <3>1
    <2>5. Root(recoveries', k) = Root(recoveries, m)
      BY <1>0, <1>1, <1>4, NewRoot
    <2>6. Reserved(k, o)'
      BY <1>0, <1>1, <1>2, <2>5, ReservedStays
    <2> QED BY <1>2, <2>4, <2>6, DueAgain
  <1>5. ASSUME NEW j \in DOMAIN replacements, BeginReplacementRecovery(j) PROVE Due(o)'
    <2>1. /\ replacements[j].phase \in
                {"prepared", "consented", "cancelling", "recovery_required"}
          /\ Accepts("failure")
      BY <1>5 DEF BeginReplacementRecovery
    <2>2. OpenStops = {}
      BY <2>1, OthersFit
    <2>3. replacements[j].previous = recoveries[m].offer
      BY <1>0, <2>1, <2>2, OriginIsLast
    <2>4. Plain(recoveries[m])
      BY <1>1, <2>3 DEF OriginsPlain
    <2>5. o = recoveries[m].offer
      BY <1>0, <1>1, <2>4, ReservedPlain
    <2> QED BY <1>0, <1>5, <2>3, <2>5, RecoveryDue
  <1> QED BY <1>3, <1>4, <1>5, NewEntryIs

\* What the last entry reserves stays reserved until it is retired.
LEMMA SameDue ==
    ASSUME IInv, Next, IInv', SInv, ChainsBridged', RInv, OriginsPlain, EntrySteps,
           ReplacementsGrow, StopsGrow, Unreplaced,
           DOMAIN recoveries' = DOMAIN recoveries,
           NEW m, m = Len(recoveries), NEW o, Reserved(m, o)
    PROVE  o \in engine'.retired \/ Due(o)'
  <1>0. /\ TypeOK /\ TypeOK' /\ ReplacementsOpen /\ RecoveriesDistinct
        /\ LinksOK /\ ChainsBridged /\ KnownOK /\ RanksGrow /\ Succession
    BY DEF IInv, SInv, RInv
  <1>1. /\ m \in DOMAIN recoveries /\ recoveries[m].phase # "rejoined"
        /\ ~Superseded(recoveries[m].offer) /\ ~StopRetired(recoveries[m].offer)
    BY <1>0, UnreplacedIs
  <1>2. Len(recoveries') = m /\ m \in DOMAIN recoveries' /\ m \in Nat
    <2>1. DOMAIN recoveries = 1..Len(recoveries) /\ Len(recoveries) \in Nat
          /\ DOMAIN recoveries' = 1..Len(recoveries') /\ Len(recoveries') \in Nat
      BY <1>0, Domains DEF TypeOK
    <2> QED BY <1>1, <2>1
  <1>3. recoveries'[m].offer = recoveries[m].offer
    BY <1>1, EntriesSame DEF SameEntry
  <1>4. CASE recoveries'[m].phase = "rejoined"
    <2>1. PICK x \in DOMAIN recoveries : \E n \in Offer : EntryRejoins(m, x, n)
      BY <1>1, <1>4, EntriesSame
    <2>2. PICK n \in Offer : ActivateRejoin(x, n)
      BY <2>1 DEF EntryRejoins
    <2>3. x = m
      BY <1>0, <2>2, RejoinsLast
    <2>4. engine'.retired = engine.retired \cup ToSet(ChainOffers(recoveries, m))
             \cup {replacements[j].previous : j \in Deferred(m)}
      BY <2>2, <2>3, RejoinedEngine
    <2>5. Rooted(recoveries, m)
      BY <1>0, <1>1, ChainWhole DEF ChainOK
    <2>6. ToSet(ChainOffers(recoveries, m)) =
             {recoveries[k].offer : k \in Root(recoveries, m)..m}
      BY <1>0, <1>1, <2>5, ChainOffersAre DEF TypeOK
    <2> QED BY <2>4, <2>6 DEF Reserved
  <1>5. ASSUME NEW p, p = recoveries[m].offer, Superseded(p)'
        PROVE  o \in engine'.retired \/ Due(o)'
    <2>1. PICK j \in DOMAIN replacements' :
             Settled(replacements'[j]) /\ replacements'[j].previous = p
      BY <1>5 DEF Superseded, Settled
    <2>2. j \in DOMAIN replacements
      BY <2>1 DEF ReplacementsGrow, NewReplacement, Settled
    <2>3. replacements[j].previous = p
      BY <2>1, <2>2 DEF ReplacementsGrow, KeptReplacement
    <2>4. ~Settled(replacements[j])
      BY <1>1, <1>5, <2>2, <2>3 DEF Superseded, Settled
    <2>5. Plain(recoveries[m])
      BY <1>1, <1>5, <2>2, <2>3 DEF OriginsPlain
    <2>6. o = p
      BY <1>0, <1>1, <1>5, <2>5, ReservedPlain
    <2>7. CASE ActivateReplacement(j)
      BY <2>2, <2>3, <2>6, <2>7, RetiresStops
    <2>8. CASE BeginReplacementRecovery(j)
      BY <1>0, <2>2, <2>3, <2>6, <2>8, RecoveryDue
    <2>9. ASSUME NEW x \in OpenStops, replacements[j].next = stops[x].next
          PROVE  o \in engine'.retired \/ Due(o)'
      <3>1. o = stops[x].previous
        BY <2>2, <2>3, <2>6, <2>9 DEF IInv, StopsHold, ReplacementOf
      <3> QED BY <3>1, StopDueStays
    <2> QED BY <2>1, <2>2, <2>4, <2>7, <2>8, <2>9, SettledBy
  <1>6. ASSUME NEW p, p = recoveries[m].offer, StopRetired(p)'
        PROVE  o \in engine'.retired \/ Due(o)'
    <2>1. PICK k \in DOMAIN stops' :
             stops'[k].phase = "retired" /\ p \in ToSet(stops'[k].chain)
      BY <1>6 DEF StopRetired
    <2>2. k \in DOMAIN stops
      BY <2>1 DEF StopsGrow, BegunAt
    <2>3. stops[k].chain = stops'[k].chain
      BY <2>2 DEF StopsGrow, KeptStop
    <2>4. p \in ToSet(stops[k].chain) /\ stops[k].chain # <<>>
      BY <2>1, <2>3 DEF ToSet
    <2>5. Bridged(stops[k], recoveries, replacements)
      BY <1>0, <2>2, <2>4 DEF ChainsBridged
    <2>6. k \in OpenStops
      BY <1>1, <1>6, <2>2, <2>4, <2>5 DEF StopRetired, OpenStops
    <2>7. o \in ToSet(stops[k].chain) \/ o = stops[k].previous
      BY <1>0, <1>1, <1>6, <2>2, <2>4, <2>5, ReservedInStop
    <2>8. o \in ToSet(StopOffers(stops[k])) \/ o = stops[k].previous
      BY <2>4, <2>7 DEF StopOffers
    <2> QED BY <2>6, <2>8, StopDueStays
  <1>7. ASSUME recoveries'[m].phase # "rejoined", NEW p, p = recoveries'[m].offer,
               ~Superseded(p)', ~StopRetired(p)'
        PROVE  Due(o)'
    <2>1. Unreplaced'
      BY <1>0, <1>2, <1>7, UnreplacedAgain
    <2>2. Root(recoveries', m) = Root(recoveries, m)
      BY <1>0, <1>1, RootStays
    <2>3. Reserved(m, o)'
      BY <1>0, <1>1, <1>2, <2>2, ReservedStays
    <2> QED BY <1>2, <2>1, <2>3, DueAgain
  <1>8. \E p : p = recoveries[m].offer
    OBVIOUS
  <1> QED BY <1>3, <1>4, <1>5, <1>6, <1>7, <1>8

LEMMA DueStays ==
    ASSUME IInv, Next, IInv', SInv, ChainsBridged', RInv, OriginsPlain, EntrySteps,
           ReplacementsGrow, StopsGrow, NEW o, Due(o)
    PROVE  o \in engine'.retired \/ Due(o)'
  <1>1. CASE Unreplaced /\ Reserved(Len(recoveries), o)
    <2>1. CASE DOMAIN recoveries' = DOMAIN recoveries
      BY <1>1, <2>1, SameDue
    <2>2. CASE DOMAIN recoveries' # DOMAIN recoveries
      <3>1. \E k : k \in DOMAIN recoveries' \ DOMAIN recoveries
        BY <2>2 DEF EntrySteps
      <3> QED BY <1>1, <3>1, AddedDue
    <2> QED BY <2>1, <2>2
  <1>2. CASE \E k \in OpenStops : o = stops[k].previous \/ o \in ToSet(StopOffers(stops[k]))
    BY <1>2, StopDueStays
  <1> QED BY <1>1, <1>2 DEF Due

\* What is newly closed holds the conversation.
LEMMA NewEntryDue ==
    ASSUME IInv, IInv', SInv, LinksOK, EntrySteps,
           NEW k \in DOMAIN recoveries' \ DOMAIN recoveries,
           NEW o, o = recoveries'[k].offer, RecoveryOf(o) = {}, ~Superseded(o)'
    PROVE  Due(o)'
  <1>0. TypeOK /\ RecoveriesDistinct /\ ChainsBridged
    BY DEF IInv, SInv
  <1>1. k = Len(recoveries) + 1 /\ Len(recoveries') = k /\ k \in Nat
    BY <1>0, NewEntryIs, Domains
  <1>2. UNCHANGED stops
    BY NewEntryIs DEF BeginClose, BeginRejoinRecovery, BeginReplacementRecovery
  <1>3. Unreplaced'
    BY <1>0, <1>2, NewUnreplaced
  <1>4. Root(recoveries', k) \in 1..k
    <2>1. CASE recoveries'[k].deferred_from = NoOffer
      BY <1>0, <1>1, <2>1, NewRoot, Domains
    <2>2. CASE recoveries'[k].deferred_from # NoOffer
      <3>1. /\ Len(recoveries) \in DOMAIN recoveries
            /\ Root(recoveries', k) = Root(recoveries, Len(recoveries))
        BY <1>0, <2>2, NewRoot
      <3>2. Root(recoveries, Len(recoveries)) \in 1..Len(recoveries)
        BY <1>0, <3>1, RootStays
      <3> QED BY <1>0, <1>1, <3>1, <3>2, Domains
    <2> QED BY <2>1, <2>2
  <1>5. k \in Root(recoveries', k)..k
    BY <1>1, <1>4
  <1>6. Reserved(k, o)'
    BY <1>5 DEF Reserved
  <1> QED BY <1>1, <1>3, <1>6, DueAgain

LEMMA CoveredStep ==
    ASSUME IInv, Next, IInv', SInv, ChainsBridged', RInv, OriginsPlain, Covered,
           EntrySteps, ReplacementsGrow, StopsGrow
    PROVE  Covered'
  <1>0. /\ TypeOK /\ TypeOK' /\ ReplacementsOpen /\ RecoveriesDistinct
        /\ LinksOK /\ ChainsBridged /\ KnownOK /\ RanksGrow
    BY DEF IInv, SInv, RInv
  <1>1. ASSUME NEW o \in Offer, Left(o) PROVE o \in engine'.retired \/ Due(o)'
    BY <1>0, <1>1, RetiredGrows, DueStays DEF Covered
  <1>2. ASSUME NEW o \in Offer, ~Left(o), Superseded(o)'
        PROVE  o \in engine'.retired \/ Due(o)'
    <2>1. PICK j \in DOMAIN replacements' :
             Settled(replacements'[j]) /\ replacements'[j].previous = o
      BY <1>2 DEF Superseded, Settled
    <2>2. j \in DOMAIN replacements
      BY <2>1 DEF ReplacementsGrow, NewReplacement, Settled
    <2>3. replacements[j].previous = o
      BY <2>1, <2>2 DEF ReplacementsGrow, KeptReplacement
    <2>4. ~Settled(replacements[j])
      BY <1>2, <2>2, <2>3 DEF Left, Superseded, Settled
    <2>5. CASE ActivateReplacement(j)
      BY <2>2, <2>3, <2>5, RetiresStops
    <2>6. CASE BeginReplacementRecovery(j)
      BY <1>0, <2>2, <2>3, <2>6, RecoveryDue
    <2>7. ASSUME NEW x \in OpenStops, replacements[j].next = stops[x].next
          PROVE  o \in engine'.retired \/ Due(o)'
      <3>1. o = stops[x].previous
        BY <2>2, <2>3, <2>7 DEF IInv, StopsHold, ReplacementOf
      <3> QED BY <3>1, StopDueStays
    <2> QED BY <2>1, <2>2, <2>4, <2>5, <2>6, <2>7, SettledBy
  <1>3. ASSUME NEW o \in Offer, ~Left(o), ~Superseded(o)',
               NEW k \in DOMAIN recoveries', recoveries'[k].offer = o
        PROVE  Due(o)'
    <2>1. RecoveryOf(o) = {}
      BY <1>3 DEF Left
    <2>2. k \notin DOMAIN recoveries
      BY <1>3, <2>1, EntriesSame DEF RecoveryOf, SameEntry
    <2> QED BY <1>0, <1>3, <2>1, <2>2, NewEntryDue
  <1>4. \A o \in Offer : Left(o)' => o \in engine'.retired \/ Due(o)'
    BY <1>1, <1>2, <1>3 DEF Left, RecoveryOf
  <1> QED BY <1>4 DEF Covered

-----------------------------------------------------------------------------
(* What a rejoin retires.                                                  *)

\* The chain and the origin that a rejoin retires stay what they are.
LEMMA RetiringSame ==
    ASSUME TypeOK, RecoveriesDistinct, LinksOK, EntrySteps, ReplacementsGrow,
           NEW i \in DOMAIN recoveries, engine'.retired = engine.retired
    PROVE  Retiring(i)' = Retiring(i)
  <1> DEFINE j == Root(recoveries, i)
  <1>0. DOMAIN recoveries = 1..Len(recoveries) /\ Len(recoveries) \in Nat /\ i \in Nat
        /\ DOMAIN replacements = 1..Len(replacements) /\ Len(replacements) \in Nat
    BY Domains
  <1>1. j \in 1..i /\ Root(recoveries', i) = j
    BY RootStays
  <1>2. \A k \in 1..i : k \in DOMAIN recoveries /\ SameEntry(recoveries[k], recoveries'[k])
    <2>1. \A k \in 1..i : k \in DOMAIN recoveries
      BY <1>0
    <2> QED BY <2>1, EntriesSame
  <1>3. /\ recoveries'[j].offer = recoveries[j].offer
        /\ recoveries'[j].replacement = recoveries[j].replacement
    BY <1>1, <1>2 DEF SameEntry
  <1>4. ChainOffers(recoveries', i) = ChainOffers(recoveries, i)
    <2> HIDE DEF j
    <2>1. \A k \in 1..(i - j + 1) : j + k - 1 \in 1..i
      BY <1>0, <1>1
    <2>2. \A k \in 1..(i - j + 1) :
             recoveries'[j + k - 1].offer = recoveries[j + k - 1].offer
      BY <1>2, <2>1 DEF SameEntry
    <2>3. /\ ChainOffers(recoveries, i) = [k \in 1..(i - j + 1) |-> recoveries[j + k - 1].offer]
          /\ ChainOffers(recoveries', i) = [k \in 1..(i - j + 1) |-> recoveries'[j + k - 1].offer]
      BY <1>1 DEF ChainOffers, j
    <2> QED BY <2>2, <2>3
  <1>5. \A x : x \in Deferred(i)' <=> x \in Deferred(i)
    <2>1. ASSUME NEW x \in DOMAIN replacements PROVE x \in Deferred(i)' <=> x \in Deferred(i)
      <3>1. x \in DOMAIN replacements' /\ replacements'[x].next = replacements[x].next
        BY DEF ReplacementsGrow, KeptReplacement
      <3> QED BY <1>1, <1>3, <3>1 DEF Deferred, ReplacementOf
    <2>2. ASSUME NEW x \in DOMAIN replacements', x \notin DOMAIN replacements
          PROVE  x \notin Deferred(i)'
      <3>1. RecoveryOf(replacements'[x].next) = {}
        BY <2>2 DEF ReplacementsGrow, NewReplacement, PrepareReplacement
      <3>2. replacements'[x].next # recoveries[j].offer
        BY <1>1, <1>2, <3>1 DEF RecoveryOf
      <3> QED BY <1>1, <1>3, <3>2 DEF Deferred, ReplacementOf
    <2>3. \A x : /\ x \in Deferred(i)' => x \in DOMAIN replacements'
                 /\ x \in Deferred(i) => x \in DOMAIN replacements
      BY DEF Deferred, ReplacementOf
    <2> QED BY <2>1, <2>2, <2>3
  <1>6. \A x \in Deferred(i) : replacements'[x].previous = replacements[x].previous
    BY DEF Deferred, ReplacementOf, ReplacementsGrow, KeptReplacement
  <1>7. Retiring(i)' = engine'.retired \cup ToSet(ChainOffers(recoveries', i))
                          \cup {replacements'[x].previous : x \in Deferred(i)'}
    BY DEF Retiring
  <1>8. {replacements'[x].previous : x \in Deferred(i)'} =
           {replacements[x].previous : x \in Deferred(i)}
    BY <1>5, <1>6
  <1> QED BY <1>4, <1>7, <1>8 DEF Retiring

\* What was counted when a rejoin was prepared is what it retires.
LEMMA RetiringCounted ==
    ASSUME IInv, SInv, RInv, ClosingOK, NEW i \in DOMAIN recoveries, NEW n \in Offer,
           PrepareRejoin(i, n)
    PROVE  Cardinality(Retiring(i)) <= MaxRetired
  <1> DEFINE j == Root(recoveries, i)
             D == {k \in Deferred(i) : replacements[k].phase = "abandoned"}
             C == ToSet(ChainOffers(recoveries, i))
             E == {replacements[k].previous : k \in D}
  <1>0. /\ TypeOK /\ ReplacementsOpen /\ RetirementsAgree /\ LinksOK /\ TargetsOK
        /\ RecoveriesDistinct
        /\ DOMAIN recoveries = 1..Len(recoveries) /\ Len(recoveries) \in Nat /\ i \in Nat
    BY Domains DEF IInv, SInv, RInv
  <1>1. recoveries[i].phase = "closed" /\ Cardinality(Retirements(C \cup E)) <= MaxRetired
        /\ ChainOK(recoveries, i)
    BY DEF PrepareRejoin, CanRejoin, CountOK
  <1>2. j \in 1..i
    BY <1>0, <1>1, RootIs DEF ChainOK
  <1>3. recoveries[j].phase # "closing"
    <2>1. CASE j = i
      BY <1>1, <2>1
    <2>2. CASE j # i
      <3>1. j + 1 \in (j + 1)..i /\ (j + 1) - 1 = j
        BY <1>0, <1>2, <2>2
      <3> QED BY <1>1, <3>1 DEF ChainOK
    <2> QED BY <2>1, <2>2
  <1>4. ASSUME NEW k \in Deferred(i)
        PROVE  /\ k \in DOMAIN replacements
               /\ replacements[k].phase \in {"abandoned", "active"}
    <2>1. /\ k \in DOMAIN replacements /\ recoveries[j].replacement
          /\ replacements[k].next = recoveries[j].offer
      BY <1>4 DEF Deferred, ReplacementOf
    <2>2. j \in DOMAIN recoveries
      BY <1>0, <1>2
    <2>3. PICK x \in DOMAIN replacements :
             /\ replacements[x].next = recoveries[j].offer
             /\ replacements[x].phase \in {"recovering", "abandoned", "active"}
      BY <1>0, <2>1, <2>2 DEF TargetsOK
    <2>4. x = k
      BY <1>0, <2>1, <2>3 DEF ReplacementsOpen, ReplacementOf
    <2>5. replacements[k].phase # "recovering"
      BY <1>3, <2>1, <2>2 DEF ClosingOK
    <2> QED BY <2>1, <2>3, <2>4, <2>5
  <1>5. Retiring(i) \subseteq Retirements(C \cup E)
    <2>1. ASSUME NEW o \in engine.retired PROVE o \in Retirements(C \cup E)
      <3>1. Fenced(o, replacements, recoveries, stops)
        BY <1>0, AgreeIs
      <3>2. Counted(o, replacements, recoveries, stops)
        BY <3>1 DEF Fenced, Counted
      <3> HIDE DEF C, E
      <3> QED BY <3>2, CountedIs, RetirementsAre
    <2>2. ASSUME NEW o \in C PROVE o \in Retirements(C \cup E)
      BY DEF Retirements
    <2>3. ASSUME NEW k \in Deferred(i)
          PROVE  replacements[k].previous \in Retirements(C \cup E)
      <3>1. CASE replacements[k].phase = "abandoned"
        <4>1. replacements[k].previous \in E
          BY <3>1
        <4> HIDE DEF C, E
        <4> QED BY <4>1 DEF Retirements
      <3>2. CASE replacements[k].phase = "active"
        <4>1. Counted(replacements[k].previous, replacements, recoveries, stops)
          BY <1>4, <3>2 DEF Counted
        <4> HIDE DEF C, E
        <4> QED BY <4>1, CountedIs, RetirementsAre
      <3> QED BY <1>4, <3>1, <3>2
    <2> QED BY <2>1, <2>2, <2>3 DEF Retiring
  <1>6. IsFiniteSet(C \cup E)
    <2>1. IsFiniteSet(C)
      <3>1. ChainOffers(recoveries, i) \in Seq(Offer)
        BY <1>0, <1>1, ChainOffersAre DEF ChainOK, TypeOK
      <3> QED BY <3>1, ElementsFinite
    <2>2. IsFiniteSet(E)
      <3> DEFINE f == [k \in D |-> replacements[k].previous]
      <3>1. IsFiniteSet(DOMAIN replacements)
        BY <1>0, ElementsFinite DEF TypeOK
      <3>2. D \subseteq DOMAIN replacements
        BY <1>4
      <3>3. IsFiniteSet(D)
        <4> HIDE DEF D
        <4> QED BY <3>1, <3>2, FS_Subset
      <3>4. DOMAIN f = D /\ \A t \in E : \E s \in D : f[s] = t
        OBVIOUS
      <3> HIDE DEF f, D, E
      <3> QED BY <3>3, <3>4, ImageFinite
    <2> HIDE DEF C, E
    <2> QED BY <2>1, <2>2, FS_Union
  <1>7. IsFiniteSet(Retirements(C \cup E))
    <2> HIDE DEF C, E
    <2> QED BY <1>0, <1>6, CountedFinite
  <1> DEFINE R == Retirements(C \cup E)
             Q == Retiring(i)
  <1>8. Cardinality(R) \in Nat
    <2> HIDE DEF R
    <2> QED BY <1>7, FS_CardinalityType DEF R
  <1>9. Cardinality(Q) <= Cardinality(R) /\ Cardinality(Q) \in Nat
    <2> HIDE DEF R, Q
    <2> QED BY <1>5, <1>7, FS_Subset, FS_CardinalityType DEF R, Q
  <1>10. MaxRetired \in Nat
    BY OfferAssumption
  <1> HIDE DEF R, Q
  <1> QED BY <1>1, <1>8, <1>9, <1>10 DEF R, Q

\* An activation retires everything that was due.
LEMMA NothingDue ==
    ASSUME IInv, IInv', Next, ChainsBridged', RInv, EntrySteps, ReplacementsGrow, StopsGrow,
           Activates
    PROVE  \A o : ~Due(o)'
  <1>0. /\ TypeOK /\ TypeOK' /\ KnownOK /\ RanksGrow /\ LinksOK /\ Succession
        /\ BeforeFirst /\ CurrentIsLast /\ OriginCurrent /\ StopsAtLast
        /\ DOMAIN recoveries = 1..Len(recoveries) /\ Len(recoveries) \in Nat
    BY Domains DEF IInv, RInv
  <1>1. CASE \E x \in DOMAIN recoveries, n \in Offer : ActivateRejoin(x, n)
    <2>1. PICK x \in DOMAIN recoveries : \E n \in Offer : ActivateRejoin(x, n)
      BY <1>1
    <2>2. PICK n \in Offer : ActivateRejoin(x, n)
      BY <2>1
    <2>3. x = Len(recoveries)
      BY <1>0, <2>2, RejoinsLast
    <2>4. Rooted(recoveries, x)
      BY <2>2 DEF ActivateRejoin, CanRejoin, ChainOK
    <2>5. Root(recoveries, x) \in 1..x
      BY <1>0, <2>4, RootIs
    <2>6. /\ DOMAIN recoveries' = DOMAIN recoveries
          /\ recoveries'[x] = [recoveries[x] EXCEPT !.phase = "rejoined"]
      BY <1>0, <2>2, <2>5 DEF ActivateRejoin
    <2>7. recoveries'[x].phase = "rejoined"
      BY <1>0, <2>6, Domains DEF Recovery
    <2>8. ~Unreplaced'
      <3>1. SUFFICES ASSUME Unreplaced' PROVE FALSE
        OBVIOUS
      <3>2. Len(recoveries') \in DOMAIN recoveries
            /\ recoveries'[Len(recoveries')].phase # "rejoined"
        BY <1>0, <2>6, <3>1, UnreplacedNext
      <3>3. /\ Len(recoveries') = Len(recoveries)
            /\ recoveries'[Len(recoveries)].phase # "rejoined"
        BY <3>1, <3>2, UnreplacedBefore
      <3> QED BY <2>3, <2>7, <3>3
    <2>9. OpenStops' = {}
      <3>1. Accepts("rejoin") /\ UNCHANGED stops
        BY <2>2 DEF ActivateRejoin, CanRejoin
      <3>2. OpenStops = {}
        BY <3>1, OthersFit
      <3> QED BY <3>1, <3>2 DEF OpenStops
    <2> QED BY <2>8, <2>9 DEF Due
  <1>2. CASE \E j \in DOMAIN replacements : ActivateReplacement(j)
    <2>1. PICK j \in DOMAIN replacements : ActivateReplacement(j)
      BY <1>2
    <2>2. ~Unreplaced'
      <3>1. SUFFICES ASSUME Unreplaced' PROVE FALSE
        OBVIOUS
      <3>2. DOMAIN recoveries' = DOMAIN recoveries
        BY <2>1 DEF ActivateReplacement
      <3>3. /\ Len(recoveries') \in DOMAIN recoveries
            /\ \A o : o = recoveries'[Len(recoveries')].offer =>
                  ~Superseded(o)' /\ ~StopRetired(o)'
        BY <1>0, <3>1, <3>2, UnreplacedNext
      <3>4. /\ Unreplaced /\ Len(recoveries') = Len(recoveries)
            /\ recoveries'[Len(recoveries)].offer = recoveries[Len(recoveries)].offer
        BY <3>1, <3>3, UnreplacedBefore
      <3>5. ASSUME NEW o, o = recoveries[Len(recoveries)].offer PROVE FALSE
        <4>1. Superseded(o)' \/ StopRetired(o)'
          BY <1>0, <2>1, <3>4, <3>5, ReplacementTakes
        <4> QED BY <3>3, <3>4, <3>5, <4>1
      <3> QED BY <3>5
    <2>3. OpenStops' = {}
      <3>1. stops' = [k \in DOMAIN stops |-> [stops[k] EXCEPT !.phase = "retired"]]
        BY <2>1 DEF ActivateReplacement
      <3>2. \A k \in DOMAIN stops : stops'[k].phase = "retired"
        BY <1>0, <3>1, Domains DEF Stop
      <3> QED BY <3>1, <3>2 DEF OpenStops
    <2> QED BY <2>2, <2>3 DEF Due
  <1> QED BY <1>1, <1>2 DEF Activates

\* So what is still closed after it can retire nothing more.
LEMMA RejoinFitsAfter ==
    ASSUME IInv, IInv', SInv, SInv', Next, RInv, RInv', EntrySteps, ReplacementsGrow,
           StopsGrow, Covered', Activates, NEW i \in DOMAIN recoveries
    PROVE  Cardinality(Retiring(i)') <= MaxRetired
  <1> DEFINE j == Root(recoveries', i)
  <1>0. /\ TypeOK /\ RecoveriesDistinct /\ LinksOK /\ i \in DOMAIN recoveries'
        /\ TypeOK' /\ EngineFit(engine') /\ ReplacementsOpen' /\ TargetsOK'
        /\ recoveries' \in Seq(Recovery) /\ replacements' \in Seq(Replacement)
        /\ DOMAIN recoveries' = 1..Len(recoveries') /\ Len(recoveries') \in Nat /\ i \in Nat
    BY DEF IInv, SInv, RInv, TypeOK, EntrySteps
  <1>1. Rooted(recoveries', i)
    <2>1. j \in 1..i /\ IsRoot(recoveries, i, j)
      BY <1>0, RootStays
    <2>2. \A k \in 1..i : recoveries'[k].deferred_from = recoveries[k].deferred_from
      <3>1. DOMAIN recoveries = 1..Len(recoveries) /\ Len(recoveries) \in Nat
        BY <1>0, Domains
      <3>2. \A k \in 1..i : k \in DOMAIN recoveries
        BY <1>0, <3>1
      <3> QED BY <3>2, EntriesSame DEF SameEntry
    <2> HIDE DEF j
    <2>3. \A k \in (j + 1)..i : k \in 1..i
      BY <1>0, <2>1
    <2>4. IsRoot(recoveries', i, j)
      BY <2>1, <2>2, <2>3 DEF IsRoot
    <2> QED BY <2>1, <2>4 DEF Rooted
  <1>2. j \in 1..i
    BY <1>0, <1>1, RootIs
  <1>3. ASSUME NEW o \in Offer, Left(o)' PROVE o \in engine'.retired
    BY <1>3, NothingDue DEF Covered, SInv
  <1>4. ToSet(ChainOffers(recoveries', i)) \subseteq engine'.retired
    <2>1. ToSet(ChainOffers(recoveries', i)) = {recoveries'[k].offer : k \in j..i}
      BY <1>0, <1>1, ChainOffersAre
    <2>2. ASSUME NEW k \in j..i PROVE recoveries'[k].offer \in engine'.retired
      <3>1. k \in DOMAIN recoveries'
        BY <1>0, <1>2
      <3>2. ASSUME NEW o, o = recoveries'[k].offer PROVE o \in Offer /\ Left(o)'
        <4>1. recoveries'[k] \in Recovery
          BY <1>0, <3>1
        <4>2. o \in Offer
          BY <3>2, <4>1 DEF Recovery
        <4>3. Left(o)'
          BY <3>1, <3>2 DEF Left, RecoveryOf
        <4> QED BY <4>2, <4>3
      <3> QED BY <1>3, <3>2
    <2> QED BY <2>1, <2>2
  <1>5. ASSUME NEW x \in Deferred(i)' PROVE replacements'[x].previous \in engine'.retired
    <2>1. /\ x \in DOMAIN replacements' /\ recoveries'[j].replacement
          /\ replacements'[x].next = recoveries'[j].offer
      BY <1>5 DEF Deferred, ReplacementOf
    <2>2. j \in DOMAIN recoveries'
      BY <1>0, <1>2
    <2>3. PICK y \in DOMAIN replacements' :
             /\ replacements'[y].next = recoveries'[j].offer
             /\ replacements'[y].phase \in {"recovering", "abandoned", "active"}
      BY <1>0, <2>1, <2>2 DEF TargetsOK
    <2>4. x = y
      BY <1>0, <2>1, <2>3 DEF ReplacementsOpen, ReplacementOf
    <2>5. ASSUME NEW o, o = replacements'[x].previous PROVE o \in Offer /\ Left(o)'
      <3>1. Superseded(o)'
        BY <2>1, <2>3, <2>4, <2>5 DEF Superseded
      <3>2. replacements'[x] \in Replacement
        BY <1>0, <2>1
      <3>3. o \in Offer
        BY <2>5, <3>2 DEF Replacement
      <3>4. Left(o)'
        BY <3>1 DEF Left
      <3> QED BY <3>3, <3>4
    <2> QED BY <1>3, <2>5
  <1>6. Retiring(i)' = engine'.retired
    <2>1. Retiring(i)' = engine'.retired \cup ToSet(ChainOffers(recoveries', i))
                            \cup {replacements'[x].previous : x \in Deferred(i)'}
      BY DEF Retiring
    <2> QED BY <1>4, <1>5, <2>1
  <1> QED BY <1>0, <1>6 DEF EngineFit, EngineOK

LEMMA RejoinFitsStep ==
    ASSUME IInv, IInv', SInv, SInv', Next, RInv, RInv', ClosingOK, EntrySteps,
           ReplacementsGrow, StopsGrow, Covered', RejoinFits
    PROVE  RejoinFits'
  <1>0. TypeOK /\ TypeOK' /\ RecoveriesDistinct /\ LinksOK
    BY DEF IInv, SInv, RInv
  <1> SUFFICES ASSUME NEW i \in DOMAIN recoveries', recoveries'[i].phase = "closed",
                      recoveries'[i].next # NoOffer
               PROVE  Cardinality(Retiring(i)') <= MaxRetired
    BY DEF RejoinFits, Retiring, Deferred, ReplacementOf
  <1>1. i \in DOMAIN recoveries
    BY NewEntryIs
  <1>2. CASE Activates
    BY <1>1, <1>2, RejoinFitsAfter
  <1>3. CASE ~Activates
    <2>1. Retiring(i)' = Retiring(i)
      <3>1. engine'.retired = engine.retired
        BY <1>0, <1>3, EngineStep
      <3> QED BY <1>0, <1>1, <3>1, RetiringSame
    <2>2. CASE \E n \in Offer : EntryPrepares(i, n)
      <3>1. PICK n \in Offer : PrepareRejoin(i, n)
        BY <2>2 DEF EntryPrepares
      <3>2. Cardinality(Retiring(i)) <= MaxRetired
        BY <1>1, <3>1, RetiringCounted
      <3> QED BY <2>1, <3>2
    <2>3. CASE ~\E n \in Offer : EntryPrepares(i, n)
      <3>1. EntryStep(i)
        BY <1>1 DEF EntrySteps
      <3>2. ~EntryCloses(i)
        BY <1>1 DEF EntryCloses, SameNext, ClosingOK
      <3>3. recoveries[i].phase = "closed" /\ recoveries[i].next # NoOffer
        <4>1. ASSUME EntryFails(i) PROVE recoveries[i].phase = "closed"
                                        /\ recoveries[i].next # NoOffer
          BY <4>1 DEF EntryFails, SamePhase
        <4>2. ASSUME EntryCancels(i) PROVE recoveries[i].phase = "closed"
                                          /\ recoveries[i].next # NoOffer
          BY <4>2 DEF EntryCancels, SamePhase, SameNext
        <4>3. ASSUME NEW c \in {"cancelled", "admitted"}, EntryCancelled(i, c)
              PROVE  recoveries[i].phase = "closed" /\ recoveries[i].next # NoOffer
          BY <4>3 DEF EntryCancelled, SamePhase
        <4>4. ~\E x \in DOMAIN recoveries, n \in Offer : EntryRejoins(i, x, n)
          BY DEF EntryRejoins
        <4> QED BY <2>3, <3>1, <3>2, <4>1, <4>2, <4>3, <4>4 DEF EntryStep
      <3>4. Cardinality(Retiring(i)) <= MaxRetired
        BY <1>1, <3>3 DEF RejoinFits
      <3> QED BY <2>1, <3>4
    <2> QED BY <2>2, <2>3
  <1> QED BY <1>2, <1>3

-----------------------------------------------------------------------------
(* The invariant holds.                                                    *)

LEMMA FNextOK ==
    ASSUME IInv, SInv, RInv, FInv, Next, IInv', SInv', RInv'
    PROVE  FInv'
  <1>1. EntrySteps /\ ReplacementsGrow /\ StopsGrow
    <2>1. TypeOK /\ TypeOK' /\ RecoveriesDistinct /\ SuccessorsOK /\ RowsOK /\ ChainsBridged'
      BY DEF IInv, SInv
    <2> QED BY <2>1, EntriesStep, ReplacementsGrowing, StopsGrowing
  <1>2. ClosingOK' /\ PendingFresh'
    BY <1>1, ClosingStep, PendingFreshStep DEF FInv, RInv
  <1>3. FailedOK'
    BY <1>1, FailedStep DEF FInv, RInv
  <1>4. OriginsPlain'
    BY <1>1, OriginsPlainStep DEF FInv, RInv, SInv
  <1>5. Covered'
    BY <1>1, CoveredStep DEF FInv, SInv
  <1>6. PendingFits'
    BY <1>1, PendingFitsStep DEF FInv
  <1>7. RejoinFits'
    BY <1>1, <1>5, RejoinFitsStep DEF FInv
  <1> QED BY <1>2, <1>3, <1>4, <1>5, <1>6, <1>7 DEF FInv

LEMMA FInitOK ==
    ASSUME Init
    PROVE  FInv
  <1>1. /\ DOMAIN recoveries = {} /\ DOMAIN replacements = {} /\ DOMAIN stops = {}
        /\ recoveries = <<>>
    BY DEF Init
  <1>2. ClosingOK /\ PendingFresh /\ FailedOK /\ OriginsPlain /\ PendingFits /\ RejoinFits
    BY <1>1 DEF ClosingOK, PendingFresh, FailedOK, OriginsPlain, PendingFits, RejoinFits,
       OpenStops
  <1>3. Covered
    BY <1>1 DEF Covered, Left, RecoveryOf, Superseded
  <1> QED BY <1>2, <1>3 DEF FInv

\* What is retired, and what will be, is counted when it is prepared.
LEMMA FInvHolds == Spec => []FInv
  <1>1. Init => FInv
    BY FInitOK
  <1>2. IInv /\ IInv' /\ SInv /\ SInv' /\ RInv /\ RInv' /\ FInv /\ [Next]_vars => FInv'
    <2>1. SUFFICES ASSUME IInv, IInv', SInv, SInv', RInv, RInv', FInv, [Next]_vars
                   PROVE  FInv'
      OBVIOUS
    <2>2. CASE Next
      BY <2>1, <2>2, FNextOK
    <2>3. CASE UNCHANGED vars
      <3>1. /\ UNCHANGED <<invitation, recoveries, replacements, stops>>
            /\ UNCHANGED engine
        BY <2>3 DEF vars
      <3>2. ClosingOK' /\ PendingFresh' /\ FailedOK' /\ OriginsPlain'
        BY <2>1, <3>1 DEF FInv, ClosingOK, PendingFresh, RecoveryOf, FailedOK, Failed,
           OriginsPlain, OpenStops
      <3>3. Covered'
        BY <2>1, <3>1 DEF FInv, Covered, Left, RecoveryOf, Superseded, Due, Unreplaced,
           Recovering, Latest, Reserved, Deferred, ReplacementOf, OpenStops
      <3>4. PendingFits'
        BY <2>1, <3>1 DEF FInv, PendingFits, UnderWay, StopOf, Retirements, AllStopOffers
      <3>5. RejoinFits'
        BY <2>1, <3>1 DEF FInv, RejoinFits, Retiring, Deferred, ReplacementOf
      <3> QED BY <3>2, <3>3, <3>4, <3>5 DEF FInv
    <2> QED BY <2>1, <2>2, <2>3
  <1> QED BY <1>1, <1>2, InvariantHolds, SInvHolds, RInvHolds, PTL DEF Spec

\* What is prepared can be carried out: an open replacement or rejoin never runs
\* out of room among the retired groups, whatever was stopped, closed or replaced
\* since the device counted them.
THEOREM RoomIsKept == Spec => []ActivationFits
  <1>1. IInv /\ FInv => ActivationFits
    <2>1. SUFFICES ASSUME IInv, FInv PROVE ActivationFits
      OBVIOUS
    <2>0. TypeOK /\ PendingOK /\ RetirementsAgree /\ PendingFits /\ RejoinFits
      BY <2>1 DEF IInv, FInv
    <2>2. ASSUME NEW r \in ToSet(replacements), UnderWay(r)
          PROVE  /\ StoppedGroupsOK(r)
                 /\ Cardinality(engine.retired \cup {r.previous}
                                \cup ToSet(StoppedGroups(r))) <= MaxRetired
      <3> DEFINE Q == engine.retired \cup {r.previous} \cup ToSet(StoppedGroups(r))
                 R == Retirements({r.previous})
      <3>1. PICK j \in DOMAIN replacements : r = replacements[j]
        BY DEF ToSet
      <3>2. StoppedGroupsOK(r) /\ Cardinality(R) <= MaxRetired
        BY <2>0, <2>2, <3>1 DEF PendingOK, PendingFits
      <3>3. ASSUME NEW o \in engine.retired PROVE o \in R
        <4>1. Fenced(o, replacements, recoveries, stops)
          BY <2>0, AgreeIs
        <4>2. Counted(o, replacements, recoveries, stops)
          BY <4>1 DEF Fenced, Counted
        <4> QED BY <4>2, CountedIs, RetirementsAre
      <3>4. ASSUME NEW o \in ToSet(StoppedGroups(r)) PROVE o \in R
        <4>1. \E k \in OpenStops : o \in ToSet(StopOffers(stops[k]))
          <5>1. r.restart_from # NoOffer
            BY <2>0, StoppedGroupsAre DEF ToSet
          <5> QED BY <2>0, <5>1, StoppedGroupsAre
        <4>2. Counted(o, replacements, recoveries, stops)
          BY <4>1 DEF Counted, OpenStops
        <4> QED BY <4>2, CountedIs, RetirementsAre
      <3>5. Q \subseteq R
        BY <3>3, <3>4 DEF Retirements
      <3>6. IsFiniteSet(R)
        BY <2>0, CountedFinite, FS_Singleton
      <3>7. MaxRetired \in Nat
        BY OfferAssumption
      <3>8. Cardinality(R) \in Nat
        <4> HIDE DEF R
        <4> QED BY <3>6, FS_CardinalityType
      <3>9. Cardinality(Q) \in Nat /\ Cardinality(Q) <= Cardinality(R)
        <4> HIDE DEF R, Q
        <4> QED BY <3>5, <3>6, FS_Subset, FS_CardinalityType
      <3> HIDE DEF R, Q
      <3> QED BY <3>2, <3>7, <3>8, <3>9 DEF Q
    <2> QED BY <2>0, <2>2 DEF ActivationFits, UnderWay, RejoinFits, Retiring
  <1> QED BY <1>1, InvariantHolds, FInvHolds, PTL
=============================================================================
