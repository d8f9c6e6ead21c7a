------------------------- MODULE ConversationState -------------------------
(***************************************************************************)
(* The conversation kept in one device's journal: what the commands of     *)
(* request() do to the invitation, the ledgers of recoveries, replacements *)
(* and stops, the outbox and the MLS group (device-store.ts #apply, and    *)
(* bound.rs for the group), and what #open and restore() demand of a state *)
(* when it is read again.                                                  *)
(*                                                                         *)
(* A command is all or nothing: one that fails leaves only a receipt, so a *)
(* guard here is the condition under which the command succeeds, and a     *)
(* repetition that changes nothing is a stutter.  The journal itself is    *)
(* DeviceJournal; one step here is one persisted state there.              *)
(*                                                                         *)
(* An offer stands for its channel id, its group id and its two endpoints: *)
(* `own` says that this device's present key is one of them, `peer` is the *)
(* generation of the other's key.  Operation ids are one for each target.  *)
(***************************************************************************)
EXTENDS Naturals, Sequences, FiniteSets, SequencesExt

CONSTANTS
    Offer,          \* the offers the two owners may exchange
    NoOffer,
    MaxRetired,     \* 8: retired groups, replacements and stops
    OwnPrevious     \* the device was enrolled as a successor of another

ASSUME OfferAssumption ==
    /\ \A o \in Offer : o.own \in BOOLEAN /\ o.peer \in Nat /\ o.inviter \in BOOLEAN
    /\ NoOffer \notin Offer
    /\ MaxRetired \in Nat
    /\ OwnPrevious \in BOOLEAN

MaxRecoveries == MaxRetired + 1
MaxCancellations == 4 * MaxRetired

VARIABLES
    invitation,     \* the current channel: offer and phase
    recoveries,     \* closed channels and their successors, oldest first
    replacements,   \* successors with a replaced device, oldest first
    stops,          \* stopped replacements, oldest first
    outbox,         \* queued wires: channel and kind
    engine,         \* the MLS group and its fences
    trusted,        \* generation of the peer's key that is accepted
    rows            \* the service: predecessor and verdict of each channel

vars == <<invitation, recoveries, replacements, stops, outbox, engine, trusted,
          rows>>

Optional == Offer \cup {NoOffer}
Invitation == [offer : Optional,
               phase : {"none", "prepared", "invited", "joined", "active",
                        "recovery_required"},
               accepted : BOOLEAN]     \* its key package was delivered
NoInvitation == [offer |-> NoOffer, phase |-> "none", accepted |-> FALSE]
Cancellation == [next : Offer, outcome : {"pending", "cancelled", "admitted"}]
Recovery == [offer : Offer,
             phase : {"closing", "closed", "rejoined"}, next : Optional,
             replacement : BOOLEAN, deferred_from : Optional,
             successor_failed : BOOLEAN, cancellations : Seq(Cancellation)]
Replacement == [previous : Offer, next : Offer,
                phase : {"prepared", "consented", "active", "cancelling",
                         "cancelled", "recovery_required", "recovering",
                         "abandoned"},
                cancellation : {"none", "pending", "cancelled", "admitted"},
                confirmed : BOOLEAN, restart_from : Optional]
Stop == [previous : Offer, next : Offer,
         phase : {"stopping", "stopped", "retired"},
         native : BOOLEAN, chain : Seq(Offer)]
Wire == [channel : Offer,
         kind : {"key_package", "commit", "welcome", "application"}]
\* The group, its members, the retired groups, the only group that may come
\* next, and the attested predecessor of this device's key.
Engine == [group : Optional, members : 0..2, retired : SUBSET Offer,
           next : Optional, predecessor : Optional \X Optional]
\* A channel of the service: `admitted` once both owners consented to it,
\* `cancelled` once a veto came first.
Row == [parent : Optional, verdict : {"unpublished", "waiting", "admitted", "cancelled"}]

TypeOK ==
    /\ invitation \in Invitation
    /\ recoveries \in Seq(Recovery)
    /\ replacements \in Seq(Replacement)
    /\ stops \in Seq(Stop)
    /\ outbox \subseteq Wire
    /\ engine \in Engine
    /\ trusted \in Nat
    /\ rows \in [Offer -> Row]

NoPredecessor == <<NoOffer, NoOffer>>

Init ==
    /\ invitation = NoInvitation
    /\ recoveries = <<>>
    /\ replacements = <<>>
    /\ stops = <<>>
    /\ outbox = {}
    /\ engine = [group |-> NoOffer, members |-> 0, retired |-> {},
                 next |-> NoOffer, predecessor |-> NoPredecessor]
    /\ trusted = 1
    /\ rows = [o \in Offer |-> [parent |-> NoOffer, verdict |-> "unpublished"]]

-----------------------------------------------------------------------------
(* Offers.                                                                 *)

\* #successor: another channel and group for the same two endpoints.
IsSuccessor(previous, next) ==
    previous # next /\ previous.own = next.own /\ previous.peer = next.peer

\* replacement(): exactly one of the endpoints stays.
IsReplacement(previous, next) ==
    previous # next /\ (previous.own = next.own) # (previous.peer = next.peer)

\* This device is the endpoint that stays, or the one that is new.
IsStable(previous, next) == previous.own /\ next.own
IsCurrent(previous, next) == ~previous.own /\ next.own

-----------------------------------------------------------------------------
(* The MLS group and its fences (bound.rs).                                *)

\* outgoing_context: both keys of the route are the present ones.
ContextIs(o) == o.own /\ o.peer = trusted

\* check_roster: no member's key has been replaced.
RosterOK(e) == e.members = 2 => e.group.peer = trusted

CheckNewGroup(e, g) ==
    /\ e.predecessor = NoPredecessor
    /\ g \notin e.retired
    /\ e.next \in {NoOffer, g}

CheckBootstrap(e, g) ==
    /\ CheckNewGroup(e, g)
    /\ ContextIs(g)
    /\ e.group # NoOffer => e.group = g /\ RosterOK(e)

CheckDelivery(e, g) ==
    e.group = g /\ e.members = 2 /\ ContextIs(g)

CheckReplacementOrigin(e, previous) ==
    /\ e.next # NoOffer => e.group # NoOffer /\ e.next = previous
    /\ previous \notin e.retired
    /\ e.predecessor # NoPredecessor => e.predecessor[1] = previous
    /\ e.group # NoOffer => e.group = previous /\ e.members = 2

CheckActivatedOrigin(e, previous, failed) ==
    /\ previous # failed
    /\ previous \in e.retired
    /\ failed \notin e.retired
    /\ e.next = failed
    /\ e.predecessor = NoPredecessor
    /\ failed.peer # trusted
    /\ e.members = 2 => failed.peer < trusted
    /\ e.group \in {NoOffer, failed}

\* Mutant: the group that gives way is not fenced.
RetiredUnfenced(e, previous, next) ==
    [group |-> NoOffer, members |-> 0, retired |-> e.retired,
     next |-> next, predecessor |-> NoPredecessor]

\* What every retirement leaves behind.
Retired(e, previous, next) ==
    [group |-> NoOffer, members |-> 0, retired |-> e.retired \cup {previous},
     next |-> next, predecessor |-> NoPredecessor]

CanRestart(e, previous, next) ==
    /\ previous # next
    /\ Cardinality(e.retired) < MaxRetired
    /\ previous \notin e.retired /\ next \notin e.retired
    /\ IF e.group # NoOffer THEN e.group = previous /\ RosterOK(e)
       ELSE e.next \in {NoOffer, previous}

\* keys: the endpoints of the pair that is replaced, and of the new route.
CanReplace(e, previous, next) ==
    /\ previous # next
    /\ Cardinality(e.retired) < MaxRetired
    /\ previous \notin e.retired /\ next \notin e.retired
    /\ IF e.group # NoOffer
       THEN /\ previous.own /\ previous.peer < trusted
            /\ e.group = previous /\ e.members = 2
       ELSE /\ ~previous.own /\ previous.peer = trusted
            /\ e.predecessor = <<previous, next>> \/ OwnPrevious
            /\ e.next = NoOffer

CanRestartActivated(e, previous, failed, next) ==
    /\ CheckActivatedOrigin(e, previous, failed)
    /\ next # failed
    /\ Cardinality(e.retired) < MaxRetired
    /\ next \notin e.retired

\* restore(): the group history of a checkpoint.
EngineOK(e) ==
    /\ Cardinality(e.retired) <= MaxRetired
    /\ e.next \notin e.retired
    /\ e.group \notin e.retired
    /\ e.group # NoOffer => e.next \in {NoOffer, e.group}
    /\ e.predecessor # NoPredecessor =>
          /\ e.predecessor[1] # e.predecessor[2]
          /\ e.predecessor[1] \notin e.retired
          /\ e.predecessor[2] \notin e.retired
          /\ e.next = NoOffer /\ e.group = NoOffer

\* A sequence of restarts: gs[1] gives way to gs[2], that to gs[3], and so on.
CanRestartAll(e, gs) ==
    Len(gs) > 1 =>
        /\ CanRestart(e, gs[1], gs[2])
        /\ Cardinality(e.retired) + Len(gs) - 1 <= MaxRetired
        /\ IsInjective(gs)
        /\ ToSet(gs) \cap e.retired = {}
RestartedAll(e, gs) ==
    IF Len(gs) > 1
    THEN [Retired(e, gs[1], Last(gs)) EXCEPT
            !.retired = e.retired \cup ToSet(Front(gs))]
    ELSE e

-----------------------------------------------------------------------------
(* The ledgers.                                                            *)

Latest(seq, Test(_)) == seq # <<>> /\ Test(Last(seq))

\* find(): the entry of a target, by the channel id of `next` or of `offer`.
RecoveryOf(o) == {i \in DOMAIN recoveries : recoveries[i].offer = o}
ReplacementOf(n) == {i \in DOMAIN replacements : replacements[i].next = n}
StopOf(n) == {i \in DOMAIN stops : stops[i].next = n}

\* rejoinChain(): from the root to entry i; the links between must be whole.
IsRoot(rs, i, j) ==
    /\ rs[j].deferred_from = NoOffer
    /\ \A k \in (j + 1)..i : rs[k].deferred_from # NoOffer
Root(rs, i) == CHOOSE j \in 1..i : IsRoot(rs, i, j)
Rooted(rs, i) == \E j \in 1..i : IsRoot(rs, i, j)
ChainOK(rs, i) ==
    /\ Len(rs) <= MaxRecoveries
    /\ Rooted(rs, i)
    /\ \A k \in (Root(rs, i) + 1)..i :
          /\ rs[k - 1].offer = rs[k].deferred_from
          /\ rs[k - 1].successor_failed
          /\ rs[k - 1].next = rs[k].offer
          /\ rs[k - 1].phase \in {"closed", "rejoined"}
          /\ (rs[k - 1].phase = "rejoined") = (rs[k].phase = "rejoined")
ChainOffers(rs, i) ==
    [k \in 1..(i - Root(rs, i) + 1) |-> rs[Root(rs, i) + k - 1].offer]

\* replacementStopRecoveries(): the chain of closed recoveries a stop bridges
\* is still exactly the one it was linked to.  (Their reason is always
\* cancel_invitation: no other command makes such a chain.)
BridgeOK(previous, next, chain, rs, reps) ==
    /\ chain # <<>>
    /\ Len(chain) <= MaxRecoveries
    /\ \E i \in DOMAIN rs :
          /\ rs[i].offer = Last(chain)
          /\ ChainOK(rs, i)
          /\ ChainOffers(rs, i) = chain
          /\ rs[Root(rs, i)].replacement
          /\ rs[Root(rs, i)].offer = next
          /\ \E r \in ToSet(reps) :
                r.phase = "abandoned" /\ r.previous = previous /\ r.next = next
          /\ IsInjective(chain)
          /\ rs[i].next = NoOffer /\ ~rs[i].successor_failed
          /\ \A k \in Root(rs, i)..i :
                /\ rs[k].phase = "closed"
                /\ k > Root(rs, i) => ~rs[k].replacement
                /\ rs[k].offer.own = next.own /\ rs[k].offer.peer = next.peer
                /\ rs[k].offer # previous
                /\ \A c \in ToSet(rs[k].cancellations) :
                      \/ c.outcome = "cancelled"
                      \/ /\ c.outcome = "admitted"
                         /\ k < i /\ c.next = rs[k + 1].offer
Bridged(s, rs, reps) == BridgeOK(s.previous, s.next, s.chain, rs, reps)

\* recoveryReplaced(): a replacement or a retired stop has taken its place.
RecoveryReplaced(r, rs, reps, ss) ==
    \/ \E p \in ToSet(reps) :
          /\ p.phase \in {"active", "recovering", "abandoned"}
          /\ p.previous = r.offer
    \/ \E s \in ToSet(ss) :
          /\ s.phase = "retired"
          /\ Bridged(s, rs, reps)
          /\ r.offer \in ToSet(s.chain)

\* #stopOffers: the targets a stop fences, oldest first.
StopOffers(s) == IF s.chain = <<>> THEN <<s.next>> ELSE s.chain
AllStopOffers == UNION {ToSet(StopOffers(s)) : s \in ToSet(stops)}

\* #retirementCount: groups that are retired, or reserved for retirement.
Retirements(extra) ==
    {r.previous : r \in {x \in ToSet(replacements) : x.phase = "active"}}
    \cup {r.offer : r \in {x \in ToSet(recoveries) : x.phase = "rejoined"}}
    \cup AllStopOffers
    \cup extra

\* The stops that hold the conversation, by their place in the ledger.
OpenStops == {k \in DOMAIN stops : stops[k].phase # "retired"}
LastOpen == CHOOSE k \in OpenStops : \A j \in OpenStops : j <= k
\* They are confirmed, and all of them stopped a replacement of p.
StoppedFrom(p) ==
    \A k \in OpenStops : stops[k].phase = "stopped" /\ stops[k].previous = p

\* #stoppedOrigin: the offers whose replacement was stopped where the
\* invitation now stands.
StoppedOrigins ==
    {stops[k].previous : k \in {j \in OpenStops :
        \/ stops[j].native /\ stops[j].next = invitation.offer
        \/ /\ invitation.phase = "recovery_required"
           /\ Bridged(stops[j], recoveries, replacements)
           /\ Last(stops[j].chain) = invitation.offer}}

\* #recoveryStop: the recovery is part of a stop's chain.
RecoveryStopped(o) ==
    \E s \in ToSet(stops) :
        Bridged(s, recoveries, replacements) /\ o \in ToSet(s.chain)

\* #stoppedGroups: the targets between the previous group and the new one.
StoppedGroupsOK(r) ==
    r.restart_from # NoOffer =>
        /\ OpenStops # {}
        /\ stops[LastOpen].next = r.restart_from
        /\ StoppedFrom(r.previous)
StoppedGroups(r) ==
    IF r.restart_from = NoOffer THEN <<>>
    ELSE FlattenSeq([k \in DOMAIN stops |->
            IF k \in OpenStops THEN StopOffers(stops[k]) ELSE <<>>])

-----------------------------------------------------------------------------
(* Which commands a frozen conversation still accepts.                     *)

\* The last recovery holds the conversation: nothing has taken its place.
Recovering ==
    Latest(recoveries, LAMBDA r :
        ~RecoveryReplaced(r, recoveries, replacements, stops))
Unreplaced == Latest(recoveries, LAMBDA r : r.phase # "rejoined") /\ Recovering
Replacing ==
    Latest(replacements, LAMBDA r : r.phase \notin {"active", "abandoned"})
Failed == invitation.phase = "recovery_required"

\* The four tests at the head of #apply, by class of commands.
Accepts(class) ==
    /\ OpenStops # {} =>
          class \in {"stop", "trust", "replacement", "attest"}
    /\ Unreplaced => class # "message"
    /\ Replacing =>
          class \in {"replacement", "attest", "failure", "stop", "close", "trust"}
    /\ Failed /\ StoppedOrigins = {} =>
          class \in {"stop", "close", "attest", "rejoin", "mark", "trust"}

\* #unfrozen: the outboxes release nothing otherwise.
Unfrozen ==
    /\ OpenStops = {}
    /\ ~Failed
    /\ ~Unreplaced
    /\ ~Replacing

-----------------------------------------------------------------------------
(* Helpers of the commands.                                                *)

IsCommit(w) == w.kind = "commit"
Queue(o, kinds) == {[channel |-> o, kind |-> k] : k \in kinds}

\* The invitation every activation leaves: the joining side queues the key
\* package, and nothing older stays in the outbox.
Fresh(o) == [offer |-> o, phase |-> "prepared", accepted |-> FALSE]

\* Mutant: wires of the channel before stay queued.
FreshOutboxKept(o) ==
    outbox \cup IF o.inviter THEN {} ELSE Queue(o, {"key_package"})

FreshOutbox(o) == IF o.inviter THEN {} ELSE Queue(o, {"key_package"})

\* Mutant: stopped targets are not counted.
CountUnreserved(extra) == Cardinality(engine.retired \cup extra) <= MaxRetired

\* #retirementCount <= 8; a stop whose chain is broken is an error.
CountOK(extra) ==
    /\ \A s \in ToSet(stops) :
          s.chain # <<>> => Bridged(s, recoveries, replacements)
    /\ Cardinality(Retirements(extra)) <= MaxRetired

\* Targets whose cancellation is final.
VetoedRejoins ==
    {c.next : c \in {x \in UNION {ToSet(r.cancellations) : r \in ToSet(recoveries)} :
                        x.outcome = "cancelled"}}
VetoedReplacements ==
    {r.next : r \in {x \in ToSet(replacements) : x.phase = "cancelled"}}

\* replacementRecoveryLink: the chain of the last recovery, when it is whole.
Link(previous, next) ==
    IF /\ recoveries # <<>>
       /\ ChainOK(recoveries, Len(recoveries))
       /\ BridgeOK(previous, next, ChainOffers(recoveries, Len(recoveries)),
                   recoveries, replacements)
    THEN ChainOffers(recoveries, Len(recoveries))
    ELSE <<>>

CancelPending(r) ==
    r.cancellations # <<>> /\ Last(r.cancellations).outcome = "pending"

\* What the service answers on a successor n of p: one predecessor for each
\* channel, and a verdict that never changes.  Consents come from both owners
\* and are not told apart here.
Answers(p, n, verdict) ==
    /\ rows[n].verdict # "unpublished" => rows[n].parent = p
    /\ rows[n].verdict \in {"unpublished", "waiting", verdict}
    /\ rows' = [rows EXCEPT ![n] = [parent |-> p, verdict |-> verdict]]
\* The channel is published and not cancelled.
Published(p, n) == \E verdict \in {"waiting", "admitted"} : Answers(p, n, verdict)

-----------------------------------------------------------------------------
(* Invitation and chat.                                                    *)

\* prepare_invitation.
PrepareInvitation(o) ==
    /\ invitation = NoInvitation
    /\ Accepts("message")
    /\ CheckBootstrap(engine, o)
    /\ engine.group = NoOffer
    /\ outbox = {}
    /\ invitation' = Fresh(o)
    /\ outbox' = FreshOutbox(o)
    /\ Published(NoOffer, o)
    /\ UNCHANGED <<recoveries, replacements, stops, engine, trusted>>

\* invite_from_delivery: the key package of the other side has arrived.
InviteFromDelivery ==
    /\ invitation.phase = "prepared"
    /\ Accepts("message")
    /\ invitation.offer.inviter
    /\ CheckBootstrap(engine, invitation.offer)
    /\ engine.group = NoOffer
    /\ ~\E w \in outbox : IsCommit(w)
    /\ engine' = [engine EXCEPT !.group = invitation.offer, !.members = 1]
    /\ outbox' = outbox \cup Queue(invitation.offer, {"commit", "welcome"})
    /\ invitation' = [invitation EXCEPT !.phase = "invited"]
    /\ UNCHANGED <<recoveries, replacements, stops, trusted, rows>>

\* join_from_delivery: the welcome has arrived.
JoinFromDelivery ==
    /\ invitation.phase = "prepared"
    /\ Accepts("message")
    /\ ~invitation.offer.inviter
    /\ invitation.accepted
    /\ CheckBootstrap(engine, invitation.offer)
    /\ engine.group = NoOffer
    /\ engine' = [engine EXCEPT !.group = invitation.offer, !.members = 2]
    /\ invitation' = [invitation EXCEPT !.phase = "joined"]
    /\ UNCHANGED <<recoveries, replacements, stops, outbox, trusted, rows>>

\* accept_delivery: the server has taken a wire; a commit is merged with it,
\* and only then is the welcome released.
AcceptDelivery(w) ==
    /\ Accepts("message")
    /\ w \in outbox
    /\ w.channel.peer = trusted
    /\ w.kind = "welcome" => ~\E v \in outbox : IsCommit(v)
    /\ outbox' = outbox \ {w}
    /\ engine' = IF IsCommit(w) THEN [engine EXCEPT !.members = 2] ELSE engine
    /\ invitation' = IF w.kind = "key_package" /\ invitation.offer = w.channel
                     THEN [invitation EXCEPT !.accepted = TRUE] ELSE invitation
    /\ UNCHANGED <<recoveries, replacements, stops, trusted, rows>>

\* complete_invitation.
CompleteInvitation ==
    /\ Accepts("message")
    /\ invitation # NoInvitation
    /\ CheckDelivery(engine, invitation.offer)
    /\ \A w \in outbox : w.kind = "application"
    /\ invitation' = [invitation EXCEPT !.phase = "active"]
    /\ UNCHANGED <<recoveries, replacements, stops, outbox, engine, trusted, rows>>

\* send_chat.
SendChat ==
    /\ invitation.phase = "active"
    /\ Accepts("message")
    /\ CheckDelivery(engine, invitation.offer)
    /\ outbox' = outbox \cup Queue(invitation.offer, {"application"})
    /\ UNCHANGED <<invitation, recoveries, replacements, stops, engine, trusted, rows>>

\* mark_invitation_failed.
MarkInvitationFailed ==
    /\ Accepts("mark")
    /\ invitation # NoInvitation
    /\ invitation' = [invitation EXCEPT !.phase = "recovery_required"]
    /\ UNCHANGED <<recoveries, replacements, stops, outbox, engine, trusted, rows>>

\* approve_peer: the owner accepts the peer's next key.
ApprovePeer ==
    /\ \E o \in Offer : o.peer > trusted
    /\ trusted' = trusted + 1
    /\ UNCHANGED <<invitation, recoveries, replacements, stops, outbox, engine, rows>>

-----------------------------------------------------------------------------
(* Closing a channel and rejoining in a fresh one.                         *)

Closing(o, replacement, from) ==
    [offer |-> o, phase |-> "closing", next |-> NoOffer,
     replacement |-> replacement, deferred_from |-> from,
     successor_failed |-> FALSE, cancellations |-> <<>>]

\* begin_close.
BeginClose ==
    /\ invitation # NoInvitation
    /\ RecoveryOf(invitation.offer) = {}
    /\ Accepts("close")
    /\ Len(recoveries) < MaxRecoveries
    /\ recoveries' = Append(recoveries,
                            Closing(invitation.offer, FALSE, NoOffer))
    /\ UNCHANGED <<invitation, replacements, stops, outbox, engine, trusted, rows>>

\* complete_close: the server has confirmed the close.
CompleteClose(i) ==
    /\ recoveries[i].phase = "closing"
    /\ Accepts("close")
    /\ recoveries' = [recoveries EXCEPT ![i].phase = "closed"]
    /\ replacements' = [j \in DOMAIN replacements |->
          IF /\ recoveries[i].replacement
             /\ replacements[j].next = recoveries[i].offer
             /\ replacements[j].phase = "recovering"
          THEN [replacements[j] EXCEPT !.phase = "abandoned"]
          ELSE replacements[j]]
    /\ UNCHANGED <<invitation, stops, outbox, engine, trusted, rows>>

\* What prepare_rejoin and activate_rejoin demand alike.
Deferred(i) ==
    {j \in ReplacementOf(recoveries[Root(recoveries, i)].offer) :
        recoveries[Root(recoveries, i)].replacement}
CanRejoin(i, n) ==
    /\ recoveries[i].phase = "closed"
    /\ IsSuccessor(recoveries[i].offer, n)
    /\ Accepts("rejoin")
    /\ ~RecoveryStopped(recoveries[i].offer)
    /\ ~CancelPending(recoveries[i])
    /\ ChainOK(recoveries, i)
    /\ CountOK(ToSet(ChainOffers(recoveries, i)) \cup
               {replacements[j].previous :
                    j \in {k \in Deferred(i) : replacements[k].phase = "abandoned"}})
    /\ RecoveryOf(n) = {}
    /\ n \notin VetoedRejoins \cup VetoedReplacements
    /\ \A r \in ToSet(replacements) : r.previous # n
    /\ recoveries[i].next \in {NoOffer, n}
    /\ ~recoveries[i].successor_failed

\* prepare_rejoin.
PrepareRejoin(i, n) ==
    /\ CanRejoin(i, n)
    /\ recoveries' = [recoveries EXCEPT ![i].next = n]
    /\ UNCHANGED <<invitation, replacements, stops, outbox, engine, trusted, rows>>

\* activate_rejoin: every group of the chain is retired in one step, and the
\* group of an abandoned replacement before them.
ActivateRejoin(i, n) ==
    LET groups == Append(ChainOffers(recoveries, i), n)
        roots == Root(recoveries, i)..i
        Reached(e) ==
            /\ ContextIs(n)
            /\ CanRestartAll(e, groups)
            /\ engine' = RestartedAll(e, groups)
    IN
    /\ CanRejoin(i, n)
    /\ recoveries[i].next = n
    /\ \A k \in roots : recoveries[k].phase = "closed"
    /\ IF Deferred(i) = {} THEN Reached(engine)
       ELSE \A j \in Deferred(i) :
              /\ replacements[j].phase = "abandoned"
              /\ CanReplace(engine, replacements[j].previous, groups[1])
              /\ Reached(Retired(engine, replacements[j].previous, groups[1]))
    /\ replacements' = [j \in DOMAIN replacements |->
          IF j \in Deferred(i) THEN [replacements[j] EXCEPT !.phase = "active"]
          ELSE replacements[j]]
    /\ recoveries' = [k \in DOMAIN recoveries |->
          IF k \in roots THEN [recoveries[k] EXCEPT !.phase = "rejoined"]
          ELSE recoveries[k]]
    /\ invitation' = Fresh(n)
    /\ outbox' = FreshOutbox(n)
    /\ Answers(recoveries[i].offer, n, "admitted")
    /\ UNCHANGED <<stops, trusted>>

\* mark_rejoin_failed and begin_rejoin_recovery.
CanFailRejoin(i) ==
    /\ recoveries[i].phase = "closed"
    /\ Accepts("rejoin")
    /\ i = Len(recoveries)
    /\ ~RecoveryStopped(recoveries[i].offer)
    /\ ~CancelPending(recoveries[i])
    /\ recoveries[i].next # NoOffer
    /\ RecoveryOf(recoveries[i].next) = {}

MarkRejoinFailed(i) ==
    /\ CanFailRejoin(i)
    /\ recoveries' = [recoveries EXCEPT ![i].successor_failed = TRUE]
    /\ Published(recoveries[i].offer, recoveries[i].next)
    /\ UNCHANGED <<invitation, replacements, stops, outbox, engine, trusted>>

BeginRejoinRecovery(i) ==
    /\ CanFailRejoin(i)
    /\ Len(recoveries) < MaxRecoveries
    /\ recoveries' = Append([recoveries EXCEPT ![i].successor_failed = TRUE],
            Closing(recoveries[i].next, FALSE, recoveries[i].offer))
    /\ invitation' = [Fresh(recoveries[i].next) EXCEPT !.phase = "recovery_required"]
    /\ Published(recoveries[i].offer, recoveries[i].next)
    /\ UNCHANGED <<replacements, stops, outbox, engine, trusted>>

\* begin_cancel_rejoin and finish_cancel_rejoin.
CanCancelRejoin(i) ==
    /\ recoveries[i].phase = "closed"
    /\ Accepts("rejoin")
    /\ i = Len(recoveries)
    /\ ~RecoveryStopped(recoveries[i].offer)
    /\ recoveries[i].next # NoOffer

BeginCancelRejoin(i) ==
    /\ CanCancelRejoin(i)
    /\ \A c \in ToSet(recoveries[i].cancellations) : c.next # recoveries[i].next
    /\ Len(FlattenSeq([k \in DOMAIN recoveries |-> recoveries[k].cancellations]))
          < MaxCancellations
    /\ recoveries' = [recoveries EXCEPT ![i].cancellations =
            Append(@, [next |-> recoveries[i].next, outcome |-> "pending"])]
    /\ UNCHANGED <<invitation, replacements, stops, outbox, engine, trusted, rows>>

FinishCancelRejoin(i, outcome) ==
    /\ CanCancelRejoin(i)
    /\ CancelPending(recoveries[i])
    /\ recoveries' = [recoveries EXCEPT
            ![i].cancellations[Len(recoveries[i].cancellations)].outcome = outcome,
            ![i].next = IF outcome = "cancelled" THEN NoOffer ELSE @,
            ![i].successor_failed = IF outcome = "cancelled" THEN FALSE ELSE @]
    /\ Answers(recoveries[i].offer, recoveries[i].next, outcome)
    /\ UNCHANGED <<invitation, replacements, stops, outbox, engine, trusted>>

-----------------------------------------------------------------------------
(* Replacing a device.                                                     *)

\* prepare_replacement.
PrepareReplacement(p, n) ==
    /\ IsReplacement(p, n)
    /\ ReplacementOf(n) = {} /\ StopOf(n) = {}
    /\ Accepts("replacement")
    /\ StoppedFrom(p)
    /\ replacements # <<>> =>
          LET latest == Last(replacements)
          IN  \/ latest.phase = "active"
              \/ /\ latest.phase = "abandoned"
                 /\ \E k \in OpenStops : stops[k].next = latest.next
              \/ latest.phase = "cancelled" /\ latest.previous = p
    /\ Len(replacements) < MaxRetired
    /\ CountOK({p})
    /\ RecoveryOf(n) = {}
    /\ n \notin VetoedRejoins
    /\ \A r \in ToSet(replacements) : r.previous # n
    /\ \A r \in ToSet(recoveries) : r.offer = p => r.next = NoOffer
    /\ IF invitation = NoInvitation THEN outbox = {}
       ELSE \/ p \in StoppedOrigins
            \/ invitation.offer = p /\ invitation.phase = "active"
    /\ ContextIs(n)
    /\ invitation = NoInvitation /\ OpenStops = {} => CheckBootstrap(engine, n)
    /\ replacements' = Append(replacements,
            [previous |-> p, next |-> n, phase |-> "prepared",
             cancellation |-> "none", confirmed |-> FALSE,
             restart_from |-> IF OpenStops = {} THEN NoOffer
                              ELSE stops[LastOpen].next])
    /\ UNCHANGED <<invitation, recoveries, stops, outbox, engine, trusted, rows>>

\* A command on a replacement that is prepared and not stopped.
Pending(i, phases) ==
    /\ replacements[i].phase \in phases
    /\ StopOf(replacements[i].next) = {}
    /\ i = CHOOSE j \in ReplacementOf(replacements[i].next) : TRUE
FirstGroup(r) == Append(StoppedGroups(r), r.next)[1]

\* attest_replacement_predecessor: the retired key of this device.
AttestPredecessor(i) ==
    LET r == replacements[i]
    IN
    /\ Pending(i, {"prepared", "consented"})
    /\ Accepts("attest")
    /\ IsCurrent(r.previous, r.next)
    /\ ~r.confirmed
    /\ StoppedGroupsOK(r)
    /\ engine.group = NoOffer /\ engine.next = NoOffer
    /\ {r.previous, FirstGroup(r)} \cap engine.retired = {}
    /\ engine' = [engine EXCEPT !.predecessor = <<r.previous, FirstGroup(r)>>]
    /\ replacements' = [replacements EXCEPT ![i].confirmed = TRUE]
    /\ UNCHANGED <<invitation, recoveries, stops, outbox, trusted, rows>>

\* consent_replacement.
Consent(i) ==
    /\ Pending(i, {"prepared"})
    /\ Accepts("replacement")
    /\ replacements' = [replacements EXCEPT ![i].phase = "consented"]
    /\ Published(replacements[i].previous, replacements[i].next)
    /\ UNCHANGED <<invitation, recoveries, stops, outbox, engine, trusted>>

\* activate_replacement: the replaced group and every stopped target after it
\* are retired in one step.
ActivateReplacement(i) ==
    LET r == replacements[i]
        groups == Append(StoppedGroups(r), r.next)
        native == {k \in OpenStops : stops[k].native}
        Reached(e, gs) ==
            CanRestartAll(e, gs) /\ engine' = RestartedAll(e, gs)
    IN
    /\ Pending(i, {"consented"})
    /\ Accepts("replacement")
    /\ StoppedGroupsOK(r)
    /\ ContextIs(r.next)
    /\ IF native # {}
       THEN /\ \E k \in native :
                  stops[k].next = groups[1] /\ \A j \in native : k <= j
            /\ Len(groups) > 1
            /\ groups[1].own
            /\ CanRestartActivated(engine, r.previous, groups[1], groups[2])
            /\ Reached(Retired(engine, groups[1], groups[2]), Tail(groups))
       ELSE /\ CanReplace(engine, r.previous, groups[1])
            /\ Reached(Retired(engine, r.previous, groups[1]), groups)
    /\ stops' = [k \in DOMAIN stops |-> [stops[k] EXCEPT !.phase = "retired"]]
    /\ replacements' = [replacements EXCEPT ![i].phase = "active"]
    /\ invitation' = Fresh(r.next)
    /\ outbox' = FreshOutbox(r.next)
    /\ Answers(r.previous, r.next, "admitted")
    /\ UNCHANGED <<recoveries, trusted>>

\* begin_cancel_replacement.
BeginCancelReplacement(i) ==
    /\ Pending(i, {"prepared", "consented"})
    /\ Accepts("replacement")
    /\ replacements' = [replacements EXCEPT ![i].phase = "cancelling",
                                            ![i].cancellation = "pending"]
    /\ UNCHANGED <<invitation, recoveries, stops, outbox, engine, trusted, rows>>

\* The veto is witnessed: the attested predecessor is forgotten.
Cancelled(i, outcome) ==
    LET r == replacements[i]
    IN
    /\ r.confirmed =>
          /\ StoppedGroupsOK(r)
          /\ engine.group = NoOffer /\ engine.next = NoOffer
          /\ engine.predecessor \in {NoPredecessor, <<r.previous, FirstGroup(r)>>}
    /\ engine' = IF r.confirmed THEN [engine EXCEPT !.predecessor = NoPredecessor]
                 ELSE engine
    /\ replacements' = [replacements EXCEPT ![i].phase = "cancelled",
                                            ![i].cancellation = outcome]
    /\ outbox' = {}
    /\ UNCHANGED <<invitation, recoveries, stops, trusted>>

\* finish_cancel_replacement.
FinishCancelReplacement(i, outcome) ==
    /\ Pending(i, {"cancelling"})
    /\ Accepts("replacement")
    /\ Answers(replacements[i].previous, replacements[i].next, outcome)
    /\ \/ outcome = "cancelled" /\ Cancelled(i, outcome)
       \/ /\ outcome = "admitted"
          /\ replacements' = [replacements EXCEPT ![i].phase = "consented",
                                                  ![i].cancellation = outcome]
          /\ UNCHANGED <<invitation, recoveries, stops, outbox, engine, trusted>>

\* observe_replacement_cancelled: the other side cancelled.
ObserveReplacementCancelled(i) ==
    /\ Pending(i, {"prepared", "consented"})
    /\ Accepts("replacement")
    /\ Answers(replacements[i].previous, replacements[i].next, "cancelled")
    /\ Cancelled(i, replacements[i].cancellation)

\* mark_replacement_failed.
MarkReplacementFailed(i) ==
    /\ replacements[i].phase \in {"prepared", "consented"}
    /\ Accepts("failure")
    /\ replacements' = [replacements EXCEPT ![i].phase = "recovery_required"]
    /\ Answers(replacements[i].previous, replacements[i].next, "admitted")
    /\ UNCHANGED <<invitation, recoveries, stops, outbox, engine, trusted>>

\* begin_replacement_recovery: the admitted target is closed instead.
BeginReplacementRecovery(i) ==
    /\ replacements[i].phase \in {"prepared", "consented", "recovery_required"}
    /\ Accepts("failure")
    /\ Len(recoveries) < MaxRecoveries
    /\ RecoveryOf(replacements[i].next) = {}
    /\ replacements' = [replacements EXCEPT ![i].phase = "recovering"]
    /\ recoveries' = Append(recoveries,
                            Closing(replacements[i].next, TRUE, NoOffer))
    /\ invitation' = [Fresh(replacements[i].next) EXCEPT !.phase = "recovery_required"]
    /\ Answers(replacements[i].previous, replacements[i].next, "admitted")
    /\ UNCHANGED <<stops, outbox, engine, trusted>>

-----------------------------------------------------------------------------
(* Stopping a replacement that the server has admitted.                    *)

\* begin_stop_replacement.
BeginStop(p, n) ==
    LET activated == \E r \in ToSet(replacements) :
                        r.phase = "active" /\ r.previous = p /\ r.next = n
        inherited == {k \in OpenStops : stops[k].native /\ stops[k].previous = p}
        chain == Link(p, n)
        retained == p \in StoppedOrigins
    IN
    /\ IsReplacement(p, n)
    /\ StopOf(n) = {}
    /\ Accepts("stop")
    /\ activated => IsStable(p, n) /\ invitation # NoInvitation
    /\ CASE inherited # {} ->
              \A k \in inherited :
                 stops[k].next.own /\ CheckActivatedOrigin(engine, p, stops[k].next)
         [] inherited = {} /\ activated -> CheckActivatedOrigin(engine, p, n)
         [] OTHER -> CheckReplacementOrigin(engine, p)
    /\ Len(stops) < MaxRetired
    /\ StoppedFrom(p)
    /\ n \notin AllStopOffers \cup {s.previous : s \in ToSet(stops)}
    /\ Latest(replacements, LAMBDA r :
          r.phase \notin {"active", "cancelled", "abandoned"}) =>
             Last(replacements).previous = p /\ Last(replacements).next = n
    /\ \A r \in ToSet(replacements) : r.next = n =>
          /\ r.previous = p
          /\ r.phase \notin {"cancelled", "cancelling", "recovering"}
    /\ IF invitation = NoInvitation THEN chain = <<>> /\ outbox = {}
       ELSE ~retained =>
              /\ invitation.offer = IF activated THEN n
                                    ELSE IF chain # <<>> THEN Last(recoveries).offer
                                    ELSE p
              /\ ~activated => invitation.phase =
                    IF chain # <<>> THEN "recovery_required" ELSE "active"
    /\ Latest(recoveries, LAMBDA r : r.phase # "rejoined") /\ chain = <<>> /\ ~retained =>
          /\ Last(recoveries).offer = p
          /\ Last(recoveries).phase = "closed"
          /\ Last(recoveries).next = NoOffer
    /\ stops' = Append(stops, [previous |-> p, next |-> n, phase |-> "stopping",
                               native |-> activated, chain |-> chain])
    /\ outbox' = {}
    /\ Answers(p, n, "admitted")
    /\ UNCHANGED <<invitation, recoveries, replacements, engine, trusted>>

\* Mutant: the replacement this device had activated is abandoned as well.
CompleteStopNative(i) ==
    /\ stops[i].phase = "stopping"
    /\ Accepts("stop")
    /\ stops' = [stops EXCEPT ![i].phase = "stopped"]
    /\ replacements' = [j \in DOMAIN replacements |->
          IF replacements[j].next = stops[i].next
          THEN [replacements[j] EXCEPT !.phase = "abandoned"]
          ELSE replacements[j]]
    /\ UNCHANGED <<invitation, recoveries, outbox, engine, trusted, rows>>

\* complete_stop_replacement: the server has confirmed the stop.
CompleteStop(i) ==
    /\ stops[i].phase = "stopping"
    /\ Accepts("stop")
    /\ stops' = [stops EXCEPT ![i].phase = "stopped"]
    /\ replacements' = [j \in DOMAIN replacements |->
          IF replacements[j].next = stops[i].next /\ ~stops[i].native
          THEN [replacements[j] EXCEPT !.phase = "abandoned"]
          ELSE replacements[j]]
    /\ UNCHANGED <<invitation, recoveries, outbox, engine, trusted, rows>>

-----------------------------------------------------------------------------

Talk ==
    \/ \E o \in Offer : PrepareInvitation(o)
    \/ InviteFromDelivery
    \/ JoinFromDelivery
    \/ \E w \in outbox : AcceptDelivery(w)
    \/ CompleteInvitation
    \/ SendChat
    \/ MarkInvitationFailed
    \/ ApprovePeer

Rejoin ==
    \/ BeginClose
    \/ \E i \in DOMAIN recoveries :
          \/ CompleteClose(i)
          \/ \E n \in Offer : PrepareRejoin(i, n) \/ ActivateRejoin(i, n)
          \/ MarkRejoinFailed(i)
          \/ BeginRejoinRecovery(i)
          \/ BeginCancelRejoin(i)
          \/ \E c \in {"cancelled", "admitted"} : FinishCancelRejoin(i, c)

Replace ==
    \/ \E p, n \in Offer : PrepareReplacement(p, n)
    \/ \E i \in DOMAIN replacements :
          \/ AttestPredecessor(i)
          \/ Consent(i)
          \/ ActivateReplacement(i)
          \/ BeginCancelReplacement(i)
          \/ \E c \in {"cancelled", "admitted"} : FinishCancelReplacement(i, c)
          \/ ObserveReplacementCancelled(i)
          \/ MarkReplacementFailed(i)
          \/ BeginReplacementRecovery(i)
    \/ \E p, n \in Offer : BeginStop(p, n)
    \/ \E i \in DOMAIN stops : CompleteStop(i)

Next == Talk \/ Rejoin \/ Replace

Spec == Init /\ [][Next]_vars

-----------------------------------------------------------------------------
(* What #open demands of a state it reads again.                           *)

ReplacementsOpen ==
    /\ Len(replacements) <= MaxRetired
    /\ \A i \in DOMAIN replacements :
        LET r == replacements[i]
        IN
        /\ IsReplacement(r.previous, r.next)
        /\ r.cancellation = "pending" => r.phase = "cancelling"
        /\ r.cancellation = "cancelled" => r.phase = "cancelled"
        /\ r.phase = "cancelling" => r.cancellation = "pending"
        /\ r.restart_from # NoOffer =>
              \E s \in ToSet(stops) :
                 /\ s.next = r.restart_from
                 /\ s.previous = r.previous
                 /\ s.phase \in IF r.phase = "active" THEN {"retired"}
                                ELSE {"stopped", "retired"}
        /\ r.confirmed => IsCurrent(r.previous, r.next)
        /\ ReplacementOf(r.next) = {i}
        /\ i < Len(replacements) =>
              r.phase \in {"active", "cancelled", "abandoned"}

StopsOpen ==
    /\ Len(stops) <= MaxRetired
    /\ \A i \in DOMAIN stops :
        LET s == stops[i]
        IN
        /\ IsReplacement(s.previous, s.next)
        /\ s.native =>
              /\ IsStable(s.previous, s.next)
              /\ s.chain = <<>>
              /\ \E r \in ToSet(replacements) :
                    r.phase = "active" /\ r.previous = s.previous /\ r.next = s.next
              /\ s.phase # "retired" =>
                    /\ invitation.offer = s.next
                    /\ \A k \in 1..(i - 1) : stops[k].phase = "retired"
        /\ s.chain # <<>> => Bridged(s, recoveries, replacements)
        /\ (s.chain # <<>> \/ s.native) /\ s.phase = "retired" =>
              \E r \in ToSet(replacements), last \in i..Len(stops) :
                 /\ stops[last].next = r.restart_from
                 /\ r.phase = "active"
                 /\ r.previous = s.previous
                 /\ \A k \in i..last :
                       stops[k].phase = "retired" /\ stops[k].previous = s.previous
        /\ s.phase = "stopping" => i = Len(stops)
        /\ \A k \in 1..(i - 1) :
              /\ stops[k].phase # "retired" =>
                    s.phase # "retired" /\ s.previous = stops[k].previous
              /\ ToSet(StopOffers(s)) \cap ToSet(StopOffers(stops[k])) = {}
              /\ s.next \notin ToSet(StopOffers(stops[k]))

RecoveriesOpen ==
    /\ Len(recoveries) <= MaxRecoveries
    /\ \A i \in DOMAIN recoveries :
        LET r == recoveries[i]
        IN
        /\ r.replacement =>
              \E p \in ToSet(replacements) :
                 p.next = r.offer /\ p.phase \in {"recovering", "abandoned", "active"}
        /\ r.successor_failed => r.next # NoOffer
        /\ ChainOK(recoveries, i)
        /\ RecoveryOf(r.offer) = {i}
        /\ \/ i = Len(recoveries)
           \/ r.phase = "rejoined"
           \/ recoveries[i + 1].deferred_from = r.offer
           \/ RecoveryReplaced(r, recoveries, replacements, stops)
        /\ r.next # NoOffer => IsSuccessor(r.offer, r.next)
        /\ r.phase = "rejoined" => r.next # NoOffer
        /\ \A k \in DOMAIN r.cancellations :
              LET c == r.cancellations[k]
              IN
              /\ IsSuccessor(r.offer, c.next)
              /\ \A j \in 1..(k - 1) : r.cancellations[j].next # c.next
              /\ c.outcome # "cancelled" =>
                    k = Len(r.cancellations) /\ r.next = c.next
              /\ c.outcome = "pending" => r.phase = "closed"
              /\ c.outcome = "cancelled" =>
                    /\ r.next # c.next
                    /\ \A p \in ToSet(replacements) : c.next \notin {p.previous, p.next}
                    /\ \A q \in ToSet(recoveries) : c.next \notin {q.offer, q.next}

-----------------------------------------------------------------------------
(* Properties.                                                             *)

\* Every state a command leaves can be read again: #open and restore() accept
\* it.  #persist seals a state before anything opens it, so one they refuse
\* would lock the device out of its own journal for good.
Reopens ==
    /\ ReplacementsOpen
    /\ StopsOpen
    /\ RecoveriesOpen
    /\ EngineOK(engine)

\* The fences of the engine and the ledgers of the journal tell one story: the
\* retired groups are those of the active replacements, the rejoined channels
\* and the retired stops.
RetirementsAgree ==
    engine.retired =
        {r.previous : r \in {x \in ToSet(replacements) : x.phase = "active"}}
        \cup {r.offer : r \in {x \in ToSet(recoveries) : x.phase = "rejoined"}}
        \cup UNION {ToSet(StopOffers(s)) :
                      s \in {x \in ToSet(stops) : x.phase = "retired"}}

\* The outbox never releases a wire of another channel: the envelope is stamped
\* with the current route, whatever channel the wire was made for.
OutboxIsCurrent ==
    Unfrozen => \A w \in outbox : w.channel = invitation.offer

\* What is prepared can be carried out: the groups that an open replacement or
\* rejoin will retire still fit among the retired groups, so no conversation
\* that both owners agreed to is refused for lack of room.
ActivationFits ==
    /\ \A r \in ToSet(replacements) :
          r.phase \in {"prepared", "consented", "cancelling"} /\ StopOf(r.next) = {} =>
              /\ StoppedGroupsOK(r)
              /\ Cardinality(engine.retired \cup {r.previous}
                             \cup ToSet(StoppedGroups(r))) <= MaxRetired
    /\ \A i \in DOMAIN recoveries :
          recoveries[i].phase = "closed" /\ recoveries[i].next # NoOffer =>
              Cardinality(engine.retired \cup ToSet(ChainOffers(recoveries, i))
                          \cup {replacements[j].previous : j \in Deferred(i)})
                  <= MaxRetired
=============================================================================
