-------------------------- MODULE MessageDelivery --------------------------
(***************************************************************************)
(* One conversation between two devices and the messaging service: the     *)
(* admission by KeyPackage, Commit and Welcome, then texts through the     *)
(* mailbox (vault-device.ts syncInvitation and syncDelivery, device-store  *)
(* .ts for the journal, messaging_invitation.rs, messaging_delivery.rs and *)
(* messaging_recovery.rs for the service).                                 *)
(*                                                                         *)
(* A journal command is one step, as DeviceJournal shows it to be.  An     *)
(* HTTP call is two: the service executes it, the client takes the answer. *)
(* The client may die, or lose the answer, before or after either, and a   *)
(* request it abandoned may still arrive later.  Between calls one workflow*)
(* runs at a time: navigator.locks admits one tab of the device.           *)
(***************************************************************************)
EXTENDS Naturals, Sequences, FiniteSets

CONSTANTS
    Inviter, Joiner,    \* the two devices
    MaxTexts,           \* bound: texts each device sends
    Limit,              \* 16: messages a sync sends, and receives, at most
    MaxUnconsumed,      \* 64: unconsumed messages of the channel
    MaxLifetime,        \* 512: messages of the channel, ever
    MaxFaults,          \* bound: workflows that fail or die
    MaxDisturbances     \* bound: deadlines that pass, owners that close

ASSUME ConstantsAssumption ==
    /\ Inviter # Joiner
    /\ MaxTexts \in [{Inviter, Joiner} -> Nat] /\ Limit \in Nat \ {0}
    /\ MaxUnconsumed \in Nat /\ MaxLifetime \in Nat
    /\ MaxFaults \in Nat /\ MaxDisturbances \in Nat

Device == {Inviter, Joiner}
Peer(d) == IF d = Inviter THEN Joiner ELSE Inviter

\* A message is known by its id; its digest and wire never change.
Packet(k) == [kind |-> k, from |-> IF k = "key_package" THEN Joiner ELSE Inviter,
              n |-> 0]
Kinds == {"key_package", "invite_commit", "welcome"}
Text(d, n) == [kind |-> "text", from |-> d, n |-> n]
Message == {Packet(k) : k \in Kinds} \cup [kind : {"text"}, from : Device, n : Nat]
Nothing == [kind |-> "nothing", from |-> Inviter, n |-> 0]

VARIABLES
    local,      \* the journal of each device
    service,    \* the channel row, its packets and its mailbox
    client,     \* the workflow that holds the lock of each device
    late,       \* requests whose client is gone
    stamped,    \* messages whose deadline is fixed
    expired,    \* messages whose deadline has passed
    faults

vars == <<local, service, client, late, stamped, expired, faults>>

Journal == [phase : {"none", "prepared", "invited", "joined", "active",
                     "recovery_required"},
            closing : {"no", "closing", "closed"},
            outbox : Seq(Message),          \* oldest first
            sent : Nat,                     \* texts of sent_texts
            received : SUBSET Message,      \* ids of received messages
            inbox : Seq(Message)]           \* texts, in the order received
Service == [consents : SUBSET Device, blocked : BOOLEAN, complete : BOOLEAN,
            packets : [Kinds -> {"none", "stored", "finished"}],
            mail : Seq([id : Message, consumed : BOOLEAN])]
Ops == {"consent", "status", "recheck", "snapshot", "publish", "consume",
        "send", "inbox", "take", "close", "reconsent"}
Request == [op : Ops, from : Device, msg : Message \cup {Nothing}]
\* Where a workflow stands: the call it waits for, the message in hand, the
\* answer, what it read, and the messages handled in this loop.
Client == [pc : Ops \cup {"idle", "step"}, msg : Message \cup {Nothing},
           answer : {"none", "ok", "denied"},
           ready : BOOLEAN, complete : BOOLEAN, count : 0..Limit]

TypeOK ==
    /\ local \in [Device -> Journal]
    /\ service \in Service
    /\ client \in [Device -> Client]
    /\ late \subseteq Request
    /\ stamped \subseteq Message
    /\ expired \subseteq stamped
    /\ faults \in 0..MaxFaults

Idle == [pc |-> "idle", msg |-> Nothing, answer |-> "none", ready |-> FALSE,
         complete |-> FALSE, count |-> 0]

Init ==
    /\ local = [d \in Device |->
          [phase |-> "none", closing |-> "no", outbox |-> <<>>, sent |-> 0,
           received |-> {}, inbox |-> <<>>]]
    /\ service = [consents |-> {}, blocked |-> FALSE, complete |-> FALSE,
                  packets |-> [k \in Kinds |-> "none"], mail |-> <<>>]
    /\ client = [d \in Device |-> Idle]
    /\ late = {}
    /\ stamped = {}
    /\ expired = {}
    /\ faults = 0

-----------------------------------------------------------------------------
(* The service.  Each handler gives the row it leaves and whether it       *)
(* answers 200; the checks it repeats after its write read the same row.   *)

\* messaging_delivery_ready.
Ready(s) == s.consents = Device /\ ~s.blocked

\* approve().
Approve(s, d) == IF s.blocked THEN s ELSE [s EXCEPT !.consents = @ \cup {d}]

\* What must be there before a packet.
Admissible(s, k) ==
    /\ k = "invite_commit" =>
          s.packets["key_package"] = "finished" /\ Packet("key_package") \notin expired
    /\ k = "welcome" =>
          s.packets["invite_commit"] # "none" /\ Packet("invite_commit") \notin expired

\* publish(): a retained packet is answered whatever happened since.
PublishPacket(s, m) ==
    IF Ready(s) /\ ~s.complete /\ m \notin expired /\ Admissible(s, m.kind)
          /\ s.packets[m.kind] = "none"
    THEN [s EXCEPT !.packets[m.kind] = "stored"] ELSE s
Published(s, m) == Ready(s) /\ s.packets[m.kind] # "none"

\* Mutant: the first packet that is consumed completes the admission.
ConsumePacketCompletes(s, m) ==
    IF Ready(s) /\ s.packets[m.kind] # "none"
    THEN [s EXCEPT !.packets[m.kind] = "finished", !.complete = TRUE]
    ELSE s

\* consume() of a packet; the Welcome completes the admission.
ConsumePacket(s, m) ==
    IF /\ Ready(s)
       /\ s.packets[m.kind] # "none"
       /\ s.packets[m.kind] = "finished" \/ m \notin expired
    THEN IF m.kind = "welcome"
         THEN [s EXCEPT !.packets["welcome"] = "finished",
                        !.packets["invite_commit"] = "finished",
                        !.complete = TRUE]
         ELSE [s EXCEPT !.packets[m.kind] = "finished"]
    ELSE s
PacketConsumed(s, m) == Ready(s) /\ s.packets[m.kind] = "finished"

\* snapshot(): the packet that waits for this device.
Awaited(d) == Packet(IF d = Inviter THEN "key_package" ELSE "welcome")
Waiting(s, d) ==
    IF Ready(s) /\ ~s.complete /\ s.packets[Awaited(d).kind] = "stored"
    THEN Awaited(d) ELSE Nothing
SnapshotOK(s, d) ==
    ~s.blocked /\ d \in s.consents /\ Waiting(s, d) \notin expired

\* status(): blocked or expired.
Unavailable(s) ==
    \/ s.blocked
    \/ ~s.complete /\ \E k \in Kinds : s.packets[k] # "none" /\ Packet(k) \in expired

\* send(): admission, quotas and insertion are one statement.
InMail(s, m) == \E i \in DOMAIN s.mail : s.mail[i].id = m
Unconsumed(s) == SelectSeq(s.mail, LAMBDA x : ~x.consumed)
Send(s, m) ==
    IF Ready(s) /\ s.complete /\ m \notin expired /\ ~InMail(s, m)
          /\ Len(s.mail) < MaxLifetime /\ Len(Unconsumed(s)) < MaxUnconsumed
    THEN [s EXCEPT !.mail = Append(@, [id |-> m, consumed |-> FALSE])]
    ELSE s

\* Mutant: the receipt is gone with the ciphertext.
StoredUnconsumed(s, m) ==
    Ready(s) /\ \E i \in DOMAIN s.mail : s.mail[i] = [id |-> m, consumed |-> FALSE]

\* A retained receipt is answered even after its ciphertext was consumed.
Stored(s, m) == Ready(s) /\ InMail(s, m)

\* inbox(): the earliest unconsumed message of the recipient.
Waits(s, d, i) == ~s.mail[i].consumed /\ s.mail[i].id.from # d
IsFirst(s, d, i) ==
    /\ Waits(s, d, i)
    /\ \A j \in DOMAIN s.mail : j < i => ~Waits(s, d, j)
Earliest(s, d) ==
    IF \E i \in DOMAIN s.mail : IsFirst(s, d, i)
    THEN s.mail[CHOOSE i \in DOMAIN s.mail : IsFirst(s, d, i)].id
    ELSE Nothing
InboxOK(s, d) == Ready(s) /\ s.complete /\ Earliest(s, d) \notin expired

\* consume() of a message: the earliest one, or one consumed before.
Take(s, d, m) ==
    IF Ready(s) /\ Earliest(s, d) = m
    THEN [s EXCEPT !.mail = [i \in DOMAIN s.mail |->
             IF s.mail[i].id = m THEN [id |-> m, consumed |-> TRUE] ELSE s.mail[i]]]
    ELSE s
Taken(s, m) ==
    Ready(s) /\ \E i \in DOMAIN s.mail : s.mail[i] = [id |-> m, consumed |-> TRUE]

\* terminate(): 403 channel_unavailable until some consent made the row.
Terminate(s) == IF s.consents # {} THEN [s EXCEPT !.blocked = TRUE] ELSE s

\* The row after a request, and whether the request succeeded.
After(s, r) ==
    CASE r.op \in {"consent", "reconsent"} -> Approve(s, r.from)
      [] r.op = "publish" -> PublishPacket(s, r.msg)
      [] r.op = "consume" -> ConsumePacket(s, r.msg)
      [] r.op = "send" -> Send(s, r.msg)
      [] r.op = "take" -> Take(s, r.from, r.msg)
      [] r.op = "close" -> Terminate(s)
      [] OTHER -> s
Succeeded(s, r) ==
    CASE r.op \in {"consent", "reconsent"} -> ~s.blocked
      [] r.op = "publish" -> Published(s, r.msg)
      [] r.op = "consume" -> PacketConsumed(s, r.msg)
      [] r.op = "send" -> Stored(s, r.msg)
      [] r.op = "take" -> Taken(s, r.msg)
      [] r.op = "close" -> s.blocked
      [] r.op = "snapshot" -> SnapshotOK(s, r.from)
      [] r.op = "inbox" -> InboxOK(s, r.from)
      [] OTHER -> ~Unavailable(s)

-----------------------------------------------------------------------------
(* Calls.                                                                  *)

RequestOf(d) == [op |-> client[d].pc, from |-> d, msg |-> client[d].msg]
Calling(d) == client[d].pc \in Ops /\ client[d].answer = "none"

\* The service executes the call a client waits for.
Serve(d) ==
    LET r == RequestOf(d)
        s == After(service, r)
        ok == Succeeded(s, r)
    IN
    /\ Calling(d)
    /\ service' = s
    /\ client' = [client EXCEPT ![d].answer = IF ok THEN "ok" ELSE "denied",
          ![d].ready = IF r.op = "snapshot" THEN s.consents = Device ELSE @,
          ![d].complete = IF r.op = "snapshot" THEN s.complete ELSE @,
          ![d].msg = IF r.op = "snapshot" THEN Waiting(s, d)
                     ELSE IF r.op = "inbox" THEN Earliest(s, d) ELSE @]
    /\ UNCHANGED <<local, late, stamped, expired, faults>>

\* A request arrives whose client has gone.
ServeLate(r) ==
    /\ service' = After(service, r)
    /\ late' = late \ {r}
    /\ UNCHANGED <<local, client, stamped, expired, faults>>

\* The tab dies, a lease ends, a network or storage error: the workflow ends
\* and its request, if one is out, may be lost or late.
Interrupt(d) ==
    /\ client[d].pc # "idle"
    /\ faults < MaxFaults
    /\ faults' = faults + 1
    /\ late' = IF Calling(d) THEN late \cup {RequestOf(d)} ELSE late
    /\ client' = [client EXCEPT ![d] = Idle]
    /\ UNCHANGED <<local, service, stamped, expired>>

Disturb ==
    Cardinality(expired) + Cardinality({d \in Device : local[d].closing # "no"})
        < MaxDisturbances

\* The deadline of a message passes: 24 hours after it was fixed.
Expire(m) ==
    /\ m \in stamped \ expired
    /\ Disturb
    /\ expired' = expired \cup {m}
    /\ UNCHANGED <<local, service, client, late, stamped, faults>>

-----------------------------------------------------------------------------
(* Steps of a workflow.                                                    *)

\* An answer, and where the workflow goes on.
Answered(d, op, a) == client[d].pc = op /\ client[d].answer = a
Goto(d, pc, m, n) ==
    client' = [client EXCEPT ![d] =
        [Idle EXCEPT !.pc = pc, !.msg = m, !.count = n]]
Stop(d) == client' = [client EXCEPT ![d] = Idle]
Quiet == UNCHANGED <<service, late, expired, faults>>
Frozen(l) == l.phase = "recovery_required" \/ l.closing # "no"

\* mark_invitation_failed.
MarkFailed(d) ==
    local' = [local EXCEPT ![d].phase = "recovery_required"] /\ Stop(d)

\* prepare_invitation, and approveInvitation goes on with its call.
PrepareInvitation(d) ==
    /\ client[d].pc = "idle"
    /\ local[d].phase = "none"
    /\ local' = [local EXCEPT ![d].phase = "prepared",
          ![d].outbox = IF d = Joiner THEN <<Packet("key_package")>> ELSE <<>>]
    /\ Goto(d, "consent", Nothing, 0)
    /\ Quiet /\ UNCHANGED stamped

\* The screen synchronises an admission under way: approveInvitation, then
\* syncInvitation.
SyncInvitation(d) ==
    /\ client[d].pc = "idle"
    /\ local[d].phase \in {"prepared", "invited", "joined"}
    /\ ~Frozen(local[d])
    /\ Goto(d, "consent", Nothing, 0)
    /\ Quiet /\ UNCHANGED <<local, stamped>>

Approved(d) ==
    /\ \/ Answered(d, "consent", "ok") /\ Goto(d, "status", Nothing, 0)
       \/ Answered(d, "consent", "denied") /\ Stop(d)
    /\ Quiet /\ UNCHANGED <<local, stamped>>

\* #admissionUnavailable, before the admission goes on and after a refusal.
StatusRead(d) ==
    /\ \/ Answered(d, "status", "ok") /\ Goto(d, "snapshot", Nothing, 0)
          /\ UNCHANGED local
       \/ Answered(d, "recheck", "ok") /\ Stop(d) /\ UNCHANGED local
       \/ Answered(d, "status", "denied") /\ MarkFailed(d)
       \/ Answered(d, "recheck", "denied") /\ MarkFailed(d)
    /\ Quiet /\ UNCHANGED stamped

SnapshotRead(d) ==
    /\ client[d].pc = "snapshot"
    /\ \/ /\ client[d].answer = "ok"
          /\ IF client[d].ready
             THEN client' = [client EXCEPT ![d].pc = "step", ![d].answer = "none"]
             ELSE Stop(d)
       \/ client[d].answer = "denied" /\ Goto(d, "recheck", Nothing, 0)
    /\ Quiet /\ UNCHANGED <<local, stamped>>

Elements(seq) == {seq[i] : i \in DOMAIN seq}

\* A queue without a message: an id is queued once.
Without(seq, m) ==
    IF m \notin Elements(seq) THEN seq
    ELSE LET j == CHOOSE i \in DOMAIN seq : seq[i] = m
         IN  [i \in 1..(Len(seq) - 1) |-> IF i < j THEN seq[i] ELSE seq[i + 1]]

\* invitationOutbox: the Welcome depends on the Commit.
Released(l) ==
    IF Packet("invite_commit") \in Elements(l.outbox)
    THEN Without(l.outbox, Packet("welcome")) ELSE l.outbox

Publishes(d) ==
    Released(local[d]) # <<>> /\ (d = Joiner \/ client[d].msg = Nothing)

PublishNext(d) ==
    LET e == Released(local[d])[1]
    IN
    /\ client[d].pc = "step"
    /\ Publishes(d)
    /\ stamped' = stamped \cup Elements(Released(local[d]))
    /\ IF e \in expired THEN MarkFailed(d)
       ELSE Goto(d, "publish", e, 0) /\ UNCHANGED local
    /\ Quiet

\* Mutant: the queue is cleared whether or not the service has the message.
AcceptAny(d, op) == client[d].pc = op /\ client[d].answer # "none"

\* deliveryReceipt: only an exact receipt is accepted.
Accepts(d, op) == Answered(d, op, "ok")

\* accept_delivery: receipt, merge of the Commit and release of the Welcome.
Delivered(d) == [local EXCEPT ![d].outbox = Without(@, client[d].msg)]

PublishDone(d) ==
    /\ \/ /\ Accepts(d, "publish")
          /\ local' = Delivered(d)
          /\ Goto(d, "snapshot", Nothing, 0)
       \/ /\ Answered(d, "publish", "denied")
          /\ Goto(d, "recheck", Nothing, 0)
          /\ UNCHANGED local
    /\ Quiet /\ UNCHANGED stamped

\* invite_from_delivery and join_from_delivery.
Learned(l, d, m) ==
    IF m \in l.received THEN l
    ELSE [l EXCEPT !.received = @ \cup {m},
             !.phase = IF d = Inviter THEN "invited" ELSE "joined",
             !.outbox = IF d = Inviter
                        THEN @ \o <<Packet("invite_commit"), Packet("welcome")>>
                        ELSE @]

\* Mutant: a packet that was processed before is not recognised.
CanLearnOnce(l, d, m) == m \notin l.received /\ l.phase = "prepared"

CanLearn(l, d, m) ==
    \/ m \in l.received
    \/ /\ l.phase = "prepared"
       /\ d = Joiner => Packet("key_package") \notin Elements(l.outbox)

\* The packet is processed before the service may forget it.
LearnPacket(d) ==
    LET m == client[d].msg
    IN
    /\ client[d].pc = "step"
    /\ ~Publishes(d)
    /\ m # Nothing
    /\ stamped' = stamped \cup Elements(Released(local[d]))
    /\ IF CanLearn(local[d], d, m)
       THEN local' = [local EXCEPT ![d] = Learned(@, d, m)] /\ Goto(d, "consume", m, 0)
       ELSE Stop(d) /\ UNCHANGED local
    /\ Quiet

PacketDone(d) ==
    /\ \/ Answered(d, "consume", "ok") /\ Goto(d, "snapshot", Nothing, 0)
       \/ Answered(d, "consume", "denied") /\ Goto(d, "recheck", Nothing, 0)
    /\ Quiet /\ UNCHANGED <<local, stamped>>

\* complete_invitation, or the admission waits for the other device.
AdmissionDone(d) ==
    /\ client[d].pc = "step"
    /\ ~Publishes(d)
    /\ client[d].msg = Nothing
    /\ local' = IF client[d].complete THEN [local EXCEPT ![d].phase = "active"]
                ELSE local
    /\ Stop(d)
    /\ Quiet /\ UNCHANGED stamped

-----------------------------------------------------------------------------
(* Texts.                                                                  *)

\* send_chat.
SendChat(d) ==
    /\ client[d].pc = "idle"
    /\ local[d].phase = "active" /\ ~Frozen(local[d])
    /\ local[d].sent < MaxTexts[d]
    /\ local' = [local EXCEPT ![d].sent = @ + 1,
                    ![d].outbox = Append(@, Text(d, local[d].sent + 1))]
    /\ Quiet /\ UNCHANGED <<client, stamped>>

\* The next call of syncDelivery: another message to send, or the inbox.
SendOrFetch(d, outbox, n) ==
    IF outbox # <<>> /\ n < Limit THEN Goto(d, "send", outbox[1], n)
    ELSE Goto(d, "inbox", Nothing, 0)

\* deliveryOutbox fixes the deadline of everything queued.
SyncDelivery(d) ==
    /\ client[d].pc = "idle"
    /\ local[d].phase = "active" /\ ~Frozen(local[d])
    /\ stamped' = stamped \cup Elements(local[d].outbox)
    /\ SendOrFetch(d, local[d].outbox, 0)
    /\ Quiet /\ UNCHANGED local

\* Mutant: a refused message is left for the next sync, and the loop goes on.
RefusedSkips(d) ==
    LET rest == Without(local[d].outbox, client[d].msg)
    IN  SendOrFetch(d, rest, 0)

\* A refusal ends the sync: nothing overtakes the message.
Refused(d) == Stop(d)

SendDone(d) ==
    /\ \/ /\ Accepts(d, "send")
          /\ local' = Delivered(d)
          /\ SendOrFetch(d, Without(local[d].outbox, client[d].msg), client[d].count + 1)
       \/ /\ Answered(d, "send", "denied")
          /\ Refused(d)
          /\ UNCHANGED local
    /\ Quiet /\ UNCHANGED stamped

\* receive_delivery: the ratchet, the event and the receipt are one state.
Receive(l, m) ==
    IF m \in l.received THEN l
    ELSE [l EXCEPT !.received = @ \cup {m}, !.inbox = Append(@, m)]

InboxRead(d) ==
    LET m == client[d].msg
    IN
    /\ client[d].pc = "inbox"
    /\ \/ /\ client[d].answer = "ok" /\ m # Nothing
          /\ local' = [local EXCEPT ![d] = Receive(@, m)]
          /\ Goto(d, "take", m, client[d].count)
       \/ /\ client[d].answer = "ok" /\ m = Nothing
          /\ Stop(d) /\ UNCHANGED local
       \/ /\ client[d].answer = "denied"
          /\ Stop(d) /\ UNCHANGED local
    /\ Quiet /\ UNCHANGED stamped

TakeDone(d) ==
    /\ \/ /\ Answered(d, "take", "ok")
          /\ IF client[d].count + 1 < Limit
             THEN Goto(d, "inbox", Nothing, client[d].count + 1)
             ELSE Stop(d)
       \/ Answered(d, "take", "denied") /\ Stop(d)
    /\ Quiet /\ UNCHANGED <<local, stamped>>

-----------------------------------------------------------------------------
(* Closing the conversation.                                               *)

\* begin_close: the journal is frozen before the service is told.
BeginClose(d) ==
    /\ client[d].pc = "idle"
    /\ local[d].phase # "none" /\ local[d].closing = "no"
    /\ Disturb
    /\ local' = [local EXCEPT ![d].closing = "closing"]
    /\ Goto(d, "close", Nothing, 0)
    /\ Quiet /\ UNCHANGED stamped

SyncClose(d) ==
    /\ client[d].pc = "idle"
    /\ local[d].closing = "closing"
    /\ Goto(d, "close", Nothing, 0)
    /\ Quiet /\ UNCHANGED <<local, stamped>>

\* complete_close; a consent that never arrived is sent first.
CloseDone(d) ==
    /\ \/ /\ Answered(d, "close", "ok")
          /\ local' = [local EXCEPT ![d].closing = "closed"]
          /\ Stop(d)
       \/ Answered(d, "close", "denied") /\ Goto(d, "reconsent", Nothing, 0)
          /\ UNCHANGED local
       \/ Answered(d, "reconsent", "ok") /\ Goto(d, "close", Nothing, 0)
          /\ UNCHANGED local
       \/ Answered(d, "reconsent", "denied") /\ Stop(d) /\ UNCHANGED local
    /\ Quiet /\ UNCHANGED stamped

-----------------------------------------------------------------------------

Sync(d) == SyncInvitation(d) \/ SyncDelivery(d) \/ SyncClose(d)
Step(d) ==
    \/ Approved(d) \/ StatusRead(d) \/ SnapshotRead(d) \/ PublishNext(d)
    \/ PublishDone(d) \/ LearnPacket(d) \/ PacketDone(d) \/ AdmissionDone(d)
    \/ SendDone(d) \/ InboxRead(d) \/ TakeDone(d) \/ CloseDone(d)

Next ==
    \/ \E d \in Device :
          \/ PrepareInvitation(d) \/ SendChat(d) \/ BeginClose(d)
          \/ Sync(d) \/ Step(d) \/ Serve(d) \/ Interrupt(d)
    \/ \E r \in late : ServeLate(r)
    \/ \E m \in stamped : Expire(m)

Spec == Init /\ [][Next]_vars

\* A workflow that is not interrupted goes on, the service answers, and the
\* screen is opened and synchronised again; a device never has a choice
\* between these three.
Progress(d) == Sync(d) \/ Step(d) \/ Serve(d)
FairSpec == Spec /\ \A d \in Device : WF_vars(Progress(d))

-----------------------------------------------------------------------------
(* Properties.                                                             *)

\* What a device shows is a prefix of what the other one sent: in order and
\* once, whatever was retried, lost or late.
InOrderOnce ==
    \A d \in Device :
        /\ Len(local[d].inbox) <= local[Peer(d)].sent
        /\ \A i \in DOMAIN local[d].inbox : local[d].inbox[i] = Text(Peer(d), i)

\* Until it is in the other's journal, a text is queued or in the mailbox with
\* its wire: neither an acceptance nor a consumption comes before its cause.
NothingLost ==
    \A d \in Device : \A n \in 1..local[d].sent :
        LET m == Text(d, n)
        IN  \/ m \in Elements(local[d].outbox)
            \/ \E i \in DOMAIN service.mail : service.mail[i] = [id |-> m, consumed |-> FALSE]
            \/ m \in Elements(local[Peer(d)].inbox)

\* The joiner never enters a group its inviter has not entered, and nobody
\* talks before both are in it.
Merged ==
    /\ Packet("key_package") \in local[Inviter].received
    /\ Packet("invite_commit") \notin Elements(local[Inviter].outbox)
Joined == Packet("welcome") \in local[Joiner].received
JoinsMergedGroup ==
    /\ Joined => Merged
    /\ (\E d \in Device : local[d].phase = "active") => Joined /\ Merged

Undisturbed ==
    expired = {} /\ \A d \in Device : local[d].closing = "no"

\* Two owners who approved the same invitation get their conversation, unless
\* a deadline passes or one of them closes it.
AdmissionSettles ==
    []<>(\/ \E d \in Device : local[d].phase = "none"
         \/ \A d \in Device : local[d].phase = "active"
         \/ ~Undisturbed)

Full(s) == Len(s.mail) >= MaxLifetime \/ Len(Unconsumed(s)) >= MaxUnconsumed

\* Every text arrives, unless a deadline passes, a device closes or the mailbox
\* is at its limit: again and again both sides have all that was sent.
TextsArrive ==
    []<>(\/ \A d \in Device : Len(local[Peer(d)].inbox) = local[d].sent
         \/ ~Undisturbed \/ Full(service))

\* As docs/mls-device-delivery.md has it, repeating the sync is enough to
\* consume what waits in the mailbox.
CatchesUp ==
    \A d \in Device : \A n \in 1..MaxTexts[d] :
        InMail(service, Text(d, n)) ~>
            (Text(d, n) \in Elements(local[Peer(d)].inbox) \/ ~Undisturbed)
=============================================================================
