----------------------- MODULE MessageDeliveryProofs -----------------------
(***************************************************************************)
(* Safety of admission and mail delivery, for any number of texts, faults, *)
(* deadlines and closings, and any limits of the mailbox and of a sync.    *)
(*                                                                         *)
(* The argument: the queue of a device holds the texts after the last one  *)
(* the service acknowledged (QueueOK), and a request to send, however      *)
(* late, is at most the one after that (RequestOK).  So the mailbox holds  *)
(* each sender's texts in their order, without a gap, up to the last one   *)
(* acknowledged and perhaps the next (MailOK).  Only what is in the        *)
(* journal of the recipient is consumed, so the earliest text that waits   *)
(* is one it has or the next it needs (ClientOK, InboxOrdered).  The       *)
(* admission is a chain in which each link was there before the next one   *)
(* and stays: the Commit is merged, the Welcome is published, received and *)
(* consumed, the admission is complete, a device is active (ChainOK).      *)
(***************************************************************************)
EXTENDS MessageDelivery, TLAPS

KeyPackage == Packet("key_package")
Commit == Packet("invite_commit")
Welcome == Packet("welcome")

\* How many of its texts the service has acknowledged to a device.
Acked(l) == IF l.phase = "active" THEN l.sent - Len(l.outbox) ELSE 0

\* The queue of a device: its packets during the admission, then the texts
\* that are not acknowledged.
PacketsOf(d, l) ==
    IF d = Inviter
    THEN l.outbox \in {<<>>, <<Commit, Welcome>>, <<Welcome>>}
         /\ (l.outbox # <<>> => KeyPackage \in l.received)
    ELSE l.outbox \in {<<>>, <<KeyPackage>>}
TextsOf(d, l) ==
    /\ Len(l.outbox) <= l.sent
    /\ \A i \in 1..Len(l.outbox) : l.outbox[i] = Text(d, l.sent - Len(l.outbox) + i)
QueueOK(d, l) ==
    /\ l.phase = "active" => TextsOf(d, l)
    /\ l.phase # "active" => l.sent = 0 /\ PacketsOf(d, l)

\* What a device received: the texts of its peer, from the first one on.
InboxOrdered(d, l, p) ==
    /\ Len(l.inbox) <= p.sent
    /\ \A i \in 1..Len(l.inbox) : l.inbox[i] = Text(Peer(d), i) /\ l.inbox[i] \in l.received
    /\ \A m \in l.received :
          m.kind = "text" => m.from = Peer(d) /\ m.n \in 1..Len(l.inbox)

\* A request, of a client or late.
RequestOK(r, l, merged) ==
    /\ r.op = "send" =>
          /\ r.msg.kind = "text" /\ r.msg.from = r.from
          /\ r.msg.n >= 1 /\ r.msg.n <= Acked(l) + 1 /\ r.msg.n <= l.sent
    /\ r.op = "take" => r.msg.kind = "text" /\ r.msg \in l.received
    /\ r.op = "publish" => r.msg.kind \in Kinds
    /\ r.op = "consume" => r.msg = Awaited(r.from) /\ r.msg \in l.received
    /\ r.msg = Welcome => merged

\* The workflow of a device, with its journal l, that of its peer p, and the
\* mailbox.
ClientOK(d, c, l, p, s, joined) ==
    /\ c.pc \in {"consent", "status", "recheck", "snapshot", "step", "publish",
                 "consume"} => l.phase \in {"prepared", "invited", "joined"}
    /\ c.pc \in {"send", "inbox", "take"} => l.phase = "active"
    /\ c.pc \in {"send", "publish"} => l.outbox # <<>> /\ c.msg = l.outbox[1]
    /\ c.pc = "send" /\ c.answer = "ok" => InMail(s, c.msg)
    /\ c.pc = "inbox" /\ c.answer = "ok" /\ c.msg # Nothing =>
          /\ c.msg.kind = "text" /\ c.msg.from = Peer(d)
          /\ c.msg.n >= 1 /\ c.msg.n <= Len(l.inbox) + 1 /\ c.msg.n <= p.sent
    /\ c.pc \in {"snapshot", "step"} => c.msg \in {Nothing, Awaited(d)}
    /\ c.complete => joined

\* The mailbox, and the journals of the two devices.
MailOK(s, ls) ==
    /\ \A i \in 1..Len(s.mail) :
          LET m == s.mail[i].id
          IN  /\ m.kind = "text" /\ m.n >= 1
              /\ m.n <= Acked(ls[m.from]) + 1 /\ m.n <= ls[m.from].sent
              /\ s.mail[i].consumed => m.n <= Len(ls[Peer(m.from)].inbox)
    /\ \A i, j \in 1..Len(s.mail) :
          i < j /\ s.mail[i].id.from = s.mail[j].id.from =>
              s.mail[i].id.n < s.mail[j].id.n
    /\ \A d \in Device : \A n \in 1..Acked(ls[d]) : InMail(s, Text(d, n))

\* The links of the admission.
IsMerged(l) == KeyPackage \in l.received /\ Commit \notin Elements(l.outbox)
IsJoined(l) == Welcome \in l.received
ChainOK(s, ls) ==
    /\ s.packets["welcome"] # "none" => IsMerged(ls[Inviter])
    /\ IsJoined(ls[Joiner]) => IsMerged(ls[Inviter])
    /\ s.complete => IsJoined(ls[Joiner])
    /\ \A d \in Device : ls[d].phase = "active" => IsJoined(ls[Joiner])

QueuesOK == \A d \in Device : QueueOK(d, local[d])
InboxesOK == \A d \in Device : InboxOrdered(d, local[d], local[Peer(d)])
LateOK == \A r \in late : RequestOK(r, local[r.from], IsMerged(local[Inviter]))
CallsOK == \A d \in Device : RequestOK(RequestOf(d), local[d], IsMerged(local[Inviter]))
ClientsOK ==
    \A d \in Device : ClientOK(d, client[d], local[d], local[Peer(d)], service,
                               IsJoined(local[Joiner]))

IInv ==
    /\ TypeOK
    /\ QueuesOK
    /\ InboxesOK
    /\ MailOK(service, local)
    /\ ChainOK(service, local)
    /\ LateOK
    /\ CallsOK
    /\ ClientsOK

-----------------------------------------------------------------------------
(* Devices, messages and queues.                                           *)

LEMMA SeqDef ==
    ASSUME NEW S, NEW n \in Nat, NEW f \in [1..n -> S]
    PROVE  f \in Seq(S) /\ Len(f) = n
  OBVIOUS

LEMMA EmptyConcat ==
    ASSUME NEW S, NEW q \in Seq(S)
    PROVE  <<>> \o q = q
  OBVIOUS

LEMMA EmptyQueue == <<>> \in Seq(Message) /\ Len(<<>>) = 0 /\ Elements(<<>>) = {}
  BY DEF Elements

LEMMA PeerFacts ==
    ASSUME NEW d \in Device
    PROVE  /\ Peer(d) \in Device /\ Peer(d) # d /\ Peer(Peer(d)) = d
           /\ \A e \in Device : e # d => e = Peer(d)
           /\ Inviter \in Device /\ Joiner \in Device /\ Inviter # Joiner
  BY ConstantsAssumption DEF Device, Peer

LEMMA PacketFacts ==
    /\ \A k \in Kinds : Packet(k) \in Message /\ Packet(k).kind = k
    /\ \A k \in Kinds : Packet(k).kind # "text" /\ Packet(k) # Nothing
    /\ KeyPackage # Commit /\ KeyPackage # Welcome /\ Commit # Welcome
    /\ KeyPackage \in Message /\ Commit \in Message /\ Welcome \in Message
    /\ KeyPackage.kind = "key_package" /\ Commit.kind = "invite_commit"
    /\ Welcome.kind = "welcome"
  <1>1. \A k \in Kinds : Packet(k) \in Message
    BY DEF Message
  <1>2. \A k \in Kinds : Packet(k).kind = k
    BY DEF Packet
  <1>3. \A k \in Kinds : k # "text" /\ k # "nothing"
    BY DEF Kinds
  <1>4. Nothing.kind = "nothing"
    BY DEF Nothing
  <1>5. "key_package" \in Kinds /\ "invite_commit" \in Kinds /\ "welcome" \in Kinds
    BY DEF Kinds
  <1>6. /\ KeyPackage \in Message /\ Commit \in Message /\ Welcome \in Message
        /\ KeyPackage.kind = "key_package" /\ Commit.kind = "invite_commit"
        /\ Welcome.kind = "welcome"
    BY <1>1, <1>2, <1>5 DEF KeyPackage, Commit, Welcome
  <1>7. KeyPackage # Commit /\ KeyPackage # Welcome /\ Commit # Welcome
    BY <1>6
  <1> QED
    BY <1>1, <1>2, <1>3, <1>4, <1>6, <1>7

LEMMA NothingIsNoMessage == Nothing \notin Message
  <1>1. \A m \in Message : m.kind # "nothing"
    BY DEF Message, Packet, Kinds
  <1> QED
    BY <1>1 DEF Nothing

LEMMA TextFacts ==
    ASSUME NEW d \in Device, NEW n \in Nat
    PROVE  /\ Text(d, n) \in Message /\ Text(d, n).kind = "text"
           /\ Text(d, n).from = d /\ Text(d, n).n = n
  BY DEF Text, Message

LEMMA TextMessage ==
    ASSUME NEW m \in Message, m.kind = "text"
    PROVE  m.from \in Device /\ m.n \in Nat /\ m = Text(m.from, m.n)
  <1>1. m \notin {Packet(k) : k \in Kinds}
    BY PacketFacts
  <1>2. m \in [kind : {"text"}, from : Device, n : Nat]
    BY <1>1 DEF Message
  <1> QED
    BY <1>2 DEF Text

LEMMA AwaitedFacts ==
    ASSUME NEW d \in Device
    PROVE  /\ Awaited(d) \in Message /\ Awaited(d).kind \in Kinds
           /\ d = Inviter => Awaited(d) = KeyPackage
           /\ d = Joiner => Awaited(d) = Welcome
           /\ Awaited(d) = Packet(Awaited(d).kind)
  BY ConstantsAssumption, PacketFacts DEF Awaited, Device, KeyPackage, Welcome, Kinds

LEMMA WithoutHead ==
    ASSUME NEW q \in Seq(Message), q # <<>>, \A i \in 2..Len(q) : q[i] # q[1]
    PROVE  LET w == Without(q, q[1])
           IN  w \in Seq(Message) /\ Len(w) = Len(q) - 1
               /\ \A i \in 1..Len(w) : w[i] = q[i + 1]
  <1>1. Len(q) >= 1 /\ DOMAIN q = 1..Len(q)
    OBVIOUS
  <1>2. q[1] \in Elements(q)
    BY <1>1 DEF Elements
  <1>3. (CHOOSE i \in DOMAIN q : q[i] = q[1]) = 1
    BY <1>1
  <1>4. Without(q, q[1]) =
          [i \in 1..(Len(q) - 1) |-> IF i < 1 THEN q[i] ELSE q[i + 1]]
    BY <1>2, <1>3 DEF Without
  <1>5. Without(q, q[1]) = [i \in 1..(Len(q) - 1) |-> q[i + 1]]
    BY <1>4
  <1>6. \A i \in 1..(Len(q) - 1) : q[i + 1] \in Message
    BY <1>1
  <1>7. Len(q) - 1 \in Nat
    BY <1>1
  <1> QED
    BY <1>5, <1>6, <1>7

LEMMA WithoutSecond ==
    ASSUME NEW a \in Message, NEW b \in Message, a # b
    PROVE  Without(<<a, b>>, b) = <<a>>
  <1> DEFINE q == <<a, b>>
  <1>1. q \in Seq(Message) /\ Len(q) = 2 /\ DOMAIN q = 1..2 /\ q[1] = a /\ q[2] = b
    OBVIOUS
  <1> HIDE DEF q
  <1>2. b \in Elements(q)
    BY <1>1 DEF Elements
  <1>3. (CHOOSE i \in DOMAIN q : q[i] = b) = 2
    BY <1>1
  <1>4. Without(q, b) = [i \in 1..(2 - 1) |-> IF i < 2 THEN q[i] ELSE q[i + 1]]
    BY <1>1, <1>2, <1>3 DEF Without
  <1>5. Without(q, b) = [i \in 1..1 |-> a]
    BY <1>1, <1>4
  <1>6. <<a>> = [i \in 1..1 |-> a]
    OBVIOUS
  <1> QED
    BY <1>5, <1>6 DEF q

\* A place in a workflow.
At(pc, m, n) == [Idle EXCEPT !.pc = pc, !.msg = m, !.count = n]

LEMMA IdleFacts ==
    /\ Idle \in Client /\ Idle.pc = "idle" /\ Idle.msg = Nothing
    /\ Idle.answer = "none" /\ Idle.complete = FALSE /\ Idle.count = 0
  BY ConstantsAssumption DEF Idle, Client

-----------------------------------------------------------------------------
(* A step of one device: its journal becomes l, its workflow c.  What the  *)
(* journal has it keeps, so every other fact still holds.                  *)

Keeps(d, old, l) ==
    /\ old.received \subseteq l.received
    /\ old.sent <= l.sent
    /\ Acked(old) <= Acked(l)
    /\ Len(old.inbox) <= Len(l.inbox)
    /\ d = Inviter /\ IsMerged(old) => IsMerged(l)
    /\ old.phase = "active" => l.phase = "active"

StepOf(d, l, c) ==
    /\ local' = [local EXCEPT ![d] = l]
    /\ client' = [client EXCEPT ![d] = c]
    /\ service' = service
    /\ late' \subseteq late \cup {RequestOf(d)}
    /\ stamped' \subseteq Message /\ expired' \subseteq stamped'
    /\ faults' \in 0..MaxFaults

LEMMA AckedType ==
    ASSUME NEW d \in Device, NEW l \in Journal, QueueOK(d, l)
    PROVE  Acked(l) \in Nat /\ Acked(l) <= l.sent
  <1>1. l.sent \in Nat /\ Len(l.outbox) \in Nat
    BY DEF Journal
  <1> QED
    BY <1>1 DEF Acked, QueueOK, TextsOf

LEMMA RequestOfType ==
    ASSUME TypeOK, NEW d \in Device, client[d].pc \in Ops
    PROVE  RequestOf(d) \in Request
  BY DEF TypeOK, RequestOf, Request, Client

LEMMA RequestKept ==
    ASSUME NEW d \in Device, NEW old \in Journal, NEW l \in Journal,
           QueueOK(d, old), QueueOK(d, l),
           NEW r, r.from = d, r.op = "send" => r.msg.n \in Nat,
           NEW merged \in BOOLEAN, NEW now \in BOOLEAN, merged => now,
           old.received \subseteq l.received, old.sent <= l.sent,
           Acked(old) <= Acked(l),
           RequestOK(r, old, merged)
    PROVE  RequestOK(r, l, now)
  <1>1. Acked(old) \in Nat /\ Acked(l) \in Nat
    BY AckedType
  <1>2. old.sent \in Nat /\ l.sent \in Nat
    BY DEF Journal
  <1>3. r.op = "send" =>
          /\ r.msg.kind = "text" /\ r.msg.from = r.from
          /\ r.msg.n >= 1 /\ r.msg.n <= Acked(l) + 1 /\ r.msg.n <= l.sent
    BY <1>1, <1>2 DEF RequestOK
  <1> QED
    BY <1>3 DEF RequestOK

LEMMA JournalTypes ==
    ASSUME NEW l \in Journal
    PROVE  /\ l.sent \in Nat /\ l.inbox \in Seq(Message) /\ l.outbox \in Seq(Message)
           /\ Len(l.inbox) \in Nat /\ Len(l.outbox) \in Nat
           /\ l.received \subseteq Message
  BY DEF Journal

LEMMA MailTypes ==
    ASSUME NEW s \in Service
    PROVE  /\ Len(s.mail) \in Nat /\ DOMAIN s.mail = 1..Len(s.mail)
           /\ \A i \in 1..Len(s.mail) : s.mail[i].id \in Message /\ s.mail[i].consumed \in BOOLEAN
           /\ s.mail \in Seq([id : Message, consumed : BOOLEAN])
  <1> DEFINE Entry == [id : Message, consumed : BOOLEAN]
  <1>1. s.mail \in Seq(Entry)
    BY DEF Service
  <1> HIDE DEF Entry
  <1>2. Len(s.mail) \in Nat /\ DOMAIN s.mail = 1..Len(s.mail)
        /\ \A i \in 1..Len(s.mail) : s.mail[i] \in Entry
    BY <1>1
  <1>3. \A e \in Entry : e.id \in Message /\ e.consumed \in BOOLEAN
    BY DEF Entry
  <1>4. \A i \in 1..Len(s.mail) : s.mail[i].id \in Message /\ s.mail[i].consumed \in BOOLEAN
    BY <1>2, <1>3
  <1> QED
    BY <1>1, <1>2, <1>4 DEF Entry

LEMMA DeviceStep ==
    ASSUME IInv, NEW d \in Device, NEW l \in Journal, NEW c \in Client,
           StepOf(d, l, c), late' \subseteq Request, Keeps(d, local[d], l),
           QueueOK(d, l), InboxOrdered(d, l, local[Peer(d)]),
           \A n \in 1..Acked(l) : n <= Acked(local[d]) \/ InMail(service, Text(d, n)),
           d = Joiner /\ IsJoined(l) => IsMerged(local[Inviter]),
           l.phase = "active" => local[d].phase = "active" \/ IsJoined(local[Joiner]),
           RequestOK([op |-> c.pc, from |-> d, msg |-> c.msg], l,
                     IsMerged(local[Inviter])),
           ClientOK(d, c, l, local[Peer(d)], service, IsJoined(local[Joiner]))
    PROVE  IInv'
  <1> DEFINE p == Peer(d)
             merged == IsMerged(local[Inviter])
             joined == IsJoined(local[Joiner])
  <1>1. /\ local \in [Device -> Journal] /\ service \in Service
        /\ client \in [Device -> Client] /\ late \subseteq Request
    BY DEF IInv, TypeOK
  <1>2. p \in Device /\ p # d /\ Peer(p) = d /\ \A e \in Device : e = d \/ e = p
    BY PeerFacts
  <1>3. /\ local'[d] = l /\ local'[p] = local[p]
        /\ client'[d] = c /\ client'[p] = client[p]
        /\ service' = service
    BY <1>1, <1>2 DEF StepOf
  <1>4. TypeOK'
    BY <1>1 DEF TypeOK, StepOf
  <1>5. QueueOK(d, local[d]) /\ QueueOK(p, local[p]) /\ local[d] \in Journal
        /\ local[p] \in Journal
    BY <1>1, <1>2 DEF IInv, QueuesOK
  <1>6. /\ Acked(l) \in Nat /\ Acked(l) <= l.sent
        /\ Acked(local[d]) \in Nat /\ Acked(local[d]) <= local[d].sent
        /\ Acked(local[p]) \in Nat /\ Acked(local[p]) <= local[p].sent
        /\ l.sent \in Nat /\ local[d].sent \in Nat /\ local[p].sent \in Nat
        /\ Len(l.inbox) \in Nat /\ Len(local[d].inbox) \in Nat
        /\ Len(local[p].inbox) \in Nat
    <2>1. /\ l.sent \in Nat /\ local[d].sent \in Nat /\ local[p].sent \in Nat
          /\ Len(l.inbox) \in Nat /\ Len(local[d].inbox) \in Nat
          /\ Len(local[p].inbox) \in Nat
      BY <1>5, JournalTypes
    <2> QED
      BY <2>1, <1>2, <1>5, AckedType
  <1>7. QueuesOK'
    BY <1>2, <1>3, <1>5 DEF QueuesOK
  <1>8. InboxesOK'
    <2>1. InboxOrdered(p, local[p], local[d])
      BY <1>2 DEF IInv, InboxesOK
    <2>2. InboxOrdered(p, local[p], l)
      BY <1>6, <2>1 DEF InboxOrdered, Keeps
    <2> QED
      BY <1>2, <1>3, <2>2 DEF InboxesOK
  <1>9. (merged => IsMerged(local'[Inviter])) /\ (joined => IsJoined(local'[Joiner]))
    <2>1. CASE d = Inviter
      <3>1. p = Joiner
        BY <2>1, <1>2, PeerFacts
      <3> QED
        BY <2>1, <3>1, <1>3 DEF Keeps
    <2>2. CASE d # Inviter
      <3>1. p = Inviter /\ d = Joiner
        BY <2>2, <1>2, PeerFacts DEF Device
      <3> QED
        BY <2>2, <3>1, <1>3 DEF Keeps, IsJoined
    <2> QED
      BY <2>1, <2>2
  <1>10. MailOK(service, local')
    <2>1. MailOK(service, local)
      BY DEF IInv
    <2>2. /\ \A e \in Device : Acked(local[e]) <= Acked(local'[e])
          /\ \A e \in Device : local[e].sent <= local'[e].sent
          /\ \A e \in Device : Len(local[e].inbox) <= Len(local'[e].inbox)
          /\ \A e \in Device : Acked(local[e]) \in Nat /\ Acked(local'[e]) \in Nat
          /\ \A e \in Device : local[e].sent \in Nat /\ local'[e].sent \in Nat
          /\ \A e \in Device : Len(local[e].inbox) \in Nat /\ Len(local'[e].inbox) \in Nat
      <3>1. Keeps(d, local[d], local'[d])
        BY <1>3
      <3>2. \A e \in Device : e # d => local'[e] = local[e]
        BY <1>2, <1>3
      <3>3. \A e \in Device : Acked(local[e]) \in Nat /\ Acked(local'[e]) \in Nat
        BY <1>2, <1>3, <1>6
      <3>4. \A e \in Device : local[e].sent \in Nat /\ local'[e].sent \in Nat
        BY <1>2, <1>3, <1>6
      <3>5. \A e \in Device : Len(local[e].inbox) \in Nat /\ Len(local'[e].inbox) \in Nat
        BY <1>2, <1>3, <1>6
      <3>6. \A e \in Device : /\ Acked(local[e]) <= Acked(local'[e])
                              /\ local[e].sent <= local'[e].sent
                              /\ Len(local[e].inbox) <= Len(local'[e].inbox)
        <4> SUFFICES ASSUME NEW e \in Device
                     PROVE  /\ Acked(local[e]) <= Acked(local'[e])
                            /\ local[e].sent <= local'[e].sent
                            /\ Len(local[e].inbox) <= Len(local'[e].inbox)
          OBVIOUS
        <4>1. CASE e = d
          BY <4>1, <3>1 DEF Keeps
        <4>2. CASE e # d
          <5>1. local'[e] = local[e] 
            BY <4>2, <3>2
          <5> QED
            BY <5>1, <3>3, <3>4, <3>5
        <4> QED
          BY <4>1, <4>2
      <3> QED
        BY <3>3, <3>4, <3>5, <3>6
    <2>3. \A i \in 1..Len(service.mail) : service.mail[i].id \in Message
      BY <1>1, MailTypes
    <2>4. ASSUME NEW i \in 1..Len(service.mail)
          PROVE  LET m == service.mail[i].id
                 IN  /\ m.kind = "text" /\ m.n >= 1
                     /\ m.n <= Acked(local'[m.from]) + 1 /\ m.n <= local'[m.from].sent
                     /\ service.mail[i].consumed => m.n <= Len(local'[Peer(m.from)].inbox)
      <3> DEFINE m == service.mail[i].id
      <3>1. /\ m.kind = "text" /\ m.n >= 1
            /\ m.n <= Acked(local[m.from]) + 1 /\ m.n <= local[m.from].sent
            /\ service.mail[i].consumed => m.n <= Len(local[Peer(m.from)].inbox)
        BY <2>1 DEF MailOK
      <3>2. m.from \in Device /\ m.n \in Nat /\ Peer(m.from) \in Device
        BY <2>3, <3>1, TextMessage, PeerFacts
      <3> HIDE DEF m
      <3>3. m.n <= Acked(local'[m.from]) + 1 /\ m.n <= local'[m.from].sent
        <4>1. PICK e \in Device : e = m.from
          BY <3>2
        <4>2. Acked(local[e]) <= Acked(local'[e]) /\ local[e].sent <= local'[e].sent
          BY <2>2
        <4>3. Acked(local[e]) \in Nat /\ Acked(local'[e]) \in Nat
              /\ local[e].sent \in Nat /\ local'[e].sent \in Nat
          BY <2>2
        <4>4. m.n <= Acked(local[e]) + 1 /\ m.n <= local[e].sent
          BY <3>1, <4>1
        <4> QED
          BY <4>1, <4>2, <4>3, <4>4, <3>2
      <3>4. service.mail[i].consumed => m.n <= Len(local'[Peer(m.from)].inbox)
        <4>1. PICK e \in Device : e = Peer(m.from)
          BY <3>2
        <4>2. Len(local[e].inbox) <= Len(local'[e].inbox)
              /\ Len(local[e].inbox) \in Nat /\ Len(local'[e].inbox) \in Nat
          BY <2>2
        <4>3. service.mail[i].consumed => m.n <= Len(local[e].inbox)
          BY <3>1, <4>1
        <4> QED
          BY <4>1, <4>2, <4>3, <3>2
      <3> QED
        BY <3>1, <3>3, <3>4 DEF m
    <2>5. \A e \in Device : \A n \in 1..Acked(local'[e]) : InMail(service, Text(e, n))
      <3>1. \A n \in 1..Acked(l) : InMail(service, Text(d, n))
        BY <2>1, <1>6 DEF MailOK
      <3>2. \A n \in 1..Acked(local[p]) : InMail(service, Text(p, n))
        BY <2>1, <1>2 DEF MailOK
      <3> QED
        BY <3>1, <3>2, <1>2, <1>3
    <2> QED
      BY <2>1, <2>4, <2>5 DEF MailOK
  <1>11. ChainOK(service, local')
    <2>1. ChainOK(service, local)
      BY DEF IInv
    <2>2. IsJoined(local'[Joiner]) => IsMerged(local'[Inviter])
      <3>1. CASE d = Inviter
        BY <3>1, <1>2, <1>3, <1>9, <2>1, PeerFacts DEF ChainOK
      <3>2. CASE d # Inviter
        <4>1. d = Joiner
          BY <3>2 DEF Device
        <4> QED
          BY <4>1, <1>3, <1>9
      <3> QED
        BY <3>1, <3>2
    <2>3. \A e \in Device : local'[e].phase = "active" => IsJoined(local'[Joiner])
      BY <1>2, <1>3, <1>9, <2>1 DEF ChainOK
    <2> QED
      BY <1>9, <2>1, <2>2, <2>3 DEF ChainOK
  <1>12. ASSUME NEW r, NEW e \in Device, r.from = e, RequestOK(r, local[e], merged),
                r.op = "send" => r.msg.n \in Nat
         PROVE  RequestOK(r, local'[e], IsMerged(local'[Inviter]))
    <2>1. merged \in BOOLEAN /\ IsMerged(local'[Inviter]) \in BOOLEAN
      BY DEF IsMerged
    <2>2. CASE e = d
      BY <2>1, <2>2, <1>3, <1>5, <1>9, <1>12, RequestKept DEF Keeps
    <2>3. CASE e = p
      BY <2>1, <2>3, <1>2, <1>3, <1>5, <1>6, <1>9, <1>12, RequestKept
    <2> QED
      BY <2>2, <2>3, <1>2
  <1>13. ASSUME NEW r \in Request, r.op = "send", r.msg.kind = "text"
         PROVE  r.msg.n \in Nat
    <2>1. r.msg \in Message
      BY <1>13 DEF Request, Nothing
    <2> QED
      BY <1>13, <2>1, TextMessage
  <1>14. RequestOf(d).from = d /\ RequestOf(p).from = p
    BY DEF RequestOf
  <1>15. LateOK'
    <2> SUFFICES ASSUME NEW r \in late'
                 PROVE  RequestOK(r, local'[r.from], IsMerged(local'[Inviter]))
      BY DEF LateOK
    <2>1. r \in Request /\ r.from \in Device
      BY DEF Request
    <2>2. RequestOK(r, local[r.from], merged)
      <3>1. CASE r \in late
        BY <3>1 DEF IInv, LateOK
      <3>2. CASE r = RequestOf(d)
        BY <3>2, <1>14 DEF IInv, CallsOK
      <3> QED
        BY <3>1, <3>2 DEF StepOf
    <2>3. r.op = "send" => r.msg.n \in Nat
      BY <2>1, <2>2, <1>13 DEF RequestOK
    <2> QED
      BY <2>1, <2>2, <2>3, <1>12
  <1>16. CallsOK'
    <2>1. RequestOf(d)' = [op |-> c.pc, from |-> d, msg |-> c.msg]
      BY <1>3 DEF RequestOf
    <2>2. RequestOf(p)' = RequestOf(p)
      BY <1>3 DEF RequestOf
    <2>3. RequestOK(RequestOf(d)', local'[d], IsMerged(local'[Inviter]))
      BY <2>1, <1>3, <1>9 DEF RequestOK
    <2>4. RequestOK(RequestOf(p), local[p], merged)
      BY <1>2 DEF IInv, CallsOK
    <2>5. RequestOf(p).op = "send" => RequestOf(p).msg.n \in Nat
      <3>1. RequestOf(p).op = client[p].pc /\ RequestOf(p).msg = client[p].msg
        BY DEF RequestOf
      <3>2. client[p].msg \in Message \cup {Nothing}
        BY <1>1, <1>2 DEF Client
      <3>3. client[p].msg.kind = "text" => client[p].msg \in Message
        BY <3>2 DEF Nothing
      <3> QED
        BY <2>4, <3>1, <3>3, TextMessage DEF RequestOK
    <2>6. RequestOK(RequestOf(p), local'[p], IsMerged(local'[Inviter]))
      BY <2>4, <2>5, <1>2, <1>12, <1>14
    <2> QED
      BY <2>2, <2>3, <2>6, <1>2 DEF CallsOK
  <1>17. ClientsOK'
    <2>1. ClientOK(p, client[p], local[p], local[d], service, joined)
      BY <1>2 DEF IInv, ClientsOK
    <2>2. ClientOK(p, client[p], local[p], l, service, joined)
      <3>1. client[p].msg \in Message \cup {Nothing}
        BY <1>1, <1>2 DEF Client
      <3>2. client[p].pc = "inbox" /\ client[p].answer = "ok" /\ client[p].msg # Nothing =>
              client[p].msg.n \in Nat
        BY <2>1, <3>1, TextMessage DEF ClientOK
      <3> QED
        BY <1>6, <2>1, <3>2 DEF ClientOK, Keeps
    <2>3. ASSUME NEW e \in Device, NEW x, NEW y, NEW z, ClientOK(e, x, y, z, service, joined)
          PROVE  ClientOK(e, x, y, z, service, IsJoined(local'[Joiner]))
      BY <2>3, <1>9 DEF ClientOK
    <2> QED
      BY <2>2, <2>3, <1>2, <1>3 DEF ClientsOK
  <1> QED
    BY <1>3, <1>4, <1>7, <1>8, <1>10, <1>11, <1>15, <1>16, <1>17 DEF IInv

-----------------------------------------------------------------------------
(* The mailbox.                                                            *)

LEMMA EarliestFacts ==
    ASSUME NEW s \in Service, NEW d \in Device, Earliest(s, d) # Nothing
    PROVE  \E i \in 1..Len(s.mail) :
              /\ s.mail[i].id = Earliest(s, d)
              /\ Waits(s, d, i)
              /\ \A j \in 1..Len(s.mail) : j < i => ~Waits(s, d, j)
  <1>1. DOMAIN s.mail = 1..Len(s.mail)
    BY MailTypes
  <1>2. \E i \in DOMAIN s.mail : IsFirst(s, d, i)
    BY DEF Earliest
  <1> DEFINE k == CHOOSE i \in DOMAIN s.mail : IsFirst(s, d, i)
  <1>3. k \in DOMAIN s.mail /\ IsFirst(s, d, k)
    BY <1>2
  <1>4. Earliest(s, d) = s.mail[k].id
    BY <1>2 DEF Earliest
  <1> HIDE DEF k
  <1> QED
    BY <1>1, <1>3, <1>4 DEF IsFirst

\* The earliest text that waits is one the device has, or the next one.
LEMMA EarliestIsNext ==
    ASSUME NEW s \in Service, NEW d \in Device, Earliest(s, d) # Nothing,
           local \in [Device -> Journal], QueuesOK, MailOK(s, local)
    PROVE  LET m == Earliest(s, d)
           IN  /\ m \in Message /\ m.kind = "text" /\ m.from = Peer(d)
               /\ m.n >= 1 /\ m.n <= Len(local[d].inbox) + 1
               /\ m.n <= local[Peer(d)].sent
  <1> DEFINE m == Earliest(s, d)
             p == Peer(d)
  <1>1. PICK i \in 1..Len(s.mail) :
              /\ s.mail[i].id = m
              /\ Waits(s, d, i)
              /\ \A j \in 1..Len(s.mail) : j < i => ~Waits(s, d, j)
    BY EarliestFacts
  <1> HIDE DEF m
  <1>2. m \in Message /\ DOMAIN s.mail = 1..Len(s.mail) /\ Len(s.mail) \in Nat
        /\ \A j \in 1..Len(s.mail) : s.mail[j].id \in Message
    BY <1>1, MailTypes
  <1>3. /\ m.kind = "text" /\ m.n >= 1 
        /\ m.n <= Acked(local[m.from]) + 1 /\ m.n <= local[m.from].sent
    BY <1>1 DEF MailOK
  <1>4. m.from \in Device /\ m.n \in Nat
    BY <1>2, <1>3, TextMessage
  <1>5. m.from = p
    BY <1>1, <1>4, PeerFacts DEF Waits
  <1>6. p \in Device /\ p # d /\ Peer(p) = d
    BY PeerFacts
  <1>7. Acked(local[p]) \in Nat /\ Len(local[d].inbox) \in Nat
    BY <1>6, AckedType, JournalTypes DEF QueuesOK
  <1>8. m.n <= Len(local[d].inbox) + 1
    <2> SUFFICES ASSUME m.n > Len(local[d].inbox) + 1
                 PROVE  FALSE
      BY <1>4, <1>7
    <2> DEFINE k == m.n - 1
    <2>1. k \in 1..Acked(local[p]) /\ k > Len(local[d].inbox) /\ k \in Nat
      BY <1>3, <1>4, <1>5, <1>7
    <2>2. InMail(s, Text(p, k))
      BY <1>6, <2>1 DEF MailOK
    <2>3. PICK j \in 1..Len(s.mail) : s.mail[j].id = Text(p, k)
      BY <1>2, <2>2 DEF InMail
    <2>4. s.mail[j].id.from = p /\ s.mail[j].id.n = k
      BY <1>6, <2>1, <2>3, TextFacts
    <2>5. ~(i < j) /\ i # j
      <3>1. m.n \in Nat /\ k = m.n - 1
        BY <1>4
      <3> HIDE DEF k
      <3>2. s.mail[i].id.n = m.n /\ s.mail[i].id.from = p
        BY <1>1, <1>5
      <3>3. i # j
        BY <2>4, <3>1, <3>2
      <3>4. i < j => m.n < k
        BY <2>4, <3>2 DEF MailOK
      <3> QED
        BY <3>1, <3>3, <3>4
    <2>6. ~Waits(s, d, j)
      BY <1>1, <2>5
    <2>7. s.mail[j].consumed
      BY <1>6, <2>4, <2>6 DEF Waits
    <2>8. k <= Len(local[d].inbox)
      BY <1>6, <2>4, <2>7 DEF MailOK
    <2> QED
      BY <1>7, <2>1, <2>8
  <1> QED
    BY <1>2, <1>3, <1>5, <1>8 DEF m

\* A text that is not yet in the mailbox is the next one of its sender.
LEMMA SendKeepsMail ==
    ASSUME NEW s \in Service, local \in [Device -> Journal], QueuesOK,
           MailOK(s, local), NEW d \in Device, NEW m \in Message,
           m.kind = "text", m.from = d, m.n >= 1, m.n <= Acked(local[d]) + 1,
           m.n <= local[d].sent, ~InMail(s, m),
           NEW t \in Service, t.mail = Append(s.mail, [id |-> m, consumed |-> FALSE])
    PROVE  MailOK(t, local) /\ \A x : InMail(s, x) => InMail(t, x)
  <1> DEFINE e == [id |-> m, consumed |-> FALSE]
             L == Len(s.mail)
  <1>1. /\ L \in Nat /\ DOMAIN s.mail = 1..L
        /\ \A i \in 1..L : s.mail[i].id \in Message
        /\ s.mail \in Seq([id : Message, consumed : BOOLEAN])
    BY MailTypes
  <1>2. e \in [id : Message, consumed : BOOLEAN] /\ e.id = m /\ e.consumed = FALSE
    OBVIOUS
  <1> HIDE DEF e
  <1>3. /\ Len(t.mail) = L + 1 /\ t.mail[L + 1] = e
        /\ \A i \in 1..L : t.mail[i] = s.mail[i]
        /\ DOMAIN t.mail = 1..(L + 1)
    BY <1>1, <1>2 DEF e
  <1>4. m.n \in Nat /\ m = Text(d, m.n)
    BY TextMessage
  <1>5. Acked(local[d]) \in Nat
    BY AckedType DEF QueuesOK
  <1>6. m.n = Acked(local[d]) + 1
    <2> SUFFICES ASSUME m.n # Acked(local[d]) + 1
                 PROVE  FALSE
      OBVIOUS
    <2>1. m.n \in 1..Acked(local[d])
      BY <1>4, <1>5
    <2> QED
      BY <1>4, <2>1 DEF MailOK
  <1>7. \A i \in 1..L : s.mail[i].id.from = d => s.mail[i].id.n < m.n
    <2> SUFFICES ASSUME NEW i \in 1..L, s.mail[i].id.from = d
                 PROVE  s.mail[i].id.n < m.n
      OBVIOUS
    <2>1. s.mail[i].id.kind = "text" /\ s.mail[i].id.n <= Acked(local[d]) + 1
      BY DEF MailOK
    <2>2. s.mail[i].id.n \in Nat /\ s.mail[i].id = Text(d, s.mail[i].id.n)
      BY <1>1, <2>1, TextMessage
    <2>3. s.mail[i].id # m
      BY <1>1 DEF InMail
    <2>4. s.mail[i].id.n # m.n
      BY <1>4, <2>2, <2>3
    <2> QED
      BY <1>4, <1>5, <1>6, <2>1, <2>2, <2>4
  <1>8. \A x : InMail(s, x) => InMail(t, x)
    BY <1>1, <1>3 DEF InMail
  <1>9. ASSUME NEW i \in 1..Len(t.mail)
        PROVE  LET x == t.mail[i].id
               IN  /\ x.kind = "text" /\ x.n >= 1
                   /\ x.n <= Acked(local[x.from]) + 1 /\ x.n <= local[x.from].sent
                   /\ t.mail[i].consumed => x.n <= Len(local[Peer(x.from)].inbox)
    <2>1. CASE i \in 1..L
      BY <2>1, <1>3 DEF MailOK
    <2>2. CASE i = L + 1
      BY <2>2, <1>2, <1>3
    <2> QED
      BY <1>1, <1>3, <2>1, <2>2
  <1>10. ASSUME NEW i \in 1..Len(t.mail), NEW j \in 1..Len(t.mail), i < j,
                t.mail[i].id.from = t.mail[j].id.from
         PROVE  t.mail[i].id.n < t.mail[j].id.n
    <2>1. i \in 1..L /\ (j \in 1..L \/ j = L + 1)
      BY <1>1, <1>3, <1>10
    <2>2. CASE j \in 1..L
      BY <2>1, <2>2, <1>3, <1>10 DEF MailOK
    <2>3. CASE j = L + 1
      BY <2>1, <2>3, <1>2, <1>3, <1>7, <1>10
    <2> QED
      BY <2>1, <2>2, <2>3
  <1>11. \A f \in Device : \A n \in 1..Acked(local[f]) : InMail(t, Text(f, n))
    BY <1>8 DEF MailOK
  <1>12. MailOK(t, local)
    BY <1>9, <1>10, <1>11 DEF MailOK
  <1> QED
    BY <1>8, <1>12

\* What is consumed is in the journal of the recipient.
LEMMA TakeKeepsMail ==
    ASSUME NEW s \in Service, local \in [Device -> Journal], InboxesOK,
           MailOK(s, local), NEW d \in Device, NEW m \in Message,
           m.kind = "text", m \in local[d].received,
           NEW t \in Service,
           t.mail = [i \in DOMAIN s.mail |->
               IF s.mail[i].id = m THEN [id |-> m, consumed |-> TRUE] ELSE s.mail[i]]
    PROVE  MailOK(t, local) /\ \A x : InMail(s, x) => InMail(t, x)
  <1> DEFINE L == Len(s.mail)
  <1>1. L \in Nat /\ DOMAIN s.mail = 1..L
    BY MailTypes
  <1>2. /\ DOMAIN t.mail = 1..L
        /\ \A i \in 1..L : /\ t.mail[i].id = s.mail[i].id
                           /\ t.mail[i].consumed => s.mail[i].consumed \/ s.mail[i].id = m
    BY <1>1
  <1>3. Len(t.mail) = L
    BY <1>1, <1>2, MailTypes
  <1>4. \A x : InMail(s, x) <=> InMail(t, x)
    BY <1>1, <1>2 DEF InMail
  <1>5. m.from = Peer(d) /\ m.n \in 1..Len(local[d].inbox) /\ Peer(m.from) = d
    BY PeerFacts DEF InboxesOK, InboxOrdered
  <1>6. m.n <= Len(local[Peer(m.from)].inbox)
    BY <1>5
  <1>7. ASSUME NEW i \in 1..L
        PROVE  LET x == t.mail[i].id
               IN  /\ x.kind = "text" /\ x.n >= 1
                   /\ x.n <= Acked(local[x.from]) + 1 /\ x.n <= local[x.from].sent
                   /\ t.mail[i].consumed => x.n <= Len(local[Peer(x.from)].inbox)
    BY <1>2, <1>6 DEF MailOK
  <1>8. \A i, j \in 1..L : i < j /\ t.mail[i].id.from = t.mail[j].id.from =>
              t.mail[i].id.n < t.mail[j].id.n
    BY <1>2 DEF MailOK
  <1>9. \A f \in Device : \A n \in 1..Acked(local[f]) : InMail(t, Text(f, n))
    BY <1>4 DEF MailOK
  <1>10. MailOK(t, local)
    BY <1>3, <1>7, <1>8, <1>9 DEF MailOK
  <1> QED
    BY <1>4, <1>10

-----------------------------------------------------------------------------
(* The handlers of the service.                                            *)

\* A handler that leaves the mailbox alone, and the links as they follow.
LEMMA SameMail ==
    ASSUME MailOK(service, local), ChainOK(service, local),
           NEW t, t.mail = service.mail,
           t.packets["welcome"] # "none" => IsMerged(local[Inviter]),
           t.complete => IsJoined(local[Joiner])
    PROVE  /\ MailOK(t, local) /\ ChainOK(t, local)
           /\ \A x : InMail(service, x) => InMail(t, x)
  BY DEF MailOK, ChainOK, InMail

LEMMA PublishOK ==
    ASSUME service \in Service, ChainOK(service, local), NEW m, m.kind \in Kinds,
           m \in Message, m = Welcome => IsMerged(local[Inviter])
    PROVE  LET t == PublishPacket(service, m)
           IN  /\ t \in Service /\ t.mail = service.mail
               /\ t.packets["welcome"] # "none" => IsMerged(local[Inviter])
               /\ t.complete => IsJoined(local[Joiner])
  <1> DEFINE t == PublishPacket(service, m)
  <1>1. CASE t = service
    BY <1>1 DEF ChainOK
  <1>2. CASE t # service
    <2>1. t = [service EXCEPT !.packets[m.kind] = "stored"]
      BY <1>2 DEF PublishPacket
    <2>2. service.packets \in [Kinds -> {"none", "stored", "finished"}]
      BY DEF Service
    <2>3. t \in Service /\ t.mail = service.mail /\ t.complete = service.complete
      BY <2>1, <2>2 DEF Service
    <2>4. t.packets = [service.packets EXCEPT ![m.kind] = "stored"]
      BY <2>1 DEF Service
    <2>5. m.kind = "welcome" => m = Welcome
      <3>1. m.kind = "welcome" => m \notin [kind : {"text"}, from : Device, n : Nat]
        OBVIOUS
      <3> QED
        BY <3>1, PacketFacts DEF Message, Welcome
    <2>6. t.packets["welcome"] # "none" => IsMerged(local[Inviter])
      <3>1. CASE m.kind = "welcome"
        BY <3>1, <2>5
      <3>2. CASE m.kind # "welcome"
        <4>1. "welcome" \in Kinds
          BY DEF Kinds
        <4>2. t.packets["welcome"] = service.packets["welcome"]
          BY <3>2, <2>2, <2>4, <4>1
        <4> QED
          BY <4>2 DEF ChainOK
      <3> QED
        BY <3>1, <3>2
    <2> QED
      BY <2>3, <2>6 DEF ChainOK
  <1> QED
    BY <1>1, <1>2

LEMMA ConsumeOK ==
    ASSUME service \in Service, ChainOK(service, local), NEW d \in Device,
           Awaited(d) \in local[d].received
    PROVE  LET t == ConsumePacket(service, Awaited(d))
           IN  /\ t \in Service /\ t.mail = service.mail
               /\ t.packets["welcome"] # "none" => IsMerged(local[Inviter])
               /\ t.complete => IsJoined(local[Joiner])
  <1> DEFINE m == Awaited(d)
             t == ConsumePacket(service, m)
  <1>1. service.packets \in [Kinds -> {"none", "stored", "finished"}]
    BY DEF Service
  <1>2. "welcome" \in Kinds /\ "invite_commit" \in Kinds /\ "key_package" \in Kinds
    BY DEF Kinds
  <1>3. CASE t = service
    BY <1>3 DEF ChainOK
  <1>4. CASE t # service /\ d = Joiner
    <2>1. m = Welcome /\ m.kind = "welcome" /\ IsJoined(local[Joiner])
      BY <1>4, AwaitedFacts, PacketFacts DEF IsJoined
    <2>2. t = [service EXCEPT !.packets["welcome"] = "finished",
                              !.packets["invite_commit"] = "finished",
                              !.complete = TRUE]
      BY <1>4, <2>1 DEF ConsumePacket
    <2> DEFINE ks == [[service.packets EXCEPT !["welcome"] = "finished"]
                         EXCEPT !["invite_commit"] = "finished"]
    <2>3. ks \in [Kinds -> {"none", "stored", "finished"}]
      BY <1>1, <1>2
    <2>4. t = [service EXCEPT !.packets = ks, !.complete = TRUE]
      BY <1>1, <2>2 DEF Service
    <2> HIDE DEF ks
    <2>5. t \in Service /\ t.mail = service.mail
      BY <2>3, <2>4 DEF Service
    <2> QED
      BY <2>1, <2>5 DEF ChainOK
  <1>5. CASE t # service /\ d # Joiner
    <2>1. m = KeyPackage /\ m.kind = "key_package"
      BY <1>5, AwaitedFacts, PacketFacts DEF Device
    <2>2. t = [service EXCEPT !.packets["key_package"] = "finished"]
      BY <1>5, <2>1 DEF ConsumePacket
    <2>3. t \in Service /\ t.mail = service.mail /\ t.complete = service.complete
      BY <1>1, <1>2, <2>2 DEF Service
    <2>4. t.packets = [service.packets EXCEPT !["key_package"] = "finished"]
      BY <2>2 DEF Service
    <2>5. t.packets["welcome"] = service.packets["welcome"]
      BY <1>1, <1>2, <2>4
    <2> QED
      BY <2>3, <2>5 DEF ChainOK
  <1> QED
    BY <1>3, <1>4, <1>5

LEMMA RowOK ==
    ASSUME service \in Service, ChainOK(service, local), NEW d \in Device
    PROVE  /\ Approve(service, d) \in Service /\ Approve(service, d).mail = service.mail
           /\ Approve(service, d).packets = service.packets
           /\ Approve(service, d).complete = service.complete
           /\ Terminate(service) \in Service /\ Terminate(service).mail = service.mail
           /\ Terminate(service).packets = service.packets
           /\ Terminate(service).complete = service.complete
  BY DEF Approve, Terminate, Service

LEMMA AfterOK ==
    ASSUME IInv, NEW r \in Request,
           RequestOK(r, local[r.from], IsMerged(local[Inviter]))
    PROVE  LET t == After(service, r)
           IN  /\ t \in Service /\ MailOK(t, local) /\ ChainOK(t, local)
               /\ \A x : InMail(service, x) => InMail(t, x)
  <1> DEFINE t == After(service, r)
  <1>1. /\ local \in [Device -> Journal] /\ service \in Service
        /\ MailOK(service, local) /\ ChainOK(service, local)
        /\ QueuesOK /\ InboxesOK
    BY DEF IInv, TypeOK
  <1>2. r.op \in Ops /\ r.from \in Device /\ r.msg \in Message \cup {Nothing}
    BY DEF Request
  <1>3. r.msg.kind # "nothing" => r.msg \in Message
    BY <1>2 DEF Nothing
  <1>4. CASE r.op \in {"consent", "reconsent", "close"}
    <2>1. t = Approve(service, r.from) \/ t = Terminate(service)
      BY <1>4 DEF After
    <2>2. t \in Service /\ t.mail = service.mail /\ t.packets = service.packets
          /\ t.complete = service.complete
      BY <1>1, <1>2, <2>1, RowOK
    <2> QED
      BY <1>1, <2>2, SameMail DEF ChainOK
  <1>5. CASE r.op = "publish"
    <2>1. t = PublishPacket(service, r.msg)
      BY <1>5 DEF After
    <2>2. r.msg.kind \in Kinds /\ (r.msg = Welcome => IsMerged(local[Inviter]))
      BY <1>5 DEF RequestOK
    <2>3. r.msg \in Message
      BY <1>3, <2>2 DEF Kinds
    <2>4. /\ t \in Service /\ t.mail = service.mail
          /\ t.packets["welcome"] # "none" => IsMerged(local[Inviter])
          /\ t.complete => IsJoined(local[Joiner])
      BY <1>1, <2>1, <2>2, <2>3, PublishOK
    <2> QED
      BY <1>1, <2>4, SameMail
  <1>6. CASE r.op = "consume"
    <2>1. r.msg = Awaited(r.from) /\ r.msg \in local[r.from].received
      BY <1>6 DEF RequestOK
    <2>2. t = ConsumePacket(service, Awaited(r.from))
      BY <1>6, <2>1 DEF After
    <2>3. /\ t \in Service /\ t.mail = service.mail
          /\ t.packets["welcome"] # "none" => IsMerged(local[Inviter])
          /\ t.complete => IsJoined(local[Joiner])
      BY <1>1, <1>2, <2>1, <2>2, ConsumeOK
    <2> QED
      BY <1>1, <2>3, SameMail
  <1>7. CASE r.op = "send"
    <2>1. t = Send(service, r.msg)
      BY <1>7 DEF After
    <2>2. /\ r.msg.kind = "text" /\ r.msg.from = r.from
          /\ r.msg.n >= 1 /\ r.msg.n <= Acked(local[r.from]) + 1
          /\ r.msg.n <= local[r.from].sent
      BY <1>7 DEF RequestOK
    <2>3. r.msg \in Message
      BY <1>3, <2>2
    <2>4. CASE t = service
      BY <2>4, <1>1
    <2>5. CASE t # service
      <3> DEFINE e == [id |-> r.msg, consumed |-> FALSE]
      <3>1. ~InMail(service, r.msg) /\ t = [service EXCEPT !.mail = Append(@, e)]
        BY <2>1, <2>5 DEF Send
      <3>2. e \in [id : Message, consumed : BOOLEAN]
        BY <2>3
      <3>3. Append(service.mail, e) \in Seq([id : Message, consumed : BOOLEAN])
        <4>1. service.mail \in Seq([id : Message, consumed : BOOLEAN])
          BY <1>1, MailTypes
        <4> HIDE DEF e
        <4> QED
          BY <3>2, <4>1
      <3> HIDE DEF e
      <3>4. t \in Service /\ t.mail = Append(service.mail, e)
        BY <1>1, <3>1, <3>3 DEF Service
      <3>5. t.packets = service.packets /\ t.complete = service.complete
        BY <1>1, <3>1 DEF Service
      <3>6. MailOK(t, local) /\ \A x : InMail(service, x) => InMail(t, x)
        BY <1>1, <1>2, <2>2, <2>3, <3>1, <3>4, SendKeepsMail DEF e
      <3>7. ChainOK(t, local)
        BY <1>1, <3>5 DEF ChainOK
      <3> QED
        BY <3>4, <3>6, <3>7
    <2> QED
      BY <2>4, <2>5
  <1>8. CASE r.op = "take"
    <2>1. t = Take(service, r.from, r.msg)
      BY <1>8 DEF After
    <2>2. r.msg.kind = "text" /\ r.msg \in local[r.from].received
      BY <1>8 DEF RequestOK
    <2>3. r.msg \in Message
      BY <1>3, <2>2
    <2>4. CASE t = service
      BY <2>4, <1>1
    <2>5. CASE t # service
      <3> DEFINE f == [i \in DOMAIN service.mail |->
                         IF service.mail[i].id = r.msg
                         THEN [id |-> r.msg, consumed |-> TRUE] ELSE service.mail[i]]
      <3>1. t = [service EXCEPT !.mail = f]
        BY <2>1, <2>5 DEF Take
      <3>2. f \in Seq([id : Message, consumed : BOOLEAN])
        <4> DEFINE Entry == [id : Message, consumed : BOOLEAN]
        <4>1. service.mail \in Seq(Entry) /\ DOMAIN service.mail = 1..Len(service.mail)
              /\ Len(service.mail) \in Nat
          BY <1>1, MailTypes
        <4>2. [id |-> r.msg, consumed |-> TRUE] \in Entry
          BY <2>3
        <4> DEFINE e == [id |-> r.msg, consumed |-> TRUE]
        <4> HIDE DEF Entry, e
        <4>3. \A i \in 1..Len(service.mail) : service.mail[i] \in Entry
          BY <4>1
        <4>4. f \in [1..Len(service.mail) -> Entry]
          BY <4>1, <4>2, <4>3 DEF e
        <4>5. f \in Seq(Entry)
          BY <4>1, <4>4, SeqDef
        <4> QED
          BY <4>5 DEF Entry
      <3> HIDE DEF f
      <3>3. t \in Service /\ t.mail = f
        BY <1>1, <3>1, <3>2 DEF Service
      <3>4. t.packets = service.packets /\ t.complete = service.complete
        BY <1>1, <3>1 DEF Service
      <3>5. MailOK(t, local) /\ \A x : InMail(service, x) => InMail(t, x)
        BY <1>1, <1>2, <2>2, <2>3, <3>3, TakeKeepsMail DEF f
      <3>6. ChainOK(t, local)
        BY <1>1, <3>4 DEF ChainOK
      <3> QED
        BY <3>3, <3>5, <3>6
    <2> QED
      BY <2>4, <2>5
  <1>9. CASE r.op \notin {"consent", "reconsent", "close", "publish", "consume",
                          "send", "take"}
    <2>1. t = service
      BY <1>9 DEF After
    <2> QED
      BY <1>1, <2>1
  <1> QED
    BY <1>4, <1>5, <1>6, <1>7, <1>8, <1>9

\* A step of the service: its row becomes t, and the workflow of d may take an
\* answer.
LEMMA ServiceStep ==
    ASSUME IInv, NEW d \in Device, NEW t \in Service, NEW c \in Client,
           MailOK(t, local), ChainOK(t, local),
           \A x : InMail(service, x) => InMail(t, x),
           service' = t, client' = [client EXCEPT ![d] = c], local' = local,
           late' \subseteq late, stamped' = stamped, expired' = expired,
           faults' = faults,
           RequestOK([op |-> c.pc, from |-> d, msg |-> c.msg], local[d],
                     IsMerged(local[Inviter])),
           ClientOK(d, c, local[d], local[Peer(d)], t, IsJoined(local[Joiner]))
    PROVE  IInv'
  <1>1. TypeOK'
    BY DEF IInv, TypeOK
  <1>2. QueuesOK' /\ InboxesOK' /\ MailOK(service', local') /\ ChainOK(service', local')
    BY DEF IInv, QueuesOK, InboxesOK
  <1>3. LateOK'
    BY DEF IInv, LateOK
  <1>4. client \in [Device -> Client]
    BY DEF IInv, TypeOK
  <1>5. client'[d] = c /\ \A e \in Device : e # d => client'[e] = client[e]
    BY <1>4
  <1>6. CallsOK'
    <2>1. RequestOf(d)' = [op |-> c.pc, from |-> d, msg |-> c.msg]
      BY <1>5 DEF RequestOf
    <2>2. \A e \in Device : e # d => RequestOf(e)' = RequestOf(e)
      BY <1>5 DEF RequestOf
    <2>3. \A e \in Device : RequestOK(RequestOf(e), local[e], IsMerged(local[Inviter]))
      BY DEF IInv, CallsOK
    <2>4. ASSUME NEW e \in Device
          PROVE  RequestOK(RequestOf(e)', local[e], IsMerged(local[Inviter]))
      BY <2>1, <2>2, <2>3
    <2> QED
      BY <2>4 DEF CallsOK
  <1>7. ClientsOK'
    <2>1. ASSUME NEW e \in Device, e # d
          PROVE  ClientOK(e, client[e], local[e], local[Peer(e)], t,
                          IsJoined(local[Joiner]))
      <3>1. ClientOK(e, client[e], local[e], local[Peer(e)], service,
                     IsJoined(local[Joiner]))
        BY DEF IInv, ClientsOK
      <3> QED
        BY <3>1 DEF ClientOK
    <2>2. ASSUME NEW e \in Device
          PROVE  ClientOK(e, client'[e], local[e], local[Peer(e)], t,
                          IsJoined(local[Joiner]))
      BY <2>1, <1>5
    <2> QED
      BY <2>2 DEF ClientsOK
  <1> QED
    BY <1>1, <1>2, <1>3, <1>6, <1>7 DEF IInv

LEMMA ServeLateOK ==
    ASSUME IInv, NEW r \in late, ServeLate(r)
    PROVE  IInv'
  <1>1. r \in Request /\ r.from \in Device
    BY DEF IInv, TypeOK, Request
  <1>2. RequestOK(r, local[r.from], IsMerged(local[Inviter]))
    BY DEF IInv, LateOK
  <1> DEFINE t == After(service, r)
             d == r.from
  <1>3. /\ t \in Service /\ MailOK(t, local) /\ ChainOK(t, local)
        /\ \A x : InMail(service, x) => InMail(t, x)
    BY <1>1, <1>2, AfterOK
  <1>4. service' = t /\ local' = local /\ client' = client /\ late' \subseteq late
        /\ stamped' = stamped /\ expired' = expired /\ faults' = faults
    BY DEF ServeLate
  <1>5. client \in [Device -> Client] /\ client[d] \in Client
    BY <1>1 DEF IInv, TypeOK
  <1>6. client' = [client EXCEPT ![d] = client[d]]
    BY <1>4, <1>5
  <1>7. RequestOK([op |-> client[d].pc, from |-> d, msg |-> client[d].msg], local[d],
                  IsMerged(local[Inviter]))
    BY <1>1 DEF IInv, CallsOK, RequestOf
  <1>8. ClientOK(d, client[d], local[d], local[Peer(d)], service, IsJoined(local[Joiner]))
    BY <1>1 DEF IInv, ClientsOK
  <1> HIDE DEF t
  <1>9. ClientOK(d, client[d], local[d], local[Peer(d)], t, IsJoined(local[Joiner]))
    BY <1>3, <1>8 DEF ClientOK
  <1> QED
    BY <1>1, <1>3, <1>4, <1>5, <1>6, <1>7, <1>9, ServiceStep

LEMMA ServeOK ==
    ASSUME IInv, NEW d \in Device, Serve(d)
    PROVE  IInv'
  <1> DEFINE r == RequestOf(d)
             t == After(service, r)
             ok == Succeeded(t, r)
             c == [client[d] EXCEPT
                     !.answer = IF ok THEN "ok" ELSE "denied",
                     !.ready = IF r.op = "snapshot" THEN t.consents = Device ELSE @,
                     !.complete = IF r.op = "snapshot" THEN t.complete ELSE @,
                     !.msg = IF r.op = "snapshot" THEN Waiting(t, d)
                             ELSE IF r.op = "inbox" THEN Earliest(t, d) ELSE @]
  <1>1. /\ client \in [Device -> Client] /\ client[d] \in Client
        /\ local \in [Device -> Journal] /\ QueuesOK
    BY DEF IInv, TypeOK
  <1>2. client[d].pc \in Ops /\ client[d].answer = "none"
    BY DEF Serve, Calling
  <1>3. r \in Request /\ r.from = d /\ r.op = client[d].pc /\ r.msg = client[d].msg
    BY <1>2, RequestOfType DEF RequestOf, IInv
  <1>4. RequestOK(r, local[d], IsMerged(local[Inviter]))
    BY DEF IInv, CallsOK
  <1>5. /\ t \in Service /\ MailOK(t, local) /\ ChainOK(t, local)
        /\ \A x : InMail(service, x) => InMail(t, x)
    BY <1>3, <1>4, AfterOK
  <1>6. client' = [client EXCEPT ![d] = c]
    BY <1>1 DEF Serve, Client
  <1>7. service' = t /\ local' = local /\ late' \subseteq late
        /\ stamped' = stamped /\ expired' = expired /\ faults' = faults
    BY DEF Serve
  <1>8. Waiting(t, d) \in {Nothing, Awaited(d)}
    BY DEF Waiting
  <1>9. Waiting(t, d) = Welcome => IsMerged(local[Inviter])
    <2> SUFFICES ASSUME Waiting(t, d) = Welcome
                 PROVE  IsMerged(local[Inviter])
      OBVIOUS
    <2>1. Welcome # Nothing
      BY PacketFacts DEF Welcome, Kinds
    <2>2. Awaited(d) = Welcome /\ t.packets[Awaited(d).kind] = "stored"
      BY <2>1 DEF Waiting
    <2>3. t.packets["welcome"] = "stored"
      BY <2>2, PacketFacts
    <2> QED
      BY <2>3, <1>5 DEF ChainOK
  <1>10. Earliest(t, d) # Nothing =>
           /\ Earliest(t, d) \in Message
           /\ Earliest(t, d).kind = "text" /\ Earliest(t, d).from = Peer(d)
           /\ Earliest(t, d).n >= 1 /\ Earliest(t, d).n <= Len(local[d].inbox) + 1
           /\ Earliest(t, d).n <= local[Peer(d)].sent
    BY <1>1, <1>5, EarliestIsNext
  <1>11. Awaited(d) \in Message
    BY AwaitedFacts
  <1>12. t.complete \in BOOLEAN
    BY <1>5 DEF Service
  <1>13. t.complete => IsJoined(local[Joiner])
    BY <1>5 DEF ChainOK
  <1>14. r.op = "send" /\ ok => InMail(t, r.msg)
    BY DEF Succeeded, Stored
  <1> HIDE DEF t, ok, r
  <1>15. c \in Client
    BY <1>1, <1>8, <1>10, <1>11, <1>12 DEF Client
  <1>16. /\ c.pc = client[d].pc
         /\ c.answer = IF ok THEN "ok" ELSE "denied"
         /\ c.complete = IF r.op = "snapshot" THEN t.complete ELSE client[d].complete
         /\ c.msg = IF r.op = "snapshot" THEN Waiting(t, d)
                    ELSE IF r.op = "inbox" THEN Earliest(t, d) ELSE client[d].msg
    BY <1>1 DEF Client
  <1> HIDE DEF c
  <1>17. RequestOK([op |-> c.pc, from |-> d, msg |-> c.msg], local[d],
                   IsMerged(local[Inviter]))
    <2>1. CASE r.op = "snapshot"
      BY <2>1, <1>3, <1>9, <1>16 DEF RequestOK
    <2>2. CASE r.op = "inbox"
      <3>1. Earliest(t, d) # Welcome
        BY <1>10, PacketFacts DEF Welcome, Kinds
      <3> QED
        BY <2>2, <3>1, <1>3, <1>16 DEF RequestOK
    <2>3. CASE r.op \notin {"snapshot", "inbox"}
      BY <2>3, <1>3, <1>4, <1>16 DEF RequestOK
    <2> QED
      BY <2>1, <2>2, <2>3
  <1>18. ClientOK(d, client[d], local[d], local[Peer(d)], service, IsJoined(local[Joiner]))
    BY DEF IInv, ClientsOK
  <1>19. ClientOK(d, c, local[d], local[Peer(d)], t, IsJoined(local[Joiner]))
    BY <1>3, <1>8, <1>10, <1>13, <1>14, <1>16, <1>18 DEF ClientOK
  <1> QED
    BY <1>5, <1>6, <1>7, <1>15, <1>17, <1>19, ServiceStep

-----------------------------------------------------------------------------
(* The steps of a workflow.                                                *)

Around(d) ==
    /\ service' = service
    /\ late' \subseteq late \cup {RequestOf(d)} /\ late' \subseteq Request
    /\ stamped' \subseteq Message /\ expired' \subseteq stamped'
    /\ faults' \in 0..MaxFaults

\* A workflow at rest or at a call without a message is fine.
LEMMA IdleClientOK ==
    ASSUME NEW d \in Device, NEW l, NEW p, NEW s, NEW joined, NEW merged
    PROVE  /\ RequestOK([op |-> Idle.pc, from |-> d, msg |-> Idle.msg], l, merged)
           /\ ClientOK(d, Idle, l, p, s, joined)
  <1>1. Nothing # Welcome
    BY PacketFacts DEF Welcome, Kinds
  <1> QED
    BY <1>1, IdleFacts DEF RequestOK, ClientOK

LEMMA CallClientOK ==
    ASSUME NEW d \in Device, NEW l, NEW p, NEW s, NEW joined, NEW merged,
           NEW pc \in {"consent", "status", "recheck", "snapshot", "inbox", "close",
                       "reconsent"},
           NEW n \in 0..Limit,
           pc \in {"consent", "status", "recheck", "snapshot"} =>
               l.phase \in {"prepared", "invited", "joined"},
           pc = "inbox" => l.phase = "active"
    PROVE  /\ At(pc, Nothing, n) \in Client
           /\ RequestOK([op |-> At(pc, Nothing, n).pc, from |-> d,
                         msg |-> At(pc, Nothing, n).msg], l, merged)
           /\ ClientOK(d, At(pc, Nothing, n), l, p, s, joined)
  <1>1. Nothing # Welcome
    BY PacketFacts DEF Welcome, Kinds
  <1>2. /\ At(pc, Nothing, n) \in Client
        /\ At(pc, Nothing, n).pc = pc /\ At(pc, Nothing, n).msg = Nothing
        /\ At(pc, Nothing, n).answer = "none" /\ At(pc, Nothing, n).complete = FALSE
    <2>1. pc \in Ops /\ Nothing \in Message \cup {Nothing}
      BY DEF Ops
    <2> QED
      BY <2>1, ConstantsAssumption DEF At, Idle, Client
  <1> QED
    BY <1>1, <1>2 DEF RequestOK, ClientOK

\* A step that leaves the journal alone.
LEMMA ClientStep ==
    ASSUME IInv, NEW d \in Device, NEW c \in Client, Around(d), local' = local,
           client' = [client EXCEPT ![d] = c],
           RequestOK([op |-> c.pc, from |-> d, msg |-> c.msg], local[d],
                     IsMerged(local[Inviter])),
           ClientOK(d, c, local[d], local[Peer(d)], service, IsJoined(local[Joiner]))
    PROVE  IInv'
  <1>1. local \in [Device -> Journal] /\ local[d] \in Journal
    BY DEF IInv, TypeOK
  <1>2. StepOf(d, local[d], c) /\ late' \subseteq Request
    BY <1>1 DEF StepOf, Around
  <1>3. QueueOK(d, local[d]) /\ InboxOrdered(d, local[d], local[Peer(d)])
    BY DEF IInv, QueuesOK, InboxesOK
  <1>4. Acked(local[d]) \in Nat /\ local[d].sent \in Nat /\ Len(local[d].inbox) \in Nat
    BY <1>1, <1>3, AckedType, JournalTypes
  <1>5. Keeps(d, local[d], local[d])
    BY <1>4 DEF Keeps
  <1>6. d = Joiner /\ IsJoined(local[d]) => IsMerged(local[Inviter])
    BY DEF IInv, ChainOK
  <1>7. \A n \in 1..Acked(local[d]) : n <= Acked(local[d])
    BY <1>4
  <1> QED
    BY <1>1, <1>2, <1>3, <1>5, <1>6, <1>7, DeviceStep

\* The workflow ends, or goes on with a call that has no message.
LEMMA CallStep ==
    ASSUME IInv, NEW d \in Device, Around(d), local' = local,
           \/ Stop(d)
           \/ \E pc \in {"consent", "status", "recheck", "snapshot", "inbox", "close",
                         "reconsent"}, n \in 0..Limit :
                 /\ Goto(d, pc, Nothing, n)
                 /\ pc \in {"consent", "status", "recheck", "snapshot"} =>
                       local[d].phase \in {"prepared", "invited", "joined"}
                 /\ pc = "inbox" => local[d].phase = "active"
    PROVE  IInv'
  <1>1. CASE Stop(d)
    BY <1>1, ClientStep, IdleClientOK, IdleFacts DEF Stop
  <1>2. CASE ~Stop(d)
    <2>1. PICK pc \in {"consent", "status", "recheck", "snapshot", "inbox", "close",
                       "reconsent"}, n \in 0..Limit :
                 /\ Goto(d, pc, Nothing, n)
                 /\ pc \in {"consent", "status", "recheck", "snapshot"} =>
                       local[d].phase \in {"prepared", "invited", "joined"}
                 /\ pc = "inbox" => local[d].phase = "active"
      BY <1>2
    <2>2. client' = [client EXCEPT ![d] = At(pc, Nothing, n)]
      BY <2>1 DEF Goto, At
    <2>3. /\ At(pc, Nothing, n) \in Client
          /\ RequestOK([op |-> At(pc, Nothing, n).pc, from |-> d,
                        msg |-> At(pc, Nothing, n).msg], local[d],
                       IsMerged(local[Inviter]))
          /\ ClientOK(d, At(pc, Nothing, n), local[d], local[Peer(d)], service,
                      IsJoined(local[Joiner]))
      BY <2>1, CallClientOK
    <2> QED
      BY <2>2, <2>3, ClientStep
  <1> QED
    BY <1>1, <1>2

LEMMA QuietAround ==
    ASSUME IInv, NEW d \in Device, Quiet, stamped' = stamped
    PROVE  Around(d)
  BY DEF IInv, TypeOK, Quiet, Around

LEMMA StampedAround ==
    ASSUME IInv, NEW d \in Device, Quiet, NEW q \in Seq(Message),
           stamped' = stamped \cup Elements(q)
    PROVE  Around(d)
  <1>1. Elements(q) \subseteq Message
    BY DEF Elements
  <1> QED
    BY <1>1 DEF IInv, TypeOK, Quiet, Around

LEMMA PhaseFacts ==
    ASSUME IInv, NEW d \in Device
    PROVE  /\ client[d].pc \in {"consent", "status", "recheck", "snapshot", "step",
                                "publish", "consume"} =>
                 local[d].phase \in {"prepared", "invited", "joined"}
           /\ client[d].pc \in {"send", "inbox", "take"} => local[d].phase = "active"
           /\ client[d].count \in 0..Limit
           /\ 0 \in 0..Limit
  <1>1. client[d].count \in 0..Limit
    BY DEF IInv, TypeOK, Client
  <1> QED
    BY <1>1, ConstantsAssumption DEF IInv, ClientsOK, ClientOK

LEMMA InterruptOK ==
    ASSUME IInv, NEW d \in Device, Interrupt(d)
    PROVE  IInv'
  <1>1. Calling(d) => RequestOf(d) \in Request
    BY RequestOfType DEF Calling, IInv
  <1>2. Around(d)
    BY <1>1, ConstantsAssumption DEF Interrupt, Around, IInv, TypeOK
  <1> QED
    BY <1>2, CallStep DEF Interrupt, Stop

LEMMA ExpireOK ==
    ASSUME IInv, NEW m \in stamped, Expire(m)
    PROVE  IInv'
  <1>1. TypeOK'
    BY DEF IInv, TypeOK, Expire
  <1> QED
    BY <1>1 DEF IInv, Expire, QueuesOK, InboxesOK, LateOK, CallsOK, ClientsOK, RequestOf

LEMMA StepsThatOnlyCall ==
    ASSUME IInv, NEW d \in Device,
           \/ SyncInvitation(d) \/ Approved(d) \/ PacketDone(d) \/ SyncClose(d)
    PROVE  IInv'
  <1>1. Around(d) /\ local' = local
    BY QuietAround DEF SyncInvitation, Approved, PacketDone, SyncClose
  <1>2. CASE SyncInvitation(d)
    BY <1>1, <1>2, CallStep, PhaseFacts DEF SyncInvitation
  <1>3. CASE Approved(d)
    BY <1>1, <1>3, CallStep, PhaseFacts DEF Approved, Answered
  <1>4. CASE PacketDone(d)
    BY <1>1, <1>4, CallStep, PhaseFacts DEF PacketDone, Answered
  <1>5. CASE SyncClose(d)
    BY <1>1, <1>5, CallStep, PhaseFacts DEF SyncClose
  <1> QED
    BY <1>2, <1>3, <1>4, <1>5

LEMMA TakeDoneOK ==
    ASSUME IInv, NEW d \in Device, TakeDone(d)
    PROVE  IInv'
  <1>1. Around(d) /\ local' = local
    BY QuietAround DEF TakeDone
  <1>2. client[d].count + 1 < Limit => client[d].count + 1 \in 0..Limit
    BY PhaseFacts, ConstantsAssumption
  <1> QED
    BY <1>1, <1>2, CallStep, PhaseFacts DEF TakeDone, Answered

\* A step that touches neither the texts nor the queue of the journal.
LEMMA FieldStep ==
    ASSUME IInv, NEW d \in Device, NEW l \in Journal, NEW c \in Client, Around(d),
           local' = [local EXCEPT ![d] = l], client' = [client EXCEPT ![d] = c],
           l.outbox = local[d].outbox, l.sent = local[d].sent,
           l.received = local[d].received, l.inbox = local[d].inbox,
           l.phase = "active" <=> local[d].phase = "active",
           RequestOK([op |-> c.pc, from |-> d, msg |-> c.msg], l,
                     IsMerged(local[Inviter])),
           ClientOK(d, c, l, local[Peer(d)], service, IsJoined(local[Joiner]))
    PROVE  IInv'
  <1>1. local \in [Device -> Journal] /\ local[d] \in Journal
    BY DEF IInv, TypeOK
  <1>2. StepOf(d, l, c) /\ late' \subseteq Request
    BY DEF StepOf, Around
  <1>3. QueueOK(d, local[d]) /\ InboxOrdered(d, local[d], local[Peer(d)])
    BY DEF IInv, QueuesOK, InboxesOK
  <1>4. QueueOK(d, l) /\ InboxOrdered(d, l, local[Peer(d)])
    BY <1>3 DEF QueueOK, PacketsOf, TextsOf, InboxOrdered
  <1>5. Acked(local[d]) \in Nat /\ local[d].sent \in Nat /\ Len(local[d].inbox) \in Nat
    BY <1>1, <1>3, AckedType, JournalTypes
  <1>6. Acked(l) = Acked(local[d])
    BY DEF Acked
  <1>7. Keeps(d, local[d], l)
    BY <1>5, <1>6 DEF Keeps, IsMerged
  <1>8. d = Joiner /\ IsJoined(l) => IsMerged(local[Inviter])
    BY DEF IInv, ChainOK, IsJoined
  <1>9. \A n \in 1..Acked(l) : n <= Acked(local[d])
    BY <1>5, <1>6
  <1> QED
    BY <1>1, <1>2, <1>4, <1>7, <1>8, <1>9, DeviceStep

LEMMA MarkFailedOK ==
    ASSUME IInv, NEW d \in Device, Around(d), MarkFailed(d),
           local[d].phase \in {"prepared", "invited", "joined"}
    PROVE  IInv'
  <1> DEFINE l == [local[d] EXCEPT !.phase = "recovery_required"]
  <1>1. local \in [Device -> Journal] /\ local[d] \in Journal
    BY DEF IInv, TypeOK
  <1>2. local' = [local EXCEPT ![d] = l] /\ client' = [client EXCEPT ![d] = Idle]
    BY <1>1 DEF MarkFailed, Stop
  <1>3. /\ l \in Journal /\ l.phase = "recovery_required"
        /\ l.outbox = local[d].outbox /\ l.sent = local[d].sent
        /\ l.received = local[d].received /\ l.inbox = local[d].inbox
    BY <1>1 DEF Journal
  <1> HIDE DEF l
  <1> QED
    BY <1>2, <1>3, IdleFacts, IdleClientOK, FieldStep

LEMMA StatusReadOK ==
    ASSUME IInv, NEW d \in Device, StatusRead(d)
    PROVE  IInv'
  <1>1. Around(d)
    BY QuietAround DEF StatusRead
  <1>2. local[d].phase \in {"prepared", "invited", "joined"}
    BY PhaseFacts DEF StatusRead, Answered
  <1>3. CASE MarkFailed(d)
    BY <1>1, <1>2, <1>3, MarkFailedOK
  <1>4. CASE ~MarkFailed(d)
    BY <1>1, <1>2, <1>4, CallStep, PhaseFacts DEF StatusRead
  <1> QED
    BY <1>3, <1>4

LEMMA ClosingStep ==
    ASSUME IInv, NEW d \in Device, Around(d), NEW x \in {"closing", "closed"},
           local' = [local EXCEPT ![d].closing = x],
           Stop(d) \/ Goto(d, "close", Nothing, 0)
    PROVE  IInv'
  <1> DEFINE l == [local[d] EXCEPT !.closing = x]
             c == IF Stop(d) THEN Idle ELSE At("close", Nothing, 0)
  <1>1. local \in [Device -> Journal] /\ local[d] \in Journal
    BY DEF IInv, TypeOK
  <1>2. local' = [local EXCEPT ![d] = l] /\ client' = [client EXCEPT ![d] = c]
    BY <1>1 DEF Stop, Goto, At
  <1>3. /\ l \in Journal /\ l.phase = local[d].phase
        /\ l.outbox = local[d].outbox /\ l.sent = local[d].sent
        /\ l.received = local[d].received /\ l.inbox = local[d].inbox
    BY <1>1 DEF Journal
  <1> HIDE DEF l
  <1>4. 0 \in 0..Limit
    BY PhaseFacts
  <1>5. /\ At("close", Nothing, 0) \in Client
        /\ RequestOK([op |-> At("close", Nothing, 0).pc, from |-> d,
                      msg |-> At("close", Nothing, 0).msg], l, IsMerged(local[Inviter]))
        /\ ClientOK(d, At("close", Nothing, 0), l, local[Peer(d)], service,
                    IsJoined(local[Joiner]))
    BY <1>4, CallClientOK
  <1>6. /\ c \in Client
        /\ RequestOK([op |-> c.pc, from |-> d, msg |-> c.msg], l, IsMerged(local[Inviter]))
        /\ ClientOK(d, c, l, local[Peer(d)], service, IsJoined(local[Joiner]))
    BY <1>5, IdleFacts, IdleClientOK
  <1> HIDE DEF c
  <1> QED
    BY <1>2, <1>3, <1>6, FieldStep

LEMMA BeginCloseOK ==
    ASSUME IInv, NEW d \in Device, BeginClose(d)
    PROVE  IInv'
  BY QuietAround, ClosingStep DEF BeginClose

LEMMA CloseDoneOK ==
    ASSUME IInv, NEW d \in Device, CloseDone(d)
    PROVE  IInv'
  <1>1. Around(d)
    BY QuietAround DEF CloseDone
  <1>2. CASE Answered(d, "close", "ok") /\ Stop(d)
             /\ local' = [local EXCEPT ![d].closing = "closed"]
    BY <1>1, <1>2, ClosingStep
  <1>3. CASE /\ local' = local
             /\ \/ Goto(d, "reconsent", Nothing, 0)
                \/ Goto(d, "close", Nothing, 0)
                \/ Stop(d)
    BY <1>1, <1>3, CallStep, PhaseFacts
  <1> QED
    BY <1>2, <1>3 DEF CloseDone

LEMMA SnapshotReadOK ==
    ASSUME IInv, NEW d \in Device, SnapshotRead(d)
    PROVE  IInv'
  <1>1. Around(d) /\ local' = local
    BY QuietAround DEF SnapshotRead
  <1>2. CASE Stop(d) \/ Goto(d, "recheck", Nothing, 0)
    BY <1>1, <1>2, CallStep, PhaseFacts DEF SnapshotRead
  <1>3. CASE client' = [client EXCEPT ![d].pc = "step", ![d].answer = "none"]
    <2> DEFINE c == [client[d] EXCEPT !.pc = "step", !.answer = "none"]
    <2>1. client \in [Device -> Client] /\ client[d] \in Client
      BY DEF IInv, TypeOK
    <2>2. client' = [client EXCEPT ![d] = c]
      BY <1>3, <2>1
    <2>3. c \in Client /\ c.pc = "step" /\ c.answer = "none" /\ c.msg = client[d].msg
          /\ c.complete = client[d].complete
      BY <2>1 DEF Client
    <2> HIDE DEF c
    <2>4. client[d].pc = "snapshot"
      BY DEF SnapshotRead
    <2>5. RequestOK([op |-> c.pc, from |-> d, msg |-> c.msg], local[d],
                    IsMerged(local[Inviter]))
      BY <2>3 DEF IInv, CallsOK, RequestOK, RequestOf
    <2>6. ClientOK(d, c, local[d], local[Peer(d)], service, IsJoined(local[Joiner]))
      BY <2>3, <2>4 DEF IInv, ClientsOK, ClientOK
    <2> QED
      BY <1>1, <2>2, <2>3, <2>5, <2>6, ClientStep
  <1> QED
    BY <1>2, <1>3 DEF SnapshotRead

-----------------------------------------------------------------------------
(* The steps of the admission.                                             *)

\* The packets a device may have queued, and the first one that is released.
LEMMA ReleasedFacts ==
    ASSUME NEW d \in Device, NEW l \in Journal, PacketsOf(d, l)
    PROVE  /\ Released(l) \in Seq(Message)
           /\ Released(l) = <<>> => l.outbox = <<>>
           /\ Released(l) # <<>> =>
                 /\ l.outbox # <<>> /\ Released(l)[1] = l.outbox[1]
                 /\ l.outbox[1] \in Message /\ l.outbox[1].kind \in Kinds
                 /\ l.outbox[1] = Welcome => d = Inviter /\ IsMerged(l)
  <1>1. /\ KeyPackage \in Message /\ Commit \in Message /\ Welcome \in Message
        /\ KeyPackage # Commit /\ Commit # Welcome /\ KeyPackage # Welcome
        /\ KeyPackage.kind \in Kinds /\ Commit.kind \in Kinds /\ Welcome.kind \in Kinds
    BY PacketFacts DEF Kinds
  <1>2. l.outbox \in {<<>>, <<Commit, Welcome>>, <<Welcome>>, <<KeyPackage>>}
        /\ l.outbox \in Seq(Message)
    BY JournalTypes DEF PacketsOf
  <1>3. CASE l.outbox = <<Commit, Welcome>>
    <2>1. Commit \in Elements(l.outbox)
      BY <1>3 DEF Elements
    <2>2. Released(l) = <<Commit>>
      BY <1>1, <1>3, <2>1, WithoutSecond DEF Released, Commit, Welcome
    <2> QED
      BY <1>1, <1>3, <2>2
  <1>4. CASE l.outbox # <<Commit, Welcome>>
    <2>1. Commit \notin Elements(l.outbox)
      BY <1>1, <1>2, <1>4 DEF Elements
    <2>2. Released(l) = l.outbox
      BY <2>1 DEF Released, Commit
    <2>3. l.outbox # <<>> => l.outbox[1] \in {Welcome, KeyPackage}
      BY <1>2, <1>4
    <2>4. l.outbox = <<Welcome>> => d = Inviter /\ KeyPackage \in l.received
      BY <1>1 DEF PacketsOf
    <2>5. l.outbox # <<>> /\ l.outbox[1] = Welcome => l.outbox = <<Welcome>>
      BY <1>1, <1>2, <1>4
    <2> QED
      BY <1>1, <1>2, <2>1, <2>2, <2>3, <2>4, <2>5 DEF IsMerged
  <1> QED
    BY <1>3, <1>4

LEMMA PacketsDelivered ==
    ASSUME NEW d \in Device, NEW l \in Journal, PacketsOf(d, l), l.outbox # <<>>
    PROVE  LET w == Without(l.outbox, l.outbox[1])
           IN  /\ w \in Seq(Message)
               /\ l.outbox = <<Commit, Welcome>> => w = <<Welcome>>
               /\ l.outbox # <<Commit, Welcome>> => w = <<>>
  <1> DEFINE w == Without(l.outbox, l.outbox[1])
  <1>1. KeyPackage # Commit /\ Commit # Welcome /\ KeyPackage # Welcome
    BY PacketFacts
  <1>2. l.outbox \in {<<Commit, Welcome>>, <<Welcome>>, <<KeyPackage>>}
        /\ l.outbox \in Seq(Message)
    BY JournalTypes DEF PacketsOf
  <1>3. \A i \in 2..Len(l.outbox) : l.outbox[i] # l.outbox[1]
    BY <1>1, <1>2
  <1>4. w \in Seq(Message) /\ Len(w) = Len(l.outbox) - 1
        /\ \A i \in 1..Len(w) : w[i] = l.outbox[i + 1]
    BY <1>2, <1>3, WithoutHead
  <1> HIDE DEF w
  <1>5. CASE l.outbox = <<Commit, Welcome>>
    <2>1. Len(w) = 1 /\ w[1] = Welcome
      BY <1>4, <1>5
    <2>2. w = <<Welcome>>
      BY <1>4, <2>1
    <2> QED
      BY <1>4, <1>5, <2>2 DEF w
  <1>6. CASE l.outbox # <<Commit, Welcome>>
    <2>1. Len(w) = 0
      BY <1>2, <1>4, <1>6
    <2>2. w = <<>>
      BY <1>4, <2>1
    <2> QED
      BY <1>4, <1>6, <2>2 DEF w
  <1> QED
    BY <1>5, <1>6

LEMMA PublishNextOK ==
    ASSUME IInv, NEW d \in Device, PublishNext(d)
    PROVE  IInv'
  <1> DEFINE l == local[d]
             e == Released(l)[1]
  <1>1. l \in Journal /\ QueueOK(d, l) /\ client[d].pc = "step"
    BY DEF IInv, TypeOK, QueuesOK, PublishNext
  <1>2. l.phase \in {"prepared", "invited", "joined"} /\ PacketsOf(d, l)
    BY <1>1, PhaseFacts DEF QueueOK
  <1>3. Released(l) # <<>>
    BY DEF PublishNext, Publishes
  <1>4. /\ Released(l) \in Seq(Message)
        /\ l.outbox # <<>> /\ e = l.outbox[1] /\ e \in Message /\ e.kind \in Kinds
        /\ e = Welcome => IsMerged(local[Inviter])
    BY <1>1, <1>2, <1>3, ReleasedFacts
  <1>5. Around(d)
    BY <1>4, StampedAround DEF PublishNext
  <1>6. CASE e \in expired
    BY <1>2, <1>5, <1>6, MarkFailedOK DEF PublishNext
  <1>7. CASE e \notin expired
    <2>1. client' = [client EXCEPT ![d] = At("publish", e, 0)] /\ local' = local
      BY <1>7 DEF PublishNext, Goto, At
    <2> DEFINE c == At("publish", e, 0)
    <2>2. "publish" \in Ops /\ 0 \in 0..Limit
      BY ConstantsAssumption DEF Ops
    <2>3. /\ c \in Client /\ c.pc = "publish" /\ c.msg = e /\ c.answer = "none"
          /\ c.complete = FALSE
      <3>1. e \in Message \cup {Nothing}
        BY <1>4
      <3> HIDE DEF e
      <3> QED
        BY <3>1, <2>2, ConstantsAssumption DEF At, Idle, Client
    <2> HIDE DEF c, e
    <2>4. RequestOK([op |-> c.pc, from |-> d, msg |-> c.msg], local[d],
                    IsMerged(local[Inviter]))
      BY <1>4, <2>3 DEF RequestOK
    <2>5. ClientOK(d, c, local[d], local[Peer(d)], service, IsJoined(local[Joiner]))
      BY <1>2, <1>4, <2>3 DEF ClientOK
    <2> QED
      BY <1>5, <2>1, <2>3, <2>4, <2>5, ClientStep DEF c
  <1> QED
    BY <1>6, <1>7

LEMMA PublishDoneOK ==
    ASSUME IInv, NEW d \in Device, PublishDone(d)
    PROVE  IInv'
  <1>1. Around(d)
    BY QuietAround DEF PublishDone
  <1>2. client[d].pc = "publish"
    BY DEF PublishDone, Accepts, Answered
  <1>3. local[d].phase \in {"prepared", "invited", "joined"}
    BY <1>2, PhaseFacts
  <1>4. CASE local' = local /\ Goto(d, "recheck", Nothing, 0)
    BY <1>1, <1>3, <1>4, CallStep, PhaseFacts
  <1>5. CASE local' = Delivered(d) /\ Goto(d, "snapshot", Nothing, 0)
    <2> DEFINE w == Without(local[d].outbox, client[d].msg)
               l == [local[d] EXCEPT !.outbox = w]
               c == At("snapshot", Nothing, 0)
    <2>1. local \in [Device -> Journal] /\ local[d] \in Journal
      BY DEF IInv, TypeOK
    <2>2. QueueOK(d, local[d]) /\ InboxOrdered(d, local[d], local[Peer(d)])
      BY DEF IInv, QueuesOK, InboxesOK
    <2>3. PacketsOf(d, local[d]) /\ local[d].sent = 0
      BY <1>3, <2>2 DEF QueueOK
    <2>4. local[d].outbox # <<>> /\ client[d].msg = local[d].outbox[1]
      BY <1>2 DEF IInv, ClientsOK, ClientOK
    <2>5. /\ w \in Seq(Message)
          /\ local[d].outbox = <<Commit, Welcome>> => w = <<Welcome>>
          /\ local[d].outbox # <<Commit, Welcome>> => w = <<>>
      BY <2>1, <2>3, <2>4, PacketsDelivered
    <2>6. local' = [local EXCEPT ![d] = l] /\ client' = [client EXCEPT ![d] = c]
      BY <1>5, <2>1 DEF Delivered, Goto, At
    <2> HIDE DEF w
    <2>7. /\ l \in Journal /\ l.outbox = w /\ l.phase = local[d].phase
          /\ l.sent = local[d].sent /\ l.received = local[d].received
          /\ l.inbox = local[d].inbox
      BY <2>1, <2>5 DEF Journal
    <2> HIDE DEF l
    <2>8. PacketsOf(d, l)
      <3>1. CASE d = Inviter
        BY <3>1, <2>3, <2>4, <2>5, <2>7 DEF PacketsOf
      <3>2. CASE d # Inviter
        <4>1. local[d].outbox # <<Commit, Welcome>>
          BY <3>2, <2>3 DEF PacketsOf
        <4> QED
          BY <3>2, <4>1, <2>5, <2>7 DEF PacketsOf
      <3> QED
        BY <3>1, <3>2
    <2>9. QueueOK(d, l) /\ InboxOrdered(d, l, local[Peer(d)])
      BY <1>3, <2>2, <2>3, <2>7, <2>8 DEF QueueOK, InboxOrdered
    <2>10. Acked(l) = 0 /\ Acked(local[d]) = 0
      BY <1>3, <2>7 DEF Acked
    <2>11. IsMerged(local[d]) => IsMerged(l)
      <3>1. Commit \notin Elements(w)
        BY <2>5, PacketFacts DEF Elements
      <3> QED
        BY <3>1, <2>7 DEF IsMerged
    <2>12. Keeps(d, local[d], l)
      BY <1>3, <2>1, <2>7, <2>10, <2>11, JournalTypes DEF Keeps
    <2>13. d = Joiner /\ IsJoined(l) => IsMerged(local[Inviter])
      BY <2>7 DEF IInv, ChainOK, IsJoined
    <2>14. /\ c \in Client
           /\ RequestOK([op |-> c.pc, from |-> d, msg |-> c.msg], l,
                        IsMerged(local[Inviter]))
           /\ ClientOK(d, c, l, local[Peer(d)], service, IsJoined(local[Joiner]))
      BY <1>3, <2>7, CallClientOK, PhaseFacts
    <2> HIDE DEF c
    <2>15. StepOf(d, l, c) /\ late' \subseteq Request
      BY <1>1, <2>6 DEF StepOf, Around
    <2> QED
      BY <1>3, <2>7, <2>9, <2>10, <2>12, <2>13, <2>14, <2>15, DeviceStep
  <1> QED
    BY <1>4, <1>5 DEF PublishDone

LEMMA LearnPacketOK ==
    ASSUME IInv, NEW d \in Device, LearnPacket(d)
    PROVE  IInv'
  <1> DEFINE m == client[d].msg
             l == Learned(local[d], d, m)
             c == At("consume", m, 0)
  <1>1. local \in [Device -> Journal] /\ local[d] \in Journal /\ client[d].pc = "step"
        /\ QueueOK(d, local[d]) /\ InboxOrdered(d, local[d], local[Peer(d)])
    BY DEF IInv, TypeOK, QueuesOK, InboxesOK, LearnPacket
  <1>2. local[d].phase \in {"prepared", "invited", "joined"} /\ PacketsOf(d, local[d])
        /\ local[d].sent = 0
    BY <1>1, PhaseFacts DEF QueueOK
  <1>3. Released(local[d]) \in Seq(Message)
    BY <1>1, <1>2, ReleasedFacts
  <1>4. Around(d)
    BY <1>3, StampedAround DEF LearnPacket
  <1>5. CASE ~CanLearn(local[d], d, m)
    BY <1>4, <1>5, CallStep DEF LearnPacket
  <1>6. CASE CanLearn(local[d], d, m)
    <2>1. m = Awaited(d) /\ (m = Welcome => IsMerged(local[Inviter]))
      <3>1. ClientOK(d, client[d], local[d], local[Peer(d)], service,
                     IsJoined(local[Joiner]))
        BY DEF IInv, ClientsOK
      <3>2. RequestOK(RequestOf(d), local[d], IsMerged(local[Inviter]))
            /\ RequestOf(d).msg = m
        BY DEF IInv, CallsOK, RequestOf
      <3> QED
        BY <1>1, <3>1, <3>2 DEF ClientOK, RequestOK, LearnPacket
    <2>2. m \in Message /\ m.kind \in Kinds /\ m.kind # "text"
          /\ (d = Inviter => m = KeyPackage) /\ (d = Joiner => m = Welcome)
      BY <2>1, AwaitedFacts DEF Kinds
    <2>3. local' = [local EXCEPT ![d] = l] /\ client' = [client EXCEPT ![d] = c]
      BY <1>1, <1>6 DEF LearnPacket, Goto, At
    <2>4. 0 \in 0..Limit /\ "consume" \in Ops
      BY ConstantsAssumption DEF Ops
    <2> HIDE DEF m
    <2>5. /\ c \in Client /\ c.pc = "consume" /\ c.msg = m /\ c.answer = "none"
          /\ c.complete = FALSE
      BY <2>2, <2>4, ConstantsAssumption DEF At, Idle, Client
    <2> HIDE DEF c
    <2>6. ClientOK(d, c, local[d], local[Peer(d)], service, IsJoined(local[Joiner]))
      BY <1>2, <2>5 DEF ClientOK
    <2>7. CASE m \in local[d].received
      <3>1. local' = local
        BY <1>1, <2>3, <2>7 DEF Learned
      <3>2. RequestOK([op |-> c.pc, from |-> d, msg |-> c.msg], local[d],
                      IsMerged(local[Inviter]))
        BY <2>1, <2>5, <2>7 DEF RequestOK
      <3> QED
        BY <1>4, <2>3, <2>5, <2>6, <3>1, <3>2, ClientStep
    <2>8. CASE m \notin local[d].received
      <3>1. local[d].phase = "prepared"
        BY <1>6, <2>8 DEF CanLearn
      <3> DEFINE o == IF d = Inviter
                      THEN local[d].outbox \o <<Packet("invite_commit"), Packet("welcome")>>
                      ELSE local[d].outbox
                 ph == IF d = Inviter THEN "invited" ELSE "joined"
      <3>2. l = [local[d] EXCEPT !.received = @ \cup {m}, !.phase = ph, !.outbox = o]
        BY <2>8 DEF Learned
      <3>3. d = Inviter => local[d].outbox = <<>>
        BY <1>2, <2>2, <2>8 DEF PacketsOf
      <3>4. d = Inviter => o = <<Commit, Welcome>>
        <4>1. <<Commit, Welcome>> \in Seq(Message)
          BY PacketFacts
        <4>2. d = Inviter => o = <<>> \o <<Commit, Welcome>>
          BY <3>3 DEF Commit, Welcome
        <4> QED
          BY <4>1, <4>2, EmptyConcat
      <3>5. d # Inviter => o = local[d].outbox
        OBVIOUS
      <3> HIDE DEF o
      <3>6. o \in Seq(Message)
        <4>1. <<Commit, Welcome>> \in Seq(Message)
          BY PacketFacts
        <4> QED
          BY <1>1, <3>4, <3>5, <4>1, JournalTypes
      <3>7. /\ l \in Journal /\ l.outbox = o /\ l.phase \in {"invited", "joined"}
            /\ l.sent = local[d].sent /\ l.received = local[d].received \cup {m}
            /\ l.inbox = local[d].inbox
        <4>1. ph \in {"invited", "joined"}
          OBVIOUS
        <4> HIDE DEF ph
        <4>2. local[d].received \cup {m} \in SUBSET Message
          BY <1>1, <2>2, JournalTypes
        <4> QED
          BY <1>1, <3>2, <3>6, <4>1, <4>2 DEF Journal
      <3> HIDE DEF l
      <3>8. PacketsOf(d, l)
        BY <1>2, <2>2, <3>4, <3>5, <3>7 DEF PacketsOf
      <3>9. QueueOK(d, l)
        BY <1>2, <3>7, <3>8 DEF QueueOK
      <3>10. InboxOrdered(d, l, local[Peer(d)])
        BY <1>1, <2>2, <3>7 DEF InboxOrdered
      <3>11. Acked(l) = 0 /\ Acked(local[d]) = 0
        BY <1>2, <3>7 DEF Acked
      <3>12. d = Inviter => ~IsMerged(local[d])
        BY <2>2, <2>8 DEF IsMerged
      <3>13. Keeps(d, local[d], l)
        BY <1>1, <1>2, <3>7, <3>11, <3>12, JournalTypes DEF Keeps
      <3>14. d = Joiner => IsMerged(local[Inviter])
        BY <2>1, <2>2
      <3>15. RequestOK([op |-> c.pc, from |-> d, msg |-> c.msg], l,
                       IsMerged(local[Inviter]))
        BY <2>1, <2>5, <3>7 DEF RequestOK
      <3>16. ClientOK(d, c, l, local[Peer(d)], service, IsJoined(local[Joiner]))
        BY <2>5, <3>7 DEF ClientOK
      <3>17. StepOf(d, l, c) /\ late' \subseteq Request
        BY <1>4, <2>3 DEF StepOf, Around
      <3> QED
        BY <2>5, <3>7, <3>9, <3>10, <3>11, <3>13, <3>14, <3>15, <3>16, <3>17, DeviceStep
    <2> QED
      BY <2>7, <2>8
  <1> QED
    BY <1>5, <1>6

LEMMA AdmissionDoneOK ==
    ASSUME IInv, NEW d \in Device, AdmissionDone(d)
    PROVE  IInv'
  <1>1. Around(d)
    BY QuietAround DEF AdmissionDone
  <1>2. CASE ~client[d].complete
    BY <1>1, <1>2, CallStep DEF AdmissionDone
  <1>3. CASE client[d].complete
    <2> DEFINE l == [local[d] EXCEPT !.phase = "active"]
    <2>1. local \in [Device -> Journal] /\ local[d] \in Journal
          /\ QueueOK(d, local[d]) /\ InboxOrdered(d, local[d], local[Peer(d)])
      BY DEF IInv, TypeOK, QueuesOK, InboxesOK
    <2>2. client[d].pc = "step" /\ Released(local[d]) = <<>>
      BY DEF AdmissionDone, Publishes
    <2>3. local[d].phase \in {"prepared", "invited", "joined"} /\ PacketsOf(d, local[d])
          /\ local[d].sent = 0
      BY <2>1, <2>2, PhaseFacts DEF QueueOK
    <2>4. local[d].outbox = <<>>
      BY <2>1, <2>2, <2>3, ReleasedFacts
    <2>5. local' = [local EXCEPT ![d] = l] /\ client' = [client EXCEPT ![d] = Idle]
      BY <1>3, <2>1 DEF AdmissionDone, Stop
    <2>6. /\ l \in Journal /\ l.phase = "active"
          /\ l.outbox = <<>> /\ l.sent = 0
          /\ l.received = local[d].received /\ l.inbox = local[d].inbox
      BY <2>1, <2>3, <2>4 DEF Journal
    <2> HIDE DEF l
    <2>7. QueueOK(d, l) /\ InboxOrdered(d, l, local[Peer(d)])
      BY <2>1, <2>6 DEF QueueOK, TextsOf, InboxOrdered
    <2>8. Acked(l) = 0 /\ Acked(local[d]) = 0
      <3>1. Len(l.outbox) = 0 /\ l.sent = 0 /\ 0 - 0 = 0
        BY <2>6, EmptyQueue
      <3>2. Acked(l) = l.sent - Len(l.outbox)
        BY <2>6 DEF Acked
      <3>3. Acked(local[d]) = 0
        BY <2>3 DEF Acked
      <3> QED
        BY <3>1, <3>2, <3>3
    <2>9. Keeps(d, local[d], l)
      BY <2>1, <2>3, <2>4, <2>6, <2>8, JournalTypes DEF Keeps, IsMerged
    <2>10. IsJoined(local[Joiner])
      BY <1>3 DEF IInv, ClientsOK, ClientOK
    <2>11. d = Joiner /\ IsJoined(l) => IsMerged(local[Inviter])
      BY <2>6 DEF IInv, ChainOK, IsJoined
    <2>12. StepOf(d, l, Idle) /\ late' \subseteq Request
      BY <1>1, <2>5 DEF StepOf, Around
    <2>13. /\ RequestOK([op |-> Idle.pc, from |-> d, msg |-> Idle.msg], l,
                        IsMerged(local[Inviter]))
           /\ ClientOK(d, Idle, l, local[Peer(d)], service, IsJoined(local[Joiner]))
      BY IdleClientOK
    <2>14. \A n \in 1..Acked(l) : n <= Acked(local[d])
      BY <2>8
    <2> QED
      BY <2>6, <2>7, <2>9, <2>10, <2>11, <2>12, <2>13, <2>14, IdleFacts, DeviceStep
  <1> QED
    BY <1>2, <1>3

LEMMA PrepareInvitationOK ==
    ASSUME IInv, NEW d \in Device, PrepareInvitation(d)
    PROVE  IInv'
  <1> DEFINE o == IF d = Joiner THEN <<Packet("key_package")>> ELSE <<>>
             l == [local[d] EXCEPT !.phase = "prepared", !.outbox = o]
             c == At("consent", Nothing, 0)
  <1>1. local \in [Device -> Journal] /\ local[d] \in Journal
        /\ QueueOK(d, local[d]) /\ InboxOrdered(d, local[d], local[Peer(d)])
    BY DEF IInv, TypeOK, QueuesOK, InboxesOK
  <1>2. local[d].phase = "none" /\ local[d].sent = 0 /\ PacketsOf(d, local[d])
    BY <1>1 DEF PrepareInvitation, QueueOK
  <1>3. Around(d)
    BY QuietAround DEF PrepareInvitation
  <1>4. local' = [local EXCEPT ![d] = l] /\ client' = [client EXCEPT ![d] = c]
    BY <1>1 DEF PrepareInvitation, Goto, At
  <1>5. (d = Joiner => o = <<KeyPackage>>) /\ (d # Joiner => o = <<>>)
    BY DEF KeyPackage
  <1> HIDE DEF o
  <1>6. o \in Seq(Message)
    <2>1. KeyPackage \in Message
      BY PacketFacts
    <2>2. <<KeyPackage>> \in Seq(Message)
      BY <2>1
    <2> QED
      BY <1>5, <2>2, EmptyQueue
  <1>7. /\ l \in Journal /\ l.phase = "prepared" /\ l.outbox = o
        /\ l.sent = 0 /\ l.received = local[d].received /\ l.inbox = local[d].inbox
    BY <1>1, <1>2, <1>6 DEF Journal
  <1> HIDE DEF l
  <1>8. PacketsOf(d, l)
    BY <1>5, <1>7, ConstantsAssumption DEF PacketsOf, Device
  <1>9. QueueOK(d, l) /\ InboxOrdered(d, l, local[Peer(d)])
    BY <1>1, <1>7, <1>8 DEF QueueOK, InboxOrdered
  <1>10. Acked(l) = 0 /\ Acked(local[d]) = 0
    BY <1>2, <1>7 DEF Acked
  <1>11. Commit \notin Elements(o)
    BY <1>5, PacketFacts DEF Elements
  <1>12. Keeps(d, local[d], l)
    BY <1>1, <1>2, <1>7, <1>10, <1>11, JournalTypes DEF Keeps, IsMerged
  <1>13. d = Joiner /\ IsJoined(l) => IsMerged(local[Inviter])
    BY <1>7 DEF IInv, ChainOK, IsJoined
  <1>14. /\ c \in Client
         /\ RequestOK([op |-> c.pc, from |-> d, msg |-> c.msg], l,
                      IsMerged(local[Inviter]))
         /\ ClientOK(d, c, l, local[Peer(d)], service, IsJoined(local[Joiner]))
    BY <1>7, CallClientOK, PhaseFacts
  <1> HIDE DEF c
  <1>15. StepOf(d, l, c) /\ late' \subseteq Request
    BY <1>3, <1>4 DEF StepOf, Around
  <1> QED
    BY <1>7, <1>9, <1>10, <1>12, <1>13, <1>14, <1>15, DeviceStep

-----------------------------------------------------------------------------
(* The steps of a delivery.                                                *)

LEMMA TextsFacts ==
    ASSUME NEW d \in Device, NEW l \in Journal, TextsOf(d, l), l.phase = "active"
    PROVE  /\ Acked(l) \in Nat /\ Acked(l) = l.sent - Len(l.outbox)
           /\ l.outbox # <<>> =>
                 /\ l.outbox[1] = Text(d, Acked(l) + 1)
                 /\ Acked(l) + 1 \in Nat /\ Acked(l) + 1 <= l.sent
           /\ \A i \in 1..Len(l.outbox) :
                 l.outbox[i].kind = "text" /\ l.outbox[i].n = Acked(l) + i
  <1>1. l.sent \in Nat /\ Len(l.outbox) \in Nat /\ l.outbox \in Seq(Message)
    BY JournalTypes
  <1>2. Acked(l) = l.sent - Len(l.outbox) /\ Acked(l) \in Nat
    BY <1>1 DEF Acked, TextsOf
  <1>3. \A i \in 1..Len(l.outbox) : l.outbox[i] = Text(d, Acked(l) + i)
    BY <1>2 DEF TextsOf
  <1>4. \A i \in 1..Len(l.outbox) : l.outbox[i].kind = "text" /\ l.outbox[i].n = Acked(l) + i
    BY <1>1, <1>2, <1>3, TextFacts
  <1>5. l.outbox # <<>> => 1 \in 1..Len(l.outbox) /\ Acked(l) + 1 <= l.sent
    BY <1>1, <1>2
  <1> QED
    BY <1>2, <1>3, <1>4, <1>5

\* The next call of a sync is fine for the journal it was chosen from.
LEMMA SendOrFetchOK ==
    ASSUME NEW d \in Device, NEW l \in Journal, TextsOf(d, l), l.phase = "active",
           NEW n \in Nat, SendOrFetch(d, l.outbox, n), NEW p, NEW s,
           NEW joined, NEW merged
    PROVE  \E c \in Client :
              /\ client' = [client EXCEPT ![d] = c]
              /\ RequestOK([op |-> c.pc, from |-> d, msg |-> c.msg], l, merged)
              /\ ClientOK(d, c, l, p, s, joined)
  <1>1. CASE l.outbox # <<>> /\ n < Limit
    <2> DEFINE m == l.outbox[1]
               c == At("send", m, n)
    <2>1. client' = [client EXCEPT ![d] = c]
      BY <1>1 DEF SendOrFetch, Goto, At
    <2>2. m = Text(d, Acked(l) + 1) /\ Acked(l) + 1 \in Nat /\ Acked(l) + 1 <= l.sent
          /\ Acked(l) \in Nat
      BY <1>1, TextsFacts
    <2>3. m \in Message /\ m.kind = "text" /\ m.from = d /\ m.n = Acked(l) + 1
      BY <2>2, TextFacts
    <2>4. n \in 0..Limit /\ "send" \in Ops
      BY <1>1, ConstantsAssumption DEF Ops
    <2> HIDE DEF m
    <2>5. /\ c \in Client /\ c.pc = "send" /\ c.msg = m /\ c.answer = "none"
          /\ c.complete = FALSE
      BY <2>3, <2>4, ConstantsAssumption DEF At, Idle, Client
    <2> HIDE DEF c
    <2>6. m # Welcome
      BY <2>3, PacketFacts
    <2>7. RequestOK([op |-> c.pc, from |-> d, msg |-> c.msg], l, merged)
      BY <2>2, <2>3, <2>5, <2>6 DEF RequestOK
    <2>8. ClientOK(d, c, l, p, s, joined)
      BY <1>1, <2>5 DEF ClientOK, m
    <2> QED
      BY <2>1, <2>5, <2>7, <2>8
  <1>2. CASE ~(l.outbox # <<>> /\ n < Limit)
    <2>1. client' = [client EXCEPT ![d] = At("inbox", Nothing, 0)]
      BY <1>2 DEF SendOrFetch, Goto, At
    <2>2. 0 \in 0..Limit
      BY ConstantsAssumption
    <2> DEFINE c == At("inbox", Nothing, 0)
    <2>3. /\ c \in Client
          /\ RequestOK([op |-> c.pc, from |-> d, msg |-> c.msg], l, merged)
          /\ ClientOK(d, c, l, p, s, joined)
      BY <2>2, CallClientOK
    <2> HIDE DEF c
    <2> QED
      BY <2>1, <2>3 DEF c
  <1> QED
    BY <1>1, <1>2

LEMMA ActiveFacts ==
    ASSUME IInv, NEW d \in Device, local[d].phase = "active"
    PROVE  /\ local \in [Device -> Journal] /\ local[d] \in Journal
           /\ TextsOf(d, local[d])
           /\ IsJoined(local[Joiner]) /\ IsMerged(local[Inviter])
           /\ IsJoined(local[Joiner]) \in BOOLEAN /\ IsMerged(local[Inviter]) \in BOOLEAN
  BY DEF IInv, TypeOK, QueuesOK, QueueOK, ChainOK, IsJoined, IsMerged

LEMMA SyncDeliveryOK ==
    ASSUME IInv, NEW d \in Device, SyncDelivery(d)
    PROVE  IInv'
  <1>1. local[d].phase = "active" /\ local' = local /\ SendOrFetch(d, local[d].outbox, 0)
    BY DEF SyncDelivery
  <1>2. Around(d)
    <2>1. local[d].outbox \in Seq(Message)
      BY <1>1, ActiveFacts, JournalTypes
    <2> QED
      BY <2>1, StampedAround DEF SyncDelivery
  <1>3. PICK c \in Client :
            /\ client' = [client EXCEPT ![d] = c]
            /\ RequestOK([op |-> c.pc, from |-> d, msg |-> c.msg], local[d],
                         IsMerged(local[Inviter]))
            /\ ClientOK(d, c, local[d], local[Peer(d)], service, IsJoined(local[Joiner]))
    BY <1>1, ActiveFacts, SendOrFetchOK
  <1> QED
    BY <1>1, <1>2, <1>3, ClientStep

LEMMA SendChatOK ==
    ASSUME IInv, NEW d \in Device, SendChat(d)
    PROVE  IInv'
  <1> DEFINE k == local[d].sent
             l == [local[d] EXCEPT !.sent = k + 1,
                                   !.outbox = Append(@, Text(d, k + 1))]
             c == client[d]
             q == local[d].outbox
  <1>1. local[d].phase = "active" /\ client[d].pc = "idle"
    BY DEF SendChat
  <1>2. local \in [Device -> Journal] /\ local[d] \in Journal /\ TextsOf(d, local[d])
        /\ InboxOrdered(d, local[d], local[Peer(d)])
    BY <1>1, ActiveFacts DEF IInv, InboxesOK
  <1>3. Around(d)
    BY QuietAround DEF SendChat
  <1>4. client \in [Device -> Client] /\ c \in Client
    BY DEF IInv, TypeOK
  <1>5. local' = [local EXCEPT ![d] = l] /\ client' = [client EXCEPT ![d] = c]
    BY <1>2, <1>4 DEF SendChat
  <1>6. k \in Nat /\ q \in Seq(Message) /\ Text(d, k + 1) \in Message
    BY <1>2, JournalTypes, TextFacts
  <1>7. /\ Append(q, Text(d, k + 1)) \in Seq(Message)
        /\ Len(Append(q, Text(d, k + 1))) = Len(q) + 1
        /\ Append(q, Text(d, k + 1))[Len(q) + 1] = Text(d, k + 1)
        /\ \A i \in 1..Len(q) : Append(q, Text(d, k + 1))[i] = q[i]
        /\ Len(q) \in Nat
    BY <1>6
  <1>8. /\ l \in Journal /\ l.sent = k + 1 /\ l.outbox = Append(q, Text(d, k + 1))
        /\ l.phase = "active" /\ l.received = local[d].received
        /\ l.inbox = local[d].inbox
    <2> DEFINE a == Append(q, Text(d, k + 1))
    <2>1. l = [local[d] EXCEPT !.sent = k + 1, !.outbox = a] /\ a \in Seq(Message)
          /\ k + 1 \in Nat
      BY <1>6, <1>7
    <2> HIDE DEF a, l
    <2>2. /\ l \in Journal /\ l.sent = k + 1 /\ l.outbox = a
          /\ l.phase = "active" /\ l.received = local[d].received
          /\ l.inbox = local[d].inbox
      BY <1>1, <1>2, <2>1 DEF Journal
    <2> QED
      BY <2>2 DEF a
  <1> HIDE DEF l, k, q
  <1>9. TextsOf(d, l)
    <2>1. Len(q) <= k /\ \A i \in 1..Len(q) : q[i] = Text(d, k - Len(q) + i)
      BY <1>2 DEF TextsOf, k, q
    <2>2. Len(l.outbox) = Len(q) + 1 /\ l.sent = k + 1
      BY <1>7, <1>8
    <2>3. (k + 1) - (Len(q) + 1) = k - Len(q)
      BY <1>6, <1>7
    <2>4. \A i \in 1..Len(q) : l.outbox[i] = Text(d, k - Len(q) + i)
      BY <1>7, <1>8, <2>1
    <2>5. l.outbox[Len(q) + 1] = Text(d, k - Len(q) + (Len(q) + 1))
      <3>1. k - Len(q) + (Len(q) + 1) = k + 1
        BY <1>6, <1>7
      <3> QED
        BY <1>7, <1>8, <3>1
    <2>6. \A i \in 1..(Len(q) + 1) : i \in 1..Len(q) \/ i = Len(q) + 1
      BY <1>7
    <2>7. \A i \in 1..(Len(q) + 1) : l.outbox[i] = Text(d, k - Len(q) + i)
      BY <2>4, <2>5, <2>6
    <2> QED
      BY <1>6, <1>7, <2>1, <2>2, <2>3, <2>7 DEF TextsOf
  <1>10. QueueOK(d, l) /\ InboxOrdered(d, l, local[Peer(d)])
    BY <1>2, <1>8, <1>9 DEF QueueOK, InboxOrdered
  <1>11. Acked(l) = Acked(local[d]) /\ Acked(l) \in Nat
    <2>1. Acked(local[d]) = k - Len(q) /\ Acked(local[d]) \in Nat
      BY <1>1, <1>2, TextsFacts DEF k, q
    <2>2. Acked(l) = l.sent - Len(l.outbox)
      BY <1>8, <1>9, TextsFacts
    <2>3. Acked(l) = (k + 1) - (Len(q) + 1)
      BY <1>7, <1>8, <2>2
    <2> QED
      BY <1>6, <1>7, <2>1, <2>3
  <1>12. IsMerged(local[d]) => IsMerged(l)
    <2>1. Commit # Text(d, k + 1)
      BY PacketFacts DEF Text
    <2>2. Commit \notin Elements(q) => Commit \notin Elements(Append(q, Text(d, k + 1)))
      BY <1>6, <1>7, <2>1 DEF Elements
    <2> QED
      BY <1>8, <2>2 DEF IsMerged, q
  <1>13. Keeps(d, local[d], l)
    BY <1>2, <1>6, <1>8, <1>11, <1>12, JournalTypes DEF Keeps, k
  <1>14. \A n \in 1..Acked(l) : n <= Acked(local[d])
    BY <1>11
  <1>15. d = Joiner /\ IsJoined(l) => IsMerged(local[Inviter])
    BY <1>8 DEF IInv, ChainOK, IsJoined
  <1>16. RequestOK(RequestOf(d), local[d], IsMerged(local[Inviter]))
         /\ ClientOK(d, c, local[d], local[Peer(d)], service, IsJoined(local[Joiner]))
    BY DEF IInv, CallsOK, ClientsOK
  <1>17. RequestOK([op |-> c.pc, from |-> d, msg |-> c.msg], l, IsMerged(local[Inviter]))
    BY <1>1, <1>16 DEF RequestOK, RequestOf
  <1>18. ClientOK(d, c, l, local[Peer(d)], service, IsJoined(local[Joiner]))
    BY <1>1, <1>16 DEF ClientOK
  <1>19. StepOf(d, l, c) /\ late' \subseteq Request
    BY <1>3, <1>5 DEF StepOf, Around
  <1> HIDE DEF c
  <1> QED
    BY <1>1, <1>4, <1>8, <1>10, <1>13, <1>14, <1>15, <1>17, <1>18, <1>19, DeviceStep DEF c

\* An acknowledgement takes the oldest text off the queue.
LEMMA TextDelivered ==
    ASSUME NEW d \in Device, NEW l \in Journal, TextsOf(d, l), l.phase = "active",
           l.outbox # <<>>, NEW w, w = Without(l.outbox, l.outbox[1])
    PROVE  LET n == [l EXCEPT !.outbox = w]
           IN  /\ n \in Journal /\ TextsOf(d, n) /\ n.outbox = w
               /\ n.phase = "active" /\ n.sent = l.sent
               /\ n.received = l.received /\ n.inbox = l.inbox
               /\ Acked(n) = Acked(l) + 1
               /\ Elements(w) \subseteq Elements(l.outbox)
  <1> DEFINE n == [l EXCEPT !.outbox = w]
             q == l.outbox
  <1>1. q \in Seq(Message) /\ Len(q) \in Nat /\ l.sent \in Nat
    BY JournalTypes
  <1>2. /\ Acked(l) \in Nat /\ Acked(l) = l.sent - Len(q)
        /\ \A i \in 1..Len(q) : q[i].n = Acked(l) + i
    BY TextsFacts
  <1>3. \A i \in 2..Len(q) : q[i] # q[1]
    <2> SUFFICES ASSUME NEW i \in 2..Len(q)
                 PROVE  q[i] # q[1]
      OBVIOUS
    <2>1. q[i].n = Acked(l) + i /\ q[1].n = Acked(l) + 1
      BY <1>1, <1>2
    <2> QED
      BY <1>2, <2>1
  <1>4. w \in Seq(Message) /\ Len(w) = Len(q) - 1 /\ \A i \in 1..Len(w) : w[i] = q[i + 1]
    BY <1>1, <1>3, WithoutHead
  <1>5. /\ n \in Journal /\ n.outbox = w /\ n.phase = "active" /\ n.sent = l.sent
        /\ n.received = l.received /\ n.inbox = l.inbox
    BY <1>4 DEF Journal
  <1> HIDE DEF n
  <1>6. TextsOf(d, n)
    <2>1. Len(q) <= l.sent /\ \A i \in 1..Len(q) : q[i] = Text(d, l.sent - Len(q) + i)
      BY DEF TextsOf
    <2>2. Len(w) \in Nat /\ Len(w) <= l.sent
      BY <1>1, <1>4, <2>1
    <2>3. ASSUME NEW i \in 1..Len(w)
          PROVE  w[i] = Text(d, l.sent - Len(w) + i)
      <3> HIDE DEF q
      <3>1. i + 1 \in 1..Len(q)
        BY <1>1, <1>4, <2>2
      <3>2. l.sent - Len(q) + (i + 1) = l.sent - Len(w) + i
        <4>1. \A x, y, z \in Nat : x - y + (z + 1) = x - (y - 1) + z
          OBVIOUS
        <4>2. i \in Nat /\ Len(w) = Len(q) - 1
          BY <1>4, <2>2
        <4> QED
          BY <1>1, <4>1, <4>2
      <3> QED
        BY <1>4, <2>1, <3>1, <3>2
    <2> QED
      BY <1>5, <2>2, <2>3 DEF TextsOf
  <1>7. Acked(n) = Acked(l) + 1
    <2>1. Acked(n) = l.sent - Len(w)
      BY <1>5, <1>6, TextsFacts
    <2> QED
      BY <1>1, <1>2, <1>4, <2>1
  <1>8. Elements(w) \subseteq Elements(q)
    <2> SUFFICES ASSUME NEW i \in 1..Len(w)
                 PROVE  w[i] \in Elements(q)
      BY <1>4 DEF Elements
    <2>1. i + 1 \in 1..Len(q) /\ w[i] = q[i + 1]
      BY <1>1, <1>4
    <2> QED
      BY <1>1, <2>1 DEF Elements
  <1> QED
    BY <1>5, <1>6, <1>7, <1>8 DEF n

LEMMA SendDoneOK ==
    ASSUME IInv, NEW d \in Device, SendDone(d)
    PROVE  IInv'
  <1>1. Around(d)
    BY QuietAround DEF SendDone
  <1>2. client[d].pc = "send" /\ local[d].phase = "active"
    BY PhaseFacts DEF SendDone, Accepts, Answered
  <1>3. CASE local' = local /\ Stop(d)
    BY <1>1, <1>3, CallStep
  <1>4. CASE /\ client[d].answer = "ok" /\ local' = Delivered(d)
             /\ SendOrFetch(d, Without(local[d].outbox, client[d].msg), client[d].count + 1)
    <2> DEFINE w == Without(local[d].outbox, local[d].outbox[1])
               l == [local[d] EXCEPT !.outbox = w]
    <2>1. /\ local \in [Device -> Journal] /\ local[d] \in Journal
          /\ TextsOf(d, local[d]) /\ InboxOrdered(d, local[d], local[Peer(d)])
          /\ IsJoined(local[Joiner]) \in BOOLEAN /\ IsMerged(local[Inviter]) \in BOOLEAN
      BY <1>2, ActiveFacts DEF IInv, InboxesOK
    <2>2. local[d].outbox # <<>> /\ client[d].msg = local[d].outbox[1]
          /\ InMail(service, client[d].msg)
      BY <1>2, <1>4 DEF IInv, ClientsOK, ClientOK
    <2>3. local' = [local EXCEPT ![d] = l]
      BY <1>4, <2>1, <2>2 DEF Delivered
    <2>4. /\ l \in Journal /\ TextsOf(d, l) /\ l.outbox = w
          /\ l.phase = "active" /\ l.sent = local[d].sent
          /\ l.received = local[d].received /\ l.inbox = local[d].inbox
          /\ Acked(l) = Acked(local[d]) + 1
          /\ Elements(w) \subseteq Elements(local[d].outbox)
      BY <1>2, <2>1, <2>2, TextDelivered
    <2>5. Acked(local[d]) \in Nat /\ local[d].outbox[1] = Text(d, Acked(local[d]) + 1)
      BY <1>2, <2>1, <2>2, TextsFacts
    <2>6. SendOrFetch(d, l.outbox, client[d].count + 1)
      BY <1>4, <2>2, <2>4
    <2> HIDE DEF l, w
    <2>7. client[d].count + 1 \in Nat
      BY PhaseFacts, ConstantsAssumption
    <2>8. PICK c \in Client :
            /\ client' = [client EXCEPT ![d] = c]
            /\ RequestOK([op |-> c.pc, from |-> d, msg |-> c.msg], l,
                         IsMerged(local[Inviter]))
            /\ ClientOK(d, c, l, local[Peer(d)], service, IsJoined(local[Joiner]))
      BY <2>1, <2>4, <2>6, <2>7, SendOrFetchOK
    <2>9. QueueOK(d, l) /\ InboxOrdered(d, l, local[Peer(d)])
      BY <2>1, <2>4 DEF QueueOK, InboxOrdered
    <2>10. Keeps(d, local[d], l)
      BY <2>1, <2>4, <2>5, JournalTypes DEF Keeps, IsMerged
    <2>11. \A n \in 1..Acked(l) : n <= Acked(local[d]) \/ InMail(service, Text(d, n))
      <3>1. \A n \in 1..Acked(l) : n <= Acked(local[d]) \/ n = Acked(local[d]) + 1
        BY <2>4, <2>5
      <3> QED
        BY <2>2, <2>5, <3>1
    <2>12. d = Joiner /\ IsJoined(l) => IsMerged(local[Inviter])
      BY <2>4 DEF IInv, ChainOK, IsJoined
    <2>13. StepOf(d, l, c) /\ late' \subseteq Request
      BY <1>1, <2>3, <2>8 DEF StepOf, Around
    <2> QED
      BY <1>2, <2>4, <2>8, <2>9, <2>10, <2>11, <2>12, <2>13, DeviceStep
  <1> QED
    BY <1>3, <1>4 DEF SendDone, Accepts, Answered, Refused

LEMMA InboxReadOK ==
    ASSUME IInv, NEW d \in Device, InboxRead(d)
    PROVE  IInv'
  <1> DEFINE m == client[d].msg
             c == At("take", m, client[d].count)
             p == Peer(d)
  <1>1. Around(d)
    BY QuietAround DEF InboxRead
  <1>2. client[d].pc = "inbox" /\ local[d].phase = "active"
    BY PhaseFacts DEF InboxRead
  <1>3. CASE local' = local /\ Stop(d)
    BY <1>1, <1>3, CallStep
  <1>4. CASE /\ client[d].answer = "ok" /\ m # Nothing
             /\ local' = [local EXCEPT ![d] = Receive(@, m)]
             /\ Goto(d, "take", m, client[d].count)
    <2> DEFINE l == Receive(local[d], m)
    <2>1. /\ local \in [Device -> Journal] /\ local[d] \in Journal
          /\ TextsOf(d, local[d]) /\ InboxOrdered(d, local[d], local[p])
      BY <1>2, ActiveFacts DEF IInv, InboxesOK
    <2>2. /\ m.kind = "text" /\ m.from = p
          /\ m.n >= 1 /\ m.n <= Len(local[d].inbox) + 1 /\ m.n <= local[p].sent
      BY <1>2, <1>4 DEF IInv, ClientsOK, ClientOK
    <2>3. m \in Message
      BY <1>4 DEF IInv, TypeOK, Client
    <2>4. m.n \in Nat /\ m = Text(p, m.n) /\ m # Welcome
      BY <2>2, <2>3, TextMessage, PacketFacts
    <2>5. client[d].count \in 0..Limit /\ "take" \in Ops
      BY PhaseFacts DEF Ops
    <2>6. local' = [local EXCEPT ![d] = l] /\ client' = [client EXCEPT ![d] = c]
      BY <1>4, <2>1 DEF Goto, At
    <2> HIDE DEF m
    <2>7. /\ c \in Client /\ c.pc = "take" /\ c.msg = m /\ c.answer = "none"
          /\ c.complete = FALSE
      BY <2>3, <2>5, ConstantsAssumption DEF At, Idle, Client
    <2> HIDE DEF c
    <2>8. CASE m \in local[d].received
      <3>1. local' = local
        BY <2>1, <2>6, <2>8 DEF Receive
      <3>2. RequestOK([op |-> c.pc, from |-> d, msg |-> c.msg], local[d],
                      IsMerged(local[Inviter]))
        BY <2>2, <2>4, <2>7, <2>8 DEF RequestOK
      <3>3. ClientOK(d, c, local[d], local[p], service, IsJoined(local[Joiner]))
        BY <1>2, <2>7 DEF ClientOK
      <3> QED
        BY <1>1, <2>6, <2>7, <3>1, <3>2, <3>3, ClientStep
    <2>9. CASE m \notin local[d].received
      <3> DEFINE ib == local[d].inbox
                 ni == Append(ib, m)
      <3>1. ib \in Seq(Message) /\ Len(ib) \in Nat /\ local[p].sent \in Nat
            /\ local[d].sent \in Nat /\ local[d].received \subseteq Message
        BY <2>1, PeerFacts, JournalTypes
      <3>2. m.n = Len(ib) + 1
        <4>1. m.n \notin 1..Len(ib)
          BY <2>1, <2>4, <2>9 DEF InboxOrdered
        <4> QED
          BY <2>2, <2>4, <3>1, <4>1
      <3>3. /\ ni \in Seq(Message) /\ Len(ni) = Len(ib) + 1 /\ ni[Len(ib) + 1] = m
            /\ \A i \in 1..Len(ib) : ni[i] = ib[i]
        BY <2>3, <3>1
      <3>4. l = [local[d] EXCEPT !.received = @ \cup {m}, !.inbox = ni]
        BY <2>9 DEF Receive
      <3> HIDE DEF ni
      <3>5. local[d].received \cup {m} \in SUBSET Message
        BY <2>3, <3>1
      <3>6. /\ l \in Journal /\ l.inbox = ni /\ l.received = local[d].received \cup {m}
            /\ l.phase = local[d].phase /\ l.sent = local[d].sent
            /\ l.outbox = local[d].outbox
        BY <2>1, <3>3, <3>4, <3>5 DEF Journal
      <3> HIDE DEF l
      <3>7. InboxOrdered(d, l, local[p])
        <4>1. Len(l.inbox) <= local[p].sent
          BY <2>2, <3>2, <3>3, <3>6
        <4>2. ASSUME NEW i \in 1..Len(l.inbox)
              PROVE  l.inbox[i] = Text(p, i) /\ l.inbox[i] \in l.received
          <5>1. CASE i \in 1..Len(ib)
            BY <5>1, <2>1, <3>3, <3>6 DEF InboxOrdered
          <5>2. CASE i = Len(ib) + 1
            BY <5>2, <2>4, <3>2, <3>3, <3>6
          <5> QED
            BY <3>1, <3>3, <3>6, <5>1, <5>2
        <4>3. ASSUME NEW x \in l.received, x.kind = "text"
              PROVE  x.from = p /\ x.n \in 1..Len(l.inbox)
          <5>1. Len(l.inbox) = Len(ib) + 1
            BY <3>3, <3>6
          <5>2. CASE x = m
            BY <5>1, <5>2, <2>2, <3>1, <3>2
          <5>3. CASE x \in local[d].received
            <6>1. x.from = p /\ x.n \in 1..Len(ib)
              BY <5>3, <4>3, <2>1 DEF InboxOrdered
            <6> QED
              BY <6>1, <5>1, <3>1
          <5> QED
            BY <3>6, <5>2, <5>3
        <4> QED
          BY <4>1, <4>2, <4>3 DEF InboxOrdered
      <3>8. QueueOK(d, l)
        BY <1>2, <2>1, <3>6 DEF QueueOK, TextsOf
      <3>9. Acked(l) = Acked(local[d]) /\ Acked(l) \in Nat
        BY <3>6, <3>8, AckedType DEF Acked
      <3>10. IsMerged(local[d]) => IsMerged(l)
        BY <3>6 DEF IsMerged
      <3>11. Keeps(d, local[d], l)
        BY <1>2, <3>1, <3>3, <3>6, <3>9, <3>10 DEF Keeps
      <3>12. \A n \in 1..Acked(l) : n <= Acked(local[d])
        BY <3>9
      <3>13. d = Joiner /\ IsJoined(l) => IsMerged(local[Inviter])
        BY <1>2, ActiveFacts
      <3>14. RequestOK([op |-> c.pc, from |-> d, msg |-> c.msg], l,
                       IsMerged(local[Inviter]))
        BY <2>2, <2>4, <2>7, <3>6 DEF RequestOK
      <3>15. ClientOK(d, c, l, local[p], service, IsJoined(local[Joiner]))
        BY <1>2, <2>7, <3>6 DEF ClientOK
      <3>16. StepOf(d, l, c) /\ late' \subseteq Request
        BY <1>1, <2>6 DEF StepOf, Around
      <3> QED
        BY <1>2, <2>7, <3>6, <3>7, <3>8, <3>11, <3>12, <3>13, <3>14, <3>15, <3>16,
           DeviceStep
    <2> QED
      BY <2>8, <2>9
  <1> QED
    BY <1>3, <1>4 DEF InboxRead

-----------------------------------------------------------------------------
(* The invariant.                                                          *)

LEMMA InitOK == Init => IInv
  <1> SUFFICES ASSUME Init
               PROVE  IInv
    OBVIOUS
  <1> DEFINE j == [phase |-> "none", closing |-> "no", outbox |-> <<>>, sent |-> 0,
                   received |-> {}, inbox |-> <<>>]
  <1>1. /\ j \in Journal /\ j.phase = "none" /\ j.outbox = <<>> /\ j.sent = 0
        /\ j.received = {} /\ j.inbox = <<>>
    BY EmptyQueue DEF Journal
  <1>2. \A d \in Device : local[d] = j
    BY DEF Init
  <1>3. local \in [Device -> Journal]
    BY <1>1 DEF Init
  <1>4. service \in Service /\ service.mail = <<>> /\ service.complete = FALSE
        /\ service.packets["welcome"] = "none" /\ Len(service.mail) = 0
    <2> DEFINE Entry == [id : Message, consumed : BOOLEAN]
    <2>1. <<>> \in Seq(Entry) /\ Len(<<>>) = 0
      OBVIOUS
    <2>2. "welcome" \in Kinds
      BY DEF Kinds
    <2> HIDE DEF Entry
    <2>3. service \in [consents : SUBSET Device, blocked : BOOLEAN, complete : BOOLEAN,
                       packets : [Kinds -> {"none", "stored", "finished"}],
                       mail : Seq(Entry)]
      BY <2>1 DEF Init
    <2> QED
      BY <2>1, <2>2, <2>3 DEF Init, Service, Entry
  <1>5. client \in [Device -> Client] /\ \A d \in Device : client[d] = Idle
    BY IdleFacts DEF Init
  <1>6. TypeOK
    BY <1>3, <1>4, <1>5, ConstantsAssumption DEF Init, TypeOK
  <1> HIDE DEF j
  <1>7. Inviter \in Device /\ Joiner \in Device
    BY PeerFacts DEF Device
  <1>8. QueuesOK
    BY <1>1, <1>2 DEF QueuesOK, QueueOK, PacketsOf
  <1>9. InboxesOK
    <2> SUFFICES ASSUME NEW d \in Device
                 PROVE  InboxOrdered(d, local[d], local[Peer(d)])
      BY DEF InboxesOK
    <2>1. local[d] = j /\ local[Peer(d)] = j
      BY <1>2, PeerFacts
    <2>2. Len(j.inbox) = 0
      BY <1>1, EmptyQueue
    <2> QED
      BY <1>1, <2>1, <2>2 DEF InboxOrdered
  <1>10. MailOK(service, local)
    <2>1. \A d \in Device : Acked(local[d]) = 0
      BY <1>1, <1>2 DEF Acked
    <2> QED
      BY <1>4, <2>1 DEF MailOK
  <1>11. ChainOK(service, local)
    BY <1>1, <1>2, <1>4, <1>7 DEF ChainOK, IsJoined
  <1>12. LateOK
    BY DEF Init, LateOK
  <1>13. CallsOK
    BY <1>5, IdleClientOK DEF CallsOK, RequestOf
  <1>14. ClientsOK
    BY <1>5, IdleClientOK DEF ClientsOK
  <1> QED
    BY <1>6, <1>8, <1>9, <1>10, <1>11, <1>12, <1>13, <1>14 DEF IInv

LEMMA StutterOK == IInv /\ UNCHANGED vars => IInv'
  BY DEF IInv, vars, TypeOK, QueuesOK, InboxesOK, LateOK, CallsOK, ClientsOK, RequestOf

LEMMA NextOK == IInv /\ [Next]_vars => IInv'
  <1> SUFFICES ASSUME IInv, [Next]_vars
               PROVE  IInv'
    OBVIOUS
  <1>1. CASE UNCHANGED vars
    BY <1>1, StutterOK
  <1>2. CASE \E r \in late : ServeLate(r)
    BY <1>2, ServeLateOK
  <1>3. CASE \E m \in stamped : Expire(m)
    BY <1>3, ExpireOK
  <1>4. ASSUME NEW d \in Device, Sync(d)
        PROVE  IInv'
    BY <1>4, StepsThatOnlyCall, SyncDeliveryOK DEF Sync
  <1>5. ASSUME NEW d \in Device, Step(d)
        PROVE  IInv'
    BY <1>5, StepsThatOnlyCall, StatusReadOK, SnapshotReadOK, PublishNextOK,
       PublishDoneOK, LearnPacketOK, AdmissionDoneOK, SendDoneOK, InboxReadOK,
       TakeDoneOK, CloseDoneOK DEF Step
  <1>6. ASSUME NEW d \in Device,
               \/ PrepareInvitation(d) \/ SendChat(d) \/ BeginClose(d)
               \/ Serve(d) \/ Interrupt(d)
        PROVE  IInv'
    BY <1>6, PrepareInvitationOK, SendChatOK, BeginCloseOK, ServeOK, InterruptOK
  <1> QED
    BY <1>1, <1>2, <1>3, <1>4, <1>5, <1>6 DEF Next

\* What the two journals, the mailbox and the calls under way have to do with
\* each other, in every reachable state: for any number of texts, any limits
\* and any number of lost, repeated and late calls.
THEOREM InvariantHolds == Spec => []IInv
  <1> QED
    BY InitOK, NextOK, PTL DEF Spec

\* The journals, the row of the service, the workflows and the late requests
\* stay within their types: no step leaves a workflow at a call with a message
\* it cannot carry (vault-device.ts syncInvitation and syncDelivery).
THEOREM TypeCorrect == Spec => []TypeOK
  <1>1. IInv => TypeOK
    BY DEF IInv
  <1> QED
    BY <1>1, InvariantHolds, PTL

\* What a device shows is a prefix of what the other one sent, in order and
\* once, for any number of texts, faults and late requests (receive_delivery).
THEOREM ShownInOrderOnce == Spec => []InOrderOnce
  <1>1. IInv => InOrderOnce
    <2> SUFFICES ASSUME IInv, NEW d \in Device
                 PROVE  /\ Len(local[d].inbox) <= local[Peer(d)].sent
                        /\ \A i \in DOMAIN local[d].inbox :
                              local[d].inbox[i] = Text(Peer(d), i)
      BY DEF InOrderOnce
    <2>1. InboxOrdered(d, local[d], local[Peer(d)]) /\ local[d] \in Journal
      BY DEF IInv, TypeOK, InboxesOK
    <2>2. DOMAIN local[d].inbox = 1..Len(local[d].inbox)
      BY <2>1, JournalTypes
    <2> QED
      BY <2>1, <2>2 DEF InboxOrdered
  <1> QED
    BY <1>1, InvariantHolds, PTL

\* A text that a device sent is queued, waits in the mailbox, or is in the
\* journal of the other device: no crash, refusal, lost answer or late request
\* loses it (accept_delivery and the consumption of a message).
THEOREM NoTextIsLost == Spec => []NothingLost
  <1>1. IInv => NothingLost
    <2> SUFFICES ASSUME IInv, NEW d \in Device, NEW n \in 1..local[d].sent
                 PROVE  \/ Text(d, n) \in Elements(local[d].outbox)
                        \/ \E i \in DOMAIN service.mail :
                              service.mail[i] = [id |-> Text(d, n), consumed |-> FALSE]
                        \/ Text(d, n) \in Elements(local[Peer(d)].inbox)
      BY DEF NothingLost
    <2> DEFINE l == local[d]
               p == Peer(d)
               m == Text(d, n)
    <2>1. /\ l \in Journal /\ QueueOK(d, l) /\ MailOK(service, local)
          /\ service \in Service /\ p \in Device /\ Peer(p) = d
          /\ local[p] \in Journal /\ InboxOrdered(p, local[p], l)
      BY PeerFacts DEF IInv, TypeOK, QueuesOK, InboxesOK
    <2>2. l.sent \in Nat /\ n \in Nat /\ l.sent # 0
      BY <2>1, JournalTypes
    <2>3. l.phase = "active" /\ TextsOf(d, l)
      BY <2>1, <2>2 DEF QueueOK
    <2>4. /\ Acked(l) \in Nat /\ Acked(l) = l.sent - Len(l.outbox)
          /\ l.outbox \in Seq(Message) /\ Len(l.outbox) \in Nat
      BY <2>1, <2>3, TextsFacts, JournalTypes
    <2>5. m.from = d /\ m.n = n
      BY <2>2, TextFacts
    <2>6. CASE n > Acked(l)
      <3>1. n - Acked(l) \in 1..Len(l.outbox)
        BY <2>2, <2>4, <2>6
      <3>2. l.sent - Len(l.outbox) + (n - Acked(l)) = n
        BY <2>2, <2>4
      <3>3. l.outbox[n - Acked(l)] = m
        BY <2>3, <3>1, <3>2 DEF TextsOf
      <3> QED
        BY <2>4, <3>1, <3>3 DEF Elements
    <2>7. CASE n <= Acked(l)
      <3>1. InMail(service, m)
        BY <2>1, <2>2, <2>4, <2>7 DEF MailOK
      <3>2. PICK i \in DOMAIN service.mail : service.mail[i].id = m
        BY <3>1 DEF InMail
      <3>3. service.mail[i] \in [id : Message, consumed : BOOLEAN]
            /\ i \in 1..Len(service.mail)
        <4> DEFINE Entry == [id : Message, consumed : BOOLEAN]
        <4>1. service.mail \in Seq(Entry) /\ DOMAIN service.mail = 1..Len(service.mail)
          BY <2>1, MailTypes
        <4> HIDE DEF Entry
        <4>2. service.mail[i] \in Entry /\ i \in 1..Len(service.mail)
          BY <4>1
        <4> QED
          BY <4>2 DEF Entry
      <3>4. CASE service.mail[i].consumed
        <4>1. n <= Len(local[p].inbox)
          BY <2>1, <2>5, <3>2, <3>3, <3>4 DEF MailOK
        <4>2. local[p].inbox[n] = m /\ n \in DOMAIN local[p].inbox
          BY <2>1, <2>2, <4>1, JournalTypes DEF InboxOrdered
        <4> QED
          BY <4>2 DEF Elements
      <3>5. CASE ~service.mail[i].consumed
        <4>1. service.mail[i] = [id |-> m, consumed |-> FALSE]
          BY <3>2, <3>3, <3>5
        <4> QED
          BY <4>1
      <3> QED
        BY <3>4, <3>5
    <2>8. n > Acked(l) \/ n <= Acked(l)
      BY <2>2, <2>4
    <2> QED
      BY <2>6, <2>7, <2>8
  <1> QED
    BY <1>1, InvariantHolds, PTL

\* The joiner never enters a group its inviter has not entered, and no device
\* is active before both are in it, whatever was lost, repeated or late
\* (invite_from_delivery, join_from_delivery and complete_invitation).
THEOREM GroupIsMergedFirst == Spec => []JoinsMergedGroup
  <1>1. IInv => JoinsMergedGroup
    BY DEF IInv, ChainOK, JoinsMergedGroup, Joined, Merged, IsJoined, IsMerged,
           KeyPackage, Commit, Welcome
  <1> QED
    BY <1>1, InvariantHolds, PTL
=============================================================================
