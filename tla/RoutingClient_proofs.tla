------------------------- MODULE RoutingClient_proofs -------------------------
(***************************************************************************)
(* Proofs about a multicast client, plain or secure, for every set of      *)
(* groups, of keys and of routing timers.                                  *)
(*                                                                         *)
(* What protects a telegram is decided when it leaves, not when it is      *)
(* written.  So the invariant has to say that a client that carries a      *)
(* telegram, waiting or on its way, still has the keys it had when it was  *)
(* written, whatever reloads of the keyring lie in between.                *)
(***************************************************************************)
EXTENDS RoutingClient, TLAPS

-----------------------------------------------------------------------------
(* The queue of the client: what the operations of SendQueue preserve *)

\* One turn of the loop of handleKNXQueue leaves a queue of the same packets.
LEMMA DispatchType ==
    ASSUME NEW P, NEW q \in Queues(P), Sendable(q)
    PROVE  Dispatch(q) \in Queues(P)
<1>1. q.commandQueue \in Seq(ItemsOf(P)) /\ q.commandQueue # << >>
  BY DEF Queues, Sendable
<1>2. Head(q.commandQueue) \in ItemsOf(P) /\ Tail(q.commandQueue) \in Seq(ItemsOf(P))
  BY <1>1
<1>3. Head(q.commandQueue) \in ItemsOf(P \cup {NoPacket})
  BY <1>2 DEF ItemsOf
<1>4. Head(q.commandQueue).packet \in P \cup {NoPacket}
  BY <1>2 DEF ItemsOf
<1> QED
  BY <1>2, <1>3, <1>4 DEF Dispatch, SetTimerWaitingForACK, Queues

\* handleKNXQueue() leaves a queue of the same packets, whether its loop runs or not.
LEMMA HandleType ==
    ASSUME NEW P, NEW q \in Queues(P)
    PROVE  HandleKNXQueue(q) \in Queues(P)
BY DispatchType DEF HandleKNXQueue

\* The two awaits of the loop leave a queue of the same packets, sound or not.
LEMMA LoopType ==
    ASSUME NEW P, NEW q \in Queues(P)
    PROVE  /\ SendSucceeded(q) \in Queues(P)
           /\ SendFailed(q) \in Queues(P)
           /\ PacingDone(q) \in Queues(P)
<1>1. SendSucceeded(q) \in Queues(P)
  BY DEF SendSucceeded, Queues
<1>2. SendFailed(q) \in Queues(P)
  <2>1. << >> \in Seq(ItemsOf(P))
    OBVIOUS
  <2> QED
    BY <2>1 DEF SendFailed, Queues
<1>3. PacingDone(q) \in Queues(P)
  <2>1. [q EXCEPT !.loop = "idle"] \in Queues(P)
    BY DEF Queues
  <2> QED
    BY <2>1, HandleType DEF PacingDone
<1> QED
  BY <1>1, <1>2, <1>3

-----------------------------------------------------------------------------
(* The client *)

States == {"DISCONNECTED", "CONNECTING", "CONNECTED", "DISCONNECTING"}

\* The states of a client that has been connected, or has left.
Late == {"CONNECTED", "DISCONNECTING"}

ClientFields ==
    [secure : BOOLEAN, keyring : {"good", "noBackbone", "unreadable"},
     state : States, socket : {"binding", "open", "failed", "null"},
     backbone : BOOLEAN, groupKeys : BOOLEAN, loads : SUBSET {"Connect", "timer"},
     syncTimer : BOOLEAN, authenticated : BOOLEAN, seq48 : Nat,
     discovery : BOOLEAN, description : BOOLEAN, bursts : Nat, probed : BOOLEAN,
     unhandled : BOOLEAN, q : Queues(Packets)]

\* A telegram waits in the queue, or is the last that left it.
Carries(q) ==
    \/ q.current.packet.kind = "telegram"
    \/ \E i \in DOMAIN q.commandQueue : q.commandQueue[i].packet.kind = "telegram"

\* A client between two methods.
Sane(c) ==
    /\ c \in ClientFields
    /\ c.backbone => c.groupKeys
    /\ Carries(c.q) => c.state \in Late /\ (c.secure => c.backbone)
    /\ c.secure /\ c.state = "CONNECTED" => c.backbone /\ c.authenticated

\* The wire w seen from the client c: the last number is below the next one,
\* and once there is one the keyring is not loaded again.
Protected(c, w) ==
    /\ w \in [frame : Packets \cup {NoPacket, Control("timerNotify")},
              wrapped : BOOLEAN, secured : BOOLEAN, lastSeq : Int, failed : BOOLEAN]
    /\ w.lastSeq < c.seq48
    /\ w.lastSeq # -1 => c.backbone /\ c.state \in Late
    /\ c.secure /\ w.frame.kind = "telegram" =>
          w.wrapped /\ (w.secured <=> w.frame.num \in KeyedGroups)

Bounded ==
    /\ used \in Nat \X Nat
    /\ used[2] <= MaxSearches
    /\ client.bursts <= 2 * used[2]

IInv == Sane(client) /\ Protected(client, wire) /\ Bounded

----------------------------------------------------------------------------
\* The packets a client sends.

\* The searches are packets, and not telegrams.
LEMMA SearchesArePackets ==
    /\ Search \in Packets /\ Search.kind = "search"
    /\ DescriptionRequest \in Packets /\ DescriptionRequest.kind = "description"
    /\ NoPacket.kind = "none"
    /\ Control("timerNotify").kind = "timerNotify"
BY DEF Packets, Search, DescriptionRequest, Control, NoPacket

\* A packet has a kind, and a telegram names one of the groups.
LEMMA TelegramsArePackets ==
    ASSUME NEW group \in Groups
    PROVE  Telegram(group) \in Packets
BY DEF Packets

----------------------------------------------------------------------------
\* The queue: what its operations carry, and whom they let leave.

\* A queue operation never changes the packet that is leaving.
KeepsSending(q, r) ==
    q.loop = "sending" => r.loop = "sending" /\ r.current = q.current

\* handleKNXQueue() carries no telegram it did not carry before.
LEMMA HandleKeeps ==
    ASSUME NEW q \in Queues(Packets)
    PROVE  /\ HandleKNXQueue(q) \in Queues(Packets)
           /\ Carries(HandleKNXQueue(q)) => Carries(q)
           /\ KeepsSending(q, HandleKNXQueue(q))
<1>1. HandleKNXQueue(q) \in Queues(Packets)
  BY HandleType
<1>2. CASE q.loop = "idle" /\ Sendable(q)
  <2> DEFINE r == Dispatch(q)
  <2>1. q.commandQueue \in Seq(ItemsOf(Packets)) /\ q.commandQueue # << >>
    BY <1>2 DEF Queues, Sendable
  <2>2. r.current = Head(q.commandQueue) /\ r.commandQueue = Tail(q.commandQueue)
    BY DEF Dispatch, SetTimerWaitingForACK, Queues
  <2>3. Head(q.commandQueue) = q.commandQueue[1] /\ 1 \in DOMAIN q.commandQueue
    BY <2>1
  <2>4. ASSUME NEW i \in DOMAIN Tail(q.commandQueue)
        PROVE  i + 1 \in DOMAIN q.commandQueue
               /\ Tail(q.commandQueue)[i] = q.commandQueue[i + 1]
    BY <2>1
  <2>5. Carries(r) => Carries(q)
    BY <2>2, <2>3, <2>4 DEF Carries
  <2> QED
    BY <1>1, <1>2, <2>5 DEF HandleKNXQueue, KeepsSending
<1>3. CASE ~(q.loop = "idle" /\ Sendable(q))
  BY <1>1, <1>3 DEF HandleKNXQueue, KeepsSending
<1> QED
  BY <1>2, <1>3

\* The setter of clearToSend carries no telegram it did not carry before.
LEMMA OpenKeeps ==
    ASSUME NEW q \in Queues(Packets)
    PROVE  /\ SetClearToSend(q) \in Queues(Packets)
           /\ Carries(SetClearToSend(q)) => Carries(q)
           /\ KeepsSending(q, SetClearToSend(q))
<1> DEFINE opened == [q EXCEPT !.clearToSend = TRUE]
<1>1. /\ opened \in Queues(Packets)
      /\ opened.current = q.current /\ opened.loop = q.loop
      /\ opened.commandQueue = q.commandQueue
  BY DEF Queues
<1>2. Carries(opened) => Carries(q)
  BY <1>1 DEF Carries
<1> HIDE DEF opened
<1>3. /\ HandleKNXQueue(opened) \in Queues(Packets)
      /\ Carries(HandleKNXQueue(opened)) => Carries(opened)
      /\ KeepsSending(opened, HandleKNXQueue(opened))
  BY <1>1, HandleKeeps
<1> QED
  BY <1>1, <1>2, <1>3 DEF SetClearToSend, KeepsSending, opened

\* send() carries a telegram more only when it is given one.
LEMMA SendKeeps ==
    ASSUME NEW q \in Queues(Packets), NEW packet \in Packets
    PROVE  LET r == SendLast(q, QueueItem(packet, FALSE, -1))
           IN  /\ r \in Queues(Packets)
               /\ Carries(r) => Carries(q) \/ packet.kind = "telegram"
               /\ KeepsSending(q, r)
<1> DEFINE item == QueueItem(packet, FALSE, -1)
           longer == [q EXCEPT !.commandQueue = Append(@, item)]
<1>1. item \in ItemsOf(Packets) /\ item.packet = packet
  BY DEF QueueItem, ItemsOf
<1>2. q.commandQueue \in Seq(ItemsOf(Packets))
  BY DEF Queues
<1> HIDE DEF item
<1>3. /\ longer \in Queues(Packets)
      /\ longer.current = q.current /\ longer.loop = q.loop
      /\ longer.commandQueue = Append(q.commandQueue, item)
  BY <1>1, <1>2 DEF Queues
<1>4. \A i \in DOMAIN Append(q.commandQueue, item) :
         \/ i \in DOMAIN q.commandQueue
            /\ Append(q.commandQueue, item)[i] = q.commandQueue[i]
         \/ Append(q.commandQueue, item)[i] = item
  BY <1>1, <1>2
<1>5. Carries(longer) => Carries(q) \/ packet.kind = "telegram"
  BY <1>1, <1>3, <1>4 DEF Carries
<1> HIDE DEF longer
<1>6. /\ HandleKNXQueue(longer) \in Queues(Packets)
      /\ Carries(HandleKNXQueue(longer)) => Carries(longer)
      /\ KeepsSending(longer, HandleKNXQueue(longer))
  BY <1>3, HandleKeeps
<1> QED
  BY <1>3, <1>5, <1>6 DEF SendLast, KeepsSending, longer, item

\* The two awaits of the loop carry no telegram they did not carry before.
LEMMA LoopKeeps ==
    ASSUME NEW q \in Queues(Packets)
    PROVE  /\ Carries(SendSucceeded(q)) => Carries(q)
           /\ Carries(SendFailed(q)) => Carries(q)
           /\ Carries(PacingDone(q)) => Carries(q)
           /\ SendSucceeded(q).loop = "pacing" /\ SendFailed(q).loop = "idle"
<1>1. SendSucceeded(q).loop = "pacing" /\ (Carries(SendSucceeded(q)) => Carries(q))
  BY DEF SendSucceeded, Queues, Carries
<1>2. SendFailed(q).loop = "idle" /\ (Carries(SendFailed(q)) => Carries(q))
  BY DEF SendFailed, Queues, Carries
<1>3. Carries(PacingDone(q)) => Carries(q)
  <2> DEFINE resumed == [q EXCEPT !.loop = "idle"]
  <2>1. resumed \in Queues(Packets) /\ (Carries(resumed) => Carries(q))
    BY DEF Queues, Carries
  <2> HIDE DEF resumed
  <2>2. Carries(HandleKNXQueue(resumed)) => Carries(resumed)
    BY <2>1, HandleKeeps
  <2> QED
    BY <2>1, <2>2 DEF PacingDone, resumed
<1> QED
  BY <1>1, <1>2, <1>3

----------------------------------------------------------------------------
\* The methods: what they leave alone, and the number a telegram takes.

\* d follows c without a load of the keyring: the numbers of Data Secure only
\* grow, by one at least when a protected telegram leaves.
Ahead(c, d) ==
    /\ d.secure = c.secure /\ d.backbone = c.backbone /\ d.groupKeys = c.groupKeys
    /\ c.state \in Late => d.state \in Late
    /\ c.seq48 <= d.seq48
    /\ KeepsSending(c.q, d.q)
    /\ Emits(c.q, d.q) /\ Secures(d, d.q.current.packet) => c.seq48 < d.seq48

\* A handler calls its methods one behind the other.
LEMMA AheadTransitive ==
    ASSUME NEW c \in ClientFields, NEW d \in ClientFields, NEW e \in ClientFields,
           Ahead(c, d), Ahead(d, e)
    PROVE  Ahead(c, e)
<1>1. c.seq48 \in Nat /\ d.seq48 \in Nat /\ e.seq48 \in Nat
  BY DEF ClientFields
<1>2. KeepsSending(c.q, e.q)
  BY DEF Ahead, KeepsSending
<1>3. ASSUME Emits(c.q, e.q), Secures(e, e.q.current.packet)
      PROVE  c.seq48 < e.seq48
  <2>1. CASE d.q.loop = "sending"
    <3>1. e.q.current = d.q.current /\ Emits(c.q, d.q)
      BY <1>3, <2>1 DEF Ahead, KeepsSending, Emits
    <3>2. Secures(d, d.q.current.packet)
      BY <1>3, <3>1 DEF Ahead, Secures
    <3>3. c.seq48 < d.seq48 /\ d.seq48 <= e.seq48
      BY <3>1, <3>2 DEF Ahead
    <3> QED
      BY <1>1, <3>3
  <2>2. CASE d.q.loop # "sending"
    <3>1. Emits(d.q, e.q)
      BY <1>3, <2>2 DEF Emits
    <3>2. c.seq48 <= d.seq48 /\ d.seq48 < e.seq48
      BY <1>3, <3>1 DEF Ahead
    <3> QED
      BY <1>1, <3>2
  <2> QED
    BY <2>1, <2>2
<1>4. c.seq48 <= e.seq48
  BY <1>1 DEF Ahead
<1> QED
  BY <1>2, <1>3, <1>4 DEF Ahead

\* Fields a queue operation does not touch.
SameButQueue(c, d) ==
    /\ d.state = c.state /\ d.authenticated = c.authenticated
    /\ d.backbone = c.backbone /\ d.groupKeys = c.groupKeys
    /\ d.secure = c.secure /\ d.bursts = c.bursts

\* A client that may carry a telegram.
MayCarry(c) == c.state \in Late /\ (c.secure => c.backbone)

\* A change of the queue that leaves the packet on its way alone.
LEMMA WithQueueAhead ==
    ASSUME NEW c, Sane(c), NEW r \in Queues(Packets), KeepsSending(c.q, r),
           Carries(r) => MayCarry(c)
    PROVE  /\ Sane(WithQueue(c, r)) /\ Ahead(c, WithQueue(c, r))
           /\ SameButQueue(c, WithQueue(c, r))
<1> DEFINE number == IF Emits(c.q, r) /\ Secures(c, r.current.packet)
                     THEN c.seq48 + 1 ELSE c.seq48
           d == WithQueue(c, r)
<1>0. c \in ClientFields /\ c.seq48 \in Nat
  BY DEF Sane, ClientFields
<1>1. number \in Nat /\ c.seq48 <= number
  BY <1>0
<1>2. d = [c EXCEPT !.q = r, !.seq48 = number]
  BY DEF WithQueue
<1> HIDE DEF d, number
<1>3. d \in ClientFields /\ SameButQueue(c, d) /\ d.seq48 = number /\ d.q = r
  BY <1>0, <1>1, <1>2 DEF ClientFields, SameButQueue
<1>4. Sane(d)
  BY <1>3 DEF Sane, SameButQueue, MayCarry
<1>5. Emits(c.q, r) /\ Secures(d, r.current.packet) => number = c.seq48 + 1
  BY <1>3 DEF number, Secures, SameButQueue
<1>6. Ahead(c, d)
  BY <1>0, <1>1, <1>3, <1>5 DEF Ahead, SameButQueue
<1> QED
  BY <1>3, <1>4, <1>6 DEF d

\* send() of a search, or of a telegram by a client that may write one.
LEMMA SendAhead ==
    ASSUME NEW c, Sane(c), NEW packet \in Packets,
           packet.kind = "telegram" => MayCarry(c)
    PROVE  /\ Sane(Send(c, packet)) /\ Ahead(c, Send(c, packet))
           /\ SameButQueue(c, Send(c, packet))
<1> DEFINE r == SendLast(c.q, QueueItem(packet, FALSE, -1))
<1>1. c.q \in Queues(Packets)
  BY DEF Sane, ClientFields
<1>2. /\ r \in Queues(Packets) /\ KeepsSending(c.q, r)
      /\ Carries(r) => Carries(c.q) \/ packet.kind = "telegram"
  BY <1>1, SendKeeps
<1> HIDE DEF r
<1>3. Carries(r) => MayCarry(c)
  BY <1>2 DEF Sane, MayCarry
<1>4. /\ Sane(WithQueue(c, r)) /\ Ahead(c, WithQueue(c, r))
      /\ SameButQueue(c, WithQueue(c, r))
  BY <1>2, <1>3, WithQueueAhead
<1> QED
  BY <1>4 DEF Send, r

\* The setter of clearToSend.
LEMMA OpenGateAhead ==
    ASSUME NEW c, Sane(c)
    PROVE  /\ Sane(OpenGate(c)) /\ Ahead(c, OpenGate(c))
           /\ SameButQueue(c, OpenGate(c))
<1> DEFINE r == SetClearToSend(c.q)
<1>1. c.q \in Queues(Packets)
  BY DEF Sane, ClientFields
<1>2. r \in Queues(Packets) /\ KeepsSending(c.q, r) /\ (Carries(r) => Carries(c.q))
  BY <1>1, OpenKeeps
<1> HIDE DEF r
<1>3. Carries(r) => MayCarry(c)
  BY <1>2 DEF Sane, MayCarry
<1>4. /\ Sane(WithQueue(c, r)) /\ Ahead(c, WithQueue(c, r))
      /\ SameButQueue(c, WithQueue(c, r))
  BY <1>2, <1>3, WithQueueAhead
<1> QED
  BY <1>4 DEF OpenGate, r

\* Two search requests, the plain one and the secure one.
LEMMA SendSearchRequestAhead ==
    ASSUME NEW c, Sane(c)
    PROVE  /\ Sane(SendSearchRequest(c)) /\ Ahead(c, SendSearchRequest(c))
           /\ SameButQueue(c, SendSearchRequest(c))
<1> DEFINE d == Send(c, Search)
           e == Send(d, Search)
<1>1. Sane(d) /\ Ahead(c, d) /\ SameButQueue(c, d)
  BY SearchesArePackets, SendAhead
<1> HIDE DEF d
<1>2. Sane(e) /\ Ahead(d, e) /\ SameButQueue(d, e)
  BY <1>1, SearchesArePackets, SendAhead
<1> HIDE DEF e
<1>3. c \in ClientFields /\ d \in ClientFields /\ e \in ClientFields
  BY <1>1, <1>2 DEF Sane
<1>4. Ahead(c, e)
  BY <1>1, <1>2, <1>3, AheadTransitive
<1>5. SameButQueue(c, e)
  BY <1>1, <1>2 DEF SameButQueue
<1> QED
  BY <1>2, <1>4, <1>5 DEF SendSearchRequest, d, e

\* A client that has what it needs becomes CONNECTED.
LEMMA EstablishedAhead ==
    ASSUME NEW c, Sane(c), c.secure => c.backbone /\ c.authenticated
    PROVE  /\ Sane(Established(c)) /\ Ahead(c, Established(c))
           /\ Established(c).bursts = c.bursts
<1> DEFINE d == [c EXCEPT !.state = "CONNECTED", !.q.failed = 0]
<1>1. c \in ClientFields /\ c.q \in Queues(Packets) /\ c.seq48 \in Nat
  BY DEF Sane, ClientFields
<1>2. d.q = [c.q EXCEPT !.failed = 0] /\ d.q \in Queues(Packets)
  BY <1>1 DEF ClientFields, Queues, MaxFailedACK
<1>3. /\ d.q.current = c.q.current /\ d.q.loop = c.q.loop
      /\ d.q.commandQueue = c.q.commandQueue
  BY <1>1, <1>2 DEF Queues
<1>4. /\ d.state = "CONNECTED" /\ d.authenticated = c.authenticated
      /\ d.backbone = c.backbone /\ d.groupKeys = c.groupKeys
      /\ d.secure = c.secure /\ d.bursts = c.bursts /\ d.seq48 = c.seq48
  BY <1>1 DEF ClientFields
<1>5. d \in ClientFields
  BY <1>1, <1>2 DEF ClientFields, States
<1> HIDE DEF d
<1>6. Sane(d)
  BY <1>3, <1>4, <1>5 DEF Sane, Carries, Late
<1>7. Ahead(c, d)
  BY <1>1, <1>3, <1>4 DEF Ahead, KeepsSending, Emits, Late
<1>8. Sane(OpenGate(d)) /\ Ahead(d, OpenGate(d)) /\ SameButQueue(d, OpenGate(d))
  BY <1>6, OpenGateAhead
<1>9. Ahead(c, OpenGate(d))
  BY <1>1, <1>5, <1>7, <1>8, AheadTransitive DEF Sane
<1> QED
  BY <1>4, <1>8, <1>9 DEF Established, d, SameButQueue

\* A handler that sets fields before it calls a method.
LEMMA FieldsAhead ==
    ASSUME NEW c, Sane(c), NEW d \in ClientFields,
           d.secure = c.secure, d.backbone = c.backbone, d.groupKeys = c.groupKeys,
           c.state \in Late => d.state \in Late,
           d.state = "CONNECTED" => c.state = "CONNECTED",
           c.authenticated => d.authenticated, c.seq48 <= d.seq48,
           d.q.current = c.q.current, d.q.loop = c.q.loop,
           d.q.commandQueue = c.q.commandQueue
    PROVE  Sane(d) /\ Ahead(c, d)
<1>1. Carries(d.q) => Carries(c.q)
  BY DEF Carries
<1>2. Sane(d)
  BY <1>1 DEF Sane
<1>3. Ahead(c, d)
  BY DEF Ahead, KeepsSending, Emits
<1> QED
  BY <1>2, <1>3

\* secureRoutingEmitConnectedIfPending(), once the timer is authenticated.
LEMMA EmitConnectedAhead ==
    ASSUME NEW c, Sane(c), c.backbone, c.authenticated
    PROVE  /\ Sane(EmitConnectedIfPending(c)) /\ Ahead(c, EmitConnectedIfPending(c))
           /\ EmitConnectedIfPending(c).bursts = c.bursts
<1>1. CASE c.secure /\ c.state = "CONNECTING"
  BY <1>1, EstablishedAhead DEF EmitConnectedIfPending
<1>2. CASE ~(c.secure /\ c.state = "CONNECTING")
  <2>1. c \in ClientFields /\ c.seq48 <= c.seq48
    BY DEF Sane, ClientFields
  <2>2. Ahead(c, c)
    BY <2>1 DEF Ahead, KeepsSending, Emits
  <2> QED
    BY <1>2, <2>2 DEF EmitConnectedIfPending
<1> QED
  BY <1>1, <1>2

----------------------------------------------------------------------------
\* What a step puts on the wire.

Increases(w) == w.lastSeq # wire.lastSeq => w.lastSeq > wire.lastSeq

\* The frame that leaves is protected, with a number above the last.
LEMMA TransmitsProtected ==
    ASSUME IInv, NEW d, Sane(d), d.secure = client.secure,
           wire.lastSeq < d.seq48,
           wire.lastSeq # -1 => d.backbone /\ d.state \in Late,
           Emits(client.q, d.q) /\ Secures(d, d.q.current.packet)
              => wire.lastSeq < d.seq48 - 1
    PROVE  Protected(d, Transmits(d)) /\ Increases(Transmits(d))
<1> DEFINE packet == d.q.current.packet
           secured == Secures(d, packet)
           number == IF secured THEN d.seq48 - 1 ELSE wire.lastSeq
           w == Transmits(d)
<1>1. /\ wire \in [frame : Packets \cup {NoPacket, Control("timerNotify")},
                   wrapped : BOOLEAN, secured : BOOLEAN, lastSeq : Int, failed : BOOLEAN]
      /\ client.secure /\ wire.frame.kind = "telegram" =>
            wire.wrapped /\ (wire.secured <=> wire.frame.num \in KeyedGroups)
  BY DEF IInv, Protected
<1>2. CASE ~Emits(client.q, d.q)
  <2>1. w = wire
    BY <1>2 DEF Transmits
  <2> HIDE DEF w
  <2> QED
    BY <1>1, <2>1 DEF Protected, Increases, w
<1>3. CASE Emits(client.q, d.q)
  <2>1. packet \in Packets \cup {NoPacket} /\ d.seq48 \in Nat /\ d.secure \in BOOLEAN
    BY DEF Sane, ClientFields, Queues, ItemsOf
  <2>2. packet.kind = "telegram" => d.state \in Late /\ (d.secure => d.backbone /\ d.groupKeys)
    BY DEF Sane, Carries
  <2>3. w = [wire EXCEPT !.frame = packet, !.wrapped = Wraps(d, packet),
                         !.secured = secured, !.lastSeq = number]
    BY <1>3 DEF Transmits
  <2>4. secured \in BOOLEAN /\ Wraps(d, packet) \in BOOLEAN
    BY DEF Secures, Wraps
  <2>5. number \in Int /\ number < d.seq48 /\ (number # wire.lastSeq => number > wire.lastSeq)
    BY <1>1, <1>3, <2>1
  <2>6. number # -1 => d.backbone /\ d.state \in Late
    BY <2>2 DEF Secures
  <2>7. d.secure /\ packet.kind = "telegram" =>
           Wraps(d, packet) /\ (secured <=> packet.num \in KeyedGroups)
    BY <2>2 DEF Wraps, Secures
  <2> HIDE DEF w, number, packet, secured
  <2>8. /\ w.frame = packet /\ w.wrapped = Wraps(d, packet)
        /\ w.secured = secured /\ w.lastSeq = number
        /\ w \in [frame : Packets \cup {NoPacket, Control("timerNotify")},
                  wrapped : BOOLEAN, secured : BOOLEAN, lastSeq : Int, failed : BOOLEAN]
    BY <1>1, <2>1, <2>3, <2>4, <2>5
  <2>9. Protected(d, w)
    BY <2>5, <2>6, <2>7, <2>8 DEF Protected
  <2>10. Increases(w)
    BY <2>5, <2>8 DEF Increases
  <2> QED
    BY <2>9, <2>10 DEF w
<1> QED
  BY <1>2, <1>3

\* So it is when the client has only gone ahead, whatever leaves.
LEMMA AheadProtected ==
    ASSUME IInv, NEW d, Sane(d), Ahead(client, d)
    PROVE  /\ Protected(d, Transmits(d)) /\ Increases(Transmits(d))
           /\ Protected(d, wire) /\ Increases(wire)
<1>1. wire.lastSeq \in Int /\ client.seq48 \in Nat /\ d.seq48 \in Nat
  BY DEF IInv, Sane, ClientFields, Protected
<1>2. /\ wire.lastSeq < client.seq48 /\ client.seq48 <= d.seq48
      /\ d.secure = client.secure
      /\ wire.lastSeq # -1 => d.backbone /\ d.state \in Late
  BY DEF IInv, Protected, Ahead
<1>3. wire.lastSeq < d.seq48
  BY <1>1, <1>2
<1>4. Emits(client.q, d.q) /\ Secures(d, d.q.current.packet)
         => wire.lastSeq < d.seq48 - 1
  BY <1>1, <1>2 DEF Ahead
<1>5. Protected(d, Transmits(d)) /\ Increases(Transmits(d))
  BY <1>2, <1>3, <1>4, TransmitsProtected
<1>6. Protected(d, wire) /\ Increases(wire)
  BY <1>2, <1>3 DEF IInv, Protected, Increases
<1> QED
  BY <1>5, <1>6

----------------------------------------------------------------------------
\* One lemma per action: the invariant, and the numbers on the wire.

\* An action that goes ahead, and sends what leaves or nothing.
LEMMA StepAhead ==
    ASSUME IInv, Sane(client'), Ahead(client, client'),
           wire' = wire \/ wire' = Transmits(client'), Bounded'
    PROVE  IInv' /\ Increases(wire')
<1>1. Protected(client', wire') /\ Increases(wire')
  BY AheadProtected
<1> QED
  BY <1>1 DEF IInv

\* What the actions read from the invariant.
LEMMA ClientTypes ==
    ASSUME IInv
    PROVE  /\ Sane(client) /\ client \in ClientFields
           /\ client.q \in Queues(Packets) /\ client.seq48 \in Nat
           /\ client.bursts \in Nat /\ client.bursts <= 2 * used[2]
           /\ used \in Nat \X Nat /\ used[2] <= MaxSearches /\ MaxSearches \in Nat
BY RoutingClientAssumption DEF IInv, Sane, ClientFields, Bounded

\* Connect() of a secure client loads the keyring, while no telegram is under way.
LEMMA ConnectStep ==
    ASSUME IInv, Connect
    PROVE  IInv' /\ Increases(wire')
<1> DEFINE b == [client EXCEPT !.state = "CONNECTING", !.q.failed = 0]
           c == OpenGate(b)
<1>1. PICK now \in ClockValues :
         client' = IF c.secure THEN EnsureKeyring(c, "Connect", now)
                   ELSE IF c.q.socketReady THEN Established(c) ELSE c
  BY DEF Connect
<1>2. /\ client.state = "DISCONNECTED" /\ wire' = Transmits(client') /\ used' = used
  BY DEF Connect
<1>3. now \in Nat
  BY RoutingClientAssumption
<1>4. /\ b \in ClientFields /\ b.state = "CONNECTING" /\ b.secure = client.secure
      /\ b.backbone = client.backbone /\ b.groupKeys = client.groupKeys
      /\ b.authenticated = client.authenticated /\ b.seq48 = client.seq48
      /\ b.bursts = client.bursts /\ b.q.current = client.q.current
      /\ b.q.loop = client.q.loop /\ b.q.commandQueue = client.q.commandQueue
  <2> DEFINE r == [client.q EXCEPT !.failed = 0]
  <2>1. /\ r \in Queues(Packets) /\ r.current = client.q.current
        /\ r.loop = client.q.loop /\ r.commandQueue = client.q.commandQueue
    BY ClientTypes DEF Queues, MaxFailedACK
  <2>2. b = [client EXCEPT !.state = "CONNECTING", !.q = r]
    BY ClientTypes DEF ClientFields
  <2> HIDE DEF b, r
  <2> QED
    BY <2>1, <2>2, ClientTypes DEF ClientFields, States
<1> HIDE DEF b
<1>5. Sane(b) /\ Ahead(client, b)
  BY <1>2, <1>4, ClientTypes, FieldsAhead DEF Late
<1>6. Sane(c) /\ Ahead(b, c) /\ SameButQueue(b, c)
  BY <1>5, OpenGateAhead
<1> HIDE DEF c
<1>7. c \in ClientFields /\ c.bursts = client.bursts /\ c.state = "CONNECTING"
      /\ c.secure = client.secure
  BY <1>4, <1>6 DEF Sane, SameButQueue
<1>8. Ahead(client, c)
  BY <1>4, <1>5, <1>6, <1>7, ClientTypes, AheadTransitive
<1>9. CASE ~c.secure
  <2>1. CASE c.q.socketReady
    <3>1. client' = Established(c)
      BY <1>1, <1>9, <2>1
    <3>2. Sane(client') /\ Ahead(c, client') /\ client'.bursts = c.bursts
      BY <1>6, <1>9, <3>1, EstablishedAhead
    <3>3. Ahead(client, client')
      BY <1>7, <1>8, <3>2, ClientTypes, AheadTransitive DEF Sane
    <3>4. Bounded'
      BY <1>2, <1>7, <3>2, ClientTypes DEF Bounded
    <3> QED
      BY <1>2, <3>2, <3>3, <3>4, StepAhead
  <2>2. CASE ~c.q.socketReady
    <3>1. client' = c
      BY <1>1, <1>9, <2>2
    <3>2. Bounded'
      BY <1>2, <1>7, <3>1, ClientTypes DEF Bounded
    <3> QED
      BY <1>2, <1>6, <1>8, <3>1, <3>2, StepAhead
  <2> QED
    BY <2>1, <2>2
<1>10. CASE c.secure
  <2> DEFINE d == EnsureKeyring(c, "Connect", now)
  <2>1. client' = d
    BY <1>1, <1>10
  <2>2. /\ d \in ClientFields /\ d.state = c.state /\ d.secure = c.secure
        /\ ~d.backbone /\ ~d.groupKeys /\ d.seq48 = now /\ d.q = c.q
        /\ d.bursts = c.bursts
    BY <1>3, <1>7 DEF EnsureKeyring, ClientFields
  <2> HIDE DEF d
  <2>3. ~Carries(d.q)
    BY <1>6, <1>7, <2>2 DEF Sane, Late
  <2>4. Sane(d)
    BY <1>7, <2>2, <2>3 DEF Sane
  <2>5. wire.lastSeq = -1
    BY <1>2 DEF IInv, Protected, Late
  <2>6. wire.lastSeq < d.seq48
    BY <1>3, <2>2, <2>5
  <2>7. ~Secures(d, d.q.current.packet)
    BY <2>2 DEF Secures
  <2>8. Protected(d, Transmits(d)) /\ Increases(Transmits(d))
    BY <1>7, <2>2, <2>4, <2>5, <2>6, <2>7, TransmitsProtected
  <2>9. Bounded'
    BY <1>2, <1>7, <2>1, <2>2, ClientTypes DEF Bounded
  <2> QED
    BY <1>2, <2>1, <2>4, <2>8, <2>9 DEF IInv
<1> QED
  BY <1>9, <1>10

\* write(): a telegram is queued by a client that is CONNECTED.
LEMMA WriteStep ==
    ASSUME IInv, Write
    PROVE  IInv' /\ Increases(wire')
<1>1. PICK group \in Groups : client' = Send(client, Telegram(group))
  BY DEF Write
<1>2. /\ client.state = "CONNECTED" /\ wire' = Transmits(client')
      /\ used' = [used EXCEPT ![1] = @ + 1]
  BY DEF Write
<1>3. MayCarry(client)
  BY <1>2, ClientTypes DEF Sane, MayCarry, Late
<1>4. Sane(client') /\ Ahead(client, client') /\ SameButQueue(client, client')
  BY <1>1, <1>3, TelegramsArePackets, ClientTypes, SendAhead
<1>5. Bounded'
  BY <1>2, <1>4, ClientTypes DEF Bounded, SameButQueue
<1> QED
  BY <1>2, <1>4, <1>5, StepAhead

\* Disconnect() keeps the keys: a telegram may still be on its way.
LEMMA DisconnectStep ==
    ASSUME IInv, Disconnect
    PROVE  IInv' /\ Increases(wire')
<1>1. /\ client' = [client EXCEPT !.discovery = FALSE, !.description = FALSE,
                               !.state = "DISCONNECTING", !.socket = "null",
                               !.q.exitLoop = TRUE, !.q.socketReady = FALSE]
      /\ wire' = wire /\ used' = used
  BY DEF Disconnect
<1>2. /\ client' \in ClientFields /\ client'.state = "DISCONNECTING"
      /\ client'.secure = client.secure /\ client'.backbone = client.backbone
      /\ client'.groupKeys = client.groupKeys /\ client'.seq48 = client.seq48
      /\ client'.authenticated = client.authenticated
      /\ client'.bursts = client.bursts
      /\ client'.q.current = client.q.current /\ client'.q.loop = client.q.loop
      /\ client'.q.commandQueue = client.q.commandQueue
  BY <1>1, ClientTypes DEF ClientFields, States, Queues
<1>3. Sane(client') /\ Ahead(client, client')
  BY <1>2, ClientTypes, FieldsAhead DEF Late
<1>4. Bounded'
  BY <1>1, <1>2, ClientTypes DEF Bounded
<1> QED
  BY <1>1, <1>3, <1>4, StepAhead

\* Only fields outside the keys, the numbers and the packets of the queue change.
Untouched(c, d) ==
    /\ d \in ClientFields
    /\ d.state = c.state /\ d.secure = c.secure
    /\ d.backbone = c.backbone /\ d.groupKeys = c.groupKeys
    /\ d.authenticated = c.authenticated /\ d.seq48 = c.seq48
    /\ d.q.current = c.q.current /\ d.q.loop = c.q.loop
    /\ d.q.commandQueue = c.q.commandQueue

\* Such a change goes ahead.
LEMMA UntouchedAhead ==
    ASSUME NEW c, Sane(c), NEW d, Untouched(c, d)
    PROVE  Sane(d) /\ Ahead(c, d)
<1>1. c.seq48 <= d.seq48
  BY DEF Untouched, ClientFields
<1> QED
  BY <1>1, FieldsAhead DEF Untouched

\* The gate opened behind the setter's back.
LEMMA GateForced ==
    ASSUME NEW q \in Queues(Packets)
    PROVE  LET r == [q EXCEPT !.clearToSend = TRUE]
           IN  /\ r \in Queues(Packets) /\ r.current = q.current
               /\ r.loop = q.loop /\ r.commandQueue = q.commandQueue
BY DEF Queues

\* startDiscovery() queues two searches and owes two repetitions.
LEMMA StartDiscoveryStep ==
    ASSUME IInv, StartDiscovery
    PROVE  IInv' /\ Increases(wire')
<1> DEFINE r == [client.q EXCEPT !.clearToSend = TRUE]
           b == [client EXCEPT !.q.clearToSend = TRUE, !.discovery = TRUE,
                               !.bursts = @ + 2]
<1>1. /\ client' = SendSearchRequest(b) /\ wire' = Transmits(client')
      /\ used' = [used EXCEPT ![2] = @ + 1] /\ used[2] < MaxSearches
  BY DEF StartDiscovery
<1>2. /\ r \in Queues(Packets) /\ r.current = client.q.current
      /\ r.loop = client.q.loop /\ r.commandQueue = client.q.commandQueue
  BY ClientTypes, GateForced
<1>3. b = [client EXCEPT !.q = r, !.discovery = TRUE,
                         !.bursts = client.bursts + 2]
      /\ client.bursts + 2 \in Nat
  BY ClientTypes DEF ClientFields
<1> HIDE DEF b, r
<1>4. Untouched(client, b) /\ b.bursts = client.bursts + 2
  <2>1. client \in ClientFields
    BY ClientTypes
  <2> QED
    BY <1>2, <1>3, <2>1 DEF ClientFields, Untouched
<1>5. Sane(b) /\ Ahead(client, b)
  BY <1>4, ClientTypes, UntouchedAhead
<1>6. Sane(client') /\ Ahead(b, client') /\ SameButQueue(b, client')
  BY <1>1, <1>5, SendSearchRequestAhead
<1>7. Ahead(client, client')
  BY <1>5, <1>6, AheadTransitive, ClientTypes DEF Sane
<1>8. Bounded'
  BY <1>1, <1>4, <1>6, ClientTypes DEF Bounded, SameButQueue
<1> QED
  BY <1>1, <1>6, <1>7, <1>8, StepAhead

\* startGatewayDescription() queues one request.
LEMMA StartGatewayDescriptionStep ==
    ASSUME IInv, StartGatewayDescription
    PROVE  IInv' /\ Increases(wire')
<1> DEFINE r == [client.q EXCEPT !.clearToSend = TRUE]
           b == [client EXCEPT !.q.clearToSend = TRUE, !.description = TRUE]
<1>1. /\ client' = Send(b, DescriptionRequest) /\ wire' = Transmits(client')
      /\ used' = [used EXCEPT ![2] = @ + 1] /\ used[2] < MaxSearches
  BY DEF StartGatewayDescription
<1>2. /\ r \in Queues(Packets) /\ r.current = client.q.current
      /\ r.loop = client.q.loop /\ r.commandQueue = client.q.commandQueue
  BY ClientTypes, GateForced
<1>3. b = [client EXCEPT !.q = r, !.description = TRUE]
  BY ClientTypes DEF ClientFields
<1> HIDE DEF b, r
<1>4. Untouched(client, b) /\ b.bursts = client.bursts
  BY <1>2, <1>3, ClientTypes DEF ClientFields, Untouched
<1>5. Sane(b) /\ Ahead(client, b)
  BY <1>4, ClientTypes, UntouchedAhead
<1>6. Sane(client') /\ Ahead(b, client') /\ SameButQueue(b, client')
  BY <1>1, <1>5, SearchesArePackets, SendAhead
<1>7. Ahead(client, client')
  BY <1>5, <1>6, AheadTransitive, ClientTypes DEF Sane
<1>8. Bounded'
  BY <1>1, <1>4, <1>6, ClientTypes DEF Bounded, SameButQueue
<1> QED
  BY <1>1, <1>6, <1>7, <1>8, StepAhead

\* An action that only changes fields outside the invariant.
LEMMA UntouchedStep ==
    ASSUME IInv, Untouched(client, client'), client'.bursts = client.bursts,
           wire' = wire, used' = used
    PROVE  IInv' /\ Increases(wire')
<1>1. Sane(client') /\ Ahead(client, client')
  BY ClientTypes, UntouchedAhead
<1>2. Bounded'
  BY ClientTypes DEF Bounded
<1> QED
  BY <1>1, <1>2, StepAhead

\* A search started again, or ended, and the socket in error.
LEMMA SearchAndErrorStep ==
    ASSUME IInv, StartAgain \/ SearchEnds \/ SocketError
    PROVE  IInv' /\ Increases(wire')
<1>1. CASE StartAgain
  <2> DEFINE r == [client.q EXCEPT !.clearToSend = TRUE]
  <2>1. /\ r \in Queues(Packets) /\ r.current = client.q.current
        /\ r.loop = client.q.loop /\ r.commandQueue = client.q.commandQueue
    BY ClientTypes, GateForced
  <2>2. client' = [client EXCEPT !.q = r] /\ wire' = wire /\ used' = used
    BY <1>1, ClientTypes DEF StartAgain, ClientFields
  <2> HIDE DEF r
  <2>3. Untouched(client, client') /\ client'.bursts = client.bursts
    BY <2>1, <2>2, ClientTypes DEF ClientFields, Untouched
  <2> QED
    BY <2>2, <2>3, UntouchedStep
<1>2. CASE SearchEnds
  <2>1. Untouched(client, client') /\ client'.bursts = client.bursts
    BY <1>2, ClientTypes DEF SearchEnds, ClientFields, Untouched
  <2> QED
    BY <1>2, <2>1, UntouchedStep DEF SearchEnds
<1>3. CASE SocketError
  <2> DEFINE r == [client.q EXCEPT !.socketReady = FALSE]
  <2>1. /\ r \in Queues(Packets) /\ r.current = client.q.current
        /\ r.loop = client.q.loop /\ r.commandQueue = client.q.commandQueue
    BY ClientTypes DEF Queues
  <2>2. client' = [client EXCEPT !.socket = "failed", !.q = r]
        /\ wire' = wire /\ used' = used
    BY <1>3, ClientTypes DEF SocketError, ClientFields
  <2> HIDE DEF r
  <2>3. Untouched(client, client') /\ client'.bursts = client.bursts
    BY <2>1, <2>2, ClientTypes DEF ClientFields, Untouched
  <2> QED
    BY <2>2, <2>3, UntouchedStep
<1> QED
  BY <1>1, <1>2, <1>3

\* A repetition of the search.
LEMMA BurstStep ==
    ASSUME IInv, Burst
    PROVE  IInv' /\ Increases(wire')
<1> DEFINE b == [client EXCEPT !.bursts = @ - 1]
<1>1. /\ client' = SendSearchRequest(b) /\ wire' = Transmits(client')
      /\ used' = used /\ client.bursts > 0
  BY DEF Burst
<1>2. Untouched(client, b) /\ b.bursts = client.bursts - 1
  BY <1>1, ClientTypes DEF ClientFields, Untouched
<1> HIDE DEF b
<1>3. Sane(b) /\ Ahead(client, b)
  BY <1>2, ClientTypes, UntouchedAhead
<1>4. Sane(client') /\ Ahead(b, client') /\ SameButQueue(b, client')
  BY <1>1, <1>3, SendSearchRequestAhead
<1>5. Ahead(client, client')
  BY <1>3, <1>4, AheadTransitive, ClientTypes DEF Sane
<1>6. Bounded'
  BY <1>1, <1>2, <1>4, ClientTypes DEF Bounded, SameButQueue
<1> QED
  BY <1>1, <1>4, <1>5, <1>6, StepAhead

\* A keyring that is loaded only ever adds keys.
LEMMA KeyringLoadedStep ==
    ASSUME IInv, KeyringLoaded
    PROVE  IInv' /\ Increases(wire')
<1>1. PICK caller \in client.loads :
         LET c == [client EXCEPT !.loads = @ \ {caller}]
         IN  client' =
               CASE c.keyring = "good" -> [c EXCEPT !.backbone = TRUE, !.groupKeys = TRUE]
                 [] c.keyring = "noBackbone" -> [c EXCEPT !.groupKeys = TRUE]
                 [] OTHER -> [c EXCEPT !.unhandled = @ \/ caller = "timer"]
  BY DEF KeyringLoaded
<1> DEFINE c == [client EXCEPT !.loads = @ \ {caller}]
<1>2. wire' = wire /\ used' = used
  BY DEF KeyringLoaded
<1>3. Untouched(client, c) /\ c.bursts = client.bursts /\ c.keyring = client.keyring
  BY ClientTypes DEF ClientFields, Untouched
<1>4. client' = CASE c.keyring = "good" -> [c EXCEPT !.backbone = TRUE, !.groupKeys = TRUE]
                  [] c.keyring = "noBackbone" -> [c EXCEPT !.groupKeys = TRUE]
                  [] OTHER -> [c EXCEPT !.unhandled = @ \/ caller = "timer"]
  BY <1>1
<1> HIDE DEF c
<1>5. c \in ClientFields /\ Sane(c) /\ Ahead(client, c)
  BY <1>3, ClientTypes, UntouchedAhead DEF Untouched
<1>6. CASE c.keyring = "good" \/ c.keyring = "noBackbone"
  <2>1. \/ client' = [c EXCEPT !.backbone = TRUE, !.groupKeys = TRUE]
        \/ client' = [c EXCEPT !.groupKeys = TRUE]
    BY <1>4, <1>6
  <2>2. /\ client' \in ClientFields /\ client'.state = c.state
        /\ client'.secure = c.secure /\ client'.authenticated = c.authenticated
        /\ client'.seq48 = c.seq48 /\ client'.q = c.q /\ client'.groupKeys
        /\ client'.bursts = c.bursts /\ (c.backbone => client'.backbone)
    BY <1>5, <2>1 DEF ClientFields
  <2>3. Sane(client')
    BY <1>5, <2>2 DEF Sane
  <2>4. Protected(client', wire)
    BY <1>3, <2>2 DEF IInv, Protected, Untouched
  <2>5. Bounded'
    BY <1>2, <1>3, <2>2, ClientTypes DEF Bounded
  <2> QED
    BY <1>2, <2>3, <2>4, <2>5 DEF IInv, Increases
<1>7. CASE ~(c.keyring = "good" \/ c.keyring = "noBackbone")
  <2>1. client' = [c EXCEPT !.unhandled = @ \/ caller = "timer"]
    BY <1>4, <1>7
  <2>2. (c.unhandled \/ caller = "timer") \in BOOLEAN
    OBVIOUS
  <2>3. client' \in ClientFields /\ client'.q = c.q /\ client'.bursts = c.bursts
    BY <1>5, <2>1, <2>2 DEF ClientFields
  <2>4. Untouched(client, client')
    BY <1>3, <1>5, <2>1, <2>3 DEF Untouched, ClientFields
  <2> QED
    BY <1>2, <1>3, <2>3, <2>4, UntouchedStep
<1> QED
  BY <1>6, <1>7

\* The timer behind 'listening' loads the keyring again only without a key:
\* no telegram can then be under way, and no number has been taken.
LEMMA SyncTimerFiresStep ==
    ASSUME IInv, SyncTimerFires
    PROVE  IInv' /\ Increases(wire')
<1> DEFINE c == [client EXCEPT !.syncTimer = FALSE]
<1>1. PICK now \in ClockValues :
         client' = IF c.backbone THEN c ELSE EnsureKeyring(c, "timer", now)
  BY DEF SyncTimerFires
<1>2. /\ wire' = IF client.backbone /\ client.socket # "null"
                 THEN [wire EXCEPT !.frame = Control("timerNotify")] ELSE wire
      /\ used' = used
  BY DEF SyncTimerFires
<1>3. Untouched(client, c) /\ c.bursts = client.bursts
  BY ClientTypes DEF ClientFields, Untouched
<1>4. now \in Nat
  BY RoutingClientAssumption
<1> HIDE DEF c
<1>5. c \in ClientFields /\ Sane(c) /\ Ahead(client, c) /\ c.backbone = client.backbone
      /\ c.seq48 = client.seq48
  BY <1>3, ClientTypes, UntouchedAhead DEF Untouched
<1>6. CASE client.backbone
  <2>1. client' = c
    BY <1>1, <1>5, <1>6
  <2>2. Protected(c, wire)
    BY <1>5, AheadProtected
  <2>3. CASE wire' = wire
    <3>1. Bounded'
      BY <1>2, <1>3, <2>1, ClientTypes DEF Bounded
    <3> QED
      BY <1>5, <2>1, <2>3, <3>1, StepAhead
  <2>4. CASE wire' = [wire EXCEPT !.frame = Control("timerNotify")]
    <3>1. Protected(c, wire') /\ wire'.lastSeq = wire.lastSeq
      BY <2>2, <2>4, SearchesArePackets DEF Protected
    <3>2. Bounded'
      BY <1>2, <1>3, <2>1, ClientTypes DEF Bounded
    <3> QED
      BY <1>5, <2>1, <3>1, <3>2 DEF IInv, Increases
  <2> QED
    BY <1>2, <2>3, <2>4
<1>7. CASE ~client.backbone
  <2>1. client' = EnsureKeyring(c, "timer", now) /\ wire' = wire
    BY <1>1, <1>2, <1>5, <1>7
  <2>2. /\ client' \in ClientFields /\ client'.state = c.state
        /\ client'.secure = c.secure /\ client'.authenticated = c.authenticated
        /\ client'.seq48 = now /\ client'.q = c.q
        /\ ~client'.backbone /\ client'.bursts = c.bursts
    BY <1>4, <1>5, <2>1 DEF EnsureKeyring, ClientFields
  <2>3. Sane(client')
    BY <1>5, <1>7, <2>2 DEF Sane
  <2>4. wire.lastSeq = -1
    BY <1>7 DEF IInv, Protected
  <2>5. wire.lastSeq < client'.seq48
    BY <1>4, <2>2, <2>4
  <2>6. Protected(client', wire)
    BY <1>3, <2>2, <2>4, <2>5 DEF IInv, Protected, Untouched
  <2>7. Bounded'
    BY <1>2, <1>3, <2>2, ClientTypes DEF Bounded
  <2> QED
    BY <2>1, <2>3, <2>6, <2>7 DEF IInv, Increases
<1> QED
  BY <1>6, <1>7

\* 'listening': the queue is woken, a plain client that waits is CONNECTED.
LEMMA ListeningStep ==
    ASSUME IInv, Listening
    PROVE  IInv' /\ Increases(wire')
<1> DEFINE r == [client.q EXCEPT !.socketReady = TRUE]
           c == [client EXCEPT !.socket = "open", !.q.socketReady = TRUE]
           d == WithQueue(c, HandleKNXQueue(c.q))
<1>1. /\ client' = IF d.secure THEN [d EXCEPT !.syncTimer = TRUE]
                   ELSE IF d.state = "CONNECTING" THEN Established(d) ELSE d
      /\ wire' = Transmits(client') /\ used' = used
  BY DEF Listening
<1>2. /\ r \in Queues(Packets) /\ r.current = client.q.current
      /\ r.loop = client.q.loop /\ r.commandQueue = client.q.commandQueue
  BY ClientTypes DEF Queues
<1>3. c = [client EXCEPT !.socket = "open", !.q = r]
  BY ClientTypes DEF ClientFields
<1> HIDE DEF c, r
<1>4. Untouched(client, c) /\ c.bursts = client.bursts
  BY <1>2, <1>3, ClientTypes DEF ClientFields, Untouched
<1>5. Sane(c) /\ Ahead(client, c)
  BY <1>4, ClientTypes, UntouchedAhead
<1> DEFINE h == HandleKNXQueue(c.q)
<1>6. c.q \in Queues(Packets)
  BY <1>5 DEF Sane, ClientFields
<1>7. h \in Queues(Packets) /\ (Carries(h) => Carries(c.q)) /\ KeepsSending(c.q, h)
  BY <1>6, HandleKeeps
<1> HIDE DEF h
<1>8. Carries(h) => MayCarry(c)
  BY <1>5, <1>7 DEF Sane, MayCarry
<1>9. /\ Sane(WithQueue(c, h)) /\ Ahead(c, WithQueue(c, h))
      /\ SameButQueue(c, WithQueue(c, h))
  BY <1>5, <1>7, <1>8, WithQueueAhead
<1>10. Sane(d) /\ Ahead(c, d) /\ SameButQueue(c, d)
  BY <1>9 DEF h
<1> HIDE DEF d
<1>11. Ahead(client, d) /\ d \in ClientFields /\ d.bursts = client.bursts
  BY <1>4, <1>5, <1>10, AheadTransitive, ClientTypes DEF Sane, SameButQueue
<1>12. Sane(client') /\ Ahead(d, client') /\ client'.bursts = d.bursts
  <2>1. CASE d.secure
    <3>1. client' = [d EXCEPT !.syncTimer = TRUE]
      BY <1>1, <2>1
    <3>2. Untouched(d, client') /\ client'.bursts = d.bursts
      BY <1>11, <3>1 DEF ClientFields, Untouched
    <3> QED
      BY <1>10, <3>2, UntouchedAhead
  <2>2. CASE ~d.secure /\ d.state = "CONNECTING"
    BY <1>1, <1>10, <2>2, EstablishedAhead
  <2>3. CASE ~d.secure /\ d.state # "CONNECTING"
    <3>1. client' = d
      BY <1>1, <2>3
    <3>2. Untouched(d, d)
      BY <1>11 DEF Untouched
    <3> QED
      BY <1>10, <3>1, <3>2, UntouchedAhead
  <2> QED
    BY <2>1, <2>2, <2>3
<1>13. Ahead(client, client')
  BY <1>11, <1>12, AheadTransitive, ClientTypes DEF Sane
<1>14. Bounded'
  BY <1>1, <1>11, <1>12, ClientTypes DEF Bounded
<1> QED
  BY <1>1, <1>12, <1>13, <1>14, StepAhead

\* The send callback: nothing leaves, whether it reports success or an error.
LEMMA SendDoneStep ==
    ASSUME IInv, SendDone
    PROVE  IInv' /\ Increases(wire')
<1>1. PICK r \in {SendSucceeded(client.q), SendFailed(client.q)} :
         client' = WithQueue(client, r)
  BY DEF SendDone
<1>2. /\ wire' = wire \/ wire' = [wire EXCEPT !.failed = TRUE]
      /\ used' = used
  BY DEF SendDone
<1>3. /\ r \in Queues(Packets) /\ r.loop # "sending"
      /\ Carries(r) => Carries(client.q)
  BY ClientTypes, LoopType, LoopKeeps
<1>4. client' = [client EXCEPT !.q = r, !.seq48 = client.seq48]
  BY <1>1, <1>3 DEF WithQueue, Emits
<1>5. /\ client' \in ClientFields /\ client'.state = client.state
      /\ client'.secure = client.secure /\ client'.backbone = client.backbone
      /\ client'.groupKeys = client.groupKeys /\ client'.seq48 = client.seq48
      /\ client'.authenticated = client.authenticated
      /\ client'.bursts = client.bursts /\ client'.q = r
  BY <1>3, <1>4, ClientTypes DEF ClientFields
<1>6. Sane(client')
  BY <1>3, <1>5, ClientTypes DEF Sane
<1>7. Protected(client', wire)
  BY <1>5 DEF IInv, Protected
<1>8. Protected(client', wire') /\ Increases(wire')
  <2>1. CASE wire' = wire
    BY <1>7, <2>1 DEF Increases
  <2>2. CASE wire' = [wire EXCEPT !.failed = TRUE]
    BY <1>7, <2>2 DEF Protected, Increases
  <2> QED
    BY <1>2, <2>1, <2>2
<1>9. Bounded'
  BY <1>2, <1>5, ClientTypes DEF Bounded
<1> QED
  BY <1>6, <1>8, <1>9 DEF IInv

\* The pacing delay is over: the next packet may leave.
LEMMA PaceStep ==
    ASSUME IInv, Pace
    PROVE  IInv' /\ Increases(wire')
<1> DEFINE r == PacingDone(client.q)
<1>1. /\ client' = WithQueue(client, r) /\ wire' = Transmits(client')
      /\ used' = used /\ client.q.loop = "pacing"
  BY DEF Pace
<1>2. /\ r \in Queues(Packets) /\ (Carries(r) => Carries(client.q))
      /\ KeepsSending(client.q, r)
  BY <1>1, ClientTypes, LoopType, LoopKeeps DEF KeepsSending
<1> HIDE DEF r
<1>3. Carries(r) => MayCarry(client)
  BY <1>2, ClientTypes DEF Sane, MayCarry
<1>4. Sane(client') /\ Ahead(client, client') /\ SameButQueue(client, client')
  BY <1>1, <1>2, <1>3, ClientTypes, WithQueueAhead
<1>5. Bounded'
  BY <1>1, <1>4, ClientTypes DEF Bounded, SameButQueue
<1> QED
  BY <1>1, <1>4, <1>5, StepAhead

\* A frame that carries the routing timer: it is authenticated, and a client
\* that waits for it becomes CONNECTED.
LEMMA ReceiveTimerStep ==
    ASSUME IInv, ReceiveWrapper \/ ReceiveTimerNotify
    PROVE  IInv' /\ Increases(wire')
<1>1. PICK timer \in TimerValues :
         client' = EmitConnectedIfPending(Authenticate(client, timer))
  BY DEF ReceiveWrapper, ReceiveTimerNotify
<1>2. client.backbone /\ wire' = Transmits(client') /\ used' = used
  BY DEF ReceiveWrapper, ReceiveTimerNotify
<1> DEFINE number == IF client.seq48 < timer THEN timer ELSE client.seq48
           c == Authenticate(client, timer)
<1>3. number \in Nat /\ client.seq48 <= number
  BY ClientTypes, RoutingClientAssumption
<1>4. c = [client EXCEPT !.authenticated = TRUE, !.seq48 = number]
  BY DEF Authenticate
<1> HIDE DEF c, number
<1>5. /\ c \in ClientFields /\ c.state = client.state
      /\ c.secure = client.secure /\ c.backbone = client.backbone
      /\ c.groupKeys = client.groupKeys /\ client.seq48 <= c.seq48
      /\ c.authenticated /\ c.bursts = client.bursts /\ c.q = client.q
  BY <1>3, <1>4, ClientTypes DEF ClientFields
<1>6. Sane(c) /\ Ahead(client, c)
  BY <1>5, ClientTypes, FieldsAhead
<1>7. Sane(client') /\ Ahead(c, client') /\ client'.bursts = c.bursts
  BY <1>1, <1>2, <1>5, <1>6, EmitConnectedAhead DEF c
<1>8. Ahead(client, client')
  BY <1>5, <1>6, <1>7, AheadTransitive, ClientTypes DEF Sane
<1>9. Bounded'
  BY <1>2, <1>5, <1>7, ClientTypes DEF Bounded
<1> QED
  BY <1>2, <1>7, <1>8, <1>9, StepAhead

\* A search response is answered past the queue.
LEMMA ReceiveSearchResponseStep ==
    ASSUME IInv, ReceiveSearchResponse
    PROVE  IInv' /\ Increases(wire')
<1>1. /\ client' = [client EXCEPT !.probed = TRUE]
      /\ wire' = [wire EXCEPT !.frame = Search] /\ used' = used
  BY DEF ReceiveSearchResponse
<1>2. Untouched(client, client') /\ client'.bursts = client.bursts
  BY <1>1, ClientTypes DEF ClientFields, Untouched
<1>3. Sane(client') /\ Ahead(client, client')
  BY <1>2, ClientTypes, UntouchedAhead
<1>4. Protected(client', wire)
  BY <1>3, AheadProtected
<1>5. Protected(client', wire') /\ Increases(wire')
  BY <1>1, <1>4, SearchesArePackets DEF Protected, Increases
<1>6. Bounded'
  BY <1>1, <1>2, ClientTypes DEF Bounded
<1> QED
  BY <1>3, <1>5, <1>6 DEF IInv

----------------------------------------------------------------------------
\* The theorems.

\* The instance is built without a key, a telegram or a number.
LEMMA InitIInv == Init => IInv
<1> SUFFICES ASSUME Init PROVE IInv
  OBVIOUS
<1> DEFINE q0 == [EmptyQueue EXCEPT !.clearToSend = FALSE, !.socketReady = FALSE]
<1>1. /\ q0 \in Queues(Packets) /\ q0.commandQueue = << >>
      /\ q0.current.packet.kind = "none"
  <2>1. << >> \in Seq(ItemsOf(Packets)) /\ 0 \in 0 .. MaxFailedACK
    BY DEF MaxFailedACK
  <2>2. /\ QueueItem(NoPacket, FALSE, -1) \in ItemsOf(Packets \cup {NoPacket})
        /\ QueueItem(NoPacket, FALSE, -1).packet.kind = "none"
    BY DEF QueueItem, ItemsOf, NoPacket
  <2> QED
    BY <2>1, <2>2 DEF EmptyQueue, Queues
<1> HIDE DEF q0
<1>2. PICK secure \in BOOLEAN, keyring \in {"good", "noBackbone", "unreadable"} :
         client = [secure |-> secure, keyring |-> keyring, state |-> "DISCONNECTED",
                   socket |-> "binding", backbone |-> FALSE, groupKeys |-> FALSE,
                   loads |-> {}, syncTimer |-> FALSE, authenticated |-> FALSE,
                   seq48 |-> 0, discovery |-> FALSE, description |-> FALSE,
                   bursts |-> 0, probed |-> FALSE, unhandled |-> FALSE, q |-> q0]
  BY DEF Init, q0
<1>3. client \in ClientFields
  BY <1>1, <1>2 DEF ClientFields, States
<1>4. ~Carries(client.q)
  BY <1>1, <1>2 DEF Carries
<1>5. Sane(client)
  BY <1>2, <1>3, <1>4 DEF Sane
<1>6. Protected(client, wire)
  BY <1>2, SearchesArePackets DEF Init, Protected
<1>7. Bounded
  BY <1>2, RoutingClientAssumption DEF Init, Bounded
<1> QED
  BY <1>5, <1>6, <1>7 DEF IInv

\* Every step keeps the invariant, and the numbers on the wire increase in it.
LEMMA NextIInv == IInv /\ [Next]_vars => IInv' /\ Increases(wire')
<1> SUFFICES ASSUME IInv, [Next]_vars PROVE IInv' /\ Increases(wire')
  OBVIOUS
<1>1. CASE Application
  BY <1>1, ConnectStep, WriteStep, DisconnectStep, StartDiscoveryStep,
     StartGatewayDescriptionStep, SearchAndErrorStep DEF Application
<1>2. CASE Internal
  BY <1>2, BurstStep, KeyringLoadedStep, SyncTimerFiresStep, ListeningStep,
     SearchAndErrorStep, SendDoneStep, PaceStep DEF Internal
<1>3. CASE Network
  BY <1>3, ReceiveTimerStep, ReceiveSearchResponseStep DEF Network
<1>4. CASE UNCHANGED vars
  BY <1>4 DEF vars, IInv, Sane, Protected, Bounded, Increases
<1> QED
  BY <1>1, <1>2, <1>3, <1>4 DEF Next

\* IInv is an inductive invariant of the multicast client.
THEOREM InductiveInvariant == Spec => []IInv
BY InitIInv, NextIInv, PTL DEF Spec

\* The fields keep their types, the wire carries only the client's own frames,
\* and a search owes at most two repetitions per discovery started.
THEOREM TypeCorrect == Spec => []TypeOK
<1>1. IInv => TypeOK
  <2> SUFFICES ASSUME IInv PROVE TypeOK
    OBVIOUS
  <2>1. client \in ClientFields /\ client.bursts \in 0 .. 2 * MaxSearches
    BY ClientTypes
  <2>2. wire.frame \in Packets \cup {NoPacket, Control("timerNotify")}
    BY DEF IInv, Protected
  <2> QED
    BY <2>1, <2>2 DEF TypeOK, ClientFields, States
<1> QED
  BY <1>1, InductiveInvariant, PTL

\* A secure client is CONNECTED only with its keys and an authenticated timer,
\* and no telegram of it leaves without the protection its group asks for.
THEOREM RoutingIsProtected == Spec => []ProtectedOnTheWire
<1>1. IInv => ProtectedOnTheWire
  BY DEF IInv, Sane, Protected, ProtectedOnTheWire
<1> QED
  BY <1>1, InductiveInvariant, PTL

\* The numbers of Data Secure on the wire increase, across every load of the
\* keyring and every timer the others announce.
THEOREM NumbersIncrease == Spec => DataSecureSeqIncreases
<1>1. IInv /\ [Next]_vars
         => [wire'.lastSeq # wire.lastSeq => wire'.lastSeq > wire.lastSeq]_vars
  BY NextIInv DEF Increases
<1> QED
  BY <1>1, InductiveInvariant, PTL DEF Spec, DataSecureSeqIncreases
=============================================================================
