-------------------------- MODULE SecureTunnel_proofs --------------------------
(***************************************************************************)
(* Proofs about the client of a KNX/IP Secure session over TCP, for every  *)
(* modulus of the sequence numbers and every number of telegrams and of    *)
(* answers of the gateway.                                                 *)
(*                                                                         *)
(* The order of the handshake follows from where the client stands in it:  *)
(* the invariant says, for every value of _secureHandshakeState, what the  *)
(* gateway has received, and that nothing of the tunnel (a telegram in the *)
(* queue, a channel, a heartbeat) exists before CONNECT_RESPONSE.          *)
(***************************************************************************)
EXTENDS SecureTunnel, TLAPS, SequenceTheorems

-----------------------------------------------------------------------------
(* The queue of the client: what the operations of SendQueue preserve *)

\* One turn of the loop of handleKNXQueue leaves a queue of the same packets.
LEMMA DispatchType ==
    ASSUME NEW P, NEW q \in Queues(P), Sendable(q)
    PROVE  Dispatch(q) \in Queues(P)
<1>1. q.commandQueue \in Seq(ItemsOf(P)) /\ q.commandQueue # << >>
  BY DEF Queues, Sendable
<1>2. Head(q.commandQueue) \in ItemsOf(P) /\ Tail(q.commandQueue) \in Seq(ItemsOf(P))
  BY <1>1
<1>3. Head(q.commandQueue) \in ItemsOf(P \cup {NoPacket})
  BY <1>2 DEF ItemsOf
<1>4. Head(q.commandQueue).packet \in P \cup {NoPacket}
  BY <1>2 DEF ItemsOf
<1> QED
  BY <1>2, <1>3, <1>4 DEF Dispatch, SetTimerWaitingForACK, Queues

\* handleKNXQueue() leaves a queue of the same packets, whether its loop runs or not.
LEMMA HandleType ==
    ASSUME NEW P, NEW q \in Queues(P)
    PROVE  HandleKNXQueue(q) \in Queues(P)
BY DispatchType DEF HandleKNXQueue

\* After handleKNXQueue() nothing that may be sent is left without a loop.
LEMMA HandleAwake ==
    ASSUME NEW P, NEW q \in Queues(P)
    PROVE  Awake(HandleKNXQueue(q))
<1>1. CASE q.loop = "idle" /\ Sendable(q)
  <2>1. Dispatch(q).loop = "sending"
    BY DEF Dispatch, SetTimerWaitingForACK, Queues
  <2> QED
    BY <1>1, <2>1 DEF HandleKNXQueue, Awake
<1>2. CASE ~(q.loop = "idle" /\ Sendable(q))
  BY <1>2 DEF HandleKNXQueue, Awake
<1> QED
  BY <1>1, <1>2

\* The two awaits of the loop leave a queue of the same packets, sound or not.
LEMMA LoopType ==
    ASSUME NEW P, NEW q \in Queues(P)
    PROVE  /\ SendSucceeded(q) \in Queues(P)
           /\ SendFailed(q) \in Queues(P)
           /\ PacingDone(q) \in Queues(P)
<1>1. SendSucceeded(q) \in Queues(P)
  BY DEF SendSucceeded, Queues
<1>2. SendFailed(q) \in Queues(P)
  <2>1. << >> \in Seq(ItemsOf(P))
    OBVIOUS
  <2> QED
    BY <2>1 DEF SendFailed, Queues
<1>3. PacingDone(q) \in Queues(P)
  <2>1. [q EXCEPT !.loop = "idle"] \in Queues(P)
    BY DEF Queues
  <2> QED
    BY <2>1, HandleType DEF PacingDone
<1> QED
  BY <1>1, <1>2, <1>3

\* clearTimer(ACK), with the failure counter set within its bound, keeps the type.
LEMMA ClearAckTimerType ==
    ASSUME NEW P, NEW q \in Queues(P), NEW n \in 0 .. MaxFailedACK
    PROVE  [ClearAckTimer(q) EXCEPT !.failed = n] \in Queues(P)
<1>1. ClearAckTimer(q) \in Queues(P)
  BY DEF ClearAckTimer, Queues
<1> QED
  BY <1>1 DEF Queues

-----------------------------------------------------------------------------
(* The client *)

States == {"DISCONNECTED", "CONNECTING", "CONNECTED", "DISCONNECTING"}
Requests == {Handshake[i] : i \in 1 .. 3}

ClientFields ==
    [state : States, socket : {"idle", "opening", "open", "shut", "null"},
     closeEvent : BOOLEAN,
     hs : {"none", "lookup", "tcp", "starting", "session", "auth", "connect"},
     channel : BOOLEAN, seq : 0 .. SeqModulus - 1,
     timers : SUBSET Timers, delays : 0 .. MaxStatuses,
     misses : 0 .. MaxHeartbeatFailures - 1,
     running : BOOLEAN, awaiting : BOOLEAN, call : {"none", "waiting", "done"},
     awaits : SUBSET {"Disconnect", "setDisconnected"},
     thrown : BOOLEAN, q : Queues(Packets)]

GatewayFields ==
    [got : Seq(Requests), statuses : 0 .. MaxStatuses, answers : Nat,
     last : -1 .. SeqModulus - 1, skipped : Nat, alive : BOOLEAN]

\* A client between two methods: nothing waits in its queue without a loop, and
\* nothing leaves it without a socket.
Fit(c) ==
    /\ c \in ClientFields
    /\ Awake(c.q)
    /\ SocketNull(c) => ~c.q.socketReady

\* The requests of the handshake in their order, the last of them repeated or not.
InOrder(got) ==
    \A i \in DOMAIN got : got[i] = Handshake[IF i < 3 THEN i ELSE 3]

\* The gateway has answered a CONNECT_REQUEST.
Up(g) == g.answers > 0

\* What the gateway g has received at each stage of the handshake of c.
Staged(c, g) ==
    /\ InOrder(g.got)
    /\ c.hs \in {"lookup", "tcp", "starting"} => Len(g.got) = 0
    /\ c.hs = "none" => Len(g.got) \in {0, 2}
    /\ c.hs = "session" => Len(g.got) \in {0, 1}
    /\ c.hs = "auth" => Len(g.got) = 2
    /\ c.hs = "connect" => Len(g.got) >= 2
    /\ Up(g) => c.hs = "connect" /\ Len(g.got) >= 3

\* A delay before CONNECT_REQUEST outlives the socket, never the session; each
\* was begun by a status of the gateway, and ends in one request at most.
Delayed(c, g) ==
    /\ Len(g.got) + c.delays <= 2 + g.statuses
    /\ c.delays > 0 => \/ c.hs \in {"auth", "connect"}
                       \/ c.hs = "none" /\ SocketNull(c) /\ Len(g.got) = 2

\* The socket moves with the first stages, and is never opened twice.
Opened(c, g) ==
    /\ c.socket = "opening" => c.hs = "tcp"
    /\ c.socket = "idle" => c.hs \in {"none", "lookup"}
    /\ c.state = "DISCONNECTED" /\ ~SocketNull(c) =>
          c.hs = "none" /\ c.socket = "idle" /\ Len(g.got) = 0

\* Something of the tunnel exists.
Tunnelled(c) ==
    \/ c.state = "CONNECTED"
    \/ c.channel
    \/ c.timers \cap {"FIRST_HEARTBEAT", "HEARTBEAT"} # {}
    \/ c.q.commandQueue # << >>

\* The client c in step with the gateway g.
InStep(c, g) ==
    /\ g \in GatewayFields
    /\ Staged(c, g)
    /\ Delayed(c, g)
    /\ Opened(c, g)
    /\ Tunnelled(c) \/ g.last # -1 => Up(g)

\* The numbers from the last one on the wire to the next, round the modulus.
Distance(seq, last) == IF seq > last THEN seq - last ELSE seq - last + SeqModulus

\* Only raw telegrams use up a number without putting it on the wire.
Counted(seq, last, skipped) ==
    last # -1 /\ skipped < SeqModulus => Distance(seq, last) = skipped + 1

IInv ==
    /\ Fit(client)
    /\ InStep(client, gateway)
    /\ written \in (0 .. MaxWrites) \X (0 .. MaxRaw)
    /\ Counted(client.seq, gateway.last, gateway.skipped)

----------------------------------------------------------------------------
\* The numbers.

\* secureIncTunnelSeq() goes round the modulus.
LEMMA IncValue ==
    ASSUME NEW seq \in 0 .. SeqModulus - 1
    PROVE  /\ SecureIncTunnelSeq(seq) \in 0 .. SeqModulus - 1
           /\ SecureIncTunnelSeq(seq) = IF seq + 1 = SeqModulus THEN 0 ELSE seq + 1
           /\ SecureIncTunnelSeq(seq) # seq
<1>1. SeqModulus \in Nat /\ SeqModulus > 1
  BY SecureTunnelAssumption
<1>2. (seq + 1) % SeqModulus = IF seq + 1 = SeqModulus THEN 0 ELSE seq + 1
  BY <1>1, SMTT(30)
<1> QED
  BY <1>1, <1>2 DEF SecureIncTunnelSeq

\* The telegram that leaves is the last on the wire: the next number is one on.
LEMMA CountedSent ==
    ASSUME NEW seq \in 0 .. SeqModulus - 1
    PROVE  Counted(SecureIncTunnelSeq(seq), seq, 0)
<1>1. SeqModulus \in Nat /\ SeqModulus > 1
  BY SecureTunnelAssumption
<1> QED
  BY <1>1, IncValue DEF Counted, Distance

\* A telegram that arrives leaves the handshake as it is.
LEMMA ArrivesFit ==
    ASSUME NEW g \in GatewayFields, NEW seq \in 0 .. SeqModulus - 1
    PROVE  LET h == Arrives(g, seq)
           IN  /\ h \in GatewayFields /\ h.last = seq /\ h.skipped = 0
               /\ h.got = g.got /\ h.answers = g.answers /\ h.statuses = g.statuses
<1>1. seq \in -1 .. SeqModulus - 1
  BY SecureTunnelAssumption
<1> QED
  BY <1>1 DEF Arrives, GatewayFields

\* A raw telegram uses up a number, and is counted.
LEMMA CountedTaken ==
    ASSUME NEW seq \in 0 .. SeqModulus - 1, NEW last \in -1 .. SeqModulus - 1,
           NEW skipped \in Nat, Counted(seq, last, skipped)
    PROVE  Counted(SecureIncTunnelSeq(seq), last, skipped + 1)
<1>1. SeqModulus \in Nat /\ SeqModulus > 1
  BY SecureTunnelAssumption
<1> QED
  BY <1>1, IncValue DEF Counted, Distance

----------------------------------------------------------------------------
\* The queue.

\* The client's packets are packets, and only one of them is a telegram.
LEMMA PacketKinds ==
    /\ Telegram(0) \in Packets /\ Own \in Packets
    /\ Telegram(0).kind = "telegram" /\ Own.kind # "telegram"
BY DEF Packets, Own, Telegram, Control

\* An item of the client's is an item of the queue.
LEMMA ItemType ==
    ASSUME NEW packet \in Packets
    PROVE  /\ QueueItem(packet, FALSE, 0) \in ItemsOf(Packets)
           /\ QueueItem(packet, FALSE, 0).packet = packet
BY DEF QueueItem, ItemsOf

\* What handleKNXQueue() takes from the queue, and when.
LEMMA HandleTakes ==
    ASSUME NEW q \in Queues(Packets)
    PROVE  LET r == HandleKNXQueue(q)
           IN  /\ r \in Queues(Packets) /\ Awake(r)
               /\ r.socketReady = q.socketReady
               /\ r.commandQueue # << >> => q.commandQueue # << >>
               /\ Emits(q, r) => /\ q.socketReady /\ q.commandQueue # << >>
                                 /\ q.loop = "idle" /\ Sendable(q)
                                 /\ r.current = Head(q.commandQueue)
<1> DEFINE r == HandleKNXQueue(q)
<1>1. r \in Queues(Packets) /\ Awake(r)
  BY HandleType, HandleAwake
<1>2. CASE q.loop = "idle" /\ Sendable(q)
  <2>1. r = Dispatch(q)
    BY <1>2 DEF HandleKNXQueue
  <2>2. Dispatch(q).current = Head(q.commandQueue) /\ Dispatch(q).socketReady = q.socketReady
    BY DEF Dispatch, SetTimerWaitingForACK, Queues
  <2> QED
    BY <1>1, <1>2, <2>1, <2>2 DEF Sendable
<1>3. CASE ~(q.loop = "idle" /\ Sendable(q))
  BY <1>1, <1>3 DEF HandleKNXQueue, Emits
<1> QED
  BY <1>2, <1>3

\* send() without priority: what leaves is the packet itself, for nothing may
\* wait in front of it in a queue that is not worked off.
LEMMA SendLastTakes ==
    ASSUME NEW q \in Queues(Packets), Awake(q), NEW packet \in Packets
    PROVE  LET r == SendLast(q, QueueItem(packet, FALSE, 0))
           IN  /\ r \in Queues(Packets) /\ Awake(r)
               /\ r.socketReady = q.socketReady
               /\ Emits(q, r) => q.socketReady /\ r.current.packet = packet
<1> DEFINE item == QueueItem(packet, FALSE, 0)
           longer == [q EXCEPT !.commandQueue = Append(@, item)]
           r == HandleKNXQueue(longer)
<1>1. item \in ItemsOf(Packets) /\ item.packet = packet
  BY ItemType
<1>2. q.commandQueue \in Seq(ItemsOf(Packets))
  BY DEF Queues
<1> HIDE DEF item
<1>3. /\ longer \in Queues(Packets)
      /\ longer.loop = q.loop /\ longer.clearToSend = q.clearToSend
      /\ longer.exitLoop = q.exitLoop /\ longer.socketReady = q.socketReady
      /\ longer.commandQueue = Append(q.commandQueue, item)
  BY <1>1, <1>2 DEF Queues
<1> HIDE DEF longer
<1>4. /\ r \in Queues(Packets) /\ Awake(r) /\ r.socketReady = longer.socketReady
      /\ Emits(longer, r) => /\ longer.socketReady /\ longer.loop = "idle"
                             /\ Sendable(longer)
                             /\ r.current = Head(longer.commandQueue)
  BY <1>3, HandleTakes
<1> HIDE DEF r
<1>5. ASSUME Emits(q, r) PROVE q.socketReady /\ r.current.packet = packet
  <2>1. Emits(longer, r)
    BY <1>3, <1>5 DEF Emits
  <2>2. q.commandQueue = << >>
    BY <1>3, <1>4, <2>1 DEF Awake, Sendable
  <2>3. Head(longer.commandQueue) = item
    BY <1>1, <1>3, <2>2
  <2> QED
    BY <1>1, <1>3, <1>4, <2>1, <2>3
<1> QED
  BY <1>3, <1>4, <1>5 DEF SendLast, r, longer, item

\* send() with priority: what leaves is the packet itself, whatever waits.
LEMMA SendFirstTakes ==
    ASSUME NEW q \in Queues(Packets), NEW packet \in Packets
    PROVE  LET r == SendFirst(q, QueueItem(packet, FALSE, 0))
           IN  /\ r \in Queues(Packets) /\ Awake(r)
               /\ r.socketReady = q.socketReady
               /\ Emits(q, r) => q.socketReady /\ r.current.packet = packet
<1> DEFINE item == QueueItem(packet, FALSE, 0)
           longer == [q EXCEPT !.commandQueue = << item >> \o @, !.clearToSend = TRUE]
           r == HandleKNXQueue(longer)
<1>1. item \in ItemsOf(Packets) /\ item.packet = packet
  BY ItemType
<1>2. q.commandQueue \in Seq(ItemsOf(Packets))
  BY DEF Queues
<1> HIDE DEF item
<1>3. /\ << item >> \o q.commandQueue \in Seq(ItemsOf(Packets))
      /\ Head(<< item >> \o q.commandQueue) = item
  BY <1>1, <1>2
<1>4. /\ longer \in Queues(Packets)
      /\ longer.loop = q.loop /\ longer.socketReady = q.socketReady
      /\ longer.commandQueue = << item >> \o q.commandQueue
  BY <1>1, <1>2, <1>3 DEF Queues
<1> HIDE DEF longer
<1>5. /\ r \in Queues(Packets) /\ Awake(r) /\ r.socketReady = longer.socketReady
      /\ Emits(longer, r) => /\ longer.socketReady
                             /\ r.current = Head(longer.commandQueue)
  BY <1>4, HandleTakes
<1> HIDE DEF r
<1>6. Emits(q, r) => Emits(longer, r)
  BY <1>4 DEF Emits
<1> QED
  BY <1>1, <1>3, <1>4, <1>5, <1>6 DEF SendFirst, r, longer, item

\* The setter of clearToSend, given true.
LEMMA OpenTakes ==
    ASSUME NEW q \in Queues(Packets)
    PROVE  LET r == SetClearToSend(q)
           IN  /\ r \in Queues(Packets) /\ Awake(r)
               /\ r.socketReady = q.socketReady
               /\ r.commandQueue # << >> => q.commandQueue # << >>
               /\ Emits(q, r) => q.socketReady /\ q.commandQueue # << >>
<1> DEFINE opened == [q EXCEPT !.clearToSend = TRUE]
           r == HandleKNXQueue(opened)
<1>1. /\ opened \in Queues(Packets)
      /\ opened.loop = q.loop /\ opened.socketReady = q.socketReady
      /\ opened.commandQueue = q.commandQueue
  BY DEF Queues
<1> HIDE DEF opened
<1>2. /\ r \in Queues(Packets) /\ Awake(r) /\ r.socketReady = opened.socketReady
      /\ r.commandQueue # << >> => opened.commandQueue # << >>
      /\ Emits(opened, r) => opened.socketReady /\ opened.commandQueue # << >>
  BY <1>1, HandleTakes
<1> HIDE DEF r
<1>3. Emits(q, r) => Emits(opened, r)
  BY <1>1 DEF Emits
<1> QED
  BY <1>1, <1>2, <1>3 DEF SetClearToSend, r, opened

----------------------------------------------------------------------------
\* The methods.

\* Fields a queue operation does not touch.
SameButQueue(c, d) ==
    /\ d.state = c.state /\ d.socket = c.socket /\ d.hs = c.hs
    /\ d.channel = c.channel /\ d.timers = c.timers /\ d.delays = c.delays

\* The packet that leaves in the step from c to d, and the number it takes.
Numbered(c, d) == Emits(c.q, d.q) /\ IsTelegram(d.q.current)

\* A change of the queue that lets something leave only when it can.
LEMMA WithQueueFit ==
    ASSUME NEW c \in ClientFields, NEW r \in Queues(Packets), Awake(r),
           SocketNull(c) => ~r.socketReady,
           Emits(c.q, r) => ~SocketNull(c) /\ c.hs = "connect"
    PROVE  LET d == WithQueue(c, r)
           IN  /\ Fit(d) /\ SameButQueue(c, d) /\ d.q = r
               /\ d.seq = IF Numbered(c, d) THEN SecureIncTunnelSeq(c.seq) ELSE c.seq
<1> DEFINE number == IF Emits(c.q, r) /\ IsTelegram(r.current)
                     THEN SecureIncTunnelSeq(c.seq) ELSE c.seq
           d == WithQueue(c, r)
<1>1. c.seq \in 0 .. SeqModulus - 1
  BY DEF ClientFields
<1>2. number \in 0 .. SeqModulus - 1
  BY <1>1, IncValue
<1>3. d = [c EXCEPT !.q = r, !.seq = number]
  BY DEF WithQueue
<1> HIDE DEF d, number
<1>4. d \in ClientFields /\ SameButQueue(c, d) /\ d.q = r /\ d.seq = number
  BY <1>2, <1>3 DEF ClientFields, SameButQueue
<1>5. Fit(d)
  BY <1>4 DEF Fit, SocketNull, SameButQueue
<1> QED
  BY <1>4, <1>5 DEF d, number, Numbered

\* send() of the client that has a session.
LEMMA SendFit ==
    ASSUME NEW c, Fit(c), c.hs = "connect", NEW packet \in Packets
    PROVE  LET d == Send(c, packet)
           IN  /\ Fit(d) /\ SameButQueue(c, d)
               /\ Emits(c.q, d.q) => d.q.current.packet = packet
               /\ d.seq = IF Numbered(c, d) THEN SecureIncTunnelSeq(c.seq) ELSE c.seq
<1> DEFINE r == SendLast(c.q, QueueItem(packet, FALSE, 0))
<1>1. c \in ClientFields /\ c.q \in Queues(Packets) /\ Awake(c.q)
  BY DEF Fit, ClientFields
<1>2. /\ r \in Queues(Packets) /\ Awake(r) /\ r.socketReady = c.q.socketReady
      /\ Emits(c.q, r) => c.q.socketReady /\ r.current.packet = packet
  BY <1>1, SendLastTakes
<1> HIDE DEF r
<1>3. SocketNull(c) => ~r.socketReady
  BY <1>2 DEF Fit
<1>4. Emits(c.q, r) => ~SocketNull(c) /\ c.hs = "connect"
  BY <1>2 DEF Fit
<1>5. LET d == WithQueue(c, r)
      IN  /\ Fit(d) /\ SameButQueue(c, d) /\ d.q = r
          /\ d.seq = IF Numbered(c, d) THEN SecureIncTunnelSeq(c.seq) ELSE c.seq
  BY <1>1, <1>2, <1>3, <1>4, WithQueueFit
<1> QED
  BY <1>2, <1>5 DEF Send, r

\* sendPriority() of a packet of the client's own: it takes no number.
LEMMA SendPriorityFit ==
    ASSUME NEW c, Fit(c), c.hs = "connect"
    PROVE  LET d == SendPriority(c)
           IN  Fit(d) /\ SameButQueue(c, d) /\ d.seq = c.seq
<1> DEFINE r == SendFirst(c.q, QueueItem(Own, FALSE, 0))
           d == WithQueue(c, r)
<1>1. c \in ClientFields /\ c.q \in Queues(Packets) /\ Awake(c.q)
  BY DEF Fit, ClientFields
<1>2. /\ r \in Queues(Packets) /\ Awake(r) /\ r.socketReady = c.q.socketReady
      /\ Emits(c.q, r) => c.q.socketReady /\ r.current.packet = Own
  BY <1>1, SendFirstTakes, PacketKinds
<1> HIDE DEF r
<1>3. SocketNull(c) => ~r.socketReady
  BY <1>2 DEF Fit
<1>4. Emits(c.q, r) => ~SocketNull(c) /\ c.hs = "connect"
  BY <1>2 DEF Fit
<1>5. /\ Fit(d) /\ SameButQueue(c, d) /\ d.q = r
      /\ d.seq = IF Numbered(c, d) THEN SecureIncTunnelSeq(c.seq) ELSE c.seq
  BY <1>1, <1>2, <1>3, <1>4, WithQueueFit
<1> HIDE DEF d
<1>6. ~Numbered(c, d)
  BY <1>2, <1>5, PacketKinds DEF Numbered, IsTelegram
<1> QED
  BY <1>5, <1>6 DEF SendPriority, d, r

\* closeSocket(): the socket is gone, and the loop stopped.
LEMMA CloseSocketFit ==
    ASSUME NEW c, c \in ClientFields, SocketNull(c) => ~c.q.socketReady,
           NEW caller \in {"Disconnect", "setDisconnected"}
    PROVE  LET d == CloseSocket(c, caller)
           IN  /\ Fit(d) /\ SocketNull(d)
               /\ d.state = c.state /\ d.hs = c.hs /\ d.channel = c.channel
               /\ d.timers = c.timers /\ d.delays = c.delays /\ d.seq = c.seq
               /\ d.q.commandQueue = c.q.commandQueue
<1> DEFINE stopped == [c EXCEPT !.q.exitLoop = TRUE, !.awaits = @ \cup {caller}]
           r == [c.q EXCEPT !.exitLoop = TRUE]
<1>1. c.q \in Queues(Packets) /\ c.awaits \in SUBSET {"Disconnect", "setDisconnected"}
  BY DEF ClientFields
<1>2. /\ r \in Queues(Packets) /\ r.exitLoop
      /\ r.socketReady = c.q.socketReady /\ r.commandQueue = c.q.commandQueue
  BY <1>1 DEF Queues
<1>3. stopped = [c EXCEPT !.q = r, !.awaits = c.awaits \cup {caller}]
  BY DEF ClientFields
<1> HIDE DEF stopped, r
<1>4. /\ stopped \in ClientFields /\ stopped.q = r
      /\ stopped.state = c.state /\ stopped.hs = c.hs /\ stopped.channel = c.channel
      /\ stopped.timers = c.timers /\ stopped.seq = c.seq /\ stopped.socket = c.socket
      /\ stopped.delays = c.delays
  BY <1>1, <1>2, <1>3 DEF ClientFields
<1>5. CASE SocketNull(c)
  <2>1. CloseSocket(c, caller) = stopped
    BY <1>5 DEF CloseSocket, stopped
  <2>2. Fit(stopped)
    BY <1>2, <1>4, <1>5 DEF Fit, Awake, Sendable, SocketNull
  <2> QED
    BY <1>2, <1>4, <1>5, <2>1, <2>2 DEF SocketNull
<1>6. CASE ~SocketNull(c)
  <2> DEFINE deaf == [r EXCEPT !.socketReady = FALSE]
             d == [stopped EXCEPT !.socket = "null", !.q = deaf,
                                  !.closeEvent = c.socket # "shut"]
  <2>1. CloseSocket(c, caller) = [stopped EXCEPT !.socket = "null", !.q.socketReady = FALSE,
                                                 !.closeEvent = c.socket # "shut"]
    BY <1>6 DEF CloseSocket, stopped
  <2>2. CloseSocket(c, caller) = d
    BY <1>4, <2>1 DEF ClientFields
  <2>3. /\ deaf \in Queues(Packets) /\ deaf.exitLoop /\ ~deaf.socketReady
        /\ deaf.commandQueue = c.q.commandQueue
    BY <1>2 DEF Queues
  <2> HIDE DEF deaf
  <2>4. (c.socket # "shut") \in BOOLEAN
    OBVIOUS
  <2>5. /\ d \in ClientFields /\ d.q = deaf /\ d.socket = "null"
        /\ d.state = c.state /\ d.hs = c.hs /\ d.channel = c.channel
        /\ d.timers = c.timers /\ d.delays = c.delays /\ d.seq = c.seq
    BY <1>4, <2>3, <2>4 DEF ClientFields
  <2> HIDE DEF d
  <2>6. Fit(d) /\ SocketNull(d)
    BY <2>3, <2>5 DEF Fit, Awake, Sendable, SocketNull
  <2> QED
    BY <2>2, <2>3, <2>5, <2>6
<1> QED
  BY <1>5, <1>6

\* setDisconnected(): every timer of the map is cleared, the delay is not.
LEMMA SetDisconnectedFit ==
    ASSUME NEW c, c \in ClientFields, SocketNull(c) => ~c.q.socketReady
    PROVE  LET d == SetDisconnected(c)
           IN  /\ Fit(d) /\ SocketNull(d)
               /\ d.state = "DISCONNECTED" /\ d.hs = c.hs /\ ~d.channel
               /\ d.timers = {} /\ d.delays = c.delays /\ d.seq = c.seq
               /\ d.q.commandQueue = c.q.commandQueue
<1> DEFINE b == [ClearAllTimers(c) EXCEPT !.state = "DISCONNECTED", !.channel = FALSE]
<1>1. /\ b \in ClientFields /\ b.state = "DISCONNECTED" /\ ~b.channel
      /\ b.hs = c.hs /\ b.timers = {} /\ b.delays = c.delays /\ b.seq = c.seq
      /\ b.q = c.q /\ b.socket = c.socket
  BY DEF ClearAllTimers, ClientFields, States
<1> HIDE DEF b
<1>2. SocketNull(b) => ~b.q.socketReady
  BY <1>1 DEF SocketNull
<1>3. LET d == CloseSocket(b, "setDisconnected")
      IN  /\ Fit(d) /\ SocketNull(d)
          /\ d.state = b.state /\ d.hs = b.hs /\ d.channel = b.channel
          /\ d.timers = b.timers /\ d.delays = b.delays /\ d.seq = b.seq
          /\ d.q.commandQueue = b.q.commandQueue
  BY <1>1, <1>2, CloseSocketFit
<1> QED
  BY <1>1, <1>3 DEF SetDisconnected, b

\* The heartbeat of a client that has a session.
LEMMA RunHeartbeatFit ==
    ASSUME NEW c, Fit(c), c.hs = "connect"
    PROVE  LET d == RunHeartbeat(c)
           IN  /\ Fit(d) /\ d.state = c.state /\ d.socket = c.socket /\ d.hs = c.hs
               /\ d.channel = c.channel /\ d.seq = c.seq
               /\ d.delays = c.delays
<1>1. CASE ~c.running
  BY <1>1 DEF RunHeartbeat
<1>2. CASE c.running
  <2> DEFINE b == [c EXCEPT !.timers = @ \cup {"CONNECTION_STATE"}, !.awaiting = TRUE]
             s == SendPriority(b)
             d == [s EXCEPT !.timers = @ \cup {"HEARTBEAT"}]
  <2>1. /\ b \in ClientFields /\ b.q = c.q /\ b.state = c.state /\ b.socket = c.socket
        /\ b.hs = c.hs /\ b.channel = c.channel /\ b.seq = c.seq
        /\ b.delays = c.delays
    BY DEF Fit, ClientFields, Timers
  <2> HIDE DEF b
  <2>2. Fit(b)
    BY <2>1 DEF Fit, SocketNull
  <2>3. Fit(s) /\ SameButQueue(b, s) /\ s.seq = b.seq
    BY <2>1, <2>2, SendPriorityFit
  <2> HIDE DEF s
  <2>4. /\ d \in ClientFields /\ d.q = s.q /\ d.state = s.state /\ d.socket = s.socket
        /\ d.hs = s.hs /\ d.channel = s.channel /\ d.seq = s.seq
        /\ d.delays = s.delays
    BY <2>3 DEF Fit, ClientFields, Timers
  <2>5. RunHeartbeat(c) = d
    BY <1>2 DEF RunHeartbeat, s, b
  <2> HIDE DEF d
  <2>6. Fit(d)
    BY <2>3, <2>4 DEF Fit, SocketNull
  <2> QED
    BY <2>1, <2>3, <2>4, <2>5, <2>6 DEF SameButQueue
<1> QED
  BY <1>1, <1>2

\* startHeartBeat() begins with one at once.
LEMMA StartHeartBeatFit ==
    ASSUME NEW c, Fit(c), c.hs = "connect"
    PROVE  LET d == StartHeartBeat(c)
           IN  /\ Fit(d) /\ d.state = c.state /\ d.socket = c.socket /\ d.hs = c.hs
               /\ d.channel = c.channel /\ d.seq = c.seq
               /\ d.delays = c.delays
<1> DEFINE b == [c EXCEPT !.misses = 0, !.running = TRUE,
                          !.timers = @ \cap {"DISCONNECT"}]
<1>1. /\ b \in ClientFields /\ b.q = c.q /\ b.state = c.state /\ b.socket = c.socket
      /\ b.hs = c.hs /\ b.channel = c.channel /\ b.seq = c.seq
      /\ b.delays = c.delays
  <2>1. c \in ClientFields /\ c.timers \cap {"DISCONNECT"} \in SUBSET Timers
    BY DEF Fit, ClientFields
  <2>2. 0 \in 0 .. MaxHeartbeatFailures - 1
    BY DEF MaxHeartbeatFailures
  <2> QED
    BY <2>1, <2>2 DEF ClientFields
<1> HIDE DEF b
<1>2. Fit(b)
  BY <1>1 DEF Fit, SocketNull
<1>3. LET d == RunHeartbeat(b)
      IN  /\ Fit(d) /\ d.state = b.state /\ d.socket = b.socket /\ d.hs = b.hs
          /\ d.channel = b.channel /\ d.seq = b.seq
          /\ d.delays = b.delays
  BY <1>1, <1>2, RunHeartbeatFit
<1> QED
  BY <1>1, <1>3 DEF StartHeartBeat, b

\* A frame heard stops the wait for the answer to the heartbeat.
LEMMA HeardFit ==
    ASSUME NEW c, Fit(c)
    PROVE  LET d == Heard(c)
           IN  /\ Fit(d) /\ d.state = c.state /\ d.socket = c.socket /\ d.hs = c.hs
               /\ d.channel = c.channel /\ d.seq = c.seq /\ d.q = c.q
               /\ d.timers \subseteq c.timers /\ d.delays = c.delays
<1> DEFINE d == [c EXCEPT !.timers = @ \ {"CONNECTION_STATE"}, !.misses = 0]
<1>1. /\ d \in ClientFields /\ d.q = c.q /\ d.state = c.state /\ d.socket = c.socket
      /\ d.hs = c.hs /\ d.channel = c.channel /\ d.seq = c.seq
      /\ d.timers \subseteq c.timers /\ d.delays = c.delays
  <2>1. c \in ClientFields /\ c.timers \ {"CONNECTION_STATE"} \in SUBSET Timers
    BY DEF Fit, ClientFields
  <2>2. 0 \in 0 .. MaxHeartbeatFailures - 1
    BY DEF MaxHeartbeatFailures
  <2> QED
    BY <2>1, <2>2 DEF ClientFields
<1> HIDE DEF d
<1>2. Fit(d)
  BY <1>1 DEF Fit, SocketNull
<1> QED
  BY <1>1, <1>2 DEF Heard, d

----------------------------------------------------------------------------
\* One lemma per action.

\* What the actions read from the invariant.
LEMMA Typed ==
    ASSUME IInv
    PROVE  /\ Fit(client) /\ client \in ClientFields /\ client.q \in Queues(Packets)
           /\ Awake(client.q) /\ client.seq \in 0 .. SeqModulus - 1
           /\ gateway \in GatewayFields /\ gateway.last \in -1 .. SeqModulus - 1
           /\ gateway.skipped \in Nat /\ written[1] \in 0 .. MaxWrites
           /\ written[2] \in 0 .. MaxRaw
           /\ Counted(client.seq, gateway.last, gateway.skipped)
           /\ Tunnelled(client) => Up(gateway)
           /\ Up(gateway) => client.hs = "connect"
           /\ SocketNull(client) => ~client.q.socketReady
BY DEF IInv, Fit, ClientFields, InStep, GatewayFields, Staged

\* An action that leaves the handshake where it is.
LEMMA StepWithinStage ==
    ASSUME IInv, Fit(client'), client'.hs = client.hs,
           client'.socket = client.socket \/ client'.socket \in {"null", "shut"},
           SocketNull(client) => SocketNull(client'),
           client'.delays = client.delays, Tunnelled(client') => Up(gateway),
           client'.state = "DISCONNECTED" =>
              \/ SocketNull(client')
              \/ client.state = "DISCONNECTED" /\ client'.socket = client.socket,
           gateway' \in GatewayFields, gateway'.got = gateway.got,
           gateway'.answers = gateway.answers, gateway'.statuses = gateway.statuses,
           gateway'.last # -1 => gateway.last # -1 \/ Up(gateway),
           written' \in (0 .. MaxWrites) \X (0 .. MaxRaw),
           Counted(client'.seq, gateway'.last, gateway'.skipped)
    PROVE  IInv'
<1>1. Staged(client', gateway')
  BY DEF IInv, InStep, Staged, Up
<1>2. Delayed(client', gateway')
  BY DEF IInv, InStep, Delayed
<1>3. Opened(client', gateway')
  BY DEF IInv, InStep, Opened, SocketNull
<1>4. Tunnelled(client') \/ gateway'.last # -1 => Up(gateway')
  BY DEF IInv, InStep, Up
<1> QED
  BY <1>1, <1>2, <1>3, <1>4 DEF IInv, InStep

\* Such an action with nothing written, read or counted.
LEMMA StepInside ==
    ASSUME IInv, Fit(client'), client'.hs = client.hs,
           client'.socket = client.socket \/ client'.socket \in {"null", "shut"},
           SocketNull(client) => SocketNull(client'),
           client'.delays = client.delays, Tunnelled(client') => Up(gateway),
           client'.state = "DISCONNECTED" =>
              \/ SocketNull(client')
              \/ client.state = "DISCONNECTED" /\ client'.socket = client.socket,
           client'.seq = client.seq, gateway' = gateway, written' = written
    PROVE  IInv'
<1>1. /\ gateway' \in GatewayFields /\ written' \in (0 .. MaxWrites) \X (0 .. MaxRaw)
      /\ Counted(client'.seq, gateway'.last, gateway'.skipped)
      /\ gateway'.got = gateway.got /\ gateway'.answers = gateway.answers
      /\ gateway'.statuses = gateway.statuses
      /\ gateway'.last # -1 => gateway.last # -1
  BY DEF IInv, InStep
<1> QED
  BY <1>1, StepWithinStage

\* The end of the connection, from a client c that is like the present one.
LEMMA StepDisconnects ==
    ASSUME IInv, NEW c, c \in ClientFields, SocketNull(c) => ~c.q.socketReady,
           c.hs = client.hs, c.seq = client.seq, c.delays = client.delays,
           c.q.commandQueue = client.q.commandQueue,
           client' = SetDisconnected(c), gateway' = gateway, written' = written
    PROVE  IInv'
<1>1. /\ Fit(client') /\ SocketNull(client') /\ client'.state = "DISCONNECTED"
      /\ client'.hs = c.hs /\ ~client'.channel
      /\ client'.timers = {} /\ client'.delays = c.delays /\ client'.seq = c.seq
      /\ client'.q.commandQueue = c.q.commandQueue
  BY SetDisconnectedFit
<1>3. Tunnelled(client') => Up(gateway)
  BY <1>1, Typed DEF Tunnelled
<1>4. client'.socket \in {"null", "shut"}
  BY <1>1 DEF SocketNull
<1> QED
  BY <1>1, <1>3, <1>4, StepInside

\* A step of the tunnel, once the gateway has accepted it.
LEMMA StepInTunnel ==
    ASSUME IInv, Up(gateway), Fit(client'), client'.hs = client.hs,
           client'.socket = client.socket,
           client'.delays = client.delays,
           client'.state = "DISCONNECTED" => client.state = "DISCONNECTED",
           client'.seq = client.seq, gateway' = gateway, written' = written
    PROVE  IInv'
<1>1. SocketNull(client) => SocketNull(client')
  BY DEF SocketNull
<1> QED
  BY <1>1, StepInside

\* A telegram that leaves, or waits, once the gateway has accepted the tunnel.
LEMMA StepSends ==
    ASSUME IInv, Up(gateway), Fit(client'), client'.hs = client.hs,
           client'.state = client.state, client'.socket = client.socket,
           client'.delays = client.delays,
           \/ /\ client'.seq = client.seq
              /\ gateway' = gateway
           \/ /\ client'.seq = SecureIncTunnelSeq(client.seq)
              /\ gateway' = Arrives(gateway, client.seq),
           written' \in (0 .. MaxWrites) \X (0 .. MaxRaw)
    PROVE  IInv'
<1>1. /\ gateway' \in GatewayFields /\ gateway'.got = gateway.got
      /\ gateway'.answers = gateway.answers /\ gateway'.statuses = gateway.statuses
  BY Typed, ArrivesFit
<1>2. Counted(client'.seq, gateway'.last, gateway'.skipped)
  <2>1. CASE client'.seq = client.seq /\ gateway' = gateway
    BY <2>1, Typed
  <2>2. CASE /\ client'.seq = SecureIncTunnelSeq(client.seq)
             /\ gateway' = Arrives(gateway, client.seq)
    <3>1. gateway'.last = client.seq /\ gateway'.skipped = 0
      BY <2>2, Typed, ArrivesFit
    <3> QED
      BY <2>2, <3>1, Typed, CountedSent
  <2> QED
    BY <2>1, <2>2
<1>3. SocketNull(client) => SocketNull(client')
  BY DEF SocketNull
<1> QED
  BY <1>1, <1>2, <1>3, StepWithinStage

\* Connect() begins the handshake of an instance that is as it was built.
LEMMA ConnectStep ==
    ASSUME IInv, Connect
    PROVE  IInv'
<1> DEFINE r == [client.q EXCEPT !.failed = 0, !.clearToSend = TRUE]
<1>1. /\ client' = [client EXCEPT !.state = "CONNECTING", !.q.failed = 0,
                                !.q.clearToSend = TRUE, !.hs = "lookup"]
      /\ ~SocketNull(client) /\ client.state = "DISCONNECTED"
      /\ gateway' = gateway /\ written' = written
  BY DEF Connect
<1>2. client.hs = "none" /\ client.socket = "idle" /\ Len(gateway.got) = 0
  BY <1>1 DEF IInv, InStep, Opened
<1>3. ~Up(gateway) /\ ~Tunnelled(client)
  BY <1>2, Typed
<1>4. r \in Queues(Packets) /\ r.commandQueue = client.q.commandQueue
      /\ r.socketReady = client.q.socketReady
  <2>1. client.q \in Queues(Packets) /\ 0 \in 0 .. MaxFailedACK
    BY Typed DEF MaxFailedACK
  <2> QED
    BY <2>1 DEF Queues
<1>5. client' = [client EXCEPT !.state = "CONNECTING", !.q = r, !.hs = "lookup"]
  BY <1>1, Typed DEF ClientFields
<1> HIDE DEF r
<1>6. /\ client' \in ClientFields /\ client'.state = "CONNECTING" /\ client'.q = r
      /\ client'.hs = "lookup" /\ client'.socket = client.socket
      /\ client'.channel = client.channel /\ client'.timers = client.timers
      /\ client'.delays = client.delays /\ client'.seq = client.seq
  BY <1>4, <1>5, Typed DEF ClientFields, States
<1>7. ~Tunnelled(client') /\ r.commandQueue = << >>
  BY <1>3, <1>4, <1>6 DEF Tunnelled
<1>8. Fit(client')
  BY <1>1, <1>6, <1>7 DEF Fit, Awake, Sendable, SocketNull
<1>9. client.delays = 0
  BY <1>1, <1>2, Typed DEF IInv, InStep, Delayed, ClientFields
<1>10. InStep(client', gateway)
  BY <1>2, <1>3, <1>6, <1>7, <1>9 DEF IInv, InStep, Staged, Delayed, Opened
<1> QED
  BY <1>1, <1>6, <1>8, <1>10 DEF IInv

\* write(): the telegram takes its number when it leaves.
LEMMA WriteStep ==
    ASSUME IInv, Write
    PROVE  IInv'
<1>1. /\ client.state = "CONNECTED" /\ client' = Send(client, Telegram(0))
      /\ written' = [written EXCEPT ![1] = @ + 1] /\ written[1] < MaxWrites
      /\ gateway' = Received(gateway, client')
  BY DEF Write
<1>2. Up(gateway) /\ client.hs = "connect"
  BY <1>1, Typed DEF Tunnelled
<1>3. /\ Fit(client') /\ SameButQueue(client, client')
      /\ client'.seq = IF Numbered(client, client')
                       THEN SecureIncTunnelSeq(client.seq) ELSE client.seq
  BY <1>1, <1>2, Typed, PacketKinds, SendFit
<1>4. gateway' = IF Numbered(client, client')
                 THEN Arrives(gateway, client.seq) ELSE gateway
  BY <1>1 DEF Received, Numbered
<1>5. written' \in (0 .. MaxWrites) \X (0 .. MaxRaw)
  BY <1>1, SecureTunnelAssumption DEF IInv
<1> QED
  BY <1>2, <1>3, <1>4, <1>5, StepSends DEF SameButQueue

\* writeRaw() and respondRaw(): one number is taken, another put on the wire.
LEMMA WriteRawStep ==
    ASSUME IInv, WriteRaw
    PROVE  IInv'
<1> DEFINE taken == [client EXCEPT !.seq = SecureIncTunnelSeq(@)]
           number == SecureIncTunnelSeq(client.seq)
<1>1. /\ client.state = "CONNECTED" /\ client' = Send(taken, Telegram(0))
      /\ written' = [written EXCEPT ![2] = @ + 1] /\ written[2] < MaxRaw
      /\ gateway' = IF Emits(client.q, client'.q)
                    THEN Arrives(gateway, taken.seq)
                    ELSE [gateway EXCEPT !.skipped = @ + 1]
  BY DEF WriteRaw
<1>2. Up(gateway) /\ client.hs = "connect"
  BY <1>1, Typed DEF Tunnelled
<1>3. number \in 0 .. SeqModulus - 1
  BY Typed, IncValue
<1>4. /\ taken \in ClientFields /\ SameButQueue(client, taken)
      /\ taken.q = client.q /\ taken.seq = number
  BY <1>3, Typed DEF ClientFields, SameButQueue
<1> HIDE DEF taken, number
<1>5. Fit(taken) /\ taken.hs = "connect"
  BY <1>2, <1>4, Typed DEF Fit, SocketNull, SameButQueue
<1>6. /\ Fit(client') /\ SameButQueue(taken, client')
      /\ Emits(taken.q, client'.q) => client'.q.current.packet = Telegram(0)
      /\ client'.seq = IF Numbered(taken, client')
                       THEN SecureIncTunnelSeq(number) ELSE number
  BY <1>1, <1>4, <1>5, PacketKinds, SendFit
<1>7. SameButQueue(client, client')
  BY <1>4, <1>6 DEF SameButQueue
<1>8. Numbered(taken, client') <=> Emits(client.q, client'.q)
  BY <1>4, <1>6, PacketKinds DEF Numbered, IsTelegram
<1>9. written' \in (0 .. MaxWrites) \X (0 .. MaxRaw)
  BY <1>1, SecureTunnelAssumption DEF IInv
<1>10. /\ gateway' \in GatewayFields /\ gateway'.got = gateway.got
       /\ gateway'.answers = gateway.answers /\ gateway'.statuses = gateway.statuses
  <2>1. CASE Emits(client.q, client'.q)
    BY <1>1, <1>3, <1>4, <2>1, Typed, ArrivesFit
  <2>2. CASE ~Emits(client.q, client'.q)
    BY <1>1, <2>2, Typed DEF GatewayFields
  <2> QED
    BY <2>1, <2>2
<1>11. Counted(client'.seq, gateway'.last, gateway'.skipped)
  <2>1. CASE Emits(client.q, client'.q)
    <3>1. gateway'.last = number /\ gateway'.skipped = 0
      BY <1>1, <1>3, <1>4, <2>1, Typed, ArrivesFit
    <3>2. client'.seq = SecureIncTunnelSeq(number)
      BY <1>6, <1>8, <2>1
    <3> QED
      BY <1>3, <3>1, <3>2, CountedSent
  <2>2. CASE ~Emits(client.q, client'.q)
    <3>1. gateway'.last = gateway.last /\ gateway'.skipped = gateway.skipped + 1
      BY <1>1, <2>2, Typed DEF GatewayFields
    <3>2. client'.seq = number
      BY <1>6, <1>8, <2>2
    <3> QED
      BY <3>1, <3>2, Typed, CountedTaken DEF number
  <2> QED
    BY <2>1, <2>2
<1>12. SocketNull(client) => SocketNull(client')
  BY <1>7 DEF SocketNull, SameButQueue
<1> QED
  BY <1>2, <1>7, <1>6, <1>9, <1>10, <1>11, <1>12, StepWithinStage DEF SameButQueue

\* Disconnect() asks the gateway when there is a channel, and closes otherwise.
LEMMA DisconnectStep ==
    ASSUME IInv, Disconnect
    PROVE  IInv'
<1> DEFINE leaving == [ClearAllTimers(client) EXCEPT !.state = "DISCONNECTING"]
           waiting == [leaving EXCEPT !.call = "waiting", !.awaiting = FALSE]
<1>1. /\ client' = IF client.channel THEN SendPriority(waiting)
                   ELSE CloseSocket(leaving, "Disconnect")
      /\ gateway' = gateway /\ written' = written
  BY DEF Disconnect
<1>2. /\ leaving \in ClientFields /\ leaving.state = "DISCONNECTING"
      /\ leaving.q = client.q /\ leaving.socket = client.socket
      /\ leaving.hs = client.hs /\ leaving.channel = client.channel
      /\ leaving.seq = client.seq /\ leaving.timers = {}
      /\ leaving.delays = client.delays
  BY Typed DEF ClearAllTimers, ClientFields, States
<1>3. /\ waiting \in ClientFields /\ waiting.state = "DISCONNECTING"
      /\ waiting.q = client.q /\ waiting.socket = client.socket
      /\ waiting.hs = client.hs /\ waiting.channel = client.channel
      /\ waiting.seq = client.seq /\ waiting.delays = client.delays
  BY <1>2 DEF ClientFields
<1> HIDE DEF leaving, waiting
<1>4. CASE client.channel
  <2>1. Up(gateway) /\ client.hs = "connect"
    BY <1>4, Typed DEF Tunnelled
  <2>2. Fit(waiting)
    BY <1>3, Typed DEF Fit, SocketNull
  <2>3. Fit(client') /\ SameButQueue(waiting, client') /\ client'.seq = waiting.seq
    BY <1>1, <1>3, <1>4, <2>1, <2>2, SendPriorityFit
  <2> QED
    BY <1>1, <1>3, <2>1, <2>3, StepInTunnel DEF SameButQueue
<1>5. CASE ~client.channel
  <2>1. SocketNull(leaving) => ~leaving.q.socketReady
    BY <1>2, Typed DEF SocketNull
  <2>2. /\ Fit(client') /\ SocketNull(client')
        /\ client'.state = leaving.state /\ client'.hs = leaving.hs
        /\ client'.channel = leaving.channel
        /\ client'.timers = leaving.timers /\ client'.delays = leaving.delays
        /\ client'.seq = leaving.seq
        /\ client'.q.commandQueue = leaving.q.commandQueue
    BY <1>1, <1>2, <1>5, <2>1, CloseSocketFit
  <2>3. Tunnelled(client') => Tunnelled(client)
    BY <1>2, <2>2 DEF Tunnelled
  <2>4. client'.socket \in {"null", "shut"}
    BY <2>2 DEF SocketNull
  <2> QED
    BY <1>1, <1>2, <2>2, <2>3, <2>4, Typed, StepInside
<1> QED
  BY <1>4, <1>5

\* The connection fails, or the gateway closes it: nothing is sent any more.
LEMMA TcpLostStep ==
    ASSUME IInv, TcpLost
    PROVE  IInv'
<1> DEFINE r == [client.q EXCEPT !.socketReady = FALSE]
<1>1. /\ client' = [client EXCEPT !.socket = "shut", !.closeEvent = TRUE, !.q = r]
      /\ client.socket \in {"opening", "open"}
      /\ gateway' = gateway /\ written' = written
  BY Typed DEF TcpLost, ClientFields
<1>2. r \in Queues(Packets) /\ r.commandQueue = client.q.commandQueue /\ ~r.socketReady
  BY Typed DEF Queues
<1> HIDE DEF r
<1>3. /\ client' \in ClientFields /\ client'.q = r /\ client'.socket = "shut"
      /\ client'.state = client.state /\ client'.hs = client.hs
      /\ client'.channel = client.channel /\ client'.timers = client.timers
      /\ client'.delays = client.delays /\ client'.seq = client.seq
  BY <1>1, <1>2, Typed DEF ClientFields
<1>4. Fit(client')
  BY <1>2, <1>3 DEF Fit, Awake, Sendable
<1>5. Tunnelled(client') => Tunnelled(client)
  BY <1>2, <1>3 DEF Tunnelled
<1>6. client.state # "DISCONNECTED" /\ ~SocketNull(client)
  BY <1>1 DEF IInv, InStep, Opened, SocketNull
<1> QED
  BY <1>1, <1>3, <1>4, <1>5, <1>6, Typed, StepInside

\* The close event ends a connection that has not been ended.
LEMMA TcpClosedStep ==
    ASSUME IInv, TcpClosed
    PROVE  IInv'
<1> DEFINE r == [client.q EXCEPT !.socketReady = FALSE, !.exitLoop = TRUE]
           closed == [client EXCEPT !.closeEvent = FALSE, !.q = r]
<1>1. /\ client' = IF client.state \in {"DISCONNECTED", "DISCONNECTING"}
                   THEN closed ELSE SetDisconnected(closed)
      /\ gateway' = gateway /\ written' = written
  BY Typed DEF TcpClosed, ClientFields
<1>2. /\ r \in Queues(Packets) /\ r.commandQueue = client.q.commandQueue
      /\ ~r.socketReady /\ r.exitLoop
  BY Typed DEF Queues
<1> HIDE DEF r
<1>3. /\ closed \in ClientFields /\ closed.q = r /\ closed.socket = client.socket
      /\ closed.state = client.state /\ closed.hs = client.hs
      /\ closed.channel = client.channel /\ closed.timers = client.timers
      /\ closed.delays = client.delays /\ closed.seq = client.seq
  BY <1>2, Typed DEF ClientFields
<1> HIDE DEF closed
<1>4. Fit(closed)
  BY <1>2, <1>3 DEF Fit, Awake, Sendable
<1>5. CASE client.state \in {"DISCONNECTED", "DISCONNECTING"}
  <2>1. client' = closed
    BY <1>1, <1>5
  <2>2. Tunnelled(client') => Tunnelled(client)
    BY <1>2, <1>3, <2>1 DEF Tunnelled
  <2>3. SocketNull(client) => SocketNull(client')
    BY <1>3, <2>1 DEF SocketNull
  <2> QED
    BY <1>1, <1>3, <1>4, <2>1, <2>2, <2>3, Typed, StepInside
<1>6. CASE client.state \notin {"DISCONNECTED", "DISCONNECTING"}
  <2>1. client' = SetDisconnected(closed)
    BY <1>1, <1>6
  <2> QED
    BY <1>1, <1>2, <1>3, <2>1, StepDisconnects
<1> QED
  BY <1>5, <1>6

\* The outcome of a write.
LEMMA SendDoneStep ==
    ASSUME IInv, SendDone
    PROVE  IInv'
<1>1. PICK r \in {SendSucceeded(client.q), SendFailed(client.q)} :
         client' = [client EXCEPT !.q = [r EXCEPT !.current = EmptyQueue.current]]
  BY DEF SendDone
<1>2. gateway' = gateway /\ written' = written
  BY DEF SendDone
<1> DEFINE d == [r EXCEPT !.current = EmptyQueue.current]
<1>3. /\ r \in Queues(Packets) /\ r.socketReady = client.q.socketReady
      /\ r.loop = "pacing" \/ r.commandQueue = << >>
      /\ r.commandQueue # << >> => client.q.commandQueue # << >>
  <2>1. SendSucceeded(client.q) \in Queues(Packets) /\ SendFailed(client.q) \in Queues(Packets)
    BY Typed, LoopType
  <2>2. /\ SendSucceeded(client.q).loop = "pacing"
        /\ SendSucceeded(client.q).socketReady = client.q.socketReady
        /\ SendSucceeded(client.q).commandQueue = client.q.commandQueue
        /\ SendFailed(client.q).commandQueue = << >>
        /\ SendFailed(client.q).socketReady = client.q.socketReady
    BY Typed DEF SendSucceeded, SendFailed, Queues
  <2> QED
    BY <2>1, <2>2
<1>4. EmptyQueue.current \in ItemsOf(Packets \cup {NoPacket})
  BY DEF EmptyQueue, ItemsOf, QueueItem
<1>5. /\ d \in Queues(Packets) /\ d.socketReady = client.q.socketReady
      /\ d.loop = r.loop /\ d.commandQueue = r.commandQueue
  BY <1>3, <1>4 DEF Queues
<1>6. client' = [client EXCEPT !.q = d]
  BY <1>1
<1> HIDE DEF d
<1>7. client' \in ClientFields /\ client'.q = d /\ SameButQueue(client, client')
      /\ client'.seq = client.seq
  BY <1>5, <1>6, Typed DEF ClientFields, SameButQueue
<1>8. Fit(client')
  BY <1>3, <1>5, <1>7, Typed DEF Fit, Awake, Sendable, SocketNull, SameButQueue
<1>9. Tunnelled(client') => Tunnelled(client)
  BY <1>3, <1>5, <1>7 DEF Tunnelled, SameButQueue
<1>10. SocketNull(client) => SocketNull(client')
  BY <1>7 DEF SocketNull, SameButQueue
<1> QED
  BY <1>2, <1>7, <1>8, <1>9, <1>10, Typed, StepInside DEF SameButQueue

\* The pacing delay is over: what leaves next takes its number.
LEMMA PaceStep ==
    ASSUME IInv, Pace
    PROVE  IInv'
<1> DEFINE calm == [client.q EXCEPT !.loop = "idle"]
           idle == [client EXCEPT !.q = calm]
           r == HandleKNXQueue(calm)
<1>1. /\ client.q.loop = "pacing" /\ client' = WithQueue(idle, r)
      /\ gateway' = IF client'.seq # client.seq
                    THEN Arrives(gateway, client.seq) ELSE gateway
      /\ written' = written
  BY Typed DEF Pace, PacingDone, ClientFields
<1>2. /\ calm \in Queues(Packets) /\ calm.socketReady = client.q.socketReady
      /\ calm.commandQueue = client.q.commandQueue
  BY Typed DEF Queues
<1> HIDE DEF calm
<1>3. /\ r \in Queues(Packets) /\ Awake(r) /\ r.socketReady = calm.socketReady
      /\ r.commandQueue # << >> => calm.commandQueue # << >>
      /\ Emits(calm, r) => calm.socketReady /\ calm.commandQueue # << >>
  BY <1>2, HandleTakes
<1> HIDE DEF r
<1>4. /\ idle \in ClientFields /\ idle.q = calm /\ SameButQueue(client, idle)
      /\ idle.seq = client.seq
  BY <1>2, Typed DEF ClientFields, SameButQueue
<1> HIDE DEF idle
<1>5. SocketNull(idle) => ~r.socketReady
  BY <1>2, <1>3, <1>4, Typed DEF SocketNull, SameButQueue
<1>6. Emits(idle.q, r) => Up(gateway) /\ ~SocketNull(idle) /\ idle.hs = "connect"
  BY <1>2, <1>3, <1>4, Typed DEF Tunnelled, SocketNull, SameButQueue
<1>7. /\ Fit(client') /\ SameButQueue(idle, client') /\ client'.q = r
      /\ client'.seq = IF Numbered(idle, client')
                       THEN SecureIncTunnelSeq(idle.seq) ELSE idle.seq
  BY <1>1, <1>3, <1>4, <1>5, <1>6, WithQueueFit
<1>8. SameButQueue(client, client')
  BY <1>4, <1>7 DEF SameButQueue
<1>9. CASE Numbered(idle, client')
  <2>1. Up(gateway)
    BY <1>6, <1>7, <1>9 DEF Numbered
  <2>2. client'.seq = SecureIncTunnelSeq(client.seq) /\ client'.seq # client.seq
    BY <1>4, <1>7, <1>9, Typed, IncValue
  <2>3. written' \in (0 .. MaxWrites) \X (0 .. MaxRaw)
    BY <1>1 DEF IInv
  <2> QED
    BY <1>1, <1>7, <1>8, <2>1, <2>2, <2>3, StepSends DEF SameButQueue
<1>10. CASE ~Numbered(idle, client')
  <2>1. client'.seq = client.seq /\ gateway' = gateway
    BY <1>1, <1>4, <1>7, <1>10
  <2>2. Tunnelled(client') => Tunnelled(client)
    BY <1>2, <1>3, <1>7, <1>8 DEF Tunnelled, SameButQueue
  <2>3. SocketNull(client) => SocketNull(client')
    BY <1>8 DEF SocketNull, SameButQueue
  <2> QED
    BY <1>1, <1>7, <1>8, <2>1, <2>2, <2>3, Typed, StepInside DEF SameButQueue
<1> QED
  BY <1>9, <1>10

\* A timer that has fired is gone from the map.
LEMMA ExpiredFit ==
    ASSUME IInv, NEW t
    PROVE  /\ Fit(Expired(t)) /\ Expired(t) \in ClientFields
           /\ Expired(t).state = client.state /\ Expired(t).socket = client.socket
           /\ Expired(t).hs = client.hs /\ Expired(t).channel = client.channel
           /\ Expired(t).seq = client.seq /\ Expired(t).q = client.q
           /\ Expired(t).misses = client.misses /\ Expired(t).delays = client.delays
           /\ Expired(t).timers = client.timers \ {t}
<1> DEFINE d == Expired(t)
<1>1. /\ d \in ClientFields /\ d.state = client.state /\ d.socket = client.socket
      /\ d.hs = client.hs /\ d.channel = client.channel /\ d.seq = client.seq
      /\ d.q = client.q /\ d.misses = client.misses /\ d.timers = client.timers \ {t}
      /\ d.delays = client.delays
  BY Typed DEF Expired, ClientFields
<1> HIDE DEF d
<1>2. Fit(d)
  BY <1>1, Typed DEF Fit, SocketNull
<1> QED
  BY <1>1, <1>2 DEF d

\* The first heartbeat is due, or the next.
LEMMA HeartbeatDueStep ==
    ASSUME IInv, FirstHeartbeatDue \/ HeartbeatDue
    PROVE  IInv'
<1>1. PICK t \in {"FIRST_HEARTBEAT", "HEARTBEAT"} :
         /\ client' = RunHeartbeat(Expired(t)) \/ client' = StartHeartBeat(Expired(t))
         /\ t \in client.timers
         /\ gateway' = gateway /\ written' = written
  BY DEF FirstHeartbeatDue, HeartbeatDue
<1> DEFINE c == Expired(t)
<1>2. Up(gateway) /\ client.hs = "connect"
  BY <1>1, Typed DEF Tunnelled
<1>3. /\ Fit(c) /\ c.state = client.state /\ c.socket = client.socket
      /\ c.hs = client.hs /\ c.seq = client.seq /\ c.delays = client.delays
  BY ExpiredFit
<1>4. client' = RunHeartbeat(c) \/ client' = StartHeartBeat(c)
  BY <1>1
<1> HIDE DEF c
<1>5. /\ Fit(client') /\ client'.state = c.state /\ client'.socket = c.socket
      /\ client'.hs = c.hs /\ client'.seq = c.seq /\ client'.delays = c.delays
  <2>1. CASE client' = RunHeartbeat(c)
    BY <1>2, <1>3, <2>1, RunHeartbeatFit
  <2>2. CASE client' = StartHeartBeat(c)
    BY <1>2, <1>3, <2>2, StartHeartBeatFit
  <2> QED
    BY <1>4, <2>1, <2>2
<1> QED
  BY <1>1, <1>2, <1>3, <1>5, StepInTunnel

\* The answer to a heartbeat is missed: the third time ends the connection.
LEMMA ConnectionStateTimeoutStep ==
    ASSUME IInv, ConnectionStateTimeout
    PROVE  IInv'
<1> DEFINE missed == Expired("CONNECTION_STATE")
           last == [missed EXCEPT !.misses = 0]
           early == [missed EXCEPT !.misses = @ + 1]
<1>1. /\ client' = IF TooMany(client.misses + 1) THEN SetDisconnected(last) ELSE early
      /\ gateway' = gateway /\ written' = written
  BY DEF ConnectionStateTimeout
<1>2. /\ Fit(missed) /\ missed \in ClientFields /\ missed.state = client.state
      /\ missed.socket = client.socket /\ missed.hs = client.hs
      /\ missed.channel = client.channel /\ missed.seq = client.seq
      /\ missed.q = client.q /\ missed.misses = client.misses
      /\ missed.timers = client.timers \ {"CONNECTION_STATE"}
      /\ missed.delays = client.delays
  BY ExpiredFit
<1> HIDE DEF missed
<1>3. client.misses \in 0 .. 2 /\ MaxHeartbeatFailures - 1 = 2
  BY Typed DEF ClientFields, MaxHeartbeatFailures
<1>4. CASE TooMany(client.misses + 1)
  <2>1. 0 \in 0 .. MaxHeartbeatFailures - 1
    BY <1>3
  <2>2. /\ last \in ClientFields /\ last.q = missed.q /\ last.hs = missed.hs
        /\ last.seq = missed.seq /\ last.delays = missed.delays
        /\ last.socket = missed.socket
    BY <1>2, <2>1 DEF ClientFields
  <2>3. client' = SetDisconnected(last)
    BY <1>1, <1>4
  <2> HIDE DEF last
  <2>4. SocketNull(last) => ~last.q.socketReady
    BY <1>2, <2>2, Typed DEF SocketNull
  <2> QED
    BY <1>1, <1>2, <2>2, <2>3, <2>4, StepDisconnects
<1>5. CASE ~TooMany(client.misses + 1)
  <2>1. client.misses + 1 \in 0 .. MaxHeartbeatFailures - 1
    BY <1>3, <1>5 DEF TooMany, MaxHeartbeatFailures
  <2>2. client' = [missed EXCEPT !.misses = client.misses + 1]
    BY <1>1, <1>2, <1>5
  <2>3. /\ client' \in ClientFields /\ client'.q = missed.q /\ client'.hs = missed.hs
        /\ client'.seq = missed.seq /\ client'.timers = missed.timers
        /\ client'.socket = missed.socket /\ client'.state = missed.state
        /\ client'.channel = missed.channel /\ client'.delays = missed.delays
    BY <1>2, <2>1, <2>2 DEF ClientFields
  <2>4. Fit(client')
    BY <1>2, <2>3 DEF Fit, SocketNull
  <2>5. Tunnelled(client') => Tunnelled(client)
    BY <1>2, <2>3 DEF Tunnelled
  <2>6. SocketNull(client) => SocketNull(client')
    BY <1>2, <2>3 DEF SocketNull
  <2> QED
    BY <1>1, <1>2, <2>3, <2>4, <2>5, <2>6, Typed, StepInside
<1> QED
  BY <1>4, <1>5

\* The two waits that follow a disconnection that was asked for.
LEMMA DisconnectOverStep ==
    ASSUME IInv, DisconnectDue \/ DisconnectWaitOver
    PROVE  IInv'
<1>1. CASE DisconnectDue
  <2>1. /\ client' = SetDisconnected(Expired("DISCONNECT"))
        /\ gateway' = gateway /\ written' = written
    BY <1>1 DEF DisconnectDue
  <2>2. SocketNull(Expired("DISCONNECT")) => ~Expired("DISCONNECT").q.socketReady
    BY ExpiredFit, Typed DEF SocketNull
  <2> QED
    BY <2>1, <2>2, ExpiredFit, StepDisconnects
<1>2. CASE DisconnectWaitOver
  <2> DEFINE r == [client.q EXCEPT !.exitLoop = TRUE]
             over == [client EXCEPT !.call = "done", !.q = r]
  <2>1. /\ client' = IF client.state # "DISCONNECTED" THEN SetDisconnected(over) ELSE over
        /\ gateway' = gateway /\ written' = written
    <3>1. [client EXCEPT !.call = "done", !.q.exitLoop = TRUE] = over
      BY Typed DEF ClientFields
    <3> HIDE DEF over
    <3> QED
      BY <1>2, <3>1, Typed DEF DisconnectWaitOver, over, ClientFields
  <2>2. /\ r \in Queues(Packets) /\ r.commandQueue = client.q.commandQueue
        /\ r.socketReady = client.q.socketReady /\ r.exitLoop
    BY Typed DEF Queues
  <2> HIDE DEF r
  <2>3. /\ over \in ClientFields /\ over.q = r /\ over.hs = client.hs
        /\ over.seq = client.seq /\ over.timers = client.timers
        /\ over.socket = client.socket /\ over.state = client.state
        /\ over.channel = client.channel /\ over.delays = client.delays
    BY <2>2, Typed DEF ClientFields
  <2> HIDE DEF over
  <2>4. Fit(over)
    BY <2>2, <2>3, Typed DEF Fit, Awake, Sendable, SocketNull
  <2>5. CASE client.state # "DISCONNECTED"
    <3>1. SocketNull(over) => ~over.q.socketReady
      BY <2>4 DEF Fit
    <3> QED
      BY <2>1, <2>2, <2>3, <2>5, <3>1, StepDisconnects
  <2>6. CASE client.state = "DISCONNECTED"
    <3>1. client' = over
      BY <2>1, <2>6
    <3>2. Tunnelled(client') => Tunnelled(client)
      BY <2>2, <2>3, <3>1 DEF Tunnelled
    <3>3. SocketNull(client) => SocketNull(client')
      BY <2>3, <3>1 DEF SocketNull
    <3> QED
      BY <2>1, <2>3, <2>4, <3>1, <3>2, <3>3, Typed, StepInside
  <2> QED
    BY <2>5, <2>6
<1> QED
  BY <1>1, <1>2

\* What a frame of the tunnel finds: a client that has its session.
LEMMA Hears ==
    ASSUME IInv
    PROVE  /\ Fit(Heard(client)) /\ Heard(client) \in ClientFields
           /\ Heard(client).state = client.state /\ Heard(client).socket = client.socket
           /\ Heard(client).hs = client.hs /\ Heard(client).channel = client.channel
           /\ Heard(client).seq = client.seq /\ Heard(client).q = client.q
           /\ Heard(client).timers \subseteq client.timers
           /\ Heard(client).delays = client.delays
           /\ SocketNull(Heard(client)) => ~Heard(client).q.socketReady
           /\ client.channel => Up(gateway) /\ client.hs = "connect"
BY Typed, HeardFit DEF Fit, Tunnelled

\* The answer to a heartbeat: one that is an error ends the connection.
LEMMA ReceiveConnectionStateStep ==
    ASSUME IInv, NEW ok \in BOOLEAN, ReceiveConnectionState(ok)
    PROVE  IInv'
<1> DEFINE heard == Heard(client)
<1>1. /\ client' = IF ok THEN [heard EXCEPT !.timers = @ \ {"CONNECTION_STATE"},
                                            !.misses = 0]
                   ELSE SetDisconnected(heard)
      /\ gateway' = gateway /\ written' = written
  BY DEF ReceiveConnectionState
<1>2. /\ Fit(heard) /\ heard \in ClientFields /\ heard.state = client.state
      /\ heard.socket = client.socket /\ heard.hs = client.hs
      /\ heard.channel = client.channel /\ heard.seq = client.seq
      /\ heard.q = client.q /\ heard.timers \subseteq client.timers
      /\ heard.delays = client.delays
      /\ SocketNull(heard) => ~heard.q.socketReady
  BY Hears
<1> HIDE DEF heard
<1>3. CASE ok
  <2>1. 0 \in 0 .. MaxHeartbeatFailures - 1
    BY DEF MaxHeartbeatFailures
  <2>2. client' = [heard EXCEPT !.timers = @ \ {"CONNECTION_STATE"}, !.misses = 0]
    BY <1>1, <1>3
  <2>3. /\ client' \in ClientFields /\ client'.q = heard.q /\ client'.hs = heard.hs
        /\ client'.seq = heard.seq /\ client'.timers \subseteq heard.timers
        /\ client'.socket = heard.socket /\ client'.state = heard.state
        /\ client'.channel = heard.channel /\ client'.delays = heard.delays
    BY <1>2, <2>1, <2>2 DEF ClientFields
  <2>4. Fit(client')
    BY <1>2, <2>3 DEF Fit, SocketNull
  <2>5. Tunnelled(client') => Tunnelled(client)
    BY <1>2, <2>3 DEF Tunnelled
  <2>6. SocketNull(client) => SocketNull(client')
    BY <1>2, <2>3 DEF SocketNull
  <2> QED
    BY <1>1, <1>2, <2>3, <2>4, <2>5, <2>6, Typed, StepInside
<1>4. CASE ~ok
  <2>1. client' = SetDisconnected(heard)
    BY <1>1, <1>4
  <2> QED
    BY <1>1, <1>2, <2>1, StepDisconnects
<1> QED
  BY <1>3, <1>4

\* A request of the gateway is acknowledged, in front of what waits.
LEMMA ReceiveRequestStep ==
    ASSUME IInv, ReceiveTunnelingRequest \/ ReceiveDisconnectRequest
    PROVE  IInv'
<1> DEFINE heard == Heard(client)
<1>1. client.channel /\ gateway' = gateway /\ written' = written
  BY DEF ReceiveTunnelingRequest, ReceiveDisconnectRequest
<1>2. /\ Fit(heard) /\ heard \in ClientFields /\ heard.state = client.state
      /\ heard.socket = client.socket /\ heard.hs = "connect" /\ client.hs = "connect"
      /\ heard.channel = client.channel /\ heard.seq = client.seq
      /\ heard.q = client.q /\ heard.timers \subseteq client.timers
      /\ heard.delays = client.delays
      /\ Up(gateway)
  BY <1>1, Hears
<1> HIDE DEF heard
<1>3. CASE ReceiveTunnelingRequest
  <2>1. client' = SendPriority(heard)
    BY <1>3 DEF ReceiveTunnelingRequest, heard
  <2>2. Fit(client') /\ SameButQueue(heard, client') /\ client'.seq = heard.seq
    BY <1>2, <2>1, SendPriorityFit
  <2> QED
    BY <1>1, <1>2, <2>2, StepInTunnel DEF SameButQueue
<1>4. CASE ReceiveDisconnectRequest
  <2> DEFINE b == [heard EXCEPT !.state = "DISCONNECTING"]
             s == SendPriority(b)
  <2>1. client' = [s EXCEPT !.timers = @ \cup {"DISCONNECT"}]
    BY <1>4 DEF ReceiveDisconnectRequest, heard
  <2>2. /\ b \in ClientFields /\ b.state = "DISCONNECTING" /\ b.q = heard.q
        /\ b.socket = heard.socket /\ b.hs = heard.hs /\ b.delays = heard.delays
        /\ b.seq = heard.seq
    BY <1>2 DEF ClientFields, States
  <2> HIDE DEF b
  <2>3. Fit(b)
    BY <1>2, <2>2 DEF Fit, SocketNull
  <2>4. Fit(s) /\ SameButQueue(b, s) /\ s.seq = b.seq
    BY <1>2, <2>2, <2>3, SendPriorityFit
  <2> HIDE DEF s
  <2>5. /\ client' \in ClientFields /\ client'.q = s.q /\ client'.state = s.state
        /\ client'.socket = s.socket /\ client'.hs = s.hs /\ client'.seq = s.seq
        /\ client'.delays = s.delays
    BY <2>1, <2>4 DEF Fit, ClientFields, Timers
  <2>6. Fit(client')
    BY <2>4, <2>5 DEF Fit, SocketNull
  <2> QED
    BY <1>1, <1>2, <2>2, <2>4, <2>5, <2>6, StepInTunnel DEF SameButQueue
<1> QED
  BY <1>3, <1>4

\* A TUNNELING_ACK opens the gate, and what leaves takes its number.
LEMMA ReceiveTunnelingAckStep ==
    ASSUME IInv, ReceiveTunnelingAck
    PROVE  IInv'
<1> DEFINE heard == Heard(client)
           calm == [ClearAckTimer(heard.q) EXCEPT !.failed = 0]
           r == SetClearToSend(calm)
<1>1. /\ client.channel /\ client' = WithQueue(heard, r)
      /\ gateway' = Received(gateway, client') /\ written' = written
  BY DEF ReceiveTunnelingAck, AckReceived
<1>2. /\ Fit(heard) /\ heard \in ClientFields /\ heard.state = client.state
      /\ heard.socket = client.socket /\ heard.hs = "connect" /\ client.hs = "connect"
      /\ heard.channel = client.channel /\ heard.seq = client.seq
      /\ heard.q = client.q /\ heard.timers \subseteq client.timers
      /\ heard.delays = client.delays
      /\ Up(gateway)
  BY <1>1, Hears
<1> HIDE DEF heard
<1>3. /\ calm \in Queues(Packets) /\ calm.loop = client.q.loop
      /\ calm.socketReady = client.q.socketReady
  <2>1. 0 \in 0 .. MaxFailedACK
    BY DEF MaxFailedACK
  <2>2. calm \in Queues(Packets)
    BY <1>2, <2>1, Typed, ClearAckTimerType
  <2> QED
    BY <1>2, <2>2, Typed DEF ClearAckTimer, Queues
<1> HIDE DEF calm
<1>4. /\ r \in Queues(Packets) /\ Awake(r) /\ r.socketReady = calm.socketReady
      /\ Emits(calm, r) => calm.socketReady
  BY <1>3, OpenTakes
<1> HIDE DEF r
<1>5. Emits(heard.q, r) => ~SocketNull(heard) /\ heard.hs = "connect"
  BY <1>2, <1>3, <1>4 DEF Emits, Fit
<1>6. SocketNull(heard) => ~r.socketReady
  BY <1>2, <1>3, <1>4 DEF Fit
<1>7. /\ Fit(client') /\ SameButQueue(heard, client') /\ client'.q = r
      /\ client'.seq = IF Numbered(heard, client')
                       THEN SecureIncTunnelSeq(heard.seq) ELSE heard.seq
  BY <1>1, <1>2, <1>4, <1>5, <1>6, WithQueueFit
<1>8. Numbered(heard, client') <=> Numbered(client, client')
  BY <1>2 DEF Numbered
<1>9. gateway' = IF Numbered(client, client')
                 THEN Arrives(gateway, client.seq) ELSE gateway
  BY <1>1 DEF Received, Numbered
<1>10. \/ /\ client'.seq = client.seq
          /\ gateway' = gateway
       \/ /\ client'.seq = SecureIncTunnelSeq(client.seq)
          /\ gateway' = Arrives(gateway, client.seq)
  BY <1>2, <1>7, <1>8, <1>9
<1>11. written' \in (0 .. MaxWrites) \X (0 .. MaxRaw)
  BY <1>1 DEF IInv
<1> QED
  BY <1>2, <1>7, <1>10, <1>11, StepSends DEF SameButQueue

\* DISCONNECT_RESPONSE ends the connection, and the gateway may die.
LEMMA ReceiveDisconnectResponseStep ==
    ASSUME IInv, ReceiveDisconnectResponse
    PROVE  IInv'
<1>1. client' = SetDisconnected(Heard(client)) /\ gateway' = gateway /\ written' = written
  BY DEF ReceiveDisconnectResponse
<1> QED
  BY <1>1, Hears, StepDisconnects

\* A gateway that dies has received what it has received.
LEMMA GatewayDiesStep ==
    ASSUME IInv, GatewayDies
    PROVE  IInv'
<1>1. /\ gateway' = [gateway EXCEPT !.alive = FALSE]
      /\ client' = client /\ written' = written
  BY DEF GatewayDies
<1>2. /\ gateway' \in GatewayFields /\ gateway'.got = gateway.got
      /\ gateway'.answers = gateway.answers /\ gateway'.last = gateway.last
      /\ gateway'.statuses = gateway.statuses /\ gateway'.skipped = gateway.skipped
  BY <1>1, Typed DEF GatewayFields
<1> QED
  BY <1>1, <1>2 DEF IInv, InStep, Staged, Delayed, Opened, Up

----------------------------------------------------------------------------
\* The handshake.

\* The three requests.
LEMMA RequestNames ==
    /\ Requests = {"SESSION_REQUEST", "SESSION_AUTHENTICATE", "CONNECT_REQUEST"}
    /\ Handshake[1] = "SESSION_REQUEST"
    /\ Handshake[2] = "SESSION_AUTHENTICATE"
    /\ Handshake[3] = "CONNECT_REQUEST"
BY DEF Requests, Handshake

\* The next request keeps the order, the last one as often as it comes.
LEMMA NextInOrder ==
    ASSUME NEW got \in Seq(Requests), InOrder(got), NEW request \in Requests,
           request = Handshake[IF Len(got) + 1 < 3 THEN Len(got) + 1 ELSE 3]
    PROVE  LET longer == Append(got, request)
           IN  /\ longer \in Seq(Requests) /\ Len(longer) = Len(got) + 1
               /\ InOrder(longer)
<1> DEFINE longer == Append(got, request)
<1>1. longer \in Seq(Requests) /\ Len(longer) = Len(got) + 1
  OBVIOUS
<1>2. \A i \in 1 .. Len(got) : longer[i] = got[i]
  BY AppendProperties
<1>3. longer[Len(got) + 1] = request
  BY AppendProperties
<1>4. DOMAIN got = 1 .. Len(got) /\ DOMAIN longer = 1 .. Len(got) + 1 /\ Len(got) \in Nat
  BY <1>1
<1> HIDE DEF longer
<1>5. InOrder(longer)
  BY <1>2, <1>3, <1>4 DEF InOrder
<1> QED
  BY <1>1, <1>5 DEF longer

\* An action of the handshake, whose telegrams are counted.
LEMMA StepConnects ==
    ASSUME IInv, Fit(client'), written' = written, gateway' \in GatewayFields,
           Counted(client'.seq, gateway'.last, gateway'.skipped),
           Staged(client', gateway'), Delayed(client', gateway'),
           Opened(client', gateway'), Up(gateway')
    PROVE  IInv'
BY DEF IInv, InStep

\* An action of the handshake that writes nothing of the tunnel.
LEMMA StepOfHandshake ==
    ASSUME IInv, Fit(client'), client'.seq = client.seq, written' = written,
           gateway' \in GatewayFields, gateway'.last = gateway.last,
           gateway'.skipped = gateway.skipped, gateway'.answers = gateway.answers,
           Staged(client', gateway'), Delayed(client', gateway'),
           Opened(client', gateway'), Tunnelled(client') => Tunnelled(client)
    PROVE  IInv'
<1>1. Up(gateway) => Up(gateway')
  BY DEF Up
<1> QED
  BY <1>1 DEF IInv, InStep

\* What an action of the handshake reads from the invariant.
LEMMA Standing ==
    ASSUME IInv
    PROVE  /\ Staged(client, gateway) /\ Delayed(client, gateway) /\ Opened(client, gateway)
           /\ ~Up(gateway) => ~Tunnelled(client) /\ gateway.last = -1
           /\ client.hs # "connect" => ~Up(gateway)
           /\ InOrder(gateway.got) /\ gateway.got \in Seq(Requests)
           /\ Len(gateway.got) \in Nat /\ gateway.statuses \in 0 .. MaxStatuses
           /\ client.delays \in 0 .. MaxStatuses /\ MaxStatuses \in Nat
           /\ client.delays > 0 => client.hs \in {"none", "auth", "connect"}
           /\ gateway.answers \in Nat
           /\ Len(gateway.got) + client.delays <= 2 + gateway.statuses
<1>1. gateway.got \in Seq(Requests) /\ gateway.statuses \in 0 .. MaxStatuses
      /\ client.delays \in 0 .. MaxStatuses /\ gateway.answers \in Nat
  BY Typed DEF GatewayFields, ClientFields
<1>2. Len(gateway.got) \in Nat
  BY <1>1
<1>3. client.delays > 0 => client.hs \in {"none", "auth", "connect"}
  BY DEF IInv, InStep, Delayed
<1>4. Staged(client, gateway) /\ Delayed(client, gateway) /\ Opened(client, gateway)
  BY DEF IInv, InStep
<1>5. /\ ~Up(gateway) => ~Tunnelled(client) /\ gateway.last = -1
      /\ client.hs # "connect" => ~Up(gateway)
      /\ InOrder(gateway.got)
  BY DEF IInv, InStep, Staged
<1>6. Len(gateway.got) + client.delays <= 2 + gateway.statuses
  BY <1>4 DEF Delayed
<1> QED
  BY <1>1, <1>2, <1>3, <1>4, <1>5, <1>6, SecureTunnelAssumption

\* The interface address and the keyring: the socket is told to connect.
LEMMA LookupDoneStep ==
    ASSUME IInv, LookupDone
    PROVE  IInv'
<1>1. /\ client.hs = "lookup" /\ gateway' = gateway /\ written' = written
      /\ \/ /\ ~SocketNull(client)
            /\ client' = [client EXCEPT !.hs = "tcp", !.socket = "opening"]
         \/ client' = [client EXCEPT !.hs = "none"]
  BY DEF LookupDone
<1>2. Len(gateway.got) = 0 /\ ~Up(gateway) /\ ~Tunnelled(client) /\ client.delays = 0
  BY <1>1, Standing DEF Staged
<1>3. client.state = "DISCONNECTED" => SocketNull(client)
  BY <1>1, Standing DEF Opened
<1>4. /\ client' \in ClientFields /\ client'.q = client.q
      /\ client'.state = client.state /\ client'.channel = client.channel
      /\ client'.timers = client.timers /\ client'.seq = client.seq
      /\ client'.delays = client.delays
      /\ \/ ~SocketNull(client) /\ client'.hs = "tcp" /\ client'.socket = "opening"
         \/ client'.hs = "none" /\ client'.socket = client.socket
  BY <1>1, Typed DEF ClientFields
<1>5. Fit(client')
  BY <1>4, Typed DEF Fit, SocketNull
<1>6. Tunnelled(client') => Tunnelled(client)
  BY <1>4 DEF Tunnelled
<1>7. Staged(client', gateway) /\ Delayed(client', gateway)
  BY <1>2, <1>4, Standing DEF Staged, Delayed
<1>8. Opened(client', gateway)
  BY <1>1, <1>3, <1>4, Standing DEF Opened, SocketNull
<1> QED
  BY <1>1, <1>4, <1>5, <1>6, <1>7, <1>8, Typed, StepOfHandshake

\* The socket is connected: the loop may run, and finds nothing to send.
LEMMA TcpConnectedStep ==
    ASSUME IInv, TcpConnected
    PROVE  IInv'
<1> DEFINE r == [client.q EXCEPT !.socketReady = TRUE, !.exitLoop = FALSE]
<1>1. /\ client.socket = "opening" /\ gateway' = gateway /\ written' = written
      /\ client' = [client EXCEPT !.socket = "open", !.hs = "starting", !.q = r]
  BY Typed DEF TcpConnected, ClientFields
<1>2. client.hs = "tcp" /\ client.state # "DISCONNECTED"
  BY <1>1, Standing DEF Opened, SocketNull
<1>3. Len(gateway.got) = 0 /\ ~Up(gateway) /\ ~Tunnelled(client) /\ client.delays = 0
  BY <1>2, Standing DEF Staged
<1>4. r \in Queues(Packets) /\ r.commandQueue = << >>
  BY <1>3, Typed DEF Queues, Tunnelled
<1> HIDE DEF r
<1>5. /\ client' \in ClientFields /\ client'.q = r /\ client'.hs = "starting"
      /\ client'.state = client.state /\ client'.channel = client.channel
      /\ client'.timers = client.timers /\ client'.seq = client.seq
      /\ client'.socket = "open" /\ client'.delays = client.delays
  BY <1>1, <1>4, Typed DEF ClientFields
<1>6. Fit(client')
  BY <1>4, <1>5 DEF Fit, Awake, Sendable, SocketNull
<1>7. Tunnelled(client') => Tunnelled(client)
  BY <1>4, <1>5 DEF Tunnelled
<1>8. Staged(client', gateway) /\ Delayed(client', gateway) /\ Opened(client', gateway)
  BY <1>2, <1>3, <1>5, Standing DEF Staged, Delayed, Opened
<1> QED
  BY <1>1, <1>5, <1>6, <1>7, <1>8, Typed, StepOfHandshake

\* A request of the handshake that is written, and may be lost.
LEMMA ReachesGateway ==
    ASSUME IInv, NEW request \in Requests,
           LET n == Len(gateway.got) + 1
           IN  request = Handshake[IF n < 3 THEN n ELSE 3]
    PROVE  LET g == Reaches(request)
           IN  /\ g \in GatewayFields /\ InOrder(g.got)
               /\ g.last = gateway.last /\ g.skipped = gateway.skipped
               /\ g.answers = gateway.answers /\ g.statuses = gateway.statuses
               /\ Len(g.got) = IF client.socket = "open" THEN Len(gateway.got) + 1
                               ELSE Len(gateway.got)
<1>1. gateway \in GatewayFields /\ gateway.got \in Seq(Requests) /\ InOrder(gateway.got)
  BY Typed, Standing
<1> DEFINE longer == Append(gateway.got, request)
<1>2. longer \in Seq(Requests) /\ Len(longer) = Len(gateway.got) + 1 /\ InOrder(longer)
  BY <1>1, NextInOrder
<1>3. Reaches(request) = IF client.socket = "open" THEN [gateway EXCEPT !.got = longer]
                         ELSE gateway
  BY DEF Reaches
<1> HIDE DEF longer
<1> QED
  BY <1>1, <1>2, <1>3 DEF GatewayFields

\* SESSION_REQUEST.
LEMMA StartSessionStep ==
    ASSUME IInv, StartSession
    PROVE  IInv'
<1>1. /\ client.hs = "starting" /\ client' = [client EXCEPT !.hs = "session"]
      /\ gateway' = Reaches("SESSION_REQUEST") /\ written' = written
  BY DEF StartSession
<1>2. Len(gateway.got) = 0 /\ ~Up(gateway) /\ client.delays = 0
  BY <1>1, Standing DEF Staged
<1>3. /\ gateway' \in GatewayFields /\ InOrder(gateway'.got)
      /\ gateway'.last = gateway.last /\ gateway'.skipped = gateway.skipped
      /\ gateway'.answers = gateway.answers /\ gateway'.statuses = gateway.statuses
      /\ Len(gateway'.got) \in {0, 1}
  <2>1. "SESSION_REQUEST" = Handshake[IF Len(gateway.got) + 1 < 3
                                      THEN Len(gateway.got) + 1 ELSE 3]
    BY <1>2, RequestNames
  <2>2. /\ gateway' \in GatewayFields /\ InOrder(gateway'.got)
        /\ gateway'.last = gateway.last /\ gateway'.skipped = gateway.skipped
        /\ gateway'.answers = gateway.answers /\ gateway'.statuses = gateway.statuses
        /\ Len(gateway'.got) = IF client.socket = "open" THEN Len(gateway.got) + 1
                               ELSE Len(gateway.got)
    BY <1>1, <2>1, RequestNames, ReachesGateway
  <2>3. Len(gateway'.got) \in {0, 1}
    BY <1>2, <2>2
  <2> QED
    BY <2>2, <2>3
<1>4. /\ client' \in ClientFields /\ client'.q = client.q /\ client'.hs = "session"
      /\ client'.state = client.state /\ client'.channel = client.channel
      /\ client'.timers = client.timers /\ client'.seq = client.seq
      /\ client'.socket = client.socket /\ client'.delays = client.delays
  BY <1>1, Typed DEF ClientFields
<1>5. Fit(client')
  BY <1>4, Typed DEF Fit, SocketNull
<1>6. Tunnelled(client') => Tunnelled(client)
  BY <1>4 DEF Tunnelled
<1>7. ~Up(gateway')
  BY <1>2, <1>3 DEF Up
<1>8. Staged(client', gateway') /\ Delayed(client', gateway')
  <2>1. Staged(client', gateway')
    BY <1>3, <1>4, <1>7 DEF Staged
  <2>2. Len(gateway'.got) + client'.delays <= 2 + gateway'.statuses
    <3>1. gateway.statuses \in Nat
      BY Standing
    <3>2. client'.delays = 0 /\ gateway'.statuses = gateway.statuses
      BY <1>2, <1>3, <1>4
    <3>3. CASE Len(gateway'.got) = 0
      BY <3>1, <3>2, <3>3
    <3>4. CASE Len(gateway'.got) = 1
      BY <3>1, <3>2, <3>4
    <3> QED
      BY <1>3, <3>3, <3>4
  <2> QED
    BY <1>2, <1>4, <2>1, <2>2 DEF Delayed
<1>9. Opened(client', gateway')
  BY <1>1, <1>4, Standing DEF Opened, SocketNull
<1> QED
  BY <1>1, <1>3, <1>4, <1>5, <1>6, <1>8, <1>9, StepOfHandshake

\* SESSION_RESPONSE is answered by SESSION_AUTHENTICATE.
LEMMA SessionResponseStep ==
    ASSUME IInv, SessionResponse
    PROVE  IInv'
<1>1. /\ client.socket = "open" /\ gateway.got # << >> /\ client.hs = "session"
      /\ client' = [client EXCEPT !.hs = "auth"]
      /\ gateway' = Reaches("SESSION_AUTHENTICATE") /\ written' = written
  BY DEF SessionResponse, Answering
<1>2. Len(gateway.got) = 1 /\ ~Up(gateway) /\ client.delays = 0
  <2>1. Len(gateway.got) # 0
    BY <1>1, Standing
  <2> QED
    BY <1>1, <2>1, Standing DEF Staged
<1>3. client.state # "DISCONNECTED"
  BY <1>1, Standing DEF Opened, SocketNull
<1>4. /\ gateway' \in GatewayFields /\ InOrder(gateway'.got)
      /\ gateway'.last = gateway.last /\ gateway'.skipped = gateway.skipped
      /\ gateway'.answers = gateway.answers /\ gateway'.statuses = gateway.statuses
      /\ Len(gateway'.got) = 2
  <2>1. "SESSION_AUTHENTICATE" = Handshake[IF Len(gateway.got) + 1 < 3
                                           THEN Len(gateway.got) + 1 ELSE 3]
    BY <1>2, RequestNames
  <2> QED
    BY <1>1, <1>2, <2>1, RequestNames, ReachesGateway
<1>5. /\ client' \in ClientFields /\ client'.q = client.q /\ client'.hs = "auth"
      /\ client'.state = client.state /\ client'.channel = client.channel
      /\ client'.timers = client.timers /\ client'.seq = client.seq
      /\ client'.socket = client.socket /\ client'.delays = client.delays
  BY <1>1, Typed DEF ClientFields
<1>6. Fit(client')
  BY <1>5, Typed DEF Fit, SocketNull
<1>7. Tunnelled(client') => Tunnelled(client)
  BY <1>5 DEF Tunnelled
<1>8. ~Up(gateway')
  BY <1>2, <1>4 DEF Up
<1>9. Staged(client', gateway') /\ Delayed(client', gateway') /\ Opened(client', gateway')
  <2>1. Staged(client', gateway')
    BY <1>4, <1>5, <1>8 DEF Staged
  <2>2. Delayed(client', gateway')
    BY <1>2, <1>4, <1>5, Standing DEF Delayed
  <2>3. Opened(client', gateway')
    BY <1>1, <1>3, <1>5 DEF Opened
  <2> QED
    BY <2>1, <2>2, <2>3
<1> QED
  BY <1>1, <1>4, <1>5, <1>6, <1>7, <1>9, StepOfHandshake

\* The session is accepted, once more perhaps: CONNECT_REQUEST follows behind a
\* delay of its own.
LEMMA SessionAcceptedStep ==
    ASSUME IInv, SessionAccepted
    PROVE  IInv'
<1>1. /\ client.socket = "open" /\ client.hs = "auth" /\ gateway.statuses < MaxStatuses
      /\ client' = [client EXCEPT !.delays = @ + 1]
      /\ gateway' = [gateway EXCEPT !.statuses = @ + 1] /\ written' = written
  BY DEF SessionAccepted, Answering
<1>2. Len(gateway.got) = 2 /\ ~Up(gateway) /\ client.delays <= gateway.statuses
  <2>1. Len(gateway.got) = 2 /\ ~Up(gateway)
    BY <1>1, Standing DEF Staged
  <2> QED
    BY <2>1, Standing
<1>3. client.delays + 1 \in 0 .. MaxStatuses /\ gateway.statuses + 1 \in 0 .. MaxStatuses
  BY <1>1, <1>2, Standing
<1>4. /\ gateway' \in GatewayFields /\ gateway'.got = gateway.got
      /\ gateway'.last = gateway.last /\ gateway'.skipped = gateway.skipped
      /\ gateway'.answers = gateway.answers /\ gateway'.statuses = gateway.statuses + 1
  BY <1>1, <1>3, Typed DEF GatewayFields
<1>5. /\ client' \in ClientFields /\ client'.q = client.q /\ client'.hs = "auth"
      /\ client'.state = client.state /\ client'.channel = client.channel
      /\ client'.timers = client.timers /\ client'.seq = client.seq
      /\ client'.socket = client.socket /\ client'.delays = client.delays + 1
  BY <1>1, <1>3, Typed DEF ClientFields
<1>6. Fit(client')
  BY <1>5, Typed DEF Fit, SocketNull
<1>7. Tunnelled(client') => Tunnelled(client)
  BY <1>5 DEF Tunnelled
<1>8. ~Up(gateway')
  BY <1>2, <1>4 DEF Up
<1>9. Staged(client', gateway')
  BY <1>2, <1>4, <1>5, <1>8, Standing DEF Staged
<1>10. Delayed(client', gateway')
  <2>1. Len(gateway'.got) + client'.delays <= 2 + gateway'.statuses
    <3>1. gateway.statuses \in Nat /\ client.delays \in Nat
      BY Standing
    <3>2. /\ Len(gateway'.got) = 2 /\ client'.delays = client.delays + 1
          /\ gateway'.statuses = gateway.statuses + 1
          /\ client.delays <= gateway.statuses
      BY <1>2, <1>4, <1>5
    <3> QED
      BY <3>1, <3>2
  <2> QED
    BY <1>5, <2>1 DEF Delayed
<1>11. Opened(client', gateway')
  <2>1. client.state # "DISCONNECTED"
    BY <1>1, Standing DEF Opened, SocketNull
  <2> QED
    BY <1>1, <1>5, <2>1 DEF Opened
<1> QED
  BY <1>1, <1>4, <1>5, <1>6, <1>7, <1>9, <1>10, <1>11, StepOfHandshake

\* The session is refused, or ended: the socket is closed with it.
LEMMA SessionRefusedStep ==
    ASSUME IInv, SessionRefused
    PROVE  IInv'
<1> DEFINE c == [client EXCEPT !.hs = "none"]
<1>1. /\ client.hs = "auth" /\ client' = SetDisconnected(c)
      /\ gateway' = gateway /\ written' = written
  BY DEF SessionRefused
<1>2. Len(gateway.got) = 2 /\ ~Up(gateway)
  BY <1>1, Standing DEF Staged
<1>3. /\ c \in ClientFields /\ c.q = client.q /\ c.hs = "none" /\ c.socket = client.socket
      /\ c.delays = client.delays /\ c.seq = client.seq
  BY Typed DEF ClientFields
<1> HIDE DEF c
<1>4. SocketNull(c) => ~c.q.socketReady
  BY <1>3, Typed DEF SocketNull
<1>5. /\ Fit(client') /\ SocketNull(client') /\ client'.state = "DISCONNECTED"
      /\ client'.hs = "none" /\ ~client'.channel
      /\ client'.timers = {} /\ client'.delays = client.delays
      /\ client'.seq = client.seq
      /\ client'.q.commandQueue = client.q.commandQueue
  BY <1>1, <1>3, <1>4, SetDisconnectedFit
<1>6. Tunnelled(client') => Tunnelled(client)
  BY <1>5 DEF Tunnelled
<1>7. Staged(client', gateway')
  BY <1>1, <1>2, <1>5, Standing DEF Staged
<1>8. Delayed(client', gateway')
  BY <1>1, <1>2, <1>5, Standing DEF Delayed
<1>9. Opened(client', gateway')
  BY <1>1, <1>5 DEF Opened, SocketNull
<1> QED
  BY <1>1, <1>5, <1>6, <1>7, <1>8, <1>9, Typed, StepOfHandshake

\* A delay is over: CONNECT_REQUEST is written if there is a socket.
LEMMA ConnectDelayOverStep ==
    ASSUME IInv, ConnectDelayOver
    PROVE  IInv'
<1> DEFINE due == [client EXCEPT !.delays = @ - 1]
<1>1. /\ client.delays > 0 /\ written' = written
      /\ \/ /\ SocketNull(client)
            /\ client' = [due EXCEPT !.thrown = TRUE]
            /\ gateway' = gateway
         \/ /\ ~SocketNull(client)
            /\ client' = [due EXCEPT !.hs = "connect"]
            /\ gateway' = Reaches("CONNECT_REQUEST")
  BY DEF ConnectDelayOver, DelayOver
<1>2. client.delays - 1 \in 0 .. MaxStatuses
  BY <1>1, Standing
<1>3. /\ due \in ClientFields /\ due.q = client.q /\ due.hs = client.hs
      /\ due.state = client.state /\ due.channel = client.channel
      /\ due.timers = client.timers /\ due.seq = client.seq
      /\ due.socket = client.socket /\ due.delays = client.delays - 1
  BY <1>2, Typed DEF ClientFields
<1> HIDE DEF due
<1>4. /\ Len(gateway.got) >= 2 /\ Len(gateway.got) + client.delays <= 2 + gateway.statuses
      /\ ~SocketNull(client) => client.hs \in {"auth", "connect"}
  <2>1. Delayed(client, gateway) /\ Staged(client, gateway)
    BY Standing
  <2>2. \/ client.hs \in {"auth", "connect"}
        \/ client.hs = "none" /\ SocketNull(client) /\ Len(gateway.got) = 2
    BY <1>1, <2>1 DEF Delayed
  <2>3. Len(gateway.got) = 2 \/ Len(gateway.got) >= 2
    BY <2>1, <2>2 DEF Staged
  <2>4. /\ Len(gateway.got) \in Nat
        /\ Len(gateway.got) + client.delays <= 2 + gateway.statuses
    BY Standing
  <2>5. Len(gateway.got) >= 2
    BY <2>3, <2>4
  <2> QED
    BY <2>2, <2>4, <2>5
<1>5. CASE SocketNull(client)
  <2>1. /\ client' \in ClientFields /\ client'.q = client.q /\ client'.hs = client.hs
        /\ client'.state = client.state /\ client'.channel = client.channel
        /\ client'.timers = client.timers /\ client'.seq = client.seq
        /\ client'.socket = client.socket /\ client'.delays = client.delays - 1
    BY <1>1, <1>3, <1>5 DEF ClientFields
  <2>2. Fit(client')
    BY <2>1, Typed DEF Fit, SocketNull
  <2>3. Tunnelled(client') => Tunnelled(client)
    BY <2>1 DEF Tunnelled
  <2>4. gateway' = gateway
    BY <1>1, <1>5
  <2>5. Staged(client', gateway')
    BY <2>1, <2>4, Standing DEF Staged
  <2>6. Delayed(client', gateway')
    BY <1>1, <1>4, <2>1, <2>4, Standing DEF Delayed, SocketNull
  <2>7. Opened(client', gateway')
    BY <2>1, <2>4, Standing DEF Opened, SocketNull
  <2> QED
    BY <1>1, <2>1, <2>2, <2>3, <2>4, <2>5, <2>6, <2>7, Typed, StepOfHandshake
<1>6. CASE ~SocketNull(client)
  <2>1. client.state # "DISCONNECTED" /\ client.socket \notin {"idle", "opening"}
    BY <1>4, <1>6, Standing DEF Opened
  <2>2. /\ client' \in ClientFields /\ client'.q = client.q /\ client'.hs = "connect"
        /\ client'.state = client.state /\ client'.channel = client.channel
        /\ client'.timers = client.timers /\ client'.seq = client.seq
        /\ client'.socket = client.socket /\ client'.delays = client.delays - 1
    BY <1>1, <1>3, <1>6 DEF ClientFields
  <2>3. /\ gateway' \in GatewayFields /\ InOrder(gateway'.got)
        /\ gateway'.last = gateway.last /\ gateway'.skipped = gateway.skipped
        /\ gateway'.answers = gateway.answers /\ gateway'.statuses = gateway.statuses
        /\ Len(gateway'.got) \in {Len(gateway.got), Len(gateway.got) + 1}
    <3>1. gateway' = Reaches("CONNECT_REQUEST")
      BY <1>1, <1>6
    <3>2. "CONNECT_REQUEST" = Handshake[IF Len(gateway.got) + 1 < 3
                                        THEN Len(gateway.got) + 1 ELSE 3]
      BY <1>4, Standing, RequestNames
    <3> QED
      BY <3>1, <3>2, RequestNames, ReachesGateway
  <2>4. Fit(client')
    BY <2>2, Typed DEF Fit, SocketNull
  <2>5. Tunnelled(client') => Tunnelled(client)
    BY <2>2 DEF Tunnelled
  <2>6. Up(gateway') => Up(gateway)
    BY <2>3 DEF Up
  <2>7. Staged(client', gateway')
    BY <1>4, <2>2, <2>3, <2>6, Standing DEF Staged
  <2>8. Delayed(client', gateway')
    BY <1>1, <1>4, <2>2, <2>3, Standing DEF Delayed
  <2>9. Opened(client', gateway')
    BY <2>1, <2>2 DEF Opened
  <2> QED
    BY <1>1, <2>2, <2>3, <2>4, <2>5, <2>7, <2>8, <2>9, StepOfHandshake
<1> QED
  BY <1>5, <1>6

\* What an answer to CONNECT_REQUEST finds, the first one or a later one.
LEMMA AnswerToConnect ==
    ASSUME IInv, ConnectAnswered
    PROVE  /\ Answered \in GatewayFields /\ Answered.got = gateway.got
           /\ Answered.last = gateway.last /\ Answered.skipped = gateway.skipped
           /\ Answered.statuses = gateway.statuses /\ Up(Answered)
           /\ Len(gateway.got) >= 3 /\ client.socket = "open"
           /\ client.hs = "connect" /\ client.state # "DISCONNECTED"
<1>1. /\ client.socket = "open" /\ client.hs = "connect"
      /\ gateway.answers < Len(gateway.got) - 2
  BY DEF ConnectAnswered, Answering
<1>2. Len(gateway.got) >= 3
  BY <1>1, Standing
<1>3. /\ Answered \in GatewayFields /\ Answered.got = gateway.got
      /\ Answered.last = gateway.last /\ Answered.skipped = gateway.skipped
      /\ Answered.statuses = gateway.statuses /\ Answered.answers = gateway.answers + 1
  BY Typed DEF Answered, GatewayFields
<1>4. Up(Answered)
  BY <1>3, Standing DEF Up
<1>5. client.state # "DISCONNECTED"
  BY <1>1, Standing DEF Opened, SocketNull
<1> QED
  BY <1>1, <1>2, <1>3, <1>4, <1>5

\* The client is CONNECTED, again perhaps: the gate opens on what waits, and the
\* gateway g receives what leaves.
LEMMA Connected ==
    ASSUME IInv, client.socket = "open", client.hs = "connect", NEW exit \in BOOLEAN,
           NEW g \in GatewayFields, g.last = gateway.last, g.skipped = gateway.skipped
    PROVE  LET up == [client EXCEPT !.state = "CONNECTED", !.channel = TRUE,
                                    !.q.exitLoop = exit, !.q.failed = 0]
               d == WithQueue(up, SetClearToSend(up.q))
               h == Received(g, d)
           IN  /\ Fit(d) /\ d.state = "CONNECTED" /\ d.socket = "open"
               /\ d.hs = "connect" /\ d.delays = client.delays
               /\ h \in GatewayFields /\ h.got = g.got /\ h.answers = g.answers
               /\ h.statuses = g.statuses
               /\ Counted(d.seq, h.last, h.skipped)
<1> DEFINE calm == [client.q EXCEPT !.exitLoop = exit, !.failed = 0]
           up == [client EXCEPT !.state = "CONNECTED", !.channel = TRUE, !.q = calm]
           r == SetClearToSend(calm)
           d == WithQueue(up, r)
           h == Received(g, d)
<1>1. calm \in Queues(Packets) /\ calm.loop = client.q.loop
  <2>1. client.q \in Queues(Packets) /\ 0 \in 0 .. MaxFailedACK
    BY Typed DEF MaxFailedACK
  <2> QED
    BY <2>1 DEF Queues
<1>2. [client EXCEPT !.state = "CONNECTED", !.channel = TRUE,
                     !.q.exitLoop = exit, !.q.failed = 0] = up
  BY Typed DEF ClientFields
<1> HIDE DEF calm
<1>3. /\ up \in ClientFields /\ up.q = calm /\ up.state = "CONNECTED"
      /\ up.socket = "open" /\ up.hs = "connect" /\ up.delays = client.delays
      /\ up.seq = client.seq
  BY <1>1, Typed DEF ClientFields, States
<1>4. r \in Queues(Packets) /\ Awake(r)
  BY <1>1, OpenTakes
<1> HIDE DEF up, r
<1>5. ~SocketNull(up)
  BY <1>3 DEF SocketNull
<1>6. /\ Fit(d) /\ SameButQueue(up, d) /\ d.q = r
      /\ d.seq = IF Numbered(up, d) THEN SecureIncTunnelSeq(up.seq) ELSE up.seq
  BY <1>3, <1>4, <1>5, WithQueueFit
<1> HIDE DEF d
<1>7. Numbered(up, d) <=> Numbered(client, d)
  BY <1>1, <1>3 DEF Numbered, Emits
<1>8. h = IF Numbered(client, d) THEN Arrives(g, client.seq) ELSE g
  BY DEF Received, Numbered
<1> HIDE DEF h
<1>9. /\ h \in GatewayFields /\ h.got = g.got /\ h.answers = g.answers
      /\ h.statuses = g.statuses
      /\ Numbered(client, d) => h.last = client.seq /\ h.skipped = 0
      /\ ~Numbered(client, d) => h = g
  BY <1>8, Typed, ArrivesFit
<1>10. Counted(d.seq, h.last, h.skipped)
  <2>1. CASE Numbered(client, d)
    <3>1. d.seq = SecureIncTunnelSeq(client.seq)
      BY <1>3, <1>6, <1>7, <2>1
    <3> QED
      BY <1>9, <2>1, <3>1, Typed, CountedSent
  <2>2. CASE ~Numbered(client, d)
    BY <1>3, <1>6, <1>7, <1>9, <2>2, Typed
  <2> QED
    BY <2>1, <2>2
<1>11. /\ Fit(d) /\ d.state = "CONNECTED" /\ d.socket = "open"
       /\ d.hs = "connect" /\ d.delays = client.delays
  BY <1>3, <1>6 DEF SameButQueue
<1>12. up.q = calm
  BY <1>3
<1> QED
  BY <1>2, <1>9, <1>10, <1>11, <1>12 DEF d, r, h

\* A client that is connected stands behind the whole handshake.
LEMMA ConnectedStands ==
    ASSUME IInv, ConnectAnswered, client'.hs = "connect", client'.socket = "open",
           client'.state # "DISCONNECTED", client'.delays = client.delays,
           gateway'.got = gateway.got, gateway'.statuses = gateway.statuses
    PROVE  Staged(client', gateway') /\ Delayed(client', gateway') /\ Opened(client', gateway')
<1>1. Len(gateway.got) >= 3
  BY AnswerToConnect
<1>2. Staged(client', gateway')
  BY <1>1, Standing DEF Staged
<1>3. Delayed(client', gateway')
  BY Standing DEF Delayed
<1>4. Opened(client', gateway')
  BY DEF Opened
<1> QED
  BY <1>2, <1>3, <1>4

\* The tunnel is accepted inside the session: the first heartbeat is due later.
LEMMA ConnectAcceptedStep ==
    ASSUME IInv, ConnectAccepted
    PROVE  IInv'
<1> DEFINE up == [client EXCEPT !.state = "CONNECTED", !.channel = TRUE,
                                !.q.exitLoop = FALSE, !.q.failed = 0]
           d == WithQueue(up, SetClearToSend(up.q))
           h == Received(Answered, d)
<1>1. /\ ConnectAnswered /\ written' = written
      /\ client' = [d EXCEPT !.timers = (@ \ {"HEARTBEAT"}) \cup {"FIRST_HEARTBEAT"}]
      /\ gateway' = Received(Answered, client')
  BY DEF ConnectAccepted
<1>2. /\ Answered \in GatewayFields /\ Answered.got = gateway.got
      /\ Answered.last = gateway.last /\ Answered.skipped = gateway.skipped
      /\ Answered.statuses = gateway.statuses /\ Up(Answered)
      /\ client.socket = "open" /\ client.hs = "connect"
  BY <1>1, AnswerToConnect
<1>3. /\ Fit(d) /\ d.state = "CONNECTED" /\ d.socket = "open"
      /\ d.hs = "connect" /\ d.delays = client.delays
      /\ h \in GatewayFields /\ h.got = Answered.got /\ h.answers = Answered.answers
      /\ h.statuses = Answered.statuses
      /\ Counted(d.seq, h.last, h.skipped)
  BY <1>2, Connected
<1> HIDE DEF d
<1>4. /\ client' \in ClientFields /\ client'.q = d.q /\ client'.hs = d.hs
      /\ client'.state = d.state /\ client'.socket = d.socket
      /\ client'.delays = d.delays /\ client'.seq = d.seq
  BY <1>1, <1>3 DEF Fit, ClientFields, Timers
<1>5. gateway' = h
  BY <1>1, <1>4 DEF Received
<1> HIDE DEF h
<1>6. Fit(client')
  BY <1>3, <1>4 DEF Fit, SocketNull
<1>7. Up(gateway')
  BY <1>2, <1>3, <1>5 DEF Up
<1>8. Staged(client', gateway') /\ Delayed(client', gateway') /\ Opened(client', gateway')
  BY <1>1, <1>2, <1>3, <1>4, <1>5, ConnectedStands
<1> QED
  BY <1>1, <1>3, <1>4, <1>5, <1>6, <1>7, <1>8, StepConnects

\* The tunnel is accepted in plain: the heartbeat starts at once.
LEMMA ConnectAcceptedPlainStep ==
    ASSUME IInv, ConnectAcceptedPlain
    PROVE  IInv'
<1> DEFINE exit == client.q.exitLoop
           plain == [client EXCEPT !.state = "CONNECTED", !.channel = TRUE,
                                   !.q.failed = 0]
           up == [client EXCEPT !.state = "CONNECTED", !.channel = TRUE,
                                !.q.exitLoop = exit, !.q.failed = 0]
           d == WithQueue(up, SetClearToSend(up.q))
           h == Received(Answered, d)
<1>1. plain = up /\ exit \in BOOLEAN
  <2>1. [client.q EXCEPT !.failed = 0] = [client.q EXCEPT !.exitLoop = exit, !.failed = 0]
        /\ exit \in BOOLEAN
    BY Typed DEF Queues
  <2> HIDE DEF exit
  <2>2. plain = [client EXCEPT !.state = "CONNECTED", !.channel = TRUE,
                               !.q = [client.q EXCEPT !.failed = 0]]
    BY Typed DEF ClientFields
  <2>3. up = [client EXCEPT !.state = "CONNECTED", !.channel = TRUE,
                            !.q = [client.q EXCEPT !.exitLoop = exit, !.failed = 0]]
    BY Typed DEF ClientFields
  <2> HIDE DEF plain, up
  <2> QED
    BY <2>1, <2>2, <2>3
<1>2. /\ ConnectAnswered /\ client' = StartHeartBeat(d)
      /\ gateway' = h /\ written' = written
  <2>1. LET opened == WithQueue(plain, SetClearToSend(plain.q))
        IN  client' = StartHeartBeat(opened) /\ gateway' = Received(Answered, opened)
    BY DEF ConnectAcceptedPlain
  <2> QED
    BY <1>1, <2>1 DEF ConnectAcceptedPlain
<1>3. /\ Answered \in GatewayFields /\ Answered.got = gateway.got
      /\ Answered.last = gateway.last /\ Answered.skipped = gateway.skipped
      /\ Answered.statuses = gateway.statuses /\ Up(Answered)
      /\ client.socket = "open" /\ client.hs = "connect"
  BY <1>2, AnswerToConnect
<1> HIDE DEF exit
<1>4. /\ Fit(d) /\ d.state = "CONNECTED" /\ d.socket = "open"
      /\ d.hs = "connect" /\ d.delays = client.delays
      /\ h \in GatewayFields /\ h.got = Answered.got /\ h.answers = Answered.answers
      /\ h.statuses = Answered.statuses
      /\ Counted(d.seq, h.last, h.skipped)
  BY <1>1, <1>3, Connected
<1> HIDE DEF d, h
<1>5. /\ Fit(client') /\ client'.hs = "connect" /\ client'.state = "CONNECTED"
      /\ client'.socket = "open" /\ client'.seq = d.seq
      /\ client'.delays = client.delays
  BY <1>2, <1>4, StartHeartBeatFit
<1>6. Up(gateway')
  BY <1>2, <1>3, <1>4 DEF Up
<1>7. Staged(client', gateway') /\ Delayed(client', gateway') /\ Opened(client', gateway')
  BY <1>2, <1>3, <1>4, <1>5, ConnectedStands
<1> QED
  BY <1>2, <1>4, <1>5, <1>6, <1>7, StepConnects

\* The tunnel is refused: nothing of it comes to exist.
LEMMA ConnectRefusedStep ==
    ASSUME IInv, ConnectRefused
    PROVE  IInv'
<1>1. ConnectAnswered /\ gateway' = Answered /\ client' = client /\ written' = written
  BY DEF ConnectRefused
<1>2. /\ Answered \in GatewayFields /\ Answered.got = gateway.got
      /\ Answered.last = gateway.last /\ Answered.skipped = gateway.skipped
      /\ Answered.statuses = gateway.statuses /\ Up(Answered)
      /\ client.socket = "open" /\ client.hs = "connect" /\ client.state # "DISCONNECTED"
  BY <1>1, AnswerToConnect
<1>3. Staged(client', gateway') /\ Delayed(client', gateway') /\ Opened(client', gateway')
  BY <1>1, <1>2, ConnectedStands
<1>4. Fit(client') /\ Counted(client'.seq, gateway'.last, gateway'.skipped)
  BY <1>1, <1>2, Typed
<1> QED
  BY <1>1, <1>2, <1>3, <1>4, StepConnects

----------------------------------------------------------------------------
\* The theorems.

\* The invariant holds at the start.
LEMMA InitIInv == Init => IInv
<1> SUFFICES ASSUME Init PROVE IInv
  OBVIOUS
<1> DEFINE q0 == [EmptyQueue EXCEPT !.clearToSend = FALSE, !.socketReady = FALSE]
<1>1. q0 \in Queues(Packets) /\ q0.commandQueue = << >> /\ ~q0.socketReady
  <2>1. 0 \in 0 .. MaxFailedACK
    BY DEF MaxFailedACK
  <2>2. QueueItem(NoPacket, FALSE, -1) \in ItemsOf(Packets \cup {NoPacket})
    BY DEF QueueItem, ItemsOf
  <2>3. << >> \in Seq(ItemsOf(Packets)) /\ NoPacket \in Packets \cup {NoPacket}
    OBVIOUS
  <2> DEFINE none == QueueItem(NoPacket, FALSE, -1)
  <2>4. EmptyQueue = [commandQueue |-> << >>, clearToSend |-> TRUE, exitLoop |-> FALSE,
                      socketReady |-> TRUE, loop |-> "idle", current |-> none,
                      ackTimer |-> NoPacket, failed |-> 0]
    BY Zenon DEF EmptyQueue
  <2>5. none \in ItemsOf(Packets \cup {NoPacket})
    BY <2>2
  <2> HIDE DEF none
  <2> QED
    BY <2>1, <2>3, <2>4, <2>5 DEF Queues
<1> HIDE DEF q0
<1>2. client = [state |-> "DISCONNECTED", socket |-> "idle", closeEvent |-> FALSE,
                hs |-> "none", channel |-> FALSE, seq |-> 0, timers |-> {},
                delays |-> 0, misses |-> 0, running |-> FALSE, awaiting |-> FALSE,
                call |-> "none", awaits |-> {}, thrown |-> FALSE, q |-> q0]
  BY DEF Init, q0
<1>3. /\ gateway = [got |-> << >>, statuses |-> 0, answers |-> 0, last |-> -1,
                    skipped |-> 0, alive |-> TRUE]
      /\ written = << 0, 0 >>
  BY DEF Init
<1>4. 0 \in 0 .. SeqModulus - 1 /\ -1 \in -1 .. SeqModulus - 1
      /\ 0 \in 0 .. MaxHeartbeatFailures - 1 /\ 0 \in 0 .. MaxStatuses
  BY SecureTunnelAssumption DEF MaxHeartbeatFailures
<1>5. client \in ClientFields
  BY <1>1, <1>2, <1>4 DEF ClientFields, States
<1>6. Fit(client)
  BY <1>1, <1>2, <1>5 DEF Fit, Awake, Sendable, SocketNull
<1>7. gateway \in GatewayFields
  <2>1. << >> \in Seq(Requests)
    OBVIOUS
  <2> QED
    BY <1>3, <1>4, <2>1 DEF GatewayFields
<1>8. ~Tunnelled(client) /\ ~Up(gateway)
  BY <1>1, <1>2, <1>3 DEF Tunnelled, Up
<1>9. Staged(client, gateway) /\ Delayed(client, gateway) /\ Opened(client, gateway)
  <2>1. gateway.got = << >> /\ Len(gateway.got) = 0 /\ DOMAIN gateway.got = {}
    BY <1>3
  <2> QED
    BY <1>2, <1>3, <1>8, <2>1 DEF Staged, InOrder, Delayed, Opened
<1>10. written \in (0 .. MaxWrites) \X (0 .. MaxRaw)
       /\ Counted(client.seq, gateway.last, gateway.skipped)
  BY <1>3, SecureTunnelAssumption DEF Counted
<1> QED
  BY <1>3, <1>6, <1>7, <1>8, <1>9, <1>10 DEF IInv, InStep

\* Every step keeps the invariant.
LEMMA NextIInv == IInv /\ [Next]_vars => IInv'
<1> SUFFICES ASSUME IInv, [Next]_vars PROVE IInv'
  OBVIOUS
<1>1. CASE Handshaking
  BY <1>1, LookupDoneStep, TcpConnectedStep, StartSessionStep, SessionResponseStep,
     SessionAcceptedStep, SessionRefusedStep, ConnectDelayOverStep,
     ConnectAcceptedStep, ConnectAcceptedPlainStep, ConnectRefusedStep
     DEF Handshaking
<1>2. CASE TimerFires
  BY <1>2, HeartbeatDueStep, ConnectionStateTimeoutStep, DisconnectOverStep
     DEF TimerFires
<1>3. CASE Receive
  BY <1>3, ReceiveConnectionStateStep, ReceiveRequestStep, ReceiveTunnelingAckStep,
     ReceiveDisconnectResponseStep DEF Receive
<1>4. CASE UNCHANGED vars
  BY <1>4 DEF vars, IInv, InStep, Staged, Delayed, Opened, Up, Fit, SocketNull
<1>5. CASE \/ Connect \/ Write \/ WriteRaw \/ Disconnect \/ TcpLost \/ TcpClosed
           \/ SendDone \/ Pace \/ GatewayDies
  BY <1>5, ConnectStep, WriteStep, WriteRawStep, DisconnectStep, TcpLostStep,
     TcpClosedStep, SendDoneStep, PaceStep, GatewayDiesStep
<1> QED
  BY <1>1, <1>2, <1>3, <1>4, <1>5 DEF Next

\* IInv is an inductive invariant of the secure client and its gateway.
THEOREM InductiveInvariant == Spec => []IInv
BY InitIInv, NextIInv, PTL DEF Spec

\* The fields keep their types, and the gateway receives requests of the
\* handshake only, numbers within the modulus only.
THEOREM TypeCorrect == Spec => []TypeOK
<1>1. IInv => TypeOK
  BY DEF IInv, InStep, Fit, TypeOK, ClientFields, GatewayFields, States, Requests
<1> QED
  BY <1>1, InductiveInvariant, PTL

\* SESSION_REQUEST, SESSION_AUTHENTICATE and CONNECT_REQUEST reach the gateway in
\* their order, the last one at most once for every SESSION_STATUS 0, whatever
\* delays, refusals and losses interfere; and neither CONNECTED nor a telegram on
\* the wire comes before it.
THEOREM HandshakeIsInOrder == Spec => []HandshakeInOrder
<1>1. IInv => HandshakeInOrder
  <2> SUFFICES ASSUME IInv PROVE HandshakeInOrder
    OBVIOUS
  <2>1. client.state = "CONNECTED" \/ gateway.last # -1 => Len(gateway.got) >= 3
    BY DEF IInv, InStep, Staged, Tunnelled
  <2>2. Len(gateway.got) <= 2 + gateway.statuses
    <3>1. gateway.got \in Seq(Requests) /\ client.delays \in 0 .. MaxStatuses
          /\ gateway.statuses \in 0 .. MaxStatuses
      BY Typed DEF GatewayFields, ClientFields
    <3> QED
      BY <3>1, SecureTunnelAssumption DEF IInv, InStep, Delayed
  <2> QED
    BY <2>1, <2>2 DEF HandshakeInOrder, IInv, InStep, Staged, InOrder
<1> QED
  BY <1>1, InductiveInvariant, PTL

\* The next number is that of the last telegram on the wire exactly when the raw
\* telegrams written in between have used up all the others: writeRaw() and
\* respondRaw() skip numbers, and nothing else does, for every modulus.
THEOREM NumbersRepeatByWrap == Spec => []SeqRepeatedOnlyByWrap
<1>1. IInv => SeqRepeatedOnlyByWrap
  <2> SUFFICES ASSUME IInv, gateway.last # -1, gateway.skipped < SeqModulus
               PROVE  client.seq = gateway.last <=> gateway.skipped = SeqModulus - 1
    BY DEF SeqRepeatedOnlyByWrap
  <2>1. Distance(client.seq, gateway.last) = gateway.skipped + 1
        /\ gateway.skipped \in Nat /\ client.seq \in 0 .. SeqModulus - 1
        /\ gateway.last \in -1 .. SeqModulus - 1
    BY Typed DEF Counted
  <2>2. SeqModulus \in Nat
    BY SecureTunnelAssumption
  <2> QED
    BY <2>1, <2>2 DEF Distance
<1> QED
  BY <1>1, InductiveInvariant, PTL
================================================================================
