-------------------------- MODULE TunnelClient_proofs --------------------------
(***************************************************************************)
(* The safety of the tunnelling client for every set of channels, every    *)
(* bound and every option: Spec => []IInv, from it the invariants of the   *)
(* module, and that the client implements ConnectionLifecycle.             *)
(*                                                                         *)
(* A handler is a composition of methods, and a method an operator from    *)
(* client to client, so the argument follows the calls: one lemma per      *)
(* method says that it keeps Steady, and what becomes of the fields the    *)
(* others read; a step of the client then cites the methods it calls.      *)
(***************************************************************************)
EXTENDS TunnelClient, TLAPS

-----------------------------------------------------------------------------
(* The queue of the client: what the operations of SendQueue preserve *)

\* One turn of the loop of handleKNXQueue leaves a queue of the same packets.
LEMMA DispatchType ==
    ASSUME NEW P, NEW q \in Queues(P), Sendable(q)
    PROVE  Dispatch(q) \in Queues(P)
<1>1. q.commandQueue \in Seq(ItemsOf(P)) /\ q.commandQueue # << >>
  BY DEF Queues, Sendable
<1>2. Head(q.commandQueue) \in ItemsOf(P) /\ Tail(q.commandQueue) \in Seq(ItemsOf(P))
  BY <1>1
<1>3. Head(q.commandQueue) \in ItemsOf(P \cup {NoPacket})
  BY <1>2 DEF ItemsOf
<1>4. Head(q.commandQueue).packet \in P \cup {NoPacket}
  BY <1>2 DEF ItemsOf
<1> QED
  BY <1>2, <1>3, <1>4 DEF Dispatch, SetTimerWaitingForACK, Queues

\* handleKNXQueue() leaves a queue of the same packets, whether its loop runs or not.
LEMMA HandleType ==
    ASSUME NEW P, NEW q \in Queues(P)
    PROVE  HandleKNXQueue(q) \in Queues(P)
BY DispatchType DEF HandleKNXQueue

\* After handleKNXQueue() nothing that may be sent is left without a loop.
LEMMA HandleAwake ==
    ASSUME NEW P, NEW q \in Queues(P)
    PROVE  Awake(HandleKNXQueue(q))
<1>1. CASE q.loop = "idle" /\ Sendable(q)
  <2>1. Dispatch(q).loop = "sending"
    BY DEF Dispatch, SetTimerWaitingForACK, Queues
  <2> QED
    BY <1>1, <2>1 DEF HandleKNXQueue, Awake
<1>2. CASE ~(q.loop = "idle" /\ Sendable(q))
  BY <1>2 DEF HandleKNXQueue, Awake
<1> QED
  BY <1>1, <1>2

\* handleKNXQueue() closes the gate only by arming the ACK timer.
LEMMA HandleOwned ==
    ASSUME NEW P, NEW q \in Queues(P), NoPacket \notin P, Owned(q)
    PROVE  Owned(HandleKNXQueue(q))
<1>1. CASE q.loop = "idle" /\ Sendable(q)
  <2>1. q.commandQueue \in Seq(ItemsOf(P)) /\ q.commandQueue # << >>
    BY <1>1 DEF Queues, Sendable
  <2>2. Head(q.commandQueue) \in ItemsOf(P)
    BY <2>1
  <2>3. Head(q.commandQueue).packet # NoPacket
    BY <2>2 DEF ItemsOf
  <2> QED
    BY <1>1, <2>3 DEF HandleKNXQueue, Dispatch, SetTimerWaitingForACK, Owned,
                      Queues, Sendable
<1>2. CASE ~(q.loop = "idle" /\ Sendable(q))
  BY <1>2 DEF HandleKNXQueue
<1> QED
  BY <1>1, <1>2

\* The three properties of a queue, and the operations that keep them.
Sound(q, P) == q \in Queues(P) /\ Awake(q) /\ Owned(q)

\* handleKNXQueue() restores all three properties from ownership alone: it is
\* the call that wakes the loop.
LEMMA HandleSound ==
    ASSUME NEW P, NEW q \in Queues(P), NoPacket \notin P, Owned(q)
    PROVE  Sound(HandleKNXQueue(q), P)
BY HandleType, HandleAwake, HandleOwned DEF Sound

\* The setter of clearToSend, given true, restores all three.
LEMMA SetClearToSendSound ==
    ASSUME NEW P, NEW q \in Queues(P), NoPacket \notin P
    PROVE  Sound(SetClearToSend(q), P)
<1> DEFINE opened == [q EXCEPT !.clearToSend = TRUE]
<1>1. opened \in Queues(P) /\ Owned(opened)
  BY DEF Queues, Owned
<1> QED
  BY <1>1, HandleSound DEF SetClearToSend

\* send() without priority preserves the three properties.
LEMMA SendLastSound ==
    ASSUME NEW P, NEW q, Sound(q, P), NoPacket \notin P, NEW item \in ItemsOf(P)
    PROVE  Sound(SendLast(q, item), P)
<1> DEFINE longer == [q EXCEPT !.commandQueue = Append(@, item)]
<1>1. longer \in Queues(P) /\ Owned(longer)
  BY DEF Sound, Queues, Owned
<1> QED
  BY <1>1, HandleSound DEF SendLast

\* send() with priority, which forces the gate open, restores all three.
LEMMA SendFirstSound ==
    ASSUME NEW P, NEW q \in Queues(P), NoPacket \notin P, NEW item \in ItemsOf(P)
    PROVE  Sound(SendFirst(q, item), P)
<1> DEFINE longer == [q EXCEPT !.commandQueue = << item >> \o @,
                               !.clearToSend = TRUE]
<1>1. << item >> \o q.commandQueue \in Seq(ItemsOf(P))
  BY DEF Queues
<1>2. longer \in Queues(P) /\ Owned(longer)
  BY <1>1 DEF Queues, Owned
<1> QED
  BY <1>2, HandleSound DEF SendFirst

\* The two awaits of the loop, the send callback and the pacing delay, preserve
\* the three properties, a failed send included.
LEMMA LoopSound ==
    ASSUME NEW P, NEW q, Sound(q, P), NoPacket \notin P
    PROVE  /\ Sound(SendSucceeded(q), P)
           /\ Sound(SendFailed(q), P)
           /\ Sound(PacingDone(q), P)
<1>1. Sound(SendSucceeded(q), P)
  BY DEF SendSucceeded, Sound, Queues, Awake, Owned
<1>2. Sound(SendFailed(q), P)
  <2>1. << >> \in Seq(ItemsOf(P))
    OBVIOUS
  <2>2. SendFailed(q) \in Queues(P)
    BY <2>1 DEF SendFailed, Sound, Queues
  <2>3. SendFailed(q).commandQueue = << >>
    BY DEF SendFailed, Sound, Queues
  <2>4. Owned(SendFailed(q))
    BY DEF SendFailed, Sound, Queues, Owned
  <2> QED
    BY <2>2, <2>3, <2>4 DEF Sound, Awake, Sendable
<1>3. Sound(PacingDone(q), P)
  <2> DEFINE resumed == [q EXCEPT !.loop = "idle"]
  <2>1. resumed \in Queues(P) /\ Owned(resumed)
    BY DEF Sound, Queues, Owned
  <2> QED
    BY <2>1, HandleSound DEF PacingDone
<1> QED
  BY <1>1, <1>2, <1>3

\* The two awaits of the loop leave a queue of the same packets, sound or not.
LEMMA LoopType ==
    ASSUME NEW P, NEW q \in Queues(P)
    PROVE  /\ SendSucceeded(q) \in Queues(P)
           /\ SendFailed(q) \in Queues(P)
           /\ PacingDone(q) \in Queues(P)
<1>1. SendSucceeded(q) \in Queues(P)
  BY DEF SendSucceeded, Queues
<1>2. SendFailed(q) \in Queues(P)
  <2>1. << >> \in Seq(ItemsOf(P))
    OBVIOUS
  <2> QED
    BY <2>1 DEF SendFailed, Queues
<1>3. PacingDone(q) \in Queues(P)
  <2>1. [q EXCEPT !.loop = "idle"] \in Queues(P)
    BY DEF Queues
  <2> QED
    BY <2>1, HandleType DEF PacingDone
<1> QED
  BY <1>1, <1>2, <1>3

\* clearTimer(ACK), with the failure counter set within its bound, keeps the type.
LEMMA ClearAckTimerType ==
    ASSUME NEW P, NEW q \in Queues(P), NEW n \in 0 .. MaxFailedACK
    PROVE  [ClearAckTimer(q) EXCEPT !.failed = n] \in Queues(P)
<1>1. ClearAckTimer(q) \in Queues(P)
  BY DEF ClearAckTimer, Queues
<1> QED
  BY <1>1 DEF Queues

\* A TUNNELING_ACK, which stops the timer and opens the gate, restores all three.
LEMMA AckReceivedSound ==
    ASSUME NEW P, NEW q \in Queues(P), NoPacket \notin P
    PROVE  Sound(AckReceived(q), P)
<1> DEFINE settled == [ClearAckTimer(q) EXCEPT !.failed = 0]
<1>0. 0 \in 0 .. MaxFailedACK
  BY DEF MaxFailedACK
<1>1. settled \in Queues(P)
  BY <1>0, ClearAckTimerType
<1> QED
  BY <1>1, SetClearToSendSound DEF AckReceived

\* The ACK timer, by giving the telegram up or by resending it, restores all three.
LEMMA AckTimerFiresSound ==
    ASSUME NEW P, NEW q \in Queues(P), NoPacket \notin P, q.ackTimer # NoPacket
    PROVE  Sound(AckTimerFires(q), P)
<1>1. CASE GivesUp(q)
  <2> DEFINE settled == [ClearAckTimer(q) EXCEPT !.failed = 0]
  <2>0. 0 \in 0 .. MaxFailedACK
    BY DEF MaxFailedACK
  <2>1. settled \in Queues(P)
    BY <2>0, ClearAckTimerType
  <2> QED
    BY <1>1, <2>1, SetClearToSendSound DEF AckTimerFires, AbortTelegram
<1>2. CASE ~GivesUp(q)
  <2> DEFINE counted == [ClearAckTimer(q) EXCEPT !.failed = @ + 1]
             item == QueueItem(q.ackTimer, TRUE, q.current.expected)
  <2>1. q.failed + 1 \in 0 .. MaxFailedACK
    BY <1>2 DEF Queues, GivesUp, MaxFailedACK
  <2>2. ClearAckTimer(q).failed = q.failed
    BY DEF ClearAckTimer, Queues
  <2>3. counted \in Queues(P)
    BY <2>1, <2>2, ClearAckTimerType
  <2>4. q.ackTimer \in P /\ q.current.expected \in Int
    BY DEF Queues, ItemsOf
  <2>5. item \in ItemsOf(P)
    BY <2>4 DEF QueueItem, ItemsOf
  <2> QED
    BY <1>2, <2>3, <2>5, SendFirstSound DEF AckTimerFires, Retransmit
<1> QED
  BY <1>1, <1>2

-----------------------------------------------------------------------------
(* The client *)

\* The fields of a client.  The sequence number is that of the last telegram.
ClientFields ==
    [state : States, channelID : Channels \cup {NoChannel},
     seq : -1 .. MaxWrites - 1, timers : SUBSET Timers, awaiting : ResponseTypes,
     heartbeatFailures : 0 .. MaxHeartbeatFailures - 1,
     heartbeatRunning : BOOLEAN, q : Queues(Packets),
     socket : {"binding", "open", "closing", "closed"},
     closer : {"none", "setDisconnected", "Disconnect"},
     call : {"none", "waiting", "closing", "done"}]

\* There is a channel exactly while frames are sent for it, over a socket.
ChannelHeld(c) ==
    /\ c.state = "CONNECTED" => c.channelID # NoChannel
    /\ c.channelID # NoChannel =>
          /\ c.state \in {"CONNECTED", "DISCONNECTING"}
          /\ ~SocketNull(c)

\* From Connect() to the end of the connection a closed gate has its timer and
\* no wake-up is lost.  Before and after, neither holds: the constructor closes
\* the gate, and a client that leaves stops the timer.
GateTended(c) ==
    c.state \in {"CONNECTING", "CONNECTED"} => Owned(c.q) /\ Awake(c.q)

\* The timers that need a socket find one.
SocketTimed(c) ==
    SocketNull(c) =>
        c.timers \cap {"HEARTBEAT", "CONNECTION_STATE", "DISCONNECT"} = {}

\* Disconnect() awaits the disconnected event while the channel is given up,
\* and from the end of it until the socket has closed.
WaitJustified(c) ==
    c.call = "waiting" =>
        \/ c.state = "DISCONNECTING" /\ ~SocketNull(c)
        \/ c.state = "DISCONNECTED" /\ SocketNull(c)

\* What every method keeps.
Steady(c) ==
    /\ c \in ClientFields
    /\ ChannelHeld(c)
    /\ GateTended(c)
    /\ SocketTimed(c)
    /\ WaitJustified(c)

\* The heartbeat, which the handlers keep but not every method on its own.
Beating(c) ==
    c.state = "CONNECTED" /\ ~SniffingMode =>
        c.heartbeatRunning /\ "HEARTBEAT" \in c.timers

Events == {"connecting", "connected", "disconnected"}

\* The inductive invariant: disconnected is only emitted once the socket has
\* closed, which happens once.
IInv ==
    /\ Steady(client)
    /\ Beating(client)
    /\ events \in Seq(Events)
    /\ client.socket # "closed" => ~Promise!Seen("disconnected")
    /\ alive \in BOOLEAN

----------------------------------------------------------------------------
\* NoPacket stands for the absence of a packet.
LEMMA NoPacketIsNone == NoPacket \notin Packets
BY DEF NoPacket, Packets, Kinds, Telegram, Control

\* A packet of the client's own is queued as an item.
LEMMA ControlItem ==
    ASSUME NEW kind \in Kinds, NEW n \in Int
    PROVE  QueueItem(Control(kind), FALSE, n) \in ItemsOf(Packets)
BY DEF QueueItem, ItemsOf, Packets

\* The telegram of rank n is queued as an item.
LEMMA TelegramItem ==
    ASSUME NEW n \in 0 .. MaxWrites - 1, NEW ack \in BOOLEAN
    PROVE  QueueItem(Telegram(n), ack, n) \in ItemsOf(Packets)
<1>1. n \in Int
  BY TunnelClientAssumption
<1> QED
  BY <1>1 DEF QueueItem, ItemsOf, Packets

\* send() with priority changes the queue only, and leaves it sound.
LEMMA SendPacketStep ==
    ASSUME NEW c \in ClientFields, NEW kind \in Kinds
    PROVE  LET q == SendPacket(c, kind).q
           IN  /\ SendPacket(c, kind) = [c EXCEPT !.q = q]
               /\ Sound(q, Packets)
<1> DEFINE item == QueueItem(Control(kind), FALSE, c.seq)
<1>1. c.q \in Queues(Packets) /\ c.seq \in Int
  BY TunnelClientAssumption DEF ClientFields
<1>2. item \in ItemsOf(Packets)
  BY <1>1, ControlItem
<1>3. Sound(SendFirst(c.q, item), Packets)
  BY <1>1, <1>2, NoPacketIsNone, SendFirstSound
<1>4. SendPacket(c, kind) = [c EXCEPT !.q = SendFirst(c.q, item)]
  BY DEF SendPacket
<1>5. SendPacket(c, kind).q = SendFirst(c.q, item)
  BY <1>4 DEF ClientFields
<1> QED
  BY <1>3, <1>4, <1>5

\* What Steady asks of a queue, which a sound one has.
LEMMA NewQueue ==
    ASSUME NEW c, Steady(c), NEW q \in Queues(Packets),
           c.state \in {"CONNECTING", "CONNECTED"} => Owned(q) /\ Awake(q)
    PROVE  /\ Steady([c EXCEPT !.q = q])
           /\ [c EXCEPT !.q = q].state = c.state
           /\ [c EXCEPT !.q = q].socket = c.socket
           /\ [c EXCEPT !.q = q].channelID = c.channelID
           /\ [c EXCEPT !.q = q].timers = c.timers
           /\ [c EXCEPT !.q = q].heartbeatRunning = c.heartbeatRunning
BY DEF Steady, ClientFields, ChannelHeld, GateTended, SocketTimed, WaitJustified,
       SocketNull

\* send() with priority of a packet of the client's own.
LEMMA SendPacketSteady ==
    ASSUME NEW c, Steady(c), NEW kind \in Kinds
    PROVE  LET d == SendPacket(c, kind)
           IN  /\ Steady(d)
               /\ d.state = c.state /\ d.socket = c.socket
               /\ d.channelID = c.channelID /\ d.timers = c.timers
               /\ d.heartbeatRunning = c.heartbeatRunning
<1> DEFINE q == SendPacket(c, kind).q
<1>1. c \in ClientFields
  BY DEF Steady
<1>2. SendPacket(c, kind) = [c EXCEPT !.q = q] /\ Sound(q, Packets)
  BY <1>1, SendPacketStep
<1> HIDE DEF q
<1> QED
  BY <1>2, NewQueue DEF Sound

\* The clearToSend setter, given true.
LEMMA OpenGateSteady ==
    ASSUME NEW c, Steady(c)
    PROVE  LET d == OpenGate(c)
           IN  /\ Steady(d)
               /\ d.state = c.state /\ d.socket = c.socket
               /\ d.channelID = c.channelID /\ d.timers = c.timers
               /\ d.heartbeatRunning = c.heartbeatRunning
<1>1. c.q \in Queues(Packets)
  BY DEF Steady, ClientFields
<1>2. Sound(SetClearToSend(c.q), Packets)
  BY <1>1, NoPacketIsNone, SetClearToSendSound
<1> QED
  BY <1>2, NewQueue DEF OpenGate, Sound

\* closeSocket() of a client without a channel, a connection or a socket timer:
\* afterwards the socket is null.  The first caller is the one it answers.
LEMMA CloseSocketSteady ==
    ASSUME NEW c \in ClientFields, NEW caller \in {"setDisconnected", "Disconnect"},
           c.channelID = NoChannel, c.state \in {"DISCONNECTED", "DISCONNECTING"},
           c.timers = {}, c.call = "waiting" => c.state = "DISCONNECTED"
    PROVE  LET d == CloseSocket(c, caller)
           IN  /\ Steady(d)
               /\ SocketNull(d)
               /\ d.socket \in {"closing", c.socket}
               /\ ~SocketNull(c) => d.closer = caller
               /\ d.state = c.state /\ d.timers = {} /\ d.channelID = NoChannel
               /\ d.call = c.call
<1> DEFINE d == CloseSocket(c, caller)
           q == IF SocketNull(c) THEN [c.q EXCEPT !.exitLoop = TRUE]
                ELSE [c.q EXCEPT !.exitLoop = TRUE, !.socketReady = FALSE]
<1>1. q \in Queues(Packets)
  BY DEF ClientFields, Queues
<1>2. d = IF SocketNull(c) THEN [c EXCEPT !.q = q]
          ELSE [c EXCEPT !.q = q, !.socket = "closing", !.closer = caller]
  BY DEF CloseSocket, ClientFields
<1> HIDE DEF d, q
<1>3. d \in ClientFields
  <2>1. CASE SocketNull(c)
    BY <1>1, <1>2, <2>1 DEF ClientFields
  <2>2. CASE ~SocketNull(c)
    BY <1>1, <1>2, <2>2 DEF ClientFields
  <2> QED
    BY <2>1, <2>2
<1>4. /\ SocketNull(d)
      /\ d.socket \in {"closing", c.socket}
      /\ ~SocketNull(c) => d.closer = caller
      /\ d.state = c.state /\ d.timers = {} /\ d.channelID = NoChannel
      /\ d.call = c.call
  BY <1>2 DEF ClientFields, SocketNull
<1> QED
  BY <1>3, <1>4 DEF d, Steady, ChannelHeld, GateTended, SocketTimed, WaitJustified

\* clearAllTimers() changes the timers, the heartbeat's flag and the queue.
LEMMA ClearAllTimersStep ==
    ASSUME NEW c \in ClientFields
    PROVE  LET d == ClearAllTimers(c)
           IN  /\ d \in ClientFields
               /\ d.timers = {}
               /\ d.state = c.state /\ d.socket = c.socket
               /\ d.channelID = c.channelID /\ d.call = c.call
               /\ d.closer = c.closer
<1> DEFINE q == [c.q EXCEPT !.ackTimer = NoPacket]
<1>1. q \in Queues(Packets)
  BY DEF ClientFields, Queues
<1>2. ClearAllTimers(c) = [c EXCEPT !.heartbeatRunning = FALSE, !.timers = {}, !.q = q]
  BY DEF ClearAllTimers, StopHeartBeat, ClearAckTimer, ClientFields
<1> QED
  BY <1>1, <1>2 DEF ClientFields

\* setDisconnected() leaves a client without channel, timers and socket,
\* whatever it finds.
LEMMA SetDisconnectedSteady ==
    ASSUME NEW c \in ClientFields
    PROVE  LET d == SetDisconnected(c)
           IN  /\ Steady(d)
               /\ SocketNull(d)
               /\ d.socket \in {"closing", c.socket}
               /\ ~SocketNull(c) => d.closer = "setDisconnected"
               /\ d.state = "DISCONNECTED" /\ d.timers = {}
               /\ d.call = c.call
<1> DEFINE cleared == ClearAllTimers(c)
           left == [cleared EXCEPT !.state = "DISCONNECTED", !.seq = -1,
                                   !.channelID = NoChannel]
<1>1. /\ cleared \in ClientFields /\ cleared.timers = {}
      /\ cleared.socket = c.socket /\ cleared.call = c.call
  BY ClearAllTimersStep
<1>2. -1 \in -1 .. MaxWrites - 1
  BY TunnelClientAssumption
<1>3. /\ left \in ClientFields /\ left.timers = {} /\ left.channelID = NoChannel
      /\ left.state = "DISCONNECTED" /\ left.socket = c.socket /\ left.call = c.call
  BY <1>1, <1>2 DEF ClientFields, States
<1>4. SetDisconnected(c) = CloseSocket(left, "setDisconnected")
  BY DEF SetDisconnected
<1>5. SocketNull(left) <=> SocketNull(c)
  BY <1>3 DEF SocketNull
<1> HIDE DEF left
<1> QED
  BY <1>3, <1>4, <1>5, CloseSocketSteady

\* Disconnect() of a client that has a socket: with a channel it asks for the
\* end, without one the socket is closed.
LEMMA DisconnectSteady ==
    ASSUME NEW c, Steady(c), MayDisconnect(c)
    PROVE  LET d == Disconnect(c)
           IN  /\ Steady(d)
               /\ d.state = "DISCONNECTING"
               /\ d.channelID = c.channelID
               /\ c.channelID = NoChannel => SocketNull(d) /\ d.socket = "closing"
               /\ c.channelID # NoChannel => d.socket = c.socket
<1> DEFINE cleared == ClearAllTimers(c)
           leaving == [cleared EXCEPT !.state = "DISCONNECTING"]
           asking == [leaving EXCEPT !.awaiting = "DISCONNECT_RESPONSE",
                                     !.call = "waiting"]
<1>0. c \in ClientFields /\ ~SocketNull(c)
  BY DEF Steady, MayDisconnect
<1>1. /\ cleared \in ClientFields /\ cleared.timers = {} /\ cleared.socket = c.socket
      /\ cleared.channelID = c.channelID /\ cleared.call = c.call
  BY <1>0, ClearAllTimersStep
<1>2. /\ leaving \in ClientFields /\ leaving.timers = {} /\ leaving.socket = c.socket
      /\ leaving.channelID = c.channelID /\ leaving.state = "DISCONNECTING"
      /\ leaving.call = c.call
  BY <1>1 DEF ClientFields, States
<1>3. CASE c.channelID = NoChannel
  <2> DEFINE d == CloseSocket(leaving, "Disconnect")
  <2>1. c.call # "waiting"
    BY <1>0 DEF MayDisconnect, Steady, WaitJustified, SocketNull
  <2>2. /\ Steady(d) /\ SocketNull(d) /\ d.state = "DISCONNECTING"
        /\ d.channelID = NoChannel /\ d.socket \in {"closing", c.socket}
    BY <1>2, <1>3, <2>1, CloseSocketSteady
  <2>3. Disconnect(c) = [d EXCEPT !.call = "closing"]
    BY <1>2, <1>3, <1>1 DEF Disconnect
  <2> HIDE DEF d
  <2>4. Steady([d EXCEPT !.call = "closing"])
    BY <2>2 DEF Steady, ClientFields, ChannelHeld, GateTended, SocketTimed,
                WaitJustified, SocketNull
  <2>5. LET e == [d EXCEPT !.call = "closing"]
        IN  /\ SocketNull(e) /\ e.state = "DISCONNECTING"
            /\ e.channelID = NoChannel /\ e.socket = d.socket
    BY <2>2 DEF Steady, ClientFields, SocketNull
  <2>6. d.socket = "closing"
    BY <2>2, <1>0 DEF SocketNull
  <2> QED
    BY <1>3, <2>3, <2>4, <2>5, <2>6
<1>4. CASE c.channelID # NoChannel
  <2>1. /\ asking \in ClientFields /\ asking.timers = {} /\ asking.socket = c.socket
        /\ asking.channelID = c.channelID /\ asking.state = "DISCONNECTING"
        /\ asking.call = "waiting"
    BY <1>2 DEF ClientFields, ResponseTypes
  <2> HIDE DEF asking
  <2>2. Steady(asking)
    BY <1>0, <2>1 DEF Steady, ChannelHeld, GateTended, SocketTimed, WaitJustified,
                     SocketNull
  <2>3. Disconnect(c) = SendPacket(asking, "DISCONNECT_REQUEST")
    BY <1>2, <1>4, <1>1 DEF Disconnect, asking
  <2>4. "DISCONNECT_REQUEST" \in Kinds
    BY DEF Kinds
  <2> QED
    BY <1>4, <2>1, <2>2, <2>3, <2>4, SendPacketSteady
<1> QED
  BY <1>3, <1>4

\* An event is emitted to the listeners: nothing happens, or Disconnect().
LEMMA NotifySteady ==
    ASSUME NEW c, Steady(c), NEW leaves \in Listeners
    PROVE  LET d == Notify(c, leaves)
           IN  /\ Steady(d)
               /\ d.channelID = c.channelID
               /\ \/ d = c
                  \/ /\ Reentrant /\ MayDisconnect(c) /\ d.state = "DISCONNECTING"
                     /\ c.channelID = NoChannel => SocketNull(d) /\ d.socket = "closing"
                     /\ c.channelID # NoChannel => d.socket = c.socket
BY DisconnectSteady, TunnelClientAssumption DEF Notify, Listeners

\* Timers of the map come and go without touching what Steady says, as long as
\* those that need a socket are only added to one.
LEMMA TimersSteady ==
    ASSUME NEW c, Steady(c), NEW ts \in SUBSET Timers,
           SocketNull(c) => ts \subseteq c.timers \cup {"CONNECTION", "CONNECT_REQUEST"}
    PROVE  LET d == [c EXCEPT !.timers = ts]
           IN  /\ Steady(d)
               /\ d.timers = ts
               /\ d.state = c.state /\ d.socket = c.socket
               /\ d.channelID = c.channelID /\ d.call = c.call
               /\ d.heartbeatRunning = c.heartbeatRunning
BY DEF Steady, ClientFields, ChannelHeld, GateTended, SocketTimed, WaitJustified,
       SocketNull

\* The failures counted are no part of Steady.
LEMMA FailuresSteady ==
    ASSUME NEW c, Steady(c), NEW n \in 0 .. MaxHeartbeatFailures - 1
    PROVE  LET d == [c EXCEPT !.heartbeatFailures = n]
           IN  /\ Steady(d)
               /\ d.timers = c.timers
               /\ d.state = c.state /\ d.socket = c.socket
               /\ d.channelID = c.channelID /\ d.call = c.call
               /\ d.heartbeatRunning = c.heartbeatRunning
BY DEF Steady, ClientFields, ChannelHeld, GateTended, SocketTimed, WaitJustified,
       SocketNull

\* runHeartbeat() of a client with a socket arms the next heartbeat.
LEMMA RunHeartbeatSteady ==
    ASSUME NEW c, Steady(c), ~SocketNull(c)
    PROVE  LET d == RunHeartbeat(c)
           IN  /\ Steady(d)
               /\ d.state = c.state /\ d.socket = c.socket
               /\ d.channelID = c.channelID
               /\ c.heartbeatRunning =>
                     d.heartbeatRunning /\ "HEARTBEAT" \in d.timers
<1>1. CASE ~c.heartbeatRunning
  BY <1>1 DEF RunHeartbeat
<1>2. CASE c.heartbeatRunning
  <2> DEFINE armed == [c EXCEPT !.timers = @ \cup {"CONNECTION_STATE"}]
             asking == [armed EXCEPT !.awaiting = "CONNECTIONSTATE_RESPONSE"]
             sent == SendPacket(asking, "CONNECTIONSTATE_REQUEST")
  <2>1. c.timers \in SUBSET Timers /\ c \in ClientFields
    BY DEF Steady, ClientFields
  <2>2. /\ Steady(armed) /\ armed.state = c.state /\ armed.socket = c.socket
        /\ armed.channelID = c.channelID /\ armed.heartbeatRunning
    <3>1. c.timers \cup {"CONNECTION_STATE"} \in SUBSET Timers
      BY <2>1 DEF Timers
    <3> QED
      BY <1>2, <3>1, TimersSteady
  <2>3. /\ Steady(asking) /\ asking.state = c.state /\ asking.socket = c.socket
        /\ asking.channelID = c.channelID /\ asking.heartbeatRunning
    <3> HIDE DEF armed
    <3>1. armed \in ClientFields
      BY <2>2 DEF Steady
    <3> QED
      BY <2>2, <3>1 DEF Steady, ClientFields, ChannelHeld, GateTended, SocketTimed,
                        WaitJustified, SocketNull, ResponseTypes
  <2>4. "CONNECTIONSTATE_REQUEST" \in Kinds
    BY DEF Kinds
  <2>5. /\ Steady(sent) /\ sent.state = c.state /\ sent.socket = c.socket
        /\ sent.channelID = c.channelID /\ sent.heartbeatRunning
    <3> HIDE DEF asking
    <3> QED
      BY <2>3, <2>4, SendPacketSteady
  <2>6. RunHeartbeat(c) = [sent EXCEPT !.timers = @ \cup {"HEARTBEAT"}]
    <3>1. asking = [c EXCEPT !.timers = @ \cup {"CONNECTION_STATE"},
                             !.awaiting = "CONNECTIONSTATE_RESPONSE"]
      BY <2>1 DEF ClientFields
    <3> QED
      BY <1>2, <3>1 DEF RunHeartbeat
  <2> HIDE DEF sent
  <2>7. sent.timers \cup {"HEARTBEAT"} \in SUBSET Timers /\ sent.timers \in SUBSET Timers
    BY <2>5 DEF Steady, ClientFields, Timers
  <2>8. ~SocketNull(sent)
    BY <2>5 DEF SocketNull
  <2>9. RunHeartbeat(c) = [sent EXCEPT !.timers = sent.timers \cup {"HEARTBEAT"}]
    BY <2>6
  <2>10. LET d == [sent EXCEPT !.timers = sent.timers \cup {"HEARTBEAT"}]
         IN  /\ Steady(d) /\ d.timers = sent.timers \cup {"HEARTBEAT"}
             /\ d.state = sent.state /\ d.socket = sent.socket
             /\ d.channelID = sent.channelID /\ d.call = sent.call
             /\ d.heartbeatRunning = sent.heartbeatRunning
    BY <2>5, <2>7, <2>8, TimersSteady
  <2> QED
    BY <2>5, <2>9, <2>10
<1> QED
  BY <1>1, <1>2

\* startHeartBeat() of a client with a socket leaves the heartbeat running.
LEMMA StartHeartBeatSteady ==
    ASSUME NEW c, Steady(c), ~SocketNull(c)
    PROVE  LET d == StartHeartBeat(c)
           IN  /\ Steady(d)
               /\ d.state = c.state /\ d.socket = c.socket
               /\ d.channelID = c.channelID
               /\ d.heartbeatRunning /\ "HEARTBEAT" \in d.timers
<1> DEFINE stopped == [c EXCEPT !.timers = @ \ {"HEARTBEAT", "CONNECTION_STATE"}]
           forgiven == [stopped EXCEPT !.heartbeatFailures = 0]
           started == [forgiven EXCEPT !.heartbeatRunning = TRUE]
<1>1. c \in ClientFields
  BY DEF Steady
<1>2. /\ Steady(stopped) /\ stopped.state = c.state /\ stopped.socket = c.socket
      /\ stopped.channelID = c.channelID
  <2>1. c.timers \ {"HEARTBEAT", "CONNECTION_STATE"} \in SUBSET Timers
    BY <1>1 DEF ClientFields
  <2> QED
    BY <2>1, TimersSteady
<1>3. /\ Steady(started) /\ started.state = c.state /\ started.socket = c.socket
      /\ started.channelID = c.channelID /\ started.heartbeatRunning
  <2>1. 0 \in 0 .. MaxHeartbeatFailures - 1
    BY DEF MaxHeartbeatFailures
  <2>2. /\ Steady(forgiven) /\ forgiven.state = c.state
        /\ forgiven.socket = c.socket /\ forgiven.channelID = c.channelID
    <3> HIDE DEF stopped
    <3> QED
      BY <1>2, <2>1, FailuresSteady
  <2> HIDE DEF forgiven
  <2> QED
    BY <2>2 DEF Steady, ClientFields, ChannelHeld, GateTended, SocketTimed,
                WaitJustified, SocketNull
<1>4. started = [StopHeartBeat(c) EXCEPT !.heartbeatFailures = 0,
                                         !.heartbeatRunning = TRUE]
  BY <1>1 DEF StopHeartBeat, ClientFields
<1>5. StartHeartBeat(c) = RunHeartbeat(started)
  BY <1>4 DEF StartHeartBeat
<1> HIDE DEF started
<1>6. ~SocketNull(started)
  BY <1>3 DEF SocketNull
<1> QED
  BY <1>3, <1>5, <1>6, RunHeartbeatSteady

\* The prelude of processInboundMessage() leaves all but the wait for a
\* heartbeat's answer as it is.
LEMMA HeardSteady ==
    ASSUME NEW c, Steady(c), NEW fromPeer
    PROVE  LET d == Heard(c, fromPeer)
           IN  /\ Steady(d)
               /\ d.state = c.state /\ d.socket = c.socket
               /\ d.channelID = c.channelID /\ d.call = c.call
               /\ d.heartbeatRunning = c.heartbeatRunning
               /\ "HEARTBEAT" \in c.timers <=> "HEARTBEAT" \in d.timers
<1> DEFINE fewer == [c EXCEPT !.timers = @ \ {"CONNECTION_STATE"}]
<1>1. c \in ClientFields /\ c.timers \ {"CONNECTION_STATE"} \in SUBSET Timers
  BY DEF Steady, ClientFields
<1>2. /\ Steady(fewer) /\ fewer.state = c.state /\ fewer.socket = c.socket
      /\ fewer.channelID = c.channelID /\ fewer.call = c.call
      /\ fewer.heartbeatRunning = c.heartbeatRunning
      /\ fewer.timers = c.timers \ {"CONNECTION_STATE"}
  BY <1>1, TimersSteady
<1>3. 0 \in 0 .. MaxHeartbeatFailures - 1
  BY DEF MaxHeartbeatFailures
<1>4. [c EXCEPT !.timers = @ \ {"CONNECTION_STATE"}, !.heartbeatFailures = 0]
        = [fewer EXCEPT !.heartbeatFailures = 0]
  BY <1>1 DEF ClientFields
<1> HIDE DEF fewer
<1> QED
  BY <1>2, <1>3, <1>4, FailuresSteady DEF Heard

----------------------------------------------------------------------------
\* What a step that emits no event does to the client: it keeps the invariant,
\* a socket that is null stays so, and one that is not stays in its phase,
\* but for the one from being connected to leaving.
Silent(c, d) ==
    /\ Steady(d) /\ Beating(d)
    /\ c.socket = "closed" => d.socket = "closed"
    /\ SocketNull(c) => SocketNull(d)
    /\ \/ SocketNull(d)
       \/ d.state = c.state
       \/ c.state = "CONNECTED" /\ d.state = "DISCONNECTING"
    /\ ~Reentrant /\ c.state # "DISCONNECTED" /\ d.state = "DISCONNECTED" =>
          d.closer = "setDisconnected"

\* A step within a phase.
LEMMA WithinPhase ==
    ASSUME NEW c, Beating(c), NEW d, Steady(d), d.state = c.state,
           d.socket = c.socket, d.heartbeatRunning = c.heartbeatRunning,
           "HEARTBEAT" \in c.timers => "HEARTBEAT" \in d.timers
    PROVE  Silent(c, d)
BY DEF Silent, Beating, SocketNull

\* A step that ends in setDisconnected() while there is a socket, at least
\* before the listeners of an event were told.
LEMMA Teardown ==
    ASSUME NEW c, ~SocketNull(c), NEW m \in ClientFields,
           m.socket = c.socket \/ Reentrant
    PROVE  Silent(c, SetDisconnected(m))
<1> DEFINE d == SetDisconnected(m)
<1>1. /\ Steady(d) /\ SocketNull(d) /\ d.state = "DISCONNECTED"
      /\ ~SocketNull(m) => d.closer = "setDisconnected"
  BY SetDisconnectedSteady
<1> HIDE DEF d
<1>2. Silent(c, d)
  BY <1>1 DEF Silent, Beating, SocketNull
<1> QED
  BY <1>2 DEF d

\* A step that ends with an event whose listeners may call Disconnect().
LEMMA Telling ==
    ASSUME NEW c, Beating(c), NEW m, Steady(m), m.state = c.state,
           m.socket = c.socket, m.heartbeatRunning = c.heartbeatRunning,
           "HEARTBEAT" \in c.timers => "HEARTBEAT" \in m.timers,
           NEW leaves \in Listeners
    PROVE  Silent(c, Notify(m, leaves))
<1> DEFINE d == Notify(m, leaves)
<1>1. /\ Steady(d) /\ d.channelID = m.channelID
      /\ \/ d = m
         \/ /\ MayDisconnect(m) /\ d.state = "DISCONNECTING"
            /\ m.channelID = NoChannel => SocketNull(d) /\ d.socket = "closing"
            /\ m.channelID # NoChannel => d.socket = m.socket
  BY NotifySteady
<1> HIDE DEF d
<1>2. CASE d = m
  BY <1>2, <1>1, WithinPhase DEF d
<1>3. CASE d # m
  <2>1. m.channelID # NoChannel => m.state \in {"CONNECTED", "DISCONNECTING"}
    BY DEF Steady, ChannelHeld
  <2>2. Silent(c, d)
    BY <1>1, <1>3, <2>1 DEF Silent, Beating, SocketNull, MayDisconnect
  <2> QED
    BY <2>2 DEF d
<1> QED
  BY <1>2, <1>3

----------------------------------------------------------------------------
\* The application.

\* A telegram is queued behind those that wait.
LEMMA WriteSilent ==
    ASSUME IInv, Write
    PROVE  Silent(client, client') /\ UNCHANGED << events, alive >>
<1> DEFINE n == client.seq + 1
           item == QueueItem(Telegram(n), ~SuppressAck, n)
           q == SendLast(client.q, item)
           counted == [client EXCEPT !.seq = n]
<1>1. /\ client \in ClientFields /\ Steady(client) /\ Beating(client)
      /\ Sound(client.q, Packets)
  BY DEF IInv, Steady, GateTended, Write, Sound, ClientFields
<1>2. n \in 0 .. MaxWrites - 1 /\ (~SuppressAck) \in BOOLEAN
  <2>1. n \in 0 .. MaxWrites - 1
    BY <1>1, TunnelClientAssumption DEF Write, ClientFields
  <2>2. (~SuppressAck) \in BOOLEAN
    OBVIOUS
  <2> QED
    BY <2>1, <2>2
<1>3. Sound(q, Packets)
  BY <1>1, <1>2, TelegramItem, NoPacketIsNone, SendLastSound
<1>4. /\ Steady(counted) /\ counted.state = client.state
      /\ counted.socket = client.socket /\ counted.timers = client.timers
      /\ counted.heartbeatRunning = client.heartbeatRunning
  <2>1. n \in -1 .. MaxWrites - 1
    BY <1>2, TunnelClientAssumption
  <2> HIDE DEF n
  <2> QED
    BY <1>1, <2>1 DEF Steady, ClientFields, ChannelHeld, GateTended, SocketTimed,
                      WaitJustified, SocketNull
<1>5. client' = [counted EXCEPT !.q = q]
  BY <1>1 DEF Write, ClientFields
<1> HIDE DEF counted, q
<1>6. /\ Steady(client') /\ client'.state = client.state
      /\ client'.socket = client.socket /\ client'.timers = client.timers
      /\ client'.heartbeatRunning = client.heartbeatRunning
  BY <1>3, <1>4, <1>5, NewQueue DEF Sound
<1> QED
  BY <1>1, <1>6, WithinPhase DEF Write

\* Disconnect() is called, in whatever phase it does not throw.
LEMMA CallDisconnectSilent ==
    ASSUME IInv, CallDisconnect
    PROVE  Silent(client, client') /\ UNCHANGED << events, alive >>
<1>1. /\ Steady(client) /\ MayDisconnect(client)
      /\ client' = Disconnect(client) /\ UNCHANGED << events, alive >>
  BY DEF IInv, CallDisconnect
<1>2. /\ Steady(client') /\ client'.state = "DISCONNECTING"
      /\ client.channelID = NoChannel => SocketNull(client')
      /\ client.channelID # NoChannel => client'.socket = client.socket
  BY <1>1, DisconnectSteady
<1>3. client.channelID # NoChannel => client.state = "CONNECTED"
  BY <1>1 DEF Steady, ChannelHeld, MayDisconnect
<1> QED
  BY <1>1, <1>2, <1>3 DEF Silent, Beating, MayDisconnect, SocketNull

----------------------------------------------------------------------------
\* The socket and the queue loop.

\* A queue that keeps its type, and its soundness where it is tended.
LEMMA QueueStep ==
    ASSUME IInv, NEW q \in Queues(Packets),
           Owned(client.q) /\ Awake(client.q) => Owned(q) /\ Awake(q)
    PROVE  Silent(client, [client EXCEPT !.q = q])
<1> DEFINE d == [client EXCEPT !.q = q]
<1>1. Steady(client) /\ Beating(client)
  BY DEF IInv
<1>2. client.state \in {"CONNECTING", "CONNECTED"} => Owned(q) /\ Awake(q)
  BY <1>1 DEF Steady, GateTended
<1>3. /\ Steady(d) /\ d.state = client.state /\ d.socket = client.socket
      /\ d.timers = client.timers /\ d.heartbeatRunning = client.heartbeatRunning
  BY <1>1, <1>2, NewQueue
<1> HIDE DEF d
<1>4. Silent(client, d)
  BY <1>1, <1>3, WithinPhase
<1> QED
  BY <1>4 DEF d

\* The socket is bound and the queue handler called.
LEMMA ListeningSilent ==
    ASSUME IInv, Listening
    PROVE  Silent(client, client') /\ UNCHANGED << events, alive >>
<1> DEFINE ready == [client.q EXCEPT !.socketReady = TRUE]
           q == HandleKNXQueue(ready)
           bound == [client EXCEPT !.socket = "open"]
<1>1. /\ client \in ClientFields /\ Steady(client) /\ Beating(client)
      /\ client.q \in Queues(Packets)
  BY DEF IInv, Steady, ClientFields
<1>2. ready \in Queues(Packets) /\ (Owned(client.q) => Owned(ready))
  BY <1>1 DEF Queues, Owned
<1>3. q \in Queues(Packets) /\ (Owned(client.q) => Owned(q) /\ Awake(q))
  BY <1>2, HandleType, HandleSound, NoPacketIsNone DEF Sound
<1>4. client' = [bound EXCEPT !.q = q] /\ UNCHANGED << events, alive >>
  BY <1>1 DEF Listening, ClientFields
<1>5. /\ Steady(bound) /\ bound.state = client.state /\ bound.socket = "open"
      /\ bound.timers = client.timers
      /\ bound.heartbeatRunning = client.heartbeatRunning
  BY <1>1 DEF Listening, Steady, ClientFields, ChannelHeld, GateTended, SocketTimed,
              WaitJustified, SocketNull
<1>6. bound.state \in {"CONNECTING", "CONNECTED"} => Owned(q) /\ Awake(q)
  BY <1>1, <1>3, <1>5 DEF Steady, GateTended
<1> HIDE DEF bound, q
<1>7. /\ Steady(client') /\ client'.state = client.state /\ client'.socket = "open"
      /\ client'.timers = client.timers
      /\ client'.heartbeatRunning = client.heartbeatRunning
  BY <1>3, <1>4, <1>5, <1>6, NewQueue
<1>8. client.socket = "binding"
  BY DEF Listening
<1> QED
  BY <1>1, <1>4, <1>7, <1>8 DEF Silent, Beating, SocketNull

\* The send callback, with either outcome.
LEMMA SendDoneSilent ==
    ASSUME IInv, SendDone
    PROVE  Silent(client, client') /\ UNCHANGED << events, alive >>
<1>1. client.q \in Queues(Packets)
  BY DEF IInv, Steady, ClientFields
<1>2. PICK q \in {SendSucceeded(client.q), SendFailed(client.q)} :
          client' = [client EXCEPT !.q = q]
  BY DEF SendDone
<1>3. /\ q \in Queues(Packets)
      /\ Owned(client.q) /\ Awake(client.q) => Owned(q) /\ Awake(q)
  BY <1>1, <1>2, LoopType, LoopSound, NoPacketIsNone DEF Sound
<1> QED
  BY <1>2, <1>3, QueueStep DEF SendDone

\* The pacing delay is over.
LEMMA PaceSilent ==
    ASSUME IInv, Pace
    PROVE  Silent(client, client') /\ UNCHANGED << events, alive >>
<1> DEFINE q == PacingDone(client.q)
<1>1. client.q \in Queues(Packets)
  BY DEF IInv, Steady, ClientFields
<1>2. /\ q \in Queues(Packets)
      /\ Owned(client.q) /\ Awake(client.q) => Owned(q) /\ Awake(q)
  BY <1>1, LoopType, LoopSound, NoPacketIsNone DEF Sound
<1>3. client' = [client EXCEPT !.q = q] /\ UNCHANGED << events, alive >>
  BY DEF Pace
<1> HIDE DEF q
<1> QED
  BY <1>2, <1>3, QueueStep

\* The socket reports an error.
LEMMA SocketErrorSilent ==
    ASSUME IInv, SocketError
    PROVE  Silent(client, client') /\ UNCHANGED << events, alive >>
<1> DEFINE q == [client.q EXCEPT !.socketReady = FALSE]
<1>1. client \in ClientFields /\ client.q \in Queues(Packets)
  BY DEF IInv, Steady, ClientFields
<1>2. /\ q \in Queues(Packets)
      /\ Owned(client.q) /\ Awake(client.q) => Owned(q) /\ Awake(q)
  BY <1>1 DEF Queues, Owned, Awake, Sendable
<1>3. client' = [client EXCEPT !.q = q] /\ UNCHANGED << events, alive >>
  BY <1>1 DEF SocketError
<1> HIDE DEF q
<1> QED
  BY <1>2, <1>3, QueueStep

----------------------------------------------------------------------------
\* Timers.

\* The ACK timer fires.
LEMMA AckTimeoutSilent ==
    ASSUME IInv, AckTimeout
    PROVE  Silent(client, client') /\ UNCHANGED << events, alive >>
<1> DEFINE q == AckTimerFires(client.q)
<1>1. client.q \in Queues(Packets)
  BY DEF IInv, Steady, ClientFields
<1>2. Sound(q, Packets)
  BY <1>1, AckTimerFiresSound, NoPacketIsNone DEF AckTimeout
<1>3. client' = [client EXCEPT !.q = q] /\ UNCHANGED << events, alive >>
  BY DEF AckTimeout
<1> HIDE DEF q
<1> QED
  BY <1>2, <1>3, QueueStep DEF Sound

\* A timer of the map fires: it is out of it.
LEMMA ExpiredSteady ==
    ASSUME IInv, NEW t
    PROVE  LET d == Expired(t)
           IN  /\ Steady(d)
               /\ d.timers = client.timers \ {t}
               /\ d.state = client.state /\ d.socket = client.socket
               /\ d.channelID = client.channelID /\ d.call = client.call
               /\ d.heartbeatRunning = client.heartbeatRunning
<1>1. Steady(client) /\ client.timers \ {t} \in SUBSET Timers
  BY DEF IInv, Steady, ClientFields
<1> QED
  BY <1>1, TimersSteady DEF Expired

\* A timer that needs a socket has one.
LEMMA DueHasSocket ==
    ASSUME IInv, NEW t \in {"HEARTBEAT", "CONNECTION_STATE", "DISCONNECT"},
           TimerDue(t)
    PROVE  ~SocketNull(client)
BY DEF IInv, Steady, SocketTimed, TimerDue

\* 2 s after Connect() the request is queued.
LEMMA ConnectRequestDueSilent ==
    ASSUME IInv, ConnectRequestDue
    PROVE  Silent(client, client') /\ UNCHANGED << events, alive >>
<1> DEFINE fired == Expired("CONNECT_REQUEST")
<1>1. /\ Steady(fired) /\ fired.timers = client.timers \ {"CONNECT_REQUEST"}
      /\ fired.state = client.state /\ fired.socket = client.socket
      /\ fired.heartbeatRunning = client.heartbeatRunning
  BY ExpiredSteady
<1>2. client' = SendPacket(fired, "CONNECT_REQUEST") /\ UNCHANGED << events, alive >>
  BY DEF ConnectRequestDue
<1>3. "CONNECT_REQUEST" \in Kinds
  BY DEF Kinds
<1> HIDE DEF fired
<1>4. /\ Steady(client') /\ client'.timers = client.timers \ {"CONNECT_REQUEST"}
      /\ client'.state = client.state /\ client'.socket = client.socket
      /\ client'.heartbeatRunning = client.heartbeatRunning
  BY <1>1, <1>2, <1>3, SendPacketSteady
<1> QED
  BY <1>2, <1>4, WithinPhase DEF IInv

\* 10 s after Connect() an error event.
LEMMA ConnectionTimeoutSilent ==
    ASSUME IInv, NEW leaves \in Listeners, ConnectionTimeout(leaves)
    PROVE  Silent(client, client') /\ UNCHANGED << events, alive >>
<1> DEFINE fired == Expired("CONNECTION")
<1>1. /\ Steady(fired) /\ fired.timers = client.timers \ {"CONNECTION"}
      /\ fired.state = client.state /\ fired.socket = client.socket
      /\ fired.heartbeatRunning = client.heartbeatRunning
  BY ExpiredSteady
<1>2. client' = Notify(fired, leaves) /\ UNCHANGED << events, alive >>
  BY DEF ConnectionTimeout
<1> HIDE DEF fired
<1> QED
  BY <1>1, <1>2, Telling DEF IInv

\* A heartbeat was not answered: counted, or the end of the connection.
LEMMA ConnectionStateTimeoutSilent ==
    ASSUME IInv, NEW leaves \in Listeners, ConnectionStateTimeout(leaves)
    PROVE  Silent(client, client') /\ UNCHANGED << events, alive >>
<1> DEFINE missed == Expired("CONNECTION_STATE")
           failures == client.heartbeatFailures + 1
           forgiven == [missed EXCEPT !.heartbeatFailures = 0]
           counted == [missed EXCEPT !.heartbeatFailures = failures]
<1>1. /\ Steady(missed) /\ missed.timers = client.timers \ {"CONNECTION_STATE"}
      /\ missed.state = client.state /\ missed.socket = client.socket
      /\ missed.heartbeatRunning = client.heartbeatRunning
  BY ExpiredSteady
<1>2. ~SocketNull(client) /\ UNCHANGED << events, alive >>
  BY DueHasSocket DEF ConnectionStateTimeout
<1>3. client.heartbeatFailures \in 0 .. MaxHeartbeatFailures - 1
  BY DEF IInv, Steady, ClientFields
<1>4. CASE TooMany(failures)
  <2>1. client' = SetDisconnected(Notify(forgiven, leaves))
    BY <1>4 DEF ConnectionStateTimeout
  <2>2. 0 \in 0 .. MaxHeartbeatFailures - 1
    BY DEF MaxHeartbeatFailures
  <2> HIDE DEF missed
  <2>3. Steady(forgiven) /\ forgiven.socket = client.socket
    BY <1>1, <2>2, FailuresSteady
  <2> HIDE DEF forgiven
  <2>4. /\ Notify(forgiven, leaves) \in ClientFields
        /\ Notify(forgiven, leaves).socket = client.socket \/ Reentrant
    BY <2>3, NotifySteady DEF Steady
  <2> QED
    BY <1>2, <2>1, <2>4, Teardown
<1>5. CASE ~TooMany(failures)
  <2>1. client' = counted
    BY <1>5 DEF ConnectionStateTimeout
  <2>2. failures \in 0 .. MaxHeartbeatFailures - 1
    BY <1>3, <1>5 DEF TooMany, MaxHeartbeatFailures
  <2> HIDE DEF missed, failures
  <2>3. /\ Steady(client') /\ client'.state = client.state
        /\ client'.socket = client.socket
        /\ client'.timers = client.timers \ {"CONNECTION_STATE"}
        /\ client'.heartbeatRunning = client.heartbeatRunning
    BY <1>1, <2>1, <2>2, FailuresSteady
  <2> QED
    BY <1>2, <2>3, WithinPhase DEF IInv
<1> QED
  BY <1>4, <1>5

\* The next heartbeat is due.
LEMMA HeartbeatDueSilent ==
    ASSUME IInv, HeartbeatDue
    PROVE  Silent(client, client') /\ UNCHANGED << events, alive >>
<1> DEFINE fired == Expired("HEARTBEAT")
<1>1. /\ Steady(fired) /\ fired.state = client.state /\ fired.socket = client.socket
      /\ fired.heartbeatRunning = client.heartbeatRunning
  BY ExpiredSteady
<1>2. client' = RunHeartbeat(fired) /\ UNCHANGED << events, alive >>
  BY DEF HeartbeatDue
<1>3. ~SocketNull(client) /\ Beating(client)
  BY DueHasSocket DEF HeartbeatDue, IInv
<1> HIDE DEF fired
<1>4. ~SocketNull(fired)
  BY <1>1, <1>3 DEF SocketNull
<1>5. /\ Steady(client') /\ client'.state = client.state
      /\ client'.socket = client.socket
      /\ client.heartbeatRunning =>
            client'.heartbeatRunning /\ "HEARTBEAT" \in client'.timers
  BY <1>1, <1>2, <1>4, RunHeartbeatSteady
<1> QED
  BY <1>2, <1>3, <1>5 DEF Silent, Beating, SocketNull

\* 1 s after the gateway's DISCONNECT_REQUEST.
LEMMA DisconnectDueSilent ==
    ASSUME IInv, DisconnectDue
    PROVE  Silent(client, client') /\ UNCHANGED << events, alive >>
<1> DEFINE fired == Expired("DISCONNECT")
<1>1. fired \in ClientFields /\ fired.socket = client.socket
  BY ExpiredSteady DEF Steady
<1>2. ~SocketNull(client)
  BY DueHasSocket DEF DisconnectDue
<1>3. client' = SetDisconnected(fired) /\ UNCHANGED << events, alive >>
  BY DEF DisconnectDue
<1> HIDE DEF fired
<1> QED
  BY <1>1, <1>2, <1>3, Teardown

\* Disconnect() stops waiting for the event.
LEMMA DisconnectWaitOverSilent ==
    ASSUME IInv, DisconnectWaitOver
    PROVE  Silent(client, client') /\ UNCHANGED << events, alive >>
<1> DEFINE q == [client.q EXCEPT !.exitLoop = TRUE]
           gone == [client EXCEPT !.call = "done", !.q = q]
<1>1. Steady(client) /\ client \in ClientFields /\ Beating(client)
  BY DEF IInv, Steady
<1>2. /\ q \in Queues(Packets)
      /\ Owned(client.q) /\ Awake(client.q) => Owned(q) /\ Awake(q)
  BY <1>1 DEF ClientFields, Queues, Owned, Awake, Sendable
<1>3. gone = [client EXCEPT !.call = "done", !.q.exitLoop = TRUE]
  BY <1>1 DEF ClientFields
<1>4. /\ client' = IF client.state = "DISCONNECTED" THEN gone ELSE SetDisconnected(gone)
      /\ client.call = "waiting"
      /\ UNCHANGED << events, alive >>
  BY <1>3 DEF DisconnectWaitOver
<1> HIDE DEF q
<1>5. /\ Steady(gone) /\ gone.state = client.state /\ gone.socket = client.socket
      /\ gone.timers = client.timers
      /\ gone.heartbeatRunning = client.heartbeatRunning
  BY <1>1, <1>2 DEF Steady, ClientFields, ChannelHeld, GateTended, SocketTimed,
                    WaitJustified, SocketNull
<1> HIDE DEF gone
<1>6. CASE client.state = "DISCONNECTED"
  BY <1>1, <1>4, <1>5, <1>6, WithinPhase
<1>7. CASE client.state # "DISCONNECTED"
  <2>1. ~SocketNull(client)
    BY <1>1, <1>4, <1>7 DEF Steady, WaitJustified
  <2> QED
    BY <1>4, <1>5, <1>7, <2>1, Teardown DEF Steady
<1> QED
  BY <1>6, <1>7

----------------------------------------------------------------------------
\* Frames.

\* A CONNECT_RESPONSE with an error status ends the connection.
LEMMA ConnectResponseRefusedSilent ==
    ASSUME IInv, NEW leaves \in Listeners, ConnectResponseRefused(leaves)
    PROVE  Silent(client, client') /\ UNCHANGED << events, alive >>
<1> DEFINE fired == Expired("CONNECTION")
           told == Notify(fired, leaves)
<1>1. Steady(fired) /\ fired.socket = client.socket
  BY ExpiredSteady
<1>2. client' = SetDisconnected(told) /\ UNCHANGED << events, alive >>
  BY DEF ConnectResponseRefused
<1>3. ~SocketNull(client)
  BY DEF ConnectResponseRefused, AnswersConnect, Receiving, SocketNull
<1> HIDE DEF fired
<1>4. told \in ClientFields /\ (told.socket = client.socket \/ Reentrant)
  BY <1>1, NotifySteady DEF Steady
<1> HIDE DEF told
<1> QED
  BY <1>2, <1>3, <1>4, Teardown

\* A DISCONNECT_RESPONSE ends the connection, asked for or not.
LEMMA ReceiveDisconnectResponseSilent ==
    ASSUME IInv, NEW fromPeer \in BOOLEAN, NEW leaves \in Listeners,
           ReceiveDisconnectResponse(fromPeer, leaves)
    PROVE  Silent(client, client') /\ UNCHANGED << events, alive >>
<1> DEFINE heard == Heard(client, fromPeer)
           told == IF heard.state = "DISCONNECTING" THEN heard ELSE Notify(heard, leaves)
<1>1. Steady(heard) /\ heard.socket = client.socket
  BY HeardSteady DEF IInv
<1>2. client' = SetDisconnected(told) /\ UNCHANGED << events, alive >>
  BY DEF ReceiveDisconnectResponse
<1>3. ~SocketNull(client)
  BY DEF ReceiveDisconnectResponse, Receiving, SocketNull
<1> HIDE DEF heard
<1>4. told \in ClientFields /\ (told.socket = client.socket \/ Reentrant)
  BY <1>1, NotifySteady DEF Steady
<1> HIDE DEF told
<1> QED
  BY <1>2, <1>3, <1>4, Teardown

\* A DISCONNECT_REQUEST of the gateway is answered, and the end scheduled.
LEMMA ReceiveDisconnectRequestSilent ==
    ASSUME IInv, NEW channel \in Channels, NEW fromPeer \in BOOLEAN,
           ReceiveDisconnectRequest(channel, fromPeer)
    PROVE  Silent(client, client') /\ UNCHANGED << events, alive >>
<1> DEFINE heard == Heard(client, fromPeer)
           leaving == [heard EXCEPT !.state = "DISCONNECTING"]
           sent == SendPacket(leaving, "DISCONNECT_RESPONSE")
           ts == sent.timers \cup {"DISCONNECT"}
<1>1. /\ Steady(client) /\ client.channelID # NoChannel
      /\ client.socket = "open"
      /\ client' = [sent EXCEPT !.timers = ts] /\ UNCHANGED << events, alive >>
  BY TunnelClientAssumption DEF IInv, ReceiveDisconnectRequest, Receiving
<1>2. client.state \in {"CONNECTED", "DISCONNECTING"}
  BY <1>1 DEF Steady, ChannelHeld
<1>3. /\ Steady(heard) /\ heard.state = client.state /\ heard.socket = client.socket
      /\ heard.channelID = client.channelID
  BY <1>1, HeardSteady
<1> HIDE DEF heard
<1>4. /\ Steady(leaving) /\ leaving.state = "DISCONNECTING"
      /\ leaving.socket = client.socket
  BY <1>1, <1>2, <1>3 DEF Steady, ClientFields, ChannelHeld, GateTended, SocketTimed,
                          WaitJustified, SocketNull, States
<1> HIDE DEF leaving
<1>5. "DISCONNECT_RESPONSE" \in Kinds
  BY DEF Kinds
<1>6. /\ Steady(sent) /\ sent.state = "DISCONNECTING" /\ sent.socket = client.socket
  BY <1>4, <1>5, SendPacketSteady
<1> HIDE DEF sent
<1>7. ts \in SUBSET Timers /\ ~SocketNull(sent)
  BY <1>1, <1>6 DEF Steady, ClientFields, Timers, SocketNull
<1> HIDE DEF ts
<1>8. Steady(client') /\ client'.state = "DISCONNECTING" /\ client'.socket = client.socket
  BY <1>1, <1>6, <1>7, TimersSteady
<1> QED
  BY <1>1, <1>2, <1>8 DEF Silent, Beating, SocketNull

\* A TUNNELING_REQUEST is acknowledged.
LEMMA ReceiveTunnelingRequestSilent ==
    ASSUME IInv, NEW channel \in Channels, NEW fromPeer \in BOOLEAN,
           ReceiveTunnelingRequest(channel, fromPeer)
    PROVE  Silent(client, client') /\ UNCHANGED << events, alive >>
<1> DEFINE heard == Heard(client, fromPeer)
<1>1. /\ Steady(heard) /\ heard.state = client.state /\ heard.socket = client.socket
      /\ heard.heartbeatRunning = client.heartbeatRunning
      /\ "HEARTBEAT" \in client.timers <=> "HEARTBEAT" \in heard.timers
  BY HeardSteady DEF IInv
<1>2. client' = SendPacket(heard, "TUNNELING_ACK") /\ UNCHANGED << events, alive >>
  BY DEF ReceiveTunnelingRequest
<1>3. "TUNNELING_ACK" \in Kinds
  BY DEF Kinds
<1> HIDE DEF heard
<1>4. /\ Steady(client') /\ client'.state = client.state
      /\ client'.socket = client.socket
      /\ client'.heartbeatRunning = client.heartbeatRunning
      /\ client'.timers = heard.timers
  BY <1>1, <1>2, <1>3, SendPacketSteady
<1> QED
  BY <1>1, <1>2, <1>4, WithinPhase DEF IInv

\* A TUNNELING_ACK opens the gate.
LEMMA ReceiveTunnelingAckSilent ==
    ASSUME IInv, NEW channel \in Channels, NEW fromPeer \in BOOLEAN,
           ReceiveTunnelingAck(channel, fromPeer)
    PROVE  Silent(client, client') /\ UNCHANGED << events, alive >>
<1> DEFINE heard == Heard(client, fromPeer)
           q == IF SuppressAck THEN SetClearToSend(heard.q) ELSE AckReceived(heard.q)
<1>1. /\ Steady(heard) /\ heard.state = client.state /\ heard.socket = client.socket
      /\ heard.heartbeatRunning = client.heartbeatRunning
      /\ "HEARTBEAT" \in client.timers <=> "HEARTBEAT" \in heard.timers
  BY HeardSteady DEF IInv
<1>2. client' = [heard EXCEPT !.q = q] /\ UNCHANGED << events, alive >>
  BY DEF ReceiveTunnelingAck
<1> HIDE DEF heard
<1>3. Sound(q, Packets)
  <2>1. heard.q \in Queues(Packets)
    BY <1>1 DEF Steady, ClientFields
  <2> QED
    BY <2>1, SetClearToSendSound, AckReceivedSound, NoPacketIsNone
<1> HIDE DEF q
<1>4. /\ Steady(client') /\ client'.state = client.state
      /\ client'.socket = client.socket
      /\ client'.heartbeatRunning = client.heartbeatRunning
      /\ client'.timers = heard.timers
  BY <1>1, <1>2, <1>3, NewQueue DEF Sound
<1> QED
  BY <1>1, <1>2, <1>4, WithinPhase DEF IInv

\* A CONNECTIONSTATE_RESPONSE answers the heartbeat, or ends the connection.
LEMMA ReceiveConnectionStateSilent ==
    ASSUME IInv, NEW ok \in BOOLEAN, NEW fromPeer \in BOOLEAN,
           NEW leaves \in Listeners, ReceiveConnectionState(ok, fromPeer, leaves)
    PROVE  Silent(client, client') /\ UNCHANGED << events, alive >>
<1> DEFINE heard == Heard(client, fromPeer)
           fewer == [heard EXCEPT !.timers = @ \ {"CONNECTION_STATE"}]
           forgiven == [fewer EXCEPT !.heartbeatFailures = 0]
           told == Notify(heard, leaves)
<1>1. /\ Steady(heard) /\ heard.state = client.state /\ heard.socket = client.socket
      /\ heard.heartbeatRunning = client.heartbeatRunning
      /\ "HEARTBEAT" \in client.timers <=> "HEARTBEAT" \in heard.timers
      /\ heard \in ClientFields
  BY HeardSteady DEF IInv, Steady
<1>2. ~SocketNull(client) /\ UNCHANGED << events, alive >>
  BY DEF ReceiveConnectionState, Receiving, SocketNull
<1>3. CASE ok
  <2>1. client' = [heard EXCEPT !.timers = @ \ {"CONNECTION_STATE"},
                                !.heartbeatFailures = 0]
    BY <1>3 DEF ReceiveConnectionState
  <2> HIDE DEF heard
  <2>2. client' = forgiven
    BY <1>1, <2>1 DEF ClientFields
  <2>3. heard.timers \ {"CONNECTION_STATE"} \in SUBSET Timers
    BY <1>1 DEF ClientFields
  <2>4. /\ Steady(fewer) /\ fewer.state = client.state /\ fewer.socket = client.socket
        /\ fewer.heartbeatRunning = client.heartbeatRunning
        /\ fewer.timers = heard.timers \ {"CONNECTION_STATE"}
    BY <1>1, <2>3, TimersSteady
  <2>5. 0 \in 0 .. MaxHeartbeatFailures - 1
    BY DEF MaxHeartbeatFailures
  <2> HIDE DEF fewer
  <2>6. /\ Steady(client') /\ client'.state = client.state
        /\ client'.socket = client.socket /\ client'.timers = fewer.timers
        /\ client'.heartbeatRunning = client.heartbeatRunning
    BY <2>2, <2>4, <2>5, FailuresSteady
  <2> QED
    BY <1>1, <1>2, <2>4, <2>6, WithinPhase DEF IInv
<1>4. CASE ~ok
  <2>1. client' = SetDisconnected(told)
    BY <1>4 DEF ReceiveConnectionState
  <2> HIDE DEF heard
  <2>2. told \in ClientFields /\ (told.socket = client.socket \/ Reentrant)
    BY <1>1, NotifySteady DEF Steady
  <2> HIDE DEF told
  <2> QED
    BY <1>2, <2>1, <2>2, Teardown
<1> QED
  BY <1>3, <1>4

\* Any other frame is heard.
LEMMA ReceiveOtherSilent ==
    ASSUME IInv, ReceiveOther
    PROVE  Silent(client, client') /\ UNCHANGED << events, alive >>
BY HeardSteady, WithinPhase DEF IInv, ReceiveOther

\* The gateway dies.
LEMMA GatewayDiesSilent ==
    ASSUME IInv, GatewayDies
    PROVE  Silent(client, client') /\ events' = events /\ alive' \in BOOLEAN
BY DEF IInv, GatewayDies, Silent

----------------------------------------------------------------------------
\* The three steps that emit an event.

\* Connect(): the listeners of the connecting event may end it at once.
LEMMA ConnectStep ==
    ASSUME IInv, NEW leaves \in Listeners, Connect(leaves)
    PROVE  /\ Steady(client') /\ Beating(client')
           /\ client.state = "DISCONNECTED" /\ ~SocketNull(client)
           /\ client'.socket # "closed"
           /\ SocketNull(client') \/ client'.state = "CONNECTING"
           /\ events' = Append(events, "connecting") /\ alive' = alive
<1> DEFINE reset == [client EXCEPT !.state = "CONNECTING", !.q.failed = 0,
                                   !.timers = @ \ {"CONNECTION"}]
           opened == OpenGate(reset)
           told == Notify(opened, leaves)
           q == SetClearToSend([client.q EXCEPT !.failed = 0])
<1>1. /\ client \in ClientFields /\ Steady(client) /\ ~SocketNull(client)
      /\ client.state = "DISCONNECTED" /\ client.channelID = NoChannel
      /\ client.call # "waiting" /\ client.socket \in {"binding", "open"}
  BY DEF IInv, Steady, ChannelHeld, WaitJustified, SocketNull, Connect, ClientFields
<1>2. Sound(q, Packets)
  <2>1. [client.q EXCEPT !.failed = 0] \in Queues(Packets)
    BY <1>1 DEF ClientFields, Queues, MaxFailedACK
  <2> QED
    BY <2>1, SetClearToSendSound, NoPacketIsNone
<1>3. opened = [client EXCEPT !.state = "CONNECTING", !.q = q,
                              !.timers = @ \ {"CONNECTION"}]
  BY <1>1 DEF OpenGate, ClientFields
<1> HIDE DEF q, opened
<1>4. /\ Steady(opened) /\ opened.state = "CONNECTING"
      /\ opened.socket = client.socket /\ opened.channelID = NoChannel
  <2>1. opened \in ClientFields
    BY <1>1, <1>2, <1>3 DEF ClientFields, Sound, States
  <2>2. /\ opened.state = "CONNECTING" /\ opened.q = q /\ opened.call = client.call
        /\ opened.socket = client.socket /\ opened.channelID = NoChannel
    BY <1>1, <1>3 DEF ClientFields
  <2> QED
    BY <1>1, <1>2, <2>1, <2>2 DEF Steady, ChannelHeld, GateTended, SocketTimed,
                                  WaitJustified, SocketNull, Sound
<1>5. /\ Steady(told) /\ told.channelID = NoChannel
      /\ \/ told.state = "CONNECTING" /\ told.socket = client.socket
         \/ told.state = "DISCONNECTING" /\ told.socket = "closing"
  BY <1>4, NotifySteady
<1>6. /\ client' = [told EXCEPT !.awaiting = "CONNECT_RESPONSE", !.seq = -1,
                                !.timers = @ \cup {"CONNECTION", "CONNECT_REQUEST"}]
      /\ events' = Append(events, "connecting") /\ alive' = alive
  BY DEF Connect, opened
<1> HIDE DEF told
<1>7. told \in ClientFields /\ -1 \in -1 .. MaxWrites - 1
  BY <1>5, TunnelClientAssumption DEF Steady
<1>8. client' \in ClientFields
  <2>1. told.timers \cup {"CONNECTION", "CONNECT_REQUEST"} \in SUBSET Timers
    BY <1>7 DEF ClientFields, Timers
  <2> QED
    BY <1>6, <1>7, <2>1 DEF ClientFields, ResponseTypes
<1>9. /\ client'.state = told.state /\ client'.socket = told.socket
      /\ client'.channelID = told.channelID /\ client'.q = told.q
      /\ client'.call = told.call
      /\ client'.timers = told.timers \cup {"CONNECTION", "CONNECT_REQUEST"}
  BY <1>6, <1>7 DEF ClientFields
<1>10. Steady(client')
  BY <1>5, <1>8, <1>9 DEF Steady, ChannelHeld, GateTended, SocketTimed, WaitJustified,
                          SocketNull
<1> QED
  BY <1>1, <1>5, <1>6, <1>9, <1>10 DEF Beating, SocketNull

\* A CONNECT_RESPONSE gives the channel: the listeners of the connected event
\* may leave at once, and the heartbeat starts all the same.
LEMMA ConnectResponseAcceptedStep ==
    ASSUME IInv, NEW channel \in Channels, NEW leaves \in Listeners,
           ConnectResponseAccepted(channel, leaves)
    PROVE  /\ Steady(client') /\ Beating(client')
           /\ client.state = "CONNECTING" /\ ~SocketNull(client)
           /\ ~SocketNull(client')
           /\ client'.state \in {"CONNECTED", "DISCONNECTING"}
           /\ events' = Append(events, "connected") /\ alive' = alive
<1> DEFINE connected == [Expired("CONNECTION") EXCEPT
                             !.state = "CONNECTED", !.channelID = channel,
                             !.q = SetClearToSend([ClearAckTimer(@) EXCEPT !.failed = 0])]
           told == Notify(connected, leaves)
           q == AckReceived(client.q)
<1>1. /\ client \in ClientFields /\ Steady(client) /\ client.socket = "open"
      /\ client.state = "CONNECTING" /\ channel # NoChannel
      /\ client.call # "waiting"
  BY TunnelClientAssumption
     DEF IInv, Steady, WaitJustified, ConnectResponseAccepted, AnswersConnect, Receiving
<1>2. Sound(q, Packets)
  BY <1>1, AckReceivedSound, NoPacketIsNone DEF ClientFields
<1>3. connected = [client EXCEPT !.timers = @ \ {"CONNECTION"}, !.state = "CONNECTED",
                                 !.channelID = channel, !.q = q]
  BY <1>1 DEF Expired, AckReceived, ClientFields
<1>4. /\ client' = IF SniffingMode THEN told ELSE StartHeartBeat(told)
      /\ events' = Append(events, "connected") /\ alive' = alive
  BY DEF ConnectResponseAccepted
<1> HIDE DEF q, connected
<1>5. /\ Steady(connected) /\ connected.state = "CONNECTED"
      /\ connected.socket = "open" /\ connected.channelID # NoChannel
  <2>1. connected \in ClientFields
    BY <1>1, <1>2, <1>3 DEF ClientFields, Sound, States
  <2>2. /\ connected.state = "CONNECTED" /\ connected.q = q
        /\ connected.call = client.call /\ connected.socket = "open"
        /\ connected.channelID = channel
    BY <1>1, <1>3 DEF ClientFields
  <2> QED
    BY <1>1, <1>2, <2>1, <2>2 DEF Steady, ChannelHeld, GateTended, SocketTimed,
                                  WaitJustified, SocketNull, Sound
<1>6. /\ Steady(told) /\ told.socket = "open"
      /\ told.state \in {"CONNECTED", "DISCONNECTING"}
  BY <1>5, NotifySteady
<1> HIDE DEF told
<1>7. ~SocketNull(told)
  BY <1>6 DEF SocketNull
<1>8. /\ Steady(client') /\ client'.socket = "open" /\ client'.state = told.state
      /\ ~SniffingMode => client'.heartbeatRunning /\ "HEARTBEAT" \in client'.timers
  BY <1>4, <1>6, <1>7, StartHeartBeatSteady
<1> QED
  BY <1>1, <1>4, <1>6, <1>8 DEF Beating, SocketNull

\* The close callback: disconnected, if setDisconnected() awaits it.
LEMMA SocketClosedStep ==
    ASSUME IInv, SocketClosed
    PROVE  /\ Steady(client') /\ Beating(client')
           /\ client.socket = "closing" /\ client'.socket = "closed"
           /\ client'.state = client.state
           /\ events' = events \/ events' = Append(events, "disconnected")
           /\ alive' = alive
<1> DEFINE ended == [client EXCEPT !.socket = "closed",
                         !.call = IF @ = "none" THEN @ ELSE "done"]
<1>1. /\ client \in ClientFields /\ Steady(client) /\ client.socket = "closing"
  BY DEF IInv, Steady, SocketClosed
<1>2. /\ client' = ended \/ client' = OpenGate(ended)
      /\ events' = events \/ events' = Append(events, "disconnected")
      /\ alive' = alive
  BY DEF SocketClosed
<1>3. /\ Steady(ended) /\ ended.socket = "closed" /\ ended.state = client.state
      /\ ended.channelID = client.channelID
  BY <1>1 DEF Steady, ClientFields, ChannelHeld, GateTended, SocketTimed,
              WaitJustified, SocketNull
<1> HIDE DEF ended
<1>4. /\ Steady(client') /\ client'.socket = "closed" /\ client'.state = client.state
  BY <1>2, <1>3, OpenGateSteady
<1>5. client'.state # "CONNECTED"
  BY <1>4 DEF Steady, ChannelHeld, SocketNull
<1> QED
  BY <1>1, <1>2, <1>4, <1>5 DEF Beating

----------------------------------------------------------------------------
\* The invariant.

\* What the facts of the last sections come to: a step is silent, or one of the
\* three that emit an event.
Begins ==
    /\ client.state = "DISCONNECTED" /\ ~SocketNull(client)
    /\ SocketNull(client') \/ client'.state = "CONNECTING"
    /\ client'.socket # "closed"
    /\ events' = Append(events, "connecting")
Succeeds ==
    /\ client.state = "CONNECTING" /\ ~SocketNull(client)
    /\ ~SocketNull(client') /\ client'.state \in {"CONNECTED", "DISCONNECTING"}
    /\ events' = Append(events, "connected")
Ends ==
    /\ client.socket = "closing" /\ client'.socket = "closed"
    /\ client'.state = client.state
    /\ events' = events \/ events' = Append(events, "disconnected")

\* Every step of the client is one of the four.
LEMMA NextCases ==
    ASSUME IInv, Next
    PROVE  /\ Steady(client') /\ Beating(client') /\ alive' \in BOOLEAN
           /\ \/ Silent(client, client') /\ events' = events
              \/ Begins
              \/ Succeeds
              \/ Ends
<1> DEFINE Goal == /\ Steady(client') /\ Beating(client') /\ alive' \in BOOLEAN
                   /\ \/ Silent(client, client') /\ events' = events
                      \/ Begins
                      \/ Succeeds
                      \/ Ends
           Quiet == Silent(client, client') /\ UNCHANGED << events, alive >>
<1>1. Quiet => Goal
  BY DEF IInv, Silent
<1>2. ASSUME NEW leaves \in Listeners, Connect(leaves)
      PROVE  Goal
  BY <1>2, ConnectStep DEF IInv, Begins
<1>3. CASE SocketClosed
  BY <1>3, SocketClosedStep DEF IInv, Ends
<1>4. ASSUME Write \/ CallDisconnect \/ Listening \/ SendDone \/ Pace \/ SocketError
      PROVE  Quiet
  BY <1>4, WriteSilent, CallDisconnectSilent, ListeningSilent, SendDoneSilent,
     PaceSilent, SocketErrorSilent
<1>5. ASSUME TimerFires
      PROVE  Quiet
  <2>1. ASSUME NEW leaves \in Listeners,
               ConnectionTimeout(leaves) \/ ConnectionStateTimeout(leaves)
        PROVE  Quiet
    BY <2>1, ConnectionTimeoutSilent, ConnectionStateTimeoutSilent
  <2> QED
    BY <1>5, <2>1, AckTimeoutSilent, ConnectRequestDueSilent, HeartbeatDueSilent,
       DisconnectDueSilent, DisconnectWaitOverSilent DEF TimerFires
<1>6. ASSUME Receive
      PROVE  Goal
  <2>1. PICK fromPeer \in BOOLEAN, leaves \in Listeners :
            \/ ConnectResponseRefused(leaves)
            \/ ReceiveDisconnectResponse(fromPeer, leaves)
            \/ \E ok \in BOOLEAN : ReceiveConnectionState(ok, fromPeer, leaves)
            \/ ReceiveOther
            \/ \E channel \in Channels :
                  \/ ConnectResponseAccepted(channel, leaves)
                  \/ ReceiveDisconnectRequest(channel, fromPeer)
                  \/ ReceiveTunnelingRequest(channel, fromPeer)
                  \/ ReceiveTunnelingAck(channel, fromPeer)
    BY <1>6 DEF Receive
  <2>2. ASSUME NEW ok \in BOOLEAN, ReceiveConnectionState(ok, fromPeer, leaves)
        PROVE  Quiet
    BY <2>2, ReceiveConnectionStateSilent
  <2>3. ASSUME NEW channel \in Channels, ConnectResponseAccepted(channel, leaves)
        PROVE  Goal
    BY <2>3, ConnectResponseAcceptedStep DEF IInv, Succeeds
  <2>4. ASSUME NEW channel \in Channels,
               \/ ReceiveDisconnectRequest(channel, fromPeer)
               \/ ReceiveTunnelingRequest(channel, fromPeer)
               \/ ReceiveTunnelingAck(channel, fromPeer)
        PROVE  Quiet
    BY <2>4, ReceiveDisconnectRequestSilent, ReceiveTunnelingRequestSilent,
       ReceiveTunnelingAckSilent
  <2>5. ASSUME \/ ConnectResponseRefused(leaves)
               \/ ReceiveDisconnectResponse(fromPeer, leaves)
               \/ ReceiveOther
        PROVE  Quiet
    BY <2>5, ConnectResponseRefusedSilent, ReceiveDisconnectResponseSilent,
       ReceiveOtherSilent
  <2> HIDE DEF Goal, Quiet
  <2> QED
    BY <1>1, <2>1, <2>2, <2>3, <2>4, <2>5
<1>7. CASE GatewayDies
  BY <1>7, GatewayDiesSilent DEF IInv, Silent
<1>8. CASE \E leaves \in Listeners : Connect(leaves)
  BY <1>2, <1>8
<1>9. CASE Write \/ CallDisconnect \/ Listening \/ SendDone \/ Pace \/ SocketError
              \/ TimerFires
  BY <1>1, <1>4, <1>5, <1>9
<1>10. Goal
  BY <1>3, <1>6, <1>7, <1>8, <1>9 DEF Next
<1> QED
  BY <1>10 DEF Goal

\* An event other than disconnected does not make it seen.
LEMMA SeenAppend ==
    ASSUME NEW s \in Seq(Events), NEW e \in Events \ {"disconnected"},
           ~ \E i \in DOMAIN s : s[i] = "disconnected"
    PROVE  ~ \E i \in DOMAIN Append(s, e) : Append(s, e)[i] = "disconnected"
<1> SUFFICES ASSUME NEW i \in DOMAIN Append(s, e)
             PROVE  Append(s, e)[i] # "disconnected"
  OBVIOUS
<1>1. \/ i \in DOMAIN s /\ Append(s, e)[i] = s[i]
      \/ Append(s, e)[i] = e
  OBVIOUS
<1> QED
  BY <1>1

\* The initial state satisfies the invariant.
LEMMA InitIInv == Init => IInv
<1> SUFFICES ASSUME Init
             PROVE  IInv
  OBVIOUS
<1> DEFINE q == [EmptyQueue EXCEPT !.clearToSend = FALSE, !.socketReady = FALSE]
<1>1. q \in Queues(Packets)
  <2>1. << >> \in Seq(ItemsOf(Packets))
    OBVIOUS
  <2>2. QueueItem(NoPacket, FALSE, -1) \in ItemsOf(Packets \cup {NoPacket})
    BY DEF QueueItem, ItemsOf
  <2>3. 0 \in 0 .. MaxFailedACK
    BY DEF MaxFailedACK
  <2> QED
    BY <2>1, <2>2, <2>3 DEF EmptyQueue, Queues
<1> HIDE DEF q
<1>2. client = [state |-> "DISCONNECTED", channelID |-> NoChannel,
                seq |-> -1, timers |-> {}, awaiting |-> "none",
                heartbeatFailures |-> 0, heartbeatRunning |-> FALSE, q |-> q,
                socket |-> "binding", closer |-> "none", call |-> "none"]
  BY DEF Init, q
<1>3. -1 \in -1 .. MaxWrites - 1 /\ 0 \in 0 .. MaxHeartbeatFailures - 1
  BY TunnelClientAssumption DEF MaxHeartbeatFailures
<1>4. client \in ClientFields
  BY <1>1, <1>2, <1>3 DEF ClientFields, States, Timers, ResponseTypes
<1>5. Steady(client) /\ Beating(client)
  BY <1>2, <1>4 DEF Steady, ChannelHeld, GateTended, SocketTimed, WaitJustified,
                    SocketNull, Beating
<1>6. events = << >> /\ events \in Seq(Events) /\ alive \in BOOLEAN
  BY DEF Init
<1>7. ~Promise!Seen("disconnected")
  BY <1>6 DEF Promise!Seen
<1> QED
  BY <1>5, <1>6, <1>7 DEF IInv

\* Every step preserves the invariant.
LEMMA NextIInv == IInv /\ [Next]_vars => IInv'
<1> SUFFICES ASSUME IInv, [Next]_vars
             PROVE  IInv'
  OBVIOUS
<1>1. CASE UNCHANGED vars
  BY <1>1 DEF vars, IInv, Promise!Seen
<1>2. CASE Next
  <2>1. /\ Steady(client') /\ Beating(client') /\ alive' \in BOOLEAN
        /\ \/ Silent(client, client') /\ events' = events
           \/ Begins
           \/ Succeeds
           \/ Ends
    BY <1>2, NextCases
  <2>2. /\ events \in Seq(Events)
        /\ client.socket # "closed" => ~Promise!Seen("disconnected")
    BY DEF IInv
  <2>3. events' \in Seq(Events)
    BY <2>1, <2>2 DEF Begins, Succeeds, Ends, Events
  <2>4. ASSUME client'.socket # "closed"
        PROVE  ~Promise!Seen("disconnected")'
    <3>1. CASE Silent(client, client') /\ events' = events
      BY <2>2, <2>4, <3>1 DEF Silent, Promise!Seen
    <3>2. CASE Begins \/ Succeeds
      <4>1. PICK e \in Events \ {"disconnected"} : events' = Append(events, e)
        BY <3>2 DEF Begins, Succeeds, Events
      <4>2. client.socket # "closed"
        BY <3>2 DEF Begins, Succeeds, SocketNull
      <4> QED
        BY <2>2, <4>1, <4>2, SeenAppend DEF Promise!Seen
    <3> QED
      BY <2>1, <2>4, <3>1, <3>2 DEF Ends
  <2> QED
    BY <2>1, <2>3, <2>4 DEF IInv
<1> QED
  BY <1>1, <1>2

\* The invariant holds in every state of every behaviour.
THEOREM InductiveInvariant == Spec => []IInv
BY InitIInv, NextIInv, PTL DEF Spec

----------------------------------------------------------------------------
\* The invariants of the module follow.

\* Every state has its type.
THEOREM TypeCorrect == Spec => []TypeOK
<1>1. IInv => TypeOK
  <2>1. -1 .. MaxWrites - 1 \subseteq Int
    BY TunnelClientAssumption
  <2> QED
    BY <2>1 DEF IInv, Steady, ClientFields, TypeOK, Events
<1> QED
  BY <1>1, InductiveInvariant, PTL

\* README.md: the channel id is there exactly while frames are sent for it.
THEOREM ChannelIsHeld == Spec => []ChannelWhileConnected
<1>1. IInv => ChannelWhileConnected
  BY DEF IInv, Steady, ChannelHeld, ChannelWhileConnected
<1> QED
  BY <1>1, InductiveInvariant, PTL

\* While connected a closed gate has its timer, and no wake-up is lost.
THEOREM QueueStaysAlive == Spec => []QueueAlive
<1>1. IInv => QueueAlive
  BY DEF IInv, Steady, GateTended, QueueAlive
<1> QED
  BY <1>1, InductiveInvariant, PTL

\* A connected client always has its next heartbeat scheduled.
THEOREM HeartbeatIsScheduled == Spec => []HeartbeatScheduled
<1>1. IInv => HeartbeatScheduled
  BY DEF IInv, Beating, HeartbeatScheduled
<1> QED
  BY <1>1, InductiveInvariant, PTL

\* A timer that needs a socket, when it fires, finds it.
THEOREM TimersAlwaysHaveSocket == Spec => []TimersHaveSocket
<1>1. IInv => TimersHaveSocket
  BY DEF IInv, Steady, SocketTimed, TimersHaveSocket
<1> QED
  BY <1>1, InductiveInvariant, PTL

\* setDisconnected() finds a socket to close whenever it is entered, provided
\* that no listener calls Disconnect() from inside an event.
THEOREM TeardownsClose ==
    ASSUME ~Reentrant
    PROVE  Spec => EachTeardownCloses
<1>1. ASSUME IInv, [Next]_vars
      PROVE  [client.state # "DISCONNECTED" /\ client'.state = "DISCONNECTED"
                => client'.closer = "setDisconnected"]_vars
  <2>1. CASE UNCHANGED vars
    BY <2>1
  <2>2. CASE Next
    BY <1>1, <2>2, NextCases DEF Silent, Begins, Succeeds, Ends, SocketNull, IInv,
       Steady, ClientFields
  <2> QED
    BY <1>1, <2>1, <2>2
<1> QED
  BY <1>1, InductiveInvariant, PTL DEF Spec, EachTeardownCloses

----------------------------------------------------------------------------
\* The client implements ConnectionLifecycle.

\* A client is in one of the phases of the abstract specification.
LEMMA PhaseOfState ==
    ASSUME IInv
    PROVE  /\ SocketNull(client) => Phase = "closed"
           /\ ~SocketNull(client) =>
                 /\ client.state = "DISCONNECTED" <=> Phase = "fresh"
                 /\ client.state = "CONNECTING" <=> Phase = "connecting"
                 /\ client.state = "CONNECTED" <=> Phase = "connected"
                 /\ client.state = "DISCONNECTING" <=> Phase = "leaving"
                 /\ Phase # "closed"
<1>1. client.state \in States
  BY DEF IInv, Steady, ClientFields
<1> QED
  BY <1>1 DEF Phase, States

\* A step that emits nothing is a Leave, a Close or a stutter.
LEMMA SilentSimulated ==
    ASSUME IInv, IInv', Silent(client, client'), events' = events
    PROVE  Promise!Next \/ UNCHANGED Promise!lifecycle
<1>1. CASE SocketNull(client')
  <2>1. Phase' = "closed"
    BY <1>1, PhaseOfState DEF Phase, SocketNull
  <2>2. CASE Phase = "closed"
    BY <2>1, <2>2 DEF Promise!lifecycle
  <2>3. CASE Phase # "closed"
    BY <2>1, <2>3 DEF Promise!Next, Promise!Close
  <2> QED
    BY <2>2, <2>3
<1>2. CASE ~SocketNull(client')
  <2>1. ~SocketNull(client)
    BY <1>2 DEF Silent
  <2>2. CASE client'.state = client.state
    <3>1. client.socket \notin {"closing", "closed"}
          /\ client'.socket \notin {"closing", "closed"}
      BY <1>2, <2>1 DEF SocketNull
    <3>2. client.state \in States
      BY DEF IInv, Steady, ClientFields
    <3>3. Phase' = Phase
      BY <2>2, <3>1, <3>2 DEF Phase, SocketNull, States
    <3> QED
      BY <3>3 DEF Promise!lifecycle
  <2>3. CASE client.state = "CONNECTED" /\ client'.state = "DISCONNECTING"
    <3>1. Phase = "connected" /\ Phase' = "leaving"
      BY <1>2, <2>1, <2>3 DEF Phase, SocketNull
    <3> QED
      BY <3>1 DEF Promise!Next, Promise!Leave
  <2> QED
    BY <1>2, <2>2, <2>3 DEF Silent
<1> QED
  BY <1>1, <1>2

\* Connect() is a Connect of the abstract specification, an accepted one an
\* Establish, the close callback a Farewell or a stutter.
LEMMA EventsSimulated ==
    ASSUME IInv, Begins \/ Succeeds \/ Ends
    PROVE  Promise!Next \/ UNCHANGED Promise!lifecycle
<1>1. CASE Begins
  <2>1. Phase = "fresh" /\ Phase' \in {"connecting", "closed"}
    BY <1>1 DEF Begins, Phase, SocketNull
  <2> QED
    BY <1>1, <2>1 DEF Begins, Promise!Next, Promise!Connect
<1>2. CASE Succeeds
  <2>1. Phase = "connecting" /\ Phase' \in {"connected", "leaving"}
    BY <1>2 DEF Succeeds, Phase, SocketNull
  <2> QED
    BY <1>2, <2>1 DEF Succeeds, Promise!Next, Promise!Establish
<1>3. CASE Ends
  <2>1. Phase = "closed" /\ Phase' = "closed"
    BY <1>3 DEF Ends, Phase, SocketNull
  <2>2. ~Promise!Seen("disconnected")
    BY <1>3 DEF Ends, IInv
  <2> QED
    BY <1>3, <2>1, <2>2 DEF Ends, Promise!Next, Promise!Farewell, Promise!lifecycle
<1> QED
  BY <1>1, <1>2, <1>3

\* Every behaviour of the client is one of the abstract specification: the
\* stages are passed in their order, and the events tell the same story.
THEOREM ImplementsLifecycle == Spec => Lifecycle
<1>1. Init => Promise!Init
  BY DEF Init, Promise!Init, Phase, SocketNull
<1>2. ASSUME IInv, IInv', [Next]_vars
      PROVE  [Promise!Next]_(Promise!lifecycle)
  <2>1. CASE UNCHANGED vars
    BY <2>1 DEF vars, Promise!lifecycle, Phase, SocketNull
  <2>2. CASE Next
    BY <1>2, <2>2, NextCases, SilentSimulated, EventsSimulated
  <2> QED
    BY <1>2, <2>1, <2>2
<1> QED
  BY <1>1, <1>2, InductiveInvariant, PTL DEF Spec, Lifecycle, Promise!Spec
=============================================================================
