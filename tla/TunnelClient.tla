----------------------------- MODULE TunnelClient -----------------------------
(***************************************************************************)
(* The life of a KNXClient with hostProtocol TunnelUDP: createSocket,      *)
(* Connect, the handlers of processInboundMessage, the timers, heartbeat,  *)
(* Disconnect, setDisconnected and closeSocket, over the queue of module   *)
(* SendQueue.                                                              *)
(*                                                                         *)
(* The fields of the client are one record, and a method is an operator    *)
(* from client to client: a handler calls several of them, and listeners   *)
(* of the events it emits may call Disconnect() before it returns.         *)
(***************************************************************************)
EXTENDS SendQueue, FiniteSets

CONSTANTS
    Channels,      \* the channel ids a gateway assigns
    NoChannel,     \* null
    SniffingMode,  \* option sniffingMode: no heartbeat
    SuppressAck,   \* option suppress_ack_ldatareq
    Reentrant,     \* listeners of the client's events may call Disconnect()
    MaxWrites,     \* bound: telegrams the application writes
    MaxQueue       \* bound: items in the queue when traffic, or the heartbeat
                   \* of a gateway that answers, adds one more

ASSUME TunnelClientAssumption ==
    /\ NoChannel \notin Channels
    /\ SniffingMode \in BOOLEAN
    /\ SuppressAck \in BOOLEAN
    /\ Reentrant \in BOOLEAN
    /\ MaxWrites \in Nat
    /\ MaxQueue \in Nat

VARIABLES
    client,   \* the fields of the KNXClient instance
    events,   \* history: connecting, connected and disconnected, as emitted
    alive     \* the gateway still sends frames

vars == << client, events, alive >>

States == {"DISCONNECTED", "CONNECTING", "CONNECTED", "DISCONNECTING"}
\* The entries of the timers map; the ACK timer is the queue's ackTimer.
Timers == {"CONNECTION", "CONNECT_REQUEST", "CONNECTION_STATE", "HEARTBEAT",
           "DISCONNECT"}
ResponseTypes == {"none", "CONNECT_RESPONSE", "CONNECTIONSTATE_RESPONSE",
                  "DISCONNECT_RESPONSE"}
MaxHeartbeatFailures == 3

\* Fields that are not the code's: socket is the stage of _clientSocket, null
\* once closing; closer is the caller whose await of closeSocket() its close
\* callback ends; call is the progress of the one call of Disconnect() that
\* does not throw.
Init ==
    /\ client = [state |-> "DISCONNECTED", channelID |-> NoChannel,
                 seq |-> -1, timers |-> {}, awaiting |-> "none",
                 heartbeatFailures |-> 0, heartbeatRunning |-> FALSE,
                 q |-> [EmptyQueue EXCEPT !.clearToSend = FALSE,
                                          !.socketReady = FALSE],
                 socket |-> "binding", closer |-> "none", call |-> "none"]
    /\ events = << >>
    /\ alive = TRUE

SocketNull(c) == c.socket \in {"closing", "closed"}

----------------------------------------------------------------------------
\* Methods.

SendPacket(c, kind) ==
    [c EXCEPT !.q = SendFirst(@, QueueItem(Control(kind), FALSE, c.seq))]

OpenGate(c) == [c EXCEPT !.q = SetClearToSend(@)]

StopHeartBeat(c) ==
    [c EXCEPT !.heartbeatRunning = FALSE,
              !.timers = @ \ {"HEARTBEAT", "CONNECTION_STATE"}]

\* Mutation: only the heartbeat and the ACK timer are stopped.
ClearSomeTimers(c) == [StopHeartBeat(c) EXCEPT !.q = ClearAckTimer(@)]

ClearAllTimers(c) == [StopHeartBeat(c) EXCEPT !.timers = {}, !.q = ClearAckTimer(@)]

\* Mutation: nothing to close once the queue loop was told to exit.
CloseSocketOnce(c, caller) ==
    IF SocketNull(c) \/ c.q.exitLoop THEN c
    ELSE [c EXCEPT !.q.exitLoop = TRUE, !.q.socketReady = FALSE,
                   !.socket = "closing", !.closer = caller]

\* The promise closeSocket() returns is settled by the close callback, for the
\* first caller; with _clientSocket already null it never is.
CloseSocket(c, caller) ==
    IF SocketNull(c)
    THEN [c EXCEPT !.q.exitLoop = TRUE]
    ELSE [c EXCEPT !.q.exitLoop = TRUE, !.q.socketReady = FALSE,
                   !.socket = "closing", !.closer = caller]

\* Mutations: the channel id survives; the socket survives.
SetDisconnectedKeepsChannel(c) ==
    CloseSocket([ClearAllTimers(c) EXCEPT !.state = "DISCONNECTED", !.seq = -1],
                "setDisconnected")
SetDisconnectedKeepsSocket(c) ==
    [ClearAllTimers(c) EXCEPT !.state = "DISCONNECTED", !.seq = -1,
                              !.channelID = NoChannel]

\* setDisconnected() up to its await.
SetDisconnected(c) ==
    CloseSocket([ClearAllTimers(c) EXCEPT !.state = "DISCONNECTED",
                                          !.seq = -1,
                                          !.channelID = NoChannel],
                "setDisconnected")

\* Disconnect() up to its await; in the other states it throws.
MayDisconnect(c) == ~SocketNull(c) /\ c.state # "DISCONNECTING"

\* Mutation: the socket is closed behind the request, the answer not awaited.
DisconnectAtOnce(c) ==
    CloseSocket([SendPacket(ClearAllTimers(c), "DISCONNECT_REQUEST")
                 EXCEPT !.state = "DISCONNECTING", !.call = "waiting"],
                "Disconnect")

Disconnect(c) ==
    LET leaving == [ClearAllTimers(c) EXCEPT !.state = "DISCONNECTING"]
    IN  IF c.channelID = NoChannel
        THEN [CloseSocket(leaving, "Disconnect") EXCEPT !.call = "closing"]
        ELSE SendPacket([leaving EXCEPT !.awaiting = "DISCONNECT_RESPONSE",
                                        !.call = "waiting"],
                        "DISCONNECT_REQUEST")

\* An event is emitted; a listener may call Disconnect() from it.
Listeners == IF Reentrant THEN BOOLEAN ELSE {FALSE}
Notify(c, leaves) == IF leaves /\ MayDisconnect(c) THEN Disconnect(c) ELSE c

\* Mutations: the next heartbeat is not scheduled; each one forgets the misses.
RunHeartbeatOnce(c) ==
    IF ~c.heartbeatRunning THEN c
    ELSE SendPacket([c EXCEPT !.timers = @ \cup {"CONNECTION_STATE"},
                              !.awaiting = "CONNECTIONSTATE_RESPONSE"],
                    "CONNECTIONSTATE_REQUEST")
RunHeartbeatForgets(c) ==
    IF ~c.heartbeatRunning THEN c
    ELSE [SendPacket([c EXCEPT !.timers = @ \cup {"CONNECTION_STATE"},
                               !.awaiting = "CONNECTIONSTATE_RESPONSE"],
                     "CONNECTIONSTATE_REQUEST")
          EXCEPT !.timers = @ \cup {"HEARTBEAT"}, !.heartbeatFailures = 0]

RunHeartbeat(c) ==
    IF ~c.heartbeatRunning THEN c
    ELSE [SendPacket([c EXCEPT !.timers = @ \cup {"CONNECTION_STATE"},
                               !.awaiting = "CONNECTIONSTATE_RESPONSE"],
                     "CONNECTIONSTATE_REQUEST")
          EXCEPT !.timers = @ \cup {"HEARTBEAT"}]

StartHeartBeat(c) ==
    RunHeartbeat([StopHeartBeat(c) EXCEPT !.heartbeatFailures = 0,
                                          !.heartbeatRunning = TRUE])

----------------------------------------------------------------------------
\* The application.

Connect(leaves) ==
    /\ ~SocketNull(client)
    /\ client.state = "DISCONNECTED"
    /\ LET reset == [client EXCEPT !.state = "CONNECTING", !.q.failed = 0,
                                   !.timers = @ \ {"CONNECTION"}]
       IN  client' = [Notify(OpenGate(reset), leaves)
                      EXCEPT !.awaiting = "CONNECT_RESPONSE", !.seq = -1,
                             !.timers = @ \cup {"CONNECTION", "CONNECT_REQUEST"}]
    /\ events' = Append(events, "connecting")
    /\ UNCHANGED alive

\* write(), respond(), read() throw unless CONNECTED.
Write ==
    /\ client.state = "CONNECTED"
    /\ client.seq + 1 < MaxWrites
    /\ Len(client.q.commandQueue) < MaxQueue
    /\ LET n == client.seq + 1
       IN  client' = [client EXCEPT !.seq = n,
                          !.q = SendLast(@, QueueItem(Telegram(n), ~SuppressAck, n))]
    /\ UNCHANGED << events, alive >>

CallDisconnect ==
    /\ MayDisconnect(client)
    /\ client' = Disconnect(client)
    /\ UNCHANGED << events, alive >>

----------------------------------------------------------------------------
\* The socket and the queue loop.

Listening ==
    /\ client.socket = "binding"
    /\ client' = [client EXCEPT !.socket = "open",
                     !.q = HandleKNXQueue([@ EXCEPT !.socketReady = TRUE])]
    /\ UNCHANGED << events, alive >>

\* The close callback.  It resumes setDisconnected(), whose event also ends
\* the wait of Disconnect(), or Disconnect() itself.
SocketClosed ==
    /\ client.socket = "closing"
    /\ LET ended == [client EXCEPT !.socket = "closed",
                         !.call = IF @ = "none" THEN @ ELSE "done"]
       IN  IF client.closer = "setDisconnected"
           THEN /\ client' = OpenGate(ended)
                /\ events' = Append(events, "disconnected")
           ELSE /\ client' = ended
                /\ UNCHANGED events
    /\ UNCHANGED alive

SendDone ==
    /\ client.q.loop = "sending"
    /\ \E r \in {SendSucceeded(client.q), SendFailed(client.q)} :
          client' = [client EXCEPT !.q = r]
    /\ UNCHANGED << events, alive >>

Pace ==
    /\ client.q.loop = "pacing"
    /\ client' = [client EXCEPT !.q = PacingDone(@)]
    /\ UNCHANGED << events, alive >>

\* The datagram socket reports an error: sending stops for good.
SocketError ==
    /\ ~SocketNull(client)
    /\ client' = [client EXCEPT !.q.socketReady = FALSE]
    /\ UNCHANGED << events, alive >>

----------------------------------------------------------------------------
\* Timers.  A timer that is due fires; it is out of the map when it does.

TimerDue(t) == t \in client.timers
Expired(t) == [client EXCEPT !.timers = @ \ {t}]

AckTimeout ==
    /\ client.q.ackTimer # NoPacket
    /\ client' = [client EXCEPT !.q = AckTimerFires(@)]
    /\ UNCHANGED << events, alive >>

\* 2 s after Connect(): well before the CONNECTION timer.
ConnectRequestDue ==
    /\ TimerDue("CONNECT_REQUEST")
    /\ client' = SendPacket(Expired("CONNECT_REQUEST"), "CONNECT_REQUEST")
    /\ UNCHANGED << events, alive >>

\* 10 s after Connect(): an error event, nothing else.
ConnectionTimeout(leaves) ==
    /\ TimerDue("CONNECTION")
    /\ "CONNECT_REQUEST" \notin client.timers
    /\ client' = Notify(Expired("CONNECTION"), leaves)
    /\ UNCHANGED << events, alive >>

\* Mutation: one miss too many.
TooManyLate(failures) == failures > MaxHeartbeatFailures

TooMany(failures) == failures >= MaxHeartbeatFailures

\* 10 s after a CONNECTIONSTATE_REQUEST with no frame from the gateway.
ConnectionStateTimeout(leaves) ==
    /\ TimerDue("CONNECTION_STATE")
    /\ LET missed == Expired("CONNECTION_STATE")
           failures == client.heartbeatFailures + 1
       IN  client' = IF TooMany(failures)
                     THEN SetDisconnected(
                            Notify([missed EXCEPT !.heartbeatFailures = 0], leaves))
                     ELSE [missed EXCEPT !.heartbeatFailures = failures]
    /\ UNCHANGED << events, alive >>

\* 30 s after the last one, so never before its CONNECTION_STATE timer.
HeartbeatDue ==
    /\ TimerDue("HEARTBEAT")
    /\ "CONNECTION_STATE" \notin client.timers
    /\ alive => Len(client.q.commandQueue) < MaxQueue
    /\ client' = RunHeartbeat(Expired("HEARTBEAT"))
    /\ UNCHANGED << events, alive >>

\* 1 s after the gateway's DISCONNECT_REQUEST.
DisconnectDue ==
    /\ TimerDue("DISCONNECT")
    /\ client' = SetDisconnected(Expired("DISCONNECT"))
    /\ UNCHANGED << events, alive >>

\* Disconnect() stops waiting for the disconnected event after 2 s.
DisconnectWaitOver ==
    /\ client.call = "waiting"
    /\ LET gone == [client EXCEPT !.call = "done", !.q.exitLoop = TRUE]
       IN  client' = IF client.state = "DISCONNECTED" THEN gone
                     ELSE SetDisconnected(gone)
    /\ UNCHANGED << events, alive >>

----------------------------------------------------------------------------
\* Frames.  UDP loses, repeats and delays them, so that any frame may arrive
\* at any time while the socket is open and the gateway alive.  fromPeer tells
\* whether the source address is the one the client was configured with.

Receiving == alive /\ client.socket = "open"

\* A CONNECT_RESPONSE answers a request: not before one is queued.
AnswersConnect ==
    /\ Receiving
    /\ client.state = "CONNECTING"
    /\ "CONNECT_REQUEST" \notin client.timers

\* The prelude of processInboundMessage: any frame satisfies the heartbeat.
Heard(c, fromPeer) ==
    IF fromPeer /\ c.state = "CONNECTED" /\ "CONNECTION_STATE" \in c.timers
    THEN [c EXCEPT !.timers = @ \ {"CONNECTION_STATE"}, !.heartbeatFailures = 0]
    ELSE c

ConnectResponseRefused(leaves) ==
    /\ AnswersConnect
    /\ client' = SetDisconnected(Notify(Expired("CONNECTION"), leaves))
    /\ UNCHANGED << events, alive >>

ConnectResponseAccepted(channel, leaves) ==
    /\ AnswersConnect
    /\ LET connected == [Expired("CONNECTION") EXCEPT
                             !.state = "CONNECTED", !.channelID = channel,
                             !.q = SetClearToSend([ClearAckTimer(@) EXCEPT !.failed = 0])]
           told == Notify(connected, leaves)
       IN  client' = IF SniffingMode THEN told ELSE StartHeartBeat(told)
    /\ events' = Append(events, "connected")
    /\ UNCHANGED alive

\* Whatever channel it names; an error event first if nobody asked for it.
ReceiveDisconnectResponse(fromPeer, leaves) ==
    /\ Receiving
    /\ LET heard == Heard(client, fromPeer)
       IN  client' = SetDisconnected(IF heard.state = "DISCONNECTING" THEN heard
                                     ELSE Notify(heard, leaves))
    /\ UNCHANGED << events, alive >>

ReceiveDisconnectRequest(channel, fromPeer) ==
    /\ Receiving
    /\ channel = client.channelID
    /\ Len(client.q.commandQueue) < MaxQueue
    /\ client' = [SendPacket([Heard(client, fromPeer) EXCEPT !.state = "DISCONNECTING"],
                             "DISCONNECT_RESPONSE")
                  EXCEPT !.timers = @ \cup {"DISCONNECT"}]
    /\ UNCHANGED << events, alive >>

ReceiveTunnelingRequest(channel, fromPeer) ==
    /\ Receiving
    /\ channel = client.channelID
    /\ Len(client.q.commandQueue) < MaxQueue
    /\ client' = SendPacket(Heard(client, fromPeer), "TUNNELING_ACK")
    /\ UNCHANGED << events, alive >>

\* The sequence number it carries only changes what is logged.
ReceiveTunnelingAck(channel, fromPeer) ==
    /\ Receiving
    /\ channel = client.channelID
    /\ client' = [Heard(client, fromPeer) EXCEPT
                     !.q = IF SuppressAck THEN SetClearToSend(@) ELSE AckReceived(@)]
    /\ UNCHANGED << events, alive >>

\* Heeded when a CONNECTIONSTATE_RESPONSE is awaited, for any channel.
ReceiveConnectionState(ok, fromPeer, leaves) ==
    /\ Receiving
    /\ client.awaiting = "CONNECTIONSTATE_RESPONSE"
    /\ LET heard == Heard(client, fromPeer)
       IN  client' = IF ok THEN [heard EXCEPT !.timers = @ \ {"CONNECTION_STATE"},
                                              !.heartbeatFailures = 0]
                     ELSE SetDisconnected(Notify(heard, leaves))
    /\ UNCHANGED << events, alive >>

\* Frames for other channels and services change nothing but the prelude.
ReceiveOther ==
    /\ Receiving
    /\ client' = Heard(client, TRUE)
    /\ UNCHANGED << events, alive >>

\* The gateway stops, or the path to it does.
GatewayDies ==
    /\ alive
    /\ alive' = FALSE
    /\ UNCHANGED << client, events >>

----------------------------------------------------------------------------
Receive ==
    \E fromPeer \in BOOLEAN, leaves \in Listeners :
        \/ ConnectResponseRefused(leaves)
        \/ ReceiveDisconnectResponse(fromPeer, leaves)
        \/ \E ok \in BOOLEAN : ReceiveConnectionState(ok, fromPeer, leaves)
        \/ ReceiveOther
        \/ \E channel \in Channels :
              \/ ConnectResponseAccepted(channel, leaves)
              \/ ReceiveDisconnectRequest(channel, fromPeer)
              \/ ReceiveTunnelingRequest(channel, fromPeer)
              \/ ReceiveTunnelingAck(channel, fromPeer)

TimerFires ==
    \/ AckTimeout
    \/ ConnectRequestDue
    \/ HeartbeatDue
    \/ DisconnectDue
    \/ DisconnectWaitOver
    \/ \E leaves \in Listeners :
          ConnectionTimeout(leaves) \/ ConnectionStateTimeout(leaves)

Next ==
    \/ \E leaves \in Listeners : Connect(leaves)
    \/ Write
    \/ CallDisconnect
    \/ Listening
    \/ SocketClosed
    \/ SendDone
    \/ Pace
    \/ SocketError
    \/ TimerFires
    \/ Receive
    \/ GatewayDies

\* Node delivers its own callbacks and every timer that stays armed; nothing
\* is assumed of the application, the gateway or the network.
Fairness ==
    /\ WF_vars(Listening)
    /\ WF_vars(SocketClosed)
    /\ WF_vars(SendDone)
    /\ WF_vars(Pace)
    /\ WF_vars(AckTimeout)
    /\ WF_vars(ConnectRequestDue)
    /\ WF_vars(HeartbeatDue)
    /\ WF_vars(DisconnectDue)
    /\ WF_vars(DisconnectWaitOver)
    /\ WF_vars(\E leaves \in Listeners : ConnectionTimeout(leaves))
    /\ WF_vars(\E leaves \in Listeners : ConnectionStateTimeout(leaves))

Spec == Init /\ [][Next]_vars
FairSpec == Spec /\ Fairness

----------------------------------------------------------------------------
Kinds == {"CONNECT_REQUEST", "CONNECTIONSTATE_REQUEST", "DISCONNECT_REQUEST",
          "DISCONNECT_RESPONSE", "TUNNELING_ACK"}
Packets == {Control(k) : k \in Kinds} \cup {Telegram(n) : n \in 0 .. MaxWrites - 1}

\* The state has its type.
TypeOK ==
    /\ client \in [state : States, channelID : Channels \cup {NoChannel},
                   seq : Int, timers : SUBSET Timers, awaiting : ResponseTypes,
                   heartbeatFailures : 0 .. MaxHeartbeatFailures - 1,
                   heartbeatRunning : BOOLEAN, q : Queues(Packets),
                   socket : {"binding", "open", "closing", "closed"},
                   closer : {"none", "setDisconnected", "Disconnect"},
                   call : {"none", "waiting", "closing", "done"}]
    /\ events \in Seq({"connecting", "connected", "disconnected"})
    /\ alive \in BOOLEAN

\* README.md: the channel id is defined only after a successful connection;
\* it is there as long as frames are sent for it, and its socket is not null.
ChannelWhileConnected ==
    /\ client.state = "CONNECTED" => client.channelID # NoChannel
    /\ client.channelID # NoChannel =>
          /\ client.state \in {"CONNECTED", "DISCONNECTING"}
          /\ ~SocketNull(client)

\* While connected a closed gate is owned by the ACK timer, so that the
\* telegrams behind it are not stuck, and no wake-up of the loop is lost.
QueueAlive ==
    client.state = "CONNECTED" => Owned(client.q) /\ Awake(client.q)

\* A connected client (not sniffing) always has its next heartbeat scheduled.
HeartbeatScheduled ==
    client.state = "CONNECTED" /\ ~SniffingMode => "HEARTBEAT" \in client.timers

\* A timer that fires finds its socket: runHeartbeat() would throw out of the
\* timer callback, and a setDisconnected() would never resume.
TimersHaveSocket ==
    SocketNull(client) =>
        client.timers \cap {"HEARTBEAT", "CONNECTION_STATE", "DISCONNECT"} = {}

\* setDisconnected() finds a socket to close whenever it is entered, so that
\* the disconnected event can follow.
EachTeardownCloses ==
    [][client.state # "DISCONNECTED" /\ client'.state = "DISCONNECTED"
          => client'.closer = "setDisconnected"]_vars

\* The client keeps the promise of module ConnectionLifecycle.
Phase ==
    IF SocketNull(client) THEN "closed"
    ELSE CASE client.state = "DISCONNECTED" -> "fresh"
           [] client.state = "CONNECTING" -> "connecting"
           [] client.state = "CONNECTED" -> "connected"
           [] client.state = "DISCONNECTING" -> "leaving"

Promise == INSTANCE ConnectionLifecycle WITH phase <- Phase
Lifecycle == Promise!Spec

\* A dead gateway is detected: the heartbeat gives up and the client closes.
DeadGatewayDetected ==
    client.state = "CONNECTED" /\ ~alive ~> client.state = "DISCONNECTED"

\* Once a channel is being given up, by either side, disconnected is emitted,
\* whether the other side answers or not.
LeavingEnds ==
    client.state = "DISCONNECTING" /\ client.channelID # NoChannel
        ~> Promise!Seen("disconnected")

\* Whatever ends in DISCONNECTED after Connect() is reported.
DisconnectedReported ==
    SocketNull(client) /\ client.state = "DISCONNECTED"
        ~> Promise!Seen("disconnected")
=============================================================================
