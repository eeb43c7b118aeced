----------------------------- MODULE SecureTunnel -----------------------------
(***************************************************************************)
(* A KNXClient with hostProtocol TunnelTCP: the TCP socket, the handshake  *)
(* of a KNX/IP Secure session, the tunnel inside it, its heartbeat and its *)
(* end.  An instance has one socket, hence at most one session: once it is *)
(* null Connect() throws.                                                  *)
(*                                                                         *)
(* A method is an operator from client to client.  The timers of the       *)
(* handshake only emit errors and are left out, but for the delay before   *)
(* CONNECT_REQUEST.  Frames are whole: the stream is in MessagePath.       *)
(***************************************************************************)
EXTENDS SendQueue

CONSTANTS
    SeqModulus,   \* 256 in the code
    MaxWrites,    \* bound: telegrams of write()
    MaxRaw,       \* bound: telegrams of writeRaw() and respondRaw()
    MaxStatuses,  \* bound: times the gateway says that the session is accepted
    MaxQueue      \* bound: items in the queue when traffic adds one more

ASSUME SecureTunnelAssumption ==
    /\ SeqModulus \in Nat \ {0, 1}
    /\ MaxWrites \in Nat
    /\ MaxRaw \in Nat
    /\ MaxStatuses \in Nat
    /\ MaxQueue \in Nat

VARIABLES
    client,   \* the fields of the KNXClient instance
    gateway,  \* what the gateway has received and answered, and whether it lives
    written   \* telegrams written so far, as << by write(), raw >>

vars == << client, gateway, written >>

\* The timers of the timers map.  Its HEARTBEAT is called FIRST_HEARTBEAT while
\* it is to call startHeartBeat(), and HEARTBEAT when it calls runHeartbeat().
Timers == {"FIRST_HEARTBEAT", "HEARTBEAT", "CONNECTION_STATE", "DISCONNECT"}
MaxHeartbeatFailures == 3
Handshake == << "SESSION_REQUEST", "SESSION_AUTHENTICATE", "CONNECT_REQUEST" >>

\* hs is _secureHandshakeState, with "lookup", "tcp" and "starting" for the
\* steps before it is set.  closeEvent: the socket has closed and its event is
\* to come.  delays: setTimeout() before a CONNECT_REQUEST, which no map holds.
\* awaiting: _awaitingResponseType is CONNECTIONSTATE_RESPONSE.  awaits: callers
\* of closeSocket() whose await has not ended.  thrown: an exception left a
\* timer's callback, which ends the process.
\* got, last: requests of the handshake received, and the number of the last
\* telegram; skipped: numbers that raw telegrams have used up since.  statuses,
\* answers: SESSION_STATUS 0 and CONNECT_RESPONSE sent.
Init ==
    /\ client = [state |-> "DISCONNECTED", socket |-> "idle", closeEvent |-> FALSE,
                 hs |-> "none", channel |-> FALSE, seq |-> 0, timers |-> {},
                 delays |-> 0, misses |-> 0, running |-> FALSE, awaiting |-> FALSE,
                 call |-> "none", awaits |-> {}, thrown |-> FALSE,
                 q |-> [EmptyQueue EXCEPT !.clearToSend = FALSE,
                                          !.socketReady = FALSE]]
    /\ gateway = [got |-> << >>, statuses |-> 0, answers |-> 0, last |-> -1,
                  skipped |-> 0, alive |-> TRUE]
    /\ written = << 0, 0 >>

SocketNull(c) == c.socket = "null"
IsTelegram(item) == item.packet.kind = "telegram"

----------------------------------------------------------------------------
\* Methods.

\* Mutation: the number is read, not taken.
ReadTunnelSeq(seq) == seq

\* secureIncTunnelSeq()
SecureIncTunnelSeq(seq) == (seq + 1) % SeqModulus

\* The queue becomes q.  A tunnelling request that leaves it takes the next
\* number; without a session, or a socket, wrapping or writing it throws.
WithQueue(c, q) ==
    LET leaving == Emits(c.q, q)
        numbered == leaving /\ IsTelegram(q.current)
    IN  [c EXCEPT !.q = IF leaving /\ (SocketNull(c) \/ c.hs # "connect")
                        THEN SendFailed(q) ELSE q,
                  !.seq = IF numbered THEN SecureIncTunnelSeq(@) ELSE @]

\* A telegram arrives at the gateway g.
Arrives(g, seq) == [g EXCEPT !.last = seq, !.skipped = 0]

\* What the gateway g receives in the step from client to c.
Received(g, c) ==
    IF Emits(client.q, c.q) /\ IsTelegram(c.q.current)
    THEN Arrives(g, client.seq) ELSE g

\* A packet of the client's own: heartbeat, acknowledgement, disconnection.
Own == Control("own")

\* No ACK is ever awaited over TCP, whether the item names one or not.
Send(c, packet) == WithQueue(c, SendLast(c.q, QueueItem(packet, FALSE, 0)))
SendPriority(c) == WithQueue(c, SendFirst(c.q, QueueItem(Own, FALSE, 0)))

\* closeSocket(): destroy() takes no callback, so that the promise stays.
CloseSocket(c, caller) ==
    LET stopped == [c EXCEPT !.q.exitLoop = TRUE, !.awaits = @ \cup {caller}]
    IN  IF SocketNull(c) THEN stopped
        ELSE [stopped EXCEPT !.socket = "null", !.q.socketReady = FALSE,
                             !.closeEvent = c.socket # "shut"]

ClearAllTimers(c) == [c EXCEPT !.timers = {}, !.running = FALSE]

SetDisconnected(c) ==
    CloseSocket([ClearAllTimers(c) EXCEPT !.state = "DISCONNECTED",
                                          !.channel = FALSE],
                "setDisconnected")

\* Mutation: the next heartbeat waits for the answer to this one.
RunHeartbeatOnce(c) ==
    IF ~c.running THEN c
    ELSE SendPriority([c EXCEPT !.timers = @ \cup {"CONNECTION_STATE"},
                                !.awaiting = TRUE])

RunHeartbeat(c) ==
    IF ~c.running THEN c
    ELSE [SendPriority([c EXCEPT !.timers = @ \cup {"CONNECTION_STATE"},
                                 !.awaiting = TRUE])
          EXCEPT !.timers = @ \cup {"HEARTBEAT"}]

StartHeartBeat(c) ==
    RunHeartbeat([c EXCEPT !.misses = 0, !.running = TRUE,
                           !.timers = @ \cap {"DISCONNECT"}])

\* processInboundMessage(): any frame answers the heartbeat.
Heard(c) ==
    IF "CONNECTION_STATE" \in c.timers /\ c.state = "CONNECTED"
    THEN [c EXCEPT !.timers = @ \ {"CONNECTION_STATE"}, !.misses = 0] ELSE c

----------------------------------------------------------------------------
\* The application.

Connect ==
    /\ ~SocketNull(client)
    /\ client.state = "DISCONNECTED"
    /\ client' = [client EXCEPT !.state = "CONNECTING", !.q.failed = 0,
                                !.q.clearToSend = TRUE, !.hs = "lookup"]
    /\ UNCHANGED << gateway, written >>

Write ==
    /\ client.state = "CONNECTED"
    /\ written[1] < MaxWrites
    /\ written' = [written EXCEPT ![1] = @ + 1]
    /\ client' = Send(client, Telegram(0))
    /\ gateway' = Received(gateway, client')

\* writeRaw() and respondRaw() take a number which is not the one on the wire.
WriteRaw ==
    /\ client.state = "CONNECTED"
    /\ written[2] < MaxRaw
    /\ written' = [written EXCEPT ![2] = @ + 1]
    /\ LET taken == [client EXCEPT !.seq = SecureIncTunnelSeq(@)]
       IN  /\ client' = Send(taken, Telegram(0))
           /\ gateway' = IF Emits(client.q, client'.q)
                         THEN Arrives(gateway, taken.seq)
                         ELSE [gateway EXCEPT !.skipped = @ + 1]

Disconnect ==
    /\ ~SocketNull(client)
    /\ client.state # "DISCONNECTING"
    /\ LET leaving == [ClearAllTimers(client) EXCEPT !.state = "DISCONNECTING"]
       IN  client' = IF client.channel
                     THEN SendPriority([leaving EXCEPT !.call = "waiting",
                                                       !.awaiting = FALSE])
                     ELSE CloseSocket(leaving, "Disconnect")
    /\ UNCHANGED << gateway, written >>

----------------------------------------------------------------------------
\* The socket, the handshake and the queue loop.

\* The interface address is discovered, the keyring loaded and the socket told
\* to connect.  A failure, or a socket that is gone, is an error event only.
LookupDone ==
    /\ client.hs = "lookup"
    /\ \/ /\ ~SocketNull(client)
          /\ client' = [client EXCEPT !.hs = "tcp", !.socket = "opening"]
       \/ client' = [client EXCEPT !.hs = "none"]
    /\ UNCHANGED << gateway, written >>

TcpConnected ==
    /\ client.socket = "opening"
    /\ client' = [client EXCEPT !.socket = "open", !.hs = "starting",
                                !.q.socketReady = TRUE, !.q.exitLoop = FALSE]
    /\ UNCHANGED << gateway, written >>

\* The connection fails, or the gateway closes it.
TcpLost ==
    /\ client.socket \in {"opening", "open"}
    /\ client' = [client EXCEPT !.socket = "shut", !.closeEvent = TRUE,
                                !.q.socketReady = FALSE]
    /\ UNCHANGED << gateway, written >>

\* The close event, whoever closed.
TcpClosed ==
    /\ client.closeEvent
    /\ LET closed == [client EXCEPT !.closeEvent = FALSE, !.q.socketReady = FALSE,
                                    !.q.exitLoop = TRUE]
       IN  client' = IF client.state \in {"DISCONNECTED", "DISCONNECTING"}
                     THEN closed ELSE SetDisconnected(closed)
    /\ UNCHANGED << gateway, written >>

\* A frame of the handshake is written; one written to a shut socket is lost.
Reaches(request) ==
    IF client.socket = "open" THEN [gateway EXCEPT !.got = Append(@, request)]
    ELSE gateway

\* secureStartSession() after its await of the keyring.
StartSession ==
    /\ client.hs = "starting"
    /\ client' = [client EXCEPT !.hs = "session"]
    /\ gateway' = Reaches("SESSION_REQUEST")
    /\ UNCHANGED written

\* A gateway that is alive answers on an open socket.
Answering == client.socket = "open" /\ gateway.alive

SessionResponse ==
    /\ Answering
    /\ gateway.got # << >>
    /\ client.hs = "session"
    /\ client' = [client EXCEPT !.hs = "auth"]
    /\ gateway' = Reaches("SESSION_AUTHENTICATE")
    /\ UNCHANGED written

\* The handshake state stays "auth" until a delay is over: another status 0
\* before that begins a delay of its own.
SessionAccepted ==
    /\ Answering
    /\ client.hs = "auth"
    /\ gateway.statuses < MaxStatuses
    /\ client' = [client EXCEPT !.delays = @ + 1]
    /\ gateway' = [gateway EXCEPT !.statuses = @ + 1]
    /\ UNCHANGED written

\* A status that is an error: the session is refused, or ended by the gateway.
SessionRefused ==
    /\ Answering
    /\ client.hs = "auth"
    /\ client' = SetDisconnected([client EXCEPT !.hs = "none"])
    /\ UNCHANGED << gateway, written >>

\* Mutation: CONNECT_REQUEST is sent again when the socket is still there.
DelayRepeats(delays) == delays

\* A delay is not cancelled by anything.
DelayOver(delays) == delays - 1

\* tcpSocket is null once the socket is closed: write() of null throws.
ConnectDelayOver ==
    /\ client.delays > 0
    /\ LET due == [client EXCEPT !.delays = DelayOver(@)]
       IN  IF SocketNull(client)
           THEN /\ client' = [due EXCEPT !.thrown = TRUE]
                /\ UNCHANGED gateway
           ELSE /\ client' = [due EXCEPT !.hs = "connect"]
                /\ gateway' = Reaches("CONNECT_REQUEST")
    /\ UNCHANGED written

\* CONNECT_REQUESTs received and not answered.  The client takes every
\* CONNECT_RESPONSE, whatever its state.
ConnectAnswered ==
    /\ Answering
    /\ client.hs = "connect"
    /\ gateway.answers < Len(gateway.got) - 2
Answered == [gateway EXCEPT !.answers = @ + 1]

\* The first heartbeat is due 2 to 5 s later.
ConnectAccepted ==
    /\ ConnectAnswered
    /\ LET up == [client EXCEPT !.state = "CONNECTED", !.channel = TRUE,
                                !.q.exitLoop = FALSE, !.q.failed = 0]
           opened == WithQueue(up, SetClearToSend(up.q))
       IN  client' = [opened EXCEPT !.timers =
                        (@ \ {"HEARTBEAT"}) \cup {"FIRST_HEARTBEAT"}]
    /\ gateway' = Received(Answered, client')
    /\ UNCHANGED written

\* A CONNECT_RESPONSE in plain is taken as well, and the heartbeat starts at once.
ConnectAcceptedPlain ==
    /\ ConnectAnswered
    /\ LET up == [client EXCEPT !.state = "CONNECTED", !.channel = TRUE, !.q.failed = 0]
           opened == WithQueue(up, SetClearToSend(up.q))
       IN  /\ client' = StartHeartBeat(opened)
           /\ gateway' = Received(Answered, opened)
    /\ UNCHANGED written

\* An error status is not acted on: the client stays as it is.
ConnectRefused ==
    /\ ConnectAnswered
    /\ gateway' = Answered
    /\ UNCHANGED << client, written >>

\* What has been sent matters no more.
SendDone ==
    /\ client.q.loop = "sending"
    /\ \E r \in {SendSucceeded(client.q), SendFailed(client.q)} :
          client' = [client EXCEPT !.q = [r EXCEPT !.current = EmptyQueue.current]]
    /\ UNCHANGED << gateway, written >>

Pace ==
    /\ client.q.loop = "pacing"
    /\ LET idle == [client EXCEPT !.q.loop = "idle"]
       IN  client' = WithQueue(idle, PacingDone(client.q))
    /\ gateway' = IF client'.seq # client.seq THEN Arrives(gateway, client.seq)
                  ELSE gateway
    /\ UNCHANGED written

----------------------------------------------------------------------------
\* Timers of the established tunnel.

Expired(t) == [client EXCEPT !.timers = @ \ {t}]

FirstHeartbeatDue ==
    /\ "FIRST_HEARTBEAT" \in client.timers
    /\ gateway.alive => Len(client.q.commandQueue) < MaxQueue
    /\ client' = StartHeartBeat(Expired("FIRST_HEARTBEAT"))
    /\ UNCHANGED << gateway, written >>

\* The period (30 s by default) is longer than the wait for the answer (10 s).
HeartbeatDue ==
    /\ "HEARTBEAT" \in client.timers
    /\ "CONNECTION_STATE" \notin client.timers
    /\ gateway.alive => Len(client.q.commandQueue) < MaxQueue
    /\ client' = RunHeartbeat(Expired("HEARTBEAT"))
    /\ UNCHANGED << gateway, written >>

\* Mutation: one miss too many.
TooManyLate(misses) == misses > MaxHeartbeatFailures

TooMany(misses) == misses >= MaxHeartbeatFailures

ConnectionStateTimeout ==
    /\ "CONNECTION_STATE" \in client.timers
    /\ LET missed == Expired("CONNECTION_STATE")
       IN  client' = IF TooMany(client.misses + 1)
                     THEN SetDisconnected([missed EXCEPT !.misses = 0])
                     ELSE [missed EXCEPT !.misses = @ + 1]
    /\ UNCHANGED << gateway, written >>

DisconnectDue ==
    /\ "DISCONNECT" \in client.timers
    /\ client' = SetDisconnected(Expired("DISCONNECT"))
    /\ UNCHANGED << gateway, written >>

\* 2 s after DISCONNECT_REQUEST; the event that would end the wait earlier
\* follows an await that does not end.
DisconnectWaitOver ==
    /\ client.call = "waiting"
    /\ LET over == [client EXCEPT !.call = "done", !.q.exitLoop = TRUE]
       IN  client' = IF client.state # "DISCONNECTED" THEN SetDisconnected(over) ELSE over
    /\ UNCHANGED << gateway, written >>

----------------------------------------------------------------------------
\* Frames of the tunnel.

Receiving == Answering /\ client.hs = "connect"

ReceiveConnectionState(ok) ==
    /\ Receiving
    /\ client.awaiting
    /\ client' = IF ok THEN [Heard(client) EXCEPT !.timers = @ \ {"CONNECTION_STATE"},
                                                  !.misses = 0]
                 ELSE SetDisconnected(Heard(client))
    /\ UNCHANGED << gateway, written >>

ReceiveTunnelingRequest ==
    /\ Receiving
    /\ client.channel
    /\ Len(client.q.commandQueue) < MaxQueue
    /\ client' = SendPriority(Heard(client))
    /\ UNCHANGED << gateway, written >>

ReceiveTunnelingAck ==
    /\ Receiving
    /\ client.channel
    /\ LET heard == Heard(client)
       IN  client' = WithQueue(heard, AckReceived(heard.q))
    /\ gateway' = Received(gateway, client')
    /\ UNCHANGED written

ReceiveDisconnectRequest ==
    /\ Receiving
    /\ client.channel
    /\ Len(client.q.commandQueue) < MaxQueue
    /\ client' = [SendPriority([Heard(client) EXCEPT !.state = "DISCONNECTING"])
                  EXCEPT !.timers = @ \cup {"DISCONNECT"}]
    /\ UNCHANGED << gateway, written >>

\* Expected or not.
ReceiveDisconnectResponse ==
    /\ Receiving
    /\ client' = SetDisconnected(Heard(client))
    /\ UNCHANGED << gateway, written >>

GatewayDies ==
    /\ gateway.alive
    /\ gateway' = [gateway EXCEPT !.alive = FALSE]
    /\ UNCHANGED << client, written >>

----------------------------------------------------------------------------
Handshaking ==
    \/ LookupDone
    \/ TcpConnected
    \/ StartSession
    \/ SessionResponse
    \/ SessionAccepted
    \/ SessionRefused
    \/ ConnectDelayOver
    \/ ConnectAccepted
    \/ ConnectAcceptedPlain
    \/ ConnectRefused

TimerFires ==
    \/ FirstHeartbeatDue
    \/ HeartbeatDue
    \/ ConnectionStateTimeout
    \/ DisconnectDue
    \/ DisconnectWaitOver

Receive ==
    \/ \E ok \in BOOLEAN : ReceiveConnectionState(ok)
    \/ ReceiveTunnelingRequest
    \/ ReceiveTunnelingAck
    \/ ReceiveDisconnectRequest
    \/ ReceiveDisconnectResponse

Next ==
    /\ ~client.thrown
    /\ \/ Connect
       \/ Write
       \/ WriteRaw
       \/ Disconnect
       \/ TcpLost
       \/ TcpClosed
       \/ SendDone
       \/ Pace
       \/ GatewayDies
       \/ Handshaking
       \/ TimerFires
       \/ Receive

\* Node runs due timers and delivers the outcome of a write, and the close of a
\* socket; nothing is assumed of the gateway, the network or the application.
Fairness ==
    /\ WF_vars(~client.thrown /\ FirstHeartbeatDue)
    /\ WF_vars(~client.thrown /\ HeartbeatDue)
    /\ WF_vars(~client.thrown /\ ConnectionStateTimeout)
    /\ WF_vars(~client.thrown /\ DisconnectDue)
    /\ WF_vars(~client.thrown /\ DisconnectWaitOver)
    /\ WF_vars(~client.thrown /\ TcpClosed)
    /\ WF_vars(~client.thrown /\ SendDone)
    /\ WF_vars(~client.thrown /\ Pace)

Spec == Init /\ [][Next]_vars
FairSpec == Spec /\ Fairness

----------------------------------------------------------------------------
Packets == {Telegram(0), Own}

\* The state has its type.
TypeOK ==
    /\ client \in [state : {"DISCONNECTED", "CONNECTING", "CONNECTED", "DISCONNECTING"},
                   socket : {"idle", "opening", "open", "shut", "null"},
                   closeEvent : BOOLEAN,
                   hs : {"none", "lookup", "tcp", "starting", "session", "auth", "connect"},
                   channel : BOOLEAN, seq : 0 .. SeqModulus - 1,
                   timers : SUBSET Timers, delays : 0 .. MaxStatuses,
                   misses : 0 .. MaxHeartbeatFailures - 1,
                   running : BOOLEAN, awaiting : BOOLEAN,
                   call : {"none", "waiting", "done"},
                   awaits : SUBSET {"Disconnect", "setDisconnected"},
                   thrown : BOOLEAN, q : Queues(Packets)]
    /\ gateway.got \in Seq({Handshake[i] : i \in 1 .. 3})
    /\ gateway.statuses \in 0 .. MaxStatuses
    /\ gateway.last \in -1 .. SeqModulus - 1
    /\ gateway.skipped \in Nat
    /\ written \in (0 .. MaxWrites) \X (0 .. MaxRaw)

\* The gateway receives the requests of the handshake in their order, the last
\* one at most as often as it has accepted the session; a client is connected,
\* and a telegram on the wire, only behind all of them.
HandshakeInOrder ==
    /\ \A i \in DOMAIN gateway.got : gateway.got[i] = Handshake[IF i < 3 THEN i ELSE 3]
    /\ Len(gateway.got) <= 2 + gateway.statuses
    /\ client.state = "CONNECTED" \/ gateway.last # -1 => Len(gateway.got) >= 3

\* The number of the next telegram is that of the last one on the wire, which the
\* gateway would take for a repetition, exactly when raw telegrams have used up
\* all the others in between: the numbers wrap round, and are not missed before.
SeqRepeatedOnlyByWrap ==
    gateway.last # -1 /\ gateway.skipped < SeqModulus =>
        (client.seq = gateway.last <=> gateway.skipped = SeqModulus - 1)

\* A connected client notices that the gateway is dead, and as long as it is
\* connected what waits in its queue is being worked off.
SessionIsLive ==
    /\ ~gateway.alive /\ client.state = "CONNECTED" ~> client.state # "CONNECTED"
    /\ client.q.commandQueue # << >> ~>
          client.q.loop = "sending" \/ client.state # "CONNECTED"

\* README.md lists the event disconnected: "The KNX connection has been
\* disconnected".  setDisconnected() emits it behind its await of closeSocket().
DisconnectedReported ==
    "setDisconnected" \in client.awaits ~> "setDisconnected" \notin client.awaits
=============================================================================
