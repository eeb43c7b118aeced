---------------------------- MODULE RoutingClient ----------------------------
(***************************************************************************)
(* A KNXClient with hostProtocol Multicast, plain or secure: its socket,   *)
(* the keyring it loads, the routing timer it must hear before it is       *)
(* connected, the protection of the telegrams it routes, and the discovery *)
(* it can run on the same socket.  After Disconnect() the instance is dead.*)
(*                                                                         *)
(* Cryptography is abstracted to what protects a frame: the SecureWrapper  *)
(* (backbone key) and Data Secure (key of the group, 48-bit number).       *)
(***************************************************************************)
EXTENDS SendQueue

CONSTANTS
    Groups,          \* group addresses, as numbers
    KeyedGroups,     \* those with a Data Secure key in the keyring
    TimerValues,     \* routing timers of the others, 48 bits in the code
    ClockValues,     \* what Date.now() may say when the keyring is (re)loaded
    MaxWrites,       \* bound: telegrams written
    MaxSearches      \* bound: calls of startDiscovery() that start one

ASSUME RoutingClientAssumption ==
    /\ Groups \subseteq Nat
    /\ KeyedGroups \subseteq Groups
    /\ TimerValues \subseteq Nat
    /\ ClockValues \subseteq Nat
    /\ MaxWrites \in Nat
    /\ MaxSearches \in Nat

VARIABLES
    client,   \* the fields of the KNXClient instance
    wire,     \* the last frame that left, the last number of Data Secure, and
              \* whether a send has failed
    used      \* << telegrams written, searches started >>

vars == << client, wire, used >>

\* loads: calls of secureEnsureKeyring() that are still loading, by caller.
\* bursts: repetitions of the search to come.  unhandled: a rejected promise
\* nobody awaits, which ends the process.
Init ==
    /\ \E secure \in BOOLEAN, keyring \in {"good", "noBackbone", "unreadable"} :
         /\ secure \/ keyring = "good"
         /\ client = [secure |-> secure, keyring |-> keyring, state |-> "DISCONNECTED",
                   socket |-> "binding", backbone |-> FALSE, groupKeys |-> FALSE,
                   loads |-> {}, syncTimer |-> FALSE, authenticated |-> FALSE,
                   seq48 |-> 0, discovery |-> FALSE, description |-> FALSE,
                   bursts |-> 0, probed |-> FALSE, unhandled |-> FALSE,
                   q |-> [EmptyQueue EXCEPT !.clearToSend = FALSE,
                                            !.socketReady = FALSE]]
    /\ wire = [frame |-> NoPacket, wrapped |-> FALSE, secured |-> FALSE, lastSeq |-> -1,
               failed |-> FALSE]
    /\ used = << 0, 0 >>

Search == Control("search")
DescriptionRequest == Control("description")

----------------------------------------------------------------------------
\* Methods, as operators from client to client.

\* maybeApplyDataSecure(): a telegram to a group with a key takes a number.
Secures(c, packet) ==
    c.secure /\ c.groupKeys /\ packet.kind = "telegram" /\ packet.num \in KeyedGroups

\* secureWrapRouting() throws without a key: the frame then leaves as it is.
Wraps(c, packet) == c.secure /\ c.backbone /\ packet.kind = "telegram"

\* The queue becomes q; what leaves takes its number at that moment.
WithQueue(c, q) ==
    [c EXCEPT !.q = q,
              !.seq48 = IF Emits(c.q, q) /\ Secures(c, q.current.packet)
                        THEN @ + 1 ELSE @]

\* The frame on the wire in the step from client to d.
Transmits(d) ==
    LET packet == d.q.current.packet
        secured == Secures(d, packet)
    IN  IF ~Emits(client.q, d.q) THEN wire
        ELSE [wire EXCEPT !.frame = packet, !.wrapped = Wraps(d, packet),
                          !.secured = secured,
                          !.lastSeq = IF secured THEN d.seq48 - 1 ELSE @]

Send(c, packet) == WithQueue(c, SendLast(c.q, QueueItem(packet, FALSE, -1)))

OpenGate(c) == WithQueue(c, SetClearToSend(c.q))

\* CONNECTED, its event, and what goes with it.
Established(c) ==
    OpenGate([c EXCEPT !.state = "CONNECTED", !.q.failed = 0])

\* secureEnsureKeyring() up to its await: the caches are reset, the numbers
\* of Data Secure start again from the clock.
EnsureKeyring(c, caller, now) ==
    [c EXCEPT !.backbone = FALSE, !.groupKeys = FALSE, !.seq48 = now,
              !.loads = @ \cup {caller}]

\* secureRoutingEmitConnectedIfPending()
EmitConnectedIfPending(c) ==
    IF c.secure /\ c.state = "CONNECTING" THEN Established(c) ELSE c

\* The remote timer becomes ours, and the numbers do not stay behind it.
Authenticate(c, timer) ==
    [c EXCEPT !.authenticated = TRUE,
              !.seq48 = IF @ < timer THEN timer ELSE @]

\* sendSearchRequestMessage(): the plain and the secure search request.
SendSearchRequest(c) == Send(Send(c, Search), Search)

----------------------------------------------------------------------------
\* The application.

\* Mutation: a client does not wait for the timer of secure routing.
ConnectAtOnce ==
    /\ client.socket # "null"
    /\ client.state = "DISCONNECTED"
    /\ \E now \in ClockValues :
         LET c == OpenGate([client EXCEPT !.state = "CONNECTING", !.q.failed = 0])
             d == IF c.secure THEN EnsureKeyring(c, "Connect", now) ELSE c
         IN  client' = IF d.q.socketReady THEN Established(d) ELSE d
    /\ wire' = Transmits(client')
    /\ UNCHANGED used

Connect ==
    /\ client.socket # "null"
    /\ client.state = "DISCONNECTED"
    /\ \E now \in ClockValues :
         LET c == OpenGate([client EXCEPT !.state = "CONNECTING", !.q.failed = 0])
         IN  client' = IF c.secure THEN EnsureKeyring(c, "Connect", now)
                       ELSE IF c.q.socketReady THEN Established(c) ELSE c
    /\ wire' = Transmits(client')
    /\ UNCHANGED used

Write ==
    /\ client.state = "CONNECTED"
    /\ used[1] < MaxWrites
    /\ used' = [used EXCEPT ![1] = @ + 1]
    /\ \E group \in Groups : client' = Send(client, Telegram(group))
    /\ wire' = Transmits(client')

\* Disconnect(): there is no channel, so the socket is closed.
Disconnect ==
    /\ client.socket # "null"
    /\ client.state # "DISCONNECTING"
    /\ client' = [client EXCEPT !.discovery = FALSE, !.description = FALSE,
                                !.state = "DISCONNECTING", !.socket = "null",
                                !.q.exitLoop = TRUE, !.q.socketReady = FALSE]
    /\ UNCHANGED << wire, used >>

\* Mutation: the gate stays as the constructor has left it.
SearchesBehindGate ==
    /\ ~client.discovery
    /\ used[2] < MaxSearches
    /\ used' = [used EXCEPT ![2] = @ + 1]
    /\ client' = SendSearchRequest([client EXCEPT !.discovery = TRUE,
                                                  !.bursts = @ + 2])
    /\ wire' = Transmits(client')

\* startDiscovery(): the gate is opened behind the setter's back.
StartDiscovery ==
    /\ ~client.discovery
    /\ used[2] < MaxSearches
    /\ used' = [used EXCEPT ![2] = @ + 1]
    /\ client' = SendSearchRequest([client EXCEPT !.q.clearToSend = TRUE,
                                                  !.discovery = TRUE,
                                                  !.bursts = @ + 2])
    /\ wire' = Transmits(client')

\* startGatewayDescription()
StartGatewayDescription ==
    /\ ~client.description
    /\ used[2] < MaxSearches
    /\ used' = [used EXCEPT ![2] = @ + 1]
    /\ client' = Send([client EXCEPT !.q.clearToSend = TRUE,
                                     !.description = TRUE], DescriptionRequest)
    /\ wire' = Transmits(client')

\* Either of them while it is running opens the gate and throws.
StartAgain ==
    /\ client.discovery \/ client.description
    /\ client' = [client EXCEPT !.q.clearToSend = TRUE]
    /\ UNCHANGED << wire, used >>

\* stopDiscovery(), stopGatewayDescription(), or their timer fires.
SearchEnds ==
    /\ \/ client.discovery /\ client' = [client EXCEPT !.discovery = FALSE]
       \/ client.description /\ client' = [client EXCEPT !.description = FALSE]
    /\ UNCHANGED << wire, used >>

----------------------------------------------------------------------------
\* Timers and promises.

\* Mutation: a repetition asks for one more.
BurstRepeats ==
    /\ client.bursts > 0
    /\ client' = SendSearchRequest([client EXCEPT !.bursts = @ + 1])
    /\ wire' = Transmits(client')
    /\ UNCHANGED used

\* The setTimeout of startDiscovery(), which nothing cancels.
Burst ==
    /\ client.bursts > 0
    /\ client' = SendSearchRequest([client EXCEPT !.bursts = @ - 1])
    /\ wire' = Transmits(client')
    /\ UNCHANGED used

KeyringLoaded ==
    /\ \E caller \in client.loads :
         LET c == [client EXCEPT !.loads = @ \ {caller}]
         IN  client' =
               CASE c.keyring = "good" -> [c EXCEPT !.backbone = TRUE, !.groupKeys = TRUE]
                 [] c.keyring = "noBackbone" -> [c EXCEPT !.groupKeys = TRUE]
                 [] OTHER -> [c EXCEPT !.unhandled = @ \/ caller = "timer"]
    /\ UNCHANGED << wire, used >>

\* Mutation: the keyring is loaded again although there is a key.
SyncTimerReloads ==
    /\ client.syncTimer
    /\ \E now \in ClockValues :
         client' = EnsureKeyring([client EXCEPT !.syncTimer = FALSE], "timer", now)
    /\ UNCHANGED << wire, used >>

\* 120 ms after 'listening': without a key the keyring is loaded again, and
\* the TimerNotify that would follow is not sent, now or later.
SyncTimerFires ==
    /\ client.syncTimer
    /\ \E now \in ClockValues :
         LET c == [client EXCEPT !.syncTimer = FALSE]
         IN  client' = IF c.backbone THEN c ELSE EnsureKeyring(c, "timer", now)
    /\ wire' = IF client.backbone /\ client.socket # "null"
               THEN [wire EXCEPT !.frame = Control("timerNotify")] ELSE wire
    /\ UNCHANGED used

----------------------------------------------------------------------------
\* The socket.

Listening ==
    /\ client.socket = "binding"
    /\ LET c == [client EXCEPT !.socket = "open", !.q.socketReady = TRUE]
           d == WithQueue(c, HandleKNXQueue(c.q))
       IN  client' = IF d.secure THEN [d EXCEPT !.syncTimer = TRUE]
                     ELSE IF d.state = "CONNECTING" THEN Established(d) ELSE d
    /\ wire' = Transmits(client')
    /\ UNCHANGED used

\* 'error': nothing sets socketReady again.
SocketError ==
    /\ client.socket \in {"binding", "open"}
    /\ client' = [client EXCEPT !.socket = "failed", !.q.socketReady = FALSE]
    /\ UNCHANGED << wire, used >>

SendDone ==
    /\ client.q.loop = "sending"
    /\ \/ /\ client' = WithQueue(client, SendSucceeded(client.q))
          /\ UNCHANGED wire
       \/ /\ client' = WithQueue(client, SendFailed(client.q))
          /\ wire' = [wire EXCEPT !.failed = TRUE]
    /\ UNCHANGED used

Pace ==
    /\ client.q.loop = "pacing"
    /\ client' = WithQueue(client, PacingDone(client.q))
    /\ wire' = Transmits(client')
    /\ UNCHANGED used

----------------------------------------------------------------------------
\* Frames received.  A socket in error may still receive.

Receiving == client.socket \in {"open", "failed"}

\* 0950: the first authenticates the timer; those behind it, and those for
\* which there is no key, only make an event, as do indications outside one,
\* ROUTING_LOST_MESSAGE and ROUTING_BUSY.
ReceiveWrapper ==
    /\ Receiving /\ client.secure /\ client.backbone
    /\ ~client.authenticated
    /\ \E timer \in TimerValues :
         client' = EmitConnectedIfPending(Authenticate(client, timer))
    /\ wire' = Transmits(client')
    /\ UNCHANGED used

\* 0955: every one sets the timer.
ReceiveTimerNotify ==
    /\ Receiving /\ client.secure /\ client.backbone
    /\ \E timer \in TimerValues :
         client' = EmitConnectedIfPending(Authenticate(client, timer))
    /\ wire' = Transmits(client')
    /\ UNCHANGED used

\* The first plain search response of a host is answered by a unicast secure
\* search; any search response makes an event while a discovery is running.
ReceiveSearchResponse ==
    /\ Receiving /\ client.discovery
    /\ ~client.probed
    /\ client' = [client EXCEPT !.probed = TRUE]
    /\ wire' = [wire EXCEPT !.frame = Search]
    /\ UNCHANGED used

----------------------------------------------------------------------------
Application ==
    Connect \/ Write \/ Disconnect \/ StartDiscovery \/ StartGatewayDescription
        \/ StartAgain \/ SearchEnds
Internal == Burst \/ KeyringLoaded \/ SyncTimerFires \/ Listening \/ SocketError
        \/ SendDone \/ Pace
Network == ReceiveWrapper \/ ReceiveTimerNotify \/ ReceiveSearchResponse

Next == ~client.unhandled /\ (Application \/ Internal \/ Network)

\* The event loop runs what is due: the socket binds or fails, timers fire,
\* callbacks come.  Nothing is assumed of the application and the network.
Fairness ==
    /\ WF_vars(~client.unhandled /\ client.socket = "binding" /\ (Listening \/ SocketError))
    /\ WF_vars(~client.unhandled /\ Burst)
    /\ WF_vars(~client.unhandled /\ SendDone)
    /\ WF_vars(~client.unhandled /\ Pace)

Spec == Init /\ [][Next]_vars /\ Fairness

----------------------------------------------------------------------------
Packets == {Search, DescriptionRequest} \cup {Telegram(g) : g \in Groups}

\* The state has its type.
TypeOK ==
    /\ client.secure \in BOOLEAN
    /\ client.keyring \in {"good", "noBackbone", "unreadable"}
    /\ client.state \in {"DISCONNECTED", "CONNECTING", "CONNECTED", "DISCONNECTING"}
    /\ client.socket \in {"binding", "open", "failed", "null"}
    /\ client.loads \subseteq {"Connect", "timer"}
    /\ client.seq48 \in Nat
    /\ client.bursts \in 0 .. 2 * MaxSearches
    /\ client.q \in Queues(Packets)
    /\ \A flag \in {"backbone", "groupKeys", "syncTimer", "authenticated", "discovery",
                    "description", "probed", "unhandled"} : client[flag] \in BOOLEAN
    /\ wire.frame \in Packets \cup {NoPacket, Control("timerNotify")}

\* A secure client is CONNECTED only with the backbone key, the keys of its
\* groups and an authenticated timer, whatever reload of the keyring is under
\* way, and no telegram of it leaves without the protection its group asks for.
ProtectedOnTheWire ==
    client.secure =>
        /\ client.state = "CONNECTED" =>
              client.backbone /\ client.groupKeys /\ client.authenticated
        /\ wire.frame.kind = "telegram" =>
              wire.wrapped /\ (wire.secured <=> wire.frame.num \in KeyedGroups)

\* The numbers of Data Secure on the wire increase, although every load of the
\* keyring starts them again from the clock: a receiver drops a lower one.
DataSecureSeqIncreases ==
    [][wire'.lastSeq # wire.lastSeq => wire'.lastSeq > wire.lastSeq]_vars

\* A discovery is heard: once started, a search request leaves, whatever the
\* client is doing, unless the socket is lost or a send fails: that empties the
\* queue, with the searches and their repetitions in it.
DiscoverySpeaks ==
    client.discovery /\ client.bursts > 0 ~>
        \/ wire.frame = Search
        \/ client.socket \in {"null", "failed"}
        \/ wire.failed \/ client.unhandled
=============================================================================
