# KNXUltimate in TLA+

TLA+ models of the KNX/IP stack in `src/`, the TLC configurations that check
them, and proofs checked by TLAPS. The reference is the TypeScript source; line
numbers below are of the files under `src/`. `PROJECT.json` maps each definition
to the lines it models, lists the hazards of the code, and for each checked
property a mutation of the model that breaks it.

## 1. The system

`KNXClient` (`src/KNXClient.ts`) speaks KNXnet/IP as a tunnelling client over
UDP, as a secure tunnelling client over TCP, as a plain or secure routing
(multicast) node, and to a KNX interface on a serial FT1.2 line.
`KNXIPTunnelServer` (`src/bridge/KNXIPTunnelServer.ts`) is the other end of a UDP
tunnel. Node runs all of it single threaded: a handler, a timer callback or a
method runs to its end or to its next `await`. What is concurrent is the order of
the callbacks, the awaits of the queue loop, of the closing functions, of the
keyring and of the serial driver, the listeners that run inside `emit`, and the
network.

| Component | State | Operations | Talks to | Hard because | Correct when |
|---|---|---|---|---|---|
| Telegram queue and flow control | `commandQueue`, `_clearToSend`, `queueLock`, `socketReady`, `exitProcessingKNXQueueLoop`, `currentItemHandledByTheQueue`, the ACK timer, `_numFailedTelegramACK`, `_clientTunnelSeqNumber` | `write`, `send`, `handleKNXQueue`, the `clearToSend` setter, `setTimerWaitingForACK`, the TUNNELING_ACK handler | socket, life cycle, inbound handlers | one gate, one timer and one failure counter for all telegrams; packets with priority force the gate; late and repeated ACKs; a failed send empties the queue | no wake-up is lost, a closed gate is owned by a timer, order is kept, retransmission is bounded, nothing is stuck |
| TunnelUDP connection life cycle | `_connectionState`, `_channelID`, `timers`, `_heartbeatFailures`, `_heartbeatRunning`, `_awaitingResponseType`, `_clientSocket` | constructor, `Connect`, `Disconnect`, `setDisconnected`, `closeSocket`, `runHeartbeat`, inbound handlers | queue, application listeners, gateway | several ways to end the same connection race; listeners re-enter; promises that depend on a callback | one pass through the states, one `disconnected`, timers never outlive the socket, a dead gateway is noticed |
| Tunnelling server | `sessions`, `channelPool`, `socket`, a sequence number per session | `start`, `stop`, four request handlers, `inject*` | clients, the bus (`busFrameOut`), `sessionUp`/`sessionDown` listeners | eviction inside admission, pool reuse, restarts, requests refused after a session was made | channel ids are partitioned, the table is bounded, announced sessions exist |
| Secure tunnel over TCP | `_tcpRxBuffer`, session keys, `_secureTunnelSeq`, `_secureHandshakeState`, handshake timers | `initTcpSocket`, the session handshake, `secureOnTcpData`, heartbeat, teardown | queue, keyring, gateway | four messages with delays between them during which the session may end; numbers taken at queueing and at sending; a stream cut anywhere | requests in order and none more often than asked for, no number twice in a row before the numbers wrap round, a dead gateway is noticed, frames are recovered |
| Secure and plain routing | `_secureRoutingTimer*`, the backbone key, group keys, the 48-bit Data Secure number | keyring load, TimerNotify, wrapping, Data Secure, `secureOnUdpData` | queue, keyring, other routers | the keyring loads while telegrams may already leave; a reload empties the caches; the clock of others moves the numbers | nothing leaves unprotected, numbers increase |
| Serial FT1.2 | write and waiter of the driver, `serialDriver`, frame parser | `open`, `close`, `initialize`, the reset, `sendCemiPayload`, the port's events | queue, serial port | one waiter shared by open, close and the queue; each call may end after the client moved on | no promise is left to reject unheard, every await is timed, calls end, the queue drains |
| Discovery, description | DISCOVERY and GATEWAYDESCRIPTION timers, result maps | `startDiscovery`, `startGatewayDescription`, static `discover*`, `secureGetIaCandidatesByDiscovery` | queue, all network interfaces, keyring | writes the gate behind its setter; answers of several clients, plain and extended, any number of times | a search leaves; results do not depend on order |
| Frame codecs, datapoint types | none | encoders and decoders of packets and values | all | widths, boundaries, packing, chunks | what is written is what is read |
| Keyring, primitives | interfaces, groups, devices, backbone | parsing, choice of credentials, of senders, of an interface | secure sessions | credentials come from five places in an order | the keys fit the file |
| Logging, utilities | none | output, interface lookup, re-exports | all | | not modelled |

## 2. Modules

| Module | Models |
|---|---|
| `SendQueue` | the queue of `KNXClient` as a record; each method of the code is an operator from queue to queue, so that a handler that calls several is one composition and one atomic step |
| `Transmitter` | a connected client sending telegrams over `SendQueue`: application, loop, ACK timer, gateway, own packets |
| `Transmitter_proofs` | inductive invariant and theorems of `Transmitter` and, like the proofs of the other clients, the lemmas about `SendQueue` they need |
| `ConnectionLifecycle` | abstract: what an application may rely on about states and events |
| `TunnelClient` | the whole TunnelUDP client: life cycle, timers, inbound handlers, teardown, over `SendQueue`; implements `ConnectionLifecycle` under `Phase` |
| `TunnelClient_proofs` | inductive invariant and theorems of `TunnelClient`, its refinement included |
| `TunnelServer` | `KNXIPTunnelServer` |
| `TunnelServer_proofs` | inductive invariant and theorems of `TunnelServer` |
| `SecureTunnel` | the secure TCP client: handshake, numbers, heartbeat, every end, over `SendQueue` |
| `SecureTunnel_proofs` | inductive invariant and theorems of `SecureTunnel` |
| `RoutingClient` | the multicast client, plain or secure, and the discovery on its socket, over `SendQueue` |
| `RoutingClient_proofs` | inductive invariant and theorems of `RoutingClient` |
| `SerialLink` | the FT1.2 driver and the client's side of it, over `SendQueue` |
| `SerialLink_proofs` | inductive invariant and theorems of `SerialLink` |
| `FrameCodecs` | addresses, headers, DIBs and packets of KNXnet/IP, octet by octet |
| `Datapoints` | `resolve`, `populateAPDU`, `fromBuffer` and every registered datapoint type |
| `Telegrams` | cEMI, NPDU, Data Secure, secure wrappers, the TCP stream, the FT1.2 line, what the server does to a frame |
| `Telegrams_proofs` | theorems: each telegram the library can send is read as it was written, plain, wrapped or secured; a TCP stream and an FT1.2 line are recovered however they are cut |
| `Keyring` | the keyring and what a client takes from it |
| `Discovery` | the three static discoveries and the choice of an interface |
| `MessagePath` | composes the five before it: discovery, connection, sending, the line, reception, for each transport |
| `MCMessagePath` | the calls, answers and keyring of the checked instance |
| `MessagePath_proofs` | theorems: each search response is read as its device wrote it, and a discovery converges; a conversation over any transport delivers what was sent, whole and to whom it was meant |

`SendQueue` is shared by the four client modules and `Transmitter`, and each of their
proofs begins with the few lemmas it needs about it; from `FrameCodecs` on, the modules
without proofs form a chain of `EXTENDS` from octets to messages. `Telegrams_proofs`
is about the operators of its middle, and `MessagePath_proofs` about the whole.

### SendQueue and Transmitter

The array of the code is used from its end (`pop`, `push` for priority,
`unshift` otherwise); the sequence of the model has that end as its head.
`loop` replaces `queueLock` and the program counter of `handleKNXQueue`: `idle`,
`sending` (awaiting the send callback), `pacing` (awaiting the delay between two
packets). A packet is its kind and, for a telegram, its rank of writing; the
rank modulo `SeqModulus` is its sequence number, as `incSeqNumber` counts from
-1 and wraps. `expected` is kept because the code keeps it, stale values included
(a retransmission takes the sequence number of whatever is current).

Every handler is one action: `Write`; `SendPriority` (the acknowledgement of
an inbound telegram, a heartbeat); `SendDone`, `SendError` (the callback of
`udpSocket.send`); `Pace`; `AckTimeout`; `ReceiveAck(n)` for any telegram the
socket has sent, at any later time and any number of times: loss, delay,
reordering and duplication need no further actions. The variables after `q` and
`written` are history: `lastSent`, `tries`, `onWire`, `reported`, `dropped`.

### TunnelClient

The fields of the instance are one record `client`, a method is an operator on
it. The stages of `_clientSocket` are `binding`, `open`, `closing` and `closed`;
the last two are `null` in the code, and a closed instance cannot be connected
again. `closer` remembers which caller's `await closeSocket()` the close callback
settles: only the first finds a socket, and the promise of a later caller never
settles (KNXClient.ts:2896). `Notify(c, leaves)` is an `emit` inside a handler
whose listener may call `Disconnect()`, when `Reentrant` is TRUE. Timers are a
set: a timer that is armed may fire, with the order the durations impose
(CONNECT_REQUEST 2 s before CONNECTION 10 s, CONNECTION_STATE 10 s before
HEARTBEAT 30 s; the option `connectionKeepAliveTimeout` does not enter, the
constructor sets 30 s). Frames arrive at any time from any channel and address while
the gateway is alive.

`ConnectionLifecycle` allows connecting once, being connected at most once,
leaving, closing, and `disconnected` once, after the close. `TunnelClient` maps to
it by `Phase`.

### TunnelServer

One action per handler and method. The `sessions` map, iterated in insertion
order, is a sequence of clients with functions for channel and sequence number.
A request is handled as the code does: CONNECT_REQUEST makes room and takes a
channel before it looks at the connection type; DISCONNECT_REQUEST with another
channel is refused and closes the session; a refused bind leaves the socket set, so
that `start()` does nothing until `stop()`. `announced` follows
`sessionUp`/`sessionDown` as a consumer would. Telegram payloads are told apart
only by whether they are bus data; `Telegrams` and `MessagePath` say what becomes
of them. `TunnelServerAssumption` asks for `MaxSessions <= MaxChannel`: with more
than 255 sessions the empty pool is refilled with ids in use.

### SecureTunnel

`hs` is `_secureHandshakeState`, preceded by the steps the code does not name
(interface lookup, TCP connect, the delay before SESSION_REQUEST). Each message
of the handshake is an action that a gateway, alive, may answer, refuse or never
answer. The delay between SESSION_STATUS and CONNECT_REQUEST is a timer nobody
cancels, and a status that is repeated during it begins another (`delays`): each one
sends its CONNECT_REQUEST, or finds the socket gone, which is the exception `thrown`.
A CONNECT_RESPONSE is processed whatever the state, so that a second one can turn a
DISCONNECTING client back to CONNECTED; a DISCONNECT_RESPONSE ends the session whether
it was asked for or not. `awaiting` is whether a CONNECTIONSTATE_RESPONSE is expected,
which is what lets one in. A tunnelling request takes its number when it leaves the
queue, a raw one another when it is written (`SecureIncTunnelSeq`); `gateway.skipped`
counts the numbers used up since the last telegram that arrived. `awaits` are the
callers of `closeSocket()`: over TCP none of them is ever answered.

### RoutingClient

Any order of the binding, `Connect()`, the 120 ms timer of secure routing, the
loads of the keyring (two callers, each a call up to its await and a continuation)
and frames 0950 and 0955 with any timer. `Wraps` and `Secures` say what protects a
frame that leaves; `wire` remembers it. The gate is written by `StartDiscovery` and
`StartGatewayDescription` as the code does, past the setter.

### SerialLink

Each `Connect()` makes a driver, whose `open`, two `close` calls (by `Disconnect` and
by `setDisconnected`) and the queue loop run side by side; `call[c].step` is the
await a call is at. `waiter` is whose promise the one `awaitingAck` holds. When a
write fails that promise is awaited by nobody (`orphan`), and its timer or `close()`
rejects it unhandled, which ends the process (`ended`). `Patient` says that the
application calls `Disconnect()` only when CONNECTED and connects again only when the
last port has gone quiet, which the code does not enforce: the run `serial_link` assumes
it, `serial_hasty` shows a consequence of its absence, and the proofs do without it.

### Octets: FrameCodecs to MessagePath

Operators from records to octets and back, one pair per class of `protocol/`, with
`Malformed` for an exception. `Datapoints` gives one `config` per registered type
and dispatches as `resolve` and `populateAPDU` do. A cipher is a function that the
same key undoes and any other key does not (`Telegrams`), so that what is
encrypted, by which key and over which octets, is modelled, and the cipher is not.
`MessagePath` runs one conversation: a discovery whose answers arrive in any
order and number, a connection by one of five transports with the right or a wrong
keyring password, one or two calls, the octets of the line cut anywhere, and a
receiver. Over UDP the telegram goes through `KNXIPTunnelServer` and its routing bus;
the gateway of TCP and the interface of the serial line are outside the
repository and marked external.

## 3. Runs

Each configuration uses its module directly, except `MessagePath.cfg`, whose
instance is `MCMessagePath`.

| Run | Instance | Shows |
|---|---|---|
| `transmitter` | 3 telegrams, 2 own packets, sequence numbers modulo 2 | `NoLostWakeup`, `GateOwned`, `RetryBound`, `SentInOrder`, `NoneSkipped` |
| `transmitter_live` | 2 telegrams, 2 own packets, `Prompt` | `EventuallySent`, `EventuallySettled` |
| `every_telegram_reported` | 2 telegrams, 1 own packet | violated: a telegram whose ACK timer the next one took over is reported by no `ackReceived` |
| `tunnel_client` | 1 channel, 2 telegrams, queue of 2, listeners re-enter | `ChannelWhileConnected`, `QueueAlive`, `HeartbeatScheduled`, `TimersHaveSocket`, and the refinement `Lifecycle` |
| `tunnel_client_live` | 1 channel, 1 telegram, fair | `EachTeardownCloses`, `DeadGatewayDetected`, `LeavingEnds`, `DisconnectedReported` |
| `tunnel_server` | 4 clients, 2 sessions, 3 channels | `ChannelsPartitioned`, `SessionTable`, `AnnouncedLive`, `EndsForCause`, `ChannelStable` |
| `secure_tunnel` | 1 telegram, 2 raw ones, 2 statuses, queue of 2, numbers modulo 3 | `HandshakeInOrder`, `SeqRepeatedOnlyByWrap`, `SessionIsLive` |
| `secure_disconnected_reported` | 1 telegram, 1 raw | violated: over TCP `disconnected` is never emitted |
| `routing_client` | 2 groups, one of them keyed, 2 telegrams, 1 search | `ProtectedOnTheWire`, `DataSecureSeqIncreases`, `DiscoverySpeaks` |
| `serial_link` | 2 connections, 2 telegrams, KBERRY, patient application | `NoPromiseLeftBehind`, `EveryAwaitIsTimed`, `QueueDrains`, `CallsEnd` |
| `serial_hasty` | the same, impatient | `ConnectedHasPort` violated: CONNECTED without a port after a `Disconnect()` during `open()` |
| `codecs` | the calls, answers, keyring of `MCMessagePath`, 5 transports | `FramesSurvive`, `TelegramSurvives`, `DiscoveryConverges` |

The passing runs of the state machines check their `TypeOK` too. The three
violations are findings in `PROJECT.json`, with the sentence of the repository
each contradicts.

### Bounds and why they are enough

- `Transmitter`: a late ACK needs a telegram before and one after the one it
  hits, so `MaxWrites` is 3; a gate forced open twice needs `MaxPriority` 2; with
  `SeqModulus` 2 the third telegram has the number of the first. The proofs remove
  these bounds.
- `TunnelClient`: `MaxQueue` only stops new traffic; packets the client sends on
  its own account (heartbeat, acknowledgement, disconnection) are always queued.
- `TunnelServer`: two clients more than sessions and one channel more, so that
  eviction, refilling and reuse all happen. The proofs remove the bounds.
- `SecureTunnel`: with three numbers two raw telegrams take them once round, so that
  the next number is again that of the last telegram; a second status begins a second
  delay, and brings a second CONNECT_RESPONSE.
- `RoutingClient`: one clock value is enough for a reload within a millisecond,
  two timer values for a timer of others behind and ahead of the own one.
- `SerialLink`: two connections give a driver that is left and one that is current.
  `EveryAwaitIsTimed`, `QueueDrains` and `CallsEnd` are those of a patient application:
  a `Disconnect()` during `open()` takes its waiter, or loses its own to the next
  attempt of the reset, and one of the two hangs.
- `MessagePath`: the calls take values where an encoding changes (ends of ranges,
  the 6-bit payload, powers of two of the float, lengths of texts). A conversation
  has one call, or two of those in `Cuttable`: these are cut into chunks of 1, 2, 6
  and 45 octets (a single octet, less than a header, a header, more than a frame). The
  answers of a discovery are plain and extended, from two ports, with and without
  an area in the address.
- `CHECK_DEADLOCK FALSE` throughout: an application may make no further call, every
  bounded conversation ends, and a closed client is final.

### Fairness

Weak fairness, and only for what Node delivers by itself: the callback of a send,
the pacing delay, timers that are armed, events of a socket that was opened or
closed, the continuations of awaits, the opening and closing of a port. None is
assumed of the application, of the network or of the gateway. `Prompt` says that a
send callback and the pacing delay (25 ms) come before the ACK timer (1 s).
`EventuallySent` relies on the client's own packets being finitely many in the
instance; `LeavingEnds` on a gateway that does not repeat DISCONNECT_REQUEST within
each second for ever, as every repeat arms the timer again.

## 4. Proofs

Each module of proofs rests on the named assumptions on the constants in the
module it is about, and on nothing else; TLC evaluates them in the runs. The
theorems hold for every value of the constants, so that the bounds of the runs,
which they keep as constants, are no limits: "telegrams" below are as many as the
application writes.

| Theorem | Property | For every value of |
|---|---|---|
| `Transmitter_proofs!InductiveInvariant` | `IInv` | `MaxWrites`, `MaxPriority`, `SeqModulus`, `SuppressAck`, `Prompt` |
| `TypeCorrect` | `TypeOK` | the same |
| `NoWakeupIsLost` | `NoLostWakeup` | the same |
| `GateIsOwned` | `GateOwned` | the same |
| `RetriesAreBounded` | `RetryBound` | the same |
| `TelegramsInOrder` | `SentInOrder` | the same |
| `TelegramsNotSkipped` | `NoneSkipped` | the same |
| `TunnelClient_proofs!InductiveInvariant` | `IInv` | `Channels`, `MaxWrites`, `MaxQueue`, `SniffingMode`, `SuppressAck`, `Reentrant` |
| `TypeCorrect` | `TypeOK` | the same |
| `ChannelIsHeld` | `ChannelWhileConnected` | the same |
| `QueueStaysAlive` | `QueueAlive` | the same |
| `HeartbeatIsScheduled` | `HeartbeatScheduled` | the same |
| `TimersAlwaysHaveSocket` | `TimersHaveSocket` | the same |
| `ImplementsLifecycle` | `Lifecycle` | the same |
| `TeardownsClose` | `EachTeardownCloses` | the same, without `Reentrant` |
| `TunnelServer_proofs!TypeCorrect` | `TypeOK` | `Clients`, `MaxSessions`, `MaxChannel`, `SeqModulus`, with `MaxSessions <= MaxChannel` |
| `ChannelsArePartitioned` | `ChannelsPartitioned` | the same |
| `SessionTableSound` | `SessionTable` | the same |
| `AnnouncedSessionsLive` | `AnnouncedLive` | the same |
| `SessionsEndForCause` | `EndsForCause` | the same |
| `ChannelsAreStable` | `ChannelStable` | the same |
| `RoutingClient_proofs!InductiveInvariant` | `IInv` | `Groups`, `KeyedGroups`, `TimerValues`, `ClockValues`, `MaxWrites`, `MaxSearches` |
| `TypeCorrect` | `TypeOK` | the same |
| `RoutingIsProtected` | `ProtectedOnTheWire` | the same |
| `NumbersIncrease` | `DataSecureSeqIncreases` | the same |
| `SecureTunnel_proofs!InductiveInvariant` | `IInv` | `MaxWrites`, `MaxRaw`, `MaxStatuses`, `MaxQueue`, `SeqModulus` of 2 or more |
| `TypeCorrect` | `TypeOK` | the same |
| `HandshakeIsInOrder` | `HandshakeInOrder` | the same |
| `NumbersRepeatByWrap` | `SeqRepeatedOnlyByWrap` | the same |
| `SerialLink_proofs!InductiveInvariant` | `IInv` | `MaxConnects`, `MaxWrites`, `IsKBERRY`, `Patient` |
| `TypeCorrect` | `TypeOK` | the same |
| `PromisesAreAwaited` | `NoPromiseLeftBehind` | the same |
| `Telegrams_proofs!RoutingRoundTrip`, `TunnelingRoundTrip` | what `toBuffer` writes `parseMessage` reads | every message, channel, number |
| `ServerForwards`, `ServerDelivers` | the server passes on the telegram it received | every message, assigned address, channel, number |
| `AddressesAreRead`, `GroupTelegramsAreRead`, `RawBuffersFit` | the receiver reads the service, the group and the value of the call | every call, valid group, value of up to 254 octets |
| `SessionRoundTrip`, `MulticastRoundTrip` | a wrapper opens to the frame in it | every frame whose wrapper fits the length field, key, session, number, serial, tag |
| `DataSecureRoundTrip` | a secured telegram is one that frames carry, and opens to its service and value | every group telegram of up to 241 octets, key, number, assigned address |
| `StreamIsRecovered` | TunnelTCP hands out the frames of a stream, whole and in order, however it is cut | every stream of frames of at least a header, every division into chunks |
| `LineIsRecovered` | the FT1.2 driver takes the units of a line one by one, with their frames and acknowledgements, however it is cut | every line of whole units, every division into chunks |
| `LineUnitsAreRead` | an acknowledgement, a short frame and a long frame are such units, and give what was put into them | every payload of 1 to 254 octets, both frame count bits |
| `SerialRoundTrip` | an indication put into a long frame is the one the client reads | every indication the interface sends |
| `MessagePath_proofs!AnswersAreRead` | a search response is read as the device wrote it: address, name, families, secured families | every device of `AnswersAssumption`: any address and port, name of up to 30 octets, up to 126 families |
| `DiscoveryAlwaysConverges` | `DiscoveryConverges` | `Answers`, `KeyringFile`, `Peer`, with the assumptions of `MessagePath` on them |
| `FramesAlwaysSurvive` | `FramesSurvive`, where `Linked`, and without control packets or with `ControlsRead` | `Calls`, `Cuttable`, `ChunkSizes`, `Controls`, `KeyringFile`, with the same assumptions |
| `TelegramsAlwaysSurvive` | `TelegramSurvives`, where `Linked` and `Keyed`, with `ValuesRead` | the same |

**Queue.** The lemmas about `SendQueue` say, for any set of packets, that `handleKNXQueue`
restores `Sound` (the queue has its type, is awake when a packet may be sent, and a
closed gate has its timer) from the type and the ownership alone, and then the same
of the other queue operations; `LoopType` is what is left of it for the clients that
have no such timer. The proofs of the clients cite these lemmas and do not expand the queue.

**Transmitter.** Its properties are not inductive. `IInv` adds `Known` (every
telegram in the queue has been written), `Ordered` (the telegrams waiting are in
the order of their writing, none is older than the last one sent, and the timer is
that one's, which then does not wait), `Counted` (the transmissions not yet settled
are accounted for by the failure counter, a repetition that waits included) and
`Complete` (the telegrams that wait are consecutive, up to the last one written, so
that the next to leave succeeds the last, unless a failed send has emptied the queue).
Each action is a composition of queue operations, so that the lemmas follow them:
`AppendTelegram`, `PushControl`, `PushRepetition` say what `Ordered` becomes,
`SameTelegrams` and `SettledTelegrams` that a step leaves it, `HandleStep` with
`DispatchTelegram` and `DispatchControl` what sending the head does.

**TunnelClient.** A handler is a composition of methods that are operators from
client to client. One lemma per method says that it keeps `Steady` (what timers,
channel, socket, closing function and queue are in each state) and, where it keeps
it, `Beating` (the heartbeat timer runs while CONNECTED, which the middle of
`runHeartbeat` does not satisfy); the steps cite the methods they call. The step is
then one of four, seen from outside: `Silent`, `Begins`, `Succeeds`, `Ends`, and each
maps to a step of `ConnectionLifecycle` or to a stutter (`ImplementsLifecycle`), with
re-entrant listeners. `EachTeardownCloses` needs their absence: TLC refutes it
otherwise (`Disconnect()` inside a listener, section 5).

**TunnelServer.** `Tables` joins the partition, the session table and the announced
sessions: no one of them is inductive without the others. `CloseTables` and
`OpenTables` prove it of `closeSession` and of the insertion, `PoolNotEmpty` that a
channel is free after room was made (the only use of `MaxSessions <= MaxChannel`),
`EnsureStep` and `CloseStep` the action properties.

**RoutingClient.** Protection is decided when a telegram leaves, so `IInv` says that
a client that carries one, in its queue or on its way, still has the keys it was
written under, whatever reloads lie between (`Carries`), and that the next number of
Data Secure is above all on the wire (`Ahead`), although a reload sets it anew from
the clock.

**SecureTunnel.** `IInv` states for each value of `_secureHandshakeState` what the
gateway has received (`Staged`, `Delayed`, `Opened`), that nothing of the tunnel
exists before CONNECT_RESPONSE (`Tunnelled`), that the CONNECT_REQUESTs received and the
delays that are running are together no more than the statuses (`Delayed`), and that
the next number is, round the modulus, ahead of the last one on the wire by one and
the raw telegrams in between, which take numbers that are never sent (`Counted`).

**SerialLink.** For any application: `Awaited` says that the waiter of a driver is a
call, or the loop, that is awaiting it now, and nobody else's. It is kept because
whoever goes on, gives up or is rejected has first been taken off the driver
(`Arm`), although drivers that were left go on beside the current one and can start
the loop of the queue (`setDisconnected` opens the gate); that needs `Unmade`, a driver not
made yet does nothing, so that `Connect()` finds its own one fresh. The converse, that
a call which awaits is the waiter, is `EveryAwaitIsTimed`: it is false
without `Patient` and not a theorem.

**Messages.** A buffer is described from an offset to its end, and each field read
moves the offset. `NPDURead`, `CEMIRead` and `HeaderRead` give the packets,
`GroupTelegram` what `write`, `writeRaw`, `respond`, `respondRaw` and `read` put into
one. `Undone` proves octet by octet that the key stream added is the one subtracted;
`MacType`, over the recursive function `Digest`, uses induction (`Inductive`, from the
well-foundedness of the numbers). `DataSecureRoundTrip` concludes `Sendable`, so that
the round trips of the frames apply to a secured telegram too. The cipher is that of
the model (section 2): these theorems say that both ends use it over the same
octets, with the same counter and MAC input, not that AES is sound.
`StreamIsRecovered` and `LineIsRecovered` share their argument. What is on the line
is a sequence of parts with known ends (`Parts`); a loop that takes the part at the
head of its buffer when all of it is there (`StepOfStream`, `StepOfLine`) stops, for
each chunk, where the next part is incomplete (`Ended`, `RunToEnd`), because the
number of turns it is given is enough; and `CutAnywhere` carries this over the chunks
to `Recovered`. A frame of TCP has a header of 6 octets, which gives the bound of
`TcpFrames`, a sixth of the buffer; a total length below 6 is outside the hypothesis
(`Stream`). On the serial line `HeadOfLine` says that the size of a unit can be told
from the octets that are there, or that these are too few for any unit of that kind.

**Discovery.** The results of the three calls are kept by name and merged as answers
come, and `DiscoveryInv` says that they are a function of the set of answers heard
(`CollectedBy`), in whatever order and number they came. It rests on `AnswersAreRead`: the layout of
a response (`BodyOfAnswer`), the loop over its blocks, which skips the
ones the client does not know (`BlocksSettle`), and the printed fields, from which the
device can be told (`FieldsAreAnswer`). `EntryCollected` then says what one answer
changes, for each call, and `PeerIsTaken` with `DescendingFirst` that the candidates of
the secure client, sorted by their address, come from the device at the configured
address. `AnswersAssumption` and `HostsAssumption` are what makes the fields of a
result mean a device: its address is unicast, one port of an address is one device, and
the name has no colon, which separates the fields in the keys of the maps.

**Conversations.** `FramesSurvive` and `TelegramSurvives` speak of whole conversations:
what the receiver has, of what was sent, at every point of every delivery. `PathInv`
describes a conversation by a part for each transport.
- `DatagramInv`: a call is one datagram; as many were delivered as messages are
  received, and each of those under way would be read as the message of its call
  (`Arrives`).
- `TcpInv`: there are a buffer `w`, everything that was written, and the ends `at` of
  its frames, one frame per call, so that the line is `w` from the octet `count` on, the
  frames read are those that end by then, and the rest is what lies between. `w` and `at`
  are nowhere in the state: the invariant says that they exist, and each step names the
  next ones (`PartAdded`).
- `SerialInv` adds to these, as a call puts several units on the line, two counts:
  `fr[i]` telegrams and `ak[i]` acknowledgements are among the first `i` units (`Laid`).
  A chunk takes the units that end in it (`ChunkOfLine`), so that the messages and the
  acknowledgements received are the counts there (`ReadTo`).
- `ControlInv` and `HeardInv` describe the one control packet of a conversation, and
  `ObservedInv` what the tunnelling server reports.

That each of these is kept needs what its transport does to a telegram:
`MulticastArrives`, `UdpArrives`, `TcpArrives`, `SecureMulticastArrives` and
`SerialArrives` compose the theorems about octets above along the way of a call, from
`CallIsSent` (what `write`, `respond` and `read` hand to the transport) over Data
Secure (`TelegramSealed`, `TelegramOpened`), the wrapper, the server or the bus interface,
to the receiver. They are stated of a receiver given by its transport, address and
keys (`Reader`), so that a step that changes none of these keeps what was shown of
the others.

The assumptions on the constants are what the code relies on. `ContentAssumption`: a
group has three levels (two-level groups have other numbers in packets than in the
keyring, section 5), a raw call gives the octets its bits need, and a value leaves Data
Secure its room in the telegram, 241 octets, which every registered type does.
`KeysAssumption` and `SendersAssumption`: what the keyring holds are keys and
addresses, and a group with a key has a sender: without one the
client would send under its own address, which `FramesSurvive` does not allow. The
hypotheses of the theorems are states and instances, not restrictions of the code:
- `Linked`: over secure routing the receiver has the backbone key. With another
  one it hears nothing, which TLC checks: the MAC of the model is a sum, which some
  other key may happen to match.
- `Keyed`: the receiver has the group keys of the project, over the transports with
  Data Secure. For the same reason a receiver with others is left to TLC.
- `ValuesRead`: the types of the calls read back the values they were given. Every
  value of the instance does, which the run `codecs` checks with `TelegramSurvives`,
  for each registered type at the values where its encoding changes; that the values
  of all types do is not proved.
- `ControlsRead`: the packets of `Controls` are read as they were sent; likewise, with
  `FramesSurvive`.

Each inductive invariant was an invariant of a TLC run before it was proved
(`Transmitter` 39,872 states, `TunnelClient` 757,151, `RoutingClient` 265,030,
`SecureTunnel` 462,102, `SerialLink` up to 1,290,674 for the four combinations of
`Patient` and the interface, `MessagePath` 13,227), except the parts of `PathInv`
that say that a buffer exists, which TLC cannot enumerate.

Model-checked only:
- liveness (`EventuallySent`, `EventuallySettled`, `DeadGatewayDetected`,
  `LeavingEnds`, `DisconnectedReported`, `SessionIsLive`, `DiscoverySpeaks`,
  `QueueDrains`, `CallsEnd`): fairness and ENABLED are outside TLAPS;
- that the datapoint types read back their values, and the receiver the control packets,
  on the instance (`ValuesRead`, `ControlsRead`);
- that a receiver with a wrong backbone or group key has nothing, which the cipher
  of the model does not have for every key.

## 5. Observations

Behaviour met while modelling that no sentence of the repository contradicts, so
that it is modelled and not a finding.

Tunnelling over UDP:
- An unanswered CONNECT_REQUEST leaves the client CONNECTING; the timer only emits
  `error`.
- After a socket error `socketReady` stays FALSE: nothing is sent, while heartbeats
  and acknowledgements are queued.
- Telegrams queued before a DISCONNECT_REQUEST are still sent on the channel given
  up; `Disconnect()` without a channel stays DISCONNECTING.
- CONNECTIONSTATE_RESPONSE counts for any channel. A repeated TUNNELING_REQUEST is
  acknowledged and delivered again, by client and server. An unexpected ACK ends
  the retransmission of another telegram; after a packet with priority the gate is
  open while an ACK is awaited.
- `Disconnect()` from inside a listener may lose `disconnected`.

Secure tunnelling over TCP:
- The delay before CONNECT_REQUEST ends in an exception when the session has ended
  meanwhile. The handshake timers only emit `error`, and survive the teardown; a
  refused CONNECT_RESPONSE leaves CONNECTING.
- A second SESSION_STATUS during the delay sends a second CONNECT_REQUEST. Raw telegrams
  consume two numbers, so that with 255 of them queued before another telegram reaches the
  gateway the number of the last one comes again. An exception in one frame postpones the frames
  behind it to the next chunk. `secureDecrypt` does not verify the MAC. Data Secure
  works in place, on the object that `write` has echoed as an indication.
- The branch of 1244-1258 and `secureConnectWithIaDiscovery` (2611-2726) are not
  reachable.

Routing:
- A frame 0950 before `Connect()` authenticates the timer without `connected`, which
  only 0955 emits then; the own TimerNotify, looped back, authenticates too.
- TimerNotify is sent only if the keyring is loaded 120 ms after the binding. A failed
  reload that is not awaited ends the process. The routing timer may go backwards.
- Sending with secure multicast replaces the client's own address for good by a
  sender the keyring allows.
- A failed send empties the queue, a search in it included.

Serial line:
- `exitProcessingKNXQueueLoop` is not reset: a serial client that reconnects after
  `Disconnect()` sends nothing more.
- A failed write leaves a promise without a handler, whose rejection ends the process.
- A late `close` event (2 s) or the `finally` of an old `close()` takes down a newer
  connection; two closes of one driver hang the first; a send without a driver never
  settles. `pendingAck`'s spare counter is never incremented; `lastCloseAt` is not
  read in time to matter.

Octets and values:
- Two-level group addresses are `main << 8 | sub` in packets, printed with three
  levels, and `main << 11 | sub` in the keyring: a secured one leaves in plain.
- The device name is written as numbers, secured families as plain ones, additional
  information is cut at the wrong place, `LDataCon.toBuffer` throws, the current
  configuration has the type of another block, `KNXAddresses` does not parse.
- A decrypted octet below 64 is folded into the APCI. A 16-bit float above its range
  runs into the sign; out-of-range values of DPT5 are sent raw; `daliAddress` 64
  pushes a flag out; missing fields and unknown names of DPT3 and DPT60002 are 0; an
  encoder that returns null sends a 0. `resolve` without subtype throws for types
  without `001`.
- The printed address of a device in area 0 has two levels (DeviceInfo.ts:159-166),
  where `KNXAddress` prints three. It matches no host of the keyring, so that all
  interfaces of type Tunneling become candidates, those of other gateways included; this
  is why `DiscoveryConverges` asks for `peer[1] # 0`. The first response decides the transport `discoverInterfaces` shows.

## 6. Not modelled

- `AdditionalInfo`, `TLVInfo` and the configuration DIBs: nothing the library sends
  or reads contains them; the content of BAOS frames, only that they are not telegrams.
- The octets of the session frames (KNXClient.ts:4427-4503) and of TimerNotify
  (4101-4155): `SecureTunnel` and `RoutingClient` keep their kind, their order, and
  for TimerNotify the timer.
- AES, PBKDF2, X25519 and XML: a cipher is what the same key undoes. That two keys
  never agree is an assumption about the ciphers.
- `getGatewayDescription` (a timer around one datagram), the choice of local
  interfaces, the sniffing output, logging: calls of the operating system and text.
- Durations, beyond the order in which timers started together end.

Hazards without a property have a note in `PROJECT.json`: for CONNECTION, for the
socket error, for two-level addresses, for `Disconnect()` without a channel or during
the `open()` of a serial port, for telegrams on a channel being given up and for the
exception of the secure tunnel's delay, the repository states no intention to hold the
code to; whom a late ACK was meant for is in no state; more than 255 sessions are
excluded by assumption.

Further work: `TunnelLink`, client and server over one lossy network, for the repeated
TUNNELING_REQUEST.
