----------------------------- MODULE TunnelServer -----------------------------
(***************************************************************************)
(* KNXIPTunnelServer: the sessions of a KNXnet/IP tunnelling server on one *)
(* UDP socket, the pool their channel ids come from, eviction of the       *)
(* oldest session, and the telegrams injected into sessions.  Each action  *)
(* is one handler or one method; the class is single threaded and awaits   *)
(* only the bind and the close of its socket.                              *)
(***************************************************************************)
EXTENDS Integers, Sequences, SequencesExt

CONSTANTS
    Clients,      \* client endpoints, the host:port keys of the session map
    MaxSessions,  \* option maxSessions
    MaxChannel,   \* the largest channel id, 255 in the code
    SeqModulus        \* sequence numbers of a channel, 256 in the code

ASSUME TunnelServerAssumption ==
    /\ MaxSessions \in Nat
    /\ MaxChannel \in Nat \ {0}
    /\ SeqModulus \in Nat \ {0}
    \* Beyond this the pool is refilled with ids that are in use.
    /\ MaxSessions <= MaxChannel

VARIABLES
    socket,     \* "none", "binding", "bound" or "failed" (the bind was refused)
    sessions,   \* clients with a session, in the insertion order of the map
    channelId,  \* their channel ids; NoChannel for the others
    nextSeq,    \* their nextServerToClientSeq; 0 for the others
    pool,       \* channelPool
    announced,  \* history: client and channel of every sessionUp event not yet
                \* followed by a sessionDown
    out         \* frames sent and telegrams forwarded by the last step

vars == << socket, sessions, channelId, nextSeq, pool, announced, out >>
tables == << sessions, channelId, nextSeq, pool, announced >>

NoChannel == 0
Channels == 1 .. MaxChannel
InSession == ToSet(sessions)
\* Mutation: the pool starts at the reserved id 0.
PoolFromZero == [i \in Channels |-> i - 1]

FullPool == [i \in Channels |-> i]
MaxTable == IF MaxSessions = 0 THEN 1 ELSE MaxSessions

Services == {"CONNECT_RESPONSE", "CONNECTIONSTATE_RESPONSE", "DISCONNECT_RESPONSE",
             "TUNNELING_ACK", "TUNNELING_REQUEST", "busFrameOut"}
Frame(c, service, channel, ok, seq) ==
    [client |-> c, service |-> service, channel |-> channel, ok |-> ok, seq |-> seq]

Init ==
    /\ socket = "none"
    /\ sessions = << >>
    /\ channelId = [c \in Clients |-> NoChannel]
    /\ nextSeq = [c \in Clients |-> 0]
    /\ pool = FullPool
    /\ announced = {}
    /\ out = {}

----------------------------------------------------------------------------
\* Mutation: a freed channel is not put back.
LeakChannelId(p, channel) == p

\* freeChannelId: back at the front of the pool, to be handed out next.
FreeChannelId(p, channel) ==
    IF channel \in ToSet(p) THEN p ELSE << channel >> \o p

\* allocateChannelId takes the head of this.
Available(p) == IF p = << >> THEN FullPool ELSE p

\* closeSession: the client leaves the map, its channel is free again, and
\* sessionDown is emitted.
CloseSession(c) ==
    /\ sessions' = RemoveAt(sessions, CHOOSE i \in DOMAIN sessions : sessions[i] = c)
    /\ channelId' = [channelId EXCEPT ![c] = NoChannel]
    /\ nextSeq' = [nextSeq EXCEPT ![c] = 0]
    /\ pool' = FreeChannelId(pool, channelId[c])
    /\ announced' = announced \ {<< c, channelId[c] >>}

\* ensureSession for a client that has none, the table not being full.
OpenSession(c) ==
    /\ sessions' = Append(sessions, c)
    /\ channelId' = [channelId EXCEPT ![c] = Head(Available(pool))]
    /\ nextSeq' = [nextSeq EXCEPT ![c] = 0]
    /\ pool' = Tail(Available(pool))

\* ensureSession for a client that has none, the table being full: the oldest
\* session is closed, and its channel is the one allocated.
ReplaceOldest(c) ==
    LET oldest == Head(sessions)
        freed == Available(FreeChannelId(pool, channelId[oldest]))
    IN  /\ sessions' = Append(Tail(sessions), c)
        /\ channelId' = [channelId EXCEPT ![oldest] = NoChannel, ![c] = Head(freed)]
        /\ nextSeq' = [nextSeq EXCEPT ![oldest] = 0, ![c] = 0]
        /\ pool' = Tail(freed)

\* Mutations: one session too many; one too few.
TableOverfull == sessions # << >> /\ Len(sessions) > MaxSessions
TableFullEarly == sessions # << >> /\ Len(sessions) + 1 >= MaxSessions

TableFull == sessions # << >> /\ Len(sessions) >= MaxSessions

\* Mutation: a known client gets another session.
EnsureNewSession(c) ==
    \/ ~TableFull /\ OpenSession(c)
    \/ TableFull /\ ReplaceOldest(c)

EnsureSession(c) ==
    \/ c \in InSession /\ UNCHANGED << sessions, channelId, nextSeq, pool >>
    \/ c \notin InSession /\ ~TableFull /\ OpenSession(c)
    \/ c \notin InSession /\ TableFull /\ ReplaceOldest(c)

\* Mutation: an eviction is silent.
EvictedSilently(c) == {}

\* sessionDown of the session EnsureSession(c) evicts.
Evicted(c) ==
    IF c \notin InSession /\ TableFull
    THEN {<< Head(sessions), channelId[Head(sessions)] >>}
    ELSE {}

----------------------------------------------------------------------------
\* start() returns at once when a socket exists, bound or not.
Start ==
    /\ socket = "none"
    /\ socket' = "binding"
    /\ out' = {}
    /\ UNCHANGED tables

\* A refused bind rejects the promise of start() and leaves the socket set.
Bind ==
    /\ socket = "binding"
    /\ socket' \in {"bound", "failed"}
    /\ out' = {}
    /\ UNCHANGED tables

Stop ==
    /\ socket' = "none"
    /\ sessions' = << >>
    /\ channelId' = [c \in Clients |-> NoChannel]
    /\ nextSeq' = [c \in Clients |-> 0]
    /\ pool' = FullPool
    /\ announced' = announced \ {<< c, channelId[c] >> : c \in InSession}
    /\ out' = {}

\* CONNECT_REQUEST.  The session is ensured before the connection type is
\* looked at: a refused type has evicted, and holds a channel, all the same.
ConnectRequest(c, isTunnel) ==
    /\ socket = "bound"
    /\ EnsureSession(c)
    /\ announced' = (announced \ Evicted(c))
                        \cup (IF isTunnel THEN {<< c, channelId'[c] >>} ELSE {})
    /\ out' = {Frame(c, "CONNECT_RESPONSE", channelId'[c], isTunnel, 0)}
    /\ UNCHANGED socket

Owns(c, channel) == c \in InSession /\ channel = channelId[c]

ConnectionStateRequest(c, channel) ==
    /\ socket = "bound"
    /\ out' = {Frame(c, "CONNECTIONSTATE_RESPONSE", channel, Owns(c, channel), 0)}
    /\ UNCHANGED << socket, tables >>

\* A request for another channel is refused, but the session is closed.
DisconnectRequest(c, channel) ==
    /\ socket = "bound"
    /\ out' = {Frame(c, "DISCONNECT_RESPONSE", channel, Owns(c, channel), 0)}
    /\ IF c \in InSession
       THEN CloseSession(c)
       ELSE UNCHANGED tables
    /\ UNCHANGED socket

\* Acknowledged and, when it is bus data (L_DATA_REQ, L_DATA_IND), forwarded,
\* whatever its sequence number: a repetition is forwarded again.
TunnelingRequest(c, channel, seq, isData) ==
    /\ socket = "bound"
    /\ out' = {Frame(c, "TUNNELING_ACK", channel, Owns(c, channel), seq)}
                \cup (IF Owns(c, channel) /\ isData
                      THEN {Frame(c, "busFrameOut", channel, TRUE, seq)} ELSE {})
    /\ UNCHANGED << socket, tables >>

\* sendCemiToClient, for every session of S; without a socket the sequence
\* number is spent and nothing is sent.
SendCemi(S) ==
    /\ nextSeq' = [c \in Clients |-> IF c \in S THEN (nextSeq[c] + 1) % SeqModulus
                                               ELSE nextSeq[c]]
    /\ out' = IF socket = "none" THEN {}
              ELSE {Frame(c, "TUNNELING_REQUEST", channelId[c], TRUE, nextSeq[c]) : c \in S}
    /\ UNCHANGED << socket, sessions, channelId, pool, announced >>

\* injectBusFrame, injectIndication, injectCemi.
Inject == InSession # {} /\ SendCemi(InSession)

\* The same to one channel: the first session that has it.
InjectToChannel(channel) ==
    /\ \E c \in InSession : channelId[c] = channel
    /\ LET i == CHOOSE k \in DOMAIN sessions :
                    /\ channelId[sessions[k]] = channel
                    /\ \A j \in 1 .. k - 1 : channelId[sessions[j]] # channel
       IN  SendCemi({sessions[i]})

Next ==
    \/ Start
    \/ Bind
    \/ Stop
    \/ Inject
    \/ \E channel \in Channels : InjectToChannel(channel)
    \/ \E c \in Clients :
          \/ \E isTunnel \in BOOLEAN : ConnectRequest(c, isTunnel)
          \/ \E channel \in Channels \cup {NoChannel} :
                \/ ConnectionStateRequest(c, channel)
                \/ DisconnectRequest(c, channel)
                \/ \E seq \in 0 .. SeqModulus - 1, isData \in BOOLEAN :
                      TunnelingRequest(c, channel, seq, isData)

Spec == Init /\ [][Next]_vars

----------------------------------------------------------------------------
\* The state has its type.
TypeOK ==
    /\ socket \in {"none", "binding", "bound", "failed"}
    /\ sessions \in Seq(Clients)
    /\ channelId \in [Clients -> Channels \cup {NoChannel}]
    /\ nextSeq \in [Clients -> 0 .. SeqModulus - 1]
    /\ pool \in Seq(Channels)
    /\ announced \subseteq Clients \X Channels
    /\ out \subseteq [client : Clients, service : Services, ok : BOOLEAN,
                      channel : Channels \cup {NoChannel}, seq : 0 .. SeqModulus - 1]

\* Every channel id is in exactly one place, once: in the pool or with one
\* session.  None leaks and no two sessions share one, through any sequence of
\* connections, evictions, disconnections and restarts.
ChannelsPartitioned ==
    /\ \A i, j \in DOMAIN pool : i # j => pool[i] # pool[j]
    /\ \A c, d \in InSession : c # d => channelId[c] # channelId[d]
    /\ ToSet(pool) \cup {channelId[c] : c \in InSession} = Channels
    /\ ToSet(pool) \cap {channelId[c] : c \in InSession} = {}

\* The table holds each client once, those with a channel, and no more of them
\* than the option allows.
SessionTable ==
    /\ \A i, j \in DOMAIN sessions : i # j => sessions[i] # sessions[j]
    /\ \A c \in Clients : c \in InSession <=> channelId[c] # NoChannel
    /\ Len(sessions) <= MaxTable

\* A consumer that follows sessionUp and sessionDown never believes in a
\* session, or in a channel of it, that the server has dropped.
AnnouncedLive == \A a \in announced : a[1] \in InSession /\ channelId[a[1]] = a[2]

\* A session ends by its own client's request, by a stop, or because it is the
\* oldest of a full table and another client connects.
EndsForCause ==
    [][\A c \in InSession \ InSession' :
          \/ socket' = "none"
          \/ \E f \in out' : f.service = "DISCONNECT_RESPONSE" /\ f.client = c
          \/ /\ c = Head(sessions)
             /\ Len(sessions) = MaxTable
             /\ \E f \in out' : f.service = "CONNECT_RESPONSE" /\ f.client \notin InSession]_vars

\* Once a client holds a channel it keeps it: no step moves a session to
\* another channel or hands its channel to another client in the same step,
\* unless the session ended.
ChannelStable ==
    [][\A c \in InSession \cap InSession' : channelId'[c] = channelId[c]]_vars
=============================================================================
