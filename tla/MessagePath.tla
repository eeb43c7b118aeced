------------------------------ MODULE MessagePath ------------------------------
\* The way of a message through the library: discovery of a gateway, the call of
\* the application, the octets on the line, the receiver and the value it reads.
\*
\* One client finds a gateway and sends; another receives, as an application with
\* its own keyring password would.  Over UDP the library's tunnelling server and
\* its routing bus are between them; the gateway of TunnelTCP and the interface of
\* the serial line are outside and do what the standard says.
EXTENDS Discovery

CONSTANTS
    Answers,        \* search responses on the network: ip, port, name, ia,
                    \* families, extended, and the secured families if any
    KeyringFile,    \* of the project
    Peer,           \* the configured gateway, <<ip, port>>
    Calls,          \* calls of the application, a sequence
    Cuttable,       \* indices of those whose octets may arrive in chunks
    ChunkSizes,     \* of these sizes
    Controls        \* other packets, a sequence, sent over UDP

Port(a) == IF a.port = 0 THEN 3671 ELSE a.port
IsAddress(digits) ==
    /\ digits \in Seq(Nat) /\ Len(digits) = 3
    /\ digits[1] <= 15 /\ digits[2] <= 15 /\ digits[3] <= 255
IsFamilies(families) ==
    /\ families \in Seq(Octet) /\ Len(families) <= 126
    /\ \A i, j \in 1 .. Len(families) : families[i] = families[j] => i = j
\* A device has a unicast address and its own port there; its name ends where its
\* zeros begin and has no colon, which separates the fields of a result.
ASSUME AnswersAssumption ==
    \A a \in Answers :
        /\ a.ip \in Seq(Octet) /\ Len(a.ip) = 4 /\ a.ip # RoutingHost[1]
        /\ a.port \in Nat /\ a.port <= 65535 /\ IsAddress(a.ia)
        /\ a.name \in Seq(Octet \ {0, 58}) /\ Len(a.name) <= 30
        /\ IsFamilies(a.families) /\ a.extended \in BOOLEAN
        /\ a.secured = <<>> \/ (Len(a.secured) = 1 /\ IsFamilies(a.secured[1]))
ASSUME HostsAssumption ==
    \A a, b \in Answers : <<a.ip, Port(a)>> = <<b.ip, Port(b)>> => a.ia = b.ia
ASSUME PeerAssumption == Peer[1] # RoutingHost[1]
ASSUME KeyringAssumption ==
    /\ Len(KeyringFile.interfaces) \in Nat
    /\ \A i \in 1 .. Len(KeyringFile.interfaces) :
         LET interface == KeyringFile.interfaces[i]
         IN  /\ IsAddress(interface.individualAddress)
             /\ interface.host = <<>> \/ (Len(interface.host) = 1 /\ IsAddress(interface.host[1]))
ASSUME CallsAssumption == Cuttable \subseteq 1 .. Len(Calls) /\ ChunkSizes \subseteq Nat \ {0}

VARIABLES
    call,       \* the discovery call running: "none", "discover", "detailed", "interfaces"
    heard,      \* the answers its clients have received
    results,    \* what it has collected
    transport,  \* hostProtocol of the connected client, or "none"
    ia,         \* individual address of the secure tunnel
    keys,       \* group keys of the receiver
    backbone,   \* backbone key of the receiver
    sent,       \* what was sent: [control, index, due]; due: its end on the line
    line,       \* octets, or datagrams, under way
    count,      \* octets, or datagrams, delivered
    rest,       \* octets of an incomplete frame
    got,        \* packets and cEMI messages received
    acks,       \* acknowledgements recognised on the serial line
    observed    \* raw telegrams reported by the tunnelling server

discovery == <<call, heard, results>>
link == <<transport, ia, keys, backbone>>
path == <<sent, line, count, rest, got, acks, observed>>
vars == <<discovery, link, path>>

Right == "right"
Credentials(password, isTunnelTCP, iface) ==
    SecureEnsureKeyring([keyring |-> <<KeyringFile>>, knxkeys_password |-> <<password>>,
                         tunnelUserId |-> <<2>>, tunnelUserPassword |-> <<<<112>>>>,
                         tunnelInterfaceIndividualAddress |-> iface], isTunnelTCP)
RightKeys == Credentials(Right, TRUE, <<>>).groupKeys
BackboneKey == Credentials(Right, FALSE, <<>>).backboneKey
Ring == ParseKeyring(KeyringFile, Right)
SessionKey == <<7, 11, 13>>
ReaderKey == <<5, 3, 2>>
Serial == <<0, 1, 2, 3, 4, 5>>
InterfaceAddress == 4096 + 256 + 7      \* 1.1.7, of the bus interfaces outside
AssignedAddress == 65280 + 1            \* 15.15.1, given by the tunnelling server
Now == [day |-> 2, hours |-> 8, minutes |-> 30, seconds |-> 0]

Init ==
    /\ call = "none" /\ heard = {} /\ results = <<>>
    /\ transport = "none" /\ ia = 0 /\ keys = <<>> /\ backbone = <<>>
    /\ sent = <<>> /\ line = <<>> /\ count = 0 /\ rest = <<>> /\ got = <<>> /\ acks = 0
    /\ observed = <<>>

-----------------------------------------------------------------------------
(* Discovery *)

Start(which) ==
    /\ transport = "none"
    /\ call' = which
    /\ heard' = {} /\ results' = <<>>
    /\ UNCHANGED <<link, path>>

\* What a device sends: after the device information comes a block the client
\* skips, then the families, each of version 1.
DeviceBlock(a) ==
    <<54, DEVICE_INFO, 2, 0>> \o U16Bytes(IndividualAddress(a.ia))
      \o (<<0, 0>> \o Serial \o <<224, 0, 23, 12>> \o Serial)
      \o [i \in 1 .. 30 |-> IF i <= Len(a.name) THEN a.name[i] ELSE 0]
Skipped == <<6, 7, 0, 254, 17, 1>>
FamiliesBlock(type, families) ==
    <<2 + 2 * Len(families), type>>
      \o [i \in 1 .. 2 * Len(families) |-> IF i % 2 = 1 THEN families[(i + 1) \div 2] ELSE 1]
AnswerFrame(a) ==
    LET body == HPAIBytes(HPAI(a.ip, a.port, IPV4_UDP)) \o DeviceBlock(a) \o Skipped
            \o FamiliesBlock(SUPP_SVC_FAMILIES, a.families)
            \o (IF a.secured = <<>> THEN <<>>
                ELSE FamiliesBlock(SECURED_SERVICE_FAMILIES, a.secured[1]))
        service == IF a.extended THEN SEARCH_RESPONSE_EXTENDED ELSE SEARCH_RESPONSE
    IN  HeaderBytes(service, Len(body)) \o body

Answer(a) == ParseMessage(AnswerFrame(a))
Hears(which, a) ==
    /\ call = which
    /\ heard' = heard \union {a}
    /\ UNCHANGED <<call, link, path>>
\* The clients of discover, one per interface and protocol, share the results:
\* an answer may come several times and in any order.
Discover(a) ==
    /\ Hears("discover", a)
    /\ \E sr \in {Answer(a)} : results' = AddResultsFromSearch(results, HostOf(a.ip, sr), sr)
DiscoverDetailed(a) ==
    /\ Hears("detailed", a)
    /\ \E sr \in {Answer(a)} : results' = PushDetailed(results, HostOf(a.ip, sr), sr)
DiscoverInterfaces(a) ==
    /\ Hears("interfaces", a)
    /\ \E sr \in {Answer(a)} : results' = PushInterface(results, HostOf(a.ip, sr), sr)

Candidates ==
    SecureGetIaCandidates(IF call = "detailed" THEN results ELSE <<>>,
                          IF call = "discover" THEN results ELSE <<>>,
                          Ring, Peer)
\* Connect() of a secure client without a configured interface: it takes the first
\* candidate and the credentials of that interface.
ConnectSecure(password) ==
    /\ transport = "none"
    /\ call \in {"detailed", "discover"}
    /\ Candidates # Malformed
    /\ transport' = "TunnelTCP"
    /\ ia' = Candidates[1]
    /\ LET credentials == Credentials(password, TRUE, <<Candidates[1]>>)
       IN  credentials # Malformed /\ keys' = credentials.groupKeys
    /\ UNCHANGED backbone
    /\ call' = "none" /\ heard' = {} /\ results' = <<>>
    /\ UNCHANGED path
\* Secure multicast takes the backbone key too.
ConnectSecureRouting(password) ==
    /\ transport = "none" /\ call = "none"
    /\ transport' = "SecureMulticast"
    /\ keys' = Credentials(password, FALSE, <<>>).groupKeys
    /\ backbone' = Credentials(password, FALSE, <<>>).backboneKey
    /\ UNCHANGED <<discovery, ia, path>>
Connect(protocol) ==
    /\ transport = "none" /\ call = "none"
    /\ transport' = protocol
    /\ UNCHANGED <<discovery, ia, keys, backbone, path>>

-----------------------------------------------------------------------------
(* Sending *)

Client == [hostProtocol |-> IF transport = "SecureMulticast" THEN "Multicast" ELSE transport, suppress |-> FALSE, physAddr |-> 65535, channelID |-> 9,
           seq |-> Len(sent)]
PacketOf(c) ==
    CASE c.method = "write" -> Write(Client, c.dst, c.dpt, c.subtype, c.value)
      [] c.method = "respond" -> Respond(Client, c.dst, c.dpt, c.subtype, c.value)
      [] c.method = "writeRaw" -> WriteRaw(Client, c.dst, c.octets, c.bits)
      [] c.method = "respondRaw" -> RespondRaw(Client, c.dst, c.octets, c.bits)
      [] c.method = "read" -> Read(Client, c.dst)
\* A bus interface: what it was asked to send arrives as an indication, one
\* coupler further.
FromBus(cemi, source) ==
    [cemi EXCEPT !.msgCode = L_DATA_IND, !.srcAddress = source, !.control = WithHopCount(@, 5)]
\* The tunnelling server, from one client's request to another's.
ThroughServer(frame) ==
    LET routing(p) == RoutingFromTunneling(p.cEMIMessage, AssignedAddress)[1]
    IN  ToBuffer(TunnelingFromRouting(ToBuffer(routing(ParseMessage(frame))), 3, Len(sent))[1])
\* The secure gateway: the octets that reach the receiver.
Numbered(packet, cemi) == [packet EXCEPT !.seqCounter = Len(sent), !.cEMIMessage = cemi]
Secured(packet) ==
    SecureWrap(ToBuffer(Numbered(packet, MaybeApplyDataSecure(packet.cEMIMessage, RightKeys,
                                                              1000 + Len(sent), ia))),
               SessionKey, 17, Len(sent), Serial)
ThroughGateway(frame) ==
    LET indication(p) == [p EXCEPT !.cEMIMessage = FromBus(@, ia)]
    IN  SecureWrap(ToBuffer(indication(ParseMessage(SecureDecrypt(frame, SessionKey)))),
                   ReaderKey, 18, Len(sent), Serial)
\* Secure multicast: an address the keyring lets send to a secured group becomes
\* the client's own.
SenderOf(c) ==
    IF c.dstAddress \notin DOMAIN RightKeys THEN ia
    ELSE LET current == IF ia # 0 THEN ia ELSE c.srcAddress
             own(picked) == IF picked # current THEN picked ELSE ia
         IN  own(SecurePickSenderIaForGa(Ring, c.dstAddress, current))
SecuredRouting(packet, sender) ==
    LET indication(cemi) == [packet EXCEPT !.cEMIMessage = cemi]
    IN  SecureWrapRouting(
            ToBuffer(indication(MaybeApplyDataSecure(packet.cEMIMessage, RightKeys,
                                                     1000 + Len(sent), sender))),
            BackboneKey[1], 500 + Len(sent), Serial, <<Len(sent), 77>>)
\* The serial interface: the acknowledgement of a frame of the client, then, where
\* the line is cut, a reset and a BAOS frame, which are not telegrams.
OnSerialLine(packet, others) ==
    LET asked == LongFramePayload(LongFrame(CEMIBytes(packet.cEMIMessage), TRUE)).cemi[1]
    IN  <<ACK_BYTE>>
          \o (IF others THEN <<\h10, \h49, \h49, \h16>> \o LongFrame(<<\hF0, \h82, 0>>, FALSE)
              ELSE <<>>)
          \o LongFrame(CEMIBytes(FromBus(ParseCEMI(asked, 0), InterfaceAddress)), TRUE)

Due(octets) == count + Len(line) + Len(octets)
SendsOctets(entry, octets) ==
    /\ sent' = Append(sent, [control |-> entry.control, index |-> entry.index,
                              due |-> Due(octets)])
    /\ line' = line \o octets
    /\ UNCHANGED <<discovery, transport, keys, backbone, count, rest, got, acks>>
OnLine(i, packet, sender) ==
    CASE transport = "TunnelUDP" -> <<ThroughServer(ToBuffer(packet))>>
      [] transport = "Multicast" -> <<ToBuffer(packet)>>
      [] transport = "SecureMulticast" -> <<SecuredRouting(packet, sender)>>
      [] transport = "TunnelTCP" -> ThroughGateway(Secured(packet))
      [] transport = "SerialFT12" -> OnSerialLine(packet, i \in Cuttable)
SendFrom(i, packet, sender) ==
    /\ ia' = sender
    /\ SendsOctets([control |-> FALSE, index |-> i], OnLine(i, packet, sender))
    /\ observed' = IF transport = "TunnelUDP"
                   THEN observed \o RawTelegram(ParseMessage(ToBuffer(packet)).cEMIMessage)
                   ELSE observed
\* A call that throws sends nothing.
SendPacket(i, packet) ==
    /\ packet # Malformed
    /\ SendFrom(i, packet, IF transport = "SecureMulticast" THEN SenderOf(packet.cEMIMessage)
                           ELSE ia)
Send(i) ==
    /\ transport # "none"
    /\ sent = <<>> \/ (Len(sent) = 1 /\ i \in Cuttable /\ ~sent[1].control
                         /\ sent[1].index \in Cuttable)
    /\ SendPacket(i, PacketOf(Calls[i]))
SendControl(i) ==
    /\ transport = "TunnelUDP" /\ sent = <<>>
    /\ SendsOctets([control |-> TRUE, index |-> i], <<PacketToFrame(Controls[i])>>)
    /\ UNCHANGED <<ia, observed>>

-----------------------------------------------------------------------------
(* Receiving *)

\* What a datagram, or a frame of the stream, tells the receiver: nothing when it
\* cannot be read.
Heard(p) ==
    IF p = Malformed THEN <<>>
    ELSE IF p.service_type \in {TUNNELING_REQUEST, ROUTING_INDICATION} THEN <<p.cEMIMessage>>
    ELSE <<p>>
FromDatagram(frame) == Heard(ParseMessage(frame))
Opened(read) == [i \in 1 .. Len(read) |-> MaybeDecryptDataSecure(read[i], keys)]
FromSecureFrame(frame) == Opened(FromDatagram(SecureDecrypt(frame, ReaderKey)))
FromSecureDatagram(frame) ==
    LET opened(inner) == IF inner = Malformed THEN <<>> ELSE Opened(FromDatagram(inner))
    IN  IF backbone = <<>> THEN <<>> ELSE opened(SecureDecryptRouting(frame, backbone[1]))
FromSerialLine(payload) ==
    IF SerialIndication(payload) = Malformed THEN <<>> ELSE <<SerialIndication(payload)>>

Delivers(n) ==
    /\ line' = SubSeq(line, n + 1, Len(line))
    /\ count' = count + n
    /\ UNCHANGED <<discovery, link, sent, observed>>
DeliverDatagram ==
    /\ transport \in {"TunnelUDP", "Multicast", "SecureMulticast"} /\ line # <<>>
    /\ Delivers(1)
    /\ got' = got \o IF transport = "SecureMulticast" THEN FromSecureDatagram(Head(line))
                     ELSE FromDatagram(Head(line))
    /\ UNCHANGED <<rest, acks>>
\* A stream is cut at any octet, by chunks of one, and by larger ones; what need
\* not be cut arrives whole.
Chunks == {n \in {Len(line)} \union (IF \A i \in 1 .. Len(sent) : sent[i].index \in Cuttable
                                   THEN ChunkSizes ELSE {}) : 0 < n /\ n <= Len(line)}
DeliverTcp(n) ==
    /\ transport = "TunnelTCP"
    /\ Delivers(n)
    /\ LET r == TcpFrames(rest \o SubSeq(line, 1, n))
       IN  /\ rest' = r.rest
           /\ got' = got \o FlattenSeq([i \in 1 .. Len(r.frames) |-> FromSecureFrame(r.frames[i])])
    /\ UNCHANGED acks
DeliverSerial(n) ==
    /\ transport = "SerialFT12"
    /\ Delivers(n)
    /\ LET r == LineFrames(rest \o SubSeq(line, 1, n))
       IN  /\ rest' = r.rest
           /\ got' = got \o FlattenSeq([i \in 1 .. Len(r.frames) |-> FromSerialLine(r.frames[i])])
           /\ acks' = acks + r.acks

Next ==
    \/ \E which \in {"discover", "detailed", "interfaces"} : Start(which)
    \/ \E a \in Answers : Discover(a) \/ DiscoverDetailed(a) \/ DiscoverInterfaces(a)
    \/ \E password \in {Right, "wrong"} : ConnectSecure(password) \/ ConnectSecureRouting(password)
    \/ \E protocol \in {"TunnelUDP", "Multicast", "SerialFT12"} : Connect(protocol)
    \/ \E i \in 1 .. Len(Calls) : Send(i)
    \/ \E i \in 1 .. Len(Controls) : SendControl(i)
    \/ DeliverDatagram
    \/ \E n \in Chunks : DeliverTcp(n) \/ DeliverSerial(n)

Spec == Init /\ [][Next]_vars

-----------------------------------------------------------------------------
(* Properties *)

\* The senders of a telegram to a group: over secure multicast those its keyring
\* allows, where it knows the group.
Sources(group) ==
    CASE transport = "TunnelUDP" -> {AssignedAddress} [] transport = "TunnelTCP" -> {ia}
      [] transport = "Multicast" -> {65535} [] transport = "SerialFT12" -> {InterfaceAddress}
      [] transport = "SecureMulticast" ->
           IF group \notin DOMAIN RightKeys THEN {65535}
           ELSE UNION {ToSet(g.senders) : g \in
                  {h \in UNION {ToSet(Ring.interfaces[a].groupAddresses) : a \in DOMAIN Ring.interfaces} :
                     h.address = group}}
\* However the stream is cut, the receiver has exactly the frames whose last octet
\* has arrived, each once and in order, with the addresses and the priority that
\* were sent; acknowledgements, resets and BAOS frames between telegrams are told
\* from them; over secure multicast nothing reaches a receiver with another
\* backbone key (secureOnTcpData, handleChunk, secureDecryptRouting, the packets).
FramesSurvive ==
    /\ Len(got) = IF transport = "SecureMulticast" /\ backbone # BackboneKey THEN 0
                  ELSE Cardinality({i \in 1 .. Len(sent) : sent[i].due <= count})
    /\ \A i \in 1 .. Len(got) :
         IF sent[i].control THEN got[i] = Controls[sent[i].index]
         ELSE /\ got[i].msgCode = L_DATA_IND
              /\ got[i].srcAddress \in Sources(got[i].dstAddress)
              /\ got[i].dstAddress = GroupAddress(Calls[sent[i].index].dst)
              /\ IsGroupAddress(got[i].control) /\ Bits(got[i].control[1], 2, 2) = 3
    /\ transport = "SerialFT12" =>
         acks = Cardinality({i \in 1 .. Len(sent) :
                               count > IF i = 1 THEN 0 ELSE sent[i - 1].due})

\* What a type is known to lose: the resolution of a 16-bit float (one part in
\* 1023) and of a scaled octet, the rest of a text, flags left out, the day of a date.
Near(read, n) ==
    LET size(x) == IF x < 0 THEN -x ELSE x
    IN  size(read - n) = 0 \/ size(read - n) <= size(n) \div 1023
Reads(c, read) ==
    LET v == c.value
    IN  CASE c.dpt = 5 /\ HasScalar(5, c.subtype) -> read - v \in -1 .. 1
          [] c.dpt = 7 -> read = IF v > 65535 THEN 65535 ELSE v
          [] c.dpt = 9 -> Near(read, v)
          [] c.dpt \in {213, 222, 275} -> \A name \in DOMAIN v : Near(read[name], v[name])
          [] c.dpt \in {16, 28} ->
               \A i \in 1 .. Len(read) : read[i] = IF i <= Len(v) THEN v[i] ELSE 0
          [] c.dpt = 19 -> \A name \in DOMAIN v \ {"day"} : read[name] = v[name]
          [] c.dpt \in {22, 60001} -> \A name \in DOMAIN v : read[name] = v[name]
          [] OTHER -> read = v
Carries(c, octets) ==
    CASE c.method \in {"writeRaw", "respondRaw"} -> octets = c.octets
      [] c.method = "read" -> octets = <<0>>
      [] OTHER -> LET read == FromBuffer(c.dpt, c.subtype, octets, Now)
                  IN  read # Malformed /\ Len(read) = 1 /\ Reads(c, read[1])
\* What a call asks to be sent, as octets; a read, which has none, is read as 0.
Content(c) ==
    CASE c.method \in {"writeRaw", "respondRaw"} -> c.octets
      [] c.method = "read" -> <<0>>
      [] OTHER -> PopulateAPDU(c.dpt, c.subtype, c.value)
\* A call names its group by three numbers, since two-level groups have other numbers
\* in packets than in the keyring.  A raw call gives the octets its bits need.  A
\* value, unless its type throws, becomes octets that leave the room Data Secure needs
\* in a telegram.
IsCall(c) ==
    /\ c.dst \in Seq(Nat) /\ Len(c.dst) = 3
    /\ \/ c.method = "read"
       \/ c.method \in {"writeRaw", "respondRaw"} /\ c.bits \in Nat
            /\ Len(c.octets) = (c.bits + 7) \div 8
       \/ c.method \in {"write", "respond"}
    /\ \/ c.method \in {"write", "respond"} /\ ~Resolves(c.dpt, c.subtype)
       \/ c.method \in {"write", "respond"} /\ Content(c) = Malformed
       \/ Content(c) \in Seq(Octet) /\ Len(Content(c)) \in 1 .. 241
\* A call that has octets to send: its type has a decoder, and did not throw.
IsMade(c) ==
    c.method \in {"write", "respond"} => Resolves(c.dpt, c.subtype) /\ Content(c) # Malformed
\* The type of every call reads back the value from the octets it makes of it, and the
\* receiver every control packet: what TelegramSurvives and FramesSurvive rest on
\* beside the path itself.
ValuesRead ==
    \A i \in 1 .. Len(Calls) : IsMade(Calls[i]) => Carries(Calls[i], Content(Calls[i]))
ControlsRead ==
    \A i \in 1 .. Len(Controls) : FromDatagram(PacketToFrame(Controls[i])) = <<Controls[i]>>
ASSUME ContentAssumption == \A i \in 1 .. Len(Calls) : IsCall(Calls[i])
\* Keys are octets; interfaces and senders have addresses, interfaces list their
\* groups, and a group with a key has a sender.
ASSUME KeysAssumption ==
    /\ \A group \in DOMAIN RightKeys : RightKeys[group] \in Seq(Octet)
    /\ \A i \in 1 .. Len(BackboneKey) : BackboneKey[i] \in Seq(Octet)
ASSUME SendersAssumption ==
    /\ 0 \notin DOMAIN Ring.interfaces
    /\ \A a \in DOMAIN Ring.interfaces : Len(Ring.interfaces[a].groupAddresses) \in Nat
    /\ \A i \in 1 .. Len(Calls) :
         LET group == GroupAddress(Calls[i].dst)
         IN  /\ \A a \in AllowedSenders(Ring, group) : a \in Nat /\ 0 < a /\ a <= 65535
             /\ group \in DOMAIN RightKeys => AllowedSenders(Ring, group) # {}
Service(c) == CASE c.method = "read" -> 0 [] c.method \in {"respond", "respondRaw"} -> 1 [] OTHER -> 2
\* The value an application writes is the value another one reads, and the service
\* the service, over every transport and through the tunnelling server, whose raw
\* telegram says the same; a secured group stays closed exactly to a receiver
\* whose keyring password is wrong (dptlib, NPDU, Data Secure, KNXIPTunnelServer).
TelegramSurvives ==
    /\ \A i \in {j \in 1 .. Len(got) : ~sent[j].control} :
         LET c    == Calls[sent[i].index]
             npdu == got[i].npdu
         IN  IF transport = "TunnelTCP" /\ GroupAddress(c.dst) \in DOMAIN keys
                  /\ keys # RightKeys
             THEN IsDataSecure(npdu)
             ELSE Action(npdu) = Service(c) /\ Carries(c, DataValue(npdu))
    /\ \A i \in 1 .. Len(observed) :
         LET c == Calls[sent[i].index]
         IN  /\ observed[i].event = Service(c) /\ observed[i].destination = c.dst
             /\ c.method # "read" => Carries(c, observed[i].data[1])

Entries ==
    LET shown(a) == IF a.ia[1] = 0 THEN Tail(a.ia) ELSE a.ia
    IN  {[of |-> a, host |-> <<a.ip, Port(a)>>, name |-> a.name, ia |-> shown(a),
          type |-> "tunnelling"] : a \in heard}
        \union {[of |-> a, host |-> RoutingHost, name |-> a.name, ia |-> shown(a),
                  type |-> "routing"] : a \in {b \in heard : 5 \in ToSet(b.families)}}
\* The device found at the peer, and the tunnel interfaces the keyring has of a device.
PeersFound ==
    IF call \in {"discover", "detailed"} THEN {e.of.ia : e \in {x \in Entries : x.host = Peer}}
    ELSE {}
HostedBy(digits) ==
    {a \in DOMAIN Ring.interfaces : Ring.interfaces[a].host = <<IndividualAddress(digits)>>}
\* What a discovery collects does not depend on the order of the answers, plain
\* and extended, nor on their repetition: one result per service that was heard of,
\* secure once any answer said so and TCP once any offered secure tunnelling; the
\* secure client then takes an interface of its peer and no other's, unless the
\* area of the peer, which the answers leave out when it is 0, hides it (discover,
\* discoverDetailed, discoverInterfaces, secureGetIaCandidatesByDiscovery).
DiscoveryConverges ==
    LET secured(a, family) == a.extended /\ a.secured # <<>> /\ family \in ToSet(a.secured[1])
        base(e) == [host |-> e.host, name |-> e.name, ia |-> e.ia]
        about(key) == {e.of : e \in {x \in Entries : base(x) = key}}
    IN  /\ call = "discover" =>
             /\ {results[i][1] : i \in 1 .. Len(results)} = {base(e) : e \in Entries}
             /\ \A i \in 1 .. Len(results) : LET r == results[i] IN
                  /\ r[2].secure = \E a \in about(r[1]) : a.extended /\ a.secured # <<>>
                  /\ (r[2].transport = "TCP")
                        = (/\ r[1].host[1] # RoutingHost[1]
                           /\ \E a \in about(r[1]) : secured(a, 4))
        /\ call = "detailed" =>
             {results[i][1] : i \in 1 .. Len(results)}
               = {[host |-> e.host, name |-> e.name, ia |-> e.ia, services |-> e.of.families,
                   type |-> e.type] : e \in Entries}
        /\ call = "interfaces" =>
             {results[i][1] : i \in 1 .. Len(results)} = {<<e.host, e.type>> : e \in Entries}
        /\ Cardinality({results[i][1] : i \in 1 .. Len(results)}) = Len(results)
        /\ \A peer \in PeersFound :
             peer[1] # 0 /\ HostedBy(peer) # {} => Candidates[1] \in HostedBy(peer)
=============================================================================
