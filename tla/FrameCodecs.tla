---------------------------- MODULE FrameCodecs ----------------------------
\* The octets of KNXnet/IP packets and of the cEMI messages they carry: what
\* toBuffer() writes and what createFromBuffer() accepts and reads.
\*
\* A Buffer is a sequence of octets; offsets count from 0 as in the code.  A field
\* that may be null is a sequence of at most one element.
EXTENDS Integers, Sequences, FiniteSets, SequencesExt

CONSTANT Malformed          \* what a call that throws yields

Octet == 0 .. 255
Byte(b, o) == b[o + 1]
U16(b, o) == 256 * Byte(b, o) + Byte(b, o + 1)
U16Bytes(n) == <<n \div 256, n % 256>>
Low(n, w) == n % (2 ^ w)                      \* the low w bits
Bits(n, at, w) == (n \div 2 ^ at) % 2 ^ w     \* w bits from bit "at"
WithBits(n, at, w, v) == n + (v - Bits(n, at, w)) * 2 ^ at
\* buffer.subarray(from, to), clipped as Node clips it.
Sub(b, from, to) == SubSeq(b, from + 1, IF to > Len(b) THEN Len(b) ELSE to)
\* The length octet at o stays inside the buffer: the check of every structure.
Structure(b, o) == o < Len(b) /\ o + Byte(b, o) <= Len(b)

SEARCH_REQUEST == \h0201
SEARCH_RESPONSE == \h0202
DESCRIPTION_REQUEST == \h0203
DESCRIPTION_RESPONSE == \h0204
CONNECT_REQUEST == \h0205
CONNECT_RESPONSE == \h0206
CONNECTIONSTATE_REQUEST == \h0207
CONNECTIONSTATE_RESPONSE == \h0208
DISCONNECT_REQUEST == \h0209
DISCONNECT_RESPONSE == \h020A
SEARCH_REQUEST_EXTENDED == \h020B
SEARCH_RESPONSE_EXTENDED == \h020C
TUNNELING_REQUEST == \h0420
TUNNELING_ACK == \h0421
ROUTING_INDICATION == \h0530
L_DATA_REQ == \h11
L_DATA_IND == \h29
L_DATA_CON == \h2E
IPV4_UDP == 1
IPV4_TCP == 2
TUNNEL_CONNECTION == 4
TUNNEL_LINKLAYER == 2
DEVICE_INFO == 1
SUPP_SVC_FAMILIES == 2
SECURED_SERVICE_FAMILIES == 6

-----------------------------------------------------------------------------
(* Addresses *)

\* validateKNXAddress of a text address, given as its numbers.  The numbers of a
\* two-level group address are added up as those of a three-level one are; the
\* second number of an individual address is not bounded.
AddressNumber(digits, isGroup) ==
    LET n == Len(digits)
    IN  digits[n] + 256 * digits[n - 1]
          + (IF n < 3 THEN 0 ELSE digits[1] * (IF isGroup THEN 2048 ELSE 4096))
ValidAddress(digits, isGroup) ==
    LET limits == CASE isGroup /\ Len(digits) = 3 -> <<31, 7, 255>>
                    [] isGroup /\ Len(digits) = 2 -> <<31, 2047>>
                    [] OTHER -> IF Len(digits) = 3 THEN <<15, 65535, 255>> ELSE <<65535, 255>>
    IN  /\ Len(digits) \in 2 .. 3
        /\ isGroup => digits # <<0, 0, 0>>
        /\ \A i \in 1 .. Len(digits) : digits[i] <= limits[i]
        /\ AddressNumber(digits, isGroup) <= \hFFFF
\* KNXAddress.toString: always three numbers, since no caller asks for two.
AddressDigits(n, isGroup) ==
    IF isGroup THEN <<Bits(n, 11, 5), Bits(n, 8, 3), Low(n, 8)>>
               ELSE <<Bits(n, 12, 4), Bits(n, 8, 4), Low(n, 8)>>

-----------------------------------------------------------------------------
(* Header and the blocks of a packet *)

HeaderBytes(type, length) == <<6, \h10>> \o U16Bytes(type) \o U16Bytes(6 + length)
\* A length that differs from the buffer's is only logged.
ParseHeader(b) ==
    IF Len(b) < 6 THEN Malformed
    ELSE IF Byte(b, 0) # 6 \/ Byte(b, 1) # \h10 THEN Malformed
    ELSE [service_type |-> U16(b, 2), length |-> U16(b, 4)]

HPAI(host, port, protocol) == [host |-> host, port |-> port, protocol |-> protocol]
NULLHPAI == HPAI(<<0, 0, 0, 0>>, 0, IPV4_UDP)
HPAIBytes(h) == <<8, h.protocol>> \o h.host \o U16Bytes(h.port)
ParseHPAI(b, o) ==
    IF ~Structure(b, o) \/ o + 8 > Len(b) THEN Malformed
    ELSE HPAI(Sub(b, o + 2, o + 6), U16(b, o + 6), Byte(b, o + 1))

TunnelCRIBytes(layer) == <<4, TUNNEL_CONNECTION, layer, 0>>
\* Only a tunnelling connection is known to CRIFactory.
ParseCRI(b, o) ==
    IF ~Structure(b, o) \/ o + 4 > Len(b) THEN Malformed
    ELSE IF Byte(b, o + 1) # TUNNEL_CONNECTION THEN Malformed
    ELSE [knxLayer |-> Byte(b, o + 2)]

CRDBytes(crd) == <<4, crd.connectionType>> \o U16Bytes(crd.knxAddress)
ParseCRD(b, o) ==
    IF ~Structure(b, o) \/ o + 4 > Len(b) THEN Malformed
    ELSE [connectionType |-> Byte(b, o + 1), knxAddress |-> U16(b, o + 2)]

\* A device description: names are sequences of character codes.  The name the
\* code writes is Number(character): letters become 0, digits their value.
DeviceInfoBytes(d) ==
    LET written(c) == IF c \in 48 .. 57 THEN c - 48 ELSE 0
    IN  <<54, DEVICE_INFO, d.medium, d.status>> \o U16Bytes(d.address)
          \o U16Bytes(d.projectID) \o d.serialNumber \o d.ip \o d.macAddress
          \o [i \in 1 .. 30 |-> IF i > Len(d.name) THEN 0 ELSE written(d.name[i])]
\* The size it asks for first, this.length, is the number of parameters of the
\* constructor: a shorter block fails at the first octet that is missing.
ParseDeviceInfo(b, o) ==
    IF o + 24 > Len(b) \/ ~Structure(b, o) THEN Malformed
    ELSE LET chars == Sub(b, o + 24, o + 54)
             ends  == {i \in 1 .. Len(chars) : chars[i] = 0}
             len   == IF ends = {} THEN 30
                      ELSE (CHOOSE i \in ends : \A j \in ends : i <= j) - 1
         IN  IF Byte(b, o + 1) # DEVICE_INFO \/ (ends = {} /\ Len(chars) < 30) THEN Malformed
             ELSE [medium |-> Byte(b, o + 2), status |-> Byte(b, o + 3),
                   address |-> U16(b, o + 4), projectID |-> U16(b, o + 6),
                   serialNumber |-> Sub(b, o + 8, o + 14), ip |-> Sub(b, o + 14, o + 18),
                   macAddress |-> Sub(b, o + 18, o + 24), name |-> SubSeq(chars, 1, len)]
\* formattedAddress leaves the area out when it is 0.
FormattedAddress(n) ==
    IF n > \hFFF THEN AddressDigits(n, FALSE) ELSE Tail(AddressDigits(n, FALSE))

\* A Map from family to version, in the order the families were set.  The code
\* always writes type 2: secured families lose their type.
NoFamilies == [type |-> SUPP_SVC_FAMILIES, services |-> <<>>]
ServiceFamiliesBytes(f) ==
    <<2 + 2 * Len(f.services), SUPP_SVC_FAMILIES>> \o FlattenSeq(f.services)
ServiceFamiliesLength(f) == 2 + 2 * Len(f.services)
SetFamily(services, entry) ==
    LET at == {i \in 1 .. Len(services) : services[i][1] = entry[1]}
    IN  IF at = {} THEN Append(services, entry)
        ELSE [services EXCEPT ![CHOOSE i \in at : TRUE] = entry]
ParseServiceFamilies(b, o) ==
    IF ~Structure(b, o) \/ o + 2 > Len(b) THEN Malformed
    ELSE IF Byte(b, o + 1) \notin {SUPP_SVC_FAMILIES, SECURED_SERVICE_FAMILIES} THEN Malformed
    ELSE LET count == (Byte(b, o) - 1) \div 2
             entry(i) == <<Byte(b, o + 2 * i), Byte(b, o + 2 * i + 1)>>
             set[i \in 0 .. count] == IF i = 0 THEN <<>> ELSE SetFamily(set[i - 1], entry(i))
         IN  IF o + 2 + 2 * count > Len(b) THEN Malformed
             ELSE [type |-> Byte(b, o + 1),
                   services |-> set[count]]
HasFamily(f, id) == \E i \in 1 .. Len(f.services) : f.services[i][1] = id

-----------------------------------------------------------------------------
(* cEMI messages *)

\* Control octets: priority, acknowledgement and the rest are bits of ctrl1,
\* address type and hop count bits of ctrl2.
DefaultControl == <<\hBE, \hE0>>
WithAck(ctrl, on) == <<WithBits(ctrl[1], 1, 1, on), ctrl[2]>>
WithBroadcast(ctrl, on) == <<WithBits(ctrl[1], 4, 1, on), ctrl[2]>>
WithPriority(ctrl, p) == <<WithBits(ctrl[1], 2, 2, p), ctrl[2]>>
WithAddressType(ctrl, t) == <<ctrl[1], WithBits(ctrl[2], 7, 1, t)>>
WithHopCount(ctrl, n) == <<ctrl[1], WithBits(ctrl[2], 4, 3, n)>>
IsGroupAddress(ctrl) == Bits(ctrl[2], 7, 1) = 1

\* GROUP_READ is 0, GROUP_RESPONSE 1, GROUP_WRITE 2.
Action(npdu) == Bits(npdu.apci, 6, 2) + 4 * Low(npdu.tpci, 2)
WithAction(npdu, action) ==
    [npdu EXCEPT !.tpci = 64 * Bits(action, 2, 2),
                 !.apci = 64 * Low(action, 2) + (IF Action(npdu) \in {1, 2} THEN Low(@, 6) ELSE 0)]
\* The data setter: one octet of at most six bits goes into the APCI.
WithData(npdu, octets, sixBits) ==
    IF sixBits /\ Len(octets) = 1 /\ octets[1] <= \h3F
    THEN [npdu EXCEPT !.apci = 64 * Bits(@, 6, 2) + octets[1], !.data = <<>>]
    ELSE [npdu EXCEPT !.data = <<octets>>]
DataValue(npdu) == IF npdu.data = <<>> THEN <<Low(npdu.apci, 6)>> ELSE npdu.data[1]
NPDULength(npdu) == 3 + (IF npdu.data = <<>> THEN 0 ELSE Len(npdu.data[1]))
NPDUBytes(npdu) ==
    LET octets == FlattenSeq(npdu.data) IN <<1 + Len(octets), npdu.tpci, npdu.apci>> \o octets
ParseNPDU(b, o) ==
    IF o + 3 > Len(b) THEN Malformed
    ELSE [tpci |-> Byte(b, o + 1), apci |-> Byte(b, o + 2),
          data |-> IF Byte(b, o) > 1 THEN <<Sub(b, o + 3, o + 2 + Byte(b, o))>> ELSE <<>>]

CEMI(msgCode, info, control, src, dst, npdu) ==
    [msgCode |-> msgCode, additionalInfo |-> info, control |-> control,
     srcAddress |-> src, dstAddress |-> dst, npdu |-> npdu]
\* What is read: whole messages, of which an indication may lack its NPDU.
NPDUs == [tpci : Octet, apci : Octet, data : Seq(Seq(Octet))]
Messages ==
    [msgCode : Octet, additionalInfo : Seq(Seq(Octet)), control : Seq(Octet),
     srcAddress : Nat, dstAddress : Nat, npdu : NPDUs \cup {Malformed}]
Packets ==
    [service_type : Nat, length : Nat] \cup [service_type : Nat, cEMIMessage : Messages]
      \cup [service_type : Nat, channelID : Octet, seqCounter : Octet, cEMIMessage : Messages]
HPAIs == [host : Seq(Octet), port : Nat, protocol : Octet]
Devices ==
    [medium : Octet, status : Octet, address : Nat, projectID : Nat, serialNumber : Seq(Octet),
     ip : Seq(Octet), macAddress : Seq(Octet), name : Seq(Octet)]
ServiceFamilies == [type : Octet, services : Seq(Seq(Octet))]
Descriptions ==
    [{DEVICE_INFO, SUPP_SVC_FAMILIES, SECURED_SERVICE_FAMILIES} -> Seq(Devices \cup ServiceFamilies)]
\* An exception is none of them, and no buffer.
ASSUME MalformedAssumption ==
    /\ Malformed \notin NPDUs \cup Messages \cup Packets \cup Seq(Octet)
    /\ Malformed \notin HPAIs \cup Devices \cup ServiceFamilies \cup Descriptions

\* newLDataRequestMessage, newLDataIndicationMessage; read has no data.
NewCEMI(msgCode, action, src, dst, data, sixBits) ==
    LET npdu == WithAction([tpci |-> 0, apci |-> 0, data |-> <<>>], action)
    IN  CEMI(msgCode, <<>>, DefaultControl, src, dst,
             IF data = <<>> THEN npdu ELSE WithData(npdu, data[1], sixBits))
\* GetLength: with additional information one octet less than toBuffer writes.
CEMILength(c) ==
    1 + (IF c.additionalInfo = <<>> THEN 1 ELSE Len(c.additionalInfo[1])) + 6
      + (IF c.npdu = Malformed THEN 0 ELSE NPDULength(c.npdu))
\* L_Data.con has no room for its second octet and an indication may have no
\* NPDU: toBuffer throws.
Writable(c) == c.msgCode # L_DATA_CON /\ c.npdu # Malformed
CEMIBytes(c) ==
    <<c.msgCode, Len(FlattenSeq(c.additionalInfo))>> \o FlattenSeq(c.additionalInfo)
      \o c.control \o U16Bytes(c.srcAddress) \o U16Bytes(c.dstAddress) \o NPDUBytes(c.npdu)
\* The fields from the message code on: the additional information is cut at its
\* own length, not at its end.
LData(b, o) ==
    LET add == Byte(b, o + 1)
        at  == o + 2 + add
    IN  IF at + 6 > Len(b) THEN Malformed
        ELSE CEMI(Byte(b, o), IF add > 0 THEN <<Sub(b, o + 2, add)>> ELSE <<>>,
                  Sub(b, at, at + 2), U16(b, at + 2), U16(b, at + 4), ParseNPDU(b, at + 6))
Complete(cemi) ==
    IF cemi = Malformed THEN Malformed ELSE IF cemi.npdu = Malformed THEN Malformed ELSE cemi
ParseLDataReq(b, o) == Complete(LData(b, o))
ParseLDataCon(b, o) == Complete(LData(b, o))
\* An indication with a bad NPDU is kept without one.
ParseLDataInd(b, o) == LData(b, o)
ParseCEMI(b, o) ==
    IF o + 2 > Len(b) THEN Malformed
    ELSE CASE Byte(b, o) = L_DATA_REQ -> ParseLDataReq(b, o)
           [] Byte(b, o) = L_DATA_IND -> ParseLDataInd(b, o)
           [] Byte(b, o) = L_DATA_CON -> ParseLDataCon(b, o)
           [] OTHER -> Malformed

-----------------------------------------------------------------------------
(* Packets *)

SearchRequest(hpai) == [service_type |-> SEARCH_REQUEST, hpai |-> hpai]
SecureSearchRequest(hpai) == [service_type |-> SEARCH_REQUEST_EXTENDED, hpai |-> hpai]
DescriptionRequest(hpai) == [service_type |-> DESCRIPTION_REQUEST, hpai |-> hpai]
SearchResponse(hpai, info, families) ==
    [service_type |-> SEARCH_RESPONSE, hpai |-> hpai, deviceInfo |-> <<info>>,
     serviceFamilies |-> <<families>>, securedServiceFamilies |-> <<>>]
SecureSearchResponse(hpai, info, families, secured) ==
    [service_type |-> SEARCH_RESPONSE_EXTENDED, hpai |-> hpai, deviceInfo |-> info,
     serviceFamilies |-> families, securedServiceFamilies |-> secured]
DescriptionResponse(info, families) ==
    [service_type |-> DESCRIPTION_RESPONSE, deviceInfo |-> info, serviceFamilies |-> families]
ConnectRequest(layer, control, data) ==
    [service_type |-> CONNECT_REQUEST, knxLayer |-> layer, hpaiControl |-> control,
     hpaiData |-> data]
\* hpai and crd are given together or not at all.
ConnectResponse(channel, status, hpai, crd) ==
    [service_type |-> CONNECT_RESPONSE, channelID |-> channel, status |-> status,
     hpai |-> hpai, crd |-> crd]
ConnectionStateRequest(channel, hpai) ==
    [service_type |-> CONNECTIONSTATE_REQUEST, channelID |-> channel, hpaiControl |-> hpai]
ConnectionStateResponse(channel, status) ==
    [service_type |-> CONNECTIONSTATE_RESPONSE, channelID |-> channel, status |-> status]
DisconnectRequest(channel, hpai) ==
    [service_type |-> DISCONNECT_REQUEST, channelID |-> channel, hpaiControl |-> hpai]
DisconnectResponse(channel, status) ==
    [service_type |-> DISCONNECT_RESPONSE, channelID |-> channel, status |-> status]
TunnelingRequest(channel, seq, cemi) ==
    [service_type |-> TUNNELING_REQUEST, channelID |-> channel, seqCounter |-> seq,
     cEMIMessage |-> cemi]
TunnelingAck(channel, seq, status) ==
    [service_type |-> TUNNELING_ACK, channelID |-> channel, seqCounter |-> seq,
     status |-> status]
RoutingIndication(cemi) == [service_type |-> ROUTING_INDICATION, cEMIMessage |-> cemi]

\* The search parameters: SECURITY of version 1 at least, and the blocks asked
\* for, padded to an even length.
SecureSearchParameters ==
    LET dibs == <<DEVICE_INFO, SUPP_SVC_FAMILIES, SECURED_SERVICE_FAMILIES>>
    IN  <<4, \h83, 9, 1>> \o <<2 + Len(dibs) + (Len(dibs) % 2), 4>> \o dibs
          \o (IF Len(dibs) % 2 = 1 THEN <<0>> ELSE <<>>)
Optional(bytes(_), field) == IF field = <<>> THEN <<>> ELSE bytes(field[1])
SearchRequestBody(p) == HPAIBytes(p.hpai)
SecureSearchRequestBody(p) == HPAIBytes(p.hpai) \o SecureSearchParameters
DescriptionRequestBody(p) == HPAIBytes(p.hpai)
SearchResponseBody(p) ==
    HPAIBytes(p.hpai) \o DeviceInfoBytes(p.deviceInfo[1])
      \o ServiceFamiliesBytes(p.serviceFamilies[1])
SecureSearchResponseBody(p) ==
    HPAIBytes(p.hpai) \o Optional(DeviceInfoBytes, p.deviceInfo)
      \o Optional(ServiceFamiliesBytes, p.serviceFamilies)
      \o Optional(ServiceFamiliesBytes, p.securedServiceFamilies)
DescriptionResponseBody(p) ==
    DeviceInfoBytes(p.deviceInfo) \o ServiceFamiliesBytes(p.serviceFamilies)
ConnectRequestBody(p) ==
    HPAIBytes(p.hpaiControl) \o HPAIBytes(p.hpaiData) \o TunnelCRIBytes(p.knxLayer)
ConnectResponseBody(p) ==
    <<p.channelID, p.status>> \o Optional(HPAIBytes, p.hpai) \o Optional(CRDBytes, p.crd)
ConnectionStateRequestBody(p) == <<p.channelID, 0>> \o HPAIBytes(p.hpaiControl)
ConnectionStateResponseBody(p) == <<p.channelID, p.status>>
DisconnectRequestBody(p) == <<p.channelID, 0>> \o HPAIBytes(p.hpaiControl)
DisconnectResponseBody(p) == <<p.channelID, p.status>>
TunnelingRequestBody(p) == <<4, p.channelID, p.seqCounter, 0>> \o CEMIBytes(p.cEMIMessage)
TunnelingAckBody(p) == <<4, p.channelID, p.seqCounter, p.status>>
RoutingIndicationBody(p) == CEMIBytes(p.cEMIMessage)
Body(p) ==
    CASE p.service_type = SEARCH_REQUEST -> SearchRequestBody(p)
      [] p.service_type = SEARCH_REQUEST_EXTENDED -> SecureSearchRequestBody(p)
      [] p.service_type = DESCRIPTION_REQUEST -> DescriptionRequestBody(p)
      [] p.service_type = SEARCH_RESPONSE -> SearchResponseBody(p)
      [] p.service_type = SEARCH_RESPONSE_EXTENDED -> SecureSearchResponseBody(p)
      [] p.service_type = DESCRIPTION_RESPONSE -> DescriptionResponseBody(p)
      [] p.service_type = CONNECT_REQUEST -> ConnectRequestBody(p)
      [] p.service_type = CONNECT_RESPONSE -> ConnectResponseBody(p)
      [] p.service_type = CONNECTIONSTATE_REQUEST -> ConnectionStateRequestBody(p)
      [] p.service_type = CONNECTIONSTATE_RESPONSE -> ConnectionStateResponseBody(p)
      [] p.service_type = DISCONNECT_REQUEST -> DisconnectRequestBody(p)
      [] p.service_type = DISCONNECT_RESPONSE -> DisconnectResponseBody(p)
      [] p.service_type = TUNNELING_REQUEST -> TunnelingRequestBody(p)
      [] p.service_type = TUNNELING_ACK -> TunnelingAckBody(p)
      [] p.service_type = ROUTING_INDICATION -> RoutingIndicationBody(p)
\* The length of the constructor, which the header announces.
BodyLength(p, body) ==
    CASE p.service_type = TUNNELING_REQUEST -> 4 + CEMILength(p.cEMIMessage)
      [] p.service_type = ROUTING_INDICATION -> CEMILength(p.cEMIMessage)
      [] OTHER -> Len(body)
WithHeader(p, body) == HeaderBytes(p.service_type, BodyLength(p, body)) \o body
\* A connect response is written without its header: packetToFrame of the server
\* adds it.
Written(p, body) == IF p.service_type = CONNECT_RESPONSE THEN body ELSE WithHeader(p, body)
ToBuffer(p) == Written(p, Body(p))
Framed(p, octets) ==
    IF Len(octets) >= 2 /\ octets[1] = 6 /\ octets[2] = \h10 THEN octets ELSE WithHeader(p, octets)
PacketToFrame(p) == Framed(p, ToBuffer(p))

\* The packet that with makes of its parts, unless one cannot be read.
With(part, packet(_)) == IF part = Malformed THEN Malformed ELSE packet(part)
WithBoth(part, other, packet(_, _)) ==
    IF part = Malformed \/ other = Malformed THEN Malformed ELSE packet(part, other)
\* The description blocks from o on.  A plain response takes the first of each
\* and stops when it has both; an extended one reads all of them.
Wanted == {DEVICE_INFO, SUPP_SVC_FAMILIES, SECURED_SERVICE_FAMILIES}
MoreBlocks(b, plain, r) ==
    /\ ~r.failed /\ r.at + 2 <= Len(b)
    /\ Byte(b, r.at) >= 2 /\ Structure(b, r.at)
    /\ ~(plain /\ r.found[DEVICE_INFO] # <<>> /\ r.found[SUPP_SVC_FAMILIES] # <<>>)
KeepBlock(r, type, block) ==
    IF block = Malformed THEN [r EXCEPT !.failed = TRUE]
    ELSE [at |-> r.at + (IF type = DEVICE_INFO THEN 54 ELSE ServiceFamiliesLength(block)),
          failed |-> FALSE, found |-> [r.found EXCEPT ![type] = <<block>>]]
BlockStep(b, plain, r) ==
    LET type == Byte(b, r.at + 1)
        reads == /\ type \in Wanted
                 /\ plain => type # SECURED_SERVICE_FAMILIES /\ r.found[type] = <<>>
    IN  IF ~MoreBlocks(b, plain, r) THEN r
        ELSE IF ~reads THEN [r EXCEPT !.at = @ + Byte(b, @)]
        ELSE KeepBlock(r, type, IF type = DEVICE_INFO THEN ParseDeviceInfo(b, r.at)
                                ELSE ParseServiceFamilies(b, r.at))
Blocks(b, o, plain) ==
    LET n == Len(b) \div 2
        read[i \in 0 .. n] ==
            IF i = 0 THEN [at |-> o, failed |-> FALSE, found |-> [t \in Wanted |-> <<>>]]
            ELSE BlockStep(b, plain, read[i - 1])
        found(r) == IF r.failed THEN Malformed ELSE r.found
    IN  found(read[n])
PlainResponse(hpai, found) ==
    IF found[DEVICE_INFO] = <<>> THEN Malformed
    ELSE SearchResponse(hpai, found[DEVICE_INFO][1],
                        IF found[SUPP_SVC_FAMILIES] = <<>> THEN NoFamilies
                        ELSE found[SUPP_SVC_FAMILIES][1])
ExtendedResponse(hpai, found) ==
    SecureSearchResponse(hpai, found[DEVICE_INFO], found[SUPP_SVC_FAMILIES],
                         found[SECURED_SERVICE_FAMILIES])
ParseSearchResponse(b) == WithBoth(ParseHPAI(b, 0), Blocks(b, 8, TRUE), PlainResponse)
ParseSecureSearchResponse(b) == WithBoth(ParseHPAI(b, 0), Blocks(b, 8, FALSE), ExtendedResponse)
ParseDescriptionResponse(b) ==
    WithBoth(ParseDeviceInfo(b, 0), ParseServiceFamilies(b, 54), DescriptionResponse)
ParseConnectRequest(b) ==
    LET make(control, data) ==
            IF ParseCRI(b, 16) = Malformed THEN Malformed
            ELSE ConnectRequest(ParseCRI(b, 16).knxLayer, control, data)
    IN  WithBoth(ParseHPAI(b, 0), ParseHPAI(b, 8), make)
ParseConnectResponse(b) ==
    LET make(hpai, crd) == ConnectResponse(b[1], b[2], <<hpai>>, <<crd>>)
    IN  IF Len(b) < 2 THEN Malformed
        ELSE IF Len(b) = 2 THEN ConnectResponse(b[1], b[2], <<>>, <<>>)
        ELSE WithBoth(ParseHPAI(b, 2), ParseCRD(b, 10), make)
ParseSearchRequest(b) == With(ParseHPAI(b, 0), SearchRequest)
ParseDescriptionRequest(b) ==
    IF Len(b) <= 1 THEN Malformed ELSE With(ParseHPAI(b, 0), DescriptionRequest)
ParseConnectionStateRequest(b) ==
    LET make(hpai) == ConnectionStateRequest(b[1], hpai) IN With(ParseHPAI(b, 2), make)
ParseConnectionStateResponse(b) ==
    IF Len(b) < 2 THEN Malformed ELSE ConnectionStateResponse(b[1], b[2])
ParseDisconnectRequest(b) ==
    LET make(hpai) == DisconnectRequest(b[1], hpai) IN With(ParseHPAI(b, 2), make)
ParseDisconnectResponse(b) ==
    IF Len(b) < 2 THEN Malformed ELSE DisconnectResponse(b[1], b[2])
ParseTunnelingRequest(b) ==
    LET make(cemi) == TunnelingRequest(b[2], b[3], cemi)
    IN  IF Structure(b, 0) THEN With(ParseCEMI(b, 4), make) ELSE Malformed
ParseTunnelingAck(b) ==
    IF ~Structure(b, 0) \/ Len(b) < 4 THEN Malformed ELSE TunnelingAck(b[2], b[3], b[4])
ParseRoutingIndication(b) == With(ParseCEMI(b, 0), RoutingIndication)
ParseBody(service, body) ==
    CASE service = SEARCH_REQUEST -> ParseSearchRequest(body)
      [] service = SEARCH_RESPONSE -> ParseSearchResponse(body)
      [] service = SEARCH_RESPONSE_EXTENDED -> ParseSecureSearchResponse(body)
      [] service = DESCRIPTION_REQUEST -> ParseDescriptionRequest(body)
      [] service = DESCRIPTION_RESPONSE -> ParseDescriptionResponse(body)
      [] service = CONNECT_REQUEST -> ParseConnectRequest(body)
      [] service = CONNECT_RESPONSE -> ParseConnectResponse(body)
      [] service = CONNECTIONSTATE_REQUEST -> ParseConnectionStateRequest(body)
      [] service = CONNECTIONSTATE_RESPONSE -> ParseConnectionStateResponse(body)
      [] service = DISCONNECT_REQUEST -> ParseDisconnectRequest(body)
      [] service = DISCONNECT_RESPONSE -> ParseDisconnectResponse(body)
      [] service = TUNNELING_REQUEST -> ParseTunnelingRequest(body)
      [] service = TUNNELING_ACK -> ParseTunnelingAck(body)
      [] service = ROUTING_INDICATION -> ParseRoutingIndication(body)
      [] OTHER -> [service_type |-> service]
\* KNXProtocol.parseMessage; a service it does not know has no fields.
ParseMessage(b) ==
    IF ParseHeader(b) = Malformed THEN Malformed
    ELSE ParseBody(ParseHeader(b).service_type, Sub(b, 6, Len(b)))
=============================================================================
