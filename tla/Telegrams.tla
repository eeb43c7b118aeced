------------------------------ MODULE Telegrams ------------------------------
\* Group telegrams: the packets write, respond, read and their raw forms build,
\* what each transport puts on its line, and what the receiver makes of the
\* octets.  Framing of the TCP stream and of the FT1.2 line works on any chunks.
EXTENDS Datapoints

\* getKNXDataBuffer: the octets of a value; only six bits or less may go into
\* the APCI.  An exception of the datapoint type stays one.
KNXDataBuffer(dpt, subtype, v) ==
    LET make(octets) == [octets |-> octets, sixBits |-> ConfigOf(dpt).bits <= 6]
    IN  IF ~Resolves(dpt, subtype) THEN Malformed ELSE With(PopulateAPDU(dpt, subtype, v), make)
\* The buffer of writeRaw and respondRaw: as many octets as the bits need.
RawBuffer(octets, bitlength) ==
    [octets |-> [i \in 1 .. (bitlength + 7) \div 8 |-> IF i <= Len(octets) THEN octets[i] ELSE 0],
     sixBits |-> bitlength <= 6]

GroupControl(ack) ==
    WithHopCount(WithAddressType(WithPriority(WithBroadcast(WithAck(DefaultControl, ack), 1),
                                              3), 1), 6)
\* A client c has hostProtocol, suppress (suppress_ack_ldatareq), physAddr,
\* channelID and seq.  Requests ask for the acknowledgement of the bus.
BusAck(c) == IF c.hostProtocol \in {"TunnelUDP", "SerialFT12"} /\ ~c.suppress THEN 1 ELSE 0
\* What the five methods share: an indication when multicast, a request without
\* connection header on the serial line, else a tunnelling request; buffer is
\* empty for a read.  Over TCP the number is given when the packet is sent.
GroupPacket(c, action, dst, buffer, ack) ==
    LET multicast == c.hostProtocol = "Multicast"
        cemi == [NewCEMI(IF multicast THEN L_DATA_IND ELSE L_DATA_REQ, action, c.physAddr,
                         AddressNumber(dst, TRUE),
                         IF buffer = <<>> THEN <<>> ELSE <<buffer[1].octets>>,
                         IF buffer = <<>> THEN FALSE ELSE buffer[1].sixBits)
                   EXCEPT !.control = GroupControl(ack)]
    IN  IF multicast \/ c.hostProtocol = "SerialFT12" THEN RoutingIndication(cemi)
        ELSE TunnelingRequest(c.channelID, IF c.hostProtocol = "TunnelTCP" THEN 0 ELSE c.seq, cemi)
Write(c, dst, dpt, subtype, v) ==
    LET packet(buffer) == GroupPacket(c, 2, dst, <<buffer>>, BusAck(c))
    IN  IF ~ValidAddress(dst, TRUE) THEN Malformed
        ELSE With(KNXDataBuffer(dpt, subtype, v), packet)
Respond(c, dst, dpt, subtype, v) ==
    LET packet(buffer) == GroupPacket(c, 1, dst, <<buffer>>, 0)
    IN  IF ~ValidAddress(dst, TRUE) THEN Malformed
        ELSE With(KNXDataBuffer(dpt, subtype, v), packet)
RespondRaw(c, dst, octets, bitlength) ==
    IF ~ValidAddress(dst, TRUE) THEN Malformed
    ELSE GroupPacket(c, 1, dst, <<RawBuffer(octets, bitlength)>>, 0)
Read(c, dst) ==
    IF ~ValidAddress(dst, TRUE) THEN Malformed ELSE GroupPacket(c, 0, dst, <<>>, BusAck(c))
WriteRaw(c, dst, octets, bitlength) ==
    IF ~ValidAddress(dst, TRUE) THEN Malformed
    ELSE GroupPacket(c, 2, dst, <<RawBuffer(octets, bitlength)>>, BusAck(c))

-----------------------------------------------------------------------------
(* AES is outside: a keystream and a checksum that depend on all they are given *)

Digest(octets) ==
    LET h[i \in 0 .. Len(octets)] == IF i = 0 THEN 7 ELSE (33 * h[i - 1] + octets[i]) % 65521
    IN  h[Len(octets)]
KeyStream(seed, i) == (seed \div 8 + 37 * i) % 256
\* calculateMessageAuthenticationCodeCBC
CalculateMAC(key, additional, payload, block0) ==
    LET d == Digest(key \o block0 \o U16Bytes(Len(additional)) \o additional \o payload)
    IN  [i \in 1 .. 16 |-> (d \div i) % 256]
\* The MAC is encrypted first, the payload goes on in the same stream.
EncryptDataCtr(key, counter0, mac, payload) ==
    LET seed == Digest(key \o counter0)
        encrypted(s, from) == [i \in 1 .. Len(s) |-> (s[i] + KeyStream(seed, from + i)) % 256]
    IN  [mac |-> encrypted(mac, 0), payload |-> encrypted(payload, Len(mac))]
Sealed(enc) == enc.payload \o enc.mac
DecryptCtr(key, counter0, mac, payload) ==
    LET seed == Digest(key \o counter0)
        decrypted(s, from) == [i \in 1 .. Len(s) |-> (s[i] - KeyStream(seed, from + i)) % 256]
    IN  [mac |-> decrypted(mac, 0), payload |-> decrypted(payload, Len(mac))]

SeqBytes(n) == <<0, 0, 0, 0>> \o U16Bytes(n)       \* six octets; n < 2^16 here
SCF_ENCRYPTION_S_A_DATA == \h10
APCI_SEC_HIGH == \h03
APCI_SEC_LOW == \hF1
DATA_SECURE_CTR_SUFFIX == <<0, 0, 0, 0, 1, 0>>
\* 0x8f: hop count and frame format bits a coupler may change stay out.
RelevantFlags(ctrl) == WithBits(ctrl[2], 4, 3, 0)
DataSecureBlock0(seq, addresses, flags, length) ==
    seq \o addresses \o <<0, flags, APCI_SEC_HIGH, APCI_SEC_LOW, 0, length>>
\* secureBuildSecureApdu, without its first two octets, which become TPCI and APCI.
SecureApdu(key, seq, src, dst, ctrl, plain) ==
    LET addresses == U16Bytes(src) \o U16Bytes(dst)
        mac == CalculateMAC(key, <<SCF_ENCRYPTION_S_A_DATA>>, plain,
                   DataSecureBlock0(seq, addresses, RelevantFlags(ctrl), Len(plain)))
    IN  <<SCF_ENCRYPTION_S_A_DATA>> \o seq
          \o Sealed(EncryptDataCtr(key, seq \o addresses \o DATA_SECURE_CTR_SUFFIX,
                                   SubSeq(mac, 1, 4), plain))
IsDataSecure(npdu) == npdu.tpci = APCI_SEC_HIGH /\ npdu.apci = APCI_SEC_LOW
\* keys: a function from group addresses to keys; ia: the assigned address, or 0.
MaybeApplyDataSecure(c, keys, seq48, ia) ==
    IF IsDataSecure(c.npdu) \/ c.dstAddress \notin DOMAIN keys THEN c
    ELSE LET src   == IF ia # 0 THEN ia ELSE c.srcAddress
             plain == <<c.npdu.tpci, c.npdu.apci>> \o FlattenSeq(c.npdu.data)
             apdu  == SecureApdu(keys[c.dstAddress], SeqBytes(seq48), src, c.dstAddress,
                                 c.control, plain)
         IN  [c EXCEPT !.srcAddress = src,
                       !.npdu = WithData([@ EXCEPT !.tpci = APCI_SEC_HIGH, !.apci = APCI_SEC_LOW],
                                         apdu, TRUE)]
\* secureDecryptApdu: part is the APDU without its first two octets.
SecurePlain(c, key, part) ==
    LET seq       == Sub(part, 1, 7)
        addresses == U16Bytes(c.srcAddress) \o U16Bytes(c.dstAddress)
        checked(dec) ==
            LET mac == CalculateMAC(key, <<part[1]>>, dec.payload,
                           DataSecureBlock0(seq, addresses, RelevantFlags(c.control),
                                            Len(dec.payload)))
            IN  IF SubSeq(mac, 1, 4) = dec.mac THEN dec.payload ELSE Malformed
    IN  checked(DecryptCtr(key, seq \o addresses \o DATA_SECURE_CTR_SUFFIX,
                    Sub(part, Len(part) - 4, Len(part)), Sub(part, 7, Len(part) - 4)))
\* The data of a decrypted telegram always counts as six bits: a small octet is
\* moved into the APCI.
NPDUOf(plain) ==
    LET bare == [tpci |-> 0, apci |-> IF Len(plain) >= 2 THEN plain[2] ELSE 0, data |-> <<>>]
    IN  IF Len(plain) <= 2 THEN bare ELSE WithData(bare, Sub(plain, 2, Len(plain)), TRUE)
MaybeDecryptDataSecure(c, keys) ==
    IF c.npdu = Malformed THEN c
    ELSE IF ~IsDataSecure(c.npdu) \/ c.dstAddress \notin DOMAIN keys THEN c
    ELSE LET part  == FlattenSeq(c.npdu.data)
             plain == SecurePlain(c, keys[c.dstAddress], part)
         IN  IF Len(part) < 11 THEN c ELSE IF plain = Malformed THEN c
             ELSE [c EXCEPT !.npdu = NPDUOf(plain)]

-----------------------------------------------------------------------------
(* SecureWrapper, and the stream of TunnelTCP *)

SECURE_WRAPPER == \h0950
WrapperCounter(seq, serial, tag) == seq \o serial \o tag \o <<\hFF, 0>>
\* A wrapper around a frame: the MAC covers header, session and frame.
Wrapper(frame, key, session, seq, serial, tag) ==
    LET header == <<6, \h10>> \o U16Bytes(SECURE_WRAPPER) \o U16Bytes(38 + Len(frame))
        number == SeqBytes(seq)
        mac == CalculateMAC(key, header \o U16Bytes(session), frame,
                            number \o serial \o tag \o U16Bytes(Len(frame)))
    IN  header \o U16Bytes(session) \o number \o serial \o tag
          \o Sealed(EncryptDataCtr(key, WrapperCounter(number, serial, tag), mac, frame))
SecureWrap(frame, key, session, seq, serial) == Wrapper(frame, key, session, seq, serial, <<0, 0>>)
\* A multicast wrapper: session 0, the routing timer as number and a random tag.
SecureWrapRouting(frame, key, timer, serial, tag) == Wrapper(frame, key, 0, timer, serial, tag)
Unwrapped(frame, key) ==
    DecryptCtr(key, WrapperCounter(Sub(frame, 8, 14), Sub(frame, 14, 20), Sub(frame, 20, 22)),
               Sub(frame, Len(frame) - 16, Len(frame)), Sub(frame, 22, Len(frame) - 16))
\* secureDecrypt: decrypts the MAC and does not compare it.
SecureDecrypt(frame, key) == Unwrapped(frame, key).payload
\* secureDecryptRouting compares it.
SecureDecryptRouting(frame, key) ==
    LET checked(dec) ==
            IF dec.mac = CalculateMAC(key, Sub(frame, 0, 6) \o <<0, 0>>, dec.payload,
                             Sub(frame, 8, 22) \o U16Bytes(Len(dec.payload)))
            THEN dec.payload ELSE Malformed
    IN  IF Len(frame) < 38 THEN Malformed
        ELSE IF U16(frame, 2) # SECURE_WRAPPER \/ U16(frame, 6) # 0 THEN Malformed
        ELSE checked(Unwrapped(frame, key))

\* Mutant of TcpFrames: one frame per chunk.
TcpFirstFrame(buffer) ==
    IF (IF Len(buffer) < 6 THEN TRUE ELSE Len(buffer) < U16(buffer, 4))
    THEN [rest |-> buffer, frames |-> <<>>]
    ELSE [rest |-> Sub(buffer, U16(buffer, 4), Len(buffer)),
          frames |-> <<Sub(buffer, 0, U16(buffer, 4))>>]
\* secureOnTcpData, once through its loop: a frame at the head of the buffer is as
\* long as its octets 4 and 5 say.
TcpStep(r) ==
    IF Len(r.rest) < 6 THEN r
    ELSE LET total == U16(r.rest, 4)
         IN  IF Len(r.rest) < total THEN r
             ELSE [rest |-> Sub(r.rest, total, Len(r.rest)),
                   frames |-> Append(r.frames, Sub(r.rest, 0, total))]
\* The complete frames at the head of the buffer, and the rest.
TcpFrames(buffer) ==
    LET n == Len(buffer) \div 6
        run[i \in 0 .. n] ==
            IF i = 0 THEN [rest |-> buffer, frames |-> <<>>] ELSE TcpStep(run[i - 1])
    IN  run[n]

-----------------------------------------------------------------------------
(* SerialFT12: long frames and the line *)

ACK_BYTE == \hE5
Checksum(octets) ==
    LET sum[i \in 0 .. Len(octets)] == IF i = 0 THEN 0 ELSE (sum[i - 1] + octets[i]) % 256
    IN  sum[Len(octets)]
\* buildLongFrame; toggle: the frame count bit.
LongFrame(payload, toggle) ==
    LET body == <<IF toggle THEN \h73 ELSE \h53>> \o payload
    IN  <<\h68, Len(body), Len(body), \h68>> \o body \o <<Checksum(body), \h16>>
\* handleLongFrame; BAOS payloads are acknowledged and not forwarded.
LongFramePayload(frame) ==
    LET len  == frame[2]
        body == Sub(frame, 4, 4 + len)
        bad  == \/ Len(frame) < 8 \/ frame[4] # \h68 \/ frame[3] # len
                \/ frame[Len(frame)] # \h16 \/ frame[Len(frame) - 1] # Checksum(body)
    IN  [ack |-> ~bad, cemi |-> IF bad \/ len = 1 THEN <<>>
                                ELSE IF body[2] = \hF0 THEN <<>> ELSE <<Tail(body)>>]
\* handleChunk: how many octets belong to the head of the line (more than there
\* are when that cannot be told yet), and what they are: acks are the octets
\* received, sent the acknowledgements given.
LineSize(b) ==
    CASE b[1] = \h10 -> 4
      [] b[1] = \h68 -> IF Len(b) < 6 THEN 6 ELSE b[2] + 6
      [] b[1] = \hA0 -> IF Len(b) < 2 THEN 2 ELSE b[2] + 2
      [] OTHER -> 1
LineUnit(unit) ==
    LET long == LongFramePayload(unit)
    IN  CASE unit[1] = ACK_BYTE -> [frames |-> <<>>, acks |-> 1, sent |-> 0]
          [] unit[1] = \h10 -> [frames |-> <<>>, acks |-> 0, sent |-> 1]
          [] unit[1] = \h68 -> [frames |-> long.cemi, acks |-> 0,
                                sent |-> IF long.ack THEN 1 ELSE 0]
          [] OTHER -> [frames |-> <<>>, acks |-> 0, sent |-> 0]
LineStep(r) ==
    LET size == LineSize(r.rest)
        unit == LineUnit(Sub(r.rest, 0, size))
    IN  IF r.rest = <<>> THEN r
        ELSE IF Len(r.rest) < size THEN r
        ELSE [rest |-> Sub(r.rest, size, Len(r.rest)), frames |-> r.frames \o unit.frames,
              acks |-> r.acks + unit.acks, sent |-> r.sent + unit.sent]
LineFrames(buffer) ==
    LET n == Len(buffer)
        run[i \in 0 .. n] ==
            IF i = 0 THEN [rest |-> buffer, frames |-> <<>>, acks |-> 0, sent |-> 0]
            ELSE LineStep(run[i - 1])
    IN  run[n]
\* handleSerialCemi: indications only.
SerialIndication(payload) ==
    IF Len(payload) < 2 THEN Malformed
    ELSE IF payload[1] # L_DATA_IND THEN Malformed ELSE ParseCEMI(payload, 0)

-----------------------------------------------------------------------------
(* The tunnelling server between its clients and the bus *)

\* buildRoutingIndicationFromTunneling: requests become indications of the
\* assigned address; confirmations are not forwarded.
RoutingFromTunneling(c, assigned) ==
    CASE c.msgCode = L_DATA_IND -> <<RoutingIndication(c)>>
      [] c.msgCode = L_DATA_REQ ->
           <<RoutingIndication([c EXCEPT !.msgCode = L_DATA_IND, !.srcAddress = assigned,
                                         !.control = WithBroadcast(WithAck(@, 0), 1)])>>
      [] OTHER -> <<>>
\* extractRawTelegram: none for a telegram that is not a group service.
RawTelegram(c) ==
    IF ~Writable(c) THEN <<>>
    ELSE IF Action(c.npdu) \notin 0 .. 2 THEN <<>>
    ELSE <<[event |-> Action(c.npdu), source |-> AddressDigits(c.srcAddress, FALSE),
            destination |-> AddressDigits(c.dstAddress, IsGroupAddress(c.control)),
            data |-> IF Action(c.npdu) = 0 THEN <<>> ELSE <<DataValue(c.npdu)>>,
            bitlength |-> CASE Action(c.npdu) = 0 -> 0
                            [] c.npdu.data = <<>> -> 6
                            [] OTHER -> 8 * Len(DataValue(c.npdu))]>>
\* sendBusFrameToClient, sendCemiToClient: only a routing indication is sent on.
TunnelingFromRouting(frame, channel, seq) ==
    LET request(p) == IF p.service_type # ROUTING_INDICATION THEN <<>>
                      ELSE <<TunnelingRequest(channel, seq % 256, p.cEMIMessage)>>
    IN  IF ParseMessage(frame) = Malformed THEN <<>> ELSE request(ParseMessage(frame))
=============================================================================
