--------------------------- MODULE Telegrams_proofs ---------------------------
(***************************************************************************)
(* Proofs about the codecs: what one side writes the other reads, for      *)
(* every telegram the library can send, under any key, cut into any        *)
(* chunks.                                                                 *)
(*                                                                         *)
(* A buffer is described from an offset to its end (Ends): each field that *)
(* is read off moves the offset, so that a codec is followed field by      *)
(* field.  The ciphers are followed octet by octet: the key stream that is *)
(* added is subtracted again, for any key and counter.  A stream and an    *)
(* FT1.2 line are buffers in parts, recovered part by part however they    *)
(* are cut (Parts, Recovered).                                             *)
(***************************************************************************)
EXTENDS Telegrams, FiniteSetTheorems, WellFoundedInduction, TLAPS

\* Buffers, and what sixteen bits hold.
Octets == Seq(Octet)

Words == {n \in Nat : n <= 65535}

\* What the library writes: requests and indications without additional
\* information, whose data fits the length octet.
DataFields == {<<>>} \cup {<<s>> : s \in {t \in Octets : Len(t) > 0 /\ Len(t) < 255}}

NPDUFields == [tpci : Octet, apci : Octet, data : DataFields]

Sendable ==
    [msgCode : {L_DATA_REQ, L_DATA_IND}, additionalInfo : {<<>>},
            control : Octet \X Octet,
            srcAddress : Words, dstAddress : Words,
            npdu : NPDUFields]

\* s is the end of the buffer b, from offset o on.
Ends(b, o, s) == Len(b) = o + Len(s) /\ \A i \in 1 .. Len(s) : b[o + i] = s[i]

\* An octet is a number up to 255.
LEMMA OctetIs == \A n : n \in Octet <=> n \in Nat /\ n <= 255
BY DEF Octet

\* Concatenation stays among the buffers and is associative.
LEMMA Joined ==
    ASSUME NEW s \in Octets, NEW t \in Octets, NEW u \in Octets
    PROVE  s \o t \in Octets /\ (s \o t) \o u = s \o (t \o u)
BY DEF Octets

\* Five parts of a buffer, from the left and from the right.
LEMMA JoinedFive ==
    ASSUME NEW h \in Octets, NEW s \in Octets, NEW t \in Octets, NEW u \in Octets,
           NEW v \in Octets
    PROVE  /\ h \o s \o t \o u \o v = h \o (s \o (t \o (u \o v)))
           /\ h \o (s \o (t \o (u \o v))) \in Octets
<1>1. u \o v \in Octets
  BY Joined
<1>2. t \o (u \o v) \in Octets
  BY <1>1, Joined
<1>3. s \o (t \o (u \o v)) \in Octets
  BY <1>2, Joined
<1>4. h \o (s \o (t \o (u \o v))) \in Octets
  BY <1>3, Joined
<1>5. h \o s \in Octets
  BY Joined
<1>6. h \o s \o t \in Octets
  BY <1>5, Joined
<1>7. h \o s \o t \o u \o v = h \o s \o t \o (u \o v)
  BY <1>6, Joined
<1>8. h \o s \o t \o (u \o v) = h \o s \o (t \o (u \o v))
  BY <1>1, <1>5, Joined
<1>9. h \o s \o (t \o (u \o v)) = h \o (s \o (t \o (u \o v)))
  <2>1. \A x \in Octets : h \o s \o x = h \o (s \o x)
    BY DEF Octets
  <2> QED BY <1>2, <2>1
<1> QED BY <1>4, <1>7, <1>8, <1>9

\* The length of what is concatenated.
LEMMA JoinedLength ==
    \A s, t \in Octets : Len(s \o t) = Len(s) + Len(t) /\ Len(s) \in Nat /\ s \o t \in Octets
BY DEF Octets

\* Where a buffer ends with two parts, the first is found at its offset and the
\* second behind it.
LEMMA EndsParts ==
    ASSUME NEW b \in Octets, NEW o \in Nat, NEW s \in Octets, NEW t \in Octets,
           Ends(b, o, s \o t)
    PROVE  /\ \A i \in 1 .. Len(s) : b[o + i] = s[i]
           /\ Ends(b, o + Len(s), t)
<1> DEFINE st == s \o t
<1>1. /\ Len(st) = Len(s) + Len(t) /\ Len(s) \in Nat /\ Len(t) \in Nat
      /\ \A i \in 1 .. Len(s) : st[i] = s[i]
      /\ \A i \in 1 .. Len(t) : st[Len(s) + i] = t[i]
  BY DEF Octets
<1>2. Len(b) = o + Len(st) /\ \A i \in 1 .. Len(st) : b[o + i] = st[i]
  BY DEF Ends
<1> HIDE DEF st
<1>3. \A i \in 1 .. Len(s) : b[o + i] = s[i]
  BY <1>1, <1>2
<1>4. ASSUME NEW i \in 1 .. Len(t) PROVE b[o + Len(s) + i] = t[i]
  <2>1. Len(s) + i \in 1 .. Len(st)
    BY <1>1
  <2>2. b[o + (Len(s) + i)] = st[Len(s) + i]
    BY <1>2, <2>1
  <2>3. o + (Len(s) + i) = o + Len(s) + i
    BY <1>1
  <2> QED BY <1>1, <2>2, <2>3
<1> QED BY <1>1, <1>2, <1>3, <1>4 DEF Ends

\* The end of a buffer, cut out.
LEMMA EndsSub ==
    ASSUME NEW b \in Octets, NEW o \in Nat, NEW s \in Octets, Ends(b, o, s)
    PROVE  Sub(b, o, Len(b)) = s
<1>1. Len(b) \in Nat /\ Len(s) \in Nat /\ Len(b) = o + Len(s)
  BY DEF Ends, Octets
<1>2. Sub(b, o, Len(b)) = SubSeq(b, o + 1, Len(b))
  BY <1>1 DEF Sub
<1> DEFINE u == SubSeq(b, o + 1, Len(b))
<1>3. u \in Octets /\ Len(u) = Len(s) /\ \A i \in 1 .. Len(s) : u[i] = b[o + i]
  BY <1>1 DEF Octets
<1>4. \A i \in 1 .. Len(s) : u[i] = s[i]
  BY <1>3 DEF Ends
<1> HIDE DEF u
<1>5. u = s
  BY <1>3, <1>4 DEF Octets
<1> QED BY <1>2, <1>5 DEF u

\* Short buffers, octet by octet.
LEMMA OctetTuples ==
    /\ <<>> \in Octets
    /\ \A x, y \in Octet : <<x, y>> \in Octets
    /\ \A x, y, z \in Octet : <<x, y, z>> \in Octets
    /\ \A w, x, y, z \in Octet : <<w, x, y, z>> \in Octets
BY DEF Octets

\* Two octets, and what follows them.
LEMMA EndsPair ==
    ASSUME NEW b \in Octets, NEW o \in Nat, NEW x \in Octet, NEW y \in Octet,
           NEW t \in Octets, Ends(b, o, <<x, y>> \o t)
    PROVE  b[o + 1] = x /\ b[o + 2] = y /\ Ends(b, o + 2, t)
<1> DEFINE s == <<x, y>>
<1>1. s \in Octets /\ Len(s) = 2 /\ s[1] = x /\ s[2] = y
  BY OctetTuples
<1> HIDE DEF s
<1>2. (\A i \in 1 .. Len(s) : b[o + i] = s[i]) /\ Ends(b, o + Len(s), t)
  BY <1>1, EndsParts DEF s
<1> QED BY <1>1, <1>2

\* Three octets, and what follows them.
LEMMA EndsTriple ==
    ASSUME NEW b \in Octets, NEW o \in Nat, NEW x \in Octet, NEW y \in Octet,
           NEW z \in Octet, NEW t \in Octets, Ends(b, o, <<x, y, z>> \o t)
    PROVE  b[o + 1] = x /\ b[o + 2] = y /\ b[o + 3] = z /\ Ends(b, o + 3, t)
<1> DEFINE s == <<x, y, z>>
<1>1. s \in Octets /\ Len(s) = 3 /\ s[1] = x /\ s[2] = y /\ s[3] = z
  BY OctetTuples
<1> HIDE DEF s
<1>2. (\A i \in 1 .. Len(s) : b[o + i] = s[i]) /\ Ends(b, o + Len(s), t)
  BY <1>1, EndsParts DEF s
<1> QED BY <1>1, <1>2

\* Four octets, and what follows them.
LEMMA EndsFour ==
    ASSUME NEW b \in Octets, NEW o \in Nat, NEW w \in Octet, NEW x \in Octet,
           NEW y \in Octet, NEW z \in Octet, NEW t \in Octets,
           Ends(b, o, <<w, x, y, z>> \o t)
    PROVE  /\ b[o + 1] = w /\ b[o + 2] = x /\ b[o + 3] = y /\ b[o + 4] = z
           /\ Ends(b, o + 4, t)
<1> DEFINE s == <<w, x, y, z>>
<1>1. s \in Octets /\ Len(s) = 4 /\ s[1] = w /\ s[2] = x /\ s[3] = y /\ s[4] = z
  BY OctetTuples
<1> HIDE DEF s
<1>2. (\A i \in 1 .. Len(s) : b[o + i] = s[i]) /\ Ends(b, o + Len(s), t)
  BY <1>1, EndsParts DEF s
<1> QED BY <1>1, <1>2

\* A sixteen-bit number is written as two octets that give it back.
LEMMA U16Is ==
    ASSUME NEW n \in Words
    PROVE  /\ \E x \in Octet, y \in Octet : U16Bytes(n) = <<x, y>> /\ 256 * x + y = n
           /\ U16Bytes(n) \in Octets /\ Len(U16Bytes(n)) = 2
<1>1. n \div 256 \in Octet /\ n % 256 \in Octet
  BY OctetIs DEF Words
<1>2. 256 * (n \div 256) + (n % 256) = n
  BY DEF Words
<1>3. U16Bytes(n) = <<n \div 256, n % 256>>
  BY DEF U16Bytes
<1>4. \E x \in Octet, y \in Octet : U16Bytes(n) = <<x, y>> /\ 256 * x + y = n
  BY <1>1, <1>2, <1>3
<1> QED BY <1>4, OctetTuples

\* writeUInt16BE and readUInt16BE at the same offset.
LEMMA EndsWord ==
    ASSUME NEW b \in Octets, NEW o \in Nat, NEW n \in Words, NEW t \in Octets,
           Ends(b, o, U16Bytes(n) \o t)
    PROVE  U16(b, o) = n /\ Ends(b, o + 2, t)
<1>1. PICK x \in Octet, y \in Octet : U16Bytes(n) = <<x, y>> /\ 256 * x + y = n
  BY U16Is
<1>2. b[o + 1] = x /\ b[o + 2] = y /\ Ends(b, o + 2, t)
  BY <1>1, EndsPair
<1>3. Byte(b, o) = x /\ Byte(b, o + 1) = y
  BY <1>2 DEF Byte
<1> QED BY <1>1, <1>2, <1>3 DEF U16

\* A sequence of at most one sequence, flattened.
LEMMA Flat ==
    /\ FlattenSeq(<<>>) = <<>>
    /\ \A s \in Octets : FlattenSeq(<<s>>) = s
<1>1. FlattenSeq(<<>>) = <<>>
  BY DEF FlattenSeq
<1>2. ASSUME NEW s \in Octets PROVE FlattenSeq(<<s>>) = s
  <2> DEFINE ss == <<s>>
             f[i \in 1 .. Len(ss)] == IF i = 1 THEN ss[i] ELSE f[i - 1] \o ss[i]
             g == [i \in 1 .. 1 |-> s]
  <2>1. g = [i \in 1 .. Len(ss) |-> IF i = 1 THEN ss[i] ELSE g[i - 1] \o ss[i]]
    OBVIOUS
  <2>2. f = [i \in 1 .. Len(ss) |-> IF i = 1 THEN ss[i] ELSE f[i - 1] \o ss[i]]
    BY <2>1 DEF f
  <2>3. FlattenSeq(ss) = f[Len(ss)]
    BY DEF FlattenSeq
  <2> QED BY <2>2, <2>3
<1> QED BY <1>1, <1>2

\* The data of an NPDU, where it has any.
LEMMA DataCases ==
    ASSUME NEW d \in DataFields, d # <<>>
    PROVE  /\ d[1] \in Octets /\ Len(d[1]) \in Nat /\ Len(d[1]) > 0 /\ Len(d[1]) < 255
           /\ d = <<d[1]>>
<1>1. PICK s \in Octets : Len(s) > 0 /\ Len(s) < 255 /\ d = <<s>>
  BY DEF DataFields
<1>2. d[1] = s
  BY <1>1
<1> QED BY <1>1, <1>2 DEF Octets

\* What NPDU.toBuffer writes, octet by octet.
LEMMA NPDUWritten ==
    ASSUME NEW npdu \in NPDUFields
    PROVE  /\ npdu.data = <<>> => NPDUBytes(npdu) = <<1, npdu.tpci, npdu.apci>> \o <<>>
           /\ npdu.data # <<>> =>
                 NPDUBytes(npdu) = <<1 + Len(npdu.data[1]), npdu.tpci, npdu.apci>> \o npdu.data[1]
           /\ npdu.data # <<>> => 1 + Len(npdu.data[1]) \in Octet
           /\ NPDUBytes(npdu) \in Octets
           /\ npdu.tpci \in Octet /\ npdu.apci \in Octet /\ npdu.data \in DataFields
<1>1. npdu.tpci \in Octet /\ npdu.apci \in Octet /\ npdu.data \in DataFields
  BY DEF NPDUFields
<1>2. CASE npdu.data = <<>>
  <2>0. FlattenSeq(npdu.data) = <<>> /\ 1 + Len(<<>>) = 1 /\ 1 \in Octet
    BY <1>2, Flat, OctetIs
  <2>1. NPDUBytes(npdu) = <<1, npdu.tpci, npdu.apci>> \o <<>>
    BY <2>0 DEF NPDUBytes
  <2>2. <<1, npdu.tpci, npdu.apci>> \in Octets
    BY <1>1, <2>0, OctetTuples
  <2> QED BY <1>1, <1>2, <2>1, <2>2 DEF Octets
<1>3. CASE npdu.data # <<>>
  <2> DEFINE s == npdu.data[1]
  <2>1. s \in Octets /\ Len(s) \in Nat /\ Len(s) > 0 /\ Len(s) < 255 /\ npdu.data = <<s>>
    BY <1>1, <1>3, DataCases
  <2> HIDE DEF s
  <2>2. NPDUBytes(npdu) = <<1 + Len(s), npdu.tpci, npdu.apci>> \o s
    BY <2>1, Flat DEF NPDUBytes
  <2>3. 1 + Len(s) \in Octet
    BY <2>1, OctetIs
  <2>4. <<1 + Len(s), npdu.tpci, npdu.apci>> \in Octets
    BY <2>3, <1>1, OctetTuples
  <2>5. NPDUBytes(npdu) \in Octets
    BY <2>1, <2>2, <2>4 DEF Octets
  <2> QED BY <1>1, <1>3, <2>2, <2>3, <2>5 DEF s
<1> QED BY <1>2, <1>3

\* NPDU.createFromBuffer reads what NPDU.toBuffer wrote, whatever stands before it.
LEMMA NPDURead ==
    ASSUME NEW npdu \in NPDUFields,
           NEW b \in Octets, NEW o \in Nat, Ends(b, o, NPDUBytes(npdu))
    PROVE  ParseNPDU(b, o) = npdu
<1>1. npdu = [tpci |-> npdu.tpci, apci |-> npdu.apci, data |-> npdu.data]
  BY DEF NPDUFields
<1>2. CASE npdu.data = <<>>
  <2>1. Ends(b, o, <<1, npdu.tpci, npdu.apci>> \o <<>>)
    BY <1>2, NPDUWritten
  <2>2. 1 \in Octet /\ npdu.tpci \in Octet /\ npdu.apci \in Octet /\ <<>> \in Octets
    <3>1. 1 \in Octet
      BY OctetIs
    <3>2. <<>> \in Octets
      BY OctetTuples
    <3> QED BY <3>1, <3>2, NPDUWritten
  <2>3. b[o + 1] = 1 /\ b[o + 2] = npdu.tpci /\ b[o + 3] = npdu.apci /\ Ends(b, o + 3, <<>>)
    BY <2>1, <2>2, EndsTriple
  <2>4. Len(b) = o + 3
    BY <2>3 DEF Ends
  <2> QED BY <1>1, <1>2, <2>3, <2>4 DEF ParseNPDU, Byte
<1>3. CASE npdu.data # <<>>
  <2> DEFINE s == npdu.data[1]
  <2>1. s \in Octets /\ Len(s) \in Nat /\ Len(s) > 0 /\ Len(s) < 255 /\ npdu.data = <<s>>
    BY <1>3, DataCases, NPDUWritten
  <2>2. Ends(b, o, <<1 + Len(s), npdu.tpci, npdu.apci>> \o s) /\ 1 + Len(s) \in Octet
    BY <1>3, NPDUWritten
  <2> HIDE DEF s
  <2>3. /\ b[o + 1] = 1 + Len(s) /\ b[o + 2] = npdu.tpci /\ b[o + 3] = npdu.apci
        /\ Ends(b, o + 3, s)
    BY <2>1, <2>2, NPDUWritten, EndsTriple
  <2>4. Len(b) = o + 3 + Len(s)
    BY <2>3 DEF Ends
  <2>5. Sub(b, o + 3, Len(b)) = s
    BY <2>1, <2>3, EndsSub
  <2>6. o + 2 + Byte(b, o) = Len(b) /\ Byte(b, o) > 1 /\ ~(o + 3 > Len(b))
    BY <2>1, <2>3, <2>4 DEF Byte
  <2>7. Byte(b, o + 1) = npdu.tpci /\ Byte(b, o + 2) = npdu.apci
    BY <2>3 DEF Byte
  <2> QED BY <1>1, <2>1, <2>5, <2>6, <2>7 DEF ParseNPDU
<1> QED BY <1>2, <1>3

\* The fields of a message the library writes.
LEMMA SendableFields ==
    ASSUME NEW c \in Sendable
    PROVE  /\ c.msgCode \in {L_DATA_REQ, L_DATA_IND} /\ c.msgCode \in Octet
           /\ c.additionalInfo = <<>>
           /\ c.control[1] \in Octet /\ c.control[2] \in Octet
           /\ c.control = <<c.control[1], c.control[2]>> /\ c.control \in Octets
           /\ c.srcAddress \in Words /\ c.dstAddress \in Words
           /\ c.npdu \in NPDUFields
           /\ c = [msgCode |-> c.msgCode, additionalInfo |-> c.additionalInfo,
                    control |-> c.control, srcAddress |-> c.srcAddress,
                    dstAddress |-> c.dstAddress, npdu |-> c.npdu]
<1>1. /\ c.msgCode \in {L_DATA_REQ, L_DATA_IND} /\ c.additionalInfo = <<>>
      /\ c.control \in Octet \X Octet /\ c.srcAddress \in Words /\ c.dstAddress \in Words
      /\ c.npdu \in NPDUFields
      /\ c = [msgCode |-> c.msgCode, additionalInfo |-> c.additionalInfo,
               control |-> c.control, srcAddress |-> c.srcAddress,
               dstAddress |-> c.dstAddress, npdu |-> c.npdu]
  BY DEF Sendable
<1>2. /\ c.control[1] \in Octet /\ c.control[2] \in Octet
      /\ c.control = <<c.control[1], c.control[2]>>
  BY <1>1
<1>3. c.control \in Octets
  <2> DEFINE x == c.control[1]
             y == c.control[2]
  <2>1. x \in Octet /\ y \in Octet /\ c.control = <<x, y>>
    BY <1>2
  <2> HIDE DEF x, y
  <2> QED BY <2>1, OctetTuples
<1>4. c.msgCode \in Octet
  BY <1>1, OctetIs DEF L_DATA_REQ, L_DATA_IND
<1> QED BY <1>1, <1>2, <1>3, <1>4

\* A message the library writes is one its parser can return, and no exception.
LEMMA SendableIsRead ==
    ASSUME NEW c \in Sendable
    PROVE  c \in Messages /\ c # Malformed /\ c.npdu # Malformed
<1>1. c.npdu \in NPDUs
  <2>1. DataFields \subseteq Seq(Seq(Octet))
    <3>1. <<>> \in Seq(Seq(Octet)) /\ \A t \in Octets : <<t>> \in Seq(Seq(Octet))
      BY DEF Octets
    <3> QED BY <3>1 DEF DataFields
  <2> QED BY <2>1, SendableFields DEF NPDUFields, NPDUs
<1>2. /\ c.msgCode \in Octet /\ c.additionalInfo \in Seq(Seq(Octet)) /\ c.control \in Seq(Octet)
      /\ c.srcAddress \in Nat /\ c.dstAddress \in Nat
  <2>1. <<>> \in Seq(Seq(Octet))
    OBVIOUS
  <2>2. c.srcAddress \in Nat /\ c.dstAddress \in Nat
    BY SendableFields DEF Words
  <2>3. c.control \in Seq(Octet)
    BY SendableFields DEF Octets
  <2> QED BY <2>1, <2>2, <2>3, SendableFields
<1>3. c \in Messages
  BY <1>1, <1>2, SendableFields DEF Messages
<1> QED BY <1>1, <1>3, MalformedAssumption

\* What LDataReq and LDataInd write, field by field.
LEMMA CEMIWritten ==
    ASSUME NEW c \in Sendable
    PROVE  /\ CEMIBytes(c) = <<c.msgCode, 0>> \o (c.control \o (U16Bytes(c.srcAddress)
                               \o (U16Bytes(c.dstAddress) \o NPDUBytes(c.npdu))))
           /\ CEMIBytes(c) \in Octets
<1> DEFINE src == U16Bytes(c.srcAddress)
           dst == U16Bytes(c.dstAddress)
           npdu == NPDUBytes(c.npdu)
           head == <<c.msgCode, 0>>
<1>1. src \in Octets /\ dst \in Octets
  BY SendableFields, U16Is
<1>2. npdu \in Octets /\ c.control \in Octets
  BY SendableFields, NPDUWritten
<1>3. head \in Octets
  BY SendableFields, OctetTuples, OctetIs
<1>4. CEMIBytes(c) = <<c.msgCode, Len(<<>>)>> \o <<>> \o c.control \o src \o dst \o npdu
  BY SendableFields, Flat DEF CEMIBytes
<1>5. CEMIBytes(c) = head \o <<>> \o c.control \o src \o dst \o npdu
  BY <1>4
<1> HIDE DEF src, dst, npdu, head
<1>6. CEMIBytes(c) = head \o (c.control \o (src \o (dst \o npdu))) /\ CEMIBytes(c) \in Octets
  <2>1. head \o <<>> = head
    BY <1>3 DEF Octets
  <2>2. CEMIBytes(c) = head \o c.control \o src \o dst \o npdu
    BY <1>5, <2>1
  <2> DEFINE k == c.control
  <2>3. k \in Octets
    BY <1>2
  <2> HIDE DEF k
  <2>4. /\ head \o k \o src \o dst \o npdu = head \o (k \o (src \o (dst \o npdu)))
        /\ head \o (k \o (src \o (dst \o npdu))) \in Octets
    BY <1>1, <1>2, <1>3, <2>3, JoinedFive
  <2> QED BY <2>2, <2>4 DEF k
<1> QED BY <1>6 DEF src, dst, npdu, head

\* A telegram at the end of a buffer is read as it was written.
LEMMA CEMIRead ==
    ASSUME NEW c \in Sendable, NEW b \in Octets, NEW o \in Nat, Ends(b, o, CEMIBytes(c))
    PROVE  ParseCEMI(b, o) = c
<1> DEFINE src == U16Bytes(c.srcAddress)
           dst == U16Bytes(c.dstAddress)
           npdu == NPDUBytes(c.npdu)
           k == c.control[1]
           l == c.control[2]
           o2 == o + 2
           o4 == o2 + 2
           o6 == o4 + 2
           o8 == o6 + 2
<1>1. src \in Octets /\ dst \in Octets
  BY SendableFields, U16Is
<1>2. npdu \in Octets
  BY SendableFields, NPDUWritten
<1>3. k \in Octet /\ l \in Octet /\ c.control = <<k, l>>
  BY SendableFields
<1>4. dst \o npdu \in Octets /\ src \o (dst \o npdu) \in Octets /\ <<k, l>> \in Octets
  BY <1>1, <1>2, <1>3, Joined, OctetTuples
<1>5. <<k, l>> \o (src \o (dst \o npdu)) \in Octets
  BY <1>4, Joined
<1>6. Ends(b, o, <<c.msgCode, 0>> \o (<<k, l>> \o (src \o (dst \o npdu))))
  BY <1>3, CEMIWritten
<1>7. c.msgCode \in Octet /\ c.srcAddress \in Words /\ c.dstAddress \in Words /\ c.npdu \in NPDUFields
  BY SendableFields
<1>8. 0 \in Octet
  BY OctetIs
<1>9. o2 \in Nat /\ o4 \in Nat /\ o6 \in Nat /\ o8 \in Nat
  OBVIOUS
<1> HIDE DEF src, dst, npdu, k, l, o4, o6, o8
<1>10. b[o + 1] = c.msgCode /\ b[o + 2] = 0 /\ Ends(b, o2, <<k, l>> \o (src \o (dst \o npdu)))
  BY <1>5, <1>6, <1>7, <1>8, EndsPair
<1> HIDE DEF o2
<1>11. b[o2 + 1] = k /\ b[o2 + 2] = l /\ Ends(b, o4, src \o (dst \o npdu))
  BY <1>3, <1>4, <1>9, <1>10, EndsPair DEF o4
<1>12. U16(b, o4) = c.srcAddress /\ Ends(b, o6, dst \o npdu)
  BY <1>4, <1>7, <1>9, <1>11, EndsWord DEF src, o6
<1>13. U16(b, o6) = c.dstAddress /\ Ends(b, o8, npdu)
  BY <1>2, <1>7, <1>9, <1>12, EndsWord DEF dst, o8
<1>14. ParseNPDU(b, o8) = c.npdu
  BY <1>7, <1>9, <1>13, NPDURead DEF npdu
<1>15. Len(b) \in Nat /\ Len(npdu) \in Nat /\ Len(b) = o8 + Len(npdu)
  <2>1. Len(b) \in Nat /\ Len(npdu) \in Nat
    BY <1>2 DEF Octets
  <2> QED BY <2>1, <1>13 DEF Ends
<1>16. o2 = o + 2 /\ o4 = o2 + 2 /\ o4 = o + 4 /\ o6 = o + 6 /\ o8 = o + 8
  BY DEF o2, o4, o6, o8
<1>17. Sub(b, o2, o4) = c.control
  <2> DEFINE u == SubSeq(b, o2 + 1, o4)
  <2>1. Sub(b, o2, o4) = u
    BY <1>15, <1>16 DEF Sub
  <2>2. Len(u) = 2 /\ u[1] = b[o2 + 1] /\ u[2] = b[o2 + 2] /\ u \in Seq(Octet)
    BY <1>9, <1>15, <1>16 DEF Octets
  <2>3. u = <<u[1], u[2]>>
    <3> HIDE DEF u
    <3> QED BY <2>2
  <2> QED BY <1>3, <1>11, <2>1, <2>2, <2>3
<1>18. Byte(b, o) = c.msgCode /\ Byte(b, o + 1) = 0
  BY <1>10 DEF Byte
<1>19. LData(b, o) = c
  <2>1. o + 2 + 0 = o2 /\ ~(o2 + 6 > Len(b)) /\ o2 + 2 = o4 /\ o2 + 4 = o6 /\ o2 + 6 = o8
    BY <1>15, <1>16
  <2>2. LData(b, o) = CEMI(c.msgCode, <<>>, Sub(b, o2, o4), U16(b, o4), U16(b, o6), ParseNPDU(b, o8))
    BY <1>18, <2>1 DEF LData
  <2>3. LData(b, o) = CEMI(c.msgCode, <<>>, c.control, c.srcAddress, c.dstAddress, c.npdu)
    BY <1>12, <1>13, <1>14, <1>17, <2>2
  <2> QED BY <2>3, SendableFields DEF CEMI
<1>20. c # Malformed /\ c.npdu # Malformed
  BY SendableIsRead
<1>21. Complete(c) = c
  BY <1>20 DEF Complete
<1>22. CASE c.msgCode = L_DATA_REQ
  <2>1. ~(o + 2 > Len(b)) /\ Byte(b, o) = L_DATA_REQ
    BY <1>15, <1>16, <1>18, <1>22
  <2> QED BY <2>1, <1>19, <1>21
          DEF ParseCEMI, ParseLDataReq, L_DATA_REQ, L_DATA_IND, L_DATA_CON
<1>23. CASE c.msgCode = L_DATA_IND
  <2>1. ~(o + 2 > Len(b)) /\ Byte(b, o) = L_DATA_IND
    BY <1>15, <1>16, <1>18, <1>23
  <2> QED BY <2>1, <1>19 DEF ParseCEMI, ParseLDataInd, L_DATA_REQ, L_DATA_IND, L_DATA_CON
<1> QED BY <1>22, <1>23, SendableFields

\* b is a frame of the service type, with t behind its header.
IsFrame(b, type, t) ==
    /\ b \in Octets
    /\ Len(b) = 6 + Len(t)
    /\ U16(b, 4) = Len(b)
    /\ ParseHeader(b) = [service_type |-> type, length |-> Len(b)]
    /\ ParseHeader(b) # Malformed
    /\ Sub(b, 6, Len(b)) = t

\* KNXHeader.createFromBuffer reads the service and the length of a packet.
LEMMA HeaderRead ==
    ASSUME NEW type \in Words, NEW t \in Octets, 6 + Len(t) \in Words
    PROVE  IsFrame(HeaderBytes(type, Len(t)) \o t, type, t)
<1> DEFINE length == Len(t)
           b == HeaderBytes(type, length) \o t
<1>0. length \in Nat /\ 6 + length \in Words /\ b = HeaderBytes(type, length) \o t
  BY DEF Octets
<1> HIDE DEF b, length
<1> DEFINE kind == U16Bytes(type)
           size == U16Bytes(6 + length)
<1>1. kind \in Octets /\ size \in Octets
  BY <1>0, U16Is
<1>2. 6 \in Octet /\ 16 \in Octet
  BY OctetIs
<1>3. <<6, 16>> \in Octets
  BY <1>2, OctetTuples
<1> HIDE DEF kind, size
<1>4. HeaderBytes(type, length) = <<6, 16>> \o kind \o size
  BY DEF HeaderBytes, kind, size
<1>5. size \o t \in Octets /\ kind \o (size \o t) \in Octets
  BY <1>1, Joined
<1>6. b = <<6, 16>> \o (kind \o (size \o t)) /\ b \in Octets
  <2> DEFINE head == <<6, 16>>
  <2>1. head \in Octets
    BY <1>3
  <2>2. b = head \o kind \o size \o t
    BY <1>0, <1>4
  <2> HIDE DEF head
  <2>3. b = head \o (kind \o (size \o t)) /\ b \in Octets
    <3>1. head \o kind \in Octets
      BY <1>1, <2>1, JoinedLength
    <3>2. head \o kind \o size \o t = head \o kind \o (size \o t)
      BY <1>1, <3>1, Joined
    <3>3. head \o kind \o (size \o t) = head \o (kind \o (size \o t))
      <4> DEFINE x == size \o t
      <4>1. x \in Octets
        BY <1>5
      <4> HIDE DEF x
      <4>2. head \o kind \o x = head \o (kind \o x)
        BY <1>1, <2>1, <4>1, Joined
      <4> QED BY <4>2 DEF x
    <3>4. head \o (kind \o (size \o t)) \in Octets
      BY <1>5, <2>1, JoinedLength
    <3> QED BY <2>2, <3>2, <3>3, <3>4
  <2> QED BY <2>3 DEF head
<1>7. Ends(b, 0, <<6, 16>> \o (kind \o (size \o t)))
  <2>1. Ends(b, 0, b)
    BY <1>6 DEF Ends, Octets
  <2> QED BY <1>6, <2>1
<1>8. b[0 + 1] = 6 /\ b[0 + 2] = 16 /\ Ends(b, 0 + 2, kind \o (size \o t))
  BY <1>2, <1>5, <1>6, <1>7, EndsPair
<1>9. Ends(b, 2, kind \o (size \o t)) /\ Byte(b, 0) = 6 /\ Byte(b, 1) = 16
  <2>1. 0 + 2 = 2 /\ 0 + 1 = 1 /\ 1 + 1 = 2
    OBVIOUS
  <2>2. b[1] = 6 /\ b[2] = 16 /\ Ends(b, 2, kind \o (size \o t))
    BY <1>8, <2>1
  <2> QED BY <2>1, <2>2 DEF Byte
<1>10. U16(b, 2) = type /\ Ends(b, 2 + 2, size \o t)
  BY <1>5, <1>6, <1>9, EndsWord DEF kind
<1>11. U16(b, 4) = 6 + length /\ Ends(b, 4 + 2, t)
  <2>1. Ends(b, 4, size \o t)
    BY <1>10
  <2> QED BY <1>0, <1>5, <1>6, <2>1, EndsWord DEF size
<1>12. Ends(b, 6, t)
  BY <1>11
<1>13. Len(b) = 6 + Len(t) /\ Len(t) \in Nat
  BY <1>12 DEF Ends, Octets
<1>14. Sub(b, 6, Len(b)) = t
  BY <1>6, <1>12, EndsSub
<1>15. ParseHeader(b) = [service_type |-> type, length |-> 6 + length]
  BY <1>9, <1>10, <1>11, <1>13 DEF ParseHeader
<1>16. ParseHeader(b) \in Packets
  <2>1. type \in Nat /\ 6 + length \in Nat
    BY <1>0 DEF Words
  <2> QED BY <1>15, <2>1 DEF Packets
<1>17. Len(b) = 6 + length
  BY <1>13 DEF length
<1> QED BY <1>6, <1>11, <1>13, <1>14, <1>15, <1>16, <1>17, MalformedAssumption DEF IsFrame, b, length

\* A message is never too long for the length of its packet.
LEMMA CEMISize ==
    ASSUME NEW c \in Sendable
    PROVE  Len(CEMIBytes(c)) = CEMILength(c) /\ CEMILength(c) \in Nat /\ CEMILength(c) < 300
<1> DEFINE npdu == NPDUBytes(c.npdu)
           src == U16Bytes(c.srcAddress)
           dst == U16Bytes(c.dstAddress)
           k == c.control
           head == <<c.msgCode, 0>>
<1>1. Len(npdu) = NPDULength(c.npdu) /\ NPDULength(c.npdu) \in Nat /\ NPDULength(c.npdu) < 260
  <2>1. CASE c.npdu.data = <<>>
    <3>1. npdu = <<1, c.npdu.tpci, c.npdu.apci>> \o <<>>
      BY <2>1, NPDUWritten, SendableFields
    <3>2. Len(npdu) = 3
      BY <3>1
    <3>3. NPDULength(c.npdu) = 3
      BY <2>1 DEF NPDULength
    <3> QED BY <3>2, <3>3
  <2>2. CASE c.npdu.data # <<>>
    <3> DEFINE s == c.npdu.data[1]
    <3>1. npdu = <<1 + Len(s), c.npdu.tpci, c.npdu.apci>> \o s
      BY <2>2, NPDUWritten, SendableFields
    <3>2. s \in Octets /\ Len(s) \in Nat /\ Len(s) < 255
      BY <2>2, DataCases, NPDUWritten, SendableFields
    <3> HIDE DEF s
    <3>3. Len(npdu) = 3 + Len(s)
      BY <3>1, <3>2 DEF Octets
    <3>4. NPDULength(c.npdu) = 3 + Len(s)
      BY <2>2 DEF NPDULength, s
    <3> QED BY <3>2, <3>3, <3>4
  <2> QED BY <2>1, <2>2
<1>2. npdu \in Octets /\ src \in Octets /\ dst \in Octets /\ k \in Octets /\ head \in Octets
  <2>1. npdu \in Octets /\ src \in Octets /\ dst \in Octets /\ k \in Octets
    BY NPDUWritten, SendableFields, U16Is
  <2>2. 0 \in Octet /\ c.msgCode \in Octet
    BY SendableFields, OctetIs
  <2> QED BY <2>1, <2>2, OctetTuples
<1>3. Len(src) = 2 /\ Len(dst) = 2 /\ Len(head) = 2
  BY SendableFields, U16Is
<1>4. Len(k) = 2
  <2>1. k = <<k[1], k[2]>>
    BY SendableFields
  <2> QED BY <2>1
<1>5. CEMIBytes(c) = head \o (k \o (src \o (dst \o npdu)))
  BY CEMIWritten
<1> HIDE DEF npdu, src, dst, k, head
<1> DEFINE tail == dst \o npdu
           others == src \o tail
           fields == k \o others
<1>6. Len(tail) = 2 + Len(npdu) /\ tail \in Octets /\ Len(npdu) \in Nat
  BY <1>2, <1>3, JoinedLength
<1> HIDE DEF tail
<1>7. Len(others) = 4 + Len(npdu) /\ others \in Octets
  <2>1. Len(others) = Len(src) + Len(tail) /\ others \in Octets
    BY <1>2, <1>6, JoinedLength
  <2> QED BY <1>3, <1>6, <2>1
<1> HIDE DEF others
<1>8. Len(fields) = 6 + Len(npdu) /\ fields \in Octets
  <2>1. Len(fields) = Len(k) + Len(others) /\ fields \in Octets
    BY <1>2, <1>7, JoinedLength
  <2> QED BY <1>4, <1>6, <1>7, <2>1
<1> HIDE DEF fields
<1>9. Len(CEMIBytes(c)) = 8 + Len(npdu)
  <2>1. CEMIBytes(c) = head \o fields
    BY <1>5 DEF tail, others, fields
  <2>2. Len(head \o fields) = Len(head) + Len(fields)
    BY <1>2, <1>8, JoinedLength
  <2> QED BY <1>3, <1>6, <1>8, <2>1, <2>2
<1>10. CEMILength(c) = 8 + NPDULength(c.npdu)
  BY <1>1, SendableIsRead, SendableFields DEF CEMILength
<1> QED BY <1>1, <1>9, <1>10

\* A routing indication survives toBuffer and parseMessage, whatever it carries, and
\* its header announces its length (KNXRoutingIndication, KNXProtocol.parseMessage).
THEOREM RoutingRoundTrip ==
    ASSUME NEW c \in Sendable
    PROVE  /\ ToBuffer(RoutingIndication(c)) \in Octets
           /\ ParseMessage(ToBuffer(RoutingIndication(c))) = RoutingIndication(c)
           /\ U16(ToBuffer(RoutingIndication(c)), 4) = Len(ToBuffer(RoutingIndication(c)))
           /\ Len(ToBuffer(RoutingIndication(c))) < 400
<1> DEFINE p == RoutingIndication(c)
           body == CEMIBytes(c)
           b == HeaderBytes(ROUTING_INDICATION, CEMILength(c)) \o body
<1>1. p.service_type = 1328 /\ p.cEMIMessage = c
  BY DEF RoutingIndication, ROUTING_INDICATION
<1>2. Body(p) = body
  BY <1>1 DEF Body, RoutingIndicationBody, SEARCH_REQUEST, SEARCH_REQUEST_EXTENDED,
     DESCRIPTION_REQUEST, SEARCH_RESPONSE, SEARCH_RESPONSE_EXTENDED, DESCRIPTION_RESPONSE,
     CONNECT_REQUEST, CONNECT_RESPONSE, CONNECTIONSTATE_REQUEST, CONNECTIONSTATE_RESPONSE,
     DISCONNECT_REQUEST, DISCONNECT_RESPONSE, TUNNELING_REQUEST, TUNNELING_ACK, ROUTING_INDICATION
<1>3. BodyLength(p, body) = CEMILength(c)
  BY <1>1 DEF BodyLength, TUNNELING_REQUEST, ROUTING_INDICATION
<1>4. ToBuffer(p) = b
  BY <1>1, <1>2, <1>3 DEF ToBuffer, Written, WithHeader, CONNECT_RESPONSE, ROUTING_INDICATION
<1>5. ROUTING_INDICATION \in Words /\ 6 + CEMILength(c) \in Words /\ CEMILength(c) \in Nat
  BY CEMISize DEF Words, ROUTING_INDICATION
<1>6. body \in Octets /\ Len(body) = CEMILength(c)
  BY CEMIWritten, CEMISize
<1>7. IsFrame(b, ROUTING_INDICATION, body)
  <2>1. b = HeaderBytes(ROUTING_INDICATION, Len(body)) \o body
    BY <1>6
  <2>2. ROUTING_INDICATION \in Words /\ 6 + Len(body) \in Words /\ body \in Octets
    BY <1>5, <1>6
  <2> HIDE DEF b, body
  <2> QED BY <2>1, <2>2, HeaderRead
<1> HIDE DEF b, body, p
<1>8. ParseMessage(b) = ParseBody(ROUTING_INDICATION, body)
  BY <1>7 DEF ParseMessage, IsFrame
<1>9. ParseBody(ROUTING_INDICATION, body) = ParseRoutingIndication(body)
  BY DEF ParseBody, SEARCH_REQUEST, SEARCH_REQUEST_EXTENDED,
     DESCRIPTION_REQUEST, SEARCH_RESPONSE, SEARCH_RESPONSE_EXTENDED, DESCRIPTION_RESPONSE,
     CONNECT_REQUEST, CONNECT_RESPONSE, CONNECTIONSTATE_REQUEST, CONNECTIONSTATE_RESPONSE,
     DISCONNECT_REQUEST, DISCONNECT_RESPONSE, TUNNELING_REQUEST, TUNNELING_ACK, ROUTING_INDICATION
<1>10. ParseCEMI(body, 0) = c
  <2>1. Ends(body, 0, body)
    BY <1>6 DEF Ends, Octets
  <2> QED BY <1>6, <2>1, CEMIRead DEF body
<1>11. ParseRoutingIndication(body) = RoutingIndication(c)
  BY <1>10, SendableIsRead DEF ParseRoutingIndication, With
<1>12. Len(b) < 400
  <2>1. Len(b) = 6 + Len(body) /\ Len(body) < 300 /\ Len(body) \in Nat
    BY <1>6, <1>7, CEMISize DEF IsFrame
  <2> QED BY <2>1
<1> QED BY <1>4, <1>7, <1>8, <1>9, <1>11, <1>12 DEF IsFrame, p

\* So does a tunnelling request, for every channel and number (KNXTunnelingRequest).
THEOREM TunnelingRoundTrip ==
    ASSUME NEW c \in Sendable, NEW channel \in Octet, NEW seq \in Octet
    PROVE  /\ ToBuffer(TunnelingRequest(channel, seq, c)) \in Octets
           /\ ParseMessage(ToBuffer(TunnelingRequest(channel, seq, c)))
                = TunnelingRequest(channel, seq, c)
           /\ U16(ToBuffer(TunnelingRequest(channel, seq, c)), 4)
                = Len(ToBuffer(TunnelingRequest(channel, seq, c)))
           /\ Len(ToBuffer(TunnelingRequest(channel, seq, c))) < 400
<1> DEFINE p == TunnelingRequest(channel, seq, c)
           head == <<4, channel, seq, 0>>
           body == head \o CEMIBytes(c)
           b == HeaderBytes(TUNNELING_REQUEST, 4 + CEMILength(c)) \o body
<1>1. p.service_type = 1056 /\ p.cEMIMessage = c /\ p.channelID = channel /\ p.seqCounter = seq
  BY DEF TunnelingRequest, TUNNELING_REQUEST
<1>2. Body(p) = body
  BY <1>1 DEF Body, TunnelingRequestBody, SEARCH_REQUEST, SEARCH_REQUEST_EXTENDED,
     DESCRIPTION_REQUEST, SEARCH_RESPONSE, SEARCH_RESPONSE_EXTENDED, DESCRIPTION_RESPONSE,
     CONNECT_REQUEST, CONNECT_RESPONSE, CONNECTIONSTATE_REQUEST, CONNECTIONSTATE_RESPONSE,
     DISCONNECT_REQUEST, DISCONNECT_RESPONSE, TUNNELING_REQUEST, TUNNELING_ACK, ROUTING_INDICATION
<1>3. BodyLength(p, body) = 4 + CEMILength(c)
  BY <1>1 DEF BodyLength, TUNNELING_REQUEST, ROUTING_INDICATION
<1>4. ToBuffer(p) = b
  <2> HIDE DEF p, body
  <2>1. Written(p, body) = WithHeader(p, body)
    BY <1>1 DEF Written, CONNECT_RESPONSE
  <2> QED BY <1>1, <1>2, <1>3, <2>1 DEF ToBuffer, WithHeader, TUNNELING_REQUEST
<1>5. 4 \in Octet /\ 0 \in Octet
  BY OctetIs
<1>6. head \in Octets /\ Len(head) = 4
  BY <1>5, OctetTuples
<1>7. CEMIBytes(c) \in Octets /\ Len(CEMIBytes(c)) = CEMILength(c) /\ CEMILength(c) \in Nat
      /\ CEMILength(c) < 300
  BY CEMIWritten, CEMISize
<1> DEFINE cemi == CEMIBytes(c)
<1>8. body \in Octets /\ Len(body) = 4 + CEMILength(c)
  <2>1. cemi \in Octets
    BY <1>7
  <2> HIDE DEF head, cemi
  <2>2. Len(head \o cemi) = Len(head) + Len(cemi) /\ head \o cemi \in Octets
    BY <1>6, <2>1, JoinedLength
  <2> QED BY <1>6, <1>7, <2>2 DEF cemi
<1>9. body[1] = 4 /\ body[2] = channel /\ body[3] = seq /\ Ends(body, 4, CEMIBytes(c))
  <2>1. Ends(body, 0, head \o CEMIBytes(c))
    BY <1>8 DEF Ends, Octets
  <2> DEFINE x == body
  <2>2. x \in Octets /\ Ends(x, 0, <<4, channel, seq, 0>> \o CEMIBytes(c))
    BY <1>8, <2>1
  <2> HIDE DEF x
  <2>3. /\ x[0 + 1] = 4 /\ x[0 + 2] = channel /\ x[0 + 3] = seq /\ x[0 + 4] = 0
        /\ Ends(x, 0 + 4, CEMIBytes(c))
    BY <1>5, <1>7, <2>2, EndsFour
  <2>4. 0 + 1 = 1 /\ 0 + 2 = 2 /\ 0 + 3 = 3 /\ 0 + 4 = 4
    OBVIOUS
  <2> QED BY <2>3, <2>4 DEF x
<1> HIDE DEF body
<1>10. IsFrame(b, TUNNELING_REQUEST, body)
  <2>1. b = HeaderBytes(TUNNELING_REQUEST, Len(body)) \o body
    BY <1>8
  <2>2. TUNNELING_REQUEST \in Words /\ 6 + Len(body) \in Words
    BY <1>7, <1>8 DEF Words, TUNNELING_REQUEST
  <2> HIDE DEF b
  <2> QED BY <1>8, <2>1, <2>2, HeaderRead
<1> HIDE DEF b, p
<1>11. ParseMessage(b) = ParseBody(TUNNELING_REQUEST, body)
  BY <1>10 DEF ParseMessage, IsFrame
<1>12. ParseBody(TUNNELING_REQUEST, body) = ParseTunnelingRequest(body)
  BY DEF ParseBody, SEARCH_REQUEST, SEARCH_REQUEST_EXTENDED,
     DESCRIPTION_REQUEST, SEARCH_RESPONSE, SEARCH_RESPONSE_EXTENDED, DESCRIPTION_RESPONSE,
     CONNECT_REQUEST, CONNECT_RESPONSE, CONNECTIONSTATE_REQUEST, CONNECTIONSTATE_RESPONSE,
     DISCONNECT_REQUEST, DISCONNECT_RESPONSE, TUNNELING_REQUEST, TUNNELING_ACK, ROUTING_INDICATION
<1>13. ParseCEMI(body, 4) = c
  BY <1>8, <1>9, CEMIRead
<1>14. Structure(body, 0)
  <2>1. Byte(body, 0) = 4
    <3>1. 0 + 1 = 1
      OBVIOUS
    <3> QED BY <1>9, <3>1 DEF Byte
  <2> QED BY <1>7, <1>8, <2>1 DEF Structure
<1>15. ParseTunnelingRequest(body) = TunnelingRequest(channel, seq, c)
  BY <1>9, <1>13, <1>14, SendableIsRead DEF ParseTunnelingRequest, With
<1>16. Len(b) < 400
  <2>1. Len(b) = 6 + Len(body) /\ Len(body) = 4 + CEMILength(c) /\ CEMILength(c) < 300
        /\ CEMILength(c) \in Nat
    BY <1>7, <1>8, <1>10 DEF IsFrame
  <2> QED BY <2>1
<1> QED BY <1>4, <1>10, <1>11, <1>12, <1>15, <1>16 DEF IsFrame, p

-----------------------------------------------------------------------------
(* The tunnelling server between its clients and the bus *)

\* The bits the server sets in a control field leave it an octet.
LEMMA ControlOctets ==
    \A n \in Octet :
        /\ WithBits(n, 1, 1, 0) \in Octet
        /\ WithBits(n, 4, 1, 1) \in Octet
<1> SUFFICES ASSUME NEW n \in Nat, n <= 255
             PROVE  WithBits(n, 1, 1, 0) \in Octet /\ WithBits(n, 4, 1, 1) \in Octet
  BY OctetIs
<1>1. WithBits(n, 1, 1, 0) \in Nat /\ WithBits(n, 1, 1, 0) <= 255
  BY DEF WithBits, Bits
<1>2. WithBits(n, 4, 1, 1) \in Nat /\ WithBits(n, 4, 1, 1) <= 255
  BY DEF WithBits, Bits
<1> QED BY <1>1, <1>2, OctetIs

\* The server passes a client's request to the bus as an indication from the
\* address it has assigned, to the same group and with the same data; and what it
\* hears from the bus to a client, unchanged, in a tunnelling request
\* (buildRoutingIndicationFromTunneling, sendBusFrameToClient).
THEOREM ServerForwards ==
    ASSUME NEW c \in Sendable, c.msgCode = L_DATA_REQ, NEW assigned \in Words
    PROVE  \E d \in Sendable :
              /\ RoutingFromTunneling(c, assigned) = <<RoutingIndication(d)>>
              /\ d.msgCode = L_DATA_IND /\ d.srcAddress = assigned
              /\ d.dstAddress = c.dstAddress /\ d.npdu = c.npdu
              /\ IsGroupAddress(d.control) <=> IsGroupAddress(c.control)
<1> DEFINE k == c.control[1]
           l == c.control[2]
           control == WithBroadcast(WithAck(c.control, 0), 1)
           d == [c EXCEPT !.msgCode = L_DATA_IND, !.srcAddress = assigned, !.control = control]
<1>1. k \in Octet /\ l \in Octet /\ c.control = <<k, l>>
  BY SendableFields
<1>2. control = <<WithBits(WithBits(k, 1, 1, 0), 4, 1, 1), l>>
  BY <1>1 DEF WithBroadcast, WithAck
<1>3. WithBits(WithBits(k, 1, 1, 0), 4, 1, 1) \in Octet
  BY <1>1, ControlOctets
<1>4. control \in Octet \X Octet /\ control[2] = c.control[2]
  <2> HIDE DEF control
  <2> QED BY <1>1, <1>2, <1>3
<1> HIDE DEF control
<1>5. d = [msgCode |-> L_DATA_IND, additionalInfo |-> c.additionalInfo, control |-> control,
           srcAddress |-> assigned, dstAddress |-> c.dstAddress, npdu |-> c.npdu]
  <2> DEFINE asIndication == [c EXCEPT !.msgCode = L_DATA_IND]
             fromAssigned == [asIndication EXCEPT !.srcAddress = assigned]
  <2>1. c = [msgCode |-> c.msgCode, additionalInfo |-> c.additionalInfo,
             control |-> c.control, srcAddress |-> c.srcAddress,
             dstAddress |-> c.dstAddress, npdu |-> c.npdu]
    BY SendableFields
  <2>2. asIndication = [msgCode |-> L_DATA_IND, additionalInfo |-> c.additionalInfo,
                        control |-> c.control, srcAddress |-> c.srcAddress,
                        dstAddress |-> c.dstAddress, npdu |-> c.npdu]
    BY <2>1
  <2> HIDE DEF asIndication
  <2>3. fromAssigned = [msgCode |-> L_DATA_IND, additionalInfo |-> c.additionalInfo,
                        control |-> c.control, srcAddress |-> assigned,
                        dstAddress |-> c.dstAddress, npdu |-> c.npdu]
    BY <2>2
  <2> HIDE DEF fromAssigned
  <2>4. [fromAssigned EXCEPT !.control = control]
          = [msgCode |-> L_DATA_IND, additionalInfo |-> c.additionalInfo,
             control |-> control, srcAddress |-> assigned,
             dstAddress |-> c.dstAddress, npdu |-> c.npdu]
    BY <2>3
  <2> QED BY <2>4 DEF asIndication, fromAssigned
<1>6. c.additionalInfo = <<>> /\ c.dstAddress \in Words /\ c.npdu \in NPDUFields
  BY SendableFields
<1>7. d \in Sendable
  BY <1>4, <1>5, <1>6 DEF Sendable
<1>8. RoutingFromTunneling(c, assigned) = <<RoutingIndication(d)>>
  BY DEF RoutingFromTunneling, L_DATA_IND, L_DATA_REQ, control
<1> HIDE DEF d
<1> QED BY <1>4, <1>5, <1>7, <1>8 DEF IsGroupAddress

\* A routing indication is no exception.
LEMMA IndicationIsRead ==
    ASSUME NEW c \in Sendable
    PROVE  RoutingIndication(c) # Malformed
<1>1. RoutingIndication(c) \in [service_type : Nat, cEMIMessage : Messages]
  BY SendableIsRead DEF RoutingIndication, ROUTING_INDICATION
<1> QED BY <1>1, MalformedAssumption DEF Packets

\* sendBusFrameToClient: a telegram heard on the bus goes to a client as one tunnelling
\* request on its channel, with the telegram as it was and the sequence number in one
\* octet.
THEOREM ServerDelivers ==
    ASSUME NEW d \in Sendable, NEW channel \in Octet, NEW seq \in Nat
    PROVE  TunnelingFromRouting(ToBuffer(RoutingIndication(d)), channel, seq)
             = <<TunnelingRequest(channel, seq % 256, d)>>
<1> DEFINE b == ToBuffer(RoutingIndication(d))
<1>1. ParseMessage(b) = RoutingIndication(d) /\ ParseMessage(b) # Malformed
  BY RoutingRoundTrip, IndicationIsRead
<1> HIDE DEF b
<1>2. /\ RoutingIndication(d).service_type = ROUTING_INDICATION
      /\ RoutingIndication(d).cEMIMessage = d
  BY DEF RoutingIndication
<1>3. TunnelingFromRouting(b, channel, seq) = <<TunnelingRequest(channel, seq % 256, d)>>
  BY <1>1, <1>2 DEF TunnelingFromRouting
<1> QED BY <1>3 DEF b

-----------------------------------------------------------------------------
(* From the call of an application to what another one reads *)

\* A three-level group address and an individual address are read as they were
\* written, so that no two of either share a number (KNXAddress).
THEOREM AddressesAreRead ==
    ASSUME NEW main \in Nat, NEW middle \in Nat, NEW sub \in Nat, sub <= 255
    PROVE  /\ main <= 31 /\ middle <= 7 =>
                 /\ AddressNumber(<<main, middle, sub>>, TRUE) \in Words
                 /\ AddressDigits(AddressNumber(<<main, middle, sub>>, TRUE), TRUE)
                       = <<main, middle, sub>>
           /\ main <= 15 /\ middle <= 15 =>
                 /\ AddressNumber(<<main, middle, sub>>, FALSE) \in Words
                 /\ AddressDigits(AddressNumber(<<main, middle, sub>>, FALSE), FALSE)
                       = <<main, middle, sub>>
<1> DEFINE group == sub + 256 * middle + main * 2048
           single == sub + 256 * middle + main * 4096
<1>1. /\ AddressNumber(<<main, middle, sub>>, TRUE) = group
      /\ AddressNumber(<<main, middle, sub>>, FALSE) = single
  BY DEF AddressNumber
<1> DEFINE high == (group \div 2048) % 32
           mid == (group \div 256) % 8
           low == group % 256
           area == (single \div 4096) % 16
           zone == (single \div 256) % 16
           device == single % 256
<1>2. main <= 31 /\ middle <= 7 =>
        group \in Words /\ high = main /\ mid = middle /\ low = sub
  BY DEF Words
<1>3. main <= 15 /\ middle <= 15 =>
        single \in Words /\ area = main /\ zone = middle /\ device = sub
  BY DEF Words
<1>4. AddressDigits(group, TRUE) = <<high, mid, low>>
  BY DEF AddressDigits, Bits, Low
<1>5. AddressDigits(single, FALSE) = <<area, zone, device>>
  BY DEF AddressDigits, Bits, Low
<1> HIDE DEF group, single, high, mid, low, area, zone, device
<1>6. main <= 31 /\ middle <= 7 => AddressDigits(group, TRUE) = <<main, middle, sub>>
  BY <1>2, <1>4
<1>7. main <= 15 /\ middle <= 15 => AddressDigits(single, FALSE) = <<main, middle, sub>>
  BY <1>3, <1>5
<1> DEFINE digits == <<main, middle, sub>>
<1>8. AddressNumber(digits, TRUE) = group /\ AddressNumber(digits, FALSE) = single
  BY <1>1
<1> HIDE DEF digits
<1>9. /\ main <= 31 /\ middle <= 7 =>
            AddressNumber(digits, TRUE) \in Words
              /\ AddressDigits(AddressNumber(digits, TRUE), TRUE) = digits
      /\ main <= 15 /\ middle <= 15 =>
            AddressNumber(digits, FALSE) \in Words
              /\ AddressDigits(AddressNumber(digits, FALSE), FALSE) = digits
  <2>1. main <= 31 /\ middle <= 7 => group \in Words /\ AddressDigits(group, TRUE) = digits
    BY <1>2, <1>6 DEF digits
  <2>2. main <= 15 /\ middle <= 15 => single \in Words /\ AddressDigits(single, FALSE) = digits
    BY <1>3, <1>7 DEF digits
  <2> QED BY <1>8, <2>1, <2>2
<1> QED BY <1>9 DEF digits

\* A client that may send, and the buffer of a telegram: none for a read.
Senders ==
    [hostProtocol : {"TunnelUDP", "TunnelTCP", "Multicast", "SerialFT12"},
     suppress : BOOLEAN, physAddr : Words, channelID : Octet, seq : Octet]

Payloads == {t \in Octets : Len(t) > 0 /\ Len(t) < 255}

Buffers == [octets : Payloads, sixBits : BOOLEAN]

\* The NPDU of a service, and what the data setter makes of it.
LEMMA BareNPDU ==
    ASSUME NEW action \in 0 .. 2
    PROVE  WithAction([tpci |-> 0, apci |-> 0, data |-> <<>>], action)
             = [tpci |-> 0, apci |-> 64 * action, data |-> <<>>]
<1> DEFINE empty == [tpci |-> 0, apci |-> 0, data |-> <<>>]
<1>1. Action(empty) = 0
  BY DEF Action, Bits, Low
<1>2. 64 * Bits(action, 2, 2) = 0 /\ Low(action, 2) = action
  BY DEF Bits, Low
<1> DEFINE tpci == 64 * Bits(action, 2, 2)
           apci == 64 * Low(action, 2) + 0
           served == [empty EXCEPT !.tpci = tpci]
<1>3. WithAction(empty, action) = [served EXCEPT !.apci = apci]
  <2> HIDE DEF empty
  <2> QED BY <1>1 DEF WithAction
<1>4. tpci = 0 /\ apci = 64 * action
  BY <1>2
<1> HIDE DEF tpci, apci
<1>5. served = [tpci |-> 0, apci |-> 0, data |-> <<>>]
  BY <1>4
<1> HIDE DEF served
<1> QED BY <1>3, <1>4, <1>5

\* The service and the six bits beside it in an APCI.
LEMMA ActionOf ==
    \A action \in 0 .. 2, n \in Nat : \A d :
        n < 64 => Action([tpci |-> 0, apci |-> 64 * action + n, data |-> d]) = action
                    /\ Low(64 * action + n, 6) = n /\ 64 * action + n \in Octet
<1> SUFFICES ASSUME NEW action \in 0 .. 2, NEW n \in Nat, NEW d, n < 64
             PROVE  Action([tpci |-> 0, apci |-> 64 * action + n, data |-> d]) = action
                      /\ Low(64 * action + n, 6) = n /\ 64 * action + n \in Octet
  OBVIOUS
<1>1. Action([tpci |-> 0, apci |-> 64 * action + n, data |-> d]) = action
  BY DEF Action, Bits, Low
<1>2. Low(64 * action + n, 6) = n
  BY DEF Low
<1>3. 64 * action + n \in Octet
  BY OctetIs
<1> QED BY <1>1, <1>2, <1>3

\* What the data setter of an NPDU stores is what its getter returns, whether it
\* moves into the APCI or not, and the service stays.
LEMMA DataSet ==
    ASSUME NEW action \in 0 .. 2, NEW buffer \in Buffers
    PROVE  LET npdu == WithData([tpci |-> 0, apci |-> 64 * action, data |-> <<>>],
                                buffer.octets, buffer.sixBits)
           IN  npdu \in NPDUFields /\ Action(npdu) = action /\ DataValue(npdu) = buffer.octets
<1> DEFINE bare == [tpci |-> 0, apci |-> 64 * action, data |-> <<>>]
           octets == buffer.octets
           npdu == WithData(bare, octets, buffer.sixBits)
<1>1. octets \in Octets /\ Len(octets) > 0 /\ Len(octets) < 255
  BY DEF Buffers, Payloads
<1>2. 0 \in Octet
  BY OctetIs
<1>3. CASE buffer.sixBits /\ Len(octets) = 1 /\ octets[1] <= \h3F
  <2> DEFINE n == octets[1]
             apci == 64 * action + n
  <2>1. n \in Nat /\ n < 64
    BY <1>1, <1>3, OctetIs DEF Octets
  <2>2. 64 * Bits(bare.apci, 6, 2) + n = apci
    BY DEF Bits
  <2>3. npdu = [bare EXCEPT !.apci = apci, !.data = <<>>]
    <3> HIDE DEF bare, apci, n
    <3> QED BY <1>3, <2>2 DEF WithData, n
  <2>4. npdu = [tpci |-> 0, apci |-> apci, data |-> <<>>]
    <3> HIDE DEF apci, npdu
    <3> QED BY <2>3
  <2>5. Action(npdu) = action /\ Low(apci, 6) = n /\ apci \in Octet
    BY <2>1, <2>4, ActionOf
  <2>6. octets = <<n>>
    BY <1>1, <1>3 DEF Octets
  <2> HIDE DEF apci, npdu, n
  <2>7. DataValue(npdu) = <<n>>
    BY <2>4, <2>5 DEF DataValue
  <2>8. npdu \in NPDUFields
    BY <1>2, <2>4, <2>5 DEF NPDUFields, DataFields
  <2> QED BY <2>5, <2>6, <2>7, <2>8 DEF npdu
<1>4. CASE ~(buffer.sixBits /\ Len(octets) = 1 /\ octets[1] <= \h3F)
  <2>1. npdu = [bare EXCEPT !.data = <<octets>>]
    BY <1>4 DEF WithData
  <2>2. npdu = [tpci |-> 0, apci |-> 64 * action, data |-> <<octets>>]
    BY <2>1
  <2>3. Action(npdu) = action /\ 64 * action \in Octet
    <3>1. 64 * action + 0 = 64 * action
      OBVIOUS
    <3> HIDE DEF npdu
    <3>2. /\ Action([tpci |-> 0, apci |-> 64 * action + 0, data |-> <<octets>>]) = action
          /\ 64 * action + 0 \in Octet
      BY ActionOf
    <3> QED BY <2>2, <3>1, <3>2
  <2> HIDE DEF npdu, octets
  <2>4. DataValue(npdu) = octets
    BY <2>2 DEF DataValue
  <2>5. <<octets>> \in DataFields
    BY <1>1 DEF DataFields
  <2>6. npdu \in NPDUFields
    BY <1>2, <2>2, <2>3, <2>5 DEF NPDUFields
  <2> QED BY <2>3, <2>4, <2>6 DEF npdu, octets
<1> QED BY <1>3, <1>4

\* The control field of a group telegram says that it is one.
LEMMA ControlOf ==
    ASSUME NEW ack \in 0 .. 1
    PROVE  GroupControl(ack) \in Octet \X Octet /\ IsGroupAddress(GroupControl(ack))
<1>1. GroupControl(ack) = <<188 + 2 * ack, 224>>
  <2>1. WithAck(DefaultControl, ack) = <<188 + 2 * ack, 224>>
    BY DEF WithAck, DefaultControl, WithBits, Bits
  <2>2. WithBroadcast(<<188 + 2 * ack, 224>>, 1) = <<188 + 2 * ack, 224>>
    BY DEF WithBroadcast, WithBits, Bits
  <2>3. WithPriority(<<188 + 2 * ack, 224>>, 3) = <<188 + 2 * ack, 224>>
    BY DEF WithPriority, WithBits, Bits
  <2>4. WithAddressType(<<188 + 2 * ack, 224>>, 1) = <<188 + 2 * ack, 224>>
    BY DEF WithAddressType, WithBits, Bits
  <2>5. WithHopCount(<<188 + 2 * ack, 224>>, 6) = <<188 + 2 * ack, 224>>
    BY DEF WithHopCount, WithBits, Bits
  <2> QED BY <2>1, <2>2, <2>3, <2>4, <2>5 DEF GroupControl
<1>2. 188 + 2 * ack \in Octet /\ 224 \in Octet
  BY OctetIs
<1>3. Bits(224, 7, 1) = 1
  BY DEF Bits
<1> QED BY <1>1, <1>2, <1>3 DEF IsGroupAddress

\* A valid address is a sixteen-bit number.
LEMMA ValidIsWord ==
    ASSUME NEW dst \in Seq(Nat), NEW isGroup \in BOOLEAN, ValidAddress(dst, isGroup)
    PROVE  AddressNumber(dst, isGroup) \in Words
<1> DEFINE number == AddressNumber(dst, isGroup)
<1>1. Len(dst) \in 2 .. 3 /\ number <= 65535
  BY DEF ValidAddress
<1>2. number \in Nat
  <2> DEFINE n == Len(dst)
             x == dst[n]
             y == dst[n - 1]
             z == dst[1]
  <2>1. \A i \in 1 .. n : dst[i] \in Nat
    OBVIOUS
  <2>2. n \in 1 .. n /\ n - 1 \in 1 .. n /\ 1 \in 1 .. n
    <3> HIDE DEF number
    <3>1. n \in 2 .. 3
      BY <1>1
    <3> HIDE DEF n
    <3> QED BY <3>1
  <2>3. x \in Nat /\ y \in Nat /\ z \in Nat
    BY <2>1, <2>2
  <2>4. number = x + 256 * y + (IF n < 3 THEN 0 ELSE z * (IF isGroup THEN 2048 ELSE 4096))
    BY DEF AddressNumber
  <2> HIDE DEF x, y, z, n, number
  <2> QED BY <2>3, <2>4
<1> HIDE DEF number
<1>3. number \in Words
  BY <1>1, <1>2 DEF Words
<1> QED BY <1>3 DEF number

\* What write, writeRaw, respond, respondRaw and read put into a packet: a telegram
\* to the group, with the service and the octets the application has given.
LEMMA GroupTelegram ==
    ASSUME NEW c \in Senders, NEW action \in 0 .. 2, NEW dst \in Seq(Nat),
           ValidAddress(dst, TRUE), NEW ack \in 0 .. 1,
           NEW buffer \in {<<>>} \cup {<<b>> : b \in Buffers}
    PROVE  \E cemi \in Sendable :
              /\ \/ GroupPacket(c, action, dst, buffer, ack) = RoutingIndication(cemi)
                 \/ \E seq \in Octet : GroupPacket(c, action, dst, buffer, ack)
                                         = TunnelingRequest(c.channelID, seq, cemi)
              /\ cemi.srcAddress = c.physAddr
              /\ cemi.dstAddress = AddressNumber(dst, TRUE)
              /\ IsGroupAddress(cemi.control)
              /\ Action(cemi.npdu) = action
              /\ buffer # <<>> => DataValue(cemi.npdu) = buffer[1].octets
<1> DEFINE multicast == c.hostProtocol = "Multicast"
           code == IF multicast THEN L_DATA_IND ELSE L_DATA_REQ
           dest == AddressNumber(dst, TRUE)
           data == IF buffer = <<>> THEN <<>> ELSE <<buffer[1].octets>>
           six == IF buffer = <<>> THEN FALSE ELSE buffer[1].sixBits
           bare == [tpci |-> 0, apci |-> 64 * action, data |-> <<>>]
           npdu == IF data = <<>> THEN bare ELSE WithData(bare, data[1], six)
           control == GroupControl(ack)
           plain == NewCEMI(code, action, c.physAddr, dest, data, six)
           cemi == [plain EXCEPT !.control = control]
<1>1. c.physAddr \in Words /\ c.channelID \in Octet /\ c.seq \in Octet
  BY DEF Senders
<1>2. dest \in Words
  BY ValidIsWord
<1>3. control \in Octet \X Octet /\ IsGroupAddress(control)
  BY ControlOf
<1>4. npdu \in NPDUFields /\ Action(npdu) = action
      /\ (buffer # <<>> => DataValue(npdu) = buffer[1].octets)
  <2>1. CASE buffer = <<>>
    <3>1. data = <<>> /\ npdu = bare
      BY <2>1
    <3>2. 64 * action + 0 = 64 * action
      OBVIOUS
    <3>3. /\ Action([tpci |-> 0, apci |-> 64 * action + 0, data |-> <<>>]) = action
          /\ 64 * action + 0 \in Octet
      BY ActionOf
    <3>4. Action(bare) = action /\ 64 * action \in Octet
      BY <3>2, <3>3
    <3>5. 0 \in Octet /\ <<>> \in DataFields
      BY OctetIs DEF DataFields
    <3>6. bare \in NPDUFields
      BY <3>4, <3>5 DEF NPDUFields
    <3> HIDE DEF npdu, bare
    <3> QED BY <2>1, <3>1, <3>4, <3>6
  <2>2. CASE buffer # <<>>
    <3>1. PICK b \in Buffers : buffer = <<b>>
      BY <2>2
    <3>2. data = <<b.octets>> /\ six = b.sixBits /\ data # <<>> /\ data[1] = b.octets
      BY <3>1
    <3>3. npdu = WithData(bare, b.octets, b.sixBits)
      <4> HIDE DEF data, six, bare
      <4> QED BY <3>2
    <3>4. /\ WithData(bare, b.octets, b.sixBits) \in NPDUFields
          /\ Action(WithData(bare, b.octets, b.sixBits)) = action
          /\ DataValue(WithData(bare, b.octets, b.sixBits)) = b.octets
      BY DataSet
    <3> HIDE DEF npdu, bare
    <3> QED BY <3>1, <3>3, <3>4
  <2> QED BY <2>1, <2>2
<1>5. plain = CEMI(code, <<>>, DefaultControl, c.physAddr, dest, npdu)
  <2>1. WithAction([tpci |-> 0, apci |-> 0, data |-> <<>>], action) = bare
    BY BareNPDU
  <2> HIDE DEF code, dest, data, six, bare
  <2> QED BY <2>1 DEF NewCEMI
<1>6. code \in {L_DATA_REQ, L_DATA_IND}
  OBVIOUS
<1> HIDE DEF npdu, control, dest, code, plain, multicast, six, data
<1>7. cemi = [msgCode |-> code, additionalInfo |-> <<>>, control |-> control,
              srcAddress |-> c.physAddr, dstAddress |-> dest, npdu |-> npdu]
  BY <1>5 DEF CEMI
<1>8. cemi \in Sendable
  BY <1>1, <1>2, <1>3, <1>4, <1>6, <1>7 DEF Sendable
<1> DEFINE p == GroupPacket(c, action, dst, buffer, ack)
           number == IF c.hostProtocol = "TunnelTCP" THEN 0 ELSE c.seq
<1>9. p = IF multicast \/ c.hostProtocol = "SerialFT12" THEN RoutingIndication(cemi)
          ELSE TunnelingRequest(c.channelID, number, cemi)
  BY DEF GroupPacket, multicast, code, dest, data, six, control, plain
<1> HIDE DEF p, cemi
<1>10. number \in Octet
  BY <1>1, OctetIs
<1> HIDE DEF number
<1>11. \/ p = RoutingIndication(cemi)
       \/ \E seq \in Octet : p = TunnelingRequest(c.channelID, seq, cemi)
  BY <1>9, <1>10
<1>12. /\ cemi.srcAddress = c.physAddr /\ cemi.dstAddress = dest
       /\ IsGroupAddress(cemi.control) /\ Action(cemi.npdu) = action
       /\ buffer # <<>> => DataValue(cemi.npdu) = buffer[1].octets
  BY <1>3, <1>4, <1>7
<1> QED BY <1>8, <1>11, <1>12 DEF p, dest

\* What an application writes, answers or asks is what is read at the other end of
\* the line, whatever the transport: the packet as it was, and in it the group, the
\* service and the octets.
THEOREM GroupTelegramsAreRead ==
    ASSUME NEW c \in Senders, NEW action \in 0 .. 2, NEW dst \in Seq(Nat),
           ValidAddress(dst, TRUE), NEW ack \in 0 .. 1,
           NEW buffer \in {<<>>} \cup {<<b>> : b \in Buffers}
    PROVE  LET p    == GroupPacket(c, action, dst, buffer, ack)
               read == ParseMessage(ToBuffer(p))
           IN  /\ read = p
               /\ read.cEMIMessage.dstAddress = AddressNumber(dst, TRUE)
               /\ IsGroupAddress(read.cEMIMessage.control)
               /\ Action(read.cEMIMessage.npdu) = action
               /\ buffer # <<>> => DataValue(read.cEMIMessage.npdu) = buffer[1].octets
<1> DEFINE p == GroupPacket(c, action, dst, buffer, ack)
<1>1. PICK cemi \in Sendable :
         /\ \/ p = RoutingIndication(cemi)
            \/ \E seq \in Octet : p = TunnelingRequest(c.channelID, seq, cemi)
         /\ cemi.dstAddress = AddressNumber(dst, TRUE)
         /\ IsGroupAddress(cemi.control)
         /\ Action(cemi.npdu) = action
         /\ buffer # <<>> => DataValue(cemi.npdu) = buffer[1].octets
  BY GroupTelegram
<1>2. c.channelID \in Octet
  BY DEF Senders
<1> HIDE DEF p
<1>3. ParseMessage(ToBuffer(p)) = p /\ p.cEMIMessage = cemi
  <2>1. CASE p = RoutingIndication(cemi)
    <3>1. RoutingIndication(cemi).cEMIMessage = cemi
      BY DEF RoutingIndication
    <3> QED BY <2>1, <3>1, RoutingRoundTrip
  <2>2. ASSUME NEW seq \in Octet, p = TunnelingRequest(c.channelID, seq, cemi)
        PROVE  ParseMessage(ToBuffer(p)) = p /\ p.cEMIMessage = cemi
    <3>1. TunnelingRequest(c.channelID, seq, cemi).cEMIMessage = cemi
      BY DEF TunnelingRequest
    <3> QED BY <1>2, <2>2, <3>1, TunnelingRoundTrip
  <2> QED BY <1>1, <2>1, <2>2
<1> QED BY <1>1, <1>3 DEF p

\* The buffer of a raw write or response is a payload, whatever its length in bits.
THEOREM RawBuffersFit ==
    ASSUME NEW octets \in Octets, NEW bitlength \in Nat, bitlength > 0, bitlength <= 2032
    PROVE  /\ RawBuffer(octets, bitlength) \in Buffers
           /\ Len(octets) = (bitlength + 7) \div 8 => RawBuffer(octets, bitlength).octets = octets
<1> DEFINE n == (bitlength + 7) \div 8
           raw == [i \in 1 .. n |-> IF i <= Len(octets) THEN octets[i] ELSE 0]
           six == bitlength <= 6
<1>1. n \in Nat /\ n > 0 /\ n < 255
  OBVIOUS
<1>2. RawBuffer(octets, bitlength) = [octets |-> raw, sixBits |-> six]
  BY DEF RawBuffer
<1>3. six \in BOOLEAN
  OBVIOUS
<1> HIDE DEF n, six
<1>4. 0 \in Octet
  BY OctetIs
<1>5. raw \in Octets /\ Len(raw) = n
  BY <1>1, <1>4 DEF Octets
<1>6. Len(octets) = n => raw = octets
  BY <1>1 DEF Octets
<1> HIDE DEF raw
<1>7. [octets |-> raw, sixBits |-> six] \in Buffers
  BY <1>1, <1>3, <1>5 DEF Buffers, Payloads
<1> QED BY <1>2, <1>6, <1>7 DEF n

-----------------------------------------------------------------------------
(* Secure wrappers: what is closed with a key is opened with it *)

\* Every set of numbers has a least one, so that what holds of 0 and of the
\* successor of every number it holds of holds of all.
LEMMA Least ==
    ASSUME NEW T, T \subseteq Nat, T # {}
    PROVE  \E n \in T : \A m \in T : n <= m
<1> DEFINE Less == OpToRel(<, Nat)
<1>1. IsWellFoundedOn(Less, Nat)
  BY NatLessThanWellFounded
<1>2. \A m, n \in Nat : m < n => <<m, n>> \in Less
  BY DEF OpToRel
<1> HIDE DEF Less
<1>3. PICK n \in T : \A m \in T : <<m, n>> \notin Less
  BY <1>1, WFMin
<1>4. ASSUME NEW m \in T PROVE n <= m
  <2>1. m \in Nat /\ n \in Nat
    OBVIOUS
  <2>2. ~(m < n)
    BY <1>2, <1>3, <2>1
  <2> QED BY <2>1, <2>2
<1> QED BY <1>4

\* Induction over the numbers, from the least one that is missing.
LEMMA Inductive ==
    ASSUME NEW T, 0 \in T, \A n \in Nat : n \in T => n + 1 \in T
    PROVE  Nat \subseteq T
<1>1. SUFFICES ASSUME NEW n \in Nat \ T, \A m \in Nat \ T : n <= m PROVE FALSE
  BY Least
<1>2. n # 0 /\ n - 1 \in Nat
  OBVIOUS
<1>3. n - 1 \in T
  BY <1>1, <1>2
<1>4. n - 1 + 1 = n
  OBVIOUS
<1> QED BY <1>2, <1>3, <1>4

\* The checksum of the ciphers is a number.
LEMMA DigestType ==
    ASSUME NEW octets \in Octets
    PROVE  Digest(octets) \in Nat
<1> DEFINE size == Len(octets)
           step(x, i) == (33 * x + octets[i]) % 65521
           next(g, i) == IF i = 0 THEN 7 ELSE step(g[i - 1], i)
           Run(n, g) == g \in [0 .. n -> Nat] /\ \A i \in 0 .. n : g[i] = next(g, i)
           Runs == {n \in Nat : n <= size => \E g : Run(n, g)}
           h == CHOOSE g : g = [i \in 0 .. size |-> next(g, i)]
<1>1. size \in Nat
  BY DEF Octets
<1>2. \A x \in Nat, i \in 1 .. size : step(x, i) \in Nat
  <2> SUFFICES ASSUME NEW x \in Nat, NEW i \in 1 .. size PROVE step(x, i) \in Nat
    OBVIOUS
  <2> DEFINE y == octets[i]
  <2>1. y \in Nat
    BY OctetIs DEF Octets
  <2> HIDE DEF y
  <2>2. (33 * x + y) % 65521 \in Nat
    BY <2>1
  <2> QED BY <2>2 DEF y
<1> HIDE DEF size, step
<1>3. 0 \in Runs
  <2>1. Run(0, [i \in 0 .. 0 |-> 7])
    OBVIOUS
  <2> HIDE DEF Run
  <2> QED BY <2>1
<1>4. ASSUME NEW n \in Nat, n \in Runs PROVE n + 1 \in Runs
  <2> SUFFICES ASSUME n + 1 <= size PROVE \E g : Run(n + 1, g)
    OBVIOUS
  <2>1. PICK g : Run(n, g)
    <3> HIDE DEF Run
    <3> QED BY <1>1, <1>4
  <2> DEFINE last == step(g[n], n + 1)
             e == [i \in 0 .. n + 1 |-> IF i = n + 1 THEN last ELSE g[i]]
  <2>2. last \in Nat
    <3>1. g[n] \in Nat /\ n + 1 \in 1 .. size
      BY <1>1, <2>1
    <3> QED BY <1>2, <3>1
  <2>3. e \in [0 .. n + 1 -> Nat]
    <3> HIDE DEF last
    <3> QED BY <2>1, <2>2
  <2>4. ASSUME NEW i \in 0 .. n + 1 PROVE e[i] = next(e, i)
    <3>1. CASE i = n + 1
      <4>1. e[i] = last /\ i # 0 /\ e[i - 1] = g[n]
        <5> HIDE DEF last
        <5> QED BY <3>1
      <4> QED BY <3>1, <4>1
    <3>2. CASE i # n + 1
      <4>1. e[i] = g[i] /\ (i # 0 => e[i - 1] = g[i - 1]) /\ i \in 0 .. n
        <5> HIDE DEF last
        <5> QED BY <3>2
      <4>2. g[i] = next(g, i)
        BY <2>1, <4>1
      <4> HIDE DEF e
      <4> QED BY <4>1, <4>2
    <3> QED BY <3>1, <3>2
  <2>5. Run(n + 1, e)
    <3> HIDE DEF e, next
    <3> QED BY <2>3, <2>4
  <2> HIDE DEF Run
  <2> QED BY <2>5
<1>5. Nat \subseteq Runs
  <2> HIDE DEF Runs
  <2> QED BY <1>3, <1>4, Inductive
<1>6. PICK g : Run(size, g)
  <2> HIDE DEF Run
  <2> QED BY <1>1, <1>5
<1>7. g = [i \in 0 .. size |-> next(g, i)]
  <2> HIDE DEF next
  <2> QED BY <1>6
<1>8. h = [i \in 0 .. size |-> next(h, i)]
  <2> HIDE DEF next
  <2> QED BY <1>7
<1> DEFINE Typed == {n \in Nat : n <= size => h[n] \in Nat}
<1>9. Digest(octets) = h[size]
  BY DEF Digest, size, step
<1> HIDE DEF h
<1>10. \A i \in 0 .. size : h[i] = next(h, i)
  <2> HIDE DEF next
  <2> QED BY <1>8
<1>11. 0 \in Typed
  BY <1>1, <1>10
<1>12. ASSUME NEW n \in Nat, n \in Typed PROVE n + 1 \in Typed
  <2> SUFFICES ASSUME n + 1 <= size PROVE h[n + 1] \in Nat
    OBVIOUS
  <2>1. n + 1 \in 1 .. size /\ n + 1 \in 0 .. size /\ n + 1 # 0 /\ n + 1 - 1 = n /\ n <= size
    BY <1>1
  <2>2. h[n + 1] = step(h[n], n + 1)
    BY <1>10, <2>1
  <2>3. h[n] \in Nat
    BY <1>12, <2>1
  <2> QED BY <1>2, <2>1, <2>2, <2>3
<1>13. Nat \subseteq Typed
  <2> HIDE DEF Typed
  <2> QED BY <1>11, <1>12, Inductive
<1>14. h[size] \in Nat
  BY <1>1, <1>13
<1> QED BY <1>9, <1>14

\* A function from 1 .. n to octets is a buffer of n octets.
LEMMA OctetSequence ==
    ASSUME NEW n \in Nat, NEW f \in [1 .. n -> Octet]
    PROVE  f \in Octets /\ Len(f) = n
<1> DEFINE t == [i \in 1 .. n |-> f[i]]
<1>1. t \in Octets /\ Len(t) = n
  BY DEF Octets
<1>2. f = t
  OBVIOUS
<1> HIDE DEF t
<1> QED BY <1>1, <1>2

\* A MAC has sixteen octets.
IsMac(mac) == mac \in Octets /\ Len(mac) = 16

\* calculateMessageAuthenticationCodeCBC returns one.
LEMMA MacType ==
    ASSUME NEW key \in Octets, NEW additional \in Octets, NEW payload \in Octets,
           NEW block0 \in Octets, Len(additional) \in Words
    PROVE  IsMac(CalculateMAC(key, additional, payload, block0))
<1> DEFINE input == key \o block0 \o U16Bytes(Len(additional)) \o additional \o payload
           d == Digest(input)
           mac == [i \in 1 .. 16 |-> (d \div i) % 256]
<1>1. input \in Octets
  <2>1. U16Bytes(Len(additional)) \in Octets
    BY U16Is
  <2> DEFINE size == U16Bytes(Len(additional))
  <2> HIDE DEF size
  <2>2. key \o block0 \in Octets
    BY JoinedLength
  <2>3. key \o block0 \o size \in Octets
    BY <2>1, <2>2, JoinedLength DEF size
  <2>4. key \o block0 \o size \o additional \in Octets
    BY <2>3, JoinedLength
  <2> QED BY <2>4, JoinedLength DEF size
<1>2. d \in Nat
  <2> HIDE DEF input
  <2> QED BY <1>1, DigestType
<1> HIDE DEF d
<1>3. ASSUME NEW i \in 1 .. 16 PROVE (d \div i) % 256 \in Octet
  <2>1. d \div i \in Int
    BY <1>2
  <2> DEFINE q == d \div i
  <2> HIDE DEF q
  <2>2. q % 256 \in Octet
    BY <2>1, OctetIs DEF q
  <2> QED BY <2>2 DEF q
<1>4. mac \in Octets /\ Len(mac) = 16
  <2>1. mac \in [1 .. 16 -> Octet]
    BY <1>3
  <2> HIDE DEF mac
  <2>2. 16 \in Nat
    OBVIOUS
  <2> QED BY <2>1, <2>2, OctetSequence
<1>5. CalculateMAC(key, additional, payload, block0) = mac
  BY DEF CalculateMAC, d
<1> QED BY <1>4, <1>5 DEF IsMac

\* What is encrypted with a key and a counter is decrypted with them.
LEMMA Undone ==
    ASSUME NEW key \in Octets, NEW counter \in Octets, NEW mac \in Octets, NEW payload \in Octets
    PROVE  LET enc == EncryptDataCtr(key, counter, mac, payload)
           IN  /\ enc.mac \in Octets /\ Len(enc.mac) = Len(mac)
               /\ enc.payload \in Octets /\ Len(enc.payload) = Len(payload)
               /\ DecryptCtr(key, counter, enc.mac, enc.payload)
                    = [mac |-> mac, payload |-> payload]
<1> DEFINE seed == Digest(key \o counter)
           closed(s, from) == [i \in 1 .. Len(s) |-> (s[i] + KeyStream(seed, from + i)) % 256]
           opened(s, from) == [i \in 1 .. Len(s) |-> (s[i] - KeyStream(seed, from + i)) % 256]
<1>1. seed \in Nat
  <2> DEFINE input == key \o counter
  <2>1. input \in Octets
    BY JoinedLength
  <2> HIDE DEF input
  <2>2. Digest(input) \in Nat
    BY <2>1, DigestType
  <2> QED BY <2>2 DEF input
<1> HIDE DEF seed
<1>2. \A i \in Nat : KeyStream(seed, i) \in Octet
  <2> SUFFICES ASSUME NEW i \in Nat PROVE KeyStream(seed, i) \in Octet
    OBVIOUS
  <2>1. (seed \div 8 + 37 * i) % 256 \in Nat /\ (seed \div 8 + 37 * i) % 256 <= 255
    BY <1>1
  <2> QED BY <2>1, OctetIs DEF KeyStream
<1>3. ASSUME NEW s \in Octets, NEW from \in Nat
      PROVE  /\ closed(s, from) \in Octets /\ Len(closed(s, from)) = Len(s)
             /\ opened(closed(s, from), from) = s
  <2>1. Len(s) \in Nat /\ \A i \in 1 .. Len(s) : s[i] \in Octet
    BY DEF Octets
  <2> DEFINE k(i) == KeyStream(seed, from + i)
             c == closed(s, from)
             o == opened(c, from)
  <2>2. \A i \in 1 .. Len(s) : k(i) \in Octet
    <3> SUFFICES ASSUME NEW i \in 1 .. Len(s) PROVE k(i) \in Octet
      OBVIOUS
    <3>1. from + i \in Nat
      BY <2>1
    <3> QED BY <1>2, <3>1
  <2>3. \A x, y \in Octet : (x + y) % 256 \in Octet /\ (((x + y) % 256) - y) % 256 = x
    <3> SUFFICES ASSUME NEW x \in Nat, NEW y \in Nat, x <= 255, y <= 255
                 PROVE  (x + y) % 256 \in Octet /\ (((x + y) % 256) - y) % 256 = x
      BY OctetIs
    <3>1. (x + y) % 256 \in Nat /\ (x + y) % 256 <= 255 /\ (((x + y) % 256) - y) % 256 = x
      OBVIOUS
    <3> QED BY <3>1, OctetIs
  <2>4. c = [i \in 1 .. Len(s) |-> (s[i] + k(i)) % 256]
    OBVIOUS
  <2>5. o = [i \in 1 .. Len(c) |-> (c[i] - k(i)) % 256]
    OBVIOUS
  <2> HIDE DEF c, o, k
  <2>6. c \in [1 .. Len(s) -> Octet]
    BY <2>1, <2>2, <2>3, <2>4
  <2>7. c \in Octets /\ Len(c) = Len(s)
    BY <2>1, <2>6, OctetSequence
  <2>8. \A i \in 1 .. Len(s) : (c[i] - k(i)) % 256 = s[i]
    BY <2>1, <2>2, <2>3, <2>4
  <2>9. o = s
    <3>1. o = [i \in 1 .. Len(s) |-> s[i]]
      BY <2>5, <2>7, <2>8
    <3>2. s = [i \in 1 .. Len(s) |-> s[i]]
      BY DEF Octets
    <3> QED BY <3>1, <3>2
  <2> QED BY <2>7, <2>9 DEF c, o
<1> DEFINE enc == EncryptDataCtr(key, counter, mac, payload)
<1>4. enc = [mac |-> closed(mac, 0), payload |-> closed(payload, Len(mac))]
  BY DEF EncryptDataCtr, seed
<1>5. DecryptCtr(key, counter, enc.mac, enc.payload)
        = [mac |-> opened(enc.mac, 0), payload |-> opened(enc.payload, Len(enc.mac))]
  <2> HIDE DEF enc
  <2> QED BY DEF DecryptCtr, seed
<1>6. enc.mac = closed(mac, 0) /\ enc.payload = closed(payload, Len(mac))
  <2> HIDE DEF enc, closed
  <2> QED BY <1>4
<1>7. Len(mac) \in Nat /\ 0 \in Nat
  BY DEF Octets
<1>8. /\ enc.mac \in Octets /\ Len(enc.mac) = Len(mac) /\ opened(enc.mac, 0) = mac
  <2> HIDE DEF enc, closed, opened
  <2> QED BY <1>3, <1>6, <1>7
<1>9. /\ enc.payload \in Octets /\ Len(enc.payload) = Len(payload)
      /\ opened(enc.payload, Len(mac)) = payload
  <2> HIDE DEF enc, closed, opened
  <2> QED BY <1>3, <1>6, <1>7
<1> HIDE DEF enc, closed, opened
<1>10. DecryptCtr(key, counter, enc.mac, enc.payload) = [mac |-> mac, payload |-> payload]
  BY <1>5, <1>8, <1>9
<1> QED BY <1>8, <1>9, <1>10 DEF enc

\* A part of a buffer, and where the rest begins.
LEMMA EndsFirst ==
    ASSUME NEW b \in Octets, NEW o \in Nat, NEW s \in Octets, NEW t \in Octets,
           Ends(b, o, s \o t)
    PROVE  Sub(b, o, o + Len(s)) = s /\ Ends(b, o + Len(s), t)
<1> DEFINE n == Len(s)
           u == SubSeq(b, o + 1, o + n)
<1>1. (\A i \in 1 .. n : b[o + i] = s[i]) /\ Ends(b, o + n, t)
  BY EndsParts
<1>2. n \in Nat /\ Len(t) \in Nat /\ Len(b) = o + n + Len(t) /\ Len(b) \in Nat
  BY <1>1 DEF Ends, Octets
<1>3. u \in Octets /\ Len(u) = n /\ \A i \in 1 .. n : u[i] = b[o + i]
  <2> HIDE DEF n
  <2> QED BY <1>2 DEF Octets
<1>4. Sub(b, o, o + n) = u
  <2> HIDE DEF n
  <2> QED BY <1>2 DEF Sub
<1> HIDE DEF u
<1>5. u = s
  BY <1>1, <1>3 DEF Octets
<1> QED BY <1>1, <1>4, <1>5

\* Concatenation under a name of its own, which the provers take as it is.
Cat(s, t) == s \o t

\* Its type.
LEMMA CatType == \A s, t \in Octets : Cat(s, t) \in Octets
BY DEF Cat, Octets

\* Its length.
LEMMA CatLength == \A s, t \in Octets : Len(Cat(s, t)) = Len(s) + Len(t) /\ Len(s) \in Nat
BY DEF Cat, Octets

\* It is associative.
LEMMA CatAssoc == \A s, t, u \in Octets : Cat(Cat(s, t), u) = Cat(s, Cat(t, u))
BY DEF Cat, Octets

\* Three parts, one after another, and what follows them.
Three(s, t, u) ==
    Cat(Cat(s, t), u) \in Octets /\ Len(Cat(Cat(s, t), u)) = Len(s) + Len(t) + Len(u)

\* The type and the length of three parts.
LEMMA CatThree == \A s, t, u \in Octets : Three(s, t, u)
<1> SUFFICES ASSUME NEW s \in Octets, NEW t \in Octets, NEW u \in Octets
             PROVE  Three(s, t, u)
  OBVIOUS
<1>1. Cat(s, t) \in Octets
  BY CatType
<1>2. Cat(Cat(s, t), u) \in Octets
  BY <1>1, CatType
<1>3. Len(Cat(Cat(s, t), u)) = Len(Cat(s, t)) + Len(u) /\ Len(Cat(s, t)) = Len(s) + Len(t)
  BY <1>1, CatLength
<1> QED BY <1>2, <1>3 DEF Three

\* Four parts, from either side.
LEMMA CatFour ==
    \A s, t, u, v \in Octets : Cat(s, Cat(t, Cat(u, v))) = Cat(Cat(Cat(s, t), u), v)
<1> SUFFICES ASSUME NEW s \in Octets, NEW t \in Octets, NEW u \in Octets, NEW v \in Octets
             PROVE  Cat(s, Cat(t, Cat(u, v))) = Cat(Cat(Cat(s, t), u), v)
  OBVIOUS
<1>1. Cat(s, t) \in Octets
  BY CatType
<1>2. Cat(u, v) \in Octets
  BY CatType
<1>3. Cat(Cat(Cat(s, t), u), v) = Cat(Cat(s, t), Cat(u, v))
  BY <1>1, CatAssoc
<1>4. Cat(Cat(s, t), Cat(u, v)) = Cat(s, Cat(t, Cat(u, v)))
  BY <1>2, CatAssoc
<1> QED BY <1>3, <1>4

\* The parts of a secure wrapper, where secureDecrypt and secureDecryptRouting look
\* for them.
PartsOf(b, header, session, number, serial, tag, payload, mac) ==
    LET others == session \o (number \o (serial \o (tag \o (payload \o mac))))
    IN  /\ b \in Octets /\ Len(b) = 38 + Len(payload)
        /\ Ends(b, 0, header \o others) /\ Sub(b, 0, 6) = header /\ Ends(b, 6, others)
        /\ Sub(b, 8, 14) = number /\ Sub(b, 14, 20) = serial /\ Sub(b, 20, 22) = tag
        /\ Sub(b, 8, 22) = number \o serial \o tag
        /\ Sub(b, 22, Len(b) - 16) = payload /\ Sub(b, Len(b) - 16, Len(b)) = mac

\* Every wrapper has them there, whatever is in it.
LEMMA WrapperParts ==
    ASSUME NEW header \in Octets, Len(header) = 6,
           NEW session \in Octets, Len(session) = 2,
           NEW number \in Octets, Len(number) = 6,
           NEW serial \in Octets, Len(serial) = 6,
           NEW tag \in Octets, Len(tag) = 2,
           NEW payload \in Octets, NEW mac \in Octets, Len(mac) = 16
    PROVE  PartsOf(header \o session \o number \o serial \o tag \o (payload \o mac),
                   header, session, number, serial, tag, payload, mac)
<1> DEFINE sealed == payload \o mac
           r5 == tag \o sealed
           r4 == serial \o r5
           r3 == number \o r4
           r2 == session \o r3
           b == header \o session \o number \o serial \o tag \o sealed
<1>1. sealed \in Octets /\ Len(sealed) = Len(payload) + 16
  BY JoinedLength
<1> HIDE DEF sealed
<1>2. r5 \in Octets
  BY <1>1, JoinedLength
<1> HIDE DEF r5
<1>3. r4 \in Octets
  BY <1>2, JoinedLength
<1> HIDE DEF r4
<1>4. r3 \in Octets
  BY <1>3, JoinedLength
<1> HIDE DEF r3
<1>5. r2 \in Octets
  BY <1>4, JoinedLength
<1> HIDE DEF r2
<1>6. b = header \o r2
  <2> HIDE DEF b
  <2> DEFINE hs == Cat(header, session)
             y == Cat(Cat(Cat(hs, number), serial), tag)
  <2>3. hs \in Octets
    BY CatType
  <2> HIDE DEF hs
  <2>4. Cat(hs, number) \in Octets /\ Cat(tag, sealed) \in Octets
    BY <1>1, <2>3, CatType
  <2>5. Cat(Cat(hs, number), serial) \in Octets /\ Cat(serial, Cat(tag, sealed)) \in Octets
    BY <2>4, CatType
  <2>6. Cat(number, Cat(serial, Cat(tag, sealed))) \in Octets
    BY <2>5, CatType
  <2>7. Cat(y, sealed) = Cat(Cat(Cat(hs, number), serial), Cat(tag, sealed))
    BY <1>1, <2>5, CatAssoc
  <2>8. Cat(Cat(Cat(hs, number), serial), Cat(tag, sealed))
          = Cat(Cat(hs, number), Cat(serial, Cat(tag, sealed)))
    BY <2>4, CatAssoc
  <2>9. Cat(Cat(hs, number), Cat(serial, Cat(tag, sealed)))
          = Cat(hs, Cat(number, Cat(serial, Cat(tag, sealed))))
    BY <2>3, <2>5, CatAssoc
  <2>10. Cat(hs, Cat(number, Cat(serial, Cat(tag, sealed))))
          = Cat(header, Cat(session, Cat(number, Cat(serial, Cat(tag, sealed)))))
    BY <2>6, CatAssoc DEF hs
  <2> HIDE DEF y
  <2>11. Cat(y, sealed) = Cat(header, Cat(session, Cat(number, Cat(serial, Cat(tag, sealed)))))
    BY <2>7, <2>8, <2>9, <2>10
  <2> QED BY <2>11 DEF Cat, b, r2, r3, r4, r5, y, hs
<1> HIDE DEF b
<1>7. b \in Octets /\ Ends(b, 0, header \o r2)
  <2>1. b \in Octets
    BY <1>5, <1>6, JoinedLength
  <2>2. Ends(b, 0, b)
    BY <2>1 DEF Ends, Octets
  <2> QED BY <1>6, <2>1, <2>2
<1>8. Sub(b, 0, 6) = header /\ Ends(b, 6, r2)
  <2>1. Sub(b, 0, 0 + Len(header)) = header /\ Ends(b, 0 + Len(header), r2)
    BY <1>5, <1>7, EndsFirst
  <2>2. 0 + Len(header) = 6
    OBVIOUS
  <2> QED BY <2>1, <2>2
<1>9. Ends(b, 8, r3)
  <2>1. Ends(b, 6 + Len(session), r3)
    BY <1>4, <1>7, <1>8, EndsFirst DEF r2
  <2>2. 6 + Len(session) = 8
    OBVIOUS
  <2> QED BY <2>1, <2>2
<1>10. Sub(b, 8, 14) = number /\ Ends(b, 14, r4)
  <2>1. Sub(b, 8, 8 + Len(number)) = number /\ Ends(b, 8 + Len(number), r4)
    BY <1>3, <1>7, <1>9, EndsFirst DEF r3
  <2>2. 8 + Len(number) = 14
    OBVIOUS
  <2> QED BY <2>1, <2>2
<1>11. Sub(b, 14, 20) = serial /\ Ends(b, 20, r5)
  <2>1. Sub(b, 14, 14 + Len(serial)) = serial /\ Ends(b, 14 + Len(serial), r5)
    BY <1>2, <1>7, <1>10, EndsFirst DEF r4
  <2>2. 14 + Len(serial) = 20
    OBVIOUS
  <2> QED BY <2>1, <2>2
<1>12. Sub(b, 20, 22) = tag /\ Ends(b, 22, sealed)
  <2>1. Sub(b, 20, 20 + Len(tag)) = tag /\ Ends(b, 20 + Len(tag), sealed)
    BY <1>1, <1>7, <1>11, EndsFirst DEF r5
  <2>2. 20 + Len(tag) = 22
    OBVIOUS
  <2> QED BY <2>1, <2>2
<1>13. Len(b) = 38 + Len(payload) /\ Len(payload) \in Nat
  <2>1. Len(b) = 22 + Len(sealed) /\ Len(payload) \in Nat
    BY <1>12 DEF Ends, Octets
  <2> QED BY <1>1, <2>1
<1>14. Sub(b, 22, 22 + Len(payload)) = payload /\ Ends(b, 22 + Len(payload), mac)
  BY <1>7, <1>12, EndsFirst DEF sealed
<1>15. Len(b) - 16 = 22 + Len(payload) /\ 22 + Len(payload) \in Nat
  BY <1>13
<1>16. Sub(b, 22 + Len(payload), Len(b)) = mac
  BY <1>7, <1>14, <1>15, EndsSub
<1>17. Sub(b, 8, 22) = number \o serial \o tag
  <2>7. Three(number, serial, tag)
    BY CatThree
  <2>8. Cat(number, Cat(serial, Cat(tag, sealed))) = Cat(Cat(Cat(number, serial), tag), sealed)
    BY <1>1, CatFour
  <2> DEFINE x == Cat(Cat(number, serial), tag)
  <2>1. x \in Octets /\ Len(x) = Len(number) + Len(serial) + Len(tag)
    BY <2>7 DEF Three
  <2>2. Cat(number, Cat(serial, Cat(tag, sealed))) = Cat(x, sealed)
    BY <2>8
  <2>3. r3 = Cat(x, sealed)
    <3> HIDE DEF x
    <3> QED BY <2>2 DEF Cat, r3, r4, r5
  <2> HIDE DEF x
  <2>4. r3 = x \o sealed /\ Len(x) = 14
    BY <2>1, <2>3 DEF Cat
  <2>5. Sub(b, 8, 8 + Len(x)) = x
    <3>1. Ends(b, 8, x \o sealed) /\ 8 \in Nat
      BY <1>9, <2>4
    <3> USE <1>1, <1>7, <2>1, <3>1
    <3>2. Sub(b, 8, 8 + Len(x)) = x /\ Ends(b, 8 + Len(x), sealed)
      BY EndsFirst
    <3> QED BY <3>2
  <2>6. 8 + Len(x) = 22
    BY <2>4
  <2> QED BY <2>5, <2>6 DEF x, Cat
<1>18. Sub(b, 22, Len(b) - 16) = payload /\ Sub(b, Len(b) - 16, Len(b)) = mac
  BY <1>14, <1>15, <1>16
<1> QED BY <1>7, <1>8, <1>10, <1>11, <1>12, <1>13, <1>17, <1>18
     DEF PartsOf, b, r2, r3, r4, r5, sealed

\* The header of a secure wrapper around n octets, and the MAC of a wrapper.
WrapperHeader(n) == <<6, \h10>> \o U16Bytes(SECURE_WRAPPER) \o U16Bytes(38 + n)

WrapperMac(frame, key, session, seq, serial, tag) ==
    CalculateMAC(key, WrapperHeader(Len(frame)) \o U16Bytes(session), frame,
                 SeqBytes(seq) \o serial \o tag \o U16Bytes(Len(frame)))

\* The service and the length in the header of a wrapper, read back.
LEMMA WrapperHeaderParts ==
    ASSUME NEW n \in Nat, 38 + n \in Words
    PROVE  /\ WrapperHeader(n) \in Octets /\ Len(WrapperHeader(n)) = 6
           /\ \A r \in Octets, b \in Octets :
                Ends(b, 0, WrapperHeader(n) \o r)
                  => U16(b, 2) = SECURE_WRAPPER /\ U16(b, 4) = 38 + n /\ Ends(b, 6, r)
<1> DEFINE v == <<6, \h10>>
           k == U16Bytes(SECURE_WRAPPER)
           l == U16Bytes(38 + n)
<1>1. v \in Octets /\ Len(v) = 2
  <2>1. 6 \in Octet /\ \h10 \in Octet
    BY OctetIs
  <2> QED BY <2>1, OctetTuples
<1>2. SECURE_WRAPPER \in Words
  BY DEF SECURE_WRAPPER, Words
<1>3. k \in Octets /\ Len(k) = 2
  BY <1>2, U16Is
<1>4. l \in Octets /\ Len(l) = 2
  BY U16Is
<1>5. WrapperHeader(n) = Cat(Cat(v, k), l)
  BY DEF Cat, WrapperHeader
<1> HIDE DEF v, k, l
<1>6. Three(v, k, l)
  BY <1>1, <1>3, <1>4, CatThree
<1>7. WrapperHeader(n) \in Octets /\ Len(WrapperHeader(n)) = 6
  BY <1>1, <1>3, <1>4, <1>5, <1>6 DEF Three
<1>8. ASSUME NEW r \in Octets, NEW b \in Octets, Ends(b, 0, WrapperHeader(n) \o r)
      PROVE  U16(b, 2) = SECURE_WRAPPER /\ U16(b, 4) = 38 + n /\ Ends(b, 6, r)
  <2>1. Cat(v, Cat(k, Cat(l, r))) = Cat(Cat(Cat(v, k), l), r)
    BY <1>1, <1>3, <1>4, CatFour
  <2>2. Ends(b, 0, Cat(v, Cat(k, Cat(l, r))))
    BY <1>5, <1>8, <2>1 DEF Cat
  <2> DEFINE lr == Cat(l, r)
             klr == Cat(k, lr)
  <2>3. lr \in Octets
    BY <1>4, CatType
  <2> HIDE DEF lr
  <2>4. klr \in Octets
    BY <1>3, <2>3, CatType
  <2> HIDE DEF klr
  <2>5. Ends(b, 0, v \o klr) /\ 0 \in Nat
    BY <2>2 DEF Cat, lr, klr
  <2>6. Ends(b, 0 + Len(v), klr)
    BY <1>1, <2>4, <2>5, EndsFirst
  <2>7. Ends(b, 2, U16Bytes(SECURE_WRAPPER) \o lr) /\ 2 \in Nat
    <3>1. 0 + Len(v) = 2
      BY <1>1
    <3> QED BY <2>6, <3>1 DEF Cat, klr, k
  <2>8. U16(b, 2) = SECURE_WRAPPER /\ Ends(b, 2 + 2, lr)
    BY <1>2, <2>3, <2>7, EndsWord
  <2>9. Ends(b, 4, U16Bytes(38 + n) \o r) /\ 4 \in Nat
    BY <2>8 DEF Cat, lr, l
  <2>10. U16(b, 4) = 38 + n /\ Ends(b, 4 + 2, r)
    BY <2>9, EndsWord
  <2> QED BY <2>8, <2>10
<1> QED BY <1>7, <1>8

\* A sequence number has six octets.
LEMMA SeqBytesParts ==
    ASSUME NEW n \in Words
    PROVE  SeqBytes(n) \in Octets /\ Len(SeqBytes(n)) = 6
<1> DEFINE u == U16Bytes(n)
           z == <<0, 0, 0, 0>>
<1>1. u \in Octets /\ Len(u) = 2
  BY U16Is
<1>2. z \in Octets /\ Len(z) = 4
  <2>1. 0 \in Octet
    BY OctetIs
  <2> QED BY <2>1, OctetTuples
<1>3. SeqBytes(n) = z \o u
  BY DEF SeqBytes
<1> HIDE DEF u, z
<1>4. z \o u \in Octets /\ Len(z \o u) = Len(z) + Len(u)
  BY <1>1, <1>2, JoinedLength
<1> QED BY <1>1, <1>2, <1>3, <1>4

\* What can be read off a secure wrapper with the key it was made with.
WrapperOpens(b, frame, key, session, seq, serial, tag) ==
    /\ b \in Octets /\ Len(b) = 38 + Len(frame)
    /\ U16(b, 2) = SECURE_WRAPPER /\ U16(b, 4) = Len(b) /\ U16(b, 6) = session
    /\ Sub(b, 0, 6) = WrapperHeader(Len(frame))
    /\ Sub(b, 8, 22) = SeqBytes(seq) \o serial \o tag
    /\ Unwrapped(b, key)
         = [mac |-> WrapperMac(frame, key, session, seq, serial, tag), payload |-> frame]

\* A wrapper gives back what went into it.
LEMMA WrapperRead ==
    ASSUME NEW frame \in Octets, 38 + Len(frame) \in Words, NEW key \in Octets,
           NEW session \in Words, NEW seq \in Words,
           NEW serial \in Octets, Len(serial) = 6, NEW tag \in Octets, Len(tag) = 2
    PROVE  WrapperOpens(Wrapper(frame, key, session, seq, serial, tag),
                        frame, key, session, seq, serial, tag)
<1> DEFINE header == WrapperHeader(Len(frame))
           words == U16Bytes(session)
           number == SeqBytes(seq)
           size == U16Bytes(Len(frame))
           mac == WrapperMac(frame, key, session, seq, serial, tag)
           counter == WrapperCounter(number, serial, tag)
           enc == EncryptDataCtr(key, counter, mac, frame)
           w == Wrapper(frame, key, session, seq, serial, tag)
<1>1. Len(frame) \in Nat /\ Len(frame) \in Words
  BY DEF Octets, Words
<1>2. header \in Octets /\ Len(header) = 6
  BY <1>1, WrapperHeaderParts
<1>3. words \in Octets /\ Len(words) = 2
  BY U16Is
<1>4. number \in Octets /\ Len(number) = 6
  BY SeqBytesParts
<1>5. size \in Octets
  BY <1>1, U16Is
<1>6. w = header \o words \o number \o serial \o tag \o (enc.payload \o enc.mac)
  BY DEF Wrapper, WrapperHeader, WrapperMac, Sealed
<1>7. mac = CalculateMAC(key, header \o words, frame, number \o serial \o tag \o size)
  BY DEF WrapperMac
<1>8. counter = number \o serial \o tag \o <<\hFF, 0>>
  BY DEF WrapperCounter
<1> HIDE DEF header, words, number, size, mac, counter
<1>9. number \o serial \o tag \in Octets
  BY <1>4, CatThree DEF Cat, Three
<1> DEFINE nst == number \o serial \o tag
<1> HIDE DEF nst
<1>10. nst \in Octets
  BY <1>9 DEF nst
<1>11. mac \in Octets /\ Len(mac) = 16
  <2> DEFINE additional == header \o words
             block0 == nst \o size
  <2>1. additional \in Octets /\ Len(additional) = 8
    <3>1. header \o words \in Octets /\ Len(header \o words) = Len(header) + Len(words)
      BY <1>2, <1>3, JoinedLength
    <3> QED BY <1>2, <1>3, <3>1
  <2>2. block0 \in Octets
    BY <1>5, <1>10, JoinedLength
  <2>3. mac = CalculateMAC(key, additional, frame, block0)
    BY <1>7 DEF nst
  <2> HIDE DEF additional, block0, enc, w
  <2>4. Len(additional) \in Words
    BY <2>1 DEF Words
  <2>5. IsMac(CalculateMAC(key, additional, frame, block0))
    BY <2>1, <2>2, <2>4, MacType
  <2> QED BY <2>3, <2>5 DEF IsMac
<1>12. counter \in Octets
  <2> DEFINE suffix == <<\hFF, 0>>
  <2>1. suffix \in Octets
    <3>1. \hFF \in Octet /\ 0 \in Octet
      BY OctetIs
    <3> QED BY <3>1, OctetTuples
  <2>2. counter = nst \o suffix
    BY <1>8 DEF nst
  <2> HIDE DEF suffix
  <2> QED BY <1>10, <2>1, <2>2, JoinedLength
<1> HIDE DEF enc
<1>13. /\ enc.mac \in Octets /\ Len(enc.mac) = 16
       /\ enc.payload \in Octets /\ Len(enc.payload) = Len(frame)
       /\ DecryptCtr(key, counter, enc.mac, enc.payload) = [mac |-> mac, payload |-> frame]
  BY <1>11, <1>12, Undone DEF enc
<1> DEFINE others == words \o (number \o (serial \o (tag \o (enc.payload \o enc.mac))))
<1> DEFINE payload == enc.payload
           sealedMac == enc.mac
<1>20. payload \in Octets /\ sealedMac \in Octets /\ Len(sealedMac) = 16
  BY <1>13
<1> HIDE DEF w, payload, sealedMac
<1>21. PartsOf(header \o words \o number \o serial \o tag \o (payload \o sealedMac),
               header, words, number, serial, tag, payload, sealedMac)
  BY <1>2, <1>3, <1>4, <1>20, WrapperParts
<1>22. PartsOf(w, header, words, number, serial, tag, payload, sealedMac)
  BY <1>6, <1>21 DEF payload, sealedMac
<1>14. /\ w \in Octets /\ Len(w) = 38 + Len(enc.payload)
       /\ Ends(w, 0, header \o others) /\ Sub(w, 0, 6) = header /\ Ends(w, 6, others)
       /\ Sub(w, 8, 14) = number /\ Sub(w, 14, 20) = serial /\ Sub(w, 20, 22) = tag
       /\ Sub(w, 8, 22) = number \o serial \o tag
       /\ Sub(w, 22, Len(w) - 16) = enc.payload /\ Sub(w, Len(w) - 16, Len(w)) = enc.mac
  BY <1>22 DEF PartsOf, payload, sealedMac
<1>15. Len(w) = 38 + Len(frame)
  BY <1>13, <1>14
<1>16. Unwrapped(w, key) = [mac |-> mac, payload |-> frame]
  BY <1>13, <1>14 DEF Unwrapped, counter
<1>17. others \in Octets
  <2> DEFINE e == Cat(enc.payload, enc.mac)
             r5 == Cat(tag, e)
             r4 == Cat(serial, r5)
             r3 == Cat(number, r4)
  <2>1. e \in Octets
    BY <1>13, CatType
  <2> HIDE DEF e
  <2>2. r5 \in Octets
    BY <2>1, CatType
  <2> HIDE DEF r5
  <2>3. r4 \in Octets
    BY <2>2, CatType
  <2> HIDE DEF r4
  <2>4. r3 \in Octets
    BY <1>4, <2>3, CatType
  <2> HIDE DEF r3
  <2>5. Cat(words, r3) \in Octets
    BY <1>3, <2>4, CatType
  <2> QED BY <2>5 DEF Cat, e, r5, r4, r3
<1>18. U16(w, 2) = SECURE_WRAPPER /\ U16(w, 4) = 38 + Len(frame)
  <2> HIDE DEF others
  <2>1. Ends(w, 0, WrapperHeader(Len(frame)) \o others)
    BY <1>14 DEF header
  <2> QED BY <1>1, <1>14, <1>17, <2>1, WrapperHeaderParts
<1>19. U16(w, 6) = session
  <2> DEFINE r == number \o (serial \o (tag \o (enc.payload \o enc.mac)))
  <2>1. r \in Octets
    <3> DEFINE e == Cat(enc.payload, enc.mac)
               r5 == Cat(tag, e)
               r4 == Cat(serial, r5)
    <3>1. e \in Octets
      BY <1>13, CatType
    <3> HIDE DEF e
    <3>2. r5 \in Octets
      BY <3>1, CatType
    <3> HIDE DEF r5
    <3>3. r4 \in Octets
      BY <3>2, CatType
    <3> HIDE DEF r4
    <3>4. Cat(number, r4) \in Octets
      BY <1>4, <3>3, CatType
    <3> QED BY <3>4 DEF Cat, e, r5, r4
  <2>2. Ends(w, 6, U16Bytes(session) \o r) /\ 6 \in Nat
    BY <1>14 DEF others, words
  <2> HIDE DEF r
  <2> QED BY <1>14, <2>1, <2>2, EndsWord
<1> QED BY <1>14, <1>15, <1>16, <1>18, <1>19 DEF WrapperOpens, w, header, number, mac

\* A frame wrapped for a secure session is opened again by the holder of the session
\* key: secureDecrypt of secureWrap is the frame, whatever the key, the session, the
\* sequence number and the serial number. The wrapper is as long as its header says, so
\* that the stream of TunnelTCP is cut where it ends.
THEOREM SessionRoundTrip ==
    ASSUME NEW frame \in Octets, 38 + Len(frame) \in Words, NEW key \in Octets,
           NEW session \in Words, NEW seq \in Words, NEW serial \in Octets, Len(serial) = 6
    PROVE  LET wrapped == SecureWrap(frame, key, session, seq, serial)
           IN  /\ SecureDecrypt(wrapped, key) = frame
               /\ U16(wrapped, 4) = Len(wrapped)
<1> DEFINE tag == <<0, 0>>
           w == Wrapper(frame, key, session, seq, serial, tag)
<1>1. tag \in Octets /\ Len(tag) = 2
  <2>1. 0 \in Octet
    BY OctetIs
  <2> QED BY <2>1, OctetTuples
<1>2. SecureWrap(frame, key, session, seq, serial) = w
  BY DEF SecureWrap
<1> HIDE DEF tag
<1>3. WrapperOpens(w, frame, key, session, seq, serial, tag)
  BY <1>1, WrapperRead
<1> HIDE DEF w
<1> QED BY <1>2, <1>3 DEF WrapperOpens, SecureDecrypt

\* A frame multicast under the backbone key passes the comparison of the MAC in
\* secureDecryptRouting and comes out as it went in.
THEOREM MulticastRoundTrip ==
    ASSUME NEW frame \in Octets, 38 + Len(frame) \in Words, NEW key \in Octets,
           NEW timer \in Words, NEW serial \in Octets, Len(serial) = 6,
           NEW tag \in Octets, Len(tag) = 2
    PROVE  SecureDecryptRouting(SecureWrapRouting(frame, key, timer, serial, tag), key) = frame
<1> DEFINE w == Wrapper(frame, key, 0, timer, serial, tag)
           mac == WrapperMac(frame, key, 0, timer, serial, tag)
<1>1. 0 \in Words
  BY DEF Words
<1>2. SecureWrapRouting(frame, key, timer, serial, tag) = w
  BY DEF SecureWrapRouting
<1>3. WrapperOpens(w, frame, key, 0, timer, serial, tag)
  BY <1>1, WrapperRead
<1>4. U16Bytes(0) = <<0, 0>>
  <2>1. 0 \div 256 = 0 /\ 0 % 256 = 0
    OBVIOUS
  <2> QED BY <2>1 DEF U16Bytes
<1> HIDE DEF w
<1>5. Unwrapped(w, key) = [mac |-> mac, payload |-> frame]
  BY <1>3 DEF WrapperOpens
<1>6. mac = CalculateMAC(key, Sub(w, 0, 6) \o <<0, 0>>, frame, Sub(w, 8, 22) \o U16Bytes(Len(frame)))
  BY <1>3, <1>4 DEF WrapperOpens, WrapperMac
<1> HIDE DEF mac
<1>7. ~(Len(w) < 38) /\ U16(w, 2) = SECURE_WRAPPER /\ U16(w, 6) = 0
  <2>1. Len(frame) \in Nat /\ Len(w) = 38 + Len(frame)
    BY <1>3 DEF WrapperOpens, Octets
  <2> QED BY <1>3, <2>1 DEF WrapperOpens
<1>8. SecureDecryptRouting(w, key) = frame
  BY <1>5, <1>6, <1>7 DEF SecureDecryptRouting
<1> QED BY <1>2, <1>8

\* Data Secure: the APDU built from a telegram is decrypted with the same key, and its
\* four octets of MAC pass the comparison.
LEMMA FlagsType ==
    ASSUME NEW ctrl, ctrl[2] \in Octet
    PROVE  RelevantFlags(ctrl) \in Octet
<1> DEFINE x == ctrl[2]
<1>1. x \in Nat /\ x <= 255
  BY OctetIs
<1> HIDE DEF x
<1>2. RelevantFlags(ctrl) = x + (0 - ((x \div 16) % 8)) * 16
  BY DEF RelevantFlags, WithBits, Bits, x
<1>3. x + (0 - ((x \div 16) % 8)) * 16 \in Nat /\ x + (0 - ((x \div 16) % 8)) * 16 <= 255
  BY <1>1
<1> QED BY <1>2, <1>3, OctetIs

\* The block a MAC of Data Secure starts with, and the counter of its cipher.
LEMMA DataSecureParts ==
    ASSUME NEW seq \in Octets, NEW src \in Words, NEW dst \in Words,
           NEW flags \in Octet, NEW length \in Octet
    PROVE  /\ DataSecureBlock0(seq, U16Bytes(src) \o U16Bytes(dst), flags, length) \in Octets
           /\ seq \o (U16Bytes(src) \o U16Bytes(dst)) \o DATA_SECURE_CTR_SUFFIX \in Octets
<1> DEFINE from == U16Bytes(src)
           to == U16Bytes(dst)
           ends == from \o to
           fields == <<0, flags, APCI_SEC_HIGH, APCI_SEC_LOW, 0, length>>
           head == seq \o ends
<1>1. from \in Octets /\ to \in Octets
  BY U16Is
<1> HIDE DEF from, to
<1>2. ends \in Octets
  BY <1>1, JoinedLength
<1> HIDE DEF ends
<1>3. head \in Octets
  BY <1>2, JoinedLength
<1> HIDE DEF head
<1>4. 0 \in Octet /\ 1 \in Octet /\ APCI_SEC_HIGH \in Octet /\ APCI_SEC_LOW \in Octet
  BY OctetIs DEF APCI_SEC_HIGH, APCI_SEC_LOW
<1>5. \A a, b, c, d, e, f \in Octet : <<a, b, c, d, e, f>> \in Octets
  BY DEF Octets
<1>6. fields \in Octets /\ DATA_SECURE_CTR_SUFFIX \in Octets
  BY <1>4, <1>5 DEF DATA_SECURE_CTR_SUFFIX
<1>7. DataSecureBlock0(seq, from \o to, flags, length) = head \o fields
  BY DEF DataSecureBlock0, head, ends
<1> HIDE DEF fields
<1>8. head \o fields \in Octets /\ head \o DATA_SECURE_CTR_SUFFIX \in Octets
  BY <1>3, <1>6, JoinedLength
<1> QED BY <1>7, <1>8 DEF head, ends, from, to

\* Data Secure sends the first four octets of a MAC.
LEMMA MacHead ==
    ASSUME NEW m, IsMac(m)
    PROVE  SubSeq(m, 1, 4) \in Octets /\ Len(SubSeq(m, 1, 4)) = 4
<1>1. \A n \in Nat : \A s \in Octets :
        n <= Len(s) => SubSeq(s, 1, n) \in Octets /\ Len(SubSeq(s, 1, n)) = n
  BY DEF Octets
<1>2. m \in Octets /\ 4 \in Nat /\ 4 <= Len(m)
  BY DEF IsMac
<1> QED BY <1>1, <1>2

\* The APDU of Data Secure, and what is read off it.
ApduOpens(part, c, key, plain) ==
    /\ part \in Octets /\ Len(part) = 11 + Len(plain)
    /\ SecurePlain(c, key, part) = plain

\* A secured APDU gives back its telegram.
LEMMA ApduRead ==
    ASSUME NEW key \in Octets, NEW seq \in Octets, Len(seq) = 6,
           NEW c, c.srcAddress \in Words, c.dstAddress \in Words, c.control[2] \in Octet,
           NEW plain \in Octets, Len(plain) <= 255
    PROVE  ApduOpens(SecureApdu(key, seq, c.srcAddress, c.dstAddress, c.control, plain),
                     c, key, plain)
<1> DEFINE ends == U16Bytes(c.srcAddress) \o U16Bytes(c.dstAddress)
           flags == RelevantFlags(c.control)
           block0 == DataSecureBlock0(seq, ends, flags, Len(plain))
           scf == <<SCF_ENCRYPTION_S_A_DATA>>
           whole == CalculateMAC(key, scf, plain, block0)
           mac == SubSeq(whole, 1, 4)
           counter == seq \o ends \o DATA_SECURE_CTR_SUFFIX
           enc == EncryptDataCtr(key, counter, mac, plain)
           part == SecureApdu(key, seq, c.srcAddress, c.dstAddress, c.control, plain)
<1>1. part = scf \o seq \o (enc.payload \o enc.mac)
  BY DEF SecureApdu, Sealed
<1>2. Len(plain) \in Octet /\ Len(plain) \in Nat
  BY OctetIs DEF Octets
<1>3. block0 \in Octets /\ counter \in Octets
  BY <1>2, FlagsType, DataSecureParts
<1>4. scf \in Octets /\ Len(scf) = 1 /\ scf[1] = SCF_ENCRYPTION_S_A_DATA
  <2>1. SCF_ENCRYPTION_S_A_DATA \in Octet
    BY OctetIs DEF SCF_ENCRYPTION_S_A_DATA
  <2>2. \A x \in Octet : <<x>> \in Octets
    BY DEF Octets
  <2> QED BY <2>1, <2>2
<1> HIDE DEF block0, counter, scf, enc, part
<1>5. IsMac(whole)
  <2>1. Len(scf) \in Words
    BY <1>4 DEF Words
  <2> QED BY <1>3, <1>4, <2>1, MacType
<1> HIDE DEF whole
<1>6. mac \in Octets /\ Len(mac) = 4
  BY <1>5, MacHead
<1> HIDE DEF mac
<1> DEFINE payload == enc.payload
           sealedMac == enc.mac
<1>7. /\ sealedMac \in Octets /\ Len(sealedMac) = 4
      /\ payload \in Octets /\ Len(payload) = Len(plain)
      /\ DecryptCtr(key, counter, sealedMac, payload) = [mac |-> mac, payload |-> plain]
  BY <1>3, <1>6, Undone DEF enc
<1>8. part = Cat(Cat(scf, seq), Cat(payload, sealedMac))
  BY <1>1 DEF Cat
<1> HIDE DEF payload, sealedMac
<1> DEFINE pm == Cat(payload, sealedMac)
           spm == Cat(seq, pm)
<1>9. pm \in Octets /\ Len(pm) = Len(plain) + 4
  <2>1. Cat(payload, sealedMac) \in Octets
    BY <1>7, CatType
  <2>2. Len(Cat(payload, sealedMac)) = Len(payload) + Len(sealedMac)
    BY <1>7, CatLength
  <2> QED BY <1>7, <2>1, <2>2
<1>10. Cat(Cat(scf, seq), Cat(payload, sealedMac)) = Cat(scf, Cat(seq, Cat(payload, sealedMac)))
  <2> HIDE DEF pm, spm
  <2>1. \A x \in Octets : Cat(Cat(scf, seq), x) = Cat(scf, Cat(seq, x))
    BY <1>4, CatAssoc
  <2> QED BY <1>9, <2>1 DEF pm
<1>11. part = Cat(scf, spm)
  BY <1>8, <1>10
<1> HIDE DEF pm
<1>12. spm \in Octets /\ Len(spm) = 10 + Len(plain)
  <2>1. Cat(seq, pm) \in Octets
    BY <1>9, CatType
  <2>2. Len(Cat(seq, pm)) = Len(seq) + Len(pm)
    BY <1>9, CatLength
  <2> QED BY <1>2, <1>9, <2>1, <2>2
<1> HIDE DEF spm
<1>13. part \in Octets /\ Len(part) = 11 + Len(plain)
  <2>1. Cat(scf, spm) \in Octets
    BY <1>4, <1>12, CatType
  <2>2. Len(Cat(scf, spm)) = Len(scf) + Len(spm)
    BY <1>4, <1>12, CatLength
  <2>3. Len(Cat(scf, spm)) = 11 + Len(plain)
    BY <1>2, <1>4, <1>12, <2>2
  <2> QED BY <1>11, <2>1, <2>3
<1>14. part[1] = SCF_ENCRYPTION_S_A_DATA /\ Ends(part, 1, spm)
  <2>1. Ends(part, 0, scf \o spm) /\ 0 \in Nat
    BY <1>11, <1>13 DEF Ends, Octets, Cat
  <2>2. (\A i \in 1 .. Len(scf) : part[0 + i] = scf[i]) /\ Ends(part, 0 + Len(scf), spm)
    BY <1>4, <1>12, <1>13, <2>1, EndsParts
  <2>3. 0 + Len(scf) = 1 /\ 1 \in 1 .. Len(scf) /\ 0 + 1 = 1
    BY <1>4
  <2>4. part[0 + 1] = scf[1]
    BY <2>2, <2>3
  <2> QED BY <1>4, <2>2, <2>3, <2>4
<1>15. Sub(part, 1, 7) = seq /\ Ends(part, 7, pm)
  <2>1. Ends(part, 1, seq \o pm) /\ 1 \in Nat
    BY <1>14 DEF spm, Cat
  <2>2. Sub(part, 1, 1 + Len(seq)) = seq /\ Ends(part, 1 + Len(seq), pm)
    BY <1>9, <1>13, <2>1, EndsFirst
  <2>3. 1 + Len(seq) = 7
    OBVIOUS
  <2> QED BY <2>2, <2>3
<1>16. Sub(part, 7, 7 + Len(payload)) = payload /\ Ends(part, 7 + Len(payload), sealedMac)
  <2>1. Ends(part, 7, payload \o sealedMac) /\ 7 \in Nat
    BY <1>15 DEF pm, Cat
  <2> QED BY <1>7, <1>13, <2>1, EndsFirst
<1>17. 7 + Len(payload) = Len(part) - 4 /\ Len(part) - 4 \in Nat
  BY <1>2, <1>7, <1>13
<1>18. Sub(part, Len(part) - 4, Len(part)) = sealedMac /\ Sub(part, 7, Len(part) - 4) = payload
  BY <1>7, <1>13, <1>16, <1>17, EndsSub
<1>19. <<part[1]>> = scf
  BY <1>14 DEF scf
<1>20. SecurePlain(c, key, part) = plain
  <2> DEFINE dec == DecryptCtr(key, counter, sealedMac, payload)
             checked == IF SubSeq(CalculateMAC(key, scf, dec.payload,
                                    DataSecureBlock0(seq, ends, flags, Len(dec.payload))), 1, 4)
                             = dec.mac
                        THEN dec.payload ELSE Malformed
  <2>1. SecurePlain(c, key, part) = checked
    <3> HIDE DEF sealedMac, payload, part, scf
    <3> QED BY <1>15, <1>18, <1>19 DEF SecurePlain, counter
  <2> HIDE DEF dec
  <2>2. dec.mac = mac /\ dec.payload = plain
    BY <1>7 DEF dec
  <2>3. mac = SubSeq(CalculateMAC(key, scf, plain, DataSecureBlock0(seq, ends, flags, Len(plain))), 1, 4)
    BY DEF mac, whole, block0
  <2> QED BY <2>1, <2>2, <2>3
<1> QED BY <1>13, <1>20 DEF ApduOpens, part

\* The service and the value of a telegram, which is what its receiver takes from it.
SameTelegram(a, b) == Action(a) = Action(b) /\ DataValue(a) = DataValue(b)

\* The receiver of a secured telegram takes the service and the value that were sent.
LEMMA OpenedNPDU ==
    ASSUME NEW apci \in Octet, NEW d \in DataFields
    PROVE  SameTelegram(NPDUOf(<<0, apci>> \o FlattenSeq(d)),
                        [tpci |-> 0, apci |-> apci, data |-> d])
<1> DEFINE head == <<0, apci>>
           bare == [tpci |-> 0, apci |-> apci, data |-> <<>>]
           s == FlattenSeq(d)
           plain == head \o s
<1>1. head \in Octets /\ Len(head) = 2 /\ head[1] = 0 /\ head[2] = apci
  <2>1. 0 \in Octet
    BY OctetIs
  <2> QED BY <2>1, OctetTuples
<1>2. CASE d = <<>>
  <2>1. plain = head
    <3>1. s = <<>>
      BY <1>2, Flat
    <3> HIDE DEF s, head
    <3>2. head \o <<>> = head
      BY <1>1 DEF Octets
    <3> QED BY <3>1, <3>2
  <2> HIDE DEF plain
  <2>2. NPDUOf(plain) = bare
    <3> HIDE DEF head, s, bare
    <3>1. Len(plain) = 2 /\ plain[2] = apci
      BY <1>1, <2>1
    <3> HIDE DEF plain
    <3>2. Len(plain) <= 2 /\ Len(plain) >= 2
      BY <3>1
    <3> QED BY <3>1, <3>2 DEF NPDUOf, bare
  <2>3. bare = [tpci |-> 0, apci |-> apci, data |-> d]
    BY <1>2
  <2> HIDE DEF bare
  <2> QED BY <2>2, <2>3 DEF SameTelegram, plain, head, s
<1>3. CASE d # <<>>
  <2>1. d[1] \in Octets /\ Len(d[1]) \in Nat /\ Len(d[1]) > 0 /\ d = <<d[1]>>
    BY <1>3, DataCases
  <2>2. s = d[1]
    BY <2>1, Flat
  <2>3. s \in Octets /\ Len(s) \in Nat /\ Len(s) > 0 /\ d = <<s>>
    BY <2>1, <2>2
  <2> HIDE DEF s, head
  <2>4. plain \in Octets /\ Len(plain) = 2 + Len(s) /\ plain[2] = apci /\ Ends(plain, 2, s)
    <3>1. plain \in Octets /\ Len(plain) = 2 + Len(s)
      <4>1. head \o s \in Octets /\ Len(head \o s) = Len(head) + Len(s)
        BY <1>1, <2>3, JoinedLength
      <4> QED BY <1>1, <4>1
    <3>2. Ends(plain, 0, head \o s) /\ 0 \in Nat
      <4> HIDE DEF plain
      <4>1. Ends(plain, 0, plain)
        BY <3>1 DEF Ends, Octets
      <4> QED BY <4>1 DEF plain
    <3> HIDE DEF plain
    <3>3. (\A i \in 1 .. Len(head) : plain[0 + i] = head[i]) /\ Ends(plain, 0 + Len(head), s)
      BY <1>1, <2>3, <3>1, <3>2, EndsParts
    <3>4. 2 \in 1 .. Len(head) /\ 0 + 2 = 2 /\ 0 + Len(head) = 2
      BY <1>1
    <3>5. plain[0 + 2] = head[2]
      BY <3>3, <3>4
    <3> QED BY <1>1, <3>1, <3>3, <3>4, <3>5
  <2> HIDE DEF plain
  <2>5. Sub(plain, 2, Len(plain)) = s
    BY <2>3, <2>4, EndsSub
  <2> DEFINE small == Len(s) = 1 /\ s[1] <= \h3F
             n == s[1]
             b == 64 * Bits(apci, 6, 2) + n
  <2>6. NPDUOf(plain) = IF small THEN [bare EXCEPT !.apci = b, !.data = <<>>]
                        ELSE [bare EXCEPT !.data = <<s>>]
    <3>1. ~(Len(plain) <= 2) /\ Len(plain) >= 2
      BY <2>3, <2>4
    <3>2. NPDUOf(plain) = WithData(bare, s, TRUE)
      BY <2>4, <2>5, <3>1 DEF NPDUOf
    <3> QED BY <3>2 DEF WithData
  <2>7. CASE small
    <3>1. NPDUOf(plain) = [tpci |-> 0, apci |-> b, data |-> <<>>]
      BY <2>6, <2>7
    <3>2. n \in Nat /\ n < 64 /\ s = <<n>>
      <4> HIDE DEF bare, b
      <4>1. n \in Octet /\ s = <<n>>
        BY <2>3, <2>7 DEF Octets
      <4>2. n <= 63
        BY <2>7
      <4> HIDE DEF n
      <4> QED BY <4>1, <4>2, OctetIs
    <3> HIDE DEF n
    <3>3. apci \in Nat /\ apci <= 255
      BY OctetIs
    <3>4. Low(b, 6) = n /\ Bits(b, 6, 2) = Bits(apci, 6, 2)
      BY <3>2, <3>3 DEF Low, Bits
    <3> HIDE DEF b
    <3>5. DataValue(NPDUOf(plain)) = <<n>>
      BY <3>1, <3>4 DEF DataValue
    <3>6. Action(NPDUOf(plain)) = Action([tpci |-> 0, apci |-> apci, data |-> d])
      BY <3>1, <3>4 DEF Action
    <3>7. DataValue([tpci |-> 0, apci |-> apci, data |-> d]) = s
      BY <2>3 DEF DataValue
    <3> QED BY <3>2, <3>5, <3>6, <3>7 DEF SameTelegram, plain, head, s
  <2>8. CASE ~small
    <3>1. NPDUOf(plain) = [tpci |-> 0, apci |-> apci, data |-> d]
      BY <2>3, <2>6, <2>8
    <3> HIDE DEF small, n, b, bare
    <3> QED BY <3>1 DEF SameTelegram, plain, head, s
  <2> QED BY <2>7, <2>8
<1> QED BY <1>2, <1>3 DEF plain

\* Data Secure, end to end: a group telegram whose group has a key is sent as a telegram
\* the frames carry (the theorems above apply to it), and a receiver with the same keys
\* takes the same service and the same value from it, for every key, value and sequence
\* number. 241 octets is the longest value whose secured form fits the length octet.
THEOREM DataSecureRoundTrip ==
    ASSUME NEW c \in Sendable, c.npdu.tpci = 0, Len(FlattenSeq(c.npdu.data)) <= 241,
           NEW groupKeys, c.dstAddress \in DOMAIN groupKeys, groupKeys[c.dstAddress] \in Octets,
           NEW number \in Words, NEW own \in Words
    PROVE  LET secured  == MaybeApplyDataSecure(c, groupKeys, number, own)
               received == MaybeDecryptDataSecure(secured, groupKeys)
           IN  /\ secured \in Sendable /\ IsDataSecure(secured.npdu)
               /\ received = [secured EXCEPT !.npdu = received.npdu]
               /\ received.dstAddress = c.dstAddress
               /\ SameTelegram(received.npdu, c.npdu)
<1> DEFINE npdu == c.npdu
           key == groupKeys[c.dstAddress]
           src == IF own # 0 THEN own ELSE c.srcAddress
           seq == SeqBytes(number)
           apci == npdu.apci
           s == FlattenSeq(npdu.data)
           plain == <<0, apci>> \o s
           apdu == SecureApdu(key, seq, src, c.dstAddress, c.control, plain)
           secured == MaybeApplyDataSecure(c, groupKeys, number, own)
           received == MaybeDecryptDataSecure(secured, groupKeys)
<1>1. /\ apci \in Octet /\ npdu.data \in DataFields
      /\ npdu = [tpci |-> 0, apci |-> apci, data |-> npdu.data]
      /\ c.control[2] \in Octet /\ src \in Words /\ c.dstAddress \in Words
  BY SendableFields DEF NPDUFields
<1>2. s \in Octets
  <2>1. CASE npdu.data = <<>>
    BY <2>1, Flat, OctetTuples
  <2>2. CASE npdu.data # <<>>
    BY <1>1, <2>2, DataCases, Flat
  <2> QED BY <2>1, <2>2
<1>3. plain \in Octets /\ Len(plain) = 2 + Len(s) /\ Len(s) \in Nat
  <2> DEFINE head == <<0, apci>>
  <2>1. head \in Octets /\ Len(head) = 2
    <3>1. 0 \in Octet
      BY OctetIs
    <3> QED BY <1>1, <3>1, OctetTuples
  <2> HIDE DEF head, s
  <2>2. head \o s \in Octets /\ Len(head \o s) = Len(head) + Len(s)
    BY <1>2, <2>1, JoinedLength
  <2>3. Len(s) \in Nat
    BY <1>2 DEF Octets
  <2> QED BY <2>1, <2>2, <2>3 DEF head
<1>4. seq \in Octets /\ Len(seq) = 6
  BY SeqBytesParts
<1>5. ~IsDataSecure(npdu)
  <2>1. APCI_SEC_HIGH # 0
    BY DEF APCI_SEC_HIGH
  <2> QED BY <2>1 DEF IsDataSecure
<1> DEFINE n1 == [npdu EXCEPT !.tpci = APCI_SEC_HIGH, !.apci = APCI_SEC_LOW]
<1>6. secured = [c EXCEPT !.srcAddress = src, !.npdu = WithData(n1, apdu, TRUE)]
  <2> HIDE DEF key
  <2> QED BY <1>5 DEF MaybeApplyDataSecure, key
<1>7. n1 = [tpci |-> APCI_SEC_HIGH, apci |-> APCI_SEC_LOW, data |-> npdu.data]
  <2> HIDE DEF npdu, apci, key, src, seq, s, plain, apdu, secured, received
  <2> DEFINE d == npdu.data
             high == APCI_SEC_HIGH
             low == APCI_SEC_LOW
             full == [tpci |-> 0, apci |-> apci, data |-> d]
             n0 == [full EXCEPT !.tpci = high]
  <2>1. n1 = [n0 EXCEPT !.apci = low]
    <3>1. npdu = full
      BY <1>1
    <3> HIDE DEF full, n0
    <3>2. n1 = [full EXCEPT !.tpci = high, !.apci = low]
      BY <3>1
    <3> QED BY <3>2 DEF n0
  <2> HIDE DEF d, high, low, n1
  <2>2. n0 = [tpci |-> high, apci |-> apci, data |-> d]
    OBVIOUS
  <2> HIDE DEF n0
  <2>3. n1 = [tpci |-> high, apci |-> low, data |-> d]
    BY <2>1, <2>2
  <2> QED BY <2>3 DEF d, high, low
<1> DEFINE secure == [msgCode |-> c.msgCode, additionalInfo |-> c.additionalInfo,
                      control |-> c.control, srcAddress |-> src, dstAddress |-> c.dstAddress,
                      npdu |-> [tpci |-> APCI_SEC_HIGH, apci |-> APCI_SEC_LOW,
                                data |-> <<apdu>>]]
<1>8. /\ secure.srcAddress = src /\ secure.dstAddress = c.dstAddress
      /\ secure.control = c.control
  OBVIOUS
<1>9. ApduOpens(apdu, secure, key, plain)
  <2>1. Len(plain) <= 255
    <3> HIDE DEF s, plain
    <3> QED BY <1>3 DEF s
  <2>2. ApduOpens(SecureApdu(key, seq, secure.srcAddress, secure.dstAddress, secure.control, plain),
                  secure, key, plain)
    <3> HIDE DEF secure, plain, seq, key, src
    <3>1. /\ secure.srcAddress \in Words /\ secure.dstAddress \in Words
          /\ secure.control[2] \in Octet
      BY <1>1, <1>8
    <3>2. key \in Octets
      BY DEF key
    <3> QED BY <1>3, <1>4, <2>1, <3>1, <3>2, ApduRead
  <2> HIDE DEF secure
  <2> QED BY <1>8, <2>2
<1> HIDE DEF apdu, plain, s, seq, key, src
<1>10. apdu \in Octets /\ Len(apdu) \in Nat /\ Len(apdu) > 10 /\ Len(apdu) < 255
       /\ SecurePlain(secure, key, apdu) = plain
  <2> HIDE DEF secure
  <2>1. apdu \in Octets /\ Len(apdu) = 11 + Len(plain) /\ SecurePlain(secure, key, apdu) = plain
    BY <1>9 DEF ApduOpens
  <2>2. Len(s) <= 241
    BY DEF s
  <2> QED BY <1>3, <2>1, <2>2
<1>11. secured = secure
  <2> DEFINE n2 == WithData(n1, apdu, TRUE)
  <2>1. n2 = [n1 EXCEPT !.data = <<apdu>>]
    <3> HIDE DEF secure, secured, npdu, apci, received, n1
    <3> HIDE DEF n2
    <3>2. \A k \in Nat : k > 10 => k # 1
      OBVIOUS
    <3>1. Len(apdu) # 1
      BY <1>10, <3>2
    <3> QED BY <3>1 DEF WithData, n2
  <2> HIDE DEF n1, secured, n2
  <2>2. n2 = [tpci |-> APCI_SEC_HIGH, apci |-> APCI_SEC_LOW, data |-> <<apdu>>]
    BY <1>7, <2>1
  <2>3. secured = [c EXCEPT !.srcAddress = src, !.npdu = n2]
    BY <1>6 DEF n2
  <2>4. c = [msgCode |-> c.msgCode, additionalInfo |-> c.additionalInfo,
             control |-> c.control, srcAddress |-> c.srcAddress,
             dstAddress |-> c.dstAddress, npdu |-> c.npdu]
    BY SendableFields
  <2> QED BY <2>2, <2>3, <2>4
<1> HIDE DEF secured, n1
<1>12. secure \in Sendable
  <2>1. <<apdu>> \in DataFields
    BY <1>10 DEF DataFields
  <2>2. APCI_SEC_HIGH \in Octet /\ APCI_SEC_LOW \in Octet
    BY OctetIs DEF APCI_SEC_HIGH, APCI_SEC_LOW
  <2>3. c.control \in Octet \X Octet /\ c.msgCode \in {L_DATA_REQ, L_DATA_IND}
        /\ c.additionalInfo = <<>>
    BY DEF Sendable
  <2>4. secure.npdu \in NPDUFields
    BY <2>1, <2>2 DEF NPDUFields
  <2> QED BY <1>1, <2>3, <2>4 DEF Sendable
<1>13. secure.npdu # Malformed
  <2> HIDE DEF secure
  <2> QED BY <1>12, SendableIsRead
<1>14. IsDataSecure(secure.npdu)
  BY DEF IsDataSecure
<1>15. plain # Malformed
  BY <1>3, MalformedAssumption DEF Octets
<1>16. received = [secure EXCEPT !.npdu = NPDUOf(plain)]
  <2>1. FlattenSeq(secure.npdu.data) = apdu
    BY <1>10, Flat
  <2> HIDE DEF secure
  <2>2. MaybeDecryptDataSecure(secure, groupKeys) = [secure EXCEPT !.npdu = NPDUOf(plain)]
    BY <1>8, <1>10, <1>13, <1>14, <1>15, <2>1 DEF MaybeDecryptDataSecure, key
  <2> QED BY <1>11, <2>2
<1>17. SameTelegram(NPDUOf(plain), npdu)
  BY <1>1, OpenedNPDU DEF plain, s
<1>18. received.dstAddress = c.dstAddress /\ received.npdu = NPDUOf(plain)
  <2> DEFINE opened == NPDUOf(plain)
  <2>1. [secure EXCEPT !.npdu = opened]
          = [msgCode |-> c.msgCode, additionalInfo |-> c.additionalInfo,
             control |-> c.control, srcAddress |-> src, dstAddress |-> c.dstAddress,
             npdu |-> opened]
    <3> HIDE DEF opened
    <3> QED OBVIOUS
  <2> HIDE DEF opened, secure, received
  <2>2. received = [msgCode |-> c.msgCode, additionalInfo |-> c.additionalInfo,
             control |-> c.control, srcAddress |-> src, dstAddress |-> c.dstAddress,
             npdu |-> opened]
    BY <1>16, <2>1 DEF opened
  <2> QED BY <2>2 DEF opened
<1> HIDE DEF received, secure
<1>19. received = [secured EXCEPT !.npdu = received.npdu]
  BY <1>11, <1>16, <1>18
<1>20. SameTelegram(received.npdu, c.npdu)
  BY <1>17, <1>18
<1>21. secured \in Sendable /\ IsDataSecure(secured.npdu)
  BY <1>11, <1>12, <1>14
<1> QED BY <1>18, <1>19, <1>20, <1>21 DEF received, secured

(* The stream of TunnelTCP *)

\* What functions do to a value, one after the other, is a function of how many have
\* been applied.
IsRun(g, size, V, a, f) ==
    /\ g \in [0 .. size -> V] /\ g[0] = a
    /\ \A i \in 1 .. size : g[i] = f[i][g[i - 1]]

LEMMA Iterated ==
    ASSUME NEW size \in Nat, NEW V, NEW a \in V, NEW f \in [1 .. size -> [V -> V]]
    PROVE  \E g : IsRun(g, size, V, a, f)
<1> DEFINE Run(n, g) == /\ g \in [0 .. n -> V] /\ g[0] = a
                        /\ \A i \in 1 .. n : g[i] = f[i][g[i - 1]]
           Runs == {n \in Nat : n <= size => \E g : Run(n, g)}
<1>1. 0 \in Runs
  <2>1. Run(0, [i \in 0 .. 0 |-> a])
    OBVIOUS
  <2> HIDE DEF Run
  <2> QED BY <2>1
<1>2. ASSUME NEW n \in Nat, n \in Runs PROVE n + 1 \in Runs
  <2> SUFFICES ASSUME n + 1 <= size PROVE \E g : Run(n + 1, g)
    <3> HIDE DEF Run
    <3> QED OBVIOUS
  <2>1. PICK g : Run(n, g)
    <3> HIDE DEF Run
    <3> QED BY <1>2
  <2> DEFINE last == f[n + 1][g[n]]
             e == [i \in 0 .. n + 1 |-> IF i = n + 1 THEN last ELSE g[i]]
  <2>2. last \in V
    <3>1. n + 1 \in 1 .. size
      OBVIOUS
    <3> QED BY <2>1, <3>1
  <2> HIDE DEF last
  <2>3. e \in [0 .. n + 1 -> V] /\ e[0] = a
    BY <2>1, <2>2
  <2>4. ASSUME NEW i \in 1 .. n + 1 PROVE e[i] = f[i][e[i - 1]]
    <3>1. CASE i = n + 1
      <4>1. e[i] = last /\ e[i - 1] = g[n]
        BY <3>1
      <4>2. last = f[i][g[n]]
        BY <3>1 DEF last
      <4> HIDE DEF e
      <4> QED BY <4>1, <4>2
    <3>2. CASE i # n + 1
      <4>1. e[i] = g[i] /\ e[i - 1] = g[i - 1] /\ i \in 1 .. n
        BY <3>2
      <4> HIDE DEF e
      <4> QED BY <2>1, <4>1
    <3> QED BY <3>1, <3>2
  <2>5. Run(n + 1, e)
    <3> HIDE DEF e
    <3> QED BY <2>3, <2>4
  <2> HIDE DEF Run
  <2> QED BY <2>5
<1>3. Nat \subseteq Runs
  <2> HIDE DEF Runs
  <2> QED BY <1>1, <1>2, Inductive
<1>4. PICK g : Run(size, g)
  <2> HIDE DEF Run
  <2> QED BY <1>3
<1>5. IsRun(g, size, V, a, f)
  BY <1>4 DEF IsRun
<1> QED BY <1>5

\* A part of a buffer: its length and its octets.
LEMMA SubIs ==
    ASSUME NEW b \in Octets, NEW x \in Nat, NEW y \in Nat, x <= y, y <= Len(b)
    PROVE  /\ Sub(b, x, y) \in Octets /\ Len(Sub(b, x, y)) = y - x
           /\ \A i \in 1 .. y - x : Sub(b, x, y)[i] = b[x + i]
<1>1. Len(b) \in Nat
  BY DEF Octets
<1>2. Sub(b, x, y) = SubSeq(b, x + 1, y)
  BY <1>1 DEF Sub
<1> DEFINE u == SubSeq(b, x + 1, y)
<1>3. u \in Octets /\ Len(u) = y - x /\ \A i \in 1 .. y - x : u[i] = b[x + i]
  BY <1>1 DEF Octets
<1> HIDE DEF u
<1> QED BY <1>2, <1>3 DEF u

\* Two buffers of the same octets are the same.
LEMMA SameOctets ==
    ASSUME NEW s \in Octets, NEW t \in Octets, Len(s) = Len(t),
           \A i \in 1 .. Len(s) : s[i] = t[i]
    PROVE  s = t
BY DEF Octets

\* A part of a part.
LEMMA SubOfSub ==
    ASSUME NEW b \in Octets, NEW x \in Nat, NEW y \in Nat, x <= y, y <= Len(b),
           NEW v \in Nat, NEW w \in Nat, v <= w, w <= y - x
    PROVE  Sub(Sub(b, x, y), v, w) = Sub(b, x + v, x + w)
<1> DEFINE s == Sub(b, x, y)
           t == Sub(b, x + v, x + w)
           u == Sub(s, v, w)
<1>1. s \in Octets /\ Len(s) = y - x /\ \A i \in 1 .. y - x : s[i] = b[x + i]
  BY SubIs
<1>2. Len(b) \in Nat
  BY DEF Octets
<1>3. x + v \in Nat /\ x + w \in Nat /\ x + v <= x + w /\ x + w <= Len(b)
  BY <1>2
<1>4. t \in Octets /\ Len(t) = w - v /\ \A i \in 1 .. w - v : t[i] = b[x + v + i]
  <2>1. /\ t \in Octets /\ Len(t) = (x + w) - (x + v)
        /\ \A i \in 1 .. (x + w) - (x + v) : t[i] = b[x + v + i]
    BY <1>3, SubIs
  <2>2. (x + w) - (x + v) = w - v
    OBVIOUS
  <2> QED BY <2>1, <2>2
<1> HIDE DEF s, t
<1>5. u \in Octets /\ Len(u) = w - v /\ \A i \in 1 .. w - v : u[i] = s[v + i]
  BY <1>1, SubIs
<1> HIDE DEF u
<1>6. \A i \in 1 .. w - v : u[i] = t[i]
  <2> SUFFICES ASSUME NEW i \in 1 .. w - v PROVE u[i] = t[i]
    OBVIOUS
  <2>1. v + i \in 1 .. y - x /\ x + (v + i) = x + v + i
    OBVIOUS
  <2>2. s[v + i] = b[x + (v + i)]
    BY <1>1, <2>1
  <2> QED BY <1>4, <1>5, <2>1, <2>2
<1> QED BY <1>4, <1>5, <1>6, SameOctets DEF s, t, u

\* Two buffers, one after the other: the length and the octets.
Follows(st, s, t) ==
    /\ st \in Octets /\ Len(st) = Len(s) + Len(t)
    /\ \A i \in 1 .. Len(s) : st[i] = s[i]
    /\ \A i \in 1 .. Len(t) : st[Len(s) + i] = t[i]

LEMMA Followed ==
    ASSUME NEW s \in Octets, NEW t \in Octets
    PROVE  Follows(s \o t, s, t)
<1> DEFINE st == s \o t
<1>1. st \in Octets /\ Len(st) = Len(s) + Len(t)
  BY DEF Octets
<1>2. Len(s) \in Nat /\ Len(t) \in Nat
  BY DEF Octets
<1>3. \A i \in 1 .. Len(s) : st[i] = s[i]
  BY <1>2 DEF Octets
<1>4. \A i \in 1 .. Len(t) : st[Len(s) + i] = t[i]
  <2> SUFFICES ASSUME NEW i \in 1 .. Len(t) PROVE st[Len(s) + i] = t[i]
    OBVIOUS
  <2>1. Len(s) + i \in 1 .. Len(s) + Len(t) /\ ~(Len(s) + i <= Len(s))
        /\ Len(s) + i - Len(s) = i
    BY <1>2
  <2> QED BY <1>2, <2>1 DEF Octets
<1>5. Follows(st, s, t)
  <2> HIDE DEF st
  <2> QED BY <1>1, <1>3, <1>4, Zenon DEF Follows
<1> QED BY <1>5

\* A part, and the part that follows it.
LEMMA SubJoined ==
    ASSUME NEW b \in Octets, NEW x \in Nat, NEW y \in Nat, NEW z \in Nat,
           x <= y, y <= z, z <= Len(b)
    PROVE  Sub(b, x, y) \o Sub(b, y, z) = Sub(b, x, z)
<1> DEFINE s == Sub(b, x, y)
           t == Sub(b, y, z)
           u == Sub(b, x, z)
           st == s \o t
<1>1. Len(b) \in Nat
  BY DEF Octets
<1>2. x <= z /\ y <= Len(b)
  BY <1>1
<1>3. s \in Octets /\ Len(s) = y - x /\ \A i \in 1 .. y - x : s[i] = b[x + i]
  BY <1>2, SubIs
<1>4. t \in Octets /\ Len(t) = z - y /\ \A i \in 1 .. z - y : t[i] = b[y + i]
  BY SubIs
<1>5. u \in Octets /\ Len(u) = z - x /\ \A i \in 1 .. z - x : u[i] = b[x + i]
  BY <1>2, SubIs
<1> HIDE DEF s, t, u
<1>6. Follows(st, s, t)
  BY <1>3, <1>4, Followed
<1> HIDE DEF st
<1>7. /\ st \in Octets /\ Len(st) = Len(s) + Len(t)
      /\ \A i \in 1 .. Len(s) : st[i] = s[i]
      /\ \A i \in 1 .. Len(t) : st[Len(s) + i] = t[i]
  BY <1>6, Zenon DEF Follows
<1>8. Len(st) = z - x
  BY <1>3, <1>4, <1>7
<1>9. \A i \in 1 .. z - x : st[i] = u[i]
  <2> SUFFICES ASSUME NEW i \in 1 .. z - x PROVE st[i] = u[i]
    OBVIOUS
  <2>1. CASE i <= y - x
    BY <1>3, <1>5, <1>7, <2>1
  <2>2. CASE ~(i <= y - x)
    <3> DEFINE k == i - (y - x)
    <3>1. k \in 1 .. z - y /\ (y - x) + k = i /\ y + k = x + i
      BY <2>2
    <3> HIDE DEF k
    <3>2. st[Len(s) + k] = t[k] /\ t[k] = b[y + k]
      BY <1>4, <1>7, <3>1
    <3> QED BY <1>3, <1>5, <3>1, <3>2
  <2> QED BY <2>1, <2>2
<1> QED BY <1>5, <1>7, <1>8, <1>9, SameOctets DEF st, s, t, u

\* A number inside a part.
LEMMA SubWord ==
    ASSUME NEW b \in Octets, NEW x \in Nat, NEW y \in Nat, x <= y, y <= Len(b),
           NEW o \in Nat, o + 2 <= y - x
    PROVE  U16(Sub(b, x, y), o) = U16(b, x + o)
<1> DEFINE s == Sub(b, x, y)
<1>1. \A i \in 1 .. y - x : s[i] = b[x + i]
  BY SubIs
<1> HIDE DEF s
<1>2. o + 1 \in 1 .. y - x /\ o + 1 + 1 \in 1 .. y - x
  OBVIOUS
<1>3. s[o + 1] = b[x + (o + 1)] /\ s[o + 1 + 1] = b[x + (o + 1 + 1)]
  BY <1>1, <1>2
<1>4. x + (o + 1) = x + o + 1 /\ x + (o + 1 + 1) = x + o + 1 + 1
  OBVIOUS
<1> QED BY <1>3, <1>4 DEF U16, Byte, s

\* The buffer w in n parts, the i-th from at[i - 1] to at[i].
Parts(w, n, at) ==
    /\ w \in Octets /\ n \in Nat /\ at \in [0 .. n -> Nat]
    /\ at[0] = 0 /\ at[n] = Len(w)
    /\ \A i \in 1 .. n : at[i - 1] < at[i]

\* The q-th part is the last one that ends in the first m octets.
Ended(n, at, m, q) == q \in 0 .. n /\ at[q] <= m /\ (q = n \/ m < at[q + 1])

Whole(n, at, m) == CHOOSE q : Ended(n, at, m, q)

\* The parts follow each other, and none is empty.
LEMMA PartsOrder ==
    ASSUME NEW w, NEW n, NEW at, Parts(w, n, at)
    PROVE  \A i \in 0 .. n, j \in 0 .. n : i <= j => at[i] + (j - i) <= at[j]
<1>1. n \in Nat /\ at \in [0 .. n -> Nat] /\ \A i \in 1 .. n : at[i - 1] < at[i]
  BY DEF Parts
<1> SUFFICES ASSUME NEW i \in 0 .. n, NEW j \in 0 .. n, i <= j
             PROVE at[i] + (j - i) <= at[j]
  OBVIOUS
<1> DEFINE T == {d \in Nat : i + d <= n => at[i] + d <= at[i + d]}
<1>2. 0 \in T
  BY <1>1
<1>3. ASSUME NEW d \in Nat, d \in T PROVE d + 1 \in T
  <2> SUFFICES ASSUME i + (d + 1) <= n PROVE at[i] + (d + 1) <= at[i + (d + 1)]
    OBVIOUS
  <2> DEFINE x == i + d
  <2>1. x \in 0 .. n /\ x + 1 \in 1 .. n /\ i + (d + 1) = x + 1 /\ x + 1 - 1 = x /\ i + d <= n
    BY <1>1
  <2>2. at[i] + d <= at[x]
    BY <1>3, <2>1
  <2> HIDE DEF x
  <2>3. at[x] < at[x + 1] /\ at[x] \in Nat /\ at[x + 1] \in Nat /\ at[i] \in Nat
    BY <1>1, <2>1
  <2> QED BY <2>1, <2>2, <2>3
<1>4. Nat \subseteq T
  <2> HIDE DEF T
  <2> QED BY <1>2, <1>3, Inductive
<1>5. j - i \in Nat /\ i + (j - i) = j
  BY <1>1
<1>6. j - i \in T
  BY <1>4, <1>5
<1> QED BY <1>1, <1>5, <1>6

\* What is known of the ends of the parts.
LEMMA PartsEnds ==
    ASSUME NEW w, NEW n, NEW at, Parts(w, n, at)
    PROVE  /\ w \in Octets /\ n \in Nat /\ Len(w) \in Nat /\ at[0] = 0 /\ at[n] = Len(w)
           /\ \A i \in 0 .. n : at[i] \in Nat /\ at[i] <= Len(w)
           /\ \A i \in 0 .. n, j \in 0 .. n : i < j => at[i + 1] <= at[j]
<1>1. /\ w \in Octets /\ n \in Nat /\ Len(w) \in Nat /\ at[0] = 0 /\ at[n] = Len(w)
      /\ at \in [0 .. n -> Nat]
  BY DEF Parts, Octets
<1>2. ASSUME NEW i \in 0 .. n PROVE at[i] \in Nat /\ at[i] <= Len(w)
  <2>1. n \in 0 .. n /\ i <= n /\ n - i \in Nat
    BY <1>1
  <2>2. at[i] + (n - i) <= at[n]
    BY <2>1, PartsOrder
  <2>3. at[i] \in Nat
    BY <1>1
  <2> QED BY <1>1, <2>1, <2>2, <2>3
<1>3. ASSUME NEW i \in 0 .. n, NEW j \in 0 .. n, i < j PROVE at[i + 1] <= at[j]
  <2>1. i + 1 \in 0 .. n /\ i + 1 <= j /\ j - (i + 1) \in Nat
    BY <1>1
  <2>2. at[i + 1] + (j - (i + 1)) <= at[j]
    BY <2>1, PartsOrder
  <2>3. at[i + 1] \in Nat /\ at[j] \in Nat
    BY <1>1, <2>1
  <2> QED BY <2>1, <2>2, <2>3
<1> QED BY <1>1, <1>2, <1>3

\* Only one part is the last that ended.
LEMMA WholeIs ==
    ASSUME NEW w, NEW n, NEW at, Parts(w, n, at), NEW m \in Nat, NEW q, Ended(n, at, m, q)
    PROVE  Whole(n, at, m) = q
<1> DEFINE k == Whole(n, at, m)
<1>1. Ended(n, at, m, k)
  BY DEF Whole
<1> HIDE DEF k
<1>2. /\ k \in 0 .. n /\ at[k] <= m /\ (k = n \/ m < at[k + 1])
      /\ q \in 0 .. n /\ at[q] <= m /\ (q = n \/ m < at[q + 1])
  BY <1>1 DEF Ended
<1>3. n \in Nat /\ (\A i \in 0 .. n : at[i] \in Nat)
      /\ \A i \in 0 .. n, j \in 0 .. n : i < j => at[i + 1] <= at[j]
  BY PartsEnds
<1>4. ~(k < q)
  <2> SUFFICES ASSUME k < q PROVE FALSE
    OBVIOUS
  <2>1. k + 1 \in 0 .. n /\ k # n /\ at[k + 1] <= at[q]
    BY <1>2, <1>3
  <2>2. at[k + 1] \in Nat /\ at[q] \in Nat
    BY <1>2, <1>3, <2>1
  <2> QED BY <1>2, <2>1, <2>2
<1>5. ~(q < k)
  <2> SUFFICES ASSUME q < k PROVE FALSE
    OBVIOUS
  <2>1. q + 1 \in 0 .. n /\ q # n /\ at[q + 1] <= at[k]
    BY <1>2, <1>3
  <2>2. at[q + 1] \in Nat /\ at[k] \in Nat
    BY <1>2, <1>3, <2>1
  <2> QED BY <1>2, <2>1, <2>2
<1>6. k = q
  BY <1>2, <1>3, <1>4, <1>5
<1> QED BY <1>6 DEF k

\* A loop that takes a part in each turn until none is complete.
Turns(n, at, m, j, S, h, size) ==
    /\ h[0] = S[j]
    /\ \A i \in 1 .. size, q \in 0 .. n : j <= q /\ at[q] <= m /\ h[i - 1] = S[q] =>
           /\ Ended(n, at, m, q) => h[i] = S[q]
           /\ ~Ended(n, at, m, q) => q + 1 \in 0 .. n /\ at[q + 1] <= m /\ h[i] = S[q + 1]

\* It has turns for every part that can be complete.
Enough(n, at, m, j, size) == \A q \in 0 .. n : j <= q /\ at[q] <= m => q - j <= size

\* After them it has taken the last one that is.
LEMMA RunToEnd ==
    ASSUME NEW w, NEW n, NEW at, Parts(w, n, at), NEW m \in Nat, NEW j \in 0 .. n, at[j] <= m,
           NEW S, NEW h, NEW size \in Nat, Turns(n, at, m, j, S, h, size),
           Enough(n, at, m, j, size)
    PROVE  \E q \in j .. n : Ended(n, at, m, q) /\ at[q] <= m /\ h[size] = S[q]
<1> DEFINE At(i, q) == /\ q \in 0 .. n /\ j <= q /\ at[q] <= m /\ h[i] = S[q]
                       /\ q = j + i \/ Ended(n, at, m, q)
           T == {i \in Nat : i <= size => \E q : At(i, q)}
<1>1. n \in Nat
  BY DEF Parts
<1>2. 0 \in T
  <2>1. At(0, j)
    BY <1>1 DEF Turns
  <2> HIDE DEF At
  <2> QED BY <2>1
<1>3. ASSUME NEW i \in Nat, i \in T PROVE i + 1 \in T
  <2> SUFFICES ASSUME i + 1 <= size PROVE \E q : At(i + 1, q)
    OBVIOUS
  <2>1. PICK q : At(i, q)
    <3> HIDE DEF At
    <3> QED BY <1>3
  <2>2. i + 1 \in 1 .. size /\ i + 1 - 1 = i
    OBVIOUS
  <2>3. /\ Ended(n, at, m, q) => h[i + 1] = S[q]
        /\ ~Ended(n, at, m, q) => q + 1 \in 0 .. n /\ at[q + 1] <= m /\ h[i + 1] = S[q + 1]
    BY <2>1, <2>2 DEF Turns
  <2>4. CASE Ended(n, at, m, q)
    <3>1. At(i + 1, q)
      BY <2>1, <2>3, <2>4
    <3> HIDE DEF At
    <3> QED BY <3>1
  <2>5. CASE ~Ended(n, at, m, q)
    <3>1. j <= q + 1 /\ q + 1 = j + (i + 1)
      BY <1>1, <2>1, <2>5
    <3>2. At(i + 1, q + 1)
      BY <2>3, <2>5, <3>1
    <3> HIDE DEF At
    <3> QED BY <3>2
  <2> QED BY <2>4, <2>5
<1>4. PICK q : At(size, q)
  <2>1. Nat \subseteq T
    <3> HIDE DEF T
    <3> QED BY <1>2, <1>3, Inductive
  <2> HIDE DEF At
  <2> QED BY <2>1
<1>5. Ended(n, at, m, q)
  <2> SUFFICES ASSUME ~Ended(n, at, m, q) PROVE FALSE
    OBVIOUS
  <2>1. q = j + size /\ q # n /\ ~(m < at[q + 1])
    BY <1>1, <1>4 DEF Ended
  <2> DEFINE k == q + 1
  <2>2. k \in 0 .. n /\ j <= k /\ k - j = size + 1 /\ at[k] \in Nat
    <3>1. k \in 0 .. n /\ j <= k /\ k - j = size + 1
      BY <1>1, <1>4, <2>1
    <3> HIDE DEF k
    <3> QED BY <3>1, PartsEnds
  <2>3. at[k] <= m
    BY <2>1, <2>2
  <2> HIDE DEF k
  <2> QED BY <2>2, <2>3 DEF Enough
<1> QED BY <1>1, <1>4, <1>5

\* The buffer w arrives in chunks, the i-th to cut[i], and left is what is left after each.
Chunked(w, chunks, cut) ==
    /\ chunks \in Nat /\ cut \in [0 .. chunks -> Nat] /\ cut[0] = 0 /\ cut[chunks] = Len(w)
    /\ \A i \in 1 .. chunks : cut[i - 1] <= cut[i]

\* A chunk leaves the octets after a part that has ended if it finds such octets.
LeavesPart(w, n, at, cut, left, i) ==
    \A j \in 0 .. n :
        at[j] <= cut[i - 1] /\ cut[i - 1] <= cut[i] /\ cut[i] <= Len(w)
          /\ left[i - 1] = Sub(w, at[j], cut[i - 1])
        => \E k \in j .. n : Ended(n, at, cut[i], k) /\ left[i] = Sub(w, at[k], cut[i])

\* After each chunk the octets after the last part that has ended are left.
HasPart(w, n, at, cut, left, i) ==
    LET k == Whole(n, at, cut[i])
    IN  cut[i] <= Len(w) /\ Ended(n, at, cut[i], k) /\ left[i] = Sub(w, at[k], cut[i])

Recovered(w, n, at, chunks, cut, left) ==
    /\ \A i \in 0 .. chunks : HasPart(w, n, at, cut, left, i)
    /\ Whole(n, at, cut[0]) = 0 /\ Whole(n, at, cut[chunks]) = n /\ left[chunks] = <<>>

\* A buffer is recovered however it is cut.
LEMMA CutAnywhere ==
    ASSUME NEW w, NEW n, NEW at, Parts(w, n, at), NEW chunks, NEW cut, Chunked(w, chunks, cut),
           NEW left, left[0] = <<>>, \A i \in 1 .. chunks : LeavesPart(w, n, at, cut, left, i)
    PROVE  Recovered(w, n, at, chunks, cut, left)
<1>0. /\ chunks \in Nat /\ cut \in [0 .. chunks -> Nat] /\ cut[0] = 0 /\ cut[chunks] = Len(w)
      /\ \A i \in 1 .. chunks : cut[i - 1] <= cut[i]
  BY DEF Chunked
<1> DEFINE K(i) == Whole(n, at, cut[i])
<1>1. /\ w \in Octets /\ n \in Nat /\ Len(w) \in Nat /\ at[0] = 0 /\ at[n] = Len(w)
      /\ \A i \in 0 .. n : at[i] \in Nat /\ at[i] <= Len(w)
  BY PartsEnds
<1>2. \A i \in 1 .. n : at[i - 1] < at[i]
  BY DEF Parts
<1>3. Ended(n, at, 0, 0) /\ Ended(n, at, Len(w), n)
  <2>1. n = 0 \/ 0 < at[0 + 1]
    <3> SUFFICES ASSUME n # 0 PROVE 0 < at[0 + 1]
      OBVIOUS
    <3>1. 1 \in 1 .. n /\ 1 - 1 = 0 /\ 0 + 1 = 1 /\ at[1] \in Nat
      BY <1>1
    <3> QED BY <1>1, <1>2, <3>1
  <2> QED BY <1>1, <2>1 DEF Ended
<1>4. K(0) = 0 /\ K(chunks) = n
  <2>1. Whole(n, at, 0) = 0 /\ Whole(n, at, Len(w)) = n
    BY <1>1, <1>3, WholeIs
  <2> QED BY <1>0, <2>1
<1>5. \A i \in 0 .. chunks : cut[i] \in Nat /\ cut[i] <= Len(w)
  <2> DEFINE T == {d \in Nat : d <= chunks => cut[chunks - d] <= Len(w)}
  <2>1. 0 \in T
    BY <1>0, <1>1
  <2>2. ASSUME NEW d \in Nat, d \in T PROVE d + 1 \in T
    <3> SUFFICES ASSUME d + 1 <= chunks PROVE cut[chunks - (d + 1)] <= Len(w)
      OBVIOUS
    <3> DEFINE i == chunks - d
    <3>1. i \in 1 .. chunks /\ i \in 0 .. chunks /\ i - 1 \in 0 .. chunks
          /\ chunks - (d + 1) = i - 1
      BY <1>0
    <3>2. cut[i] <= Len(w)
      BY <1>0, <2>2
    <3> HIDE DEF i
    <3>3. cut[i - 1] <= cut[i] /\ cut[i - 1] \in Nat /\ cut[i] \in Nat
      BY <1>0, <3>1
    <3> QED BY <1>1, <3>1, <3>2, <3>3
  <2>3. Nat \subseteq T
    <3> HIDE DEF T
    <3> QED BY <2>1, <2>2, Inductive
  <2> SUFFICES ASSUME NEW i \in 0 .. chunks PROVE cut[i] <= Len(w)
    BY <1>0
  <2>4. chunks - i \in Nat /\ chunks - i <= chunks /\ chunks - (chunks - i) = i
    BY <1>0
  <2>5. chunks - i \in T
    BY <2>3, <2>4
  <2> QED BY <2>4, <2>5
<1> HIDE DEF K
<1> DEFINE Good(i) == /\ Ended(n, at, cut[i], K(i))
                      /\ left[i] = Sub(w, at[K(i)], cut[i])
<1>6. Good(0)
  <2>1. Sub(w, 0, 0) = <<>>
    <3>1. Sub(w, 0, 0) \in Octets /\ Len(Sub(w, 0, 0)) = 0 - 0
      BY <1>1, SubIs
    <3> QED BY <3>1 DEF Octets
  <2> QED BY <1>0, <1>1, <1>3, <1>4, <2>1
<1>7. ASSUME NEW i \in 1 .. chunks, Good(i - 1) PROVE Good(i)
  <2> DEFINE j == K(i - 1)
             l == cut[i - 1]
             m == cut[i]
  <2>1. i \in 0 .. chunks /\ i - 1 \in 0 .. chunks
    BY <1>0
  <2>2. l \in Nat /\ m \in Nat /\ l <= m /\ m <= Len(w)
    BY <1>0, <1>5, <2>1
  <2>3. j \in 0 .. n /\ at[j] <= l /\ left[i - 1] = Sub(w, at[j], l)
    BY <1>7 DEF Ended
  <2>4. K(i) = Whole(n, at, m)
    BY DEF K
  <2>5. PICK k \in j .. n : Ended(n, at, m, k) /\ left[i] = Sub(w, at[k], m)
    <3>1. LeavesPart(w, n, at, cut, left, i)
      OBVIOUS
    <3> HIDE DEF j
    <3> QED BY <2>2, <2>3, <3>1 DEF LeavesPart
  <2>6. K(i) = k
    <3> HIDE DEF m, j
    <3> QED BY <2>2, <2>4, <2>5, WholeIs
  <2> QED BY <2>5, <2>6
<1> DEFINE T == {i \in Nat : i <= chunks => Good(i)}
<1>8. Nat \subseteq T
  <2>1. 0 \in T
    <3> HIDE DEF Good
    <3> QED BY <1>6
  <2>2. ASSUME NEW i \in Nat, i \in T PROVE i + 1 \in T
    <3> SUFFICES ASSUME i + 1 <= chunks PROVE Good(i + 1)
      OBVIOUS
    <3> HIDE DEF Good
    <3>1. i + 1 \in 1 .. chunks /\ i + 1 - 1 = i /\ Good(i)
      BY <1>0, <2>2
    <3> QED BY <1>7, <3>1
  <2> HIDE DEF T
  <2> QED BY <2>1, <2>2, Inductive
<1>9. \A i \in 0 .. chunks : Good(i)
  <2> HIDE DEF Good
  <2> QED BY <1>0, <1>8
<1>10. left[chunks] = <<>>
  <2> DEFINE u == Sub(w, Len(w), Len(w))
  <2>1. left[chunks] = u
    <3>1. Good(chunks)
      <4> HIDE DEF Good
      <4> QED BY <1>0, <1>9
    <3> QED BY <1>0, <1>1, <1>4, <3>1
  <2>2. u \in Octets /\ Len(u) = Len(w) - Len(w)
    <3>1. Len(w) <= Len(w)
      BY <1>1
    <3> QED BY <1>1, <3>1, SubIs
  <2> HIDE DEF u
  <2> QED BY <1>1, <2>1, <2>2 DEF Octets
<1>11. \A i \in 0 .. chunks : HasPart(w, n, at, cut, left, i)
  BY <1>5, <1>9 DEF HasPart, K
<1> QED BY <1>4, <1>10, <1>11 DEF Recovered, K

\* A stream w of n frames, the i-th from at[i - 1] to at[i]; each is at least a header
\* and as long as its total length field says.
Stream(w, n, at) ==
    /\ w \in Octets /\ n \in Nat /\ at \in [0 .. n -> Nat]
    /\ at[0] = 0 /\ at[n] = Len(w)
    /\ \A i \in 1 .. n : at[i - 1] + 6 <= at[i] /\ U16(w, at[i - 1] + 4) = at[i] - at[i - 1]

\* The frames after the j-th, to the k-th.
FramesOf(w, at, j, k) == [i \in 1 .. k - j |-> Sub(w, at[j + i - 1], at[j + i])]

\* What is left of the first m octets when the frames after the j-th, to the q-th, are read.
Seen(w, at, m, j, q) == [rest |-> Sub(w, at[q], m), frames |-> FramesOf(w, at, j, q)]

\* The frames of a stream follow each other, each of 6 octets at least.
LEMMA StreamOrder ==
    ASSUME NEW w, NEW n, NEW at, Stream(w, n, at)
    PROVE  \A i \in 0 .. n, j \in 0 .. n : i <= j => at[i] + 6 * (j - i) <= at[j]
<1>1. n \in Nat /\ at \in [0 .. n -> Nat] /\ \A i \in 1 .. n : at[i - 1] + 6 <= at[i]
  BY DEF Stream
<1> SUFFICES ASSUME NEW i \in 0 .. n, NEW j \in 0 .. n, i <= j
             PROVE at[i] + 6 * (j - i) <= at[j]
  OBVIOUS
<1> DEFINE T == {d \in Nat : i + d <= n => at[i] + 6 * d <= at[i + d]}
<1>2. 0 \in T
  BY <1>1
<1>3. ASSUME NEW d \in Nat, d \in T PROVE d + 1 \in T
  <2> SUFFICES ASSUME i + (d + 1) <= n PROVE at[i] + 6 * (d + 1) <= at[i + (d + 1)]
    OBVIOUS
  <2> DEFINE x == i + d
  <2>1. x \in 0 .. n /\ x + 1 \in 1 .. n /\ i + (d + 1) = x + 1 /\ x + 1 - 1 = x /\ i + d <= n
    BY <1>1
  <2>2. at[i] + 6 * d <= at[x]
    BY <1>3, <2>1
  <2> HIDE DEF x
  <2>3. at[x] + 6 <= at[x + 1] /\ at[x] \in Nat /\ at[x + 1] \in Nat /\ at[i] \in Nat
    BY <1>1, <2>1
  <2> QED BY <2>1, <2>2, <2>3
<1>4. Nat \subseteq T
  <2> HIDE DEF T
  <2> QED BY <1>2, <1>3, Inductive
<1>5. j - i \in Nat /\ i + (j - i) = j
  BY <1>1
<1>6. j - i \in T
  BY <1>4, <1>5
<1> QED BY <1>1, <1>5, <1>6

\* Its frames are parts of it.
LEMMA StreamIsParts ==
    ASSUME NEW w, NEW n, NEW at, Stream(w, n, at)
    PROVE  Parts(w, n, at)
<1>1. \A i \in 1 .. n : at[i - 1] < at[i]
  <2> SUFFICES ASSUME NEW i \in 1 .. n PROVE at[i - 1] < at[i]
    OBVIOUS
  <2>1. n \in Nat /\ at \in [0 .. n -> Nat] /\ at[i - 1] + 6 <= at[i]
    BY DEF Stream
  <2>2. at[i - 1] \in Nat /\ at[i] \in Nat
    BY <2>1
  <2> QED BY <2>1, <2>2
<1> QED BY <1>1 DEF Stream, Parts

\* One turn of the loop of secureOnTcpData on a stream: it takes the next frame when that
\* frame is complete, and nothing when it is not.
LEMMA StepOfStream ==
    ASSUME NEW w, NEW n, NEW at, Stream(w, n, at), NEW m \in Nat, m <= Len(w),
           NEW j \in 0 .. n, NEW q \in 0 .. n, j <= q, at[q] <= m
    PROVE  /\ Ended(n, at, m, q) => TcpStep(Seen(w, at, m, j, q)) = Seen(w, at, m, j, q)
           /\ ~Ended(n, at, m, q) => /\ q + 1 \in 0 .. n /\ at[q + 1] <= m
                                     /\ TcpStep(Seen(w, at, m, j, q)) = Seen(w, at, m, j, q + 1)
<1> DEFINE x == at[q]
           r == Sub(w, x, m)
           fs == FramesOf(w, at, j, q)
<1>1. /\ w \in Octets /\ n \in Nat /\ Len(w) \in Nat /\ at[n] = Len(w)
      /\ \A i \in 0 .. n : at[i] \in Nat /\ at[i] <= Len(w)
  BY StreamIsParts, PartsEnds
<1>2. x \in Nat /\ x <= m
  BY <1>1
<1>3. Seen(w, at, m, j, q) = [rest |-> r, frames |-> fs]
  BY DEF Seen
<1> HIDE DEF x
<1>4. r \in Octets /\ Len(r) = m - x
  BY <1>1, <1>2, SubIs
<1>5. ASSUME q # n
      PROVE  /\ q + 1 \in 0 .. n /\ at[q + 1] \in Nat /\ at[q + 1] <= Len(w) /\ x + 6 <= at[q + 1]
             /\ U16(w, x + 4) = at[q + 1] - x
  <2>1. q + 1 \in 1 .. n /\ q + 1 \in 0 .. n /\ q + 1 - 1 = q
    BY <1>1, <1>5
  <2>2. at[q + 1 - 1] + 6 <= at[q + 1] /\ U16(w, at[q + 1 - 1] + 4) = at[q + 1] - at[q + 1 - 1]
    BY <2>1 DEF Stream
  <2> QED BY <1>1, <2>1, <2>2 DEF x
<1>6. ASSUME 6 <= m - x PROVE U16(r, 4) = U16(w, x + 4)
  <2>1. 4 \in Nat /\ 4 + 2 <= m - x
    BY <1>2, <1>6
  <2> QED BY <1>1, <1>2, <2>1, SubWord
<1> HIDE DEF r, fs
<1> DEFINE s == [rest |-> r, frames |-> fs]
           total == U16(r, 4)
<1>7. s.rest = r /\ s.frames = fs
  OBVIOUS
<1>8. TcpStep(s) = IF Len(r) < 6 THEN s
                   ELSE IF Len(r) < total THEN s
                   ELSE [rest |-> Sub(r, total, Len(r)), frames |-> Append(fs, Sub(r, 0, total))]
  BY <1>7 DEF TcpStep
<1> HIDE DEF s, total
<1>9. ASSUME Ended(n, at, m, q) PROVE TcpStep(s) = s
  <2>1. q = n \/ m < at[q + 1]
    BY <1>9 DEF Ended
  <2>2. CASE Len(r) < 6
    BY <1>8, <2>2
  <2>3. CASE ~(Len(r) < 6)
    <3>1. 6 <= m - x
      BY <1>2, <1>4, <2>3
    <3>2. q # n
      BY <1>1, <3>1, <1>2 DEF x
    <3>3. total = at[q + 1] - x
      BY <1>5, <1>6, <3>1, <3>2 DEF total
    <3>4. Len(r) < total
      BY <1>2, <1>4, <1>5, <2>1, <3>2, <3>3
    <3> QED BY <1>8, <2>3, <3>4
  <2> QED BY <2>2, <2>3
<1>10. ASSUME ~Ended(n, at, m, q)
       PROVE  /\ q + 1 \in 0 .. n /\ at[q + 1] <= m
              /\ TcpStep(s) = Seen(w, at, m, j, q + 1)
  <2> DEFINE y == at[q + 1]
  <2>1. q # n /\ ~(m < y)
    BY <1>2, <1>10 DEF Ended, x
  <2>2. q + 1 \in 0 .. n /\ y \in Nat /\ y <= m /\ x + 6 <= y /\ U16(w, x + 4) = y - x
    BY <1>5, <2>1
  <2> HIDE DEF y
  <2>3. 6 <= m - x /\ ~(Len(r) < 6)
    BY <1>2, <1>4, <2>2
  <2>4. total = y - x
    BY <1>6, <2>2, <2>3 DEF total
  <2>5. ~(Len(r) < total)
    BY <1>2, <1>4, <2>2, <2>4
  <2>6. TcpStep(s) = [rest |-> Sub(r, total, Len(r)), frames |-> Append(fs, Sub(r, 0, total))]
    BY <1>8, <2>3, <2>5
  <2>7. Sub(r, total, Len(r)) = Sub(w, y, m)
    <3>1. /\ y - x \in Nat /\ m - x \in Nat /\ y - x <= m - x
          /\ x + (y - x) = y /\ x + (m - x) = m
      BY <1>2, <2>2
    <3>2. Sub(Sub(w, x, m), y - x, m - x) = Sub(w, x + (y - x), x + (m - x))
      BY <1>1, <1>2, <3>1, SubOfSub
    <3> QED BY <1>4, <2>4, <3>1, <3>2 DEF r
  <2>8. Sub(r, 0, total) = Sub(w, x, y)
    <3>1. y - x \in Nat /\ 0 <= y - x /\ y - x <= m - x /\ x + (y - x) = y /\ x + 0 = x
      BY <1>2, <2>2
    <3>2. Sub(Sub(w, x, m), 0, y - x) = Sub(w, x + 0, x + (y - x))
      BY <1>1, <1>2, <3>1, SubOfSub
    <3> QED BY <2>4, <3>1, <3>2 DEF r
  <2>9. Append(fs, Sub(w, x, y)) = FramesOf(w, at, j, q + 1)
    <3> DEFINE F(i) == Sub(w, at[j + i - 1], at[j + i])
               size == q - j
    <3>1. size \in Nat /\ q + 1 - j = size + 1 /\ j + (size + 1) - 1 = q /\ j + (size + 1) = q + 1
      BY <1>1
    <3>2. F(size + 1) = Sub(w, x, y)
      BY <3>1 DEF x, y
    <3>3. fs = [i \in 1 .. size |-> F(i)]
      BY DEF fs, FramesOf
    <3>4. FramesOf(w, at, j, q + 1) = [i \in 1 .. size + 1 |-> F(i)]
      BY <3>1 DEF FramesOf
    <3> HIDE DEF F, size
    <3>5. Append([i \in 1 .. size |-> F(i)], F(size + 1)) = [i \in 1 .. size + 1 |-> F(i)]
      BY <3>1
    <3> QED BY <3>2, <3>3, <3>4, <3>5
  <2>10. TcpStep(s) = Seen(w, at, m, j, q + 1)
    BY <2>6, <2>7, <2>8, <2>9 DEF Seen, y
  <2> QED BY <2>2, <2>10 DEF y
<1> QED BY <1>3, <1>9, <1>10 DEF s

\* One chunk: the octets up to the l-th are there, and the chunk brings those up to the m-th.
LEMMA ChunkOfStream ==
    ASSUME NEW w, NEW n, NEW at, Stream(w, n, at), NEW j \in 0 .. n,
           NEW l \in Nat, NEW m \in Nat, at[j] <= l, l <= m, m <= Len(w)
    PROVE  \E k \in j .. n : /\ Ended(n, at, m, k)
                             /\ TcpFrames(Sub(w, at[j], l) \o Sub(w, l, m)) = Seen(w, at, m, j, k)
<1> DEFINE x == at[j]
           b == Sub(w, x, l) \o Sub(w, l, m)
           size == Len(b) \div 6
           S(q) == Seen(w, at, m, j, q)
           a == [rest |-> b, frames |-> <<>>]
           V == {S(q) : q \in {q \in 0 .. n : j <= q /\ at[q] <= m}}
           f == [i \in 1 .. size |-> [v \in V |-> TcpStep(v)]]
           next(g, i) == IF i = 0 THEN a ELSE TcpStep(g[i - 1])
           h == CHOOSE g : g = [i \in 0 .. size |-> next(g, i)]
<1>0. \A i \in 0 .. n, k \in 0 .. n : i <= k => at[i] + 6 * (k - i) <= at[k]
  BY StreamOrder
<1>1. /\ w \in Octets /\ n \in Nat /\ Len(w) \in Nat
      /\ \A i \in 0 .. n : at[i] \in Nat /\ at[i] <= Len(w)
  BY StreamIsParts, PartsEnds
<1>2. x \in Nat /\ x <= m /\ x <= l
  BY <1>1
<1>3. b = Sub(w, x, m) /\ Len(b) = m - x
  <2> HIDE DEF x
  <2>1. b = Sub(w, x, m)
    BY <1>1, <1>2, SubJoined
  <2> HIDE DEF b
  <2>2. Len(Sub(w, x, m)) = m - x
    BY <1>1, <1>2, SubIs
  <2> QED BY <2>1, <2>2
<1>4. size \in Nat /\ m - x < 6 * (size + 1)
  <2> DEFINE len == m - x
  <2>1. len \in Nat
    BY <1>2
  <2>2. size = len \div 6
    BY <1>3
  <2> HIDE DEF len, size
  <2>3. size \in Nat /\ len < 6 * (size + 1)
    BY <2>1, <2>2
  <2> QED BY <2>3 DEF len
<1>5. a = S(j)
  <2>1. j - j = 0
    BY <1>1
  <2>2. FramesOf(w, at, j, j) = <<>>
    BY <2>1 DEF FramesOf
  <2> QED BY <1>3, <2>2 DEF Seen
<1>6. \A q \in 0 .. n : j <= q /\ at[q] <= m =>
        /\ Ended(n, at, m, q) => TcpStep(S(q)) = S(q)
        /\ ~Ended(n, at, m, q) => q + 1 \in 0 .. n /\ at[q + 1] <= m /\ TcpStep(S(q)) = S(q + 1)
  BY StepOfStream
<1>7. a \in V
  <2>1. j \in {q \in 0 .. n : j <= q /\ at[q] <= m}
    BY <1>2
  <2> HIDE DEF a, S
  <2> QED BY <1>5, <2>1
<1> HIDE DEF b, a, S, size
<1>8. f \in [1 .. size -> [V -> V]]
  <2> SUFFICES ASSUME NEW v \in V PROVE TcpStep(v) \in V
    OBVIOUS
  <2>1. PICK q \in 0 .. n : j <= q /\ at[q] <= m /\ v = S(q)
    OBVIOUS
  <2>2. CASE Ended(n, at, m, q)
    BY <1>6, <2>1, <2>2
  <2>3. CASE ~Ended(n, at, m, q)
    <3>1. q + 1 \in 0 .. n /\ at[q + 1] <= m /\ TcpStep(v) = S(q + 1) /\ j <= q + 1
      BY <1>1, <1>6, <2>1, <2>3
    <3> QED BY <3>1
  <2> QED BY <2>2, <2>3
<1>a. PICK g : IsRun(g, size, V, a, f)
  <2> HIDE DEF V, f
  <2> QED BY <1>4, <1>7, <1>8, Iterated
<1>9. g \in [0 .. size -> V] /\ g[0] = a /\ \A i \in 1 .. size : g[i] = f[i][g[i - 1]]
  <2> HIDE DEF V, f
  <2> QED BY <1>a DEF IsRun
<1>10. g = [i \in 0 .. size |-> next(g, i)]
  <2>1. ASSUME NEW i \in 0 .. size PROVE g[i] = next(g, i)
    <3>1. CASE i = 0
      BY <1>9, <3>1
    <3>2. CASE i # 0
      <4>1. i \in 1 .. size /\ i - 1 \in 0 .. size
        BY <1>4, <3>2
      <4>2. g[i - 1] \in V /\ g[i] = f[i][g[i - 1]]
        <5> HIDE DEF V, f
        <5> QED BY <1>9, <4>1
      <4>3. f[i][g[i - 1]] = TcpStep(g[i - 1])
        <5> HIDE DEF V
        <5>1. f[i] = [v \in V |-> TcpStep(v)]
          BY <4>1
        <5> HIDE DEF f
        <5> QED BY <4>2, <5>1
      <4> HIDE DEF f, V
      <4> QED BY <3>2, <4>2, <4>3
    <3> QED BY <3>1, <3>2
  <2> HIDE DEF V, f, next
  <2> QED BY <1>9, <2>1
<1>11. h = [i \in 0 .. size |-> next(h, i)]
  <2> HIDE DEF next
  <2> QED BY <1>10
<1>12. TcpFrames(b) = h[size]
  BY DEF TcpFrames, b, a, size
<1> HIDE DEF h, V, f
<1>13. h[0] = a /\ \A i \in 1 .. size : h[i] = TcpStep(h[i - 1])
  <2>1. h[0] = a
    <3>1. 0 \in 0 .. size
      BY <1>4
    <3> QED BY <1>11, <3>1
  <2>2. ASSUME NEW i \in 1 .. size PROVE h[i] = TcpStep(h[i - 1])
    <3>1. i \in 0 .. size /\ i # 0
      BY <1>4
    <3> QED BY <1>11, <3>1
  <2> QED BY <2>1, <2>2
<1> DEFINE F == [q \in 0 .. n |-> S(q)]
<1>14. \A q \in 0 .. n : F[q] = S(q)
  OBVIOUS
<1> HIDE DEF F
<1>15. \A i \in 1 .. size, q \in 0 .. n : j <= q /\ at[q] <= m /\ h[i - 1] = F[q] =>
           /\ Ended(n, at, m, q) => h[i] = F[q]
           /\ ~Ended(n, at, m, q) => q + 1 \in 0 .. n /\ at[q + 1] <= m /\ h[i] = F[q + 1]
  BY <1>6, <1>13, <1>14
<1>16. ASSUME NEW q \in 0 .. n, j <= q, at[q] <= m PROVE q - j <= size
  <2>1. at[j] + 6 * (q - j) <= at[q] /\ at[q] \in Nat /\ q - j \in Nat
    BY <1>0, <1>1, <1>16
  <2> DEFINE d == q - j
  <2>2. x + 6 * d <= m
    BY <1>1, <1>2, <1>16, <2>1
  <2>3. d \in Nat
    BY <2>1
  <2> HIDE DEF d
  <2>4. d <= size
    BY <1>2, <1>4, <2>2, <2>3
  <2> QED BY <2>4 DEF d
<1>17. PICK q \in j .. n : Ended(n, at, m, q) /\ at[q] <= m /\ h[size] = F[q]
  <2>1. Parts(w, n, at) /\ h[0] = F[j] /\ at[j] <= m
    BY <1>2, <1>5, <1>13, <1>14, StreamIsParts
  <2> HIDE DEF x
  <2>2. Turns(n, at, m, j, F, h, size)
    BY <1>15, <2>1 DEF Turns
  <2>3. Enough(n, at, m, j, size)
    BY <1>16 DEF Enough
  <2>4. size \in Nat /\ m \in Nat /\ j \in 0 .. n
    BY <1>4
  <2> HIDE DEF size
  <2> QED BY ONLY <2>1, <2>2, <2>3, <2>4, RunToEnd
<1>18. TcpFrames(b) = Seen(w, at, m, j, q)
  BY <1>1, <1>12, <1>14, <1>17 DEF S
<1> QED BY <1>17, <1>18 DEF b, x

\* A stream of frames cut anywhere: after every chunk that TunnelTCP receives, the frames
\* handed out for it are those that end in it, whole and in order, and the buffer keeps the
\* octets after them; after the last chunk every frame is out and the buffer is empty.
THEOREM StreamIsRecovered ==
    ASSUME NEW w, NEW n, NEW at, Stream(w, n, at),
           NEW chunks, NEW cut, Chunked(w, chunks, cut),
           NEW states, states[0] = [rest |-> <<>>, frames |-> <<>>],
           \A i \in 1 .. chunks : states[i] = TcpFrames(states[i - 1].rest \o Sub(w, cut[i - 1], cut[i]))
    PROVE  /\ \A i \in 1 .. chunks :
                states[i] = Seen(w, at, cut[i], Whole(n, at, cut[i - 1]), Whole(n, at, cut[i]))
           /\ Whole(n, at, cut[0]) = 0 /\ Whole(n, at, cut[chunks]) = n
           /\ states[chunks].rest = <<>>
<1> DEFINE K(i) == Whole(n, at, cut[i])
           left == [i \in 0 .. chunks |-> states[i].rest]
<1>0. chunks \in Nat /\ cut \in [0 .. chunks -> Nat]
  BY DEF Chunked
<1>1. Parts(w, n, at)
  BY StreamIsParts
<1>2. ASSUME NEW i \in 1 .. chunks, NEW j \in 0 .. n, at[j] <= cut[i - 1], cut[i - 1] <= cut[i],
             cut[i] <= Len(w), states[i - 1].rest = Sub(w, at[j], cut[i - 1])
      PROVE  \E k \in j .. n : Ended(n, at, cut[i], k) /\ states[i] = Seen(w, at, cut[i], j, k)
  <2> DEFINE l == cut[i - 1]
             m == cut[i]
  <2>1. l \in Nat /\ m \in Nat /\ at[j] <= l /\ l <= m /\ m <= Len(w)
    BY <1>0, <1>2
  <2>2. states[i] = TcpFrames(Sub(w, at[j], l) \o Sub(w, l, m))
    BY <1>2
  <2> HIDE DEF l, m
  <2>3. PICK k \in j .. n : /\ Ended(n, at, m, k)
                            /\ TcpFrames(Sub(w, at[j], l) \o Sub(w, l, m)) = Seen(w, at, m, j, k)
    BY <2>1, ChunkOfStream
  <2> QED BY <2>2, <2>3 DEF m
<1>3. \A i \in 1 .. chunks : LeavesPart(w, n, at, cut, left, i)
  <2> SUFFICES ASSUME NEW i \in 1 .. chunks, NEW j \in 0 .. n, at[j] <= cut[i - 1],
                      cut[i - 1] <= cut[i], cut[i] <= Len(w),
                      left[i - 1] = Sub(w, at[j], cut[i - 1])
               PROVE  \E k \in j .. n : Ended(n, at, cut[i], k) /\ left[i] = Sub(w, at[k], cut[i])
    BY DEF LeavesPart
  <2>1. left[i] = states[i].rest /\ left[i - 1] = states[i - 1].rest
    BY <1>0
  <2> HIDE DEF left
  <2>2. PICK k \in j .. n : Ended(n, at, cut[i], k) /\ states[i] = Seen(w, at, cut[i], j, k)
    BY <1>2, <2>1
  <2> QED BY <2>1, <2>2 DEF Seen
<1>4. left[0] = <<>> /\ left[chunks] = states[chunks].rest
  BY <1>0
<1> HIDE DEF left
<1>5. /\ \A i \in 0 .. chunks : /\ cut[i] <= Len(w) /\ Ended(n, at, cut[i], K(i))
                                /\ left[i] = Sub(w, at[K(i)], cut[i])
      /\ K(0) = 0 /\ K(chunks) = n /\ left[chunks] = <<>>
  <2>1. Recovered(w, n, at, chunks, cut, left)
    BY <1>1, <1>3, <1>4, CutAnywhere
  <2> QED BY <2>1 DEF Recovered, HasPart
<1>6. ASSUME NEW i \in 1 .. chunks PROVE states[i] = Seen(w, at, cut[i], K(i - 1), K(i))
  <2> DEFINE j == K(i - 1)
  <2>1. i - 1 \in 0 .. chunks /\ i \in 0 .. chunks
    BY <1>0
  <2>2. j \in 0 .. n /\ at[j] <= cut[i - 1] /\ left[i - 1] = Sub(w, at[j], cut[i - 1])
    BY <1>5, <2>1 DEF Ended
  <2>3. left[i - 1] = states[i - 1].rest /\ cut[i] <= Len(w) /\ cut[i] \in Nat
    BY <1>0, <1>5, <2>1 DEF left
  <2> HIDE DEF j
  <2>4. PICK k \in j .. n : Ended(n, at, cut[i], k) /\ states[i] = Seen(w, at, cut[i], j, k)
    <3>1. cut[i - 1] <= cut[i]
      BY DEF Chunked
    <3> QED BY <1>2, <2>2, <2>3, <3>1
  <2>5. K(i) = k
    BY <1>1, <2>3, <2>4, WholeIs
  <2> QED BY <2>4, <2>5 DEF j
<1> QED BY <1>4, <1>5, <1>6

-----------------------------------------------------------------------------
(* The line of SerialFT12 *)

\* A line w of n units, the i-th from at[i - 1] to at[i]; each is as long as its head says.
Line(w, n, at) ==
    /\ Parts(w, n, at)
    /\ \A i \in 1 .. n : LineSize(Sub(w, at[i - 1], at[i])) = at[i] - at[i - 1]

\* What has been read off a line, and what a unit adds to it.
Tellings == [frames : Seq(Octets), acks : Nat, sent : Nat]

Nothing == [frames |-> <<>>, acks |-> 0, sent |-> 0]

Plus(r, unit) == [frames |-> r.frames \o unit.frames, acks |-> r.acks + unit.acks,
                  sent |-> r.sent + unit.sent]

\* What the units after the j-th are, the first d of them.
Told(w, n, at, j) ==
    LET told[d \in 0 .. n - j] ==
            IF d = 0 THEN Nothing
            ELSE Plus(told[d - 1], LineUnit(Sub(w, at[j + d - 1], at[j + d])))
    IN  told

\* What is left of the first m octets when the units after the j-th, to the q-th, are read.
LineSeen(w, n, at, m, j, q) ==
    LET r == Told(w, n, at, j)[q - j]
    IN  [rest |-> Sub(w, at[q], m), frames |-> r.frames, acks |-> r.acks, sent |-> r.sent]

\* An octet of a buffer is a number.
LEMMA OctetAt ==
    ASSUME NEW b \in Octets, NEW i \in 1 .. Len(b)
    PROVE  b[i] \in Nat
<1>1. b[i] \in Octet
  BY DEF Octets
<1>2. \A v \in Octet : v \in Nat
  BY DEF Octet
<1> QED BY <1>1, <1>2

\* How long a unit is can be told from the octets of it that are there, or they are too few.
LEMMA HeadOfLine ==
    ASSUME NEW b \in Octets, NEW x \in Nat, NEW y \in Nat, NEW m \in Nat,
           x < y, y <= Len(b), x < m, m <= Len(b), LineSize(Sub(b, x, y)) = y - x
    PROVE  /\ y <= m => LineSize(Sub(b, x, m)) = y - x
           /\ m < y => m - x < LineSize(Sub(b, x, m))
<1> DEFINE u == Sub(b, x, y)
           r == Sub(b, x, m)
           e == b[x + 1]
           len == b[x + 2]
<1>0. x <= y /\ x <= m
  OBVIOUS
<1>a. u \in Octets /\ Len(u) = y - x /\ \A i \in 1 .. y - x : u[i] = b[x + i]
  BY <1>0, SubIs
<1>b. r \in Octets /\ Len(r) = m - x /\ \A i \in 1 .. m - x : r[i] = b[x + i]
  BY <1>0, SubIs
<1>1. /\ u \in Octets /\ Len(u) = y - x /\ \A i \in 1 .. y - x : u[i] = b[x + i]
      /\ r \in Octets /\ Len(r) = m - x /\ \A i \in 1 .. m - x : r[i] = b[x + i]
  BY <1>a, <1>b
<1>2. Len(b) \in Nat
  BY DEF Octets
<1>3. u[1] = e /\ r[1] = e
  <2>1. 1 \in 1 .. y - x /\ 1 \in 1 .. m - x
    OBVIOUS
  <2> HIDE DEF u, r
  <2> QED BY <1>1, <2>1
<1>4. (2 <= y - x => u[2] = len) /\ (2 <= m - x => r[2] = len)
  <2> HIDE DEF u, r
  <2> QED BY <1>1
<1>5. x + 2 <= Len(b) => len \in Nat
  <2> SUFFICES ASSUME x + 2 <= Len(b) PROVE len \in Nat
    OBVIOUS
  <2>1. x + 2 \in 1 .. Len(b)
    BY <1>2
  <2> QED BY <2>1, OctetAt
<1>6. LineSize(u) = y - x
  OBVIOUS
<1> HIDE DEF u, r, e, len
<1> DEFINE s == LineSize(r)
<1>7. CASE e = 16
  <2>1. y - x = 4 /\ s = 4
    BY <1>3, <1>6, <1>7 DEF LineSize
  <2> HIDE DEF s
  <2> QED BY <2>1 DEF s, r
<1>8. CASE e = 104
  <2>1. /\ y - x = IF y - x < 6 THEN 6 ELSE u[2] + 6
        /\ s = IF m - x < 6 THEN 6 ELSE r[2] + 6
    BY <1>1, <1>3, <1>6, <1>8 DEF LineSize
  <2>2. ~(y - x < 6)
    BY <2>1
  <2>3. y - x = len + 6 /\ len \in Nat
    BY <1>2, <1>4, <1>5, <2>1, <2>2
  <2>4. s = IF m - x < 6 THEN 6 ELSE len + 6
    BY <1>4, <2>1
  <2> HIDE DEF s
  <2>5. /\ y <= m => s = y - x
        /\ m < y => m - x < s
    BY <2>2, <2>3, <2>4
  <2> QED BY <2>5 DEF s, r
<1>9. CASE e = 160
  <2>1. /\ y - x = IF y - x < 2 THEN 2 ELSE u[2] + 2
        /\ s = IF m - x < 2 THEN 2 ELSE r[2] + 2
    BY <1>1, <1>3, <1>6, <1>9 DEF LineSize
  <2>2. ~(y - x < 2)
    BY <2>1
  <2>3. y - x = len + 2 /\ len \in Nat
    BY <1>2, <1>4, <1>5, <2>1, <2>2
  <2>4. s = IF m - x < 2 THEN 2 ELSE len + 2
    BY <1>4, <2>1
  <2> HIDE DEF s
  <2>5. /\ y <= m => s = y - x
        /\ m < y => m - x < s
    BY <2>2, <2>3, <2>4
  <2> QED BY <2>5 DEF s, r
<1>10. CASE e # 16 /\ e # 104 /\ e # 160
  <2>1. y - x = 1 /\ s = 1
    BY <1>3, <1>6, <1>10 DEF LineSize
  <2> HIDE DEF s
  <2> QED BY <2>1 DEF s, r
<1> QED BY <1>7, <1>8, <1>9, <1>10

\* What a unit adds is some frames, and some acknowledgements.
LEMMA UnitAdds ==
    ASSUME NEW u \in Octets, LineSize(u) = Len(u), Len(u) > 0
    PROVE  LineUnit(u) \in Tellings
<1> DEFINE long == LongFramePayload(u)
           one == LineUnit(u)
<1>1. CASE u[1] = 104
  <2> DEFINE len == u[2]
             body == Sub(u, 4, 4 + len)
             bad  == \/ Len(u) < 8 \/ u[4] # 104 \/ u[3] # len
                     \/ u[Len(u)] # 22 \/ u[Len(u) - 1] # Checksum(body)
             cemi == IF bad \/ len = 1 THEN <<>>
                     ELSE IF body[2] = 240 THEN <<>> ELSE <<Tail(body)>>
  <2>1. long = [ack |-> ~bad, cemi |-> cemi]
    BY DEF LongFramePayload
  <2>2. one = [frames |-> long.cemi, acks |-> 0, sent |-> IF long.ack THEN 1 ELSE 0]
    BY <1>1 DEF LineUnit, ACK_BYTE
  <2>3. cemi \in Seq(Octets)
    <3>1. CASE bad
      BY <3>1
    <3>2. CASE ~bad
      <4>1. ~(Len(u) < 8)
        BY <3>2
      <4>a. Len(u) \in Nat /\ len \in Nat
        <5>1. Len(u) \in Nat
          BY DEF Octets
        <5>2. 2 \in 1 .. Len(u)
          BY <4>1, <5>1
        <5>3. len \in Nat
          BY <5>2, OctetAt
        <5> QED BY <5>1, <5>3
      <4> HIDE DEF bad
      <4>2. Len(u) = len + 6 /\ len \in Nat /\ Len(u) \in Nat
        <5>1. LineSize(u) = IF Len(u) < 6 THEN 6 ELSE len + 6
          BY <1>1 DEF LineSize
        <5> QED BY <4>1, <4>a, <5>1
      <4>3. 2 <= len /\ 4 <= 4 + len /\ 4 + len <= Len(u) /\ 4 + len - 4 = len /\ 4 + len \in Nat
        <5> HIDE DEF len
        <5> QED BY <4>1, <4>2
      <4> HIDE DEF len
      <4>4. body \in Octets /\ Len(body) = len
        <5> DEFINE z == 4 + len
        <5>1. z \in Nat /\ 4 <= z /\ z <= Len(u) /\ z - 4 = len
          BY <4>2, <4>3
        <5> HIDE DEF z
        <5>2. Sub(u, 4, z) \in Octets /\ Len(Sub(u, 4, z)) = z - 4
          BY <5>1, SubIs
        <5> QED BY <5>1, <5>2 DEF z
      <4> HIDE DEF body
      <4>5. Tail(body) \in Octets
        BY <4>3, <4>4 DEF Octets
      <4>6. <<Tail(body)>> \in Seq(Octets)
        BY <4>5
      <4> HIDE DEF bad
      <4> QED BY <4>6
    <3> HIDE DEF cemi, bad
    <3> QED BY <3>1, <3>2
  <2> HIDE DEF cemi, bad, one, long
  <2>4. one = [frames |-> cemi, acks |-> 0, sent |-> IF long.ack THEN 1 ELSE 0]
    BY <2>1, <2>2
  <2>5. (IF long.ack THEN 1 ELSE 0) \in Nat
    OBVIOUS
  <2> QED BY <2>3, <2>4, <2>5 DEF Tellings, one
<1>2. CASE u[1] # 104
  <2>1. one \in {[frames |-> <<>>, acks |-> 1, sent |-> 0], [frames |-> <<>>, acks |-> 0, sent |-> 1],
                 [frames |-> <<>>, acks |-> 0, sent |-> 0]}
    BY <1>2 DEF LineUnit, ACK_BYTE
  <2> HIDE DEF one
  <2>2. one \in Tellings
    <3> DEFINE none == <<>>
    <3>1. none \in Seq(Octets)
      OBVIOUS
    <3>2. one \in {[frames |-> none, acks |-> 1, sent |-> 0],
                   [frames |-> none, acks |-> 0, sent |-> 1],
                   [frames |-> none, acks |-> 0, sent |-> 0]}
      BY <2>1
    <3> HIDE DEF none
    <3>3. /\ [frames |-> none, acks |-> 1, sent |-> 0] \in Tellings
          /\ [frames |-> none, acks |-> 0, sent |-> 1] \in Tellings
          /\ [frames |-> none, acks |-> 0, sent |-> 0] \in Tellings
      BY <3>1 DEF Tellings
    <3> QED BY <3>2, <3>3
  <2> QED BY <2>2 DEF one
<1> QED BY <1>1, <1>2

\* What is told adds up unit by unit.
LEMMA ToldIs ==
    ASSUME NEW w, NEW n, NEW at, Line(w, n, at), NEW j \in 0 .. n
    PROVE  /\ Told(w, n, at, j)[0] = Nothing
           /\ \A d \in 1 .. n - j : Told(w, n, at, j)[d] =
                Plus(Told(w, n, at, j)[d - 1], LineUnit(Sub(w, at[j + d - 1], at[j + d])))
<1> DEFINE size == n - j
           U(d) == LineUnit(Sub(w, at[j + d - 1], at[j + d]))
           f == [i \in 1 .. size |-> [v \in Tellings |-> Plus(v, U(i))]]
           next(g, i) == IF i = 0 THEN Nothing ELSE Plus(g[i - 1], U(i))
           h == CHOOSE g : g = [i \in 0 .. size |-> next(g, i)]
<1>1. /\ w \in Octets /\ n \in Nat /\ size \in Nat
      /\ \A i \in 0 .. n : at[i] \in Nat /\ at[i] <= Len(w)
  BY PartsEnds DEF Line
<1>2. ASSUME NEW i \in 1 .. size PROVE U(i) \in Tellings
  <2> DEFINE k == j + i
             u == Sub(w, at[k - 1], at[k])
  <2>1. k \in 1 .. n /\ k \in 0 .. n /\ k - 1 \in 0 .. n /\ j + i - 1 = k - 1
    BY <1>1
  <2>2. U(i) = LineUnit(u)
    BY <2>1
  <2> HIDE DEF k
  <2>3. at[k - 1] < at[k] /\ LineSize(u) = at[k] - at[k - 1]
    BY <2>1 DEF Line, Parts
  <2>4. at[k - 1] \in Nat /\ at[k] \in Nat /\ at[k] <= Len(w) /\ at[k - 1] <= at[k]
    BY <1>1, <2>1, <2>3
  <2>5. u \in Octets /\ Len(u) = at[k] - at[k - 1]
    BY <1>1, <2>4, SubIs
  <2> HIDE DEF u
  <2>6. LineSize(u) = Len(u) /\ Len(u) > 0
    BY <2>3, <2>4, <2>5
  <2> HIDE DEF U
  <2> QED BY <2>2, <2>5, <2>6, UnitAdds
<1> HIDE DEF U
<1>3. \A v \in Tellings, u \in Tellings : Plus(v, u) \in Tellings
  BY DEF Plus, Tellings
<1>4. Nothing \in Tellings
  BY DEF Nothing, Tellings
<1>5. f \in [1 .. size -> [Tellings -> Tellings]]
  <2> HIDE DEF size
  <2> QED BY <1>2, <1>3
<1>6. PICK g : IsRun(g, size, Tellings, Nothing, f)
  <2> HIDE DEF size, f
  <2> QED BY <1>1, <1>4, <1>5, Iterated
<1>7. g \in [0 .. size -> Tellings] /\ g[0] = Nothing /\ \A i \in 1 .. size : g[i] = f[i][g[i - 1]]
  <2> HIDE DEF size, f
  <2> QED BY <1>6 DEF IsRun
<1> HIDE DEF size
<1>8. g = [i \in 0 .. size |-> next(g, i)]
  <2>1. ASSUME NEW i \in 0 .. size PROVE g[i] = next(g, i)
    <3>1. CASE i = 0
      BY <1>7, <3>1
    <3>2. CASE i # 0
      <4>1. i \in 1 .. size /\ i - 1 \in 0 .. size
        BY <1>1, <3>2
      <4>2. g[i - 1] \in Tellings /\ g[i] = f[i][g[i - 1]]
        <5> HIDE DEF f
        <5> QED BY <1>7, <4>1
      <4>3. f[i][g[i - 1]] = Plus(g[i - 1], U(i))
        <5>1. f[i] = [v \in Tellings |-> Plus(v, U(i))]
          BY <4>1
        <5> HIDE DEF f
        <5> QED BY <4>2, <5>1
      <4> HIDE DEF f
      <4> QED BY <3>2, <4>2, <4>3
    <3> QED BY <3>1, <3>2
  <2> HIDE DEF f, next
  <2> QED BY <1>7, <2>1
<1>9. h = [i \in 0 .. size |-> next(h, i)]
  <2> HIDE DEF next
  <2> QED BY <1>8
<1>10. Told(w, n, at, j) = h
  BY DEF Told, h, U, size
<1> HIDE DEF h
<1>11. h[0] = Nothing
  <2>1. 0 \in 0 .. size
    BY <1>1
  <2> QED BY <1>9, <2>1
<1>12. ASSUME NEW d \in 1 .. size PROVE h[d] = Plus(h[d - 1], U(d))
  <2>1. d \in 0 .. size /\ d # 0
    BY <1>1
  <2> QED BY <1>9, <2>1
<1> QED BY <1>10, <1>11, <1>12 DEF U, size

\* One turn of the loop of handleChunk on a line: it takes the next unit when that unit is
\* complete, and nothing when it is not.
LEMMA StepOfLine ==
    ASSUME NEW w, NEW n, NEW at, Line(w, n, at), NEW m \in Nat, m <= Len(w),
           NEW j \in 0 .. n, NEW q \in 0 .. n, j <= q, at[q] <= m
    PROVE  /\ Ended(n, at, m, q) => LineStep(LineSeen(w, n, at, m, j, q)) = LineSeen(w, n, at, m, j, q)
           /\ ~Ended(n, at, m, q) =>
                /\ q + 1 \in 0 .. n /\ at[q + 1] <= m
                /\ LineStep(LineSeen(w, n, at, m, j, q)) = LineSeen(w, n, at, m, j, q + 1)
<1> DEFINE x == at[q]
           b == Sub(w, x, m)
           e == Told(w, n, at, j)[q - j]
           s == LineSeen(w, n, at, m, j, q)
           y == at[q + 1]
           u == Sub(w, x, y)
           size == LineSize(b)
<1>1. /\ w \in Octets /\ n \in Nat /\ Len(w) \in Nat /\ at[n] = Len(w)
      /\ \A i \in 0 .. n : at[i] \in Nat /\ at[i] <= Len(w)
  BY PartsEnds DEF Line
<1>2. x \in Nat /\ x <= m
  BY <1>1
<1>3. s = [rest |-> b, frames |-> e.frames, acks |-> e.acks, sent |-> e.sent]
  BY DEF LineSeen
<1>4. b \in Octets /\ Len(b) = m - x
  BY <1>1, <1>2, SubIs
<1>5. b = <<>> <=> m = x
  <2> HIDE DEF b
  <2> QED BY <1>2, <1>4 DEF Octets
<1>6. ASSUME q # n
      PROVE  /\ q + 1 \in 0 .. n /\ y \in Nat /\ y <= Len(w) /\ x < y /\ LineSize(u) = y - x
  <2>1. q + 1 \in 1 .. n /\ q + 1 \in 0 .. n /\ q + 1 - 1 = q
    BY <1>1, <1>6
  <2>2. at[q + 1 - 1] < at[q + 1] /\ LineSize(Sub(w, at[q + 1 - 1], at[q + 1])) = at[q + 1] - at[q + 1 - 1]
    BY <2>1 DEF Line, Parts
  <2> QED BY <1>1, <2>1, <2>2
<1>7. ASSUME q # n, x < m
      PROVE  /\ y <= m => size = y - x
             /\ m < y => m - x < size
  <2> HIDE DEF x, y
  <2> QED BY <1>1, <1>2, <1>6, <1>7, HeadOfLine
<1> HIDE DEF b, e, size
<1>8. s.rest = b /\ s.frames = e.frames /\ s.acks = e.acks /\ s.sent = e.sent
  BY <1>3
<1> HIDE DEF s
<1>9. /\ b = <<>> => LineStep(s) = s
      /\ b # <<>> /\ Len(b) < size => LineStep(s) = s
      /\ b # <<>> /\ ~(Len(b) < size) =>
           LineStep(s) = [rest |-> Sub(b, size, Len(b)),
                          frames |-> e.frames \o LineUnit(Sub(b, 0, size)).frames,
                          acks |-> e.acks + LineUnit(Sub(b, 0, size)).acks,
                          sent |-> e.sent + LineUnit(Sub(b, 0, size)).sent]
  BY <1>8 DEF LineStep, size
<1>10. ASSUME Ended(n, at, m, q) PROVE LineStep(s) = s
  <2>1. q = n \/ m < y
    BY <1>10 DEF Ended
  <2>2. CASE m = x
    BY <1>5, <1>9, <2>2
  <2>3. CASE m # x
    <3>1. x < m
      BY <1>2, <2>3
    <3>2. q # n
      BY <1>1, <3>1, <1>2
    <3>3. Len(b) < size
      BY <1>4, <1>7, <2>1, <3>1, <3>2
    <3> QED BY <1>5, <1>9, <2>3, <3>3
  <2> QED BY <2>2, <2>3
<1>11. ASSUME ~Ended(n, at, m, q)
       PROVE  /\ q + 1 \in 0 .. n /\ at[q + 1] <= m
              /\ LineStep(s) = LineSeen(w, n, at, m, j, q + 1)
  <2>1. q # n /\ ~(m < y)
    BY <1>2, <1>11 DEF Ended
  <2>2. q + 1 \in 0 .. n /\ y \in Nat /\ x < y /\ y <= m
    BY <1>6, <2>1
  <2> HIDE DEF x, y
  <2>3. size = y - x
    BY <1>2, <1>7, <2>1, <2>2
  <2>4. b # <<>> /\ ~(Len(b) < size)
    BY <1>2, <1>4, <1>5, <2>2, <2>3
  <2>5. Sub(b, size, Len(b)) = Sub(w, y, m)
    <3>1. /\ y - x \in Nat /\ m - x \in Nat /\ y - x <= m - x /\ m - x <= m - x
          /\ x + (y - x) = y /\ x + (m - x) = m
      BY <1>2, <2>2
    <3>2. Sub(Sub(w, x, m), y - x, m - x) = Sub(w, x + (y - x), x + (m - x))
      BY <1>1, <1>2, <3>1, SubOfSub
    <3> QED BY <1>4, <2>3, <3>1, <3>2 DEF b
  <2>6. Sub(b, 0, size) = u
    <3>1. y - x \in Nat /\ 0 <= y - x /\ y - x <= m - x /\ x + (y - x) = y /\ x + 0 = x
      BY <1>2, <2>2
    <3>2. Sub(Sub(w, x, m), 0, y - x) = Sub(w, x + 0, x + (y - x))
      BY <1>1, <1>2, <3>1, SubOfSub
    <3> QED BY <2>3, <3>1, <3>2 DEF b
  <2> DEFINE v == LineUnit(u)
             d == q + 1 - j
             t == Told(w, n, at, j)[d]
  <2>7. t = Plus(e, v)
    <3>1. d \in 1 .. n - j /\ d - 1 = q - j /\ j + d - 1 = q /\ j + d = q + 1
      BY <1>1, <2>2
    <3>2. t = Plus(Told(w, n, at, j)[d - 1], LineUnit(Sub(w, at[j + d - 1], at[j + d])))
      <4> HIDE DEF d
      <4> QED BY <3>1, ToldIs
    <3> QED BY <3>1, <3>2 DEF e, x, y
  <2> HIDE DEF v, t, u
  <2>8. t.frames = e.frames \o v.frames /\ t.acks = e.acks + v.acks /\ t.sent = e.sent + v.sent
    BY <2>7 DEF Plus
  <2>9. LineStep(s) = [rest |-> Sub(w, y, m), frames |-> t.frames, acks |-> t.acks, sent |-> t.sent]
    BY <1>9, <2>4, <2>5, <2>6, <2>8 DEF v
  <2>10. LineSeen(w, n, at, m, j, q + 1) =
            [rest |-> Sub(w, y, m), frames |-> t.frames, acks |-> t.acks, sent |-> t.sent]
    BY DEF LineSeen, t, y
  <2> QED BY <2>2, <2>9, <2>10 DEF y
<1> QED BY <1>10, <1>11 DEF s

\* One chunk: the octets up to the l-th are there, and the chunk brings those up to the m-th.
LEMMA ChunkOfLine ==
    ASSUME NEW w, NEW n, NEW at, Line(w, n, at), NEW j \in 0 .. n,
           NEW l \in Nat, NEW m \in Nat, at[j] <= l, l <= m, m <= Len(w)
    PROVE  \E k \in j .. n :
              /\ Ended(n, at, m, k)
              /\ LineFrames(Sub(w, at[j], l) \o Sub(w, l, m)) = LineSeen(w, n, at, m, j, k)
<1> DEFINE x == at[j]
           b == Sub(w, x, l) \o Sub(w, l, m)
           size == Len(b)
           S(q) == LineSeen(w, n, at, m, j, q)
           a == [rest |-> b, frames |-> <<>>, acks |-> 0, sent |-> 0]
           V == {S(q) : q \in {q \in 0 .. n : j <= q /\ at[q] <= m}}
           f == [i \in 1 .. size |-> [v \in V |-> LineStep(v)]]
           next(g, i) == IF i = 0 THEN a ELSE LineStep(g[i - 1])
           h == CHOOSE g : g = [i \in 0 .. size |-> next(g, i)]
<1>0. Parts(w, n, at) /\ \A i \in 0 .. n, k \in 0 .. n : i <= k => at[i] + (k - i) <= at[k]
  BY PartsOrder DEF Line
<1>1. /\ w \in Octets /\ n \in Nat /\ Len(w) \in Nat
      /\ \A i \in 0 .. n : at[i] \in Nat /\ at[i] <= Len(w)
  BY <1>0, PartsEnds
<1>2. x \in Nat /\ x <= m /\ x <= l
  BY <1>1
<1>3. b = Sub(w, x, m) /\ size = m - x
  <2> HIDE DEF x
  <2>1. b = Sub(w, x, m)
    BY <1>1, <1>2, SubJoined
  <2> HIDE DEF b
  <2>2. Len(Sub(w, x, m)) = m - x
    BY <1>1, <1>2, SubIs
  <2> QED BY <2>1, <2>2
<1>4. size \in Nat
  BY <1>2, <1>3
<1>5. a = S(j)
  <2>1. j - j = 0
    BY <1>1
  <2>2. Told(w, n, at, j)[j - j] = Nothing
    BY <2>1, ToldIs
  <2> DEFINE r == Told(w, n, at, j)[j - j]
  <2>3. r.frames = <<>> /\ r.acks = 0 /\ r.sent = 0
    BY <2>2 DEF Nothing
  <2>4. S(j) = [rest |-> Sub(w, x, m), frames |-> r.frames, acks |-> r.acks, sent |-> r.sent]
    BY DEF LineSeen
  <2> HIDE DEF r
  <2> QED BY <1>3, <2>3, <2>4
<1>6. \A q \in 0 .. n : j <= q /\ at[q] <= m =>
        /\ Ended(n, at, m, q) => LineStep(S(q)) = S(q)
        /\ ~Ended(n, at, m, q) => q + 1 \in 0 .. n /\ at[q + 1] <= m /\ LineStep(S(q)) = S(q + 1)
  BY StepOfLine
<1>7. a \in V
  <2>1. j \in {q \in 0 .. n : j <= q /\ at[q] <= m}
    BY <1>2
  <2> HIDE DEF a, S
  <2> QED BY <1>5, <2>1
<1> HIDE DEF b, a, S, size
<1>8. f \in [1 .. size -> [V -> V]]
  <2> SUFFICES ASSUME NEW v \in V PROVE LineStep(v) \in V
    OBVIOUS
  <2>1. PICK q \in 0 .. n : j <= q /\ at[q] <= m /\ v = S(q)
    OBVIOUS
  <2>2. CASE Ended(n, at, m, q)
    BY <1>6, <2>1, <2>2
  <2>3. CASE ~Ended(n, at, m, q)
    <3>1. q + 1 \in 0 .. n /\ at[q + 1] <= m /\ LineStep(v) = S(q + 1) /\ j <= q + 1
      BY <1>1, <1>6, <2>1, <2>3
    <3> QED BY <3>1
  <2> QED BY <2>2, <2>3
<1>a. PICK g : IsRun(g, size, V, a, f)
  <2> HIDE DEF V, f
  <2> QED BY <1>4, <1>7, <1>8, Iterated
<1>9. g \in [0 .. size -> V] /\ g[0] = a /\ \A i \in 1 .. size : g[i] = f[i][g[i - 1]]
  <2> HIDE DEF V, f
  <2> QED BY <1>a DEF IsRun
<1>10. g = [i \in 0 .. size |-> next(g, i)]
  <2>1. ASSUME NEW i \in 0 .. size PROVE g[i] = next(g, i)
    <3>1. CASE i = 0
      BY <1>9, <3>1
    <3>2. CASE i # 0
      <4>1. i \in 1 .. size /\ i - 1 \in 0 .. size
        BY <1>4, <3>2
      <4>2. g[i - 1] \in V /\ g[i] = f[i][g[i - 1]]
        <5> HIDE DEF V, f
        <5> QED BY <1>9, <4>1
      <4>3. f[i][g[i - 1]] = LineStep(g[i - 1])
        <5> HIDE DEF V
        <5>1. f[i] = [v \in V |-> LineStep(v)]
          BY <4>1
        <5> HIDE DEF f
        <5> QED BY <4>2, <5>1
      <4> HIDE DEF f, V
      <4> QED BY <3>2, <4>2, <4>3
    <3> QED BY <3>1, <3>2
  <2> HIDE DEF V, f, next
  <2> QED BY <1>9, <2>1
<1>11. h = [i \in 0 .. size |-> next(h, i)]
  <2> HIDE DEF next
  <2> QED BY <1>10
<1>12. LineFrames(b) = h[size]
  BY DEF LineFrames, b, a, size
<1> HIDE DEF h, V, f
<1>13. h[0] = a /\ \A i \in 1 .. size : h[i] = LineStep(h[i - 1])
  <2>1. h[0] = a
    <3>1. 0 \in 0 .. size
      BY <1>4
    <3> QED BY <1>11, <3>1
  <2>2. ASSUME NEW i \in 1 .. size PROVE h[i] = LineStep(h[i - 1])
    <3>1. i \in 0 .. size /\ i # 0
      BY <1>4
    <3> QED BY <1>11, <3>1
  <2> QED BY <2>1, <2>2
<1> DEFINE F == [q \in 0 .. n |-> S(q)]
<1>14. \A q \in 0 .. n : F[q] = S(q)
  OBVIOUS
<1> HIDE DEF F
<1>15. \A i \in 1 .. size, q \in 0 .. n : j <= q /\ at[q] <= m /\ h[i - 1] = F[q] =>
           /\ Ended(n, at, m, q) => h[i] = F[q]
           /\ ~Ended(n, at, m, q) => q + 1 \in 0 .. n /\ at[q + 1] <= m /\ h[i] = F[q + 1]
  BY <1>6, <1>13, <1>14
<1>16. ASSUME NEW q \in 0 .. n, j <= q, at[q] <= m PROVE q - j <= size
  <2>1. at[j] + (q - j) <= at[q] /\ at[q] \in Nat /\ q - j \in Nat
    BY <1>0, <1>1, <1>16
  <2> HIDE DEF x
  <2>2. x + (q - j) <= m
    BY <1>1, <1>2, <1>16, <2>1 DEF x
  <2> QED BY <1>2, <1>3, <2>1, <2>2
<1>17. PICK q \in j .. n : Ended(n, at, m, q) /\ at[q] <= m /\ h[size] = F[q]
  <2>1. h[0] = F[j] /\ at[j] <= m
    BY <1>2, <1>5, <1>13, <1>14
  <2> HIDE DEF x
  <2>2. Turns(n, at, m, j, F, h, size)
    BY <1>15, <2>1 DEF Turns
  <2>3. Enough(n, at, m, j, size)
    BY <1>16 DEF Enough
  <2> QED BY <1>0, <1>4, <2>1, <2>2, <2>3, RunToEnd
<1>18. LineFrames(b) = LineSeen(w, n, at, m, j, q)
  BY <1>1, <1>12, <1>14, <1>17 DEF S
<1> QED BY <1>17, <1>18 DEF b, x

\* An FT1.2 line cut anywhere: what SerialFT12 makes of each chunk it is given is what the
\* units are that end in it (acknowledgements, resets, long frames, octets of no meaning),
\* whole and in order, and it keeps the octets after them; after the last chunk nothing is
\* left.
THEOREM LineIsRecovered ==
    ASSUME NEW w, NEW n, NEW at, Line(w, n, at),
           NEW chunks, NEW cut, Chunked(w, chunks, cut),
           NEW states, states[0].rest = <<>>,
           \A i \in 1 .. chunks : states[i] = LineFrames(states[i - 1].rest \o Sub(w, cut[i - 1], cut[i]))
    PROVE  /\ \A i \in 1 .. chunks : states[i] =
                LineSeen(w, n, at, cut[i], Whole(n, at, cut[i - 1]), Whole(n, at, cut[i]))
           /\ Whole(n, at, cut[0]) = 0 /\ Whole(n, at, cut[chunks]) = n
           /\ states[chunks].rest = <<>>
<1> DEFINE K(i) == Whole(n, at, cut[i])
           left == [i \in 0 .. chunks |-> states[i].rest]
<1>0. chunks \in Nat /\ cut \in [0 .. chunks -> Nat]
  BY DEF Chunked
<1>1. Parts(w, n, at)
  BY DEF Line
<1>2. ASSUME NEW i \in 1 .. chunks, NEW j \in 0 .. n, at[j] <= cut[i - 1], cut[i - 1] <= cut[i],
             cut[i] <= Len(w), states[i - 1].rest = Sub(w, at[j], cut[i - 1])
      PROVE  \E k \in j .. n : Ended(n, at, cut[i], k) /\ states[i] = LineSeen(w, n, at, cut[i], j, k)
  <2> DEFINE l == cut[i - 1]
             m == cut[i]
  <2>1. l \in Nat /\ m \in Nat /\ at[j] <= l /\ l <= m /\ m <= Len(w)
    BY <1>0, <1>2
  <2>2. states[i] = LineFrames(Sub(w, at[j], l) \o Sub(w, l, m))
    BY <1>2
  <2> HIDE DEF l, m
  <2>3. PICK k \in j .. n :
           /\ Ended(n, at, m, k)
           /\ LineFrames(Sub(w, at[j], l) \o Sub(w, l, m)) = LineSeen(w, n, at, m, j, k)
    BY <2>1, ChunkOfLine
  <2> QED BY <2>2, <2>3 DEF m
<1>3. \A i \in 1 .. chunks : LeavesPart(w, n, at, cut, left, i)
  <2> SUFFICES ASSUME NEW i \in 1 .. chunks, NEW j \in 0 .. n, at[j] <= cut[i - 1],
                      cut[i - 1] <= cut[i], cut[i] <= Len(w),
                      left[i - 1] = Sub(w, at[j], cut[i - 1])
               PROVE  \E k \in j .. n : Ended(n, at, cut[i], k) /\ left[i] = Sub(w, at[k], cut[i])
    BY DEF LeavesPart
  <2>1. left[i] = states[i].rest /\ left[i - 1] = states[i - 1].rest
    BY <1>0
  <2> HIDE DEF left
  <2>2. PICK k \in j .. n : Ended(n, at, cut[i], k) /\ states[i] = LineSeen(w, n, at, cut[i], j, k)
    BY <1>2, <2>1
  <2> QED BY <2>1, <2>2 DEF LineSeen
<1>4. left[0] = <<>> /\ left[chunks] = states[chunks].rest
  <2>1. 0 \in 0 .. chunks /\ chunks \in 0 .. chunks
    BY <1>0
  <2> QED BY <2>1
<1> HIDE DEF left
<1>5. /\ \A i \in 0 .. chunks : /\ cut[i] <= Len(w) /\ Ended(n, at, cut[i], K(i))
                                /\ left[i] = Sub(w, at[K(i)], cut[i])
      /\ K(0) = 0 /\ K(chunks) = n /\ left[chunks] = <<>>
  <2>1. Recovered(w, n, at, chunks, cut, left)
    BY <1>1, <1>3, <1>4, CutAnywhere
  <2> QED BY <2>1 DEF Recovered, HasPart
<1>6. ASSUME NEW i \in 1 .. chunks
      PROVE states[i] = LineSeen(w, n, at, cut[i], K(i - 1), K(i))
  <2> DEFINE j == K(i - 1)
  <2>1. i - 1 \in 0 .. chunks /\ i \in 0 .. chunks
    BY <1>0
  <2>2. j \in 0 .. n /\ at[j] <= cut[i - 1] /\ left[i - 1] = Sub(w, at[j], cut[i - 1])
    BY <1>5, <2>1 DEF Ended
  <2>3. left[i - 1] = states[i - 1].rest /\ cut[i] <= Len(w) /\ cut[i] \in Nat
    BY <1>0, <1>5, <2>1 DEF left
  <2> HIDE DEF j
  <2>4. PICK k \in j .. n : Ended(n, at, cut[i], k) /\ states[i] = LineSeen(w, n, at, cut[i], j, k)
    <3>1. cut[i - 1] <= cut[i]
      BY DEF Chunked
    <3> QED BY <1>2, <2>2, <2>3, <3>1
  <2>5. K(i) = k
    BY <1>1, <2>3, <2>4, WholeIs
  <2> QED BY <2>4, <2>5 DEF j
<1> QED BY <1>4, <1>5, <1>6

\* The checksum of a frame is an octet.
LEMMA ChecksumType ==
    ASSUME NEW b \in Octets
    PROVE  Checksum(b) \in Octet
<1> DEFINE size == Len(b)
           f == [i \in 1 .. size |-> [v \in Octet |-> (v + b[i]) % 256]]
           next(g, i) == IF i = 0 THEN 0 ELSE (g[i - 1] + b[i]) % 256
           h == CHOOSE g : g = [i \in 0 .. size |-> next(g, i)]
<1>1. size \in Nat /\ \A i \in 1 .. size : b[i] \in Nat
  BY OctetAt DEF Octets
<1>2. \A v \in Octet, k \in Nat : (v + k) % 256 \in Octet
  BY DEF Octet
<1>3. 0 \in Octet
  BY DEF Octet
<1> HIDE DEF size
<1>4. f \in [1 .. size -> [Octet -> Octet]]
  BY <1>1, <1>2
<1>5. PICK g : IsRun(g, size, Octet, 0, f)
  <2> HIDE DEF f
  <2> QED BY <1>1, <1>3, <1>4, Iterated
<1>6. g \in [0 .. size -> Octet] /\ g[0] = 0 /\ \A i \in 1 .. size : g[i] = f[i][g[i - 1]]
  <2> HIDE DEF f
  <2> QED BY <1>5 DEF IsRun
<1>7. g = [i \in 0 .. size |-> next(g, i)]
  <2>1. ASSUME NEW i \in 0 .. size PROVE g[i] = next(g, i)
    <3>1. CASE i = 0
      BY <1>6, <3>1
    <3>2. CASE i # 0
      <4>1. i \in 1 .. size /\ i - 1 \in 0 .. size
        BY <1>1, <3>2
      <4>2. g[i - 1] \in Octet /\ g[i] = f[i][g[i - 1]]
        <5> HIDE DEF f
        <5> QED BY <1>6, <4>1
      <4>3. f[i][g[i - 1]] = (g[i - 1] + b[i]) % 256
        <5>1. f[i] = [v \in Octet |-> (v + b[i]) % 256]
          BY <4>1
        <5> HIDE DEF f
        <5> QED BY <4>2, <5>1
      <4> HIDE DEF f
      <4> QED BY <3>2, <4>2, <4>3
    <3> QED BY <3>1, <3>2
  <2> HIDE DEF f, next
  <2> QED BY <1>6, <2>1
<1>8. h = [i \in 0 .. size |-> next(h, i)]
  <2> HIDE DEF next
  <2> QED BY <1>7
<1>9. Checksum(b) = h[size]
  BY DEF Checksum, h, size
<1> HIDE DEF h
<1>10. h[size] = next(h, size)
  <2>1. size \in 0 .. size
    BY <1>1
  <2> HIDE DEF next
  <2> QED BY <1>8, <2>1
<1>11. \A i \in Nat : i <= size => h[i] \in Octet
  <2> DEFINE T == {i \in Nat : i <= size => h[i] \in Octet}
  <2>1. 0 \in T
    <3>1. h[0] = 0
      <4>1. 0 \in 0 .. size
        BY <1>1
      <4> QED BY <1>8, <4>1
    <3> QED BY <1>3, <3>1
  <2>2. ASSUME NEW i \in Nat, i \in T PROVE i + 1 \in T
    <3> SUFFICES ASSUME i + 1 <= size PROVE h[i + 1] \in Octet
      OBVIOUS
    <3>1. i + 1 \in 0 .. size /\ i + 1 # 0 /\ i + 1 - 1 = i /\ i + 1 \in 1 .. size /\ i <= size
      BY <1>1
    <3>2. h[i + 1] = (h[i] + b[i + 1]) % 256
      BY <1>8, <3>1
    <3>3. h[i] \in Octet
      BY <2>2, <3>1
    <3> QED BY <1>1, <1>2, <3>1, <3>2, <3>3
  <2>3. Nat \subseteq T
    <3> HIDE DEF T
    <3> QED BY <2>1, <2>2, Inductive
  <2> QED BY <2>3
<1> QED BY <1>1, <1>9, <1>11

\* A buffer between two others: the length and the octets.
Amid(s, a, b, c) ==
    /\ s \in Octets /\ Len(s) = Len(a) + Len(b) + Len(c)
    /\ \A i \in 1 .. Len(a) : s[i] = a[i]
    /\ \A i \in 1 .. Len(b) : s[Len(a) + i] = b[i]
    /\ \A i \in 1 .. Len(c) : s[Len(a) + Len(b) + i] = c[i]

\* It is found where it stands.
LEMMA Between ==
    ASSUME NEW a \in Octets, NEW b \in Octets, NEW c \in Octets
    PROVE  Amid(a \o b \o c, a, b, c)
<1> DEFINE ab == a \o b
           s == ab \o c
<1>1. Follows(ab, a, b)
  BY Followed
<1>2. ab \in Octets
  BY <1>1, Zenon DEF Follows
<1> HIDE DEF ab
<1>3. Follows(s, ab, c)
  BY <1>2, Followed
<1> HIDE DEF s
<1>4. /\ Len(ab) = Len(a) + Len(b)
      /\ \A i \in 1 .. Len(a) : ab[i] = a[i]
      /\ \A i \in 1 .. Len(b) : ab[Len(a) + i] = b[i]
  BY <1>1, Zenon DEF Follows
<1>5. /\ s \in Octets /\ Len(s) = Len(ab) + Len(c)
      /\ \A i \in 1 .. Len(ab) : s[i] = ab[i]
      /\ \A i \in 1 .. Len(c) : s[Len(ab) + i] = c[i]
  BY <1>3, Zenon DEF Follows
<1>6. Len(a) \in Nat /\ Len(b) \in Nat /\ Len(c) \in Nat
  BY DEF Octets
<1>7. \A i \in 1 .. Len(a) : s[i] = a[i]
  <2> SUFFICES ASSUME NEW i \in 1 .. Len(a) PROVE s[i] = a[i]
    OBVIOUS
  <2>1. i \in 1 .. Len(ab)
    BY <1>4, <1>6
  <2> QED BY <1>4, <1>5, <2>1
<1>8. \A i \in 1 .. Len(b) : s[Len(a) + i] = b[i]
  <2> SUFFICES ASSUME NEW i \in 1 .. Len(b) PROVE s[Len(a) + i] = b[i]
    OBVIOUS
  <2>1. Len(a) + i \in 1 .. Len(ab)
    BY <1>4, <1>6
  <2> QED BY <1>4, <1>5, <2>1
<1>9. Amid(s, a, b, c)
  <2>1. \A i \in 1 .. Len(c) : s[Len(a) + Len(b) + i] = c[i]
    BY <1>4, <1>5
  <2>2. Len(s) = Len(a) + Len(b) + Len(c)
    BY <1>4, <1>5
  <2> QED BY <1>5, <1>7, <1>8, <2>1, <2>2, Zenon DEF Amid
<1> QED BY <1>9 DEF s, ab

\* The units of a line: an acknowledgement, a short frame, and the long frame that carries a
\* payload.  Each is as long as its head says and is read as what it is: SerialFT12 hands the
\* payload of a long frame on whole and acknowledges it, unless it is a BAOS payload, which
\* it acknowledges only.
THEOREM LineUnitsAreRead ==
    /\ LineSize(<<ACK_BYTE>>) = 1
    /\ LineUnit(<<ACK_BYTE>>) = [frames |-> <<>>, acks |-> 1, sent |-> 0]
    /\ \A x, y, z \in Octet :
          LET short == <<16, x, y, z>>
          IN  LineSize(short) = Len(short) /\ LineUnit(short) = [frames |-> <<>>, acks |-> 0, sent |-> 1]
    /\ \A payload \in Octets, toggle \in BOOLEAN : 0 < Len(payload) /\ Len(payload) <= 254 =>
          LET unit == LongFrame(payload, toggle)
          IN  /\ unit \in Octets /\ LineSize(unit) = Len(unit) /\ 0 < Len(unit)
              /\ LineUnit(unit) = [frames |-> IF payload[1] = 240 THEN <<>> ELSE <<payload>>,
                                   acks |-> 0, sent |-> 1]
              /\ LongFramePayload(unit).cemi = LineUnit(unit).frames
<1>1. /\ LineSize(<<ACK_BYTE>>) = 1
      /\ LineUnit(<<ACK_BYTE>>) = [frames |-> <<>>, acks |-> 1, sent |-> 0]
  BY DEF LineSize, LineUnit, ACK_BYTE
<1>2. ASSUME NEW x \in Octet, NEW y \in Octet, NEW z \in Octet
      PROVE  LET short == <<16, x, y, z>>
             IN  LineSize(short) = Len(short)
                 /\ LineUnit(short) = [frames |-> <<>>, acks |-> 0, sent |-> 1]
  BY DEF LineSize, LineUnit, ACK_BYTE
<1>3. ASSUME NEW payload \in Octets, NEW toggle \in BOOLEAN, 0 < Len(payload), Len(payload) <= 254
      PROVE  LET unit == LongFrame(payload, toggle)
             IN  /\ unit \in Octets /\ LineSize(unit) = Len(unit) /\ 0 < Len(unit)
                 /\ LineUnit(unit) = [frames |-> IF payload[1] = 240 THEN <<>> ELSE <<payload>>,
                                      acks |-> 0, sent |-> 1]
                 /\ LongFramePayload(unit).cemi = LineUnit(unit).frames
  <2> DEFINE e == IF toggle THEN 115 ELSE 83
             one == <<e>>
             body == one \o payload
             len == Len(body)
             ck == Checksum(body)
             head == <<104, len, len, 104>>
             tail == <<ck, 22>>
             unit == LongFrame(payload, toggle)
             whole == head \o body \o tail
  <2>1. unit = whole
    BY DEF LongFrame
  <2>2. e \in Octet /\ 104 \in Octet /\ 22 \in Octet /\ \A k \in Nat : k <= 255 => k \in Octet
    BY DEF Octet
  <2> HIDE DEF e
  <2>3. one \in Octets /\ Len(one) = 1
    BY <2>2 DEF Octets
  <2> HIDE DEF one
  <2>4. body \in Octets /\ len = 1 + Len(payload) /\ \A i \in 1 .. Len(payload) : body[1 + i] = payload[i]
    <3>1. Follows(body, one, payload)
      BY <2>3, Followed
    <3> HIDE DEF body
    <3> QED BY <2>3, <3>1, Zenon DEF Follows, len
  <2>5. Len(payload) \in Nat
    BY DEF Octets
  <2> HIDE DEF body, len
  <2>6. len \in Octet /\ len \in Nat /\ 2 <= len
    BY <1>3, <2>2, <2>4, <2>5
  <2>7. ck \in Octet
    BY <2>4, ChecksumType
  <2> HIDE DEF ck
  <2>8. head \in Octets /\ Len(head) = 4 /\ head[1] = 104 /\ head[2] = len /\ head[3] = len /\ head[4] = 104
    BY <2>2, <2>6 DEF Octets
  <2>9. tail \in Octets /\ Len(tail) = 2 /\ tail[1] = ck /\ tail[2] = 22
    BY <2>2, <2>7 DEF Octets
  <2> HIDE DEF head, tail
  <2>10. /\ whole \in Octets /\ Len(whole) = 4 + len + 2
         /\ \A i \in 1 .. 4 : whole[i] = head[i]
         /\ \A i \in 1 .. len : whole[4 + i] = body[i]
         /\ \A i \in 1 .. 2 : whole[4 + len + i] = tail[i]
    <3>1. /\ whole \in Octets /\ Len(whole) = Len(head) + Len(body) + Len(tail)
          /\ \A i \in 1 .. Len(head) : whole[i] = head[i]
          /\ \A i \in 1 .. Len(body) : whole[Len(head) + i] = body[i]
          /\ \A i \in 1 .. Len(tail) : whole[Len(head) + Len(body) + i] = tail[i]
      <4>1. Amid(whole, head, body, tail)
        BY <2>4, <2>8, <2>9, Between
      <4> HIDE DEF whole
      <4> QED BY <4>1, Zenon DEF Amid
    <3>2. Len(body) = len
      BY DEF len
    <3> HIDE DEF whole
    <3> QED BY <2>8, <2>9, <3>1, <3>2
  <2> HIDE DEF whole
  <2>11. /\ whole[1] = 104 /\ whole[2] = len /\ whole[3] = len /\ whole[4] = 104
         /\ whole[Len(whole)] = 22 /\ whole[Len(whole) - 1] = ck /\ Len(whole) = len + 6
    <3>1. Len(whole) = len + 6 /\ Len(whole) = 4 + len + 2 /\ Len(whole) - 1 = 4 + len + 1
      BY <2>6, <2>10
    <3>2. 1 \in 1 .. 4 /\ 2 \in 1 .. 4 /\ 3 \in 1 .. 4 /\ 4 \in 1 .. 4 /\ 1 \in 1 .. 2 /\ 2 \in 1 .. 2
      OBVIOUS
    <3>3. whole[4 + len + 2] = tail[2] /\ whole[4 + len + 1] = tail[1]
      BY <2>10, <3>2
    <3> QED BY <2>8, <2>9, <2>10, <3>1, <3>2, <3>3
  <2>12. Sub(whole, 4, 4 + len) = body
    <3> DEFINE z == 4 + len
               part == Sub(whole, 4, z)
    <3>1. z \in Nat /\ 4 <= z /\ z <= Len(whole) /\ z - 4 = len
      BY <2>6, <2>11
    <3> HIDE DEF z
    <3>2. part \in Octets /\ Len(part) = z - 4 /\ \A i \in 1 .. z - 4 : part[i] = whole[4 + i]
      <4>1. whole \in Octets /\ 4 \in Nat
        BY <2>10
      <4> QED BY <3>1, <4>1, SubIs
    <3> HIDE DEF part
    <3>3. Len(body) = len
      BY DEF len
    <3>4. \A i \in 1 .. Len(part) : part[i] = body[i]
      BY <2>10, <3>1, <3>2
    <3>5. part = body
      BY <2>4, <3>1, <3>2, <3>3, <3>4, SameOctets
    <3> QED BY <3>5 DEF part, z
  <2>13. Tail(body) = payload
    <3> DEFINE t == Tail(body)
    <3>1. Len(body) = len /\ Len(body) = 1 + Len(payload)
      BY <2>4 DEF len
    <3>2. t \in Octets /\ Len(t) = Len(payload) /\ \A i \in 1 .. Len(t) : t[i] = body[i + 1]
      BY <2>4, <2>5, <2>6, <3>1 DEF Octets
    <3> HIDE DEF t
    <3>3. \A i \in 1 .. Len(t) : t[i] = payload[i]
      <4> SUFFICES ASSUME NEW i \in 1 .. Len(t) PROVE t[i] = payload[i]
        OBVIOUS
      <4>1. i + 1 = 1 + i /\ i \in 1 .. Len(payload)
        BY <2>5, <3>2
      <4> QED BY <2>4, <3>2, <4>1
    <3>4. t = payload
      BY <3>2, <3>3, SameOctets
    <3> QED BY <3>4 DEF t
  <2>14. body[2] = payload[1]
    <3>1. 1 \in 1 .. Len(payload) /\ 1 + 1 = 2
      BY <1>3, <2>5
    <3> QED BY <2>4, <3>1
  <2>15. LineSize(whole) = Len(whole)
    BY <2>6, <2>11 DEF LineSize
  <2>16. LongFramePayload(whole) = [ack |-> TRUE, cemi |-> IF payload[1] = 240 THEN <<>> ELSE <<payload>>]
    <3> DEFINE k == whole[2]
               p == Sub(whole, 4, 4 + k)
               bad == \/ Len(whole) < 8 \/ whole[4] # 104 \/ whole[3] # k
                      \/ whole[Len(whole)] # 22 \/ whole[Len(whole) - 1] # Checksum(p)
               cemi == IF bad \/ k = 1 THEN <<>> ELSE IF p[2] = 240 THEN <<>> ELSE <<Tail(p)>>
    <3>1. LongFramePayload(whole) = [ack |-> ~bad, cemi |-> cemi]
      BY DEF LongFramePayload
    <3>2. k = len
      BY <2>11
    <3>3. p = body
      BY <2>12, <3>2
    <3> HIDE DEF k, p
    <3>4. ~bad /\ k # 1
      BY <2>6, <2>11, <3>2, <3>3 DEF ck
    <3> HIDE DEF bad
    <3>5. (~bad) = TRUE
      BY <3>4
    <3>6. cemi = IF payload[1] = 240 THEN <<>> ELSE <<payload>>
      BY <2>13, <2>14, <3>3, <3>4
    <3> HIDE DEF cemi
    <3> QED BY <3>1, <3>5, <3>6
  <2>17. LineUnit(whole) = [frames |-> IF payload[1] = 240 THEN <<>> ELSE <<payload>>, acks |-> 0, sent |-> 1]
    <3> DEFINE long == LongFramePayload(whole)
    <3>1. long.ack = TRUE /\ long.cemi = IF payload[1] = 240 THEN <<>> ELSE <<payload>>
      BY <2>16
    <3>2. LineUnit(whole) = [frames |-> long.cemi, acks |-> 0, sent |-> IF long.ack THEN 1 ELSE 0]
      BY <2>11 DEF LineUnit, ACK_BYTE
    <3> HIDE DEF long
    <3> QED BY <3>1, <3>2
  <2>18. LongFramePayload(whole).cemi = LineUnit(whole).frames
    BY <2>16, <2>17
  <2>19. 0 < Len(whole)
    BY <2>6, <2>11
  <2> QED BY <2>1, <2>10, <2>15, <2>17, <2>18, <2>19
<1> QED BY <1>1, <1>2, <1>3

\* Over the serial line: an indication that was written is read back whole.
THEOREM SerialRoundTrip ==
    ASSUME NEW c \in Sendable, c.msgCode = L_DATA_IND
    PROVE  SerialIndication(CEMIBytes(c)) = c
<1> DEFINE b == CEMIBytes(c)
           s == c.control \o (U16Bytes(c.srcAddress) \o (U16Bytes(c.dstAddress) \o NPDUBytes(c.npdu)))
<1>1. b = <<c.msgCode, 0>> \o s /\ b \in Octets
  BY CEMIWritten
<1>2. s \in Octets
  <2>1. U16Bytes(c.srcAddress) \in Octets /\ U16Bytes(c.dstAddress) \in Octets
    BY SendableFields, U16Is
  <2>2. NPDUBytes(c.npdu) \in Octets /\ c.control \in Octets
    BY SendableFields, NPDUWritten
  <2> HIDE DEF b
  <2> QED BY <2>1, <2>2 DEF Octets
<1> HIDE DEF s
<1>3. b[1] = L_DATA_IND /\ ~(Len(b) < 2)
  <2>1. Len(b) = 2 + Len(s) /\ b[1] = c.msgCode
    <3> HIDE DEF b
    <3> QED BY <1>1, <1>2 DEF Octets
  <2>2. Len(s) \in Nat
    BY <1>2 DEF Octets
  <2> QED BY <2>1, <2>2
<1>4. Ends(b, 0, b)
  <2> HIDE DEF b
  <2>1. Len(b) \in Nat
    BY <1>1 DEF Octets
  <2> QED BY <2>1 DEF Ends
<1>5. ParseCEMI(b, 0) = c
  <2> HIDE DEF b
  <2> QED BY <1>1, <1>4, CEMIRead DEF b
<1> QED BY <1>3, <1>5 DEF SerialIndication

-----------------------------------------------------------------------------
(* The blocks of a search response, read where they stand *)

\* Four parts of a buffer, from the left and from the right.
Four(s, t, u, v) ==
    s \o t \o u \o v = s \o (t \o (u \o v)) /\ s \o (t \o (u \o v)) \in Octets

\* Where each of four parts stands.
LEMMA JoinedFour ==
    ASSUME NEW s \in Octets, NEW t \in Octets, NEW u \in Octets, NEW v \in Octets
    PROVE  Four(s, t, u, v)
<1>1. u \o v \in Octets
  BY JoinedLength
<1> DEFINE uv == u \o v
<1>2. t \o uv \in Octets /\ s \o t \in Octets
  BY <1>1, JoinedLength
<1>3. s \o t \o u \o v = s \o t \o uv
  <2> DEFINE st == s \o t
  <2>1. st \in Octets
    BY <1>2
  <2> HIDE DEF st
  <2>2. st \o u \o v = st \o (u \o v)
    BY <2>1, Joined
  <2> QED BY <2>2 DEF st
<1>4. s \o t \o uv = s \o (t \o uv)
  <2>1. uv \in Octets
    BY <1>1
  <2> HIDE DEF uv
  <2> QED BY <2>1 DEF Octets
<1> HIDE DEF uv
<1>5. s \o (t \o uv) \in Octets
  BY <1>2, JoinedLength
<1> QED BY <1>3, <1>4, <1>5 DEF uv, Four

\* A part of a buffer is cut out where it stands.
PartAt(b, o, s, t, to) == Sub(b, o, to) = s /\ Ends(b, to, t)

\* It is found where it stands, and the rest is the end of the buffer.
LEMMA EndsPart ==
    ASSUME NEW b \in Octets, NEW o \in Nat, NEW s \in Octets, NEW t \in Octets,
           Ends(b, o, s \o t), NEW to \in Nat, to = o + Len(s)
    PROVE  PartAt(b, o, s, t, to)
<1>1. (\A i \in 1 .. Len(s) : b[o + i] = s[i]) /\ Ends(b, to, t)
  BY EndsParts
<1>2. Len(b) = to + Len(t) /\ Len(t) \in Nat /\ Len(s) \in Nat
  BY <1>1 DEF Ends, Octets
<1>3. o <= to /\ to <= Len(b)
  BY <1>2
<1> DEFINE u == Sub(b, o, to)
<1>4. u \in Octets /\ Len(u) = to - o /\ \A i \in 1 .. to - o : u[i] = b[o + i]
  BY <1>3, SubIs
<1> HIDE DEF u
<1>5. u = s
  <2>1. Len(u) = Len(s) /\ to - o = Len(s)
    BY <1>2, <1>4
  <2>2. \A i \in 1 .. Len(u) : u[i] = s[i]
    BY <1>1, <1>4, <2>1
  <2> QED BY <1>4, <2>1, <2>2, SameOctets
<1> QED BY <1>1, <1>5 DEF u, PartAt

\* A buffer is its own end.
LEMMA EndsAll == ASSUME NEW b \in Octets PROVE Ends(b, 0, b)
BY DEF Ends, Octets

\* HPAI.createFromBuffer reads what HPAI.toBuffer wrote.
LEMMA HPAIRead ==
    ASSUME NEW b \in Octets, NEW ip \in Octets, Len(ip) = 4, NEW port \in Words,
           NEW t \in Octets, Ends(b, 0, HPAIBytes(HPAI(ip, port, IPV4_UDP)) \o t)
    PROVE  /\ ParseHPAI(b, 0) = HPAI(ip, port, IPV4_UDP)
           /\ HPAI(ip, port, IPV4_UDP) \in HPAIs /\ Ends(b, 8, t)
<1> DEFINE head == <<8, 1>>
           word == U16Bytes(port)
<1>1. 8 \in Octet /\ 1 \in Octet
  BY OctetIs
<1>2. head \in Octets /\ word \in Octets /\ Len(word) = 2
  BY <1>1, OctetTuples, U16Is
<1>3. HPAIBytes(HPAI(ip, port, IPV4_UDP)) = head \o ip \o word
  BY DEF HPAIBytes, HPAI, IPV4_UDP
<1> HIDE DEF head, word
<1>4. head \o ip \o word \o t = head \o (ip \o (word \o t))
  <2>1. Four(head, ip, word, t)
    BY <1>2, JoinedFour
  <2> QED BY <2>1 DEF Four
<1> DEFINE u == word \o t
           v == ip \o u
<1>5. u \in Octets
  BY <1>2, JoinedLength
<1>6. v \in Octets
  <2> HIDE DEF u
  <2> QED BY <1>5, JoinedLength
<1>7. Ends(b, 0, head \o v)
  BY <1>3, <1>4
<1> HIDE DEF v
<1>8. b[1] = 8 /\ b[2] = 1 /\ Ends(b, 2, v)
  <2>1. b[0 + 1] = 8 /\ b[0 + 2] = 1 /\ Ends(b, 0 + 2, v)
    BY <1>1, <1>6, <1>7, EndsPair DEF head
  <2> QED BY <2>1
<1>9. Sub(b, 2, 6) = ip /\ Ends(b, 6, u)
  <2> HIDE DEF u
  <2>1. Ends(b, 2, ip \o u) /\ 6 = 2 + Len(ip)
    BY <1>8 DEF v
  <2>2. PartAt(b, 2, ip, u, 6)
    BY <1>5, <2>1, EndsPart
  <2> QED BY <2>2 DEF PartAt
<1>10. U16(b, 6) = port /\ Ends(b, 8, t)
  <2>1. Ends(b, 6, U16Bytes(port) \o t)
    BY <1>9 DEF word
  <2>2. U16(b, 6) = port /\ Ends(b, 6 + 2, t)
    BY <2>1, EndsWord
  <2> QED BY <2>2
<1>11. Len(b) = 8 + Len(t) /\ Len(t) \in Nat
  BY <1>10 DEF Ends, Octets
<1>12. Byte(b, 0) = 8 /\ Byte(b, 1) = 1
  BY <1>8 DEF Byte
<1>13. ParseHPAI(b, 0) = HPAI(ip, port, IPV4_UDP)
  BY <1>9, <1>10, <1>11, <1>12 DEF ParseHPAI, Structure, IPV4_UDP
<1>14. HPAI(ip, port, IPV4_UDP) \in HPAIs
  BY <1>1 DEF HPAI, HPAIs, IPV4_UDP, Octets, Words
<1> QED BY <1>10, <1>13, <1>14

JoinFive(h, s, t, u, v) == h \o s \o t \o u \o v = h \o (s \o (t \o (u \o v)))

\* Five parts, joined from the right.
LEMMA JoinedFiveIs ==
    ASSUME NEW h \in Octets, NEW s \in Octets, NEW t \in Octets, NEW u \in Octets,
           NEW v \in Octets
    PROVE  JoinFive(h, s, t, u, v)
<1>1. /\ h \o s \o t \o u \o v = h \o (s \o (t \o (u \o v)))
      /\ h \o (s \o (t \o (u \o v))) \in Octets
  BY JoinedFive
<1> QED BY <1>1 DEF JoinFive

\* Names, and the field they are written to.
ShortName(name) == name \in Seq(Octet \ {0, 58}) /\ Len(name) <= 30

NameField(name) == [i \in 1 .. 30 |-> IF i <= Len(name) THEN name[i] ELSE 0]

\* The name field has thirty octets.
LEMMA NameWritten ==
    ASSUME NEW name, ShortName(name)
    PROVE  NameField(name) \in Octets /\ Len(NameField(name)) = 30 /\ name \in Octets
<1>1. Len(name) \in Nat /\ Len(name) <= 30 /\ \A i \in 1 .. Len(name) : name[i] \in Octet
  BY DEF ShortName
<1>2. 0 \in Octet
  BY OctetIs
<1>3. \A i \in 1 .. 30 : NameField(name)[i] \in Octet
  <2> TAKE i \in 1 .. 30
  <2>1. NameField(name)[i] = IF i <= Len(name) THEN name[i] ELSE 0
    BY DEF NameField
  <2>2. i <= Len(name) => i \in 1 .. Len(name)
    BY <1>1
  <2> QED BY <1>1, <1>2, <2>1, <2>2
<1>4. NameField(name) \in Octets /\ Len(NameField(name)) = 30
  BY <1>3 DEF NameField, Octets
<1>5. name \in Octets
  BY <1>1 DEF Octets, ShortName
<1> QED BY <1>4, <1>5

\* The name ends where its zeros begin.
NameEnds(name, ends) ==
    /\ ends = {} => Len(name) = 30
    /\ ends # {} => (CHOOSE i \in ends : \A j \in ends : i <= j) - 1 = Len(name)
    /\ SubSeq(NameField(name), 1, Len(name)) = name

\* DeviceInformation.deserialize reads the name that was written.
LEMMA NameRead ==
    ASSUME NEW name, ShortName(name), NEW ends, ends = {i \in 1 .. 30 : NameField(name)[i] = 0}
    PROVE  NameEnds(name, ends)
<1> DEFINE n == Len(name)
           chars == NameField(name)
<1>1. n \in Nat /\ n <= 30 /\ \A i \in 1 .. n : name[i] \in Octet \ {0, 58}
  BY DEF ShortName
<1>2. \A i \in 1 .. 30 : chars[i] = IF i <= n THEN name[i] ELSE 0
  BY DEF NameField
<1>3. chars \in Octets /\ Len(chars) = 30 /\ name \in Octets
  BY NameWritten
<1> HIDE DEF n, chars
<1>4. \A i \in 1 .. 30 : i \in ends <=> i > n
  BY <1>1, <1>2 DEF chars
<1>5. ends = {} => n = 30
  <2>1. n < 30 => n + 1 \in 1 .. 30 /\ n + 1 > n
    BY <1>1
  <2> QED BY <1>1, <1>4, <2>1
<1>6. ends # {} => (CHOOSE i \in ends : \A j \in ends : i <= j) - 1 = n
  <2> SUFFICES ASSUME ends # {} PROVE (CHOOSE i \in ends : \A j \in ends : i <= j) - 1 = n
    OBVIOUS
  <2>1. \A i \in ends : i \in 1 .. 30 /\ i > n
    BY <1>4
  <2>2. n + 1 \in ends
    <3>1. n + 1 \in 1 .. 30
      BY <1>1, <2>1
    <3> QED BY <1>1, <1>4, <3>1
  <2>3. \A j \in ends : n + 1 <= j
    BY <1>1, <2>1
  <2> DEFINE k == CHOOSE i \in ends : \A j \in ends : i <= j
  <2>4. k \in ends /\ \A j \in ends : k <= j
    BY <2>2, <2>3
  <2> HIDE DEF k
  <2>5. k = n + 1
    BY <1>1, <2>1, <2>2, <2>3, <2>4
  <2>6. k - 1 = n
    BY <1>1, <2>5
  <2> QED BY <2>6 DEF k
<1>7. SubSeq(chars, 1, n) = name
  <2> DEFINE u == SubSeq(chars, 1, n)
  <2>0. Sub(chars, 0, n) = u
    BY <1>1, <1>3 DEF Sub
  <2>1. u \in Octets /\ Len(u) = n /\ \A i \in 1 .. n : u[i] = chars[i]
    <3>1. n - 0 = n /\ 0 \in Nat /\ 0 <= n /\ n <= Len(chars)
      BY <1>1, <1>3
    <3>2. /\ Sub(chars, 0, n) \in Octets /\ Len(Sub(chars, 0, n)) = n - 0
          /\ \A i \in 1 .. n - 0 : Sub(chars, 0, n)[i] = chars[0 + i]
      BY <1>1, <1>3, <3>1, SubIs
    <3>3. \A i \in 1 .. n : 0 + i = i
      BY <1>1
    <3> HIDE DEF u
    <3> QED BY <2>0, <3>1, <3>2, <3>3
  <2>2. \A i \in 1 .. n : u[i] = name[i]
    BY <1>1, <1>2, <2>1
  <2> HIDE DEF u
  <2>3. u = name
    BY <1>3, <2>1, <2>2, SameOctets DEF n
  <2> QED BY <2>3 DEF u
<1> QED BY <1>5, <1>6, <1>7 DEF n, chars, NameEnds

\* An address is its three digits.
LEMMA TripleIs ==
    ASSUME NEW digits \in Seq(Nat), Len(digits) = 3
    PROVE  /\ digits[1] \in Nat /\ digits[2] \in Nat /\ digits[3] \in Nat
           /\ digits = <<digits[1], digits[2], digits[3]>>
<1>1. \A i \in 1 .. Len(digits) : digits[i] \in Nat
  OBVIOUS
<1>2. digits = <<digits[1], digits[2], digits[3]>>
  OBVIOUS
<1>3. 1 \in 1 .. Len(digits) /\ 2 \in 1 .. Len(digits) /\ 3 \in 1 .. Len(digits)
  OBVIOUS
<1>4. digits[1] \in Nat /\ digits[2] \in Nat /\ digits[3] \in Nat
  BY <1>1, <1>3
<1> QED BY <1>2, <1>4

\* Sequences are equal that agree everywhere.
LEMMA SameSeq ==
    ASSUME NEW S, NEW s \in Seq(S), NEW t \in Seq(S), Len(s) = Len(t),
           \A i \in 1 .. Len(s) : s[i] = t[i]
    PROVE  s = t
OBVIOUS

\* Families as they are written, and as they are kept.
Versions(families) ==
    [i \in 1 .. 2 * Len(families) |-> IF i % 2 = 1 THEN families[(i + 1) \div 2] ELSE 1]

Entered(families, i) == [j \in 1 .. i |-> <<families[j], 1>>]

Described(type, families) == [type |-> type, services |-> Entered(families, Len(families))]

FamiliesIs(b, o, type, families, t) ==
    /\ ParseServiceFamilies(b, o) = Described(type, families)
    /\ Described(type, families) \in ServiceFamilies
    /\ Ends(b, o + 2 + 2 * Len(families), t)
    /\ Byte(b, o) = 2 + 2 * Len(families) /\ Byte(b, o + 1) = type /\ Structure(b, o)

-----------------------------------------------------------------------------
(* The loop over the blocks *)

\* Up to four blocks are read, and then no more.
LEMMA BlocksSettle ==
    ASSUME NEW b \in Octets, Len(b) >= 8, NEW o, NEW plain, NEW r1, NEW r2, NEW r3, NEW r4,
           BlockStep(b, plain, [at |-> o, failed |-> FALSE, found |-> [t \in Wanted |-> <<>>]]) = r1,
           BlockStep(b, plain, r1) = r2, BlockStep(b, plain, r2) = r3,
           BlockStep(b, plain, r3) = r4, BlockStep(b, plain, r4) = r4
    PROVE  Blocks(b, o, plain) = IF r4.failed THEN Malformed ELSE r4.found
<1> DEFINE n == Len(b) \div 2
           start == [at |-> o, failed |-> FALSE, found |-> [t \in Wanted |-> <<>>]]
           read[i \in 0 .. n] == IF i = 0 THEN start ELSE BlockStep(b, plain, read[i - 1])
           g == [i \in 0 .. n |-> IF i = 0 THEN start ELSE IF i = 1 THEN r1 ELSE IF i = 2 THEN r2
                                  ELSE IF i = 3 THEN r3 ELSE r4]
<1>1. Blocks(b, o, plain) = IF read[n].failed THEN Malformed ELSE read[n].found
  BY DEF Blocks
<1>2. n \in Nat /\ n >= 4
  BY DEF Octets
<1> HIDE DEF n, start
<1>3. g = [i \in 0 .. n |-> IF i = 0 THEN start ELSE BlockStep(b, plain, g[i - 1])]
  <2>1. g[0] = start /\ g[1] = r1 /\ g[2] = r2 /\ g[3] = r3 /\ \A i \in 4 .. n : g[i] = r4
    BY <1>2
  <2>2. ASSUME NEW i \in 0 .. n
        PROVE  g[i] = IF i = 0 THEN start ELSE BlockStep(b, plain, g[i - 1])
    <3>1. CASE i = 0
      BY <2>1, <3>1
    <3>2. CASE i = 1
      BY <2>1, <3>2 DEF start
    <3>3. CASE i = 2
      BY <2>1, <3>3
    <3>4. CASE i = 3
      BY <2>1, <3>4
    <3>5. CASE i = 4
      BY <1>2, <2>1, <3>5
    <3>6. CASE i > 4
      <4>1. i \in 4 .. n /\ i - 1 \in 4 .. n /\ i # 0
        BY <1>2, <3>6
      <4> HIDE DEF g
      <4> QED BY <2>1, <4>1
    <3> QED BY <3>1, <3>2, <3>3, <3>4, <3>5, <3>6
  <2> QED BY <2>2
<1>4. read = [i \in 0 .. n |-> IF i = 0 THEN start ELSE BlockStep(b, plain, read[i - 1])]
  <2> HIDE DEF g
  <2> QED BY <1>3 DEF read
<1> HIDE DEF read, g
<1>5. /\ read[0] = start /\ read[1] = r1 /\ read[2] = r2 /\ read[3] = r3 /\ read[4] = r4
  <2>1. 0 \in 0 .. n /\ 1 \in 0 .. n /\ 2 \in 0 .. n /\ 3 \in 0 .. n /\ 4 \in 0 .. n
    BY <1>2
  <2>2. 1 - 1 = 0 /\ 2 - 1 = 1 /\ 3 - 1 = 2 /\ 4 - 1 = 3
    OBVIOUS
  <2>3. read[0] = start
    BY <1>4, <2>1
  <2>4. read[1] = BlockStep(b, plain, read[0])
    BY <1>4, <2>1, <2>2
  <2>5. read[1] = r1
    BY <2>3, <2>4 DEF start
  <2>6. read[2] = r2
    BY <1>4, <2>1, <2>2, <2>5
  <2>7. read[3] = r3
    BY <1>4, <2>1, <2>2, <2>6
  <2>8. read[4] = r4
    BY <1>4, <2>1, <2>2, <2>7
  <2> QED BY <2>3, <2>5, <2>6, <2>7, <2>8
<1>6. read[n] = r4
  <2> DEFINE T == {i \in Nat : i >= 4 /\ i <= n => read[i] = r4}
  <2>1. 0 \in T
    OBVIOUS
  <2>2. ASSUME NEW i \in Nat, i \in T PROVE i + 1 \in T
    <3>1. SUFFICES ASSUME i + 1 >= 4, i + 1 <= n PROVE read[i + 1] = r4
      OBVIOUS
    <3>2. CASE i = 3
      BY <1>5, <3>2
    <3>3. CASE i # 3
      <4>1. i >= 4 /\ i <= n /\ i + 1 \in 0 .. n /\ i + 1 # 0 /\ i + 1 - 1 = i
        BY <1>2, <3>1, <3>3
      <4>2. read[i] = r4
        BY <2>2, <4>1
      <4> QED BY <1>4, <4>1, <4>2
    <3> QED BY <3>2, <3>3
  <2> HIDE DEF T
  <2>3. n \in T
    BY <1>2, <2>1, <2>2, Inductive
  <2> QED BY <1>2, <2>3 DEF T
<1> QED BY <1>1, <1>6

\* The state of the reading, in its fields.
Found(d, f, g) == [t \in {1, 2, 6} |-> IF t = 1 THEN d ELSE IF t = 2 THEN f ELSE g]

State(at, d, f, g) == [at |-> at, failed |-> FALSE, found |-> Found(d, f, g)]

\* What has been found of each type of block.
LEMMA FoundIs ==
    ASSUME NEW d, NEW f, NEW g, NEW x
    PROVE  /\ Found(d, f, g)[1] = d /\ Found(d, f, g)[2] = f /\ Found(d, f, g)[6] = g
           /\ [Found(d, f, g) EXCEPT ![1] = x] = Found(x, f, g)
           /\ [Found(d, f, g) EXCEPT ![2] = x] = Found(d, x, g)
           /\ [Found(d, f, g) EXCEPT ![6] = x] = Found(d, f, x)
           /\ [t \in Wanted |-> <<>>] = Found(<<>>, <<>>, <<>>)
<1> DEFINE F == Found(d, f, g)
<1>1. F = [t \in {1, 2, 6} |-> IF t = 1 THEN d ELSE IF t = 2 THEN f ELSE g]
  BY DEF Found
<1>2. [F EXCEPT ![1] = x] = [t \in {1, 2, 6} |-> IF t = 1 THEN x ELSE IF t = 2 THEN f ELSE g]
  BY <1>1
<1>3. [F EXCEPT ![2] = x] = [t \in {1, 2, 6} |-> IF t = 1 THEN d ELSE IF t = 2 THEN x ELSE g]
  BY <1>1
<1>4. [F EXCEPT ![6] = x] = [t \in {1, 2, 6} |-> IF t = 1 THEN d ELSE IF t = 2 THEN f ELSE x]
  BY <1>1
<1>5. [t \in Wanted |-> <<>>] = Found(<<>>, <<>>, <<>>)
  BY DEF Found, Wanted, DEVICE_INFO, SUPP_SVC_FAMILIES, SECURED_SERVICE_FAMILIES
<1>6. F[1] = d /\ F[2] = f /\ F[6] = g
  BY <1>1
<1> QED BY <1>2, <1>3, <1>4, <1>5, <1>6 DEF Found

StateHas(r, at, d, f, g) ==
    /\ r.at = at /\ r.failed = FALSE /\ r.found = Found(d, f, g)
    /\ r.found[1] = d /\ r.found[2] = f /\ r.found[6] = g

\* The state of the reading is its three fields.
LEMMA StateIs ==
    ASSUME NEW at, NEW d, NEW f, NEW g
    PROVE  StateHas(State(at, d, f, g), at, d, f, g)
BY FoundIs DEF StateHas, State

\* A block that is kept moves the offset and is found.
LEMMA Moved ==
    ASSUME NEW at, NEW d, NEW f, NEW g, NEW x
    PROVE  [State(at, d, f, g) EXCEPT !.at = x] = State(x, d, f, g)
<1> DEFINE r == State(at, d, f, g)
           s == [r EXCEPT !.at = x]
           F == Found(d, f, g)
<1>1. r \in [at : {at}, failed : {FALSE}, found : {F}]
  BY DEF State
<1> HIDE DEF r, F
<1>2. s \in [at : {x}, failed : {FALSE}, found : {F}]
  BY <1>1
<1> HIDE DEF s
<1>3. s = [at |-> x, failed |-> FALSE, found |-> F]
  BY <1>2
<1> QED BY <1>3 DEF State, F, r, s

\* A block that fits is looked at, unless a plain response has its two.
AtBlock(b, plain, at, d, f) ==
    /\ at + 2 <= Len(b) /\ Byte(b, at) >= 2 /\ Structure(b, at)
    /\ plain => d = <<>> \/ f = <<>>

\* So the loop goes on there.
LEMMA MoreToRead ==
    ASSUME NEW b, NEW plain, NEW at, NEW d, NEW f, NEW g, AtBlock(b, plain, at, d, f)
    PROVE  MoreBlocks(b, plain, State(at, d, f, g)) = TRUE
<1> DEFINE r == State(at, d, f, g)
<1>1. r.at = at /\ r.failed = FALSE /\ r.found[1] = d /\ r.found[2] = f
  <2> HIDE DEF r
  <2>1. StateHas(r, at, d, f, g)
    BY StateIs DEF r
  <2> QED BY <2>1 DEF StateHas
<1> HIDE DEF r
<1>2. MoreBlocks(b, plain, r)
  BY <1>1 DEF MoreBlocks, AtBlock, DEVICE_INFO, SUPP_SVC_FAMILIES
<1>3. MoreBlocks(b, plain, r) \in BOOLEAN
  BY DEF MoreBlocks
<1> QED BY <1>2, <1>3 DEF r

\* The device information is read and kept.
LEMMA DeviceStep ==
    ASSUME NEW b, NEW plain \in BOOLEAN, NEW at \in Nat, AtBlock(b, plain, at, <<>>, <<>>),
           Byte(b, at + 1) = 1, ParseDeviceInfo(b, at) # Malformed
    PROVE  BlockStep(b, plain, State(at, <<>>, <<>>, <<>>))
             = State(at + 54, <<ParseDeviceInfo(b, at)>>, <<>>, <<>>)
<1> DEFINE r == State(at, <<>>, <<>>, <<>>)
           block == ParseDeviceInfo(b, at)
<1>1. r.at = at /\ r.failed = FALSE /\ r.found[1] = <<>> /\ r.found = Found(<<>>, <<>>, <<>>)
  <2> HIDE DEF r
  <2>1. StateHas(r, at, <<>>, <<>>, <<>>)
    BY StateIs DEF r
  <2> QED BY <2>1 DEF StateHas
<1>2. MoreBlocks(b, plain, r)
  BY MoreToRead
<1> HIDE DEF r
<1>3. KeepBlock(r, 1, block) = State(at + 54, <<block>>, <<>>, <<>>)
  <2>1. KeepBlock(r, 1, block)
          = [at |-> at + 54, failed |-> FALSE, found |-> [r.found EXCEPT ![1] = <<block>>]]
    BY <1>1 DEF KeepBlock, DEVICE_INFO
  <2>2. [r.found EXCEPT ![1] = <<block>>] = Found(<<block>>, <<>>, <<>>)
    BY <1>1, FoundIs
  <2> QED BY <2>1, <2>2 DEF State
<1>4. BlockStep(b, plain, r) = KeepBlock(r, 1, block)
  BY <1>1, <1>2 DEF BlockStep, Wanted, DEVICE_INFO, SUPP_SVC_FAMILIES, SECURED_SERVICE_FAMILIES
<1> QED BY <1>3, <1>4 DEF r

\* A block of another type is skipped.
LEMMA SkippedStep ==
    ASSUME NEW b, NEW plain \in BOOLEAN, NEW at \in Nat, NEW d, AtBlock(b, plain, at, d, <<>>),
           Byte(b, at + 1) = 7, Byte(b, at) = 6
    PROVE  BlockStep(b, plain, State(at, d, <<>>, <<>>)) = State(at + 6, d, <<>>, <<>>)
<1> DEFINE r == State(at, d, <<>>, <<>>)
<1>1. r.at = at
  <2> HIDE DEF r
  <2>1. StateHas(r, at, d, <<>>, <<>>)
    BY StateIs DEF r
  <2> QED BY <2>1 DEF StateHas
<1>2. MoreBlocks(b, plain, r)
  BY MoreToRead
<1>3. [r EXCEPT !.at = at + 6] = State(at + 6, d, <<>>, <<>>)
  BY Moved
<1> HIDE DEF r
<1>4. BlockStep(b, plain, r) = [r EXCEPT !.at = at + 6]
  BY <1>1, <1>2 DEF BlockStep, Wanted, DEVICE_INFO, SUPP_SVC_FAMILIES, SECURED_SERVICE_FAMILIES
<1> QED BY <1>3, <1>4 DEF r

\* The service families are read and kept.
LEMMA FamiliesStep ==
    ASSUME NEW b, NEW plain \in BOOLEAN, NEW at \in Nat, NEW d, AtBlock(b, plain, at, d, <<>>),
           NEW block, block # Malformed, ParseServiceFamilies(b, at) = block,
           Byte(b, at + 1) = 2
    PROVE  BlockStep(b, plain, State(at, d, <<>>, <<>>))
             = State(at + ServiceFamiliesLength(block), d, <<block>>, <<>>)
<1> DEFINE r == State(at, d, <<>>, <<>>)
           length == ServiceFamiliesLength(block)
<1>1. r.at = at /\ r.failed = FALSE /\ r.found[2] = <<>> /\ r.found = Found(d, <<>>, <<>>)
  <2> HIDE DEF r
  <2>1. StateHas(r, at, d, <<>>, <<>>)
    BY StateIs DEF r
  <2> QED BY <2>1 DEF StateHas
<1>2. MoreBlocks(b, plain, r)
  BY MoreToRead
<1> HIDE DEF length
<1> HIDE DEF r
<1>3. KeepBlock(r, 2, block) = State(at + length, d, <<block>>, <<>>)
  <2>1. KeepBlock(r, 2, block)
          = [at |-> at + length, failed |-> FALSE, found |-> [r.found EXCEPT ![2] = <<block>>]]
    BY <1>1 DEF KeepBlock, DEVICE_INFO, length
  <2>2. [r.found EXCEPT ![2] = <<block>>] = Found(d, <<block>>, <<>>)
    BY <1>1, FoundIs
  <2> QED BY <2>1, <2>2 DEF State
<1>4. BlockStep(b, plain, r) = KeepBlock(r, 2, block)
  BY <1>1, <1>2 DEF BlockStep, Wanted, DEVICE_INFO, SUPP_SVC_FAMILIES, SECURED_SERVICE_FAMILIES
<1> QED BY <1>3, <1>4 DEF r, length

\* The secured families are kept, unless the response is a plain one.
LEMMA SecuredStep ==
    ASSUME NEW b, NEW plain \in BOOLEAN, ~plain, NEW at \in Nat, NEW d, NEW f,
           AtBlock(b, plain, at, d, f),
           NEW block, block # Malformed, ParseServiceFamilies(b, at) = block,
           Byte(b, at + 1) = 6
    PROVE  BlockStep(b, plain, State(at, d, f, <<>>))
             = State(at + ServiceFamiliesLength(block), d, f, <<block>>)
<1> DEFINE r == State(at, d, f, <<>>)
           length == ServiceFamiliesLength(block)
<1>1. r.at = at /\ r.failed = FALSE /\ r.found = Found(d, f, <<>>)
  <2> HIDE DEF r
  <2>1. StateHas(r, at, d, f, <<>>)
    BY StateIs DEF r
  <2> QED BY <2>1 DEF StateHas
<1>2. MoreBlocks(b, plain, r)
  BY MoreToRead
<1> HIDE DEF length
<1> HIDE DEF r
<1>3. KeepBlock(r, 6, block) = State(at + length, d, f, <<block>>)
  <2>1. KeepBlock(r, 6, block)
          = [at |-> at + length, failed |-> FALSE, found |-> [r.found EXCEPT ![6] = <<block>>]]
    BY <1>1 DEF KeepBlock, DEVICE_INFO, length
  <2>2. [r.found EXCEPT ![6] = <<block>>] = Found(d, f, <<block>>)
    BY <1>1, FoundIs
  <2> QED BY <2>1, <2>2 DEF State
<1>4. BlockStep(b, plain, r) = KeepBlock(r, 6, block)
  BY <1>1, <1>2 DEF BlockStep, Wanted, DEVICE_INFO, SUPP_SVC_FAMILIES, SECURED_SERVICE_FAMILIES
<1> QED BY <1>3, <1>4 DEF r, length

\* No more blocks: at the end, or in a plain response that has its two.
NoMore(b, plain, at, d, f) ==
    ~(at + 2 <= Len(b)) \/ (plain /\ d # <<>> /\ f # <<>>)

\* Then the loop is over.
LEMMA LastStep ==
    ASSUME NEW b, NEW plain \in BOOLEAN, NEW at, NEW d, NEW f, NEW g,
           NoMore(b, plain, at, d, f)
    PROVE  BlockStep(b, plain, State(at, d, f, g)) = State(at, d, f, g)
<1> DEFINE r == State(at, d, f, g)
<1>1. r.at = at /\ r.found[1] = d /\ r.found[2] = f
  <2> HIDE DEF r
  <2>1. StateHas(r, at, d, f, g)
    BY StateIs DEF r
  <2> QED BY <2>1 DEF StateHas
<1> HIDE DEF r
<1>2. ~MoreBlocks(b, plain, r)
  BY <1>1 DEF NoMore, MoreBlocks, DEVICE_INFO, SUPP_SVC_FAMILIES
<1>3. BlockStep(b, plain, r) = r
  BY <1>2 DEF BlockStep
<1> QED BY <1>3 DEF r

\* The secured families the client keeps.
SecuredFamilies(a) ==
    IF a.extended /\ a.secured # <<>> THEN <<Described(6, a.secured[1])>> ELSE <<>>

-----------------------------------------------------------------------------
(* The response of a device, read *)

\* Its parts are buffers.
LEMMA HPAIWritten ==
    ASSUME NEW ip \in Octets, NEW port \in Words
    PROVE  HPAIBytes(HPAI(ip, port, IPV4_UDP)) \in Octets
<1> DEFINE head == <<8, 1>>
           word == U16Bytes(port)
<1>1. 8 \in Octet /\ 1 \in Octet
  BY OctetIs
<1>2. head \in Octets /\ word \in Octets
  BY <1>1, OctetTuples, U16Is
<1>3. HPAIBytes(HPAI(ip, port, IPV4_UDP)) = head \o ip \o word
  BY DEF HPAIBytes, HPAI, IPV4_UDP
<1> HIDE DEF head, word
<1> QED BY <1>2, <1>3 DEF Octets

ServiceOfAnswer(a) == IF a.extended THEN SEARCH_RESPONSE_EXTENDED ELSE SEARCH_RESPONSE

\* The families end the body, or the secured ones do.
SecuredEnd(a, b, at) ==
    IF a.secured = <<>> THEN Len(b) = at
    ELSE /\ FamiliesIs(b, at, 6, a.secured[1], <<>>)
         /\ Len(b) = at + 2 + 2 * Len(a.secured[1])

\* A response read by its service.
LEMMA ResponsesRead ==
    ASSUME NEW b, NEW hpai, ParseHPAI(b, 0) = hpai, hpai # Malformed,
           NEW d, NEW f, NEW g, NEW plain \in BOOLEAN, Blocks(b, 8, plain) = Found(<<d>>, <<f>>, g),
           Found(<<d>>, <<f>>, g) # Malformed
    PROVE  IF plain THEN ParseSearchResponse(b) = SearchResponse(hpai, d, f)
           ELSE ParseSecureSearchResponse(b) = SecureSearchResponse(hpai, <<d>>, <<f>>, g)
<1> DEFINE found == Found(<<d>>, <<f>>, g)
<1>1. found[1] = <<d>> /\ found[2] = <<f>> /\ found[6] = g
  BY DEF Found
<1>2. Blocks(b, 8, plain) = found /\ found # Malformed
  OBVIOUS
<1> HIDE DEF found
<1>3. CASE plain = TRUE
  <2>1. Blocks(b, 8, TRUE) = found
    BY <1>2, <1>3
  <2>2. ParseSearchResponse(b) = PlainResponse(hpai, found)
    BY <1>2, <2>1 DEF ParseSearchResponse, WithBoth
  <2>3. PlainResponse(hpai, found) = SearchResponse(hpai, d, f)
    BY <1>1 DEF PlainResponse, DEVICE_INFO, SUPP_SVC_FAMILIES
  <2> QED BY <1>3, <2>2, <2>3
<1>4. CASE plain = FALSE
  <2>1. Blocks(b, 8, FALSE) = found
    BY <1>2, <1>4
  <2>2. ParseSecureSearchResponse(b) = ExtendedResponse(hpai, found)
    BY <1>2, <2>1 DEF ParseSecureSearchResponse, WithBoth
  <2>3. ExtendedResponse(hpai, found) = SecureSearchResponse(hpai, <<d>>, <<f>>, g)
    BY <1>1 DEF ExtendedResponse, DEVICE_INFO, SUPP_SVC_FAMILIES, SECURED_SERVICE_FAMILIES
  <2> QED BY <1>4, <2>2, <2>3
<1> QED BY <1>3, <1>4

-----------------------------------------------------------------------------
(* Group telegrams, and the packets that carry them *)

\* A group telegram, in its fields: the acknowledgement it asks for, the couplers it
\* may still pass.
Telegram(code, ack, hop, src, dst, npdu) ==
    CEMI(code, <<>>, <<188 + 2 * ack, 128 + 16 * hop>>, src, dst, npdu)

IsTelegram(code, ack, hop, src, dst, npdu) ==
    /\ code \in {L_DATA_REQ, L_DATA_IND} /\ ack \in 0 .. 1 /\ hop \in {5, 6}
    /\ src \in Words /\ dst \in Words /\ npdu \in NPDUFields

\* The packet library can write such a telegram, and these are its fields.
LEMMA TelegramFields ==
    ASSUME NEW code, NEW ack, NEW hop, NEW src, NEW dst, NEW npdu,
           IsTelegram(code, ack, hop, src, dst, npdu)
    PROVE  LET t == Telegram(code, ack, hop, src, dst, npdu)
           IN  /\ t \in Sendable
               /\ t.msgCode = code /\ t.additionalInfo = <<>> /\ t.srcAddress = src
               /\ t.dstAddress = dst /\ t.npdu = npdu
               /\ t.control = <<188 + 2 * ack, 128 + 16 * hop>>
               /\ IsGroupAddress(t.control) /\ Bits(t.control[1], 2, 2) = 3
<1> DEFINE t == Telegram(code, ack, hop, src, dst, npdu)
           k == 188 + 2 * ack
           l == 128 + 16 * hop
<1>1. /\ ack \in 0 .. 1 /\ hop \in {5, 6} /\ code \in {L_DATA_REQ, L_DATA_IND}
      /\ src \in Words /\ dst \in Words /\ npdu \in NPDUFields
  BY DEF IsTelegram
<1>2. k \in Octet /\ l \in Octet
  BY <1>1, OctetIs
<1>3. Bits(l, 7, 1) = 1 /\ Bits(k, 2, 2) = 3
  <2>1. l \in {208, 224} /\ k \in {188, 190}
    BY <1>1
  <2> HIDE DEF k, l
  <2>2. Bits(208, 7, 1) = 1 /\ Bits(224, 7, 1) = 1 /\ Bits(188, 2, 2) = 3 /\ Bits(190, 2, 2) = 3
    BY DEF Bits
  <2> QED BY <2>1, <2>2
<1> HIDE DEF k, l
<1>4. t = [msgCode |-> code, additionalInfo |-> <<>>, control |-> <<k, l>>,
           srcAddress |-> src, dstAddress |-> dst, npdu |-> npdu]
  BY DEF Telegram, CEMI, k, l
<1> HIDE DEF t
<1>5. /\ t.msgCode = code /\ t.additionalInfo = <<>> /\ t.srcAddress = src
      /\ t.dstAddress = dst /\ t.npdu = npdu /\ t.control = <<k, l>>
      /\ t.control[1] = k /\ t.control[2] = l
  BY <1>4
<1>6. <<k, l>> \in Octet \X Octet
  BY <1>2
<1>7. t \in Sendable
  BY <1>1, <1>4, <1>6 DEF Sendable
<1>8. IsGroupAddress(t.control) /\ Bits(t.control[1], 2, 2) = 3
  BY <1>3, <1>5 DEF IsGroupAddress
<1> QED BY <1>5, <1>7, <1>8 DEF t, k, l

\* What the data setter makes of a buffer has at most its octets.
LEMMA DataShort ==
    ASSUME NEW action \in 0 .. 2, NEW buffer \in Buffers, Len(buffer.octets) <= 241
    PROVE  LET npdu == WithData([tpci |-> 0, apci |-> 64 * action, data |-> <<>>],
                                buffer.octets, buffer.sixBits)
           IN  npdu.tpci = 0 /\ Len(FlattenSeq(npdu.data)) <= 241
<1> DEFINE a == 64 * action
           bare == [tpci |-> 0, apci |-> a, data |-> <<>>]
           octets == buffer.octets
           six == buffer.sixBits
           npdu == WithData(bare, octets, six)
<1>1. octets \in Octets
  BY DEF Buffers, Payloads
<1> HIDE DEF a, octets, six
<1>2. CASE six /\ Len(octets) = 1 /\ octets[1] <= 63
  <2>1. npdu = [bare EXCEPT !.apci = 64 * Bits(@, 6, 2) + octets[1], !.data = <<>>]
    BY <1>2 DEF WithData
  <2> DEFINE n == 64 * Bits(a, 6, 2) + octets[1]
  <2>2. npdu = [tpci |-> 0, apci |-> n, data |-> <<>>]
    BY <2>1
  <2> HIDE DEF npdu, n
  <2>3. npdu.tpci = 0 /\ npdu.data = <<>>
    BY <2>2
  <2> QED BY <2>3, Flat DEF npdu, octets, six, a
<1>3. CASE ~(six /\ Len(octets) = 1 /\ octets[1] <= 63)
  <2>1. npdu = [bare EXCEPT !.data = <<octets>>]
    BY <1>3 DEF WithData
  <2>2. npdu.tpci = 0 /\ npdu.data = <<octets>>
    BY <2>1
  <2> HIDE DEF npdu
  <2>3. Len(octets) <= 241
    BY DEF octets
  <2> QED BY <1>1, <2>2, <2>3, Flat DEF npdu, octets, six, a
<1> QED BY <1>2, <1>3 DEF octets, six, a

\* The bits of a telegram of the library.
LEMMA GroupControlIs ==
    ASSUME NEW ack \in 0 .. 1
    PROVE  GroupControl(ack) = <<188 + 2 * ack, 128 + 16 * 6>>
<1>1. WithAck(DefaultControl, ack) = <<188 + 2 * ack, 224>>
  BY DEF WithAck, DefaultControl, WithBits, Bits
<1>2. WithBroadcast(<<188 + 2 * ack, 224>>, 1) = <<188 + 2 * ack, 224>>
  BY DEF WithBroadcast, WithBits, Bits
<1>3. WithPriority(<<188 + 2 * ack, 224>>, 3) = <<188 + 2 * ack, 224>>
  BY DEF WithPriority, WithBits, Bits
<1>4. WithAddressType(<<188 + 2 * ack, 224>>, 1) = <<188 + 2 * ack, 224>>
  BY DEF WithAddressType, WithBits, Bits
<1>5. WithHopCount(<<188 + 2 * ack, 224>>, 6) = <<188 + 2 * ack, 224>>
  BY DEF WithHopCount, WithBits, Bits
<1>6. 128 + 16 * 6 = 224
  OBVIOUS
<1> QED BY <1>1, <1>2, <1>3, <1>4, <1>5, <1>6 DEF GroupControl

\* The packet that carries a telegram, for each transport.
PacketWith(c, t) ==
    IF c.hostProtocol \in {"Multicast", "SerialFT12"} THEN RoutingIndication(t)
    ELSE TunnelingRequest(c.channelID, IF c.hostProtocol = "TunnelTCP" THEN 0 ELSE c.seq, t)

\* The message code of a call.
CodeFor(c) == IF c.hostProtocol = "Multicast" THEN L_DATA_IND ELSE L_DATA_REQ

\* GroupPacket makes such a packet, of the transport of its client, of every write,
\* answer and read.
LEMMA PacketIs ==
    ASSUME NEW c \in Senders, NEW action \in 0 .. 2, NEW dst \in Seq(Nat),
           ValidAddress(dst, TRUE), NEW ack \in 0 .. 1,
           NEW buffer \in {<<>>} \cup {<<b>> : b \in Buffers},
           buffer # <<>> => Len(buffer[1].octets) <= 241
    PROVE  \E npdu \in NPDUFields :
              /\ GroupPacket(c, action, dst, buffer, ack)
                   = PacketWith(c, Telegram(CodeFor(c), ack, 6, c.physAddr,
                                            AddressNumber(dst, TRUE), npdu))
              /\ npdu.tpci = 0 /\ Len(FlattenSeq(npdu.data)) <= 241 /\ Action(npdu) = action
              /\ DataValue(npdu) = IF buffer = <<>> THEN <<0>> ELSE buffer[1].octets
<1> DEFINE code == CodeFor(c)
           dest == AddressNumber(dst, TRUE)
           data == IF buffer = <<>> THEN <<>> ELSE <<buffer[1].octets>>
           six == IF buffer = <<>> THEN FALSE ELSE buffer[1].sixBits
           bare == [tpci |-> 0, apci |-> 64 * action, data |-> <<>>]
           npdu == IF data = <<>> THEN bare ELSE WithData(bare, data[1], six)
           control == GroupControl(ack)
           plain == NewCEMI(code, action, c.physAddr, dest, data, six)
           cemi == [plain EXCEPT !.control = control]
<1>1. /\ npdu \in NPDUFields /\ Action(npdu) = action
      /\ npdu.tpci = 0 /\ Len(FlattenSeq(npdu.data)) <= 241
      /\ DataValue(npdu) = IF buffer = <<>> THEN <<0>> ELSE buffer[1].octets
  <2>1. CASE buffer = <<>>
    <3>1. data = <<>> /\ npdu = bare
      BY <2>1
    <3>2. 64 * action + 0 = 64 * action
      OBVIOUS
    <3>3. /\ Action([tpci |-> 0, apci |-> 64 * action + 0, data |-> <<>>]) = action
          /\ 64 * action + 0 \in Octet /\ Low(64 * action + 0, 6) = 0
      BY ActionOf
    <3>4. Action(bare) = action /\ 64 * action \in Octet /\ Low(64 * action, 6) = 0
      BY <3>2, <3>3
    <3>5. 0 \in Octet /\ <<>> \in DataFields
      BY OctetIs DEF DataFields
    <3>6. bare \in NPDUFields
      BY <3>4, <3>5 DEF NPDUFields
    <3>7. bare.tpci = 0 /\ bare.data = <<>> /\ bare.apci = 64 * action
      OBVIOUS
    <3> HIDE DEF npdu, bare
    <3>8. DataValue(bare) = <<0>>
      BY <3>4, <3>7 DEF DataValue
    <3>9. Len(FlattenSeq(bare.data)) = 0
      BY <3>7, Flat
    <3> QED BY <2>1, <3>1, <3>4, <3>6, <3>7, <3>8, <3>9
  <2>2. CASE buffer # <<>>
    <3>1. PICK b \in Buffers : buffer = <<b>>
      BY <2>2
    <3>2. data = <<b.octets>> /\ six = b.sixBits /\ data # <<>> /\ data[1] = b.octets
          /\ Len(b.octets) <= 241
      BY <3>1
    <3>3. npdu = WithData(bare, b.octets, b.sixBits)
      <4> HIDE DEF data, six, bare
      <4> QED BY <3>2
    <3>4. /\ WithData(bare, b.octets, b.sixBits) \in NPDUFields
          /\ Action(WithData(bare, b.octets, b.sixBits)) = action
          /\ DataValue(WithData(bare, b.octets, b.sixBits)) = b.octets
      BY DataSet
    <3>5. /\ WithData(bare, b.octets, b.sixBits).tpci = 0
          /\ Len(FlattenSeq(WithData(bare, b.octets, b.sixBits).data)) <= 241
      BY <3>2, DataShort
    <3> HIDE DEF npdu, bare
    <3> QED BY <2>2, <3>1, <3>3, <3>4, <3>5
  <2> QED BY <2>1, <2>2
<1>2. plain = CEMI(code, <<>>, DefaultControl, c.physAddr, dest, npdu)
  <2>1. WithAction([tpci |-> 0, apci |-> 0, data |-> <<>>], action) = bare
    BY BareNPDU
  <2> HIDE DEF code, dest, data, six, bare
  <2> QED BY <2>1 DEF NewCEMI
<1>3. control = <<188 + 2 * ack, 128 + 16 * 6>>
  BY GroupControlIs
<1> HIDE DEF npdu, control, dest, code, plain, six, data
<1>4. cemi = Telegram(code, ack, 6, c.physAddr, dest, npdu)
  BY <1>2, <1>3 DEF CEMI, Telegram
<1>5. GroupPacket(c, action, dst, buffer, ack) = PacketWith(c, cemi)
  <2>1. code = IF c.hostProtocol = "Multicast" THEN L_DATA_IND ELSE L_DATA_REQ
    BY DEF code, CodeFor
  <2>2. (c.hostProtocol = "Multicast" \/ c.hostProtocol = "SerialFT12")
          <=> c.hostProtocol \in {"Multicast", "SerialFT12"}
    OBVIOUS
  <2> QED BY <2>1, <2>2 DEF GroupPacket, PacketWith, dest, data, six, control, plain
<1> HIDE DEF cemi
<1> QED BY <1>1, <1>4, <1>5 DEF code, dest

\* The transports of a client.
Protocols == {"TunnelUDP", "TunnelTCP", "Multicast", "SecureMulticast", "SerialFT12"}

\* The number of a group in packets.
GroupNumber(dst) == AddressNumber(dst, TRUE)

\* A group address.
IsGroup(dst) == dst \in Seq(Nat) /\ ValidAddress(dst, TRUE)

\* The buffer of a packet, if there is one.
Buffered(buffer) == buffer \in {<<>>} \cup {<<b>> : b \in Buffers}

\* What PacketIs says, of one packet.
MadeFrom(p, c, action, dst, content) ==
    \E npdu, ack :
        /\ npdu \in NPDUFields /\ ack \in 0 .. 1
        /\ p = PacketWith(c, Telegram(CodeFor(c), ack, 6, c.physAddr, GroupNumber(dst), npdu))
        /\ npdu.tpci = 0 /\ Len(FlattenSeq(npdu.data)) <= 241 /\ Action(npdu) = action
        /\ DataValue(npdu) = content

\* The octets it conveys.
ContentOf(buffer) == IF buffer = <<>> THEN <<0>> ELSE buffer[1].octets

\* PacketIs, of a group.
LEMMA PacketMade ==
    ASSUME NEW c \in Senders, NEW action \in 0 .. 2, NEW dst, IsGroup(dst), NEW ack \in 0 .. 1,
           NEW buffer, Buffered(buffer), Len(ContentOf(buffer)) <= 241
    PROVE  MadeFrom(GroupPacket(c, action, dst, buffer, ack), c, action, dst, ContentOf(buffer))
<1>1. /\ buffer # <<>> => Len(buffer[1].octets) <= 241
      /\ dst \in Seq(Nat) /\ ValidAddress(dst, TRUE)
      /\ buffer \in {<<>>} \cup {<<b>> : b \in Buffers}
  BY DEF ContentOf, IsGroup, Buffered
<1>2. PICK npdu \in NPDUFields :
         /\ GroupPacket(c, action, dst, buffer, ack)
              = PacketWith(c, Telegram(CodeFor(c), ack, 6, c.physAddr, AddressNumber(dst, TRUE), npdu))
         /\ npdu.tpci = 0 /\ Len(FlattenSeq(npdu.data)) <= 241 /\ Action(npdu) = action
         /\ DataValue(npdu) = IF buffer = <<>> THEN <<0>> ELSE buffer[1].octets
  BY <1>1, PacketIs
<1> QED BY <1>2 DEF ContentOf, MadeFrom, GroupNumber

-----------------------------------------------------------------------------
(* Group telegrams, sealed and opened *)

\* A group telegram in the terms of the conversation: a call of the client, and what
\* became of its data on the way.
TelegramData(npdu) == npdu \in NPDUFields /\ npdu.tpci = 0 /\ Len(FlattenSeq(npdu.data)) <= 241

\* The octets Data Secure seals, and what it makes of them.
PlainOf(npdu) == <<0, npdu.apci>> \o FlattenSeq(npdu.data)

Apdu(key, number, src, dst, npdu) ==
    SecureApdu(key, SeqBytes(number), src, dst, <<188, 224>>, PlainOf(npdu))

SealedNPDU(apdu) == [tpci |-> APCI_SEC_HIGH, apci |-> APCI_SEC_LOW, data |-> <<apdu>>]

\* The plain octets of a telegram.
PlainIs(npdu) ==
    /\ PlainOf(npdu) \in Octets /\ Len(PlainOf(npdu)) <= 243 /\ Len(PlainOf(npdu)) \in Nat
    /\ SameTelegram(NPDUOf(PlainOf(npdu)), npdu) /\ ~IsDataSecure(npdu)

\* They are octets, and give the telegram back.
LEMMA PlainOfData ==
    ASSUME NEW npdu, TelegramData(npdu)
    PROVE  PlainIs(npdu)
<1> DEFINE apci == npdu.apci
           s == FlattenSeq(npdu.data)
           head == <<0, apci>>
<1>1. /\ apci \in Octet /\ npdu.data \in DataFields
      /\ npdu = [tpci |-> 0, apci |-> apci, data |-> npdu.data]
  BY DEF TelegramData, NPDUFields
<1>2. s \in Octets
  <2>1. CASE npdu.data = <<>>
    BY <2>1, Flat, OctetTuples
  <2>2. CASE npdu.data # <<>>
    BY <1>1, <2>2, DataCases, Flat
  <2> QED BY <2>1, <2>2
<1>3. head \in Octets /\ Len(head) = 2
  <2>1. 0 \in Octet
    BY OctetIs
  <2> QED BY <1>1, <2>1, OctetTuples
<1>4. ~IsDataSecure(npdu)
  <2>1. APCI_SEC_HIGH # 0 /\ npdu.tpci = 0
    BY DEF APCI_SEC_HIGH, TelegramData
  <2> QED BY <2>1 DEF IsDataSecure
<1>5. SameTelegram(NPDUOf(<<0, apci>> \o FlattenSeq(npdu.data)),
                   [tpci |-> 0, apci |-> apci, data |-> npdu.data])
  BY <1>1, OpenedNPDU
<1>6. SameTelegram(NPDUOf(PlainOf(npdu)), npdu)
  BY <1>1, <1>5 DEF PlainOf
<1>7. Len(s) <= 241 /\ Len(s) \in Nat
  BY <1>2 DEF TelegramData, Octets
<1>8. PlainOf(npdu) = head \o s
  BY DEF PlainOf
<1> HIDE DEF head, s, apci
<1>9. head \o s \in Octets /\ Len(head \o s) = 2 + Len(s)
  BY <1>2, <1>3, JoinedLength
<1> QED BY <1>4, <1>6, <1>7, <1>8, <1>9 DEF PlainIs

\* Data Secure takes the same bits of every telegram.
LEMMA SameFlags ==
    ASSUME NEW ack \in 0 .. 1, NEW hop \in {5, 6}
    PROVE  RelevantFlags(<<188 + 2 * ack, 128 + 16 * hop>>) = RelevantFlags(<<188, 224>>)
<1>1. WithBits(208, 4, 3, 0) = 128 /\ WithBits(224, 4, 3, 0) = 128
  BY DEF WithBits, Bits
<1> DEFINE l == 128 + 16 * hop
<1>2. l = 208 \/ l = 224
  OBVIOUS
<1>3. RelevantFlags(<<188 + 2 * ack, l>>) = WithBits(l, 4, 3, 0)
  BY DEF RelevantFlags
<1>4. RelevantFlags(<<188, 224>>) = WithBits(224, 4, 3, 0)
  BY DEF RelevantFlags
<1> HIDE DEF l
<1>5. RelevantFlags(<<188 + 2 * ack, l>>) = RelevantFlags(<<188, 224>>)
  BY <1>1, <1>2, <1>3, <1>4
<1> QED BY <1>5 DEF l

\* So the APDU is the same for every acknowledgement and hop count.
LEMMA SameApdu ==
    ASSUME NEW key, NEW seq, NEW src, NEW dst, NEW plain, NEW ack \in 0 .. 1, NEW hop \in {5, 6}
    PROVE  SecureApdu(key, seq, src, dst, <<188 + 2 * ack, 128 + 16 * hop>>, plain)
             = SecureApdu(key, seq, src, dst, <<188, 224>>, plain)
<1> DEFINE one == <<188 + 2 * ack, 128 + 16 * hop>>
           two == <<188, 224>>
<1>1. RelevantFlags(one) = RelevantFlags(two)
  BY SameFlags
<1> HIDE DEF one, two
<1>2. SecureApdu(key, seq, src, dst, one, plain) = SecureApdu(key, seq, src, dst, two, plain)
  BY <1>1 DEF SecureApdu
<1> QED BY <1>2 DEF one, two

\* A sealed telegram carries its APDU, and is opened with the key.
Seals(apdu, key, number, src, dst, npdu) ==
    /\ apdu = Apdu(key, number, src, dst, npdu)
    /\ SealedNPDU(apdu) \in NPDUFields /\ IsDataSecure(SealedNPDU(apdu))
    /\ apdu \in Octets /\ Len(apdu) \in Nat /\ Len(apdu) > 10
    /\ FlattenSeq(SealedNPDU(apdu).data) = apdu

\* The APDU that Data Secure makes of a telegram is one.
LEMMA SealedIs ==
    ASSUME NEW npdu, TelegramData(npdu), NEW key \in Octets, NEW number \in Words,
           NEW src \in Words, NEW dst \in Words
    PROVE  Seals(Apdu(key, number, src, dst, npdu), key, number, src, dst, npdu)
<1> DEFINE plain == PlainOf(npdu)
           seq == SeqBytes(number)
           apdu == SecureApdu(key, seq, src, dst, <<188, 224>>, plain)
           c == [srcAddress |-> src, dstAddress |-> dst, control |-> <<188, 224>>]
<1>1. plain \in Octets /\ Len(plain) <= 243 /\ Len(plain) \in Nat /\ Len(plain) <= 255
  <2> HIDE DEF plain
  <2>1. plain \in Octets /\ Len(plain) <= 243 /\ Len(plain) \in Nat
    BY PlainOfData DEF PlainIs, plain
  <2> QED BY <2>1
<1>2. seq \in Octets /\ Len(seq) = 6
  BY SeqBytesParts
<1>3. c.srcAddress = src /\ c.dstAddress = dst /\ c.control = <<188, 224>> /\ c.control[2] \in Octet
  <2>1. 224 \in Octet
    BY OctetIs
  <2> QED BY <2>1
<1> HIDE DEF plain, seq, c
<1>4. ApduOpens(SecureApdu(key, seq, c.srcAddress, c.dstAddress, c.control, plain), c, key, plain)
  BY <1>1, <1>2, <1>3, ApduRead
<1>5. apdu \in Octets /\ Len(apdu) = 11 + Len(plain)
  BY <1>3, <1>4 DEF ApduOpens
<1> HIDE DEF apdu
<1>6. Len(apdu) \in Nat /\ Len(apdu) > 10 /\ Len(apdu) < 255 /\ Len(apdu) > 0
  BY <1>1, <1>5
<1>7. <<apdu>> \in DataFields
  BY <1>5, <1>6 DEF DataFields
<1>8. APCI_SEC_HIGH \in Octet /\ APCI_SEC_LOW \in Octet
  BY OctetIs DEF APCI_SEC_HIGH, APCI_SEC_LOW
<1>9. SealedNPDU(apdu) \in NPDUFields
  BY <1>7, <1>8 DEF SealedNPDU, NPDUFields
<1>10. IsDataSecure(SealedNPDU(apdu))
  BY DEF IsDataSecure, SealedNPDU
<1>11. SealedNPDU(apdu).data = <<apdu>>
  BY DEF SealedNPDU
<1>12. FlattenSeq(SealedNPDU(apdu).data) = apdu
  BY <1>5, <1>11, Flat
<1>13. Apdu(key, number, src, dst, npdu) = apdu
  BY DEF Apdu, apdu, plain, seq
<1> QED BY <1>5, <1>6, <1>9, <1>10, <1>12, <1>13 DEF Seals

\* The fields of a telegram, as one fact.
HasFields(t, code, control, src, dst, npdu) ==
    t = [msgCode |-> code, additionalInfo |-> <<>>, control |-> control, srcAddress |-> src,
         dstAddress |-> dst, npdu |-> npdu]

\* A telegram has its fields.
LEMMA TelegramHas ==
    ASSUME NEW code, NEW ack, NEW hop, NEW src, NEW dst, NEW npdu
    PROVE  HasFields(Telegram(code, ack, hop, src, dst, npdu),
                     code, <<188 + 2 * ack, 128 + 16 * hop>>, src, dst, npdu)
  BY DEF HasFields, Telegram, CEMI

\* They are read from it.
LEMMA FieldsRead ==
    ASSUME NEW t, NEW code, NEW control, NEW src, NEW dst, NEW npdu,
           HasFields(t, code, control, src, dst, npdu)
    PROVE  /\ t.msgCode = code /\ t.control = control /\ t.srcAddress = src
           /\ t.dstAddress = dst /\ t.npdu = npdu
  BY DEF HasFields

\* They are changed one by one.
LEMMA FieldsChanged ==
    ASSUME NEW t, NEW code, NEW control, NEW src, NEW dst, NEW npdu,
           HasFields(t, code, control, src, dst, npdu), NEW x, NEW y, NEW z
    PROVE  /\ HasFields([t EXCEPT !.npdu = x], code, control, src, dst, x)
           /\ HasFields([t EXCEPT !.srcAddress = y, !.npdu = x], code, control, y, dst, x)
           /\ HasFields([t EXCEPT !.msgCode = x, !.srcAddress = y, !.control = z], x, z, y, dst, npdu)
<1> DEFINE t1 == [t EXCEPT !.srcAddress = y]
           t2 == [t EXCEPT !.msgCode = x]
           t3 == [t2 EXCEPT !.srcAddress = y]
<1>1. HasFields([t EXCEPT !.npdu = x], code, control, src, dst, x)
  BY DEF HasFields
<1>2. HasFields(t1, code, control, y, dst, npdu) /\ HasFields(t2, x, control, src, dst, npdu)
  BY DEF HasFields
<1>3. /\ [t EXCEPT !.srcAddress = y, !.npdu = x] = [t1 EXCEPT !.npdu = x]
      /\ [t EXCEPT !.msgCode = x, !.srcAddress = y, !.control = z] = [t3 EXCEPT !.control = z]
  BY DEF HasFields
<1> HIDE DEF t1, t2
<1>4. HasFields([t1 EXCEPT !.npdu = x], code, control, y, dst, x)
  BY <1>2 DEF HasFields
<1>5. HasFields(t3, x, control, y, dst, npdu)
  BY <1>2 DEF HasFields
<1> HIDE DEF t3
<1>6. HasFields([t3 EXCEPT !.control = z], x, z, y, dst, npdu)
  BY <1>5 DEF HasFields
<1> QED BY <1>1, <1>3, <1>4, <1>6

\* A record of these fields is that telegram.
LEMMA SameFields ==
    ASSUME NEW t, NEW code, NEW ack, NEW hop, NEW src, NEW dst, NEW npdu,
           HasFields(t, code, <<188 + 2 * ack, 128 + 16 * hop>>, src, dst, npdu)
    PROVE  t = Telegram(code, ack, hop, src, dst, npdu)
  BY DEF HasFields, Telegram, CEMI

\* What the sender does with the data of a telegram: nothing to a group without a key.
Sealing(ks, number, own, src, dst, npdu) ==
    IF dst \notin DOMAIN ks THEN [from |-> src, npdu |-> npdu]
    ELSE LET from == IF own # 0 THEN own ELSE src
         IN  [from |-> from, npdu |-> SealedNPDU(Apdu(ks[dst], number, from, dst, npdu))]

\* maybeApplyDataSecure puts the sealed data, and the sender it was sealed for, in the
\* telegram.
LEMMA TelegramSealed ==
    ASSUME NEW code, NEW ack \in 0 .. 1, NEW src \in Words, NEW dst \in Words, NEW npdu,
           TelegramData(npdu), NEW ks, dst \in DOMAIN ks => ks[dst] \in Octets,
           NEW number \in Words, NEW own \in Words
    PROVE  LET s == Sealing(ks, number, own, src, dst, npdu)
           IN  /\ MaybeApplyDataSecure(Telegram(code, ack, 6, src, dst, npdu), ks, number, own)
                    = Telegram(code, ack, 6, s.from, dst, s.npdu)
               /\ s.from \in Words /\ s.npdu \in NPDUFields
<1> DEFINE t == Telegram(code, ack, 6, src, dst, npdu)
           control == <<188 + 2 * ack, 128 + 16 * 6>>
           s == Sealing(ks, number, own, src, dst, npdu)
<1>1. HasFields(t, code, control, src, dst, npdu)
  BY TelegramHas
<1> HIDE DEF t, control
<1>2. /\ t.msgCode = code /\ t.control = control /\ t.srcAddress = src
      /\ t.dstAddress = dst /\ t.npdu = npdu
  BY <1>1, FieldsRead
<1>3. ~IsDataSecure(npdu) /\ npdu \in NPDUFields
  BY PlainOfData DEF PlainIs, TelegramData
<1>4. CASE dst \notin DOMAIN ks
  <2>1. MaybeApplyDataSecure(t, ks, number, own) = t
    BY <1>2, <1>4 DEF MaybeApplyDataSecure
  <2>2. s.from = src /\ s.npdu = npdu
    BY <1>4 DEF Sealing
  <2> HIDE DEF s
  <2> QED BY <1>3, <2>1, <2>2 DEF t, s
<1>5. CASE dst \in DOMAIN ks
  <2> DEFINE from == IF own # 0 THEN own ELSE src
             key == ks[dst]
             apdu == Apdu(key, number, from, dst, npdu)
             plain == <<npdu.tpci, npdu.apci>> \o FlattenSeq(npdu.data)
             n1 == [npdu EXCEPT !.tpci = APCI_SEC_HIGH, !.apci = APCI_SEC_LOW]
             n2 == WithData(n1, apdu, TRUE)
  <2>1. from \in Words /\ key \in Octets
    BY <1>5
  <2> HIDE DEF from, key
  <2>2. Seals(apdu, key, number, from, dst, npdu)
    BY <2>1, SealedIs
  <2>3. plain = PlainOf(npdu)
    BY DEF PlainOf, TelegramData
  <2>4. SecureApdu(key, SeqBytes(number), from, dst, control, plain) = apdu
    <3> DEFINE seq == SeqBytes(number)
               octets == PlainOf(npdu)
    <3>1. 6 \in {5, 6}
      OBVIOUS
    <3> HIDE DEF plain, seq, octets
    <3>2. SecureApdu(key, seq, from, dst, control, octets)
            = SecureApdu(key, seq, from, dst, <<188, 224>>, octets)
      BY <3>1, SameApdu DEF control
    <3> HIDE DEF control
    <3> QED BY <2>3, <3>2 DEF Apdu, seq, octets
  <2> HIDE DEF apdu, plain
  <2>5. MaybeApplyDataSecure(t, ks, number, own) = [t EXCEPT !.srcAddress = from, !.npdu = n2]
    <3>1. ~(IsDataSecure(t.npdu) \/ t.dstAddress \notin DOMAIN ks)
      BY <1>2, <1>3, <1>5
    <3>2. SecureApdu(ks[t.dstAddress], SeqBytes(number),
                     IF own # 0 THEN own ELSE t.srcAddress, t.dstAddress, t.control,
                     <<t.npdu.tpci, t.npdu.apci>> \o FlattenSeq(t.npdu.data)) = apdu
      BY <1>2, <2>4 DEF key, from, plain
    <3>3. MaybeApplyDataSecure(t, ks, number, own)
            = [t EXCEPT !.srcAddress = IF own # 0 THEN own ELSE t.srcAddress,
                        !.npdu = WithData([@ EXCEPT !.tpci = APCI_SEC_HIGH, !.apci = APCI_SEC_LOW],
                                          apdu, TRUE)]
      BY <3>1, <3>2 DEF MaybeApplyDataSecure
    <3>4. (IF own # 0 THEN own ELSE t.srcAddress) = from
      BY <1>2 DEF from
    <3>5. t.npdu = npdu
      BY <1>2
    <3> QED BY <3>3, <3>4, <3>5
  <2>6. n2 = SealedNPDU(apdu)
    <3> DEFINE d == npdu.data
               high == APCI_SEC_HIGH
               low == APCI_SEC_LOW
               full == [tpci |-> npdu.tpci, apci |-> npdu.apci, data |-> d]
    <3>1. npdu = full
      BY <1>3 DEF NPDUFields
    <3> HIDE DEF d, high, low
    <3> DEFINE n0 == [full EXCEPT !.tpci = high]
    <3>2. [full EXCEPT !.tpci = high, !.apci = low] = [tpci |-> high, apci |-> low, data |-> d]
      <4>1. [full EXCEPT !.tpci = high, !.apci = low] = [n0 EXCEPT !.apci = low]
        <5> HIDE DEF full
        <5> QED OBVIOUS
      <4>2. n0 = [tpci |-> high, apci |-> npdu.apci, data |-> d]
        OBVIOUS
      <4> HIDE DEF n0, full
      <4>3. [n0 EXCEPT !.apci = low] = [tpci |-> high, apci |-> low, data |-> d]
        BY <4>2
      <4> QED BY <4>1, <4>3
    <3> HIDE DEF full
    <3>3. n1 = [tpci |-> high, apci |-> low, data |-> d]
      BY <3>1, <3>2 DEF high, low
    <3> HIDE DEF n1
    <3>4. n2 = [n1 EXCEPT !.data = <<apdu>>]
      <4>1. Len(apdu) # 1
        <5>1. \A k \in Nat : k > 10 => k # 1
          OBVIOUS
        <5> QED BY <2>2, <5>1 DEF Seals
      <4> QED BY <4>1 DEF WithData
    <3> HIDE DEF n2
    <3>5. n2 = [tpci |-> high, apci |-> low, data |-> <<apdu>>]
      BY <3>3, <3>4
    <3> QED BY <3>5 DEF SealedNPDU, high, low
  <2> HIDE DEF n2
  <2>7. HasFields([t EXCEPT !.srcAddress = from, !.npdu = n2], code, control, from, dst, n2)
    BY <1>1, FieldsChanged
  <2>8. MaybeApplyDataSecure(t, ks, number, own) = Telegram(code, ack, 6, from, dst, n2)
    BY <2>5, <2>7, SameFields DEF control
  <2>9. s.from = from /\ s.npdu = n2
    BY <1>5, <2>6 DEF Sealing, from, key, apdu
  <2>10. n2 \in NPDUFields
    BY <2>2, <2>6 DEF Seals
  <2> HIDE DEF s
  <2> QED BY <2>1, <2>8, <2>9, <2>10 DEF t, s
<1> HIDE DEF s
<1> QED BY <1>4, <1>5 DEF s, t

\* With any keys a telegram stays one.
StaysTelegram(ks, code, ack, hop, src, dst, npdu) ==
    \E opened : MaybeDecryptDataSecure(Telegram(code, ack, hop, src, dst, npdu), ks)
                  = Telegram(code, ack, hop, src, dst, opened)

\* maybeDecryptDataSecure leaves the address and the control octets as they are.
LEMMA TelegramStays ==
    ASSUME NEW ks, NEW code, NEW ack, NEW hop, NEW src, NEW dst, NEW npdu
    PROVE  StaysTelegram(ks, code, ack, hop, src, dst, npdu)
<1> DEFINE t == Telegram(code, ack, hop, src, dst, npdu)
           control == <<188 + 2 * ack, 128 + 16 * hop>>
           part == FlattenSeq(t.npdu.data)
           plain == SecurePlain(t, ks[t.dstAddress], part)
           opened == NPDUOf(plain)
           r == MaybeDecryptDataSecure(t, ks)
<1>1. HasFields(t, code, control, src, dst, npdu)
  BY TelegramHas
<1> HIDE DEF t, control
<1>2. r = t \/ r = [t EXCEPT !.npdu = opened]
  <2> HIDE DEF opened, part
  <2>1. plain = SecurePlain(t, ks[t.dstAddress], part)
    OBVIOUS
  <2> HIDE DEF plain
  <2> QED BY <2>1 DEF MaybeDecryptDataSecure, opened, part
<1> HIDE DEF r, opened
<1>3. HasFields([t EXCEPT !.npdu = opened], code, control, src, dst, opened)
  BY <1>1, FieldsChanged
<1>4. r = Telegram(code, ack, hop, src, dst, npdu) \/ r = Telegram(code, ack, hop, src, dst, opened)
  BY <1>1, <1>2, <1>3, SameFields DEF control
<1> QED BY <1>4 DEF StaysTelegram, r, t

\* The receiver with the keys of the sender takes the telegram that was sent.
OpensAs(t, ks, code, ack, hop, src, dst, npdu) ==
    \E opened : /\ MaybeDecryptDataSecure(t, ks) = Telegram(code, ack, hop, src, dst, opened)
                /\ SameTelegram(opened, npdu)

\* maybeDecryptDataSecure opens what maybeApplyDataSecure has sealed, if the sender is
\* the same.
LEMMA TelegramOpened ==
    ASSUME NEW code \in {L_DATA_REQ, L_DATA_IND}, NEW ack \in 0 .. 1, NEW hop \in {5, 6},
           NEW src \in Words, NEW dst \in Words, NEW npdu, TelegramData(npdu),
           NEW ks, dst \in DOMAIN ks => ks[dst] \in Octets,
           NEW number \in Words, NEW own \in Words, NEW source \in Words,
           dst \in DOMAIN ks => source = Sealing(ks, number, own, src, dst, npdu).from
    PROVE  OpensAs(Telegram(code, ack, hop, source, dst, Sealing(ks, number, own, src, dst, npdu).npdu),
                   ks, code, ack, hop, source, dst, npdu)
<1> DEFINE s == Sealing(ks, number, own, src, dst, npdu)
           inner == s.npdu
           t == Telegram(code, ack, hop, source, dst, inner)
           control == <<188 + 2 * ack, 128 + 16 * hop>>
<1>1. SameTelegram(npdu, npdu) /\ ~IsDataSecure(npdu) /\ npdu \in NPDUFields
      /\ PlainOf(npdu) \in Octets /\ SameTelegram(NPDUOf(PlainOf(npdu)), npdu)
  BY PlainOfData DEF PlainIs, TelegramData, SameTelegram
<1>2. inner \in NPDUFields
  BY TelegramSealed
<1>3. t.npdu = inner /\ t \in Sendable /\ t.dstAddress = dst /\ t.control = control
      /\ t.srcAddress = source
  <2>1. IsTelegram(code, ack, hop, source, dst, inner)
    BY <1>2 DEF IsTelegram
  <2> HIDE DEF inner
  <2> QED BY <2>1, TelegramFields
<1>4. HasFields(t, code, control, source, dst, inner)
  <2> HIDE DEF inner
  <2> QED BY TelegramHas
<1>5. t.npdu # Malformed
  <2> HIDE DEF t
  <2> QED BY <1>3, SendableIsRead
<1>6. CASE dst \notin DOMAIN ks
  <2>1. inner = npdu
    BY <1>6 DEF Sealing
  <2> HIDE DEF t, inner
  <2>2. MaybeDecryptDataSecure(t, ks) = t
    BY <1>3, <1>5, <1>6 DEF MaybeDecryptDataSecure
  <2>3. OpensAs(t, ks, code, ack, hop, source, dst, npdu)
    BY <1>1, <2>1, <2>2 DEF OpensAs, t
  <2> QED BY <2>3 DEF t, inner
<1>7. CASE dst \in DOMAIN ks
  <2> DEFINE key == ks[dst]
             apdu == Apdu(key, number, source, dst, npdu)
             plain == PlainOf(npdu)
             opened == NPDUOf(plain)
  <2>1. key \in Octets
    BY <1>7
  <2>2. inner = SealedNPDU(apdu)
    BY <1>7 DEF Sealing
  <2> HIDE DEF t, key, inner
  <2>3. Seals(apdu, key, number, source, dst, npdu)
    BY <2>1, SealedIs
  <2>4. apdu = SecureApdu(key, SeqBytes(number), t.srcAddress, t.dstAddress, t.control, plain)
    <3> DEFINE seq == SeqBytes(number)
    <3> HIDE DEF plain, seq
    <3>1. SecureApdu(key, seq, source, dst, control, plain)
            = SecureApdu(key, seq, source, dst, <<188, 224>>, plain)
      BY SameApdu
    <3> HIDE DEF control
    <3> QED BY <1>3, <3>1 DEF Apdu, seq, plain
  <2> HIDE DEF apdu, plain
  <2>5. ApduOpens(apdu, t, key, plain)
    <3> DEFINE seq == SeqBytes(number)
    <3>1. seq \in Octets /\ Len(seq) = 6
      BY SeqBytesParts
    <3>2. t.control[2] \in Octet
      BY <1>3, SendableFields
    <3>3. plain \in Octets /\ Len(plain) <= 255
      <4>1. Len(plain) <= 243 /\ Len(plain) \in Nat /\ plain \in Octets
        BY PlainOfData DEF PlainIs, plain
      <4> QED BY <4>1
    <3> HIDE DEF seq, control
    <3>4. t.srcAddress \in Words /\ t.dstAddress \in Words
      BY <1>3
    <3>5. ApduOpens(SecureApdu(key, seq, t.srcAddress, t.dstAddress, t.control, plain), t, key, plain)
      BY <2>1, <3>1, <3>2, <3>3, <3>4, ApduRead
    <3> QED BY <2>4, <3>5 DEF seq
  <2> HIDE DEF control
  <2>6. FlattenSeq(t.npdu.data) = apdu /\ IsDataSecure(t.npdu) /\ Len(apdu) \in Nat /\ Len(apdu) > 10
    BY <1>3, <2>2, <2>3 DEF Seals
  <2>7. ~(Len(apdu) < 11)
    BY <2>6
  <2>8. SecurePlain(t, key, apdu) = plain /\ plain # Malformed
    BY <1>1, <2>5, MalformedAssumption DEF ApduOpens, Octets, plain
  <2>9. MaybeDecryptDataSecure(t, ks) = [t EXCEPT !.npdu = opened]
    <3> HIDE DEF opened
    <3>1. SecurePlain(t, ks[t.dstAddress], FlattenSeq(t.npdu.data)) = plain
      BY <1>3, <2>6, <2>8 DEF key
    <3>2. Len(FlattenSeq(t.npdu.data)) >= 11 /\ ~(Len(FlattenSeq(t.npdu.data)) < 11)
      BY <2>6, <2>7
    <3>3. t.dstAddress \in DOMAIN ks
      BY <1>3, <1>7
    <3> QED BY <1>5, <2>6, <2>8, <3>1, <3>2, <3>3 DEF MaybeDecryptDataSecure, opened
  <2> HIDE DEF opened
  <2>10. HasFields([t EXCEPT !.npdu = opened], code, control, source, dst, opened)
    BY <1>4, FieldsChanged
  <2>11. [t EXCEPT !.npdu = opened] = Telegram(code, ack, hop, source, dst, opened)
    BY <2>10, SameFields DEF control
  <2>12. SameTelegram(opened, npdu)
    BY <1>1 DEF opened, plain
  <2> QED BY <2>9, <2>11, <2>12 DEF OpensAs, t, inner
<1> HIDE DEF t, inner
<1> QED BY <1>6, <1>7 DEF t, inner

\* What a bus interface and the tunnelling server make of a request.
LEMMA HopsAndBits ==
    ASSUME NEW ack \in 0 .. 1
    PROVE  /\ WithHopCount(<<188 + 2 * ack, 128 + 16 * 6>>, 5) = <<188 + 2 * ack, 128 + 16 * 5>>
           /\ WithBroadcast(WithAck(<<188 + 2 * ack, 128 + 16 * 6>>, 0), 1)
                = <<188 + 2 * 0, 128 + 16 * 6>>
<1>1. WithHopCount(<<188 + 2 * ack, 224>>, 5) = <<188 + 2 * ack, 208>>
  BY DEF WithHopCount, WithBits, Bits
<1>2. WithAck(<<188 + 2 * ack, 224>>, 0) = <<188, 224>>
  BY DEF WithAck, WithBits, Bits
<1>3. WithBroadcast(<<188, 224>>, 1) = <<188, 224>>
  BY DEF WithBroadcast, WithBits, Bits
<1>4. 128 + 16 * 6 = 224 /\ 128 + 16 * 5 = 208 /\ 188 + 2 * 0 = 188
  OBVIOUS
<1> QED BY <1>1, <1>2, <1>3, <1>4

\* The tunnelling server makes a routing indication of the request.
LEMMA ServerIs ==
    ASSUME NEW ack \in 0 .. 1, NEW src, NEW dst, NEW npdu, NEW source
    PROVE  RoutingFromTunneling(Telegram(L_DATA_REQ, ack, 6, src, dst, npdu), source)
             = <<RoutingIndication(Telegram(L_DATA_IND, 0, 6, source, dst, npdu))>>
<1> DEFINE t == Telegram(L_DATA_REQ, ack, 6, src, dst, npdu)
           control == <<188 + 2 * ack, 128 + 16 * 6>>
           new == <<188 + 2 * 0, 128 + 16 * 6>>
           made == [t EXCEPT !.msgCode = L_DATA_IND, !.srcAddress = source, !.control = new]
<1>1. HasFields(t, L_DATA_REQ, control, src, dst, npdu)
  BY TelegramHas
<1>2. WithBroadcast(WithAck(control, 0), 1) = new
  BY HopsAndBits
<1> HIDE DEF t, control, new
<1>3. RoutingFromTunneling(t, source) = <<RoutingIndication(made)>>
  <2>1. t.control = control /\ t.msgCode = L_DATA_REQ /\ L_DATA_REQ # L_DATA_IND
    BY <1>1, FieldsRead DEF L_DATA_REQ, L_DATA_IND
  <2> QED BY <1>2, <2>1 DEF RoutingFromTunneling
<1>4. HasFields(made, L_DATA_IND, new, source, dst, npdu)
  BY <1>1, FieldsChanged
<1> HIDE DEF made
<1>5. made = Telegram(L_DATA_IND, 0, 6, source, dst, npdu)
  BY <1>4, SameFields DEF new
<1> QED BY <1>3, <1>5 DEF t

-----------------------------------------------------------------------------
(* Sequences of anything *)

\* A finite sequence, of whatever.
Sequence(s) == Len(s) \in Nat /\ s = [k \in 1 .. Len(s) |-> s[k]]

\* Its elements.
ElementsOf(s) == {s[k] : k \in 1 .. Len(s)}

\* Such a sequence is one of any set its elements are in.
LEMMA SequenceOf == ASSUME NEW s, Sequence(s), NEW S, ElementsOf(s) \subseteq S PROVE s \in Seq(S)
<1>1. Len(s) \in Nat /\ s = [k \in 1 .. Len(s) |-> s[k]] /\ \A k \in 1 .. Len(s) : s[k] \in S
  BY DEF Sequence, ElementsOf
<1> DEFINE n == Len(s)
<1>2. [k \in 1 .. n |-> s[k]] \in [1 .. n -> S]
  BY <1>1
<1>3. s \in [1 .. n -> S] /\ n \in Nat
  BY <1>1, <1>2
<1> HIDE DEF n
<1> QED BY <1>3

\* A sequence of a set is such a sequence.
LEMMA SequenceIs == ASSUME NEW S, NEW s \in Seq(S) PROVE Sequence(s)
  BY DEF Sequence

\* One element is a sequence.
LEMMA OneElement == ASSUME NEW x PROVE Sequence(<<x>>) /\ Len(<<x>>) = 1 /\ <<x>>[1] = x
<1>1. <<x>> \in Seq({x}) /\ Len(<<x>>) = 1 /\ <<x>>[1] = x
  OBVIOUS
<1> QED BY <1>1, SequenceIs

\* No element is one too.
LEMMA EmptySequence == Sequence(<<>>) /\ Len(<<>>) = 0
<1>1. <<>> \in Seq({}) /\ Len(<<>>) = 0
  OBVIOUS
<1> QED BY <1>1, SequenceIs

JoinsTo(s, t, u) ==
    /\ Sequence(u) /\ Len(u) = Len(s) + Len(t)
    /\ \A k \in 1 .. Len(s) : u[k] = s[k]
    /\ \A k \in 1 .. Len(t) : u[Len(s) + k] = t[k]

\* Two sequences, one after the other.
LEMMA JoinedSequence ==
    ASSUME NEW s, NEW t, Sequence(s), Sequence(t)
    PROVE  JoinsTo(s, t, s \o t)
<1> DEFINE S == ElementsOf(s) \cup ElementsOf(t)
<1>1. s \in Seq(S) /\ t \in Seq(S)
  BY SequenceOf
<1> HIDE DEF S
<1>2. s \o t \in Seq(S) /\ Len(s \o t) = Len(s) + Len(t) /\ Len(s) \in Nat /\ Len(t) \in Nat
  BY <1>1
<1>3. \A k \in 1 .. Len(s) : (s \o t)[k] = s[k]
  BY <1>1
<1>4. \A k \in 1 .. Len(t) : (s \o t)[Len(s) + k] = t[k]
  <2> TAKE k \in 1 .. Len(t)
  <2> DEFINE j == Len(s) + k
  <2>1. j \in 1 .. Len(s) + Len(t) /\ j > Len(s) /\ j - Len(s) = k
    BY <1>2
  <2>2. (s \o t)[j] = t[j - Len(s)]
    BY <1>1, <2>1
  <2> QED BY <2>1, <2>2
<1> QED BY <1>2, <1>3, <1>4, SequenceIs DEF JoinsTo

AddsOne(s, x, u) ==
    /\ u = s \o <<x>> /\ Sequence(u) /\ Len(u) = Len(s) + 1
    /\ \A k \in 1 .. Len(s) : u[k] = s[k]
    /\ u[Len(s) + 1] = x

\* A sequence and one element more.
LEMMA OneMore ==
    ASSUME NEW s, NEW x, Sequence(s)
    PROVE  AddsOne(s, x, Append(s, x))
<1> DEFINE S == ElementsOf(s) \cup {x}
<1>1. s \in Seq(S) /\ x \in S
  BY SequenceOf
<1> HIDE DEF S
<1>2. /\ Append(s, x) \in Seq(S) /\ Len(Append(s, x)) = Len(s) + 1
      /\ \A k \in 1 .. Len(s) : Append(s, x)[k] = s[k]
      /\ Append(s, x)[Len(s) + 1] = x
  BY <1>1
<1>3. Append(s, x) = s \o <<x>>
  BY <1>1
<1> QED BY <1>2, <1>3, SequenceIs DEF AddsOne

\* A sequence without its first elements.
LEMMA WithoutFirst ==
    ASSUME NEW s, Sequence(s), NEW n \in 0 .. Len(s)
    PROVE  LET t == SubSeq(s, n + 1, Len(s))
           IN  /\ Sequence(t) /\ Len(t) = Len(s) - n
               /\ \A k \in 1 .. Len(t) : t[k] = s[n + k]
<1> DEFINE S == ElementsOf(s)
           t == SubSeq(s, n + 1, Len(s))
<1>1. s \in Seq(S) /\ Len(s) \in Nat
  BY SequenceOf DEF Sequence
<1> HIDE DEF S
<1>2. t \in Seq(S) /\ Len(t) = Len(s) - n
  BY <1>1
<1>3. \A k \in 1 .. Len(t) : t[k] = s[n + k]
  BY <1>1, <1>2
<1> QED BY <1>2, <1>3, SequenceIs

-----------------------------------------------------------------------------
(* Frames put on a stream *)

\* A frame of a stream, as long as its header says.
IsWhole(f) == f \in Octets /\ Len(f) \in Nat /\ 6 <= Len(f) /\ U16(f, 4) = Len(f)

\* A frame of a session, with what it was sealed from.
Wraps(wrapped, b, key) == IsWhole(wrapped) /\ SecureDecrypt(wrapped, key) = b

\* A buffer that grows by one part.
Grown(n, at, f) == [i \in 0 .. n + 1 |-> IF i <= n THEN at[i] ELSE at[n] + Len(f)]

\* What it is then.
GrownBy(w, n, at, f, w2, at2) ==
    /\ Parts(w2, n + 1, at2) /\ Len(w2) = Len(w) + Len(f)
    /\ \A i \in 0 .. n : at2[i] = at[i]
    /\ at2[n + 1] = Len(w2) /\ Sub(w2, at2[n], at2[n + 1]) = f
    /\ \A x, y \in Nat : x <= y /\ y <= Len(w) => Sub(w2, x, y) = Sub(w, x, y)
    /\ \A x \in Nat : x <= Len(w) => Sub(w2, x, Len(w2)) = Sub(w, x, Len(w)) \o f
    /\ \A m \in Nat, q \in 0 .. n : m <= Len(w) /\ Ended(n, at, m, q) => Ended(n + 1, at2, m, q)

\* A part put at the end is a part more, and nothing else changes.
LEMMA PartAdded ==
    ASSUME NEW w, NEW n, NEW at, Parts(w, n, at), NEW f \in Octets, 0 < Len(f)
    PROVE  GrownBy(w, n, at, f, w \o f, Grown(n, at, f))
<1> DEFINE w2 == w \o f
           at2 == Grown(n, at, f)
           len == Len(w)
           more == Len(f)
<1>1. /\ w \in Octets /\ n \in Nat /\ at \in [0 .. n -> Nat] /\ at[0] = 0 /\ at[n] = len
      /\ \A i \in 1 .. n : at[i - 1] < at[i]
  BY DEF Parts
<1>2. \A i \in 0 .. n : at[i] \in Nat /\ at[i] <= len
  BY PartsEnds
<1>3. len \in Nat /\ more \in Nat /\ 0 < more
  BY <1>1 DEF Octets
<1>4. Follows(w2, w, f)
  BY <1>1, Followed
<1> HIDE DEF w2
<1>5. /\ w2 \in Octets /\ Len(w2) = len + more
      /\ \A i \in 1 .. len : w2[i] = w[i]
      /\ \A i \in 1 .. more : w2[len + i] = f[i]
  BY <1>4, Zenon DEF Follows
<1>6. /\ \A i \in 0 .. n : at2[i] = at[i]
      /\ at2[n + 1] = len + more /\ at2 \in [0 .. n + 1 -> Nat]
  <2>1. at2 = [i \in 0 .. n + 1 |-> IF i <= n THEN at[i] ELSE len + more]
    BY <1>1 DEF Grown
  <2> HIDE DEF at2, len, more
  <2>2. \A i \in 0 .. n : at2[i] = at[i]
    BY <1>1, <2>1
  <2>3. at2[n + 1] = len + more
    BY <1>1, <2>1
  <2>4. at2 \in [0 .. n + 1 -> Nat]
    BY <1>1, <1>2, <1>3, <2>1
  <2> QED BY <2>2, <2>3, <2>4
<1> HIDE DEF at2, len, more
<1>7. Parts(w2, n + 1, at2)
  <2>1. ASSUME NEW i \in 1 .. n + 1 PROVE at2[i - 1] < at2[i]
    <3>1. CASE i = n + 1
      <4>1. i - 1 = n /\ n \in 0 .. n
        BY <1>1, <3>1
      <4> QED BY <1>1, <1>3, <1>6, <3>1, <4>1
    <3>2. CASE i # n + 1
      <4>1. i \in 1 .. n /\ i \in 0 .. n /\ i - 1 \in 0 .. n
        BY <1>1, <3>2
      <4> QED BY <1>1, <1>6, <4>1
    <3> QED BY <3>1, <3>2
  <2>2. at2[0] = 0
    BY <1>1, <1>6
  <2> QED BY <1>1, <1>5, <1>6, <2>1, <2>2 DEF Parts
<1>8. ASSUME NEW x \in Nat, NEW y \in Nat, x <= y, y <= len PROVE Sub(w2, x, y) = Sub(w, x, y)
  <2> DEFINE s == Sub(w2, x, y)
             t == Sub(w, x, y)
  <2>1. y <= Len(w2) /\ y <= Len(w)
    BY <1>3, <1>5, <1>8 DEF len
  <2>2. s \in Octets /\ Len(s) = y - x /\ \A i \in 1 .. y - x : s[i] = w2[x + i]
    BY <1>5, <1>8, <2>1, SubIs
  <2>3. t \in Octets /\ Len(t) = y - x /\ \A i \in 1 .. y - x : t[i] = w[x + i]
    BY <1>1, <1>8, <2>1, SubIs
  <2> HIDE DEF s, t
  <2>4. \A i \in 1 .. Len(s) : s[i] = t[i]
    <3> TAKE i \in 1 .. Len(s)
    <3>1. i \in 1 .. y - x /\ x + i \in 1 .. len
      BY <1>3, <1>8, <2>2
    <3> QED BY <1>5, <2>2, <2>3, <3>1
  <2>5. s = t
    BY <2>2, <2>3, <2>4, SameOctets
  <2> QED BY <2>5 DEF s, t
<1>9. Sub(w2, len, len + more) = f
  <2> DEFINE z == len + more
             s == Sub(w2, len, z)
  <2>1. z \in Nat /\ len <= z /\ z <= Len(w2) /\ z - len = more
    BY <1>3, <1>5
  <2> HIDE DEF z
  <2>2. s \in Octets /\ Len(s) = z - len /\ \A i \in 1 .. z - len : s[i] = w2[len + i]
    BY <1>3, <1>5, <2>1, SubIs
  <2> HIDE DEF s
  <2>3. Len(s) = Len(f) /\ \A i \in 1 .. Len(s) : s[i] = f[i]
    BY <1>5, <2>1, <2>2 DEF more
  <2>4. s = f
    BY <2>2, <2>3, SameOctets
  <2> QED BY <2>4 DEF s, z
<1>10. ASSUME NEW x \in Nat, x <= len PROVE Sub(w2, x, Len(w2)) = Sub(w, x, len) \o f
  <2> DEFINE z == len + more
  <2>1. z \in Nat /\ len <= z /\ z <= Len(w2) /\ z = Len(w2)
    BY <1>3, <1>5
  <2>2. Sub(w2, len, z) = f
    BY <1>9
  <2> HIDE DEF z
  <2>3. Sub(w2, x, len) \o Sub(w2, len, z) = Sub(w2, x, z)
    BY <1>3, <1>5, <1>10, <2>1, SubJoined
  <2>4. Sub(w2, x, len) = Sub(w, x, len)
    BY <1>3, <1>8, <1>10
  <2> QED BY <2>1, <2>2, <2>3, <2>4
<1>11. ASSUME NEW m \in Nat, NEW q \in 0 .. n, m <= len, Ended(n, at, m, q)
       PROVE  Ended(n + 1, at2, m, q)
  <2>1. q \in 0 .. n + 1 /\ at2[q] = at[q] /\ at[q] <= m /\ (q = n \/ m < at[q + 1])
    BY <1>1, <1>6, <1>11 DEF Ended
  <2>2. m < at2[q + 1]
    <3>1. CASE q = n
      BY <1>3, <1>6, <1>11, <3>1
    <3>2. CASE q # n
      <4>1. q + 1 \in 0 .. n
        BY <1>1, <3>2
      <4> QED BY <1>6, <2>1, <3>2, <4>1
    <3> QED BY <3>1, <3>2
  <2> QED BY <2>1, <2>2 DEF Ended
<1>12. at2[n] = len
  BY <1>1, <1>6
<1>13. GrownBy(w, n, at, f, w2, at2)
  <2>1. Sub(w2, at2[n], at2[n + 1]) = f
    BY <1>6, <1>9, <1>12
  <2>2. Len(w2) = Len(w) + Len(f) /\ at2[n + 1] = Len(w2)
    BY <1>5, <1>6 DEF len, more
  <2>3. \A x, y \in Nat : x <= y /\ y <= Len(w) => Sub(w2, x, y) = Sub(w, x, y)
    BY <1>8 DEF len
  <2>4. \A x \in Nat : x <= Len(w) => Sub(w2, x, Len(w2)) = Sub(w, x, Len(w)) \o f
    BY <1>10 DEF len
  <2>5. \A m \in Nat, q \in 0 .. n : m <= Len(w) /\ Ended(n, at, m, q) => Ended(n + 1, at2, m, q)
    BY <1>11 DEF len
  <2> QED BY <1>6, <1>7, <2>1, <2>2, <2>3, <2>4, <2>5 DEF GrownBy
<1> QED BY <1>13 DEF w2, at2

\* The parts that were there stay as they are.
LEMMA PartsStay ==
    ASSUME NEW w, NEW n, NEW at, Parts(w, n, at), NEW f, NEW w2, NEW at2,
           GrownBy(w, n, at, f, w2, at2), NEW i \in 1 .. n
    PROVE  /\ Sub(w2, at2[i - 1], at2[i]) = Sub(w, at[i - 1], at[i])
           /\ at2[i] = at[i] /\ at2[i - 1] = at[i - 1]
<1>1. n \in Nat /\ at[i - 1] < at[i]
  BY DEF Parts
<1>2. i \in 0 .. n /\ i - 1 \in 0 .. n
  BY <1>1
<1>3. at[i] \in Nat /\ at[i - 1] \in Nat /\ at[i] <= Len(w) /\ at[i - 1] <= at[i]
  BY <1>1, <1>2, PartsEnds
<1>4. at2[i] = at[i] /\ at2[i - 1] = at[i - 1]
  BY <1>2 DEF GrownBy
<1>5. Sub(w2, at[i - 1], at[i]) = Sub(w, at[i - 1], at[i])
  BY <1>3 DEF GrownBy
<1> QED BY <1>4, <1>5

\* What a chunk of d octets takes off a line.
LEMMA ChunkTaken ==
    ASSUME NEW w \in Octets, NEW c \in Nat, c <= Len(w), NEW d \in Nat, d <= Len(Sub(w, c, Len(w)))
    PROVE  LET l == Sub(w, c, Len(w))
           IN  /\ c + d <= Len(w)
               /\ SubSeq(l, d + 1, Len(l)) = Sub(w, c + d, Len(w))
               /\ SubSeq(l, 1, d) = Sub(w, c, c + d)
<1> DEFINE z == Len(w)
           l == Sub(w, c, z)
           e == Len(l)
<1>1. z \in Nat
  BY DEF Octets
<1>2. l \in Octets /\ e = z - c
  <2>1. z <= Len(w)
    BY <1>1
  <2> HIDE DEF z
  <2> QED BY <1>1, <2>1, SubIs DEF z
<1>3. e \in Nat /\ d <= e /\ c + d <= z /\ c + e = z /\ c + 0 = c
  BY <1>1, <1>2
<1>4. SubSeq(l, d + 1, e) = Sub(l, d, e) /\ SubSeq(l, 1, d) = Sub(l, 0, d)
  <2> HIDE DEF l
  <2>1. 0 + 1 = 1 /\ ~(d > Len(l)) /\ ~(e > Len(l))
    BY <1>3
  <2> HIDE DEF e
  <2> QED BY <2>1 DEF Sub, e
<1>5. Sub(l, d, e) = Sub(w, c + d, c + e)
  <2> HIDE DEF z, e
  <2>1. c <= z /\ z <= Len(w) /\ e <= z - c
    BY <1>1, <1>2, <1>3 DEF z
  <2> QED BY <1>1, <1>3, <2>1, SubOfSub
<1>6. Sub(l, 0, d) = Sub(w, c + 0, c + d)
  <2> HIDE DEF z, e
  <2>1. c <= z /\ z <= Len(w) /\ d <= z - c /\ 0 <= d
    BY <1>1, <1>2, <1>3 DEF z
  <2> QED BY <1>1, <1>3, <2>1, SubOfSub
<1> QED BY <1>3, <1>4, <1>5, <1>6

\* Sequences of one message each, one after the other.
OnesOf(ss, size, xs) == size \in Nat /\ ss = [i \in 1 .. size |-> <<xs[i]>>]

\* They flatten to the messages.
LEMMA FlatOnes ==
    ASSUME NEW size, NEW ss, NEW xs, OnesOf(ss, size, xs)
    PROVE  FlattenSeq(ss) = [i \in 1 .. size |-> xs[i]]
<1> DEFINE run(i) == [k \in 1 .. i |-> xs[k]]
           f[i \in 1 .. Len(ss)] == IF i = 1 THEN ss[i] ELSE f[i - 1] \o ss[i]
           g == [i \in 1 .. size |-> run(i)]
<1>0. size \in Nat /\ ss = [i \in 1 .. size |-> <<xs[i]>>]
  BY DEF OnesOf
<1>1. Len(ss) = size /\ \A i \in 1 .. size : ss[i] = <<xs[i]>>
  BY <1>0
<1>2. run(1) = <<xs[1]>>
  OBVIOUS
<1>3. \A i \in Nat : run(i + 1) = run(i) \o <<xs[i + 1]>>
  <2> TAKE i \in Nat
  <2> DEFINE u == run(i)
             v == run(i + 1)
             S == {xs[k] : k \in 1 .. i + 1}
             j == i + 1
  <2>2. j \in Nat /\ i <= j /\ \A k \in 1 .. j : xs[k] \in S
    OBVIOUS
  <2> HIDE DEF S, j
  <2>3. u \in Seq(S) /\ Len(u) = i /\ \A k \in 1 .. i : u[k] = xs[k]
    <3>1. \A k \in 1 .. i : xs[k] \in S
      BY <2>2
    <3> QED BY <3>1
  <2>4. v \in Seq(S) /\ Len(v) = j /\ \A k \in 1 .. j : v[k] = xs[k]
    <3>1. v = [k \in 1 .. j |-> xs[k]]
      BY DEF j
    <3> HIDE DEF v
    <3> QED BY <2>2, <3>1
  <2> HIDE DEF u, v
  <2>1. u \in Seq(S) /\ v \in Seq(S) /\ Len(u) = i /\ Len(v) = i + 1 /\ xs[i + 1] \in S
        /\ (\A k \in 1 .. i : u[k] = xs[k]) /\ \A k \in 1 .. i + 1 : v[k] = xs[k]
    BY <2>2, <2>3, <2>4 DEF j
  <2>5. v = u \o <<xs[i + 1]>>
    BY <2>1
  <2> QED BY <2>5 DEF u, v
<1> HIDE DEF run
<1>4. g = [i \in 1 .. Len(ss) |-> IF i = 1 THEN ss[i] ELSE g[i - 1] \o ss[i]]
  <2>1. ASSUME NEW i \in 1 .. size PROVE g[i] = IF i = 1 THEN ss[i] ELSE g[i - 1] \o ss[i]
    <3>1. CASE i = 1
      BY <1>1, <1>2, <3>1
    <3>2. CASE i # 1
      <4>1. i - 1 \in Nat /\ i - 1 + 1 = i /\ i - 1 \in 1 .. size
        BY <1>0, <3>2
      <4>2. run(i) = run(i - 1) \o <<xs[i]>>
        BY <1>3, <4>1
      <4> QED BY <1>1, <3>2, <4>1, <4>2
    <3> QED BY <3>1, <3>2
  <2>2. g = [i \in 1 .. size |-> g[i]]
    OBVIOUS
  <2> HIDE DEF g
  <2> QED BY <1>1, <2>1, <2>2
<1>5. f = [i \in 1 .. Len(ss) |-> IF i = 1 THEN ss[i] ELSE f[i - 1] \o ss[i]]
  <2> HIDE DEF g
  <2> QED BY <1>4 DEF f
<1>6. Len(ss) # 0 => FlattenSeq(ss) = f[Len(ss)]
  BY DEF FlattenSeq
<1> HIDE DEF f
<1>7. \A i \in 1 .. size : f[i] = IF i = 1 THEN ss[i] ELSE f[i - 1] \o ss[i]
  BY <1>1, <1>5
<1> DEFINE T == {i \in Nat : i + 1 <= size => f[i + 1] = run(i + 1)}
<1>8. Nat \subseteq T
  <2>1. 0 \in T
    BY <1>1, <1>2, <1>7
  <2>2. ASSUME NEW i \in Nat, i \in T PROVE i + 1 \in T
    <3> SUFFICES ASSUME i + 1 + 1 <= size PROVE f[i + 1 + 1] = run(i + 1 + 1)
      OBVIOUS
    <3>1. i + 1 <= size /\ i + 1 + 1 \in 1 .. size /\ i + 1 + 1 # 1 /\ i + 1 + 1 - 1 = i + 1
      BY <1>0
    <3>2. f[i + 1] = run(i + 1)
      BY <2>2, <3>1
    <3>3. f[i + 1 + 1] = f[i + 1] \o <<xs[i + 1 + 1]>>
      <4> DEFINE j == i + 1 + 1
      <4>1. j \in 1 .. size /\ j # 1 /\ j - 1 = i + 1
        BY <3>1
      <4> HIDE DEF j
      <4>2. f[j] = f[j - 1] \o ss[j] /\ ss[j] = <<xs[j]>>
        BY <1>1, <1>7, <4>1
      <4> QED BY <4>1, <4>2 DEF j
    <3> QED BY <1>3, <3>2, <3>3
  <2> HIDE DEF T
  <2> QED BY <2>1, <2>2, Inductive
<1>9. CASE size = 0
  <2>1. ss = <<>>
    BY <1>0, <1>9
  <2> QED BY <1>0, <1>9, <2>1, Flat
<1>10. CASE size # 0
  <2>1. size - 1 \in Nat /\ size - 1 + 1 = size
    BY <1>0, <1>10
  <2>2. size - 1 \in T
    BY <1>8, <2>1
  <2>3. f[size] = run(size)
    BY <2>1, <2>2
  <2> QED BY <1>1, <1>6, <1>10, <2>3 DEF run
<1> QED BY <1>9, <1>10

\* A frame more makes a stream longer.
LEMMA StreamGrows ==
    ASSUME NEW w, NEW n, NEW at, Stream(w, n, at), NEW f, IsWhole(f), NEW w2, NEW at2,
           GrownBy(w, n, at, f, w2, at2)
    PROVE  Stream(w2, n + 1, at2)
<1>1. Parts(w, n, at) /\ n \in Nat
  BY StreamIsParts DEF Stream
<1>2. /\ Parts(w2, n + 1, at2) /\ Sub(w2, at2[n], at2[n + 1]) = f
      /\ Len(w2) = Len(w) + Len(f) /\ at2[n + 1] = Len(w2)
  BY DEF GrownBy
<1>3. ASSUME NEW i \in 1 .. n + 1
      PROVE  at2[i - 1] + 6 <= at2[i] /\ U16(w2, at2[i - 1] + 4) = at2[i] - at2[i - 1]
  <2> DEFINE x == at2[i - 1]
             y == at2[i]
             u == Sub(w2, x, y)
  <2>1. x \in Nat /\ y \in Nat /\ x <= y /\ y <= Len(w2) /\ w2 \in Octets
    <3>1. x < y /\ w2 \in Octets /\ i \in 0 .. n + 1 /\ i - 1 \in 0 .. n + 1
      BY <1>1, <1>2 DEF Parts
    <3>2. \A j \in 0 .. n + 1 : at2[j] \in Nat /\ at2[j] <= Len(w2)
      BY <1>2, PartsEnds
    <3> QED BY <3>1, <3>2
  <2>2. Len(u) = y - x
    BY <2>1, SubIs
  <2>3. x + 6 <= y /\ U16(u, 4) = y - x
    <3>1. CASE i = n + 1
      <4>1. u = f /\ i - 1 = n
        BY <1>1, <1>2, <3>1
      <4>2. 6 <= Len(u) /\ U16(u, 4) = Len(u)
        BY <4>1 DEF IsWhole
      <4> HIDE DEF x, y, u
      <4> QED BY <2>1, <2>2, <4>2
    <3>2. CASE i # n + 1
      <4>1. i \in 1 .. n
        BY <1>1, <3>2
      <4>2. u = Sub(w, at[i - 1], at[i]) /\ y = at[i] /\ x = at[i - 1]
        BY <1>1, <4>1, PartsStay
      <4>3. x + 6 <= y /\ U16(w, x + 4) = y - x
        BY <4>1, <4>2 DEF Stream
      <4>4. w \in Octets /\ y <= Len(w)
        BY <1>1, <4>1, <4>2, PartsEnds
      <4> HIDE DEF x, y
      <4>5. 4 + 2 <= y - x
        BY <2>1, <4>3
      <4>6. U16(Sub(w, x, y), 4) = U16(w, x + 4)
        BY <2>1, <4>4, <4>5, SubWord
      <4>7. u = Sub(w, x, y)
        BY <4>2 DEF x, y
      <4> HIDE DEF u
      <4> QED BY <4>3, <4>6, <4>7
    <3> QED BY <3>1, <3>2
  <2> HIDE DEF x, y
  <2>4. 4 + 2 <= y - x
    BY <2>1, <2>3
  <2>5. U16(u, 4) = U16(w2, x + 4)
    BY <2>1, <2>4, SubWord
  <2> HIDE DEF u
  <2> QED BY <2>3, <2>5 DEF x, y
<1> QED BY <1>1, <1>2, <1>3 DEF Stream, Parts

\* The first q parts are those that end in the first c octets.
LEMMA PartsEnded ==
    ASSUME NEW w, NEW n, NEW at, Parts(w, n, at), NEW c \in Nat, NEW q, Ended(n, at, c, q)
    PROVE  /\ q \in Nat /\ q <= n /\ \A i \in 1 .. n : at[i] <= c <=> i <= q
           /\ Cardinality({i \in 1 .. n : at[i] <= c}) = q
<1> DEFINE due == {i \in 1 .. n : at[i] <= c}
<1>1. n \in Nat /\ q \in 0 .. n /\ at[q] <= c /\ (q = n \/ c < at[q + 1])
  BY DEF Parts, Ended
<1>2. \A i \in 0 .. n : at[i] \in Nat
  BY PartsEnds
<1>3. \A i \in 0 .. n, k \in 0 .. n : i <= k => at[i] + (k - i) <= at[k]
  BY PartsOrder
<1>4. ASSUME NEW i \in 1 .. n PROVE at[i] <= c <=> i <= q
  <2>1. i \in 0 .. n /\ at[i] \in Nat /\ at[q] \in Nat
    BY <1>1, <1>2
  <2>2. CASE i <= q
    <3>1. at[i] + (q - i) <= at[q]
      BY <1>1, <1>3, <2>1, <2>2
    <3> QED BY <1>1, <2>1, <2>2, <3>1
  <2>3. CASE ~(i <= q)
    <3> DEFINE k == q + 1
    <3>1. k \in 0 .. n /\ k <= i
      BY <1>1, <2>3
    <3>2. c < at[k]
      BY <1>1, <2>3
    <3> HIDE DEF k
    <3>3. at[k] + (i - k) <= at[i] /\ at[k] \in Nat
      BY <1>2, <1>3, <2>1, <3>1
    <3>4. ~(at[i] <= c)
      BY <2>1, <3>1, <3>2, <3>3
    <3> QED BY <2>3, <3>4
  <2> QED BY <2>2, <2>3
<1>5. due = 1 .. q
  <2>1. ASSUME NEW i PROVE i \in due <=> i \in 1 .. q
    <3>1. i \in due <=> i \in 1 .. n /\ at[i] <= c
      OBVIOUS
    <3>2. i \in 1 .. n => (at[i] <= c <=> i <= q)
      BY <1>4
    <3>3. i \in 1 .. n /\ i <= q <=> i \in 1 .. q
      BY <1>1
    <3> HIDE DEF due
    <3> QED BY <3>1, <3>2, <3>3
  <2> HIDE DEF due
  <2> QED BY <2>1
<1>6. Cardinality(1 .. q) = q
  <2>1. 1 \in Int /\ q \in Int
    BY <1>1
  <2>2. Cardinality(1 .. q) = IF 1 > q THEN 0 ELSE q - 1 + 1
    BY ONLY <2>1, FS_Interval
  <2> QED BY <1>1, <2>2
<1>7. Cardinality(due) = q
  <2> HIDE DEF due
  <2> QED BY <1>5, <1>6
<1>8. q \in Nat /\ q <= n
  BY <1>1
<1> QED BY <1>4, <1>7, <1>8, Zenon

-----------------------------------------------------------------------------
(* Units put on the serial line *)

\* A telegram of a call fits into a long frame.
LEMMA CEMIShort ==
    ASSUME NEW c \in Sendable, Len(FlattenSeq(c.npdu.data)) <= 241
    PROVE  LET b == CEMIBytes(c)
           IN  b \in Octets /\ 0 < Len(b) /\ Len(b) <= 254 /\ b[1] = c.msgCode
<1> DEFINE src == U16Bytes(c.srcAddress)
           dst == U16Bytes(c.dstAddress)
           npdu == NPDUBytes(c.npdu)
           head == <<c.msgCode, 0>>
           control == c.control
           b == CEMIBytes(c)
<1>1. /\ b = head \o (control \o (src \o (dst \o npdu))) /\ b \in Octets
  BY CEMIWritten
<1>2. src \in Octets /\ Len(src) = 2 /\ dst \in Octets /\ Len(dst) = 2
  BY SendableFields, U16Is
<1>3. control \in Octets /\ Len(control) = 2 /\ head \in Octets /\ Len(head) = 2 /\ head[1] = c.msgCode
  <2>1. c.msgCode \in Octet /\ 0 \in Octet
    BY SendableFields, OctetIs
  <2>2. control \in Octets /\ Len(control) = 2
    <3> DEFINE x == c.control[1]
               y == c.control[2]
    <3>1. control = <<x, y>> /\ control \in Octets
      BY SendableFields
    <3> HIDE DEF x, y, control
    <3> QED BY <3>1
  <2>3. head \in Octets
    BY <2>1, OctetTuples
  <2>4. Len(head) = 2 /\ head[1] = c.msgCode
    OBVIOUS
  <2> QED BY <2>2, <2>3, <2>4
<1>4. npdu \in Octets /\ Len(npdu) \in Nat /\ Len(npdu) <= 244
  <2> DEFINE n == c.npdu
             data == n.data
  <2>1. n \in NPDUFields
    BY SendableFields
  <2> HIDE DEF n
  <2>2. /\ data = <<>> => npdu = <<1, n.tpci, n.apci>> \o <<>>
        /\ data # <<>> => npdu = <<1 + Len(data[1]), n.tpci, n.apci>> \o data[1]
        /\ data # <<>> => 1 + Len(data[1]) \in Octet
        /\ npdu \in Octets /\ n.tpci \in Octet /\ n.apci \in Octet /\ data \in DataFields
    BY <2>1, NPDUWritten DEF n
  <2>3. CASE data = <<>>
    <3> DEFINE h == <<1, n.tpci, n.apci>>
    <3>1. 1 \in Octet
      BY OctetIs
    <3>2. h \in Octets /\ Len(h) = 3
      BY <2>2, <3>1, OctetTuples
    <3>3. npdu = h \o <<>>
      BY <2>2, <2>3
    <3> HIDE DEF h, npdu
    <3>4. Len(npdu) = 3
      BY <3>2, <3>3 DEF Octets
    <3> QED BY <2>2, <3>4
  <2>4. CASE data # <<>>
    <3>1. PICK o \in Octets : data = <<o>> /\ 0 < Len(o)
      BY <2>2, <2>4 DEF DataFields
    <3> DEFINE l == 1 + Len(o)
               h == <<l, n.tpci, n.apci>>
    <3>2. FlattenSeq(data) = o /\ data[1] = o
      BY <3>1, Flat
    <3>3. Len(o) <= 241 /\ Len(o) \in Nat
      BY <3>2 DEF Octets, n
    <3>4. npdu = h \o o /\ l \in Octet
      BY <2>2, <2>4, <3>2
    <3> HIDE DEF l, npdu
    <3>5. h \in Octets /\ Len(h) = 3
      BY <2>2, <3>4, OctetTuples
    <3> HIDE DEF h
    <3>6. Len(npdu) = 3 + Len(o)
      <4>1. Follows(npdu, h, o)
        BY <3>4, <3>5, Followed
      <4>2. Len(npdu) = Len(h) + Len(o)
        BY <4>1, Zenon DEF Follows
      <4> QED BY <3>5, <4>2
    <3> QED BY <2>2, <3>3, <3>6
  <2> QED BY <2>3, <2>4
<1> HIDE DEF b, src, dst, npdu, head, control
<1>5. Len(b) = 8 + Len(npdu) /\ b[1] = c.msgCode
  <2> DEFINE s1 == dst \o npdu
             s2 == src \o s1
             s3 == control \o s2
  <2>1. s1 \in Octets /\ Len(s1) = 2 + Len(npdu)
    <3>1. Follows(s1, dst, npdu)
      BY <1>2, <1>4, Followed
    <3> HIDE DEF s1
    <3>2. s1 \in Octets /\ Len(s1) = Len(dst) + Len(npdu)
      BY <3>1, Zenon DEF Follows
    <3> QED BY <1>2, <1>4, <3>2
  <2>2. b = head \o (control \o (src \o s1))
    BY <1>1
  <2> HIDE DEF s1
  <2>3. s2 \in Octets /\ Len(s2) = 4 + Len(npdu)
    <3>1. Follows(s2, src, s1)
      BY <1>2, <1>4, <2>1, Followed
    <3> HIDE DEF s2
    <3>2. s2 \in Octets /\ Len(s2) = Len(src) + Len(s1)
      BY <3>1, Zenon DEF Follows
    <3> QED BY <1>2, <1>4, <2>1, <3>2
  <2>4. b = head \o (control \o s2)
    BY <2>2
  <2> HIDE DEF s2
  <2>5. s3 \in Octets /\ Len(s3) = 6 + Len(npdu)
    <3>1. Follows(s3, control, s2)
      BY <1>3, <1>4, <2>3, Followed
    <3> HIDE DEF s3
    <3>2. s3 \in Octets /\ Len(s3) = Len(control) + Len(s2)
      BY <3>1, Zenon DEF Follows
    <3> QED BY <1>3, <1>4, <2>3, <3>2
  <2>6. b = head \o s3
    BY <2>4
  <2> HIDE DEF s3
  <2>7. Follows(b, head, s3)
    BY <1>3, <2>5, <2>6, Followed
  <2>8. Len(b) = Len(head) + Len(s3) /\ \A i \in 1 .. Len(head) : b[i] = head[i]
    BY <2>7 DEF Follows
  <2>9. 1 \in 1 .. 2
    OBVIOUS
  <2> QED BY <1>3, <1>4, <2>5, <2>8, <2>9
<1>6. 0 < Len(b) /\ Len(b) <= 254
  BY <1>4, <1>5
<1> QED BY <1>1, <1>5, <1>6 DEF b

\* The long frame of a telegram: a unit of the line that carries it.
Long(u, p) ==
    /\ u \in Octets /\ LineSize(u) = Len(u) /\ 0 < Len(u)
    /\ LineUnit(u).frames = <<p>> /\ LineUnit(u).acks = 0
    /\ LongFramePayload(u).cemi[1] = p

\* LongFrame makes one of every payload that is not of the object server.
LEMMA LongIs ==
    ASSUME NEW p \in Octets, 0 < Len(p), Len(p) <= 254, p[1] # 240
    PROVE  Long(LongFrame(p, TRUE), p)
<1> DEFINE u == LongFrame(p, TRUE)
<1>1. TRUE \in BOOLEAN
  OBVIOUS
<1>2. /\ u \in Octets /\ LineSize(u) = Len(u) /\ 0 < Len(u)
      /\ LineUnit(u) = [frames |-> IF p[1] = 240 THEN <<>> ELSE <<p>>, acks |-> 0, sent |-> 1]
      /\ LongFramePayload(u).cemi = LineUnit(u).frames
  BY <1>1, LineUnitsAreRead
<1> HIDE DEF u
<1>3. LineUnit(u).frames = <<p>> /\ LineUnit(u).acks = 0
  BY <1>2
<1>4. Long(u, p)
  BY <1>2, <1>3 DEF Long
<1> QED BY <1>4 DEF u

\* SerialFT12: what the interface answers to a call.
Quiet(u) ==
    /\ u \in Octets /\ LineSize(u) = Len(u) /\ 0 < Len(u)
    /\ LineUnit(u).frames = <<>> /\ LineUnit(u).acks = 0

Short == <<16, 73, 73, 22>>

Baos == LongFrame(<<240, 130, 0>>, FALSE)

\* What a call puts on the line.
OnSerial(octets, u, others) ==
    octets = <<ACK_BYTE>> \o (IF others THEN Short \o Baos ELSE <<>>) \o u

\* The short frame and the frame of the object server are quiet.
LEMMA OthersAreQuiet == Quiet(Short) /\ Quiet(Baos)
<1>1. \A k \in Nat : k <= 255 => k \in Octet
  BY OctetIs
<1>2. Quiet(Short)
  <2> DEFINE u == Short
  <2>1. 16 \in Octet /\ 73 \in Octet /\ 22 \in Octet
    BY <1>1
  <2>2. u \in Octets /\ Len(u) = 4
    BY <2>1 DEF Short, Octets
  <2>3. LineSize(u) = Len(u) /\ LineUnit(u) = [frames |-> <<>>, acks |-> 0, sent |-> 1]
    <3> DEFINE short(x, y, z) == <<16, x, y, z>>
    <3>1. \A x, y, z \in Octet :
             LineSize(short(x, y, z)) = Len(short(x, y, z))
             /\ LineUnit(short(x, y, z)) = [frames |-> <<>>, acks |-> 0, sent |-> 1]
      BY LineUnitsAreRead
    <3>2. u = short(73, 73, 22)
      BY DEF Short
    <3> HIDE DEF short, u
    <3> QED BY <2>1, <3>1, <3>2
  <2> HIDE DEF u
  <2>4. LineUnit(u).frames = <<>> /\ LineUnit(u).acks = 0
    BY <2>3
  <2>5. Quiet(u)
    BY <2>2, <2>3, <2>4 DEF Quiet
  <2> QED BY <2>5 DEF u
<1>3. Quiet(Baos)
  <2> DEFINE p == <<240, 130, 0>>
             u == LongFrame(p, FALSE)
  <2>1. 240 \in Octet /\ 130 \in Octet /\ 0 \in Octet
    BY <1>1
  <2>2. p \in Octets
    BY <2>1, OctetTuples
  <2>3. 0 < Len(p) /\ Len(p) <= 254 /\ p[1] = 240
    OBVIOUS
  <2>4. FALSE \in BOOLEAN
    OBVIOUS
  <2> HIDE DEF p
  <2>5. /\ u \in Octets /\ LineSize(u) = Len(u) /\ 0 < Len(u)
        /\ LineUnit(u) = [frames |-> IF p[1] = 240 THEN <<>> ELSE <<p>>, acks |-> 0, sent |-> 1]
    BY <2>2, <2>3, <2>4, LineUnitsAreRead
  <2> HIDE DEF u
  <2>6. LineUnit(u).frames = <<>> /\ LineUnit(u).acks = 0
    BY <2>3, <2>5
  <2>7. Quiet(u)
    BY <2>5, <2>6 DEF Quiet
  <2> QED BY <2>7 DEF u, p, Baos
<1> QED BY <1>2, <1>3

\* The units w is laid of: fr and ak count the telegrams and the acknowledgements.
Counted(n, s, fr, ak) ==
    /\ fr \in [0 .. n -> Nat] /\ ak \in [0 .. n -> Nat] /\ fr[0] = 0 /\ ak[0] = 0 /\ fr[n] = Len(s)

\* A count and its next value.
Spread(n, f, v) == [i \in 0 .. n + 1 |-> IF i <= n THEN f[i] ELSE v]

\* A count and its next value.
LEMMA SpreadIs ==
    ASSUME NEW n \in Nat, NEW f \in [0 .. n -> Nat], NEW v \in Nat
    PROVE  /\ Spread(n, f, v) \in [0 .. n + 1 -> Nat] /\ Spread(n, f, v)[n + 1] = v
           /\ \A i \in 0 .. n : Spread(n, f, v)[i] = f[i]
<1> DEFINE g == Spread(n, f, v)
<1>1. g = [i \in 0 .. n + 1 |-> IF i <= n THEN f[i] ELSE v]
  BY DEF Spread
<1> HIDE DEF g
<1>2. g \in [0 .. n + 1 -> Nat]
  BY <1>1
<1>3. g[n + 1] = v /\ \A i \in 0 .. n : g[i] = f[i]
  BY <1>1
<1> QED BY <1>2, <1>3 DEF g

\* The counts only grow.
LEMMA CountsGrow ==
    ASSUME NEW n \in Nat, NEW f \in [0 .. n -> Nat],
           \A i \in 1 .. n : f[i] = f[i - 1] \/ f[i] = f[i - 1] + 1
    PROVE  \A i \in 0 .. n, k \in 0 .. n : i <= k => f[i] <= f[k]
<1> SUFFICES ASSUME NEW i \in 0 .. n, NEW k \in 0 .. n, i <= k PROVE f[i] <= f[k]
  OBVIOUS
<1> DEFINE T == {d \in Nat : i + d <= n => f[i] <= f[i + d]}
<1>1. \A h \in 0 .. n : f[h] \in Nat
  OBVIOUS
<1>2. 0 \in T
  BY <1>1
<1>3. ASSUME NEW d \in Nat, d \in T PROVE d + 1 \in T
  <2> SUFFICES ASSUME i + (d + 1) <= n PROVE f[i] <= f[i + (d + 1)]
    OBVIOUS
  <2> DEFINE h == i + d
             p == i + (d + 1)
  <2>1. h \in 0 .. n /\ p \in 1 .. n /\ p \in 0 .. n /\ p - 1 = h /\ h <= n
    OBVIOUS
  <2>2. f[i] <= f[h]
    BY <1>3, <2>1
  <2> HIDE DEF h, p
  <2>3. f[p] = f[h] \/ f[p] = f[h] + 1
    BY <2>1
  <2>4. f[i] <= f[p]
    BY <1>1, <2>1, <2>2, <2>3
  <2> QED BY <2>4 DEF p
<1> HIDE DEF T
<1>4. Nat \subseteq T
  BY <1>2, <1>3, Inductive
<1>5. k - i \in Nat /\ i + (k - i) = k
  OBVIOUS
<1>6. k - i \in T
  BY <1>4, <1>5
<1> QED BY <1>5, <1>6 DEF T

\* A unit put at the end is a unit more.
LEMMA LineGrows ==
    ASSUME NEW w, NEW n, NEW at, Line(w, n, at), NEW f, LineSize(f) = Len(f), NEW w2, NEW at2,
           GrownBy(w, n, at, f, w2, at2)
    PROVE  Line(w2, n + 1, at2)
<1>1. Parts(w, n, at) /\ n \in Nat
  BY DEF Line, Parts
<1>2. /\ Parts(w2, n + 1, at2) /\ Sub(w2, at2[n], at2[n + 1]) = f
      /\ Len(w2) = Len(w) + Len(f) /\ at2[n + 1] = Len(w2) /\ at2[n] = at[n] /\ at[n] = Len(w)
  BY <1>1 DEF GrownBy, Parts
<1>3. ASSUME NEW i \in 1 .. n + 1
      PROVE  LineSize(Sub(w2, at2[i - 1], at2[i])) = at2[i] - at2[i - 1]
  <2>1. CASE i = n + 1
    <3>1. i - 1 = n
      BY <1>1, <2>1
    <3>2. Len(w) \in Nat /\ Len(w2) \in Nat /\ Len(w2) = Len(w) + Len(f)
      BY <1>1, <1>2, PartsEnds
    <3>3. Sub(w2, at2[n], at2[n + 1]) \in Octets
      <4>1. at2[n] <= at2[n + 1] /\ at2[n] \in Nat /\ at2[n + 1] \in Nat /\ w2 \in Octets
            /\ at2[n + 1] <= Len(w2)
        <5>1. n \in 0 .. n + 1 /\ n + 1 \in 0 .. n + 1 /\ n + 1 \in 1 .. n + 1 /\ n + 1 - 1 = n
          BY <1>1
        <5>2. at2[n] < at2[n + 1]
          BY <1>2, <5>1 DEF Parts
        <5>3. at2[n] \in Nat /\ at2[n + 1] \in Nat /\ w2 \in Octets /\ at2[n + 1] <= Len(w2)
          BY <1>2, <5>1, PartsEnds
        <5> QED BY <5>2, <5>3
      <4> QED BY <4>1, SubIs
    <3>4. Len(f) \in Nat
      BY <1>2, <3>3 DEF Octets
    <3>5. LineSize(f) = at2[n + 1] - at2[n]
      BY <1>2, <3>2, <3>4
    <3> QED BY <1>2, <2>1, <3>1, <3>5
  <2>2. CASE i # n + 1
    <3>1. i \in 1 .. n
      BY <1>1, <2>2
    <3>2. Sub(w2, at2[i - 1], at2[i]) = Sub(w, at[i - 1], at[i]) /\ at2[i] = at[i]
          /\ at2[i - 1] = at[i - 1]
      BY <1>1, <3>1, PartsStay
    <3>3. LineSize(Sub(w, at[i - 1], at[i])) = at[i] - at[i - 1]
      BY <3>1 DEF Line
    <3> QED BY <3>2, <3>3
  <2> QED BY <2>1, <2>2
<1> QED BY <1>2, <1>3 DEF Line

\* The serial line: what was received are the telegrams of the units that end in the octets
\* delivered, and as many acknowledgements were recognised as are among them.
ReadTo(w, n, at, fr, ak, c, rs, g, a) ==
    \E j \in 0 .. n : Ended(n, at, c, j) /\ rs = Sub(w, at[j], c) /\ Len(g) = fr[j] /\ a = ak[j]

\* The last call on the line ends it; a call adds the acknowledgement, others, its telegram.
EndOf(s, x) == IF Len(s) = 0 THEN x = 0 ELSE x = s[Len(s)].due

\* Joining octets is associative.
LEMMA JoinedOctets == \A s, t, u \in Octets : s \o (t \o u) = (s \o t) \o u
  BY DEF Octets

\* The parts of what a call puts on the line.
LineJoins(l, ack, s, b, u) ==
    /\ l \o ((ack \o (s \o b)) \o u) = (((l \o ack) \o s) \o b) \o u
    /\ Len((ack \o (s \o b)) \o u) = Len(ack) + Len(s) + Len(b) + Len(u)
    /\ l \o ((ack \o <<>>) \o u) = (l \o ack) \o u
    /\ Len((ack \o <<>>) \o u) = Len(ack) + Len(u)

\* A line and a call joined to it, part by part.
LEMMA LineJoined ==
    ASSUME NEW l \in Octets, NEW ack \in Octets, NEW s \in Octets, NEW b \in Octets, NEW u \in Octets
    PROVE  LineJoins(l, ack, s, b, u)
<1> DEFINE sb == s \o b
           asb == ack \o sb
<1>1. sb \in Octets /\ Len(sb) = Len(s) + Len(b)
  BY JoinedLength
<1> HIDE DEF sb
<1>2. asb \in Octets /\ Len(asb) = Len(ack) + Len(sb)
  BY <1>1, JoinedLength
<1>3. ack \o <<>> = ack
  BY DEF Octets
<1>4. Len(ack \o u) = Len(ack) + Len(u) /\ l \o (ack \o u) = (l \o ack) \o u
  <2>1. Len(ack \o u) = Len(ack) + Len(u)
    BY JoinedLength
  <2>2. l \o (ack \o u) = (l \o ack) \o u
    BY JoinedOctets, Zenon
  <2> QED BY <2>1, <2>2
<1>5. l \o asb = ((l \o ack) \o s) \o b
  <2>1. l \o ack \in Octets
    BY JoinedLength
  <2> DEFINE la == l \o ack
  <2>2. l \o asb = la \o sb
    BY <1>1, JoinedOctets, Zenon
  <2> HIDE DEF la
  <2>3. la \o sb = (la \o s) \o b
    <3>1. la \in Octets
      BY <2>1 DEF la
    <3> QED BY <3>1, JoinedOctets, Zenon DEF sb
  <2> QED BY <2>2, <2>3 DEF la
<1> HIDE DEF asb
<1>6. l \o (asb \o u) = (l \o asb) \o u
  BY <1>2, JoinedOctets, Zenon
<1>7. Len(asb \o u) = Len(ack) + Len(s) + Len(b) + Len(u)
  <2>1. Len(asb \o u) = Len(asb) + Len(u)
    BY <1>2, JoinedLength
  <2>2. Len(ack) \in Nat /\ Len(s) \in Nat /\ Len(b) \in Nat /\ Len(u) \in Nat
    BY JoinedLength
  <2> QED BY <1>1, <1>2, <2>1, <2>2
<1> QED BY <1>3, <1>4, <1>5, <1>6, <1>7 DEF LineJoins, asb, sb

\* A thing is counted before j when its place is.
LEMMA CountedTo ==
    ASSUME NEW n \in Nat, NEW f \in [0 .. n -> Nat],
           \A i \in 0 .. n, k \in 0 .. n : i <= k => f[i] <= f[k],
           NEW j \in 0 .. n, NEW i \in 1 .. n, NEW k \in Nat, f[i] = k, f[i - 1] = k - 1
    PROVE  i <= j <=> k <= f[j]
<1>1. i \in 0 .. n /\ i - 1 \in 0 .. n /\ f[j] \in Nat
  OBVIOUS
<1>2. CASE i <= j
  BY <1>1, <1>2
<1>3. CASE ~(i <= j)
  <2>1. j <= i - 1
    BY <1>3
  <2>2. f[j] <= f[i - 1]
    BY <1>1, <2>1
  <2>3. f[j] <= k - 1
    BY <2>2
  <2> QED BY <1>1, <1>3, <2>3
<1> QED BY <1>2, <1>3

\* A set of the first q numbers has q elements.
LEMMA FirstOnes ==
    ASSUME NEW n \in Nat, NEW q \in Nat, q <= n, NEW S, S \subseteq 1 .. n,
           \A k \in 1 .. n : k \in S <=> k <= q
    PROVE  Cardinality(S) = q
<1>1. S = 1 .. q
  <2>1. ASSUME NEW i PROVE i \in S <=> i \in 1 .. q
    <3>1. i \in S => i \in 1 .. n
      OBVIOUS
    <3>2. i \in 1 .. n /\ i <= q <=> i \in 1 .. q
      OBVIOUS
    <3> QED BY <3>1, <3>2
  <2> QED BY <2>1
<1>2. Cardinality(1 .. q) = q
  <2>1. 1 \in Int /\ q \in Int
    OBVIOUS
  <2>2. Cardinality(1 .. q) = IF 1 > q THEN 0 ELSE q - 1 + 1
    BY ONLY <2>1, FS_Interval
  <2> QED BY <2>2
<1> QED BY <1>1, <1>2

\* The acknowledgements that have arrived when c octets have.
AcksOf(s, c) == Cardinality({i \in 1 .. Len(s) : c > IF i = 1 THEN 0 ELSE s[i - 1].due})
===============================================================================
