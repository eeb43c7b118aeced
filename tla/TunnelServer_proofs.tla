------------------------- MODULE TunnelServer_proofs -------------------------
(***************************************************************************)
(* The session table and the channel pool of KNXIPTunnelServer for every   *)
(* number of clients, sessions and channels.                               *)
(*                                                                         *)
(* Tables is the invariant of the three structures that must agree: the    *)
(* session map, the channel of each session and the pool.  The methods     *)
(* that change them, closeSession, ensureSession and stop, each keep it.   *)
(***************************************************************************)
EXTENDS TunnelServer, FiniteSetTheorems, SequenceTheorems, TLAPS

Distinct(s) == \A i, j \in DOMAIN s : i # j => s[i] # s[j]

\* freeChannelId: the item put in front of a sequence without it.
LEMMA ConsItem ==
    ASSUME NEW S, NEW s \in Seq(S), NEW x \in S, x \notin ToSet(s), Distinct(s)
    PROVE  LET r == << x >> \o s
           IN  r \in Seq(S) /\ Distinct(r) /\ ToSet(r) = ToSet(s) \cup {x}
<1> DEFINE r == << x >> \o s
<1>1. r \in Seq(S) /\ Len(r) = Len(s) + 1 /\ DOMAIN r = 1 .. Len(s) + 1
  OBVIOUS
<1>2. r[1] = x /\ \A i \in 1 .. Len(s) : r[i + 1] = s[i]
  OBVIOUS
<1>3. \A i \in 2 .. Len(s) + 1 : i - 1 \in DOMAIN s /\ r[i] = s[i - 1]
  BY <1>2
<1>4. ToSet(r) = ToSet(s) \cup {x}
  <2>1. ASSUME NEW y \in ToSet(r) PROVE y \in ToSet(s) \cup {x}
    BY <2>1, <1>1, <1>2, <1>3 DEF ToSet
  <2>2. x \in ToSet(r)
    BY <1>1, <1>2 DEF ToSet
  <2>3. ASSUME NEW y \in ToSet(s) PROVE y \in ToSet(r)
    <3>1. PICK i \in 1 .. Len(s) : y = s[i]
      BY DEF ToSet
    <3>2. i + 1 \in DOMAIN r /\ r[i + 1] = y
      BY <3>1, <1>1, <1>2
    <3> QED
      BY <3>2 DEF ToSet
  <2> QED
    BY <2>1, <2>2, <2>3
<1>5. Distinct(r)
  BY <1>1, <1>2, <1>3 DEF Distinct, ToSet
<1> QED
  BY <1>1, <1>4, <1>5

\* Map.set of a new key, and the same in any sequence: a new last item.
LEMMA AppendItem ==
    ASSUME NEW S, NEW s \in Seq(S), NEW x \in S, x \notin ToSet(s), Distinct(s)
    PROVE  LET r == Append(s, x)
           IN  /\ r \in Seq(S) /\ Len(r) = Len(s) + 1
               /\ Distinct(r) /\ ToSet(r) = ToSet(s) \cup {x}
<1> DEFINE r == Append(s, x)
<1>1. r \in Seq(S) /\ Len(r) = Len(s) + 1 /\ DOMAIN r = 1 .. Len(s) + 1
  OBVIOUS
<1>2. r[Len(s) + 1] = x /\ \A i \in 1 .. Len(s) : r[i] = s[i]
  OBVIOUS
<1>4. ToSet(r) = ToSet(s) \cup {x}
  BY <1>1, <1>2 DEF ToSet
<1>5. Distinct(r)
  BY <1>1, <1>2 DEF Distinct, ToSet
<1> QED
  BY <1>1, <1>4, <1>5

\* Map.delete: the kth item leaves, the others keep their order.
LEMMA RemoveItem ==
    ASSUME NEW S, NEW s \in Seq(S), NEW k \in DOMAIN s, Distinct(s)
    PROVE  LET r == RemoveAt(s, k)
           IN  /\ r \in Seq(S) /\ Len(r) = Len(s) - 1
               /\ Distinct(r) /\ ToSet(r) = ToSet(s) \ {s[k]}
<1> DEFINE r == RemoveAt(s, k)
<1>1. /\ r \in Seq(S) /\ Len(r) = Len(s) - 1
      /\ \A i \in 1 .. Len(s) - 1 : r[i] = s[IF i < k THEN i ELSE i + 1]
  <2> DEFINE front == SubSeq(s, 1, k - 1)
             back == SubSeq(s, k + 1, Len(s))
  <2>1. k \in 1 .. Len(s)
    OBVIOUS
  <2>2. /\ front \in Seq(S) /\ Len(front) = k - 1
        /\ \A i \in 1 .. k - 1 : front[i] = s[i]
    BY <2>1
  <2>3. /\ back \in Seq(S) /\ Len(back) = Len(s) - k
        /\ \A i \in 1 .. Len(s) - k : back[i] = s[k + i]
    BY <2>1
  <2>4. r = front \o back
    BY DEF RemoveAt
  <2> HIDE DEF front, back, r
  <2>5. /\ r \in Seq(S) /\ Len(r) = Len(front) + Len(back)
        /\ \A i \in 1 .. Len(front) + Len(back) :
              r[i] = IF i <= Len(front) THEN front[i] ELSE back[i - Len(front)]
    BY <2>2, <2>3, <2>4, ConcatProperties
  <2> DEFINE n == Len(s)
  <2>6. /\ n \in Nat /\ k \in 1 .. n /\ Len(front) = k - 1 /\ Len(back) = n - k
        /\ Len(front) + Len(back) = n - 1 /\ Len(r) = n - 1
    BY <2>1, <2>2, <2>3, <2>5
  <2>7. ASSUME NEW i \in 1 .. Len(s) - 1
        PROVE  r[i] = s[IF i < k THEN i ELSE i + 1]
    <3>1. CASE i < k
      <4>1. r[i] = front[i] /\ i \in 1 .. k - 1
        BY <3>1, <2>5, <2>6
      <4> QED
        BY <3>1, <4>1, <2>2
    <3>2. CASE ~(i < k)
      <4>1. i - (k - 1) \in 1 .. n - k /\ ~(i <= k - 1) /\ k + (i - (k - 1)) = i + 1
        BY <3>2, <2>6
      <4>2. r[i] = back[i - (k - 1)]
        BY <4>1, <2>5, <2>6
      <4>3. back[i - (k - 1)] = s[k + (i - (k - 1))]
        BY <4>1, <2>3
      <4> QED
        BY <3>2, <4>1, <4>2, <4>3
    <3> QED
      BY <3>1, <3>2
  <2> QED
    BY <2>5, <2>6, <2>7
<1>2. DOMAIN r = 1 .. Len(s) - 1
  BY <1>1
<1>3. ToSet(r) = ToSet(s) \ {s[k]}
  <2>1. ASSUME NEW y \in ToSet(r) PROVE y \in ToSet(s) \ {s[k]}
    <3>1. PICK i \in 1 .. Len(s) - 1 : y = r[i]
      BY <2>1, <1>2 DEF ToSet
    <3>2. y = s[IF i < k THEN i ELSE i + 1]
      BY <3>1, <1>1
    <3> QED
      BY <3>2 DEF ToSet, Distinct
  <2>2. ASSUME NEW y \in ToSet(s), y # s[k] PROVE y \in ToSet(r)
    <3>1. PICK i \in 1 .. Len(s) : y = s[i]
      BY <2>2 DEF ToSet
    <3>2. CASE i < k
      BY <3>1, <3>2, <1>1, <1>2 DEF ToSet
    <3>3. CASE i > k
      <4>1. i - 1 \in 1 .. Len(s) - 1 /\ r[i - 1] = s[i]
        BY <3>3, <1>1
      <4> QED
        BY <4>1, <3>1, <1>2 DEF ToSet
    <3> QED
      BY <2>2, <3>1, <3>2, <3>3
  <2> QED
    BY <2>1, <2>2
<1>4. Distinct(r)
  BY <1>1, <1>2 DEF Distinct
<1> QED
  BY <1>1, <1>3, <1>4

\* channelPool.shift(), and the oldest session leaving the map.
LEMMA TailItem ==
    ASSUME NEW S, NEW s \in Seq(S), s # << >>, Distinct(s)
    PROVE  LET r == Tail(s)
           IN  /\ Head(s) \in S /\ Head(s) \in ToSet(s)
               /\ r \in Seq(S) /\ Len(r) = Len(s) - 1
               /\ Distinct(r) /\ ToSet(r) = ToSet(s) \ {Head(s)}
<1> DEFINE r == Tail(s)
<1>1. /\ r \in Seq(S) /\ Len(r) = Len(s) - 1 /\ DOMAIN r = 1 .. Len(s) - 1
      /\ \A i \in 1 .. Len(s) - 1 : r[i] = s[i + 1]
  OBVIOUS
<1>2. Head(s) = s[1] /\ 1 \in DOMAIN s /\ Head(s) \in S /\ DOMAIN s = 1 .. Len(s)
  OBVIOUS
<1>3. ToSet(r) = ToSet(s) \ {Head(s)}
  <2>1. ASSUME NEW y \in ToSet(r) PROVE y \in ToSet(s) \ {Head(s)}
    BY <2>1, <1>1, <1>2 DEF ToSet, Distinct
  <2>2. ASSUME NEW y \in ToSet(s), y # Head(s) PROVE y \in ToSet(r)
    <3>1. PICK i \in 1 .. Len(s) : y = s[i]
      BY <2>2 DEF ToSet
    <3>2. i - 1 \in 1 .. Len(s) - 1 /\ r[i - 1] = s[i]
      BY <2>2, <3>1, <1>1, <1>2
    <3> QED
      BY <3>1, <3>2, <1>1 DEF ToSet
  <2> QED
    BY <2>1, <2>2
<1>4. Distinct(r)
  BY <1>1, <1>2 DEF Distinct
<1> QED
  BY <1>1, <1>2, <1>3, <1>4 DEF ToSet

----------------------------------------------------------------------------
\* The session map ss, the channels ch of its clients and the pool p agree:
\* a client has a channel exactly when it is in the map, and a channel is in
\* the pool exactly when no client holds it.
Tables(ss, ch, p) ==
    /\ ss \in Seq(Clients) /\ Distinct(ss)
    /\ p \in Seq(Channels) /\ Distinct(p)
    /\ ch \in [Clients -> Channels \cup {NoChannel}]
    /\ \A c \in Clients : c \in ToSet(ss) <=> ch[c] # NoChannel
    /\ \A c, d \in ToSet(ss) : c # d => ch[c] # ch[d]
    /\ \A n \in Channels : n \in ToSet(p) <=> \A c \in ToSet(ss) : ch[c] # n

\* The set of the items of a sequence over S is a subset of S.
LEMMA Items == ASSUME NEW S, NEW s \in Seq(S) PROVE ToSet(s) \subseteq S
BY DEF ToSet

\* 0 is reserved: it is no channel id.
LEMMA Reserved == NoChannel \notin Channels
BY TunnelServerAssumption DEF NoChannel, Channels

\* closeSession: the client leaves the map and its channel returns to the pool.
LEMMA CloseTables ==
    ASSUME NEW ss, NEW ch, NEW p, Tables(ss, ch, p), NEW k \in DOMAIN ss
    PROVE  /\ Tables(RemoveAt(ss, k), [ch EXCEPT ![ss[k]] = NoChannel],
                     FreeChannelId(p, ch[ss[k]]))
           /\ Len(RemoveAt(ss, k)) = Len(ss) - 1
           /\ ToSet(RemoveAt(ss, k)) = ToSet(ss) \ {ss[k]}
           /\ FreeChannelId(p, ch[ss[k]]) # << >>
<1> DEFINE c == ss[k]
           rest == RemoveAt(ss, k)
           without == [ch EXCEPT ![c] = NoChannel]
           freed == FreeChannelId(p, ch[c])
<1>1. /\ rest \in Seq(Clients) /\ Distinct(rest) /\ Len(rest) = Len(ss) - 1
      /\ ToSet(rest) = ToSet(ss) \ {c}
  BY RemoveItem DEF Tables
<1>2. c \in ToSet(ss) /\ c \in Clients
  BY DEF Tables, ToSet
<1>3. ch[c] \in Channels /\ ch[c] \notin ToSet(p)
  BY <1>2 DEF Tables
<1>4. /\ freed \in Seq(Channels) /\ Distinct(freed)
      /\ ToSet(freed) = ToSet(p) \cup {ch[c]}
  BY <1>3, ConsItem DEF Tables, FreeChannelId
<1>5. freed # << >>
  BY <1>4 DEF ToSet
<1>6. without \in [Clients -> Channels \cup {NoChannel}]
  BY DEF Tables
<1>7. \A d \in Clients : without[d] = IF d = c THEN NoChannel ELSE ch[d]
  BY DEF Tables
<1>8. ToSet(ss) \subseteq Clients
  BY Items DEF Tables
<1> HIDE DEF c, rest, without, freed
<1>9. \A d \in Clients : d \in ToSet(rest) <=> without[d] # NoChannel
  BY <1>1, <1>7 DEF Tables
<1>10. \A d, e \in ToSet(rest) : d # e => without[d] # without[e]
  BY <1>1, <1>7, <1>8 DEF Tables
<1>11. \A n \in Channels : n \in ToSet(freed) <=> \A d \in ToSet(rest) : without[d] # n
  BY <1>1, <1>2, <1>3, <1>4, <1>7, <1>8 DEF Tables
<1> QED
  BY <1>1, <1>4, <1>5, <1>6, <1>9, <1>10, <1>11 DEF Tables, c, rest, without, freed

\* ensureSession, a new session: the client enters the map with the first
\* channel of the pool.
LEMMA OpenTables ==
    ASSUME NEW ss, NEW ch, NEW p, Tables(ss, ch, p), p # << >>,
           NEW c \in Clients, c \notin ToSet(ss)
    PROVE  /\ Tables(Append(ss, c), [ch EXCEPT ![c] = Head(p)], Tail(p))
           /\ Len(Append(ss, c)) = Len(ss) + 1
           /\ ToSet(Append(ss, c)) = ToSet(ss) \cup {c}
           /\ Head(p) \in Channels
<1> DEFINE longer == Append(ss, c)
           with == [ch EXCEPT ![c] = Head(p)]
<1>1. /\ longer \in Seq(Clients) /\ Distinct(longer) /\ Len(longer) = Len(ss) + 1
      /\ ToSet(longer) = ToSet(ss) \cup {c}
  BY AppendItem DEF Tables
<1>2. /\ Head(p) \in Channels /\ Head(p) \in ToSet(p)
      /\ Tail(p) \in Seq(Channels) /\ Distinct(Tail(p))
      /\ ToSet(Tail(p)) = ToSet(p) \ {Head(p)}
  BY TailItem DEF Tables
<1>3. with \in [Clients -> Channels \cup {NoChannel}]
  BY <1>2 DEF Tables
<1>4. \A d \in Clients : with[d] = IF d = c THEN Head(p) ELSE ch[d]
  BY DEF Tables
<1>5. ToSet(ss) \subseteq Clients /\ Head(p) # NoChannel
  BY <1>2, Items, Reserved DEF Tables
<1> HIDE DEF longer, with
<1>6. \A d \in Clients : d \in ToSet(longer) <=> with[d] # NoChannel
  BY <1>1, <1>4, <1>5 DEF Tables
<1>7. \A d, e \in ToSet(longer) : d # e => with[d] # with[e]
  BY <1>1, <1>2, <1>4, <1>5 DEF Tables
<1>8. \A n \in Channels : n \in ToSet(Tail(p)) <=> \A d \in ToSet(longer) : with[d] # n
  BY <1>1, <1>2, <1>4, <1>5 DEF Tables
<1> QED
  BY <1>1, <1>2, <1>3, <1>6, <1>7, <1>8 DEF Tables, longer, with

\* With fewer sessions than channels the pool is not empty, so that it is
\* never refilled with ids that are in use.
LEMMA PoolNotEmpty ==
    ASSUME NEW ss, NEW ch, NEW p, Tables(ss, ch, p), Len(ss) < MaxChannel
    PROVE  p # << >>
<1> SUFFICES ASSUME p = << >> PROVE FALSE
  OBVIOUS
<1>1. ToSet(p) = {}
  BY DEF ToSet
<1>2. \A n \in Channels : \E i \in 1 .. Len(ss) : ch[ss[i]] = n
  BY <1>1 DEF Tables, ToSet
<1> DEFINE f == [i \in 1 .. Len(ss) |-> ch[ss[i]]]
<1>3. \A i \in 1 .. Len(ss) : ch[ss[i]] \in Channels
  <2>1. ASSUME NEW i \in 1 .. Len(ss) PROVE ss[i] \in Clients /\ ss[i] \in ToSet(ss)
    BY DEF Tables, ToSet
  <2> QED
    BY <2>1 DEF Tables
<1>4. f \in Surjection(1 .. Len(ss), Channels)
  BY <1>2, <1>3 DEF Surjection
<1>5. Len(ss) \in Nat /\ MaxChannel \in Nat
  BY TunnelServerAssumption DEF Tables
<1>6. IsFiniteSet(1 .. Len(ss)) /\ Cardinality(1 .. Len(ss)) = Len(ss)
  <2> DEFINE n == Len(ss)
  <2>1. n \in Int /\ 1 \in Int /\ n >= 0
    BY <1>5
  <2> HIDE DEF n
  <2>2. IsFiniteSet(1 .. n) /\ Cardinality(1 .. n) = IF 1 > n THEN 0 ELSE n - 1 + 1
    BY <2>1, FS_Interval
  <2>3. IsFiniteSet(1 .. n) /\ Cardinality(1 .. n) = n
    BY <2>1, <2>2
  <2> QED
    BY <2>3 DEF n
<1>7. Cardinality(Channels) = MaxChannel
  BY <1>5, FS_Interval DEF Channels
<1>8. Cardinality(Channels) <= Cardinality(1 .. Len(ss))
  BY <1>4, <1>6, FS_Surjection
<1> QED
  BY <1>5, <1>6, <1>7, <1>8

\* The constructor and stop(): no session, a full pool.
LEMMA FreshTables == Tables(<< >>, [c \in Clients |-> NoChannel], FullPool)
<1>1. FullPool \in Seq(Channels) /\ DOMAIN FullPool = Channels
  BY TunnelServerAssumption DEF FullPool, Channels
<1>2. \A i \in Channels : FullPool[i] = i
  BY DEF FullPool
<1>3. Distinct(FullPool) /\ ToSet(FullPool) = Channels
  BY <1>1, <1>2 DEF Distinct, ToSet
<1>4. << >> \in Seq(Clients) /\ Distinct(<< >>) /\ ToSet(<< >>) = {}
  BY DEF Distinct, ToSet
<1> QED
  BY <1>1, <1>3, <1>4 DEF Tables

----------------------------------------------------------------------------
\* The inductive invariant: the invariants the runs check, with the partition
\* of the channels as Tables has it.
IInv ==
    /\ TypeOK
    /\ Tables(sessions, channelId, pool)
    /\ Len(sessions) <= MaxTable
    /\ AnnouncedLive

\* A server that was just constructed satisfies it.
LEMMA InitInv == Init => IInv
<1> SUFFICES ASSUME Init PROVE IInv
  OBVIOUS
<1>1. Tables(sessions, channelId, pool)
  BY FreshTables DEF Init
<1>2. Len(sessions) = 0 /\ MaxTable \in Nat
  BY TunnelServerAssumption DEF Init, MaxTable
<1>3. 0 \in 0 .. SeqModulus - 1
  BY TunnelServerAssumption
<1>4. TypeOK
  BY <1>1, <1>3 DEF Init, TypeOK, Tables
<1>5. AnnouncedLive
  BY DEF Init, AnnouncedLive
<1> QED
  BY <1>1, <1>2, <1>4, <1>5 DEF IInv

\* What a frame of the server may be.
Frames == [client : Clients, service : Services, ok : BOOLEAN,
           channel : Channels \cup {NoChannel}, seq : 0 .. SeqModulus - 1]

\* Every frame the handlers build has the type of a frame.
LEMMA FrameType ==
    ASSUME NEW c \in Clients, NEW service \in Services, NEW ok \in BOOLEAN,
           NEW channel \in Channels \cup {NoChannel}, NEW seq \in 0 .. SeqModulus - 1
    PROVE  Frame(c, service, channel, ok, seq) \in Frames
BY DEF Frame, Frames

\* closeSession for a client of the map keeps the tables, whichever of its
\* occurrences is meant: there is one.
LEMMA CloseStep ==
    ASSUME IInv, NEW c \in InSession, CloseSession(c)
    PROVE  /\ Tables(sessions', channelId', pool')
           /\ Len(sessions') <= MaxTable
           /\ nextSeq' \in [Clients -> 0 .. SeqModulus - 1]
           /\ announced' \subseteq Clients \X Channels
           /\ AnnouncedLive'
<1> DEFINE k == CHOOSE i \in DOMAIN sessions : sessions[i] = c
<1>1. k \in DOMAIN sessions /\ sessions[k] = c
  BY DEF InSession, ToSet
<1> HIDE DEF k
<1>2. /\ sessions' = RemoveAt(sessions, k)
      /\ channelId' = [channelId EXCEPT ![c] = NoChannel]
      /\ pool' = FreeChannelId(pool, channelId[c])
      /\ nextSeq' = [nextSeq EXCEPT ![c] = 0]
      /\ announced' = announced \ {<< c, channelId[c] >>}
  BY DEF CloseSession, k
<1>3. Tables(sessions, channelId, pool) /\ TypeOK
  BY DEF IInv
<1>4. /\ Tables(sessions', channelId', pool')
      /\ Len(sessions') = Len(sessions) - 1
      /\ ToSet(sessions') = ToSet(sessions) \ {c}
  BY <1>1, <1>2, <1>3, CloseTables
<1>5. Len(sessions') <= MaxTable
  BY <1>4, TunnelServerAssumption DEF IInv, MaxTable, TypeOK
<1>6. nextSeq' \in [Clients -> 0 .. SeqModulus - 1]
  <2>1. 0 \in 0 .. SeqModulus - 1
    BY TunnelServerAssumption
  <2> QED
    BY <2>1, <1>2, <1>3 DEF TypeOK
<1>7. announced' \subseteq Clients \X Channels
  BY <1>2, <1>3 DEF TypeOK
<1>8. AnnouncedLive'
  BY <1>2, <1>3, <1>4 DEF IInv, AnnouncedLive, InSession, TypeOK
<1> QED
  BY <1>4, <1>5, <1>6, <1>7, <1>8

\* ensureSession keeps the tables and leaves the client with a channel; no
\* session changes its channel, and none ends but the oldest of a full table.
LEMMA EnsureStep ==
    ASSUME IInv, NEW c \in Clients, EnsureSession(c)
    PROVE  /\ Tables(sessions', channelId', pool')
           /\ Len(sessions') <= MaxTable
           /\ nextSeq' \in [Clients -> 0 .. SeqModulus - 1]
           /\ c \in InSession' /\ channelId'[c] \in Channels
           /\ \A a \in announced \ Evicted(c) :
                 a[1] \in InSession' /\ channelId'[a[1]] = a[2]
           /\ \A d \in InSession \cap InSession' : channelId'[d] = channelId[d]
           /\ \A d \in InSession \ InSession' :
                 d = Head(sessions) /\ Len(sessions) = MaxTable /\ c \notin InSession
<1>0. /\ Tables(sessions, channelId, pool) /\ TypeOK /\ Len(sessions) <= MaxTable
      /\ \A a \in announced : a[1] \in InSession /\ channelId[a[1]] = a[2]
      /\ MaxTable \in Nat /\ MaxTable <= MaxChannel /\ 0 \in 0 .. SeqModulus - 1
      /\ sessions \in Seq(Clients) /\ InSession \subseteq Clients
  <2>1. Tables(sessions, channelId, pool) /\ TypeOK
    BY DEF IInv
  <2>2. sessions \in Seq(Clients) /\ InSession \subseteq Clients
    BY <2>1, Items DEF TypeOK, InSession
  <2> QED
    BY <2>1, <2>2, TunnelServerAssumption DEF IInv, AnnouncedLive, MaxTable
<1>1. CASE c \in InSession /\ UNCHANGED << sessions, channelId, nextSeq, pool >>
  <2>1. channelId[c] \in Channels
    BY <1>0, <1>1 DEF Tables, InSession
  <2> QED
    BY <1>0, <1>1, <2>1 DEF InSession, TypeOK
<1>2. CASE c \notin InSession /\ ~TableFull /\ OpenSession(c)
  <2>1. Len(sessions) < MaxChannel /\ Len(sessions) + 1 <= MaxTable
    BY <1>0, <1>2, TunnelServerAssumption DEF TableFull, MaxTable
  <2>2. pool # << >>
    BY <1>0, <2>1, PoolNotEmpty
  <2>3. /\ sessions' = Append(sessions, c)
        /\ channelId' = [channelId EXCEPT ![c] = Head(pool)]
        /\ nextSeq' = [nextSeq EXCEPT ![c] = 0]
        /\ pool' = Tail(pool)
    BY <1>2, <2>2 DEF OpenSession, Available
  <2>4. /\ Tables(sessions', channelId', pool') /\ Len(sessions') = Len(sessions) + 1
        /\ ToSet(sessions') = ToSet(sessions) \cup {c} /\ Head(pool) \in Channels
    BY <1>0, <1>2, <2>2, <2>3, OpenTables DEF InSession
  <2>5. nextSeq' \in [Clients -> 0 .. SeqModulus - 1]
    BY <1>0, <2>3 DEF TypeOK
  <2>6. channelId'[c] = Head(pool) /\ \A d \in InSession : channelId'[d] = channelId[d]
    BY <1>0, <1>2, <2>3 DEF TypeOK
  <2> QED
    BY <1>0, <2>1, <2>4, <2>5, <2>6 DEF InSession
<1>3. CASE c \notin InSession /\ TableFull /\ ReplaceOldest(c)
  <2> DEFINE oldest == Head(sessions)
             rest == Tail(sessions)
             without == [channelId EXCEPT ![oldest] = NoChannel]
             freed == FreeChannelId(pool, channelId[oldest])
  <2>1. sessions # << >> /\ 1 \in DOMAIN sessions /\ sessions[1] = oldest
    BY <1>0, <1>3 DEF TableFull
  <2>2. RemoveAt(sessions, 1) = rest
    BY <1>0, <2>1 DEF RemoveAt
  <2>3. /\ Tables(rest, without, freed) /\ Len(rest) = Len(sessions) - 1
        /\ ToSet(rest) = ToSet(sessions) \ {oldest} /\ freed # << >>
    <3>1. PICK k \in DOMAIN sessions : k = 1 /\ sessions[k] = oldest
      BY <2>1
    <3>2. /\ Tables(RemoveAt(sessions, k), [channelId EXCEPT ![sessions[k]] = NoChannel],
                    FreeChannelId(pool, channelId[sessions[k]]))
          /\ Len(RemoveAt(sessions, k)) = Len(sessions) - 1
          /\ ToSet(RemoveAt(sessions, k)) = ToSet(sessions) \ {sessions[k]}
          /\ FreeChannelId(pool, channelId[sessions[k]]) # << >>
      <4>1. Tables(sessions, channelId, pool)
        BY <1>0
      <4> QED
        BY <4>1, CloseTables
    <3> HIDE DEF oldest
    <3> QED
      BY <3>1, <3>2, <2>2
  <2>4. /\ sessions' = Append(rest, c)
        /\ channelId' = [without EXCEPT ![c] = Head(freed)]
        /\ nextSeq' = [[nextSeq EXCEPT ![oldest] = 0] EXCEPT ![c] = 0]
        /\ pool' = Tail(freed)
    BY <1>3, <2>3 DEF ReplaceOldest, Available
  <2>5. oldest \in InSession /\ oldest \in Clients /\ oldest # c
    BY <1>0, <1>3, <2>1 DEF InSession, ToSet
  <2> HIDE DEF rest, without, freed
  <2>6. /\ Tables(sessions', channelId', pool') /\ Len(sessions') = Len(rest) + 1
        /\ ToSet(sessions') = ToSet(rest) \cup {c} /\ Head(freed) \in Channels
    BY <1>3, <2>3, <2>4, OpenTables DEF InSession
  <2>7. Len(sessions') <= MaxTable
    BY <1>0, <2>3, <2>6
  <2>8. nextSeq' \in [Clients -> 0 .. SeqModulus - 1]
    BY <1>0, <2>4 DEF TypeOK
  <2>9. /\ channelId'[c] = Head(freed)
        /\ \A d \in InSession \ {oldest} : channelId'[d] = channelId[d]
    BY <1>0, <1>3, <2>4, <2>5 DEF TypeOK, without
  <2>10. Evicted(c) = {<< oldest, channelId[oldest] >>}
    BY <1>3 DEF Evicted
  <2>11. \A a \in announced \ Evicted(c) : a[1] \in InSession \ {oldest}
    BY <1>0, <2>10 DEF TypeOK
  <2>12. Len(sessions) = MaxTable
    <3>1. Len(sessions) \in Nat /\ Len(sessions) >= 1
      BY <1>0, <2>1
    <3>2. Len(sessions) >= MaxSessions /\ MaxSessions \in Nat
      BY <1>3, TunnelServerAssumption DEF TableFull
    <3>3. Len(sessions) <= MaxTable
      BY <1>0
    <3> DEFINE n == Len(sessions)
    <3> HIDE DEF n
    <3>4. n \in Nat /\ n >= 1 /\ n >= MaxSessions /\ n <= MaxTable
      BY <3>1, <3>2, <3>3 DEF n
    <3>5. n = MaxTable
      BY <3>2, <3>4 DEF MaxTable
    <3> QED
      BY <3>5 DEF n
  <2>13. InSession' = (InSession \ {oldest}) \cup {c}
    BY <2>3, <2>6 DEF InSession
  <2>14. \A d \in InSession \cap InSession' : channelId'[d] = channelId[d]
    BY <1>3, <2>9, <2>13, <2>5
  <2>15. \A d \in InSession \ InSession' : d = Head(sessions)
    BY <2>13
  <2>16. \A a \in announced \ Evicted(c) : a[1] \in InSession' /\ channelId'[a[1]] = a[2]
    BY <1>0, <2>9, <2>11, <2>13
  <2>17. c \in InSession' /\ channelId'[c] \in Channels
    BY <2>6, <2>9, <2>13
  <2> QED
    BY <1>3, <2>6, <2>7, <2>8, <2>12, <2>14, <2>15, <2>16, <2>17
<1> QED
  BY <1>1, <1>2, <1>3 DEF EnsureSession

----------------------------------------------------------------------------
\* Every handler and method of the server keeps the inductive invariant.
LEMMA NextInv == IInv /\ [Next]_vars => IInv'
<1> SUFFICES ASSUME IInv, [Next]_vars PROVE IInv'
  OBVIOUS
<1>0. /\ TypeOK /\ Tables(sessions, channelId, pool) /\ AnnouncedLive
      /\ Len(sessions) <= MaxTable /\ InSession \subseteq Clients
      /\ 0 \in 0 .. SeqModulus - 1
  <2>1. TypeOK /\ Tables(sessions, channelId, pool) /\ Len(sessions) <= MaxTable
    BY DEF IInv
  <2>2. InSession \subseteq Clients
    BY <2>1, Items DEF TypeOK, InSession
  <2> QED
    BY <2>1, <2>2, TunnelServerAssumption DEF IInv
<1>1. ASSUME UNCHANGED tables, TypeOK' PROVE IInv'
  BY <1>0, <1>1 DEF IInv, tables, AnnouncedLive, InSession
<1>2. CASE Start
  <2>1. UNCHANGED tables /\ TypeOK'
    BY <1>0, <1>2 DEF Start, TypeOK, tables
  <2> QED
    BY <2>1, <1>1
<1>3. CASE Bind
  <2>1. UNCHANGED tables /\ TypeOK'
    BY <1>0, <1>3 DEF Bind, TypeOK, tables
  <2> QED
    BY <2>1, <1>1
<1>4. CASE Stop
  <2>1. Tables(sessions', channelId', pool')
    BY <1>4, FreshTables DEF Stop
  <2>2. Len(sessions') <= MaxTable
    BY <1>4, TunnelServerAssumption DEF Stop, MaxTable
  <2>3. announced' = {}
    BY <1>0, <1>4 DEF Stop, AnnouncedLive, TypeOK
  <2>4. TypeOK'
    BY <1>0, <1>4, <2>1, <2>3 DEF Stop, TypeOK, Tables
  <2> QED
    BY <2>1, <2>2, <2>3, <2>4 DEF IInv, AnnouncedLive
<1>5. ASSUME NEW S \in SUBSET InSession, SendCemi(S) PROVE IInv'
  <2>1. nextSeq' \in [Clients -> 0 .. SeqModulus - 1]
    <3>1. ASSUME NEW c \in Clients PROVE (nextSeq[c] + 1) % SeqModulus \in 0 .. SeqModulus - 1
      BY <1>0, TunnelServerAssumption DEF TypeOK
    <3> QED
      BY <1>0, <1>5, <3>1 DEF SendCemi, TypeOK
  <2>2. \A c \in S : Frame(c, "TUNNELING_REQUEST", channelId[c], TRUE, nextSeq[c]) \in Frames
    BY <1>0, <1>5, FrameType DEF TypeOK, Services
  <2>3. out' \subseteq Frames
    BY <1>5, <2>2 DEF SendCemi
  <2> QED
    BY <1>0, <1>5, <2>1, <2>3 DEF SendCemi, IInv, TypeOK, AnnouncedLive, InSession, Frames
<1>6. CASE Inject
  BY <1>5, <1>6 DEF Inject
<1>7. ASSUME NEW channel \in Channels, InjectToChannel(channel) PROVE IInv'
  <2> DEFINE First(i) == /\ channelId[sessions[i]] = channel
                         /\ \A j \in 1 .. i - 1 : channelId[sessions[j]] # channel
             i == CHOOSE k \in DOMAIN sessions : First(k)
  <2>1. PICK m \in DOMAIN sessions : channelId[sessions[m]] = channel
    BY <1>7 DEF InjectToChannel, InSession, ToSet
  <2>2. sessions[i] \in InSession
    <3>1. \E k \in DOMAIN sessions : First(k)
      <4>1. \A k \in DOMAIN sessions :
               channelId[sessions[k]] = channel => k = m
        BY <1>0, <2>1 DEF Tables, Distinct, ToSet
      <4>2. DOMAIN sessions = 1 .. Len(sessions) /\ Len(sessions) \in Nat
        BY <1>0 DEF TypeOK
      <4>3. First(m)
        BY <2>1, <4>1, <4>2
      <4> QED
        BY <4>3, <2>1
    <3> QED
      BY <3>1 DEF InSession, ToSet
  <2>3. SendCemi({sessions[i]})
    BY <1>7 DEF InjectToChannel
  <2> HIDE DEF i
  <2> QED
    BY <2>2, <2>3, <1>5
<1>8. ASSUME NEW c \in Clients, NEW isTunnel \in BOOLEAN, ConnectRequest(c, isTunnel)
      PROVE  IInv'
  <2>1. /\ Tables(sessions', channelId', pool')
        /\ Len(sessions') <= MaxTable
        /\ nextSeq' \in [Clients -> 0 .. SeqModulus - 1]
        /\ c \in InSession' /\ channelId'[c] \in Channels
        /\ \A a \in announced \ Evicted(c) :
              a[1] \in InSession' /\ channelId'[a[1]] = a[2]
    BY <1>8, EnsureStep DEF ConnectRequest
  <2>2. announced' \subseteq (announced \ Evicted(c)) \cup {<< c, channelId'[c] >>}
    BY <1>8 DEF ConnectRequest
  <2>3. announced' \subseteq Clients \X Channels
    BY <1>0, <2>1, <2>2 DEF TypeOK
  <2>4. AnnouncedLive'
    BY <2>1, <2>2 DEF AnnouncedLive
  <2>5. out' \subseteq Frames
    <3>1. Frame(c, "CONNECT_RESPONSE", channelId'[c], isTunnel, 0) \in Frames
      BY <1>0, <2>1, FrameType DEF Services
    <3> QED
      BY <1>8, <3>1 DEF ConnectRequest
  <2> QED
    BY <1>0, <1>8, <2>1, <2>3, <2>4, <2>5 DEF ConnectRequest, IInv, TypeOK, Tables, Frames
<1>9. ASSUME NEW c \in Clients, NEW channel \in Channels \cup {NoChannel},
             ConnectionStateRequest(c, channel)
      PROVE  IInv'
  <2>1. out' \subseteq Frames
    <3>1. Frame(c, "CONNECTIONSTATE_RESPONSE", channel, Owns(c, channel), 0) \in Frames
      BY <1>0, FrameType DEF Services, Owns
    <3> QED
      BY <1>9, <3>1 DEF ConnectionStateRequest
  <2> QED
    BY <1>0, <1>1, <1>9, <2>1 DEF ConnectionStateRequest, TypeOK, tables, Frames
<1>10. ASSUME NEW c \in Clients, NEW channel \in Channels \cup {NoChannel},
              DisconnectRequest(c, channel)
       PROVE  IInv'
  <2>1. out' \subseteq Frames
    <3>1. Frame(c, "DISCONNECT_RESPONSE", channel, Owns(c, channel), 0) \in Frames
      BY <1>0, FrameType DEF Services, Owns
    <3> QED
      BY <1>10, <3>1 DEF DisconnectRequest
  <2>2. CASE c \in InSession
    <3>1. CloseSession(c)
      BY <1>10, <2>2 DEF DisconnectRequest
    <3>2. /\ Tables(sessions', channelId', pool')
          /\ Len(sessions') <= MaxTable
          /\ nextSeq' \in [Clients -> 0 .. SeqModulus - 1]
          /\ announced' \subseteq Clients \X Channels
          /\ AnnouncedLive'
      BY <2>2, <3>1, CloseStep
    <3> QED
      BY <1>0, <1>10, <2>1, <3>2 DEF DisconnectRequest, IInv, TypeOK, Tables, Frames
  <2>3. CASE c \notin InSession
    BY <1>0, <1>1, <1>10, <2>1, <2>3 DEF DisconnectRequest, TypeOK, tables, Frames
  <2> QED
    BY <2>2, <2>3
<1>11. ASSUME NEW c \in Clients, NEW channel \in Channels \cup {NoChannel},
              NEW seq \in 0 .. SeqModulus - 1, NEW isData \in BOOLEAN,
              TunnelingRequest(c, channel, seq, isData)
       PROVE  IInv'
  <2>1. out' \subseteq Frames
    <3>1. Frame(c, "TUNNELING_ACK", channel, Owns(c, channel), seq) \in Frames
      BY FrameType DEF Services, Owns
    <3>2. Frame(c, "busFrameOut", channel, TRUE, seq) \in Frames
      BY FrameType DEF Services
    <3> QED
      BY <1>11, <3>1, <3>2 DEF TunnelingRequest
  <2> QED
    BY <1>0, <1>1, <1>11, <2>1 DEF TunnelingRequest, TypeOK, tables, Frames
<1>12. CASE UNCHANGED vars
  BY <1>0, <1>12 DEF vars, IInv, TypeOK, AnnouncedLive, InSession
<1> QED
  BY <1>2, <1>3, <1>4, <1>6, <1>7, <1>8, <1>9, <1>10, <1>11, <1>12 DEF Next

\* The inductive invariant holds in every reachable state of the server.
THEOREM InductiveInvariant == Spec => []IInv
<1>1. IInv /\ [Next]_vars => IInv'
  BY NextInv
<1> QED
  BY InitInv, <1>1, PTL DEF Spec

\* The fields of KNXIPTunnelServer and the frames it sends keep their type.
THEOREM TypeCorrect == Spec => []TypeOK
<1>1. IInv => TypeOK
  BY DEF IInv
<1> QED
  BY InductiveInvariant, <1>1, PTL

\* Each channel id is in the pool or with one session, once: allocation,
\* release and eviction neither leak nor share one.
THEOREM ChannelsArePartitioned == Spec => []ChannelsPartitioned
<1>1. ASSUME IInv
      PROVE  ChannelsPartitioned
  <2> DEFINE held == {channelId[c] : c \in InSession}
  <2>1. Tables(sessions, channelId, pool)
    BY <1>1 DEF IInv
  <2>2. InSession \subseteq Clients /\ ToSet(pool) \subseteq Channels
    BY <2>1, Items DEF Tables, InSession
  <2>3. held \subseteq Channels
    BY <2>1, <2>2 DEF Tables, InSession
  <2>4. \A n \in Channels : n \in ToSet(pool) <=> n \notin held
    BY <2>1 DEF Tables, InSession
  <2>5. ToSet(pool) \cup held = Channels /\ ToSet(pool) \cap held = {}
    BY <2>2, <2>3, <2>4
  <2> QED
    BY <2>1, <2>5 DEF ChannelsPartitioned, Tables, Distinct, InSession
<1> QED
  BY InductiveInvariant, <1>1, PTL

\* The session map holds a client once, with a channel, and never more clients
\* than maxSessions allows.
THEOREM SessionTableSound == Spec => []SessionTable
<1>1. IInv => SessionTable
  BY DEF IInv, Tables, Distinct, SessionTable, InSession
<1> QED
  BY InductiveInvariant, <1>1, PTL

\* A session announced by sessionUp and not yet by sessionDown exists, with the
\* channel announced.
THEOREM AnnouncedSessionsLive == Spec => []AnnouncedLive
<1>1. IInv => AnnouncedLive
  BY DEF IInv
<1> QED
  BY InductiveInvariant, <1>1, PTL

\* What a step does to the sessions there were, by the invariant.
Fate ==
    /\ \A c \in InSession \cap InSession' : channelId'[c] = channelId[c]
    /\ \A c \in InSession \ InSession' :
          \/ socket' = "none"
          \/ \E f \in out' : f.service = "DISCONNECT_RESPONSE" /\ f.client = c
          \/ /\ c = Head(sessions)
             /\ Len(sessions) = MaxTable
             /\ \E f \in out' : f.service = "CONNECT_RESPONSE" /\ f.client \notin InSession

\* Only stop, a DISCONNECT_REQUEST and the eviction by a CONNECT_REQUEST end
\* sessions, and nothing moves one to another channel.
LEMMA NextFate == IInv /\ [Next]_vars => Fate
<1> SUFFICES ASSUME IInv, [Next]_vars PROVE Fate
  OBVIOUS
<1>0. sessions \in Seq(Clients) /\ channelId \in [Clients -> Channels \cup {NoChannel}]
  BY DEF IInv, TypeOK
<1>1. ASSUME UNCHANGED << sessions, channelId >> PROVE Fate
  BY <1>1 DEF Fate, InSession
<1>2. CASE Start \/ Bind
  BY <1>1, <1>2 DEF Start, Bind, tables
<1>3. CASE Stop
  <2>1. InSession' = {}
    BY <1>3 DEF Stop, InSession, ToSet
  <2> QED
    BY <1>3, <2>1 DEF Stop, Fate
<1>4. CASE Inject
  BY <1>1, <1>4 DEF Inject, SendCemi
<1>5. ASSUME NEW channel \in Channels, InjectToChannel(channel) PROVE Fate
  BY <1>1, <1>5 DEF InjectToChannel, SendCemi
<1>6. ASSUME NEW c \in Clients, NEW isTunnel \in BOOLEAN, ConnectRequest(c, isTunnel)
      PROVE  Fate
  <2>1. EnsureSession(c) /\ out' = {Frame(c, "CONNECT_RESPONSE", channelId'[c], isTunnel, 0)}
    BY <1>6 DEF ConnectRequest
  <2>2. /\ \A d \in InSession \cap InSession' : channelId'[d] = channelId[d]
        /\ \A d \in InSession \ InSession' :
              d = Head(sessions) /\ Len(sessions) = MaxTable /\ c \notin InSession
    BY <2>1, EnsureStep
  <2>3. \E f \in out' : f.service = "CONNECT_RESPONSE" /\ f.client = c
    BY <2>1 DEF Frame
  <2> QED
    BY <2>2, <2>3 DEF Fate
<1>7. ASSUME NEW c \in Clients, NEW channel \in Channels \cup {NoChannel},
             DisconnectRequest(c, channel)
      PROVE  Fate
  <2>1. CASE c \notin InSession
    BY <1>1, <1>7, <2>1 DEF DisconnectRequest, tables
  <2>2. CASE c \in InSession
    <3> DEFINE k == CHOOSE i \in DOMAIN sessions : sessions[i] = c
    <3>1. k \in DOMAIN sessions /\ sessions[k] = c
      BY <2>2 DEF InSession, ToSet
    <3>2. sessions' = RemoveAt(sessions, k) /\ channelId' = [channelId EXCEPT ![c] = NoChannel]
      BY <1>7, <2>2 DEF DisconnectRequest, CloseSession
    <3> HIDE DEF k
    <3>3. Distinct(sessions)
      BY DEF IInv, Tables
    <3>4. InSession' = InSession \ {c}
      BY <1>0, <3>1, <3>2, <3>3, RemoveItem DEF InSession
    <3>5. \A d \in InSession \cap InSession' : channelId'[d] = channelId[d]
      BY <1>0, <3>2, <3>4
    <3>6. \E f \in out' : f.service = "DISCONNECT_RESPONSE" /\ f.client = c
      BY <1>7 DEF DisconnectRequest, Frame
    <3> QED
      BY <3>4, <3>5, <3>6 DEF Fate
  <2> QED
    BY <2>1, <2>2
<1>8. ASSUME NEW c \in Clients, NEW channel \in Channels \cup {NoChannel},
             ConnectionStateRequest(c, channel)
      PROVE  Fate
  BY <1>1, <1>8 DEF ConnectionStateRequest, tables
<1>9. ASSUME NEW c \in Clients, NEW channel \in Channels \cup {NoChannel},
             NEW seq \in 0 .. SeqModulus - 1, NEW isData \in BOOLEAN,
             TunnelingRequest(c, channel, seq, isData)
      PROVE  Fate
  BY <1>1, <1>9 DEF TunnelingRequest, tables
<1>10. CASE UNCHANGED vars
  BY <1>1, <1>10 DEF vars
<1> QED
  BY <1>2, <1>3, <1>4, <1>5, <1>6, <1>7, <1>8, <1>9, <1>10 DEF Next

\* A session ends by its client's request, by stop(), or evicted as the oldest
\* of a full table by another client.
THEOREM SessionsEndForCause == Spec => EndsForCause
<1>1. IInv /\ [Next]_vars =>
         [\A c \in InSession \ InSession' :
             \/ socket' = "none"
             \/ \E f \in out' : f.service = "DISCONNECT_RESPONSE" /\ f.client = c
             \/ /\ c = Head(sessions)
                /\ Len(sessions) = MaxTable
                /\ \E f \in out' : f.service = "CONNECT_RESPONSE"
                                     /\ f.client \notin InSession]_vars
  BY NextFate DEF Fate
<1> QED
  BY InductiveInvariant, <1>1, PTL DEF Spec, EndsForCause

\* A session that goes on keeps its channel, reconnections included.
THEOREM ChannelsAreStable == Spec => ChannelStable
<1>1. IInv /\ [Next]_vars =>
         [\A c \in InSession \cap InSession' : channelId'[c] = channelId[c]]_vars
  BY NextFate DEF Fate
<1> QED
  BY InductiveInvariant, <1>1, PTL DEF Spec, ChannelStable
=============================================================================
