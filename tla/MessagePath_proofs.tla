-------------------------- MODULE MessagePath_proofs --------------------------
(***************************************************************************)
(* Proofs about discovery and the path of a message, in the whole system   *)
(* of MessagePath: for every answer a device gives and every call of an    *)
(* application, and not only for the samples of MCMessagePath.             *)
(*                                                                         *)
(* What a discovery call has collected is described as a set, from the     *)
(* devices it has heard and from nothing else (Collected, Listed): an      *)
(* answer adds its entries to it, whenever it comes and however often.     *)
(*                                                                         *)
(* A conversation is described by what each call has put on the way and    *)
(* how much of it was delivered, a transport at a time: datagrams are one  *)
(* message each (DatagramInv), the stream over TCP is a buffer in as many  *)
(* parts as calls (TcpInv), the serial line one whose parts are telegrams, *)
(* acknowledgements and others (SerialInv).  PathInv is all of them.       *)
(***************************************************************************)
EXTENDS MessagePath, Telegrams_proofs

-----------------------------------------------------------------------------
(* What the discovery calls collect *)

\* A map of the code: its keys differ.
Distinct(m) == \A i, j \in 1 .. Len(m) : m[i][1] = m[j][1] => i = j

Keys(m) == {m[i][1] : i \in 1 .. Len(m)}

Pairs(m) == {m[i] : i \in 1 .. Len(m)}

\* Put adds the key, or replaces what it had.
PutMakes(m, key, value, K, V) ==
    /\ Put(m, key, value) \in Seq(K \X V) /\ Distinct(Put(m, key, value))
    /\ Keys(Put(m, key, value)) = Keys(m) \cup {key}
    /\ Pairs(Put(m, key, value)) = {p \in Pairs(m) : p[1] # key} \cup {<<key, value>>}

\* That is all it does.
LEMMA PutIs ==
    ASSUME NEW K, NEW V, NEW m \in Seq(K \X V), Distinct(m), NEW key \in K, NEW value \in V
    PROVE  PutMakes(m, key, value, K, V)
<1> DEFINE n == Put(m, key, value)
           new == <<key, value>>
<1>1. Len(m) \in Nat /\ new \in K \X V /\ new[1] = key
  OBVIOUS
<1>2. \A i \in 1 .. Len(m) : m[i] \in K \X V
  OBVIOUS
<1>3. CASE ~HasKey(m, key)
  <2>1. n = Append(m, new)
    BY <1>3 DEF Put
  <2>2. \A i \in 1 .. Len(m) : m[i][1] # key
    BY <1>3 DEF HasKey
  <2> HIDE DEF n, new
  <2>3. /\ n \in Seq(K \X V) /\ Len(n) = Len(m) + 1 /\ n[Len(m) + 1] = new
        /\ \A i \in 1 .. Len(m) : n[i] = m[i]
    BY <1>1, <2>1
  <2>4. \A i \in 1 .. Len(n) : i \in 1 .. Len(m) \/ i = Len(m) + 1
    BY <1>1, <2>3
  <2>5. \A i \in 1 .. Len(m) : i \in 1 .. Len(n)
    BY <1>1, <2>3
  <2>6. Len(m) + 1 \in 1 .. Len(n)
    BY <1>1, <2>3
  <2>7. Distinct(n)
    BY <1>1, <2>2, <2>3, <2>4 DEF Distinct
  <2>8. Keys(n) = Keys(m) \cup {key}
    BY <1>1, <2>3, <2>4, <2>5, <2>6 DEF Keys
  <2>9. Pairs(n) = Pairs(m) \cup {new}
    BY <1>1, <2>3, <2>4, <2>5, <2>6 DEF Pairs
  <2>10. \A p \in Pairs(m) : p[1] # key
    BY <2>2 DEF Pairs
  <2>11. Pairs(n) = {p \in Pairs(m) : p[1] # key} \cup {new}
    BY <2>9, <2>10
  <2> QED BY <2>3, <2>7, <2>8, <2>11 DEF n, new, PutMakes
<1>4. CASE HasKey(m, key)
  <2>1. n = [i \in 1 .. Len(m) |-> IF m[i][1] = key THEN new ELSE m[i]]
    BY <1>4 DEF Put
  <2>2. PICK k \in 1 .. Len(m) : m[k][1] = key
    BY <1>4 DEF HasKey
  <2> HIDE DEF n, new
  <2>3. n \in Seq(K \X V) /\ Len(n) = Len(m)
    BY <1>1, <1>2, <2>1
  <2>4. \A i \in 1 .. Len(m) : n[i] = IF m[i][1] = key THEN new ELSE m[i]
    BY <2>1
  <2>5. \A i \in 1 .. Len(m) : n[i][1] = m[i][1]
    BY <1>1, <2>4
  <2>6. Distinct(n)
    BY <2>3, <2>5 DEF Distinct
  <2>7. Keys(n) = Keys(m) \cup {key}
    BY <2>2, <2>3, <2>5 DEF Keys
  <2>8. Pairs(n) = {p \in Pairs(m) : p[1] # key} \cup {new}
    <3>1. ASSUME NEW p \in Pairs(n) PROVE p \in {q \in Pairs(m) : q[1] # key} \cup {new}
      BY <2>3, <2>4 DEF Pairs
    <3>2. new \in Pairs(n)
      BY <2>2, <2>3, <2>4 DEF Pairs
    <3>3. ASSUME NEW p \in Pairs(m), p[1] # key PROVE p \in Pairs(n)
      BY <3>3, <2>3, <2>4 DEF Pairs
    <3> QED BY <3>1, <3>2, <3>3
  <2> QED BY <2>3, <2>6, <2>7, <2>8 DEF n, new, PutMakes
<1> QED BY <1>3, <1>4

\* What a map holds for a key.
LEMMA ValueIs ==
    ASSUME NEW K, NEW V, NEW m \in Seq(K \X V), Distinct(m), NEW key
    PROVE  /\ HasKey(m, key) <=> key \in Keys(m)
           /\ key \in Keys(m) => <<key, ValueOf(m, key)>> \in Pairs(m)
<1>1. HasKey(m, key) <=> key \in Keys(m)
  BY DEF HasKey, Keys
<1>2. ASSUME key \in Keys(m) PROVE <<key, ValueOf(m, key)>> \in Pairs(m)
  <2> DEFINE k == CHOOSE i \in 1 .. Len(m) : m[i][1] = key
  <2>1. k \in 1 .. Len(m) /\ m[k][1] = key
    BY <1>2 DEF Keys
  <2>2. ValueOf(m, key) = m[k][2]
    BY DEF ValueOf
  <2> HIDE DEF k
  <2>3. m[k] \in K \X V
    BY <2>1
  <2>4. m[k] = <<m[k][1], m[k][2]>>
    BY <2>3
  <2> QED BY <2>1, <2>2, <2>4 DEF Pairs
<1> QED BY <1>1, <1>2

\* A key has one value.
LEMMA OneValue ==
    ASSUME NEW m, Distinct(m), NEW p \in Pairs(m), NEW q \in Pairs(m), p[1] = q[1]
    PROVE  p = q
BY DEF Distinct, Pairs

\* The keys are the first parts of the entries.
LEMMA KeysOfPairs == ASSUME NEW m PROVE Keys(m) = {p[1] : p \in Pairs(m)}
BY DEF Keys, Pairs

\* As many keys as entries.
LEMMA KeysCount ==
    ASSUME NEW K, NEW V, NEW m \in Seq(K \X V), Distinct(m)
    PROVE  Cardinality(Keys(m)) = Len(m)
<1> DEFINE n == Len(m)
           f == [i \in 1 .. n |-> m[i][1]]
<1>1. n \in Nat
  OBVIOUS
<1>2. IsFiniteSet(1 .. n) /\ Cardinality(1 .. n) = n
  BY <1>1, FS_Interval
<1>3. f \in Bijection(1 .. n, Keys(m))
  BY DEF Bijection, Injection, Surjection, IsInjective, Keys, Distinct
<1> HIDE DEF f, n
<1>4. ExistsBijection(1 .. n, Keys(m))
  BY <1>3 DEF ExistsBijection
<1>5. Cardinality(Keys(m)) = Cardinality(1 .. n)
  BY <1>2, <1>4, FS_Bijection
<1> QED BY <1>2, <1>5 DEF n

\* The entries that an answer adds.
Shown(a) == IF a.ia[1] = 0 THEN Tail(a.ia) ELSE a.ia

Tunnel(a) == [of |-> a, host |-> <<a.ip, Port(a)>>, name |-> a.name, ia |-> Shown(a),
              type |-> "tunnelling"]

Routing(a) == [of |-> a, host |-> RoutingHost, name |-> a.name, ia |-> Shown(a),
               type |-> "routing"]

Routes(a) == 5 \in ToSet(a.families)

EntriesOf(a) == {Tunnel(a)} \cup (IF Routes(a) THEN {Routing(a)} ELSE {})

EntriesIn(H) == UNION {EntriesOf(a) : a \in H}

SecuredBy(a) == a.extended /\ a.secured # <<>>

TcpBy(a) == a.extended /\ a.secured # <<>> /\ 4 \in ToSet(a.secured[1])

\* What DiscoveryConverges calls the entries are those of the devices heard.
LEMMA EntriesAre == Entries = EntriesIn(heard)
<1> DEFINE R == {b \in heard : 5 \in ToSet(b.families)}
<1>1. Entries = {Tunnel(a) : a \in heard} \cup {Routing(a) : a \in R}
  BY DEF Entries, Tunnel, Routing, Shown
<1>2. R = {b \in heard : Routes(b)}
  BY DEF Routes
<1> HIDE DEF R
<1>3. \A x : x \in EntriesIn(heard)
        <=> (\E a \in heard : x = Tunnel(a)) \/ (\E a \in heard : Routes(a) /\ x = Routing(a))
  BY DEF EntriesIn, EntriesOf
<1>4. \A x : x \in Entries
        <=> (\E a \in heard : x = Tunnel(a)) \/ (\E a \in heard : Routes(a) /\ x = Routing(a))
  BY <1>1, <1>2
<1> QED BY <1>3, <1>4

\* One more device, and its entries.
LEMMA EntriesGrow ==
    ASSUME NEW H, NEW a
    PROVE  EntriesIn(H \cup {a}) = EntriesIn(H) \cup EntriesOf(a)
BY DEF EntriesIn

\* What an answer says once it is read.
IsAnswer(sr, a) ==
    /\ HostOf(a.ip, sr) = <<a.ip, Port(a)>>
    /\ NameOfDevice(sr) = a.name /\ AddressOfDevice(sr) = Shown(a)
    /\ ServicesOf(sr) = a.families
    /\ Offers(sr, ROUTING_FAMILY) <=> Routes(a)
    /\ (sr.service_type = SEARCH_RESPONSE_EXTENDED /\ sr.securedServiceFamilies # <<>>)
         <=> SecuredBy(a)
    /\ Secures(sr, TUNNELLING_FAMILY) <=> TcpBy(a)
    /\ Secures(sr, ROUTING_FAMILY) => SecuredBy(a)

\* What discover keys its results with, and what it notes of each.
BaseOf(e) == [host |-> e.host, name |-> e.name, ia |-> e.ia]

SecureAt(E, k) == \E e \in E : BaseOf(e) = k /\ SecuredBy(e.of)

TcpAt(E, k) == k.host[1] # RoutingHost[1] /\ \E e \in E : BaseOf(e) = k /\ TcpBy(e.of)

Values == [secure : BOOLEAN, transport : {"UDP", "TCP", "Multicast"}]

Says(v, E, k) == v.secure = SecureAt(E, k) /\ (v.transport = "TCP") = TcpAt(E, k)

Collected(m, E, K) ==
    /\ m \in Seq(K \X Values) /\ Distinct(m)
    /\ Keys(m) = {BaseOf(e) : e \in E}
    /\ \A p \in Pairs(m) : Says(p[2], E, p[1])

\* Both are truth values.
LEMMA AreBoolean == \A E, k : SecureAt(E, k) \in BOOLEAN /\ TcpAt(E, k) \in BOOLEAN
BY DEF SecureAt, TcpAt

\* What discover has for a key before an answer says what was said of it.
LEMMA BeforeSays ==
    ASSUME NEW E, NEW K, NEW m, Collected(m, E, K), NEW key
    PROVE  Says(Before(m, key), E, key)
<1>1. CASE key \in Keys(m)
  <2>1. HasKey(m, key) /\ <<key, ValueOf(m, key)>> \in Pairs(m)
    BY <1>1, ValueIs DEF Collected
  <2>2. Before(m, key) = ValueOf(m, key)
    BY <2>1 DEF Before
  <2> DEFINE p == <<key, ValueOf(m, key)>>
  <2>3. p[1] = key /\ p[2] = ValueOf(m, key) /\ Says(p[2], E, p[1])
    BY <2>1 DEF Collected
  <2> QED BY <2>2, <2>3
<1>2. CASE key \notin Keys(m)
  <2>1. ~HasKey(m, key)
    BY <1>2, ValueIs DEF Collected
  <2>2. Before(m, key) = [secure |-> FALSE, transport |-> ""]
    BY <2>1 DEF Before
  <2>3. \A e \in E : BaseOf(e) # key
    BY <1>2 DEF Collected
  <2>4. SecureAt(E, key) = FALSE /\ TcpAt(E, key) = FALSE
    BY <2>3 DEF SecureAt, TcpAt
  <2> DEFINE v == [secure |-> FALSE, transport |-> ""]
  <2>5. v.secure = FALSE /\ (v.transport = "TCP") = FALSE
    OBVIOUS
  <2> HIDE DEF v
  <2>6. Says(v, E, key)
    BY <2>4, <2>5 DEF Says
  <2> QED BY <2>2, <2>6 DEF v
<1> QED BY <1>1, <1>2

\* One more entry.
LEMMA EntryCollected ==
    ASSUME NEW E, NEW K, NEW m, Collected(m, E, K), NEW e, BaseOf(e) \in K, NEW v \in Values,
           v.secure = (Before(m, BaseOf(e)).secure \/ SecuredBy(e.of)),
           (v.transport = "TCP")
             = (BaseOf(e).host[1] # RoutingHost[1]
                /\ (Before(m, BaseOf(e)).transport = "TCP" \/ TcpBy(e.of)))
    PROVE  Collected(Put(m, BaseOf(e), v), E \cup {e}, K)
<1>1. m \in Seq(K \X Values) /\ Distinct(m) /\ Keys(m) = {BaseOf(x) : x \in E}
  BY DEF Collected
<1> DEFINE k == BaseOf(e)
           n == Put(m, k, v)
           F == E \cup {e}
<1>2. /\ n \in Seq(K \X Values) /\ Distinct(n) /\ Keys(n) = Keys(m) \cup {k}
      /\ Pairs(n) = {p \in Pairs(m) : p[1] # k} \cup {<<k, v>>}
  <2>1. k \in K /\ v \in Values
    OBVIOUS
  <2>2. \A y \in K, z \in Values : PutMakes(m, y, z, K, Values)
    BY <1>1, PutIs
  <2> HIDE DEF k
  <2> QED BY <2>1, <2>2 DEF PutMakes
<1>3. Says(Before(m, k), E, k)
  BY BeforeSays
<1> HIDE DEF n
<1>4. Keys(n) = {BaseOf(x) : x \in F}
  BY <1>1, <1>2
<1>5. ASSUME NEW p \in Pairs(m), p[1] # k PROVE Says(p[2], F, p[1])
  <2>1. Says(p[2], E, p[1])
    BY DEF Collected
  <2>2. SecureAt(F, p[1]) = SecureAt(E, p[1])
    BY <1>5 DEF SecureAt
  <2>3. TcpAt(F, p[1]) = TcpAt(E, p[1])
    BY <1>5 DEF TcpAt
  <2> QED BY <2>1, <2>2, <2>3 DEF Says
<1>6. Says(v, F, k)
  <2>1. SecureAt(F, k) <=> SecureAt(E, k) \/ SecuredBy(e.of)
    BY DEF SecureAt
  <2>2. TcpAt(F, k) <=> k.host[1] # RoutingHost[1] /\ (TcpAt(E, k) \/ TcpBy(e.of))
    BY DEF TcpAt
  <2>3. TcpAt(E, k) => k.host[1] # RoutingHost[1]
    BY DEF TcpAt
  <2>4. v.secure = SecureAt(F, k)
    <3>1. Before(m, k).secure = SecureAt(E, k)
      BY <1>3 DEF Says
    <3>2. v.secure = (SecureAt(E, k) \/ SecuredBy(e.of))
      BY <3>1
    <3> QED BY <2>1, <3>2, AreBoolean, Zenon
  <2>5. (v.transport = "TCP") = TcpAt(F, k)
    <3>1. (Before(m, k).transport = "TCP") = TcpAt(E, k)
      BY <1>3 DEF Says
    <3>2. (v.transport = "TCP") <=> k.host[1] # RoutingHost[1] /\ (TcpAt(E, k) \/ TcpBy(e.of))
      BY <3>1, <2>3
    <3>3. (v.transport = "TCP") <=> TcpAt(F, k)
      BY <2>2, <3>2
    <3> QED BY <3>3, AreBoolean, Zenon
  <2> QED BY <2>4, <2>5 DEF Says
<1>7. \A p \in Pairs(n) : Says(p[2], F, p[1])
  <2> SUFFICES ASSUME NEW p \in Pairs(n) PROVE Says(p[2], F, p[1])
    OBVIOUS
  <2>1. CASE p = <<k, v>>
    <3>1. p[1] = k /\ p[2] = v
      BY <2>1
    <3> QED BY <1>6, <3>1
  <2>2. CASE p # <<k, v>>
    BY <1>2, <1>5, <2>2
  <2> QED BY <2>1, <2>2
<1> QED BY <1>2, <1>4, <1>7 DEF n, Collected

\* An answer of a device: what discover makes of it.
LEMMA DiscoverAdds ==
    ASSUME NEW a, NEW sr, IsAnswer(sr, a), a.ip # RoutingHost[1], NEW E, NEW K, NEW m,
           Collected(m, E, K), \A e \in EntriesOf(a) : BaseOf(e) \in K
    PROVE  Collected(AddResultsFromSearch(m, HostOf(a.ip, sr), sr), E \cup EntriesOf(a), K)
<1> DEFINE t == Tunnel(a)
           r == Routing(a)
           secure == \/ sr.service_type = SEARCH_RESPONSE_EXTENDED
                        /\ sr.securedServiceFamilies # <<>>
                     \/ Secures(sr, TUNNELLING_FAMILY) \/ Secures(sr, ROUTING_FAMILY)
           base == BaseKey(HostOf(a.ip, sr), sr)
           routing == BaseKey(RoutingHost, sr)
           v == [secure |-> Before(m, base).secure \/ secure,
                 transport |-> IF \/ Before(m, base).transport = "TCP"
                                  \/ Secures(sr, TUNNELLING_FAMILY)
                               THEN "TCP" ELSE "UDP"]
           w == [secure |-> Before(m, routing).secure \/ secure, transport |-> "Multicast"]
           n == Put(m, base, v)
<1>1. base = BaseOf(t) /\ routing = BaseOf(r)
  BY DEF BaseKey, BaseOf, Tunnel, Routing, IsAnswer
<1>2. t.of = a /\ r.of = a
  BY DEF Tunnel, Routing
<1>3. BaseOf(t).host[1] = a.ip /\ BaseOf(r).host[1] = RoutingHost[1]
  BY DEF Tunnel, Routing, BaseOf
<1>4. t \in EntriesOf(a) /\ BaseOf(t) \in K
  BY DEF EntriesOf
<1>5. AddResultsFromSearch(m, HostOf(a.ip, sr), sr)
        = IF ~Offers(sr, ROUTING_FAMILY) THEN n ELSE Put(n, routing, w)
  BY DEF AddResultsFromSearch
<1>6. /\ secure <=> SecuredBy(a)
      /\ Secures(sr, TUNNELLING_FAMILY) <=> TcpBy(a)
      /\ Offers(sr, ROUTING_FAMILY) <=> Routes(a)
  BY DEF IsAnswer, TcpBy, SecuredBy
<1> HIDE DEF secure
<1>7. \A key : Says(Before(m, key), E, key)
  BY BeforeSays
<1>8. \A key : Before(m, key).secure \in BOOLEAN
  BY <1>7, AreBoolean, Zenon DEF Says
<1>9. secure \in BOOLEAN
  BY DEF secure
<1> HIDE DEF t, r, base, routing
<1>10. Collected(n, E \cup {t}, K)
  <2>1. v.secure = (Before(m, base).secure \/ secure)
    OBVIOUS
  <2>2. v \in Values
    BY <1>8, <1>9 DEF Values
  <2>3. v.transport = "TCP" <=> Before(m, base).transport = "TCP" \/ TcpBy(a)
    BY <1>6
  <2> HIDE DEF v
  <2>4. v.secure = (Before(m, BaseOf(t)).secure \/ SecuredBy(t.of))
    BY <1>1, <1>2, <1>6, <2>1
  <2>5. (v.transport = "TCP")
          = (BaseOf(t).host[1] # RoutingHost[1]
             /\ (Before(m, BaseOf(t)).transport = "TCP" \/ TcpBy(t.of)))
    BY <1>1, <1>2, <1>3, <2>3
  <2> QED BY <1>1, <1>4, <2>2, <2>4, <2>5, EntryCollected
<1> HIDE DEF v, n
<1>11. CASE ~Routes(a)
  <2>1. EntriesOf(a) = {t}
    BY <1>11 DEF EntriesOf, t
  <2> QED BY <1>5, <1>6, <1>10, <1>11, <2>1
<1>12. CASE Routes(a)
  <2>1. EntriesOf(a) = {t} \cup {r}
    BY <1>12 DEF EntriesOf, t, r
  <2> DEFINE F == E \cup {t}
  <2>2. Says(Before(n, routing), F, routing)
    BY <1>10, BeforeSays
  <2>3. SecureAt(F, routing) = SecureAt(E, routing)
    BY <1>1, <1>3 DEF SecureAt
  <2>4. Before(n, routing).secure = Before(m, routing).secure
    BY <1>7, <2>2, <2>3 DEF Says
  <2>5. w.secure = (Before(m, routing).secure \/ secure)
    OBVIOUS
  <2>6. w \in Values
    BY <1>8, <1>9 DEF Values
  <2>7. (w.transport = "TCP") = FALSE
    OBVIOUS
  <2> HIDE DEF w, F
  <2>8. w.secure = (Before(n, BaseOf(r)).secure \/ SecuredBy(r.of))
    BY <1>1, <1>2, <1>6, <2>4, <2>5
  <2>9. (w.transport = "TCP")
          = (BaseOf(r).host[1] # RoutingHost[1]
             /\ (Before(n, BaseOf(r)).transport = "TCP" \/ TcpBy(r.of)))
    BY <1>3, <2>7
  <2>10. BaseOf(r) \in K
    BY <2>1
  <2>11. Collected(n, F, K)
    BY <1>10 DEF F
  <2>12. Collected(Put(n, BaseOf(r), w), F \cup {r}, K)
    BY <2>6, <2>8, <2>9, <2>10, <2>11, EntryCollected
  <2>13. F \cup {r} = E \cup EntriesOf(a)
    BY <2>1 DEF F
  <2>14. AddResultsFromSearch(m, HostOf(a.ip, sr), sr) = Put(n, BaseOf(r), w)
    BY <1>1, <1>5, <1>6, <1>12
  <2> QED BY <2>12, <2>13, <2>14
<1> QED BY <1>11, <1>12

\* What a call with one value per key collects.
Listed(m, S, K, V) == m \in Seq(K \X V) /\ Distinct(m) /\ Keys(m) = S

\* What discoverDetailed and discoverInterfaces key theirs with.
LineOf(e) == [host |-> e.host, name |-> e.name, ia |-> e.ia, services |-> e.of.families,
              type |-> e.type]

ServiceOf(e) == <<e.host, e.type>>

Offered(a, transports) ==
    {[name |-> a.name, ia |-> Shown(a), services |-> a.families, transport |-> t] : t \in transports}

Transports == {"Multicast", "TCP", "UDP"}

\* A call that keeps one value for a key collects the keys.
LEMMA PutListed ==
    ASSUME NEW S, NEW K, NEW V, NEW m, Listed(m, S, K, V), NEW key \in K, NEW value \in V
    PROVE  Listed(Put(m, key, value), S \cup {key}, K, V)
<1>1. m \in Seq(K \X V) /\ Distinct(m) /\ Keys(m) = S
  BY DEF Listed
<1>2. PutMakes(m, key, value, K, V)
  BY <1>1, PutIs
<1> QED BY <1>1, <1>2 DEF Listed, PutMakes

\* An answer of a device: what discoverDetailed makes of it.
LEMMA DetailedAdds ==
    ASSUME NEW a, NEW sr, IsAnswer(sr, a), NEW E, NEW K, NEW m,
           Listed(m, {LineOf(e) : e \in E}, K, {TRUE}), \A e \in EntriesOf(a) : LineOf(e) \in K
    PROVE  Listed(PushDetailed(m, HostOf(a.ip, sr), sr), {LineOf(e) : e \in E \cup EntriesOf(a)},
                  K, {TRUE})
<1> DEFINE t == LineOf(Tunnel(a))
           r == LineOf(Routing(a))
           S == {LineOf(e) : e \in E}
           n == Put(m, t, TRUE)
<1>1. /\ t = [host |-> HostOf(a.ip, sr), name |-> NameOfDevice(sr), ia |-> AddressOfDevice(sr),
              services |-> ServicesOf(sr), type |-> "tunnelling"]
      /\ r = [host |-> RoutingHost, name |-> NameOfDevice(sr), ia |-> AddressOfDevice(sr),
              services |-> ServicesOf(sr), type |-> "routing"]
  BY DEF LineOf, Tunnel, Routing, IsAnswer
<1>2. Tunnel(a) \in EntriesOf(a) /\ (Routes(a) => Routing(a) \in EntriesOf(a))
  BY DEF EntriesOf
<1>3. t \in K /\ (Routes(a) => r \in K)
  BY <1>2
<1>4. {LineOf(e) : e \in E \cup EntriesOf(a)}
        = S \cup {t} \cup (IF Routes(a) THEN {r} ELSE {})
  BY DEF EntriesOf
<1>5. Offers(sr, ROUTING_FAMILY) <=> Routes(a)
  BY DEF IsAnswer
<1>6. PushDetailed(m, HostOf(a.ip, sr), sr)
        = IF Offers(sr, ROUTING_FAMILY) THEN Put(n, r, TRUE) ELSE n
  BY <1>1 DEF PushDetailed
<1> HIDE DEF t, r, S
<1>7. Listed(n, S \cup {t}, K, {TRUE})
  BY <1>3, PutListed DEF S
<1> HIDE DEF n
<1>8. Routes(a) => Listed(Put(n, r, TRUE), S \cup {t} \cup {r}, K, {TRUE})
  BY <1>3, <1>7, PutListed
<1> QED BY <1>4, <1>5, <1>6, <1>7, <1>8

\* An answer of a device: what discoverInterfaces makes of it.
LEMMA InterfacesAdd ==
    ASSUME NEW a, NEW sr, IsAnswer(sr, a), NEW E, NEW K, NEW V, NEW m,
           Listed(m, {ServiceOf(e) : e \in E}, K, V), \A e \in EntriesOf(a) : ServiceOf(e) \in K,
           Offered(a, Transports) \subseteq V
    PROVE  Listed(PushInterface(m, HostOf(a.ip, sr), sr),
                  {ServiceOf(e) : e \in E \cup EntriesOf(a)}, K, V)
<1> DEFINE t == ServiceOf(Tunnel(a))
           r == ServiceOf(Routing(a))
           S == {ServiceOf(e) : e \in E}
           with(way) == [name |-> a.name, ia |-> Shown(a), services |-> a.families,
                               transport |-> way]
           n == IF HasKey(m, t) THEN m
                ELSE Put(m, t, with(IF Secures(sr, TUNNELLING_FAMILY) THEN "TCP" ELSE "UDP"))
<1>1. t = <<HostOf(a.ip, sr), "tunnelling">> /\ r = <<RoutingHost, "routing">>
  BY DEF ServiceOf, Tunnel, Routing, IsAnswer
<1>2. Tunnel(a) \in EntriesOf(a) /\ (Routes(a) => Routing(a) \in EntriesOf(a))
  BY DEF EntriesOf
<1>3. t \in K /\ (Routes(a) => r \in K)
  BY <1>2
<1>4. {ServiceOf(e) : e \in E \cup EntriesOf(a)}
        = S \cup {t} \cup (IF Routes(a) THEN {r} ELSE {})
  BY DEF EntriesOf
<1>5. Offers(sr, ROUTING_FAMILY) <=> Routes(a)
  BY DEF IsAnswer
<1>6. NameOfDevice(sr) = a.name /\ AddressOfDevice(sr) = Shown(a) /\ ServicesOf(sr) = a.families
  BY DEF IsAnswer
<1>7. PushInterface(m, HostOf(a.ip, sr), sr)
        = IF Offers(sr, ROUTING_FAMILY)
          THEN IF HasKey(n, r) THEN n ELSE Put(n, r, with("Multicast"))
          ELSE n
  BY <1>1, <1>6 DEF PushInterface
<1>8. with("TCP") \in V /\ with("UDP") \in V /\ with("Multicast") \in V
  BY DEF Offered, Transports
<1>9. \A M, q, y : Listed(M, q, K, V) => (HasKey(M, y) <=> y \in q)
  BY ValueIs DEF Listed
<1> HIDE DEF t, r, S, with
<1>10. Listed(n, S \cup {t}, K, V)
  <2>1. CASE HasKey(m, t)
    BY <2>1, <1>9 DEF S
  <2>2. CASE ~HasKey(m, t)
    <3> DEFINE x == with(IF Secures(sr, TUNNELLING_FAMILY) THEN "TCP" ELSE "UDP")
    <3>1. x \in V
      BY <1>8
    <3>2. n = Put(m, t, x)
      BY <2>2
    <3> HIDE DEF x, n
    <3> QED BY <1>3, <3>1, <3>2, PutListed DEF S
  <2> QED BY <2>1, <2>2
<1> HIDE DEF n
<1>11. ASSUME Routes(a)
       PROVE  Listed(IF HasKey(n, r) THEN n ELSE Put(n, r, with("Multicast")),
                     S \cup {t} \cup {r}, K, V)
  <2>1. CASE HasKey(n, r)
    <3>1. S \cup {t} \cup {r} = S \cup {t}
      BY <1>9, <1>10, <2>1
    <3> QED BY <1>10, <2>1, <3>1
  <2>2. CASE ~HasKey(n, r)
    BY <1>3, <1>8, <1>10, <1>11, <2>2, PutListed
  <2> QED BY <2>1, <2>2
<1> QED BY <1>4, <1>5, <1>7, <1>10, <1>11

-----------------------------------------------------------------------------
(* The response of a device, read *)

\* An individual address is a word.
AddressIs(digits) ==
    /\ IndividualAddress(digits) \in Words
    /\ AddressDigits(IndividualAddress(digits), FALSE) = digits
    /\ FormattedAddress(IndividualAddress(digits)) = IF digits[1] = 0 THEN Tail(digits) ELSE digits

\* The word of an address gives its digits back.
LEMMA AddressIsWord == ASSUME NEW digits, IsAddress(digits) PROVE AddressIs(digits)
<1> DEFINE x == digits[1]
           y == digits[2]
           z == digits[3]
           number == 4096 * x + 256 * y + z
           same == z + 256 * y + x * 4096
<1>1. digits \in Seq(Nat) /\ Len(digits) = 3 /\ x <= 15 /\ y <= 15 /\ z <= 255
  BY DEF IsAddress
<1>2. x \in Nat /\ y \in Nat /\ z \in Nat /\ digits = <<x, y, z>>
  BY <1>1, TripleIs
<1>3. IndividualAddress(digits) = number
  BY DEF IndividualAddress
<1>4. AddressNumber(<<x, y, z>>, FALSE) = same
  BY DEF AddressNumber
<1> HIDE DEF x, y, z
<1>5. same = number
  BY <1>2
<1>6. number > 4095 <=> x # 0
  BY <1>1, <1>2
<1> HIDE DEF number, same
<1>7. /\ AddressNumber(<<x, y, z>>, FALSE) \in Words
      /\ AddressDigits(AddressNumber(<<x, y, z>>, FALSE), FALSE) = <<x, y, z>>
  BY <1>1, <1>2, AddressesAreRead
<1>8. number \in Words /\ AddressDigits(number, FALSE) = digits
  <2> DEFINE triple == <<x, y, z>>
  <2>1. /\ AddressNumber(triple, FALSE) \in Words
        /\ AddressDigits(AddressNumber(triple, FALSE), FALSE) = triple
        /\ AddressNumber(triple, FALSE) = same /\ digits = triple
    BY <1>2, <1>4, <1>7
  <2> HIDE DEF triple
  <2> QED BY <1>5, <2>1
<1>9. FormattedAddress(number) = IF x # 0 THEN digits ELSE Tail(digits)
  <2> DEFINE read == AddressDigits(number, FALSE)
  <2>1. number \in Words /\ read = digits
    BY <1>8
  <2>2. FormattedAddress(number) = IF number > \hFFF THEN read ELSE Tail(read)
    BY DEF FormattedAddress
  <2> HIDE DEF read
  <2>3. number \in Nat
    BY <2>1 DEF Words
  <2>4. number > \hFFF <=> x # 0
    BY <1>6, <2>3
  <2> QED BY <2>1, <2>2, <2>3, <2>4
<1> QED BY <1>3, <1>8, <1>9 DEF AddressIs, x

\* The device information of an answer.
Identity == <<0, 0>> \o Serial \o <<224, 0, 23, 12>> \o Serial

\* The fields of the device information that are the same for every device.
LEMMA IdentityIs == Identity \in Octets /\ Len(Identity) = 18
<1>1. 0 \in Octet /\ 1 \in Octet /\ 2 \in Octet /\ 3 \in Octet /\ 4 \in Octet /\ 5 \in Octet
      /\ 224 \in Octet /\ 23 \in Octet /\ 12 \in Octet
  BY OctetIs
<1> DEFINE p == <<0, 0>>
           q == <<224, 0, 23, 12>>
<1>2. p \in Octets /\ Len(p) = 2 /\ q \in Octets /\ Len(q) = 4
  BY <1>1, OctetTuples
<1>3. Serial \in Octets /\ Len(Serial) = 6
  BY <1>1 DEF Serial, Octets
<1> HIDE DEF p, q
<1> DEFINE ps == p \o Serial
<1>4. ps \in Octets /\ Len(ps) = 8
  <2>1. Len(p \o Serial) = Len(p) + Len(Serial) /\ p \o Serial \in Octets
    BY <1>2, <1>3, JoinedLength
  <2> QED BY <1>2, <1>3, <2>1
<1> HIDE DEF ps
<1> DEFINE psq == ps \o q
<1>5. psq \in Octets /\ Len(psq) = 12
  <2>1. Len(ps \o q) = Len(ps) + Len(q) /\ ps \o q \in Octets
    BY <1>2, <1>4, JoinedLength
  <2> QED BY <1>2, <1>4, <2>1
<1> HIDE DEF psq
<1>6. psq \o Serial \in Octets /\ Len(psq \o Serial) = 18
  <2>1. Len(psq \o Serial) = Len(psq) + Len(Serial) /\ psq \o Serial \in Octets
    BY <1>3, <1>5, JoinedLength
  <2> QED BY <1>3, <1>5, <2>1
<1> QED BY <1>6 DEF psq, ps, p, q, Identity

DeviceIs(b, o, a, t) ==
    /\ ParseDeviceInfo(b, o) \in Devices
    /\ ParseDeviceInfo(b, o).address = IndividualAddress(a.ia)
    /\ ParseDeviceInfo(b, o).name = a.name
    /\ Ends(b, o + 54, t) /\ Byte(b, o) = 54 /\ Byte(b, o + 1) = DEVICE_INFO /\ Structure(b, o)

\* The device information of an answer is read from the offset it stands at.
LEMMA DeviceRead ==
    ASSUME NEW a, ShortName(a.name), IsAddress(a.ia), NEW b \in Octets, NEW o \in Nat,
           NEW t \in Octets, Ends(b, o, DeviceBlock(a) \o t)
    PROVE  DeviceIs(b, o, a, t)
<1> DEFINE four == <<54, 1, 2, 0>>
           number == IndividualAddress(a.ia)
           word == U16Bytes(number)
           name == NameField(a.name)
<1>1. 54 \in Octet /\ 1 \in Octet /\ 2 \in Octet /\ 0 \in Octet
  BY OctetIs
<1>2. number \in Words
  <2>1. AddressIs(a.ia)
    BY AddressIsWord
  <2> QED BY <2>1 DEF AddressIs
<1>3. four \in Octets
  BY <1>1, OctetTuples
<1>4. word \in Octets /\ Len(word) = 2
  BY <1>2, U16Is
<1>5. name \in Octets /\ Len(name) = 30
  BY NameWritten
<1>6. Identity \in Octets /\ Len(Identity) = 18
  BY IdentityIs
<1>7. DeviceBlock(a) = four \o word \o Identity \o name
  BY DEF DeviceBlock, Identity, DEVICE_INFO, NameField
<1> HIDE DEF four, number, word, name, Identity
<1> DEFINE p == name \o t
           q == Identity \o p
           r == word \o q
<1>8. p \in Octets
  BY <1>5, JoinedLength
<1>9. q \in Octets
  <2> HIDE DEF p
  <2> QED BY <1>6, <1>8, JoinedLength
<1>10. r \in Octets
  <2> HIDE DEF q
  <2> QED BY <1>4, <1>9, JoinedLength
<1>11. four \o word \o Identity \o name \o t = four \o r
  <2>1. JoinFive(four, word, Identity, name, t)
    BY <1>3, <1>4, <1>5, <1>6, JoinedFiveIs
  <2> QED BY <2>1 DEF JoinFive
<1>12. Ends(b, o, four \o r)
  BY <1>7, <1>11
<1> HIDE DEF r
<1>13. b[o + 1] = 54 /\ b[o + 2] = 1 /\ b[o + 3] = 2 /\ b[o + 4] = 0 /\ Ends(b, o + 4, r)
  BY <1>1, <1>10, <1>12, EndsFour DEF four
<1>14. U16(b, o + 4) = number /\ Ends(b, o + 6, q)
  <2> HIDE DEF q
  <2>1. Ends(b, o + 4, U16Bytes(number) \o q) /\ o + 4 \in Nat
    BY <1>13 DEF r, word
  <2>2. U16(b, o + 4) = number /\ Ends(b, o + 4 + 2, q)
    BY <1>2, <1>9, <2>1, EndsWord
  <2>3. o + 4 + 2 = o + 6
    OBVIOUS
  <2> QED BY <2>2, <2>3
<1>15. Ends(b, o + 24, p)
  <2> HIDE DEF p
  <2>1. o + 24 = (o + 6) + Len(Identity) /\ o + 6 \in Nat /\ o + 24 \in Nat
    BY <1>6
  <2>2. Ends(b, o + 6, Identity \o p)
    BY <1>14
  <2>3. PartAt(b, o + 6, Identity, p, o + 24)
    BY <1>6, <1>8, <2>1, <2>2, EndsPart
  <2> QED BY <2>3 DEF PartAt
<1>16. Sub(b, o + 24, o + 54) = name /\ Ends(b, o + 54, t)
  <2>1. o + 54 = (o + 24) + Len(name) /\ o + 24 \in Nat /\ o + 54 \in Nat
    BY <1>5
  <2>2. PartAt(b, o + 24, name, t, o + 54)
    BY <1>5, <1>15, <2>1, EndsPart
  <2> QED BY <2>2 DEF PartAt
<1>17. Len(b) = o + 54 + Len(t) /\ Len(t) \in Nat
  <2>1. Len(b) = o + 54 + Len(t)
    BY <1>16 DEF Ends
  <2>2. Len(t) \in Nat
    BY DEF Octets
  <2> QED BY <2>1, <2>2
<1>18. Byte(b, o) = 54 /\ Byte(b, o + 1) = 1 /\ Byte(b, o + 2) = 2 /\ Byte(b, o + 3) = 0
  BY <1>13 DEF Byte
<1>19. Structure(b, o) /\ ~(o + 24 > Len(b))
  BY <1>17, <1>18 DEF Structure
<1> DEFINE chars == Sub(b, o + 24, o + 54)
           ends == {i \in 1 .. Len(chars) : chars[i] = 0}
           len == IF ends = {} THEN 30 ELSE (CHOOSE i \in ends : \A j \in ends : i <= j) - 1
           d == [medium |-> Byte(b, o + 2), status |-> Byte(b, o + 3),
                  address |-> U16(b, o + 4), projectID |-> U16(b, o + 6),
                  serialNumber |-> Sub(b, o + 8, o + 14), ip |-> Sub(b, o + 14, o + 18),
                  macAddress |-> Sub(b, o + 18, o + 24), name |-> SubSeq(chars, 1, len)]
<1>20. ParseDeviceInfo(b, o)
         = IF o + 24 > Len(b) \/ ~Structure(b, o) THEN Malformed
           ELSE IF Byte(b, o + 1) # DEVICE_INFO \/ (ends = {} /\ Len(chars) < 30) THEN Malformed
           ELSE d
  BY DEF ParseDeviceInfo
<1> HIDE DEF p, q, chars
<1>21. chars = name /\ Len(chars) = 30
  BY <1>5, <1>16 DEF chars
<1>22. len = Len(a.name) /\ SubSeq(chars, 1, Len(a.name)) = a.name
  <2>1. ends = {i \in 1 .. 30 : NameField(a.name)[i] = 0}
    BY <1>21 DEF name
  <2> HIDE DEF ends
  <2>2. NameEnds(a.name, ends)
    BY <2>1, NameRead
  <2> QED BY <1>21, <2>2 DEF name, NameEnds
<1> HIDE DEF ends, len
<1>23. d.address = number /\ d.name = a.name /\ ParseDeviceInfo(b, o) = d
  <2>1. d.address = number /\ d.name = a.name
    BY <1>14, <1>22
  <2> HIDE DEF d
  <2> QED BY <1>18, <1>19, <1>20, <1>21, <2>1 DEF DEVICE_INFO
<1>24. d \in Devices
  <2>1. Byte(b, o + 2) \in Octet /\ Byte(b, o + 3) \in Octet
    BY <1>1, <1>18
  <2>2. U16(b, o + 4) \in Nat
    BY <1>2, <1>14 DEF Words
  <2>3. U16(b, o + 6) \in Nat
    <3>1. o + 7 \in 1 .. Len(b) /\ o + 8 \in 1 .. Len(b)
      BY <1>17
    <3>2. b[o + 7] \in Octet /\ b[o + 8] \in Octet
      BY <3>1 DEF Octets
    <3>3. o + 6 + 1 = o + 7 /\ o + 6 + 1 + 1 = o + 8
      OBVIOUS
    <3>4. U16(b, o + 6) = 256 * b[o + 7] + b[o + 8]
      BY <3>3 DEF U16, Byte
    <3>5. b[o + 7] \in Nat /\ b[o + 8] \in Nat
      BY <3>2, OctetIs
    <3> HIDE DEF d
    <3> QED BY <3>4, <3>5
  <2>4. /\ Sub(b, o + 8, o + 14) \in Octets /\ Sub(b, o + 14, o + 18) \in Octets
        /\ Sub(b, o + 18, o + 24) \in Octets
    <3>1. \A x, y \in Nat : x <= y /\ y <= Len(b) => Sub(b, x, y) \in Octets
      BY SubIs
    <3> QED BY <1>17, <3>1
  <2>5. SubSeq(chars, 1, len) \in Octets
    BY <1>22, NameWritten
  <2> QED BY <2>1, <2>2, <2>3, <2>4, <2>5 DEF Devices, Octets
<1> HIDE DEF d
<1> QED BY <1>16, <1>18, <1>19, <1>23, <1>24 DEF DeviceIs, DEVICE_INFO, number

\* Service families are octets.
LEMMA FamiliesAre ==
    ASSUME NEW families, IsFamilies(families)
    PROVE  /\ Len(families) \in Nat /\ Len(families) <= 126
           /\ \A i \in 1 .. Len(families) : families[i] \in Octet
           /\ \A i, j \in 1 .. Len(families) : families[i] = families[j] => i = j
<1>1. families \in Seq(Octet) /\ Len(families) <= 126
  BY DEF IsFamilies
<1>2. Len(families) \in Nat /\ \A i \in 1 .. Len(families) : families[i] \in Octet
  BY <1>1
<1> QED BY <1>1, <1>2 DEF IsFamilies

\* Each family is written with its version.
LEMMA VersionsAre ==
    ASSUME NEW families, IsFamilies(families)
    PROVE  /\ Versions(families) \in Octets /\ Len(Versions(families)) = 2 * Len(families)
           /\ \A i \in 1 .. Len(families) :
                 Versions(families)[2 * i - 1] = families[i] /\ Versions(families)[2 * i] = 1
<1> DEFINE n == Len(families)
           v == Versions(families)
<1>1. n \in Nat /\ \A i \in 1 .. n : families[i] \in Octet
  BY FamiliesAre
<1>2. 1 \in Octet
  BY OctetIs
<1> HIDE DEF n
<1>3. 2 * n \in Nat
  BY <1>1
<1>4. v = [i \in 1 .. 2 * n |-> IF i % 2 = 1 THEN families[(i + 1) \div 2] ELSE 1]
  BY DEF Versions, n
<1> HIDE DEF v
<1>5. \A i \in 1 .. 2 * n : v[i] \in Octet
  <2> TAKE i \in 1 .. 2 * n
  <2>1. i % 2 = 1 => (i + 1) \div 2 \in 1 .. n
    BY <1>1
  <2> QED BY <1>1, <1>2, <1>4, <2>1
<1>6. v \in Octets /\ Len(v) = 2 * n
  BY <1>3, <1>4, <1>5 DEF Octets
<1>7. ASSUME NEW i \in 1 .. n PROVE v[2 * i - 1] = families[i] /\ v[2 * i] = 1
  <2>1. /\ 2 * i - 1 \in 1 .. 2 * n /\ (2 * i - 1) % 2 = 1 /\ (2 * i - 1 + 1) \div 2 = i
        /\ 2 * i \in 1 .. 2 * n /\ (2 * i) % 2 # 1
    BY <1>1
  <2> QED BY <1>4, <2>1
<1> QED BY <1>6, <1>7 DEF n, v

\* A family that was not set before is added.
LEMMA FamilyAdded ==
    ASSUME NEW families, IsFamilies(families), NEW i \in 1 .. Len(families)
    PROVE  SetFamily(Entered(families, i - 1), <<families[i], 1>>) = Entered(families, i)
<1> DEFINE n == Len(families)
           s == Entered(families, i - 1)
           e == <<families[i], 1>>
           at == {j \in 1 .. Len(s) : s[j][1] = e[1]}
<1>1. n \in Nat /\ \A j, k \in 1 .. n : families[j] = families[k] => j = k
  BY FamiliesAre
<1>2. i \in Nat /\ i - 1 \in Nat /\ \A j \in 1 .. i - 1 : j \in 1 .. n /\ j # i
  BY <1>1
<1>3. s = [j \in 1 .. i - 1 |-> <<families[j], 1>>]
  BY DEF Entered
<1>4. Len(s) = i - 1 /\ \A j \in 1 .. i - 1 : s[j][1] = families[j]
  BY <1>2, <1>3
<1>5. e[1] = families[i]
  OBVIOUS
<1>6. SetFamily(s, e) = IF at = {} THEN Append(s, e)
                        ELSE [s EXCEPT ![CHOOSE j \in at : TRUE] = e]
  BY DEF SetFamily
<1> HIDE DEF s, e
<1>7. at = {}
  BY <1>1, <1>2, <1>4, <1>5
<1>8. Append(s, e) = [j \in 1 .. i |-> <<families[j], 1>>]
  <2> DEFINE a == Append(s, e)
             S == {<<families[j], 1>> : j \in 1 .. i}
  <2>1. s \in Seq(S)
    <3>1. \A j \in 1 .. i - 1 : <<families[j], 1>> \in S
      BY <1>2
    <3> HIDE DEF S
    <3> QED BY <1>2, <1>3, <3>1
  <2>2. e \in S
    BY <1>2 DEF e
  <2> HIDE DEF S
  <2>3. a \in Seq(S) /\ Len(a) = i /\ a[i] = e /\ \A j \in 1 .. i - 1 : a[j] = s[j]
    BY <1>2, <1>4, <2>1, <2>2
  <2> HIDE DEF a
  <2>4. \A j \in 1 .. i : a[j] = <<families[j], 1>>
    BY <1>2, <1>3, <2>3 DEF e
  <2> DEFINE r == [j \in 1 .. i |-> <<families[j], 1>>]
  <2>5. a = r
    <3>1. \A j \in 1 .. i : <<families[j], 1>> \in S
      BY DEF S
    <3>2. r \in Seq(S) /\ Len(r) = i /\ \A j \in 1 .. i : r[j] = <<families[j], 1>>
      BY <1>2, <3>1
    <3> HIDE DEF r
    <3>3. \A j \in 1 .. Len(a) : a[j] = r[j]
      BY <2>3, <2>4, <3>2
    <3> QED BY <2>3, <3>2, <3>3, SameSeq
  <2> QED BY <2>5 DEF a
<1> QED BY <1>6, <1>7, <1>8 DEF Entered, s, e

\* The service families are read from the offset they stand at.
LEMMA FamiliesRead ==
    ASSUME NEW families, IsFamilies(families), NEW type \in {2, 6}, NEW b \in Octets,
           NEW o \in Nat, NEW t \in Octets, Ends(b, o, FamiliesBlock(type, families) \o t)
    PROVE  FamiliesIs(b, o, type, families, t)
<1> DEFINE n == Len(families)
           v == Versions(families)
           x == 2 + 2 * n
<1>1. n \in Nat /\ n <= 126
  BY FamiliesAre
<1>2. /\ v \in Octets /\ Len(v) = 2 * n
      /\ \A i \in 1 .. n : v[2 * i - 1] = families[i] /\ v[2 * i] = 1
  BY VersionsAre
<1>3. FamiliesBlock(type, families) = <<x, type>> \o v
  BY DEF FamiliesBlock, Versions
<1> HIDE DEF n, v
<1>4. x \in Octet /\ type \in Octet
  BY <1>1, OctetIs
<1> HIDE DEF x
<1>5. <<x, type>> \o v \o t = <<x, type>> \o (v \o t) /\ v \o t \in Octets
  <2> DEFINE p == <<x, type>>
  <2>1. p \in Octets
    BY <1>4, OctetTuples
  <2> HIDE DEF p
  <2>2. p \o v \o t = p \o (v \o t) /\ v \o t \in Octets
    BY <1>2, <2>1 DEF Octets
  <2> QED BY <2>2 DEF p
<1>6. b[o + 1] = x /\ b[o + 2] = type /\ Ends(b, o + 2, v \o t)
  <2> DEFINE vt == v \o t
  <2>1. vt \in Octets /\ Ends(b, o, <<x, type>> \o vt)
    BY <1>3, <1>5
  <2> HIDE DEF vt
  <2>2. b[o + 1] = x /\ b[o + 2] = type /\ Ends(b, o + 2, vt)
    BY <1>4, <2>1, EndsPair
  <2> QED BY <2>2 DEF vt
<1>7. /\ \A i \in 1 .. Len(v) : b[o + 2 + i] = v[i]
      /\ Ends(b, o + 2 + Len(v), t)
  <2>1. o + 2 \in Nat
    OBVIOUS
  <2> QED BY <1>2, <1>6, <2>1, EndsParts
<1>8. Len(b) = o + 2 + 2 * n + Len(t) /\ Len(t) \in Nat
  <2>1. Len(b) = o + 2 + Len(v) + Len(t)
    BY <1>7 DEF Ends
  <2>2. Len(t) \in Nat
    BY DEF Octets
  <2> QED BY <1>2, <2>1, <2>2
<1>9. Byte(b, o) = x /\ Byte(b, o + 1) = type
  <2>1. o + 1 + 1 = o + 2
    OBVIOUS
  <2> QED BY <1>6, <2>1 DEF Byte
<1>10. Structure(b, o)
  BY <1>1, <1>8, <1>9 DEF Structure, x
<1>11. \A i \in 1 .. n : <<Byte(b, o + 2 * i), Byte(b, o + 2 * i + 1)>> = <<families[i], 1>>
  <2> TAKE i \in 1 .. n
  <2>1. /\ o + 2 * i + 1 = o + 2 + (2 * i - 1) /\ o + 2 * i + 1 + 1 = o + 2 + 2 * i
        /\ 2 * i - 1 \in 1 .. 2 * n /\ 2 * i \in 1 .. 2 * n
    BY <1>1
  <2>2. b[o + 2 + (2 * i - 1)] = families[i] /\ b[o + 2 + 2 * i] = 1
    BY <1>2, <1>7, <2>1
  <2> QED BY <2>1, <2>2 DEF Byte
<1> DEFINE number == (Byte(b, o) - 1) \div 2
           entry(i) == <<Byte(b, o + 2 * i), Byte(b, o + 2 * i + 1)>>
           set[i \in 0 .. number] == IF i = 0 THEN <<>> ELSE SetFamily(set[i - 1], entry(i))
<1>12. ParseServiceFamilies(b, o)
         = IF ~Structure(b, o) \/ o + 2 > Len(b) THEN Malformed
           ELSE IF Byte(b, o + 1) \notin {SUPP_SVC_FAMILIES, SECURED_SERVICE_FAMILIES} THEN Malformed
           ELSE IF o + 2 + 2 * number > Len(b) THEN Malformed
           ELSE [type |-> Byte(b, o + 1), services |-> set[number]]
  BY DEF ParseServiceFamilies
<1>13. number = n
  BY <1>1, <1>9 DEF x
<1>14. set = [i \in 0 .. number |-> IF i = 0 THEN <<>> ELSE SetFamily(set[i - 1], entry(i))]
  <2> DEFINE g == [i \in 0 .. n |-> Entered(families, i)]
  <2>1. g = [i \in 0 .. n |-> IF i = 0 THEN <<>> ELSE SetFamily(g[i - 1], entry(i))]
    <3>1. Entered(families, 0) = <<>>
      BY DEF Entered
    <3>2. ASSUME NEW i \in 1 .. n PROVE SetFamily(g[i - 1], entry(i)) = Entered(families, i)
      <4>1. i - 1 \in 0 .. n /\ g[i - 1] = Entered(families, i - 1)
        BY <1>1
      <4>2. entry(i) = <<families[i], 1>>
        BY <1>11
      <4>3. SetFamily(Entered(families, i - 1), <<families[i], 1>>) = Entered(families, i)
        BY FamilyAdded DEF n
      <4> QED BY <4>1, <4>2, <4>3
    <3>3. \A i \in 0 .. n : i = 0 \/ i \in 1 .. n
      BY <1>1
    <3> QED BY <3>1, <3>2, <3>3
  <2> HIDE DEF g, entry, number
  <2>2. g = [i \in 0 .. number |-> IF i = 0 THEN <<>> ELSE SetFamily(g[i - 1], entry(i))]
    BY <1>13, <2>1
  <2> QED BY <2>2 DEF set
<1> HIDE DEF set, number
<1>15. set[n] = Entered(families, n)
  <2> DEFINE T == {i \in Nat : i <= n => set[i] = Entered(families, i)}
  <2>1. 0 \in T
    <3>1. Entered(families, 0) = <<>> /\ 0 \in 0 .. n
      BY <1>1 DEF Entered
    <3> QED BY <1>13, <1>14, <3>1
  <2>2. ASSUME NEW i \in Nat, i \in T PROVE i + 1 \in T
    <3>1. SUFFICES ASSUME i + 1 <= n PROVE set[i + 1] = Entered(families, i + 1)
      OBVIOUS
    <3>2. i + 1 \in 1 .. n /\ i + 1 \in 0 .. n /\ i + 1 # 0 /\ i + 1 - 1 = i /\ i <= n
      BY <1>1, <3>1
    <3>3. set[i + 1] = SetFamily(set[i], entry(i + 1))
      <4> HIDE DEF entry
      <4> QED BY <1>13, <1>14, <3>2
    <3>4. entry(i + 1) = <<families[i + 1], 1>>
      BY <1>11, <3>2
    <3> HIDE DEF entry
    <3>5. set[i] = Entered(families, i)
      BY <2>2, <3>2
    <3>6. SetFamily(Entered(families, i), <<families[i + 1], 1>>) = Entered(families, i + 1)
      <4> DEFINE k == i + 1
      <4>1. k \in 1 .. Len(families) /\ k - 1 = i
        BY <3>2 DEF n
      <4> HIDE DEF k
      <4>2. SetFamily(Entered(families, k - 1), <<families[k], 1>>) = Entered(families, k)
        BY <4>1, FamilyAdded
      <4> QED BY <4>1, <4>2 DEF k
    <3> QED BY <3>3, <3>4, <3>5, <3>6
  <2> HIDE DEF T
  <2>3. n \in T
    BY <1>1, <2>1, <2>2, Inductive
  <2> QED BY <1>1, <2>3 DEF T
<1>16. ParseServiceFamilies(b, o) = [type |-> type, services |-> Entered(families, n)]
  <2>1. Byte(b, o + 1) \in {SUPP_SVC_FAMILIES, SECURED_SERVICE_FAMILIES}
    BY <1>9 DEF SUPP_SVC_FAMILIES, SECURED_SERVICE_FAMILIES
  <2>2. ~(o + 2 > Len(b)) /\ ~(o + 2 + 2 * number > Len(b))
    BY <1>1, <1>8, <1>13
  <2> QED BY <1>9, <1>10, <1>12, <1>13, <1>15, <2>1, <2>2
<1>17. [type |-> type, services |-> Entered(families, n)] \in ServiceFamilies
  <2>1. \A i \in 1 .. n : <<families[i], 1>> \in Seq(Octet)
    <3>1. 1 \in Octet
      BY OctetIs
    <3>2. \A i \in 1 .. n : families[i] \in Octet
      BY FamiliesAre DEF n
    <3> QED BY <3>1, <3>2, OctetTuples DEF Octets
  <2>2. Entered(families, n) \in Seq(Seq(Octet))
    BY <1>1, <2>1 DEF Entered
  <2> QED BY <1>4, <2>2 DEF ServiceFamilies
<1>18. Ends(b, o + 2 + 2 * n, t)
  BY <1>2, <1>7
<1> QED BY <1>9, <1>10, <1>16, <1>17, <1>18 DEF FamiliesIs, Described, n, x

\* What AnswersAssumption says of a device.
IsDevice(a) ==
    /\ a.ip \in Octets /\ Len(a.ip) = 4 /\ a.ip # RoutingHost[1]
    /\ a.port \in Words /\ IsAddress(a.ia) /\ ShortName(a.name)
    /\ IsFamilies(a.families) /\ a.extended \in BOOLEAN
    /\ a.secured = <<>> \/ (Len(a.secured) = 1 /\ IsFamilies(a.secured[1]))

\* What the assumptions say of a device, as one fact.
LEMMA AnswersAreDevices == ASSUME NEW a \in Answers PROVE IsDevice(a)
<1>1. /\ a.ip \in Seq(Octet) /\ Len(a.ip) = 4 /\ a.ip # RoutingHost[1]
      /\ a.port \in Nat /\ a.port <= 65535 /\ IsAddress(a.ia)
      /\ a.name \in Seq(Octet \ {0, 58}) /\ Len(a.name) <= 30
      /\ IsFamilies(a.families) /\ a.extended \in BOOLEAN
      /\ a.secured = <<>> \/ (Len(a.secured) = 1 /\ IsFamilies(a.secured[1]))
  BY AnswersAssumption
<1>2. a.port \in Words
  BY <1>1 DEF Words
<1>3. a.ip \in Octets /\ ShortName(a.name)
  BY <1>1 DEF Octets, ShortName
<1> QED BY <1>1, <1>2, <1>3 DEF IsDevice

\* A family is found among those described as it was among those written.
LEMMA DescribedHas ==
    ASSUME NEW families, IsFamilies(families), NEW type, NEW id
    PROVE  HasFamily(Described(type, families), id) <=> id \in ToSet(families)
<1> DEFINE s == Described(type, families).services
           n == Len(families)
<1>1. n \in Nat /\ families \in Seq(Octet)
  BY FamiliesAre DEF IsFamilies
<1>2. s = Entered(families, n)
  BY DEF Described
<1>3. Len(s) = n /\ \A i \in 1 .. n : s[i][1] = families[i]
  BY <1>1, <1>2 DEF Entered
<1> HIDE DEF s
<1>4. HasFamily(Described(type, families), id) <=> \E i \in 1 .. n : families[i] = id
  BY <1>3 DEF HasFamily, s
<1>5. ToSet(families) = {families[i] : i \in 1 .. n}
  BY <1>1 DEF ToSet
<1> QED BY <1>4, <1>5

\* What the client reads off a response of these fields.
LEMMA FieldsAreAnswer ==
    ASSUME NEW a, IsDevice(a), NEW d, d.address = IndividualAddress(a.ia), d.name = a.name,
           NEW sr, sr.hpai = HPAI(a.ip, a.port, IPV4_UDP), sr.deviceInfo = <<d>>,
           sr.serviceFamilies = <<Described(2, a.families)>>,
           sr.securedServiceFamilies = SecuredFamilies(a),
           sr.service_type = IF a.extended THEN SEARCH_RESPONSE_EXTENDED ELSE SEARCH_RESPONSE
    PROVE  IsAnswer(sr, a)
<1>1. HostOf(a.ip, sr) = <<a.ip, Port(a)>>
  BY DEF HostOf, HPAI, Port
<1>2. NameOfDevice(sr) = a.name
  <2>1. sr.deviceInfo # <<>> /\ sr.deviceInfo[1].name = a.name
    OBVIOUS
  <2> DEFINE name == a.name
  <2>2. name \in Seq(Octet \ {0, 58})
    BY DEF IsDevice, ShortName
  <2>3. NameOfDevice(sr) = [i \in 1 .. Len(name) |-> IF name[i] = 58 THEN 32 ELSE name[i]]
    BY <2>1 DEF NameOfDevice
  <2> HIDE DEF name
  <2>4. \A i \in 1 .. Len(name) : (IF name[i] = 58 THEN 32 ELSE name[i]) = name[i]
    BY <2>2
  <2>5. name = [i \in 1 .. Len(name) |-> name[i]]
    BY <2>2
  <2>6. NameOfDevice(sr) = name
    BY <2>3, <2>4, <2>5
  <2> QED BY <2>6 DEF name
<1>3. AddressOfDevice(sr) = Shown(a)
  <2>1. AddressIs(a.ia)
    BY AddressIsWord DEF IsDevice
  <2>2. sr.deviceInfo # <<>> /\ sr.deviceInfo[1].address = IndividualAddress(a.ia)
    OBVIOUS
  <2>3. AddressOfDevice(sr) = FormattedAddress(IndividualAddress(a.ia))
    BY <2>2 DEF AddressOfDevice
  <2> QED BY <2>1, <2>3 DEF Shown, AddressIs
<1>4. sr.serviceFamilies # <<>> /\ sr.serviceFamilies[1] = Described(2, a.families)
  OBVIOUS
<1>5. IsFamilies(a.families)
  BY DEF IsDevice
<1>6. ServicesOf(sr) = a.families
  <2> DEFINE families == a.families
             n == Len(families)
             s == Entered(families, n)
  <2>1. n \in Nat /\ families \in Seq(Octet)
    BY <1>5, FamiliesAre DEF IsFamilies
  <2>2. ServicesOf(sr) = [i \in 1 .. Len(s) |-> s[i][1]]
    BY <1>4 DEF ServicesOf, Described
  <2> HIDE DEF families
  <2>3. Len(s) = n /\ \A i \in 1 .. n : s[i][1] = families[i]
    BY <2>1 DEF Entered
  <2> HIDE DEF s
  <2>4. families = [i \in 1 .. n |-> families[i]]
    BY <2>1
  <2>5. ServicesOf(sr) = families
    BY <2>2, <2>3, <2>4
  <2> QED BY <2>5 DEF families
<1>7. Offers(sr, ROUTING_FAMILY) <=> Routes(a)
  BY <1>4, <1>5, DescribedHas DEF Offers, Routes, ROUTING_FAMILY
<1>8. (sr.service_type = SEARCH_RESPONSE_EXTENDED /\ sr.securedServiceFamilies # <<>>)
        <=> SecuredBy(a)
  BY DEF SecuredBy, SecuredFamilies, SEARCH_RESPONSE_EXTENDED, SEARCH_RESPONSE
<1>9. \A id : Secures(sr, id) <=> a.extended /\ a.secured # <<>> /\ id \in ToSet(a.secured[1])
  <2> TAKE id
  <2>1. CASE a.extended /\ a.secured # <<>>
    <3>1. IsFamilies(a.secured[1])
      BY <2>1 DEF IsDevice
    <3>2. sr.securedServiceFamilies # <<>>
            /\ sr.securedServiceFamilies[1] = Described(6, a.secured[1])
      BY <2>1 DEF SecuredFamilies
    <3>3. HasFamily(Described(6, a.secured[1]), id) <=> id \in ToSet(a.secured[1])
      BY <3>1, DescribedHas
    <3> QED BY <2>1, <3>2, <3>3 DEF Secures
  <2>2. CASE ~(a.extended /\ a.secured # <<>>)
    BY <2>2 DEF Secures, SecuredFamilies
  <2> QED BY <2>1, <2>2
<1>10. Secures(sr, TUNNELLING_FAMILY) <=> TcpBy(a)
  BY <1>9 DEF TcpBy, TUNNELLING_FAMILY
<1>11. Secures(sr, ROUTING_FAMILY) => SecuredBy(a)
  BY <1>9 DEF SecuredBy
<1> QED BY <1>1, <1>2, <1>3, <1>6, <1>7, <1>8, <1>10, <1>11 DEF IsAnswer

\* The device information is a buffer of 54 octets.
LEMMA DeviceWritten ==
    ASSUME NEW a, ShortName(a.name), IsAddress(a.ia)
    PROVE  DeviceBlock(a) \in Octets
<1> DEFINE four == <<54, 1, 2, 0>>
           word == U16Bytes(IndividualAddress(a.ia))
           name == NameField(a.name)
<1>1. 54 \in Octet /\ 1 \in Octet /\ 2 \in Octet /\ 0 \in Octet
  BY OctetIs
<1>2. IndividualAddress(a.ia) \in Words
  <2>1. AddressIs(a.ia)
    BY AddressIsWord
  <2> QED BY <2>1 DEF AddressIs
<1>3. four \in Octets /\ word \in Octets /\ name \in Octets /\ Identity \in Octets
  BY <1>1, <1>2, OctetTuples, U16Is, NameWritten, IdentityIs
<1>4. DeviceBlock(a) = four \o word \o Identity \o name
  BY DEF DeviceBlock, Identity, DEVICE_INFO, NameField
<1> HIDE DEF four, word, name, Identity
<1> QED BY <1>3, <1>4 DEF Octets

\* The families are a buffer of their length.
LEMMA FamiliesWritten ==
    ASSUME NEW families, IsFamilies(families), NEW type \in {2, 6}
    PROVE  FamiliesBlock(type, families) \in Octets
<1> DEFINE head == <<2 + 2 * Len(families), type>>
           v == Versions(families)
<1>1. Len(families) \in Nat /\ Len(families) <= 126
  BY FamiliesAre
<1>2. v \in Octets
  BY VersionsAre
<1>3. FamiliesBlock(type, families) = head \o v
  BY DEF FamiliesBlock, Versions
<1>4. 2 + 2 * Len(families) \in Octet /\ type \in Octet
  BY <1>1, OctetIs
<1>5. head \in Octets
  BY <1>4, OctetTuples
<1> HIDE DEF head, v
<1> QED BY <1>2, <1>3, <1>5 DEF Octets

\* The block that is skipped is one too.
LEMMA SkippedWritten == Skipped \in Octets /\ Len(Skipped) = 6
<1>1. \A n \in {6, 7, 0, 254, 17, 1} : n \in Octet
  BY OctetIs
<1> QED BY <1>1 DEF Skipped, Octets

\* The block of the secured families, if any.
SecuredBlock(a) == IF a.secured = <<>> THEN <<>> ELSE FamiliesBlock(6, a.secured[1])

AnswerBody(a) ==
    HPAIBytes(HPAI(a.ip, a.port, IPV4_UDP))
      \o (DeviceBlock(a) \o (Skipped \o (FamiliesBlock(2, a.families) \o SecuredBlock(a))))

\* How the body of a response is laid out.
BodyIs(a, b) ==
    /\ b \in Octets /\ 68 <= Len(b) /\ Len(b) <= 600
    /\ ParseHPAI(b, 0) = HPAI(a.ip, a.port, IPV4_UDP) /\ HPAI(a.ip, a.port, IPV4_UDP) \in HPAIs
    /\ ParseDeviceInfo(b, 8) \in Devices
    /\ ParseDeviceInfo(b, 8).address = IndividualAddress(a.ia)
    /\ ParseDeviceInfo(b, 8).name = a.name
    /\ Byte(b, 8) = 54 /\ Byte(b, 9) = 1 /\ Structure(b, 8)
    /\ Byte(b, 62) = 6 /\ Byte(b, 63) = 7 /\ Structure(b, 62)
    /\ ParseServiceFamilies(b, 68) = Described(2, a.families)
    /\ Described(2, a.families) \in ServiceFamilies
    /\ Byte(b, 68) >= 2 /\ Byte(b, 69) = 2 /\ Structure(b, 68)
    /\ SecuredEnd(a, b, 70 + 2 * Len(a.families))

\* The body of a response is laid out so.
LEMMA BodyOfAnswer == ASSUME NEW a, IsDevice(a) PROVE BodyIs(a, AnswerBody(a))
<1> DEFINE b == AnswerBody(a)
           H == HPAIBytes(HPAI(a.ip, a.port, IPV4_UDP))
           D == DeviceBlock(a)
           F == FamiliesBlock(2, a.families)
           X == SecuredBlock(a)
           x == F \o X
           y == Skipped \o x
           z == D \o y
           at == 70 + 2 * Len(a.families)
<1>1. /\ a.ip \in Octets /\ Len(a.ip) = 4 /\ a.port \in Words /\ IsAddress(a.ia)
      /\ ShortName(a.name) /\ IsFamilies(a.families)
      /\ a.secured = <<>> \/ (Len(a.secured) = 1 /\ IsFamilies(a.secured[1]))
  BY DEF IsDevice
<1>2. H \in Octets
  BY <1>1, HPAIWritten
<1>3. D \in Octets
  BY <1>1, DeviceWritten
<1>4. F \in Octets
  BY <1>1, FamiliesWritten
<1>5. X \in Octets
  <2>1. CASE a.secured = <<>>
    BY <2>1, OctetTuples DEF SecuredBlock
  <2>2. CASE a.secured # <<>>
    BY <1>1, <2>2, FamiliesWritten DEF SecuredBlock
  <2> QED BY <2>1, <2>2
<1>6. Skipped \in Octets /\ Len(Skipped) = 6
  BY SkippedWritten
<1>7. b = H \o z
  BY DEF AnswerBody
<1> HIDE DEF b, H, D, F, X
<1>8. x \in Octets
  BY <1>4, <1>5, JoinedLength
<1>9. y \in Octets
  <2> HIDE DEF x
  <2> QED BY <1>6, <1>8, JoinedLength
<1>10. z \in Octets
  <2> HIDE DEF y
  <2> QED BY <1>3, <1>9, JoinedLength
<1>11. b \in Octets /\ Ends(b, 0, H \o z)
  <2>1. b \in Octets
    <3> HIDE DEF z
    <3> QED BY <1>2, <1>7, <1>10, JoinedLength
  <2>2. Ends(b, 0, b)
    BY <2>1, EndsAll
  <2> QED BY <1>7, <2>1, <2>2
<1>12. /\ ParseHPAI(b, 0) = HPAI(a.ip, a.port, IPV4_UDP)
       /\ HPAI(a.ip, a.port, IPV4_UDP) \in HPAIs /\ Ends(b, 8, z)
  <2> HIDE DEF z
  <2> QED BY <1>1, <1>10, <1>11, HPAIRead DEF H
<1>13. DeviceIs(b, 8, a, y)
  <2> HIDE DEF y
  <2>1. Ends(b, 8, DeviceBlock(a) \o y)
    BY <1>12 DEF z, D
  <2> QED BY <1>1, <1>9, <1>11, <2>1, DeviceRead
<1>14. Ends(b, 62, y) /\ Len(b) >= 62 + Len(y)
  <2>1. Ends(b, 62, y)
    BY <1>13 DEF DeviceIs
  <2> QED BY <2>1 DEF Ends
<1>15. Ends(b, 68, x) /\ Byte(b, 62) = 6 /\ Byte(b, 63) = 7
  <2> HIDE DEF x
  <2>1. Ends(b, 62, Skipped \o x)
    BY <1>14 DEF y
  <2>2. (\A i \in 1 .. Len(Skipped) : b[62 + i] = Skipped[i]) /\ Ends(b, 62 + Len(Skipped), x)
    BY <1>6, <1>8, <1>11, <2>1, EndsParts
  <2>3. b[62 + 1] = 6 /\ b[62 + 2] = 7
    BY <1>6, <2>2 DEF Skipped
  <2>4. Ends(b, 68, x)
    BY <1>6, <2>2
  <2> QED BY <2>3, <2>4 DEF Byte
<1>16. FamiliesIs(b, 68, 2, a.families, X)
  <2>1. Ends(b, 68, FamiliesBlock(2, a.families) \o X)
    BY <1>15 DEF x, F
  <2> QED BY <1>1, <1>5, <1>11, <2>1, FamiliesRead
<1>17. Len(a.families) \in Nat /\ Len(a.families) <= 126
  BY <1>1, FamiliesAre
<1>18. Ends(b, at, X) /\ Len(b) = at + Len(X) /\ Len(X) \in Nat
  <2>1. Ends(b, 68 + 2 + 2 * Len(a.families), X) /\ Len(X) \in Nat
    BY <1>5, <1>16 DEF FamiliesIs, Octets
  <2> QED BY <1>17, <2>1 DEF Ends
<1>19. SecuredEnd(a, b, at) /\ Len(b) <= 600
  <2>1. CASE a.secured = <<>>
    <3>1. Len(X) = 0
      BY <2>1 DEF X, SecuredBlock
    <3> QED BY <1>17, <1>18, <2>1, <3>1 DEF SecuredEnd
  <2>2. CASE a.secured # <<>>
    <3> DEFINE s == a.secured[1]
    <3>1. IsFamilies(s)
      BY <1>1, <2>2
    <3>2. X = FamiliesBlock(6, s)
      BY <2>2 DEF X, SecuredBlock
    <3>3. <<>> \in Octets /\ X \o <<>> = X
      BY <1>5, OctetTuples DEF Octets
    <3> HIDE DEF s
    <3>4. Ends(b, at, FamiliesBlock(6, s) \o <<>>)
      BY <1>18, <3>2, <3>3
    <3>5. at \in Nat
      BY <1>17
    <3>6. FamiliesIs(b, at, 6, s, <<>>)
      BY <1>11, <3>1, <3>3, <3>4, <3>5, FamiliesRead
    <3>7. Len(s) \in Nat /\ Len(s) <= 126
      BY <3>1, FamiliesAre
    <3>8. Len(b) = at + 2 + 2 * Len(s)
      <4>1. Ends(b, at + 2 + 2 * Len(s), <<>>)
        BY <3>6 DEF FamiliesIs
      <4>2. Len(b) = at + 2 + 2 * Len(s) + 0
        BY <4>1 DEF Ends
      <4> QED BY <3>5, <3>7, <4>2
    <3>9. Len(b) <= 600
      <4> DEFINE m == Len(s)
                 n == Len(a.families)
      <4>1. m \in Nat /\ m <= 126 /\ n \in Nat /\ n <= 126
        BY <1>17, <3>7
      <4>2. Len(b) = 70 + 2 * n + 2 + 2 * m
        BY <3>8
      <4> HIDE DEF m, n
      <4> QED BY <4>1, <4>2
    <3> HIDE DEF at
    <3>10. SecuredEnd(a, b, at)
      BY <2>2, <3>6, <3>8 DEF SecuredEnd, s
    <3> QED BY <3>9, <3>10
  <2> QED BY <2>1, <2>2
<1>20. Len(b) >= 70
  BY <1>17, <1>18
<1>21. Structure(b, 62)
  BY <1>15, <1>20 DEF Structure
<1>22. /\ ParseDeviceInfo(b, 8) \in Devices
       /\ ParseDeviceInfo(b, 8).address = IndividualAddress(a.ia)
       /\ ParseDeviceInfo(b, 8).name = a.name
       /\ Byte(b, 8) = 54 /\ Byte(b, 9) = 1 /\ Structure(b, 8)
  BY <1>13 DEF DeviceIs, DEVICE_INFO
<1>23. /\ ParseServiceFamilies(b, 68) = Described(2, a.families)
       /\ Described(2, a.families) \in ServiceFamilies
       /\ Byte(b, 68) >= 2 /\ Byte(b, 69) = 2 /\ Structure(b, 68)
  BY <1>16, <1>17 DEF FamiliesIs
<1> HIDE DEF at
<1> QED BY <1>11, <1>12, <1>15, <1>19, <1>20, <1>21, <1>22, <1>23 DEF BodyIs, b, at

\* What is read of a response, block by block.
LEMMA BlocksOfAnswer ==
    ASSUME NEW a, IsDevice(a), NEW b, BodyIs(a, b)
    PROVE  Blocks(b, 8, ~a.extended)
             = Found(<<ParseDeviceInfo(b, 8)>>, <<Described(2, a.families)>>, SecuredFamilies(a))
<1> DEFINE plain == ~a.extended
           d == ParseDeviceInfo(b, 8)
           f == Described(2, a.families)
           n == Len(a.families)
           at == 70 + 2 * n
           r0 == State(8, <<>>, <<>>, <<>>)
           r1 == State(62, <<d>>, <<>>, <<>>)
           r2 == State(68, <<d>>, <<>>, <<>>)
           r3 == State(at, <<d>>, <<f>>, <<>>)
<1>1. n \in Nat /\ plain \in BOOLEAN /\ b \in Octets /\ 68 <= Len(b) /\ Len(b) \in Nat
  <2>1. IsFamilies(a.families) /\ b \in Octets /\ 68 <= Len(b)
    BY DEF IsDevice, BodyIs
  <2> QED BY <2>1, FamiliesAre DEF IsDevice, Octets
<1>2. d # Malformed /\ f # Malformed
  BY MalformedAssumption DEF BodyIs
<1>3. BlockStep(b, plain, r0) = r1
  <2>1. AtBlock(b, plain, 8, <<>>, <<>>) /\ Byte(b, 8 + 1) = 1
    BY <1>1 DEF BodyIs, AtBlock
  <2>2. BlockStep(b, plain, State(8, <<>>, <<>>, <<>>)) = State(8 + 54, <<d>>, <<>>, <<>>)
    BY <1>1, <1>2, <2>1, DeviceStep
  <2> QED BY <2>2
<1> HIDE DEF d, f, plain
<1>4. BlockStep(b, plain, r1) = r2
  <2>1. AtBlock(b, plain, 62, <<d>>, <<>>) /\ Byte(b, 62 + 1) = 7 /\ Byte(b, 62) = 6
    BY <1>1 DEF BodyIs, AtBlock
  <2>2. BlockStep(b, plain, State(62, <<d>>, <<>>, <<>>)) = State(62 + 6, <<d>>, <<>>, <<>>)
    BY <1>1, <2>1, SkippedStep
  <2> QED BY <2>2
<1>5. SecuredEnd(a, b, at)
  BY DEF BodyIs
<1>6. at <= Len(b) /\ 70 <= Len(b)
  <2>1. CASE a.secured = <<>>
    BY <1>1, <1>5, <2>1 DEF SecuredEnd
  <2>2. CASE a.secured # <<>>
    <3>1. Len(b) = at + 2 + 2 * Len(a.secured[1])
      BY <1>5, <2>2 DEF SecuredEnd
    <3> DEFINE m == Len(a.secured[1])
    <3>2. m \in Nat
      BY <2>2, FamiliesAre DEF IsDevice
    <3>3. Len(b) = 70 + 2 * n + 2 + 2 * m
      BY <3>1
    <3> HIDE DEF m, n
    <3> QED BY <1>1, <3>2, <3>3
  <2> QED BY <2>1, <2>2
<1>7. BlockStep(b, plain, r2) = r3
  <2>1. AtBlock(b, plain, 68, <<d>>, <<>>) /\ Byte(b, 68 + 1) = 2
    BY <1>1, <1>6 DEF BodyIs, AtBlock
  <2>2. ParseServiceFamilies(b, 68) = f
    BY DEF BodyIs, f
  <2>3. BlockStep(b, plain, State(68, <<d>>, <<>>, <<>>))
          = State(68 + ServiceFamiliesLength(f), <<d>>, <<f>>, <<>>)
    BY <1>1, <1>2, <2>1, <2>2, FamiliesStep
  <2>4. ServiceFamiliesLength(f) = 2 + 2 * n
    BY <1>1 DEF f, ServiceFamiliesLength, Described, Entered
  <2>5. 68 + (2 + 2 * n) = at
    BY <1>1
  <2> HIDE DEF at, n
  <2> QED BY <2>3, <2>4, <2>5
<1> HIDE DEF at, n
<1>8. CASE ~a.extended
  <2>1. plain = TRUE
    BY <1>8 DEF plain
  <2>2. BlockStep(b, plain, r3) = r3
    <3>1. NoMore(b, plain, at, <<d>>, <<f>>)
      BY <2>1 DEF NoMore
    <3> QED BY <1>1, <3>1, LastStep
  <2>3. SecuredFamilies(a) = <<>>
    BY <1>8 DEF SecuredFamilies
  <2> DEFINE last == r3
  <2>4. last.failed = FALSE /\ last.found = Found(<<d>>, <<f>>, <<>>)
    BY DEF State
  <2>5. Blocks(b, 8, plain) = IF last.failed THEN Malformed ELSE last.found
    <3>1. [at |-> 8, failed |-> FALSE, found |-> [t \in Wanted |-> <<>>]] = r0
      BY FoundIs DEF State
    <3> HIDE DEF r0, r1, r2, r3
    <3> QED BY <1>1, <1>3, <1>4, <1>7, <2>2, <3>1, BlocksSettle
  <2> HIDE DEF last
  <2> QED BY <2>3, <2>4, <2>5 DEF plain, d, f
<1>9. CASE a.extended /\ a.secured = <<>>
  <2>1. BlockStep(b, plain, r3) = r3
    <3>1. Len(b) = at
      BY <1>5, <1>9 DEF SecuredEnd
    <3>2. NoMore(b, plain, at, <<d>>, <<f>>)
      BY <1>1, <3>1 DEF NoMore
    <3> HIDE DEF plain
    <3> QED BY <1>1, <3>2, LastStep
  <2>3. SecuredFamilies(a) = <<>>
    BY <1>9 DEF SecuredFamilies
  <2> DEFINE last == r3
  <2>4. last.failed = FALSE /\ last.found = Found(<<d>>, <<f>>, <<>>)
    BY DEF State
  <2>5. Blocks(b, 8, plain) = IF last.failed THEN Malformed ELSE last.found
    <3>1. [at |-> 8, failed |-> FALSE, found |-> [t \in Wanted |-> <<>>]] = r0
      BY FoundIs DEF State
    <3> HIDE DEF r0, r1, r2, r3
    <3> QED BY <1>1, <1>3, <1>4, <1>7, <2>1, <3>1, BlocksSettle
  <2> HIDE DEF last
  <2> QED BY <2>3, <2>4, <2>5 DEF plain, d, f
<1>10. CASE a.extended /\ a.secured # <<>>
  <2> DEFINE s == a.secured[1]
             g == Described(6, s)
             to == at + 2 + 2 * Len(s)
             r4 == State(to, <<d>>, <<f>>, <<g>>)
  <2>1. plain = FALSE
    BY <1>10 DEF plain
  <2>2. FamiliesIs(b, at, 6, s, <<>>) /\ Len(b) = to
    BY <1>5, <1>10 DEF SecuredEnd
  <2>3. Len(s) \in Nat
    BY <1>10, FamiliesAre DEF IsDevice
  <2>4. at \in Nat
    <3> HIDE DEF n
    <3> QED BY <1>1 DEF at
  <2>5. g # Malformed /\ ParseServiceFamilies(b, at) = g
    BY <2>2, MalformedAssumption DEF FamiliesIs
  <2>6. AtBlock(b, plain, at, <<d>>, <<f>>) /\ Byte(b, at + 1) = 6
    <3> DEFINE m == Len(s)
    <3>1. m \in Nat /\ Len(b) = at + 2 + 2 * m
      BY <2>2, <2>3
    <3>2. Byte(b, at) = 2 + 2 * m /\ Byte(b, at + 1) = 6 /\ Structure(b, at)
      BY <2>2 DEF FamiliesIs
    <3> HIDE DEF m, s
    <3>3. at + 2 <= Len(b) /\ Byte(b, at) >= 2
      BY <2>4, <3>1, <3>2
    <3> QED BY <2>1, <3>2, <3>3 DEF AtBlock
  <2>7. ServiceFamiliesLength(g) = 2 + 2 * Len(s)
    BY <2>3 DEF ServiceFamiliesLength, Described, Entered
  <2>8. to = at + (2 + 2 * Len(s)) /\ to \in Nat
    <3>1. \A m \in Nat : at + 2 + 2 * m = at + (2 + 2 * m) /\ at + 2 + 2 * m \in Nat
      BY <2>4
    <3> HIDE DEF s
    <3> QED BY <2>3, <3>1
  <2> HIDE DEF s, g, to
  <2>9. BlockStep(b, plain, r3) = r4
    <3>1. BlockStep(b, plain, State(at, <<d>>, <<f>>, <<>>))
            = State(at + ServiceFamiliesLength(g), <<d>>, <<f>>, <<g>>)
      <4> DEFINE x == <<d>>
                 y == <<f>>
      <4>1. AtBlock(b, plain, at, x, y) /\ Byte(b, at + 1) = 6
        BY <2>6
      <4> HIDE DEF x, y
      <4>2. BlockStep(b, plain, State(at, x, y, <<>>))
              = State(at + ServiceFamiliesLength(g), x, y, <<g>>)
        BY <1>1, <2>1, <2>4, <2>5, <4>1, SecuredStep
      <4> QED BY <4>2 DEF x, y
    <3> QED BY <2>1, <2>7, <2>8, <3>1
  <2>10. BlockStep(b, plain, r4) = r4
    <3>1. NoMore(b, plain, to, <<d>>, <<f>>)
      BY <2>2, <2>8 DEF NoMore
    <3> QED BY <1>1, <3>1, LastStep
  <2>11. SecuredFamilies(a) = <<g>>
    BY <1>10 DEF SecuredFamilies, g, s
  <2>12. r4.failed = FALSE /\ r4.found = Found(<<d>>, <<f>>, <<g>>)
    BY DEF State
  <2>13. Blocks(b, 8, plain) = IF r4.failed THEN Malformed ELSE r4.found
    <3>1. [at |-> 8, failed |-> FALSE, found |-> [t \in Wanted |-> <<>>]] = r0
      BY FoundIs DEF State
    <3> HIDE DEF r0, r1, r2, r3, r4
    <3> QED BY <1>1, <1>3, <1>4, <1>7, <2>9, <2>10, <3>1, BlocksSettle
  <2> HIDE DEF r4
  <2> QED BY <2>11, <2>12, <2>13 DEF plain, d, f
<1> QED BY <1>8, <1>9, <1>10 DEF IsDevice

\* The frame of a response is its header and that body.
LEMMA FrameOfAnswer ==
    ASSUME NEW a, IsDevice(a)
    PROVE  AnswerFrame(a)
             = HeaderBytes(ServiceOfAnswer(a), Len(AnswerBody(a))) \o AnswerBody(a)
<1> DEFINE H == HPAIBytes(HPAI(a.ip, a.port, IPV4_UDP))
           D == DeviceBlock(a)
           F == FamiliesBlock(2, a.families)
           X == SecuredBlock(a)
           body == H \o D \o Skipped \o F \o X
<1>1. H \in Octets /\ D \in Octets /\ F \in Octets /\ Skipped \in Octets
  BY HPAIWritten, DeviceWritten, FamiliesWritten, SkippedWritten DEF IsDevice
<1>2. X \in Octets
  <2>1. CASE a.secured = <<>>
    BY <2>1, OctetTuples DEF SecuredBlock
  <2>2. CASE a.secured # <<>>
    BY <2>2, FamiliesWritten DEF SecuredBlock, IsDevice
  <2> QED BY <2>1, <2>2
<1>3. AnswerBody(a) = H \o (D \o (Skipped \o (F \o X)))
  BY DEF AnswerBody
<1>4. AnswerFrame(a) = HeaderBytes(ServiceOfAnswer(a), Len(body)) \o body
  BY DEF AnswerFrame, ServiceOfAnswer, SecuredBlock, SUPP_SVC_FAMILIES, SECURED_SERVICE_FAMILIES
<1> HIDE DEF H, D, F, X
<1>5. body = H \o (D \o (Skipped \o (F \o X)))
  <2>1. JoinFive(H, D, Skipped, F, X)
    BY <1>1, <1>2, JoinedFiveIs
  <2> QED BY <2>1 DEF JoinFive
<1> QED BY <1>3, <1>4, <1>5

\* The client reads off a response what the device says of itself.
THEOREM AnswersAreRead == \A a \in Answers : IsAnswer(Answer(a), a)
<1> SUFFICES ASSUME NEW a \in Answers PROVE IsAnswer(Answer(a), a)
  OBVIOUS
<1> DEFINE b == AnswerBody(a)
           service == ServiceOfAnswer(a)
           frame == AnswerFrame(a)
           sr == Answer(a)
           hpai == HPAI(a.ip, a.port, IPV4_UDP)
           d == ParseDeviceInfo(b, 8)
           f == Described(2, a.families)
           g == SecuredFamilies(a)
           plain == ~a.extended
<1>1. IsDevice(a)
  BY AnswersAreDevices
<1>2. BodyIs(a, b)
  BY <1>1, BodyOfAnswer
<1>3. frame = HeaderBytes(service, Len(b)) \o b
  BY <1>1, FrameOfAnswer
<1>4. sr = ParseMessage(frame)
  BY DEF Answer
<1> HIDE DEF b, frame, sr, hpai
<1>5. b \in Octets /\ 6 + Len(b) \in Words
  <2>1. b \in Octets /\ 68 <= Len(b) /\ Len(b) <= 600
    BY <1>2 DEF BodyIs
  <2>2. Len(b) \in Nat
    BY <2>1 DEF Octets
  <2> QED BY <2>1, <2>2 DEF Words
<1>6. service \in Words
  BY DEF ServiceOfAnswer, SEARCH_RESPONSE_EXTENDED, SEARCH_RESPONSE, Words
<1> HIDE DEF service
<1>7. IsFrame(frame, service, b)
  BY <1>3, <1>5, <1>6, HeaderRead
<1>8. sr = ParseBody(service, b)
  BY <1>4, <1>7 DEF ParseMessage, IsFrame
<1>9. ParseHPAI(b, 0) = hpai /\ hpai # Malformed /\ d \in Devices /\ f \in ServiceFamilies
  BY <1>2, MalformedAssumption DEF BodyIs, hpai
<1>10. plain \in BOOLEAN /\ Blocks(b, 8, plain) = Found(<<d>>, <<f>>, g)
  BY <1>1, <1>2, BlocksOfAnswer
<1>11. Found(<<d>>, <<f>>, g) # Malformed
  <2> DEFINE S == Devices \cup ServiceFamilies
  <2>1. g \in Seq(S)
    <3>1. CASE a.extended /\ a.secured # <<>>
      <4>1. SecuredEnd(a, b, 70 + 2 * Len(a.families))
        BY <1>2 DEF BodyIs
      <4>2. Described(6, a.secured[1]) \in ServiceFamilies
        BY <3>1, <4>1 DEF SecuredEnd, FamiliesIs
      <4> QED BY <3>1, <4>2 DEF SecuredFamilies
    <3>2. CASE ~(a.extended /\ a.secured # <<>>)
      BY <3>2 DEF SecuredFamilies
    <3> QED BY <3>1, <3>2
  <2> HIDE DEF g
  <2>2. <<d>> \in Seq(S) /\ <<f>> \in Seq(S)
    BY <1>9
  <2> HIDE DEF d, f
  <2>3. Found(<<d>>, <<f>>, g) \in Descriptions
    BY <2>1, <2>2 DEF Found, Descriptions, DEVICE_INFO, SUPP_SVC_FAMILIES, SECURED_SERVICE_FAMILIES
  <2> QED BY <2>3, MalformedAssumption
<1>12. IF plain THEN ParseSearchResponse(b) = SearchResponse(hpai, d, f)
       ELSE ParseSecureSearchResponse(b) = SecureSearchResponse(hpai, <<d>>, <<f>>, g)
  <2> HIDE DEF d, f, g, plain
  <2> QED BY <1>9, <1>10, <1>11, ResponsesRead
<1>13. /\ sr.hpai = hpai /\ sr.deviceInfo = <<d>> /\ sr.serviceFamilies = <<f>>
       /\ sr.securedServiceFamilies = g /\ sr.service_type = service
  <2> HIDE DEF d, f
  <2>1. CASE a.extended
    <3>1. ParseBody(SEARCH_RESPONSE_EXTENDED, b) = ParseSecureSearchResponse(b)
      BY DEF ParseBody, SEARCH_REQUEST, SEARCH_REQUEST_EXTENDED,
         DESCRIPTION_REQUEST, SEARCH_RESPONSE, SEARCH_RESPONSE_EXTENDED, DESCRIPTION_RESPONSE,
         CONNECT_REQUEST, CONNECT_RESPONSE, CONNECTIONSTATE_REQUEST, CONNECTIONSTATE_RESPONSE,
         DISCONNECT_REQUEST, DISCONNECT_RESPONSE, TUNNELING_REQUEST, TUNNELING_ACK,
         ROUTING_INDICATION
    <3>2. service = SEARCH_RESPONSE_EXTENDED
      BY <2>1 DEF service, ServiceOfAnswer
    <3>3. sr = SecureSearchResponse(hpai, <<d>>, <<f>>, g)
      BY <1>8, <1>12, <2>1, <3>1, <3>2
    <3> HIDE DEF g
    <3> QED BY <3>2, <3>3 DEF SecureSearchResponse
  <2>2. CASE ~a.extended
    <3>1. ParseBody(SEARCH_RESPONSE, b) = ParseSearchResponse(b)
      BY DEF ParseBody, SEARCH_REQUEST, SEARCH_REQUEST_EXTENDED,
         DESCRIPTION_REQUEST, SEARCH_RESPONSE, SEARCH_RESPONSE_EXTENDED, DESCRIPTION_RESPONSE,
         CONNECT_REQUEST, CONNECT_RESPONSE, CONNECTIONSTATE_REQUEST, CONNECTIONSTATE_RESPONSE,
         DISCONNECT_REQUEST, DISCONNECT_RESPONSE, TUNNELING_REQUEST, TUNNELING_ACK,
         ROUTING_INDICATION
    <3>2. service = SEARCH_RESPONSE
      BY <2>2 DEF service, ServiceOfAnswer
    <3>3. sr = SearchResponse(hpai, d, f)
      BY <1>8, <1>12, <2>2, <3>1, <3>2
    <3>4. g = <<>>
      BY <2>2 DEF SecuredFamilies
    <3> HIDE DEF g
    <3> QED BY <3>2, <3>3, <3>4 DEF SearchResponse
  <2> QED BY <2>1, <2>2
<1>14. d.address = IndividualAddress(a.ia) /\ d.name = a.name
  BY <1>2 DEF BodyIs
<1>15. service = IF a.extended THEN SEARCH_RESPONSE_EXTENDED ELSE SEARCH_RESPONSE
  BY DEF service, ServiceOfAnswer
<1> HIDE DEF d
<1>16. IsAnswer(sr, a)
  BY <1>1, <1>13, <1>14, <1>15, FieldsAreAnswer DEF hpai
<1> QED BY <1>16 DEF sr

-----------------------------------------------------------------------------
(* The interfaces a secure client may take *)

\* A finite set of numbers can be put in descending order.
Descends(s, S) ==
    /\ s \in [1 .. Cardinality(S) -> S]
    /\ \A i, j \in 1 .. Cardinality(S) : i < j => s[i] > s[j]

\* Its descending order lists it, and nothing else.
LEMMA CanDescend ==
    ASSUME NEW S \in SUBSET Nat, IsFiniteSet(S)
    PROVE  \E s : Descends(s, S)
<1> DEFINE T == {n \in Nat : \A Q \in SUBSET Nat :
                   IsFiniteSet(Q) /\ Cardinality(Q) = n => \E s : Descends(s, Q)}
<1>1. 0 \in T
  <2> SUFFICES ASSUME NEW Q \in SUBSET Nat, IsFiniteSet(Q), Cardinality(Q) = 0
               PROVE  \E s : Descends(s, Q)
    OBVIOUS
  <2> DEFINE s == [i \in 1 .. 0 |-> 0]
  <2>1. s \in [1 .. 0 -> Q] /\ \A i, j \in 1 .. 0 : i < j => s[i] > s[j]
    OBVIOUS
  <2> HIDE DEF s
  <2>2. Descends(s, Q)
    BY <2>1 DEF Descends
  <2> QED BY <2>2
<1>2. ASSUME NEW n \in Nat, n \in T PROVE n + 1 \in T
  <2> SUFFICES ASSUME NEW Q \in SUBSET Nat, IsFiniteSet(Q), Cardinality(Q) = n + 1
               PROVE  \E s : Descends(s, Q)
    OBVIOUS
  <2>1. Q # {}
    BY FS_EmptySet
  <2>2. PICK m \in Q : \A y \in Q : m <= y
    BY <2>1, Least
  <2> DEFINE R == Q \ {m}
  <2>3. R \in SUBSET Nat /\ IsFiniteSet(R) /\ Cardinality(R) = n
    <3>1. IsFiniteSet(R) /\ Cardinality(R) = Cardinality(Q) - 1
      BY FS_RemoveElement
    <3> QED BY <3>1
  <2>4. PICK r : Descends(r, R)
    BY <1>2, <2>3
  <2> DEFINE s == [i \in 1 .. n + 1 |-> IF i = n + 1 THEN m ELSE r[i]]
  <2>5. r \in [1 .. n -> R] /\ \A i, j \in 1 .. n : i < j => r[i] > r[j]
    BY <2>3, <2>4 DEF Descends
  <2>6. \A i \in 1 .. n : r[i] \in Q /\ r[i] \in Nat /\ r[i] > m
    <3> TAKE i \in 1 .. n
    <3>1. r[i] \in R
      BY <2>5
    <3>2. r[i] \in Q /\ r[i] # m
      BY <3>1
    <3>3. r[i] \in Nat /\ m \in Nat /\ m <= r[i]
      BY <2>2, <3>2
    <3> QED BY <3>2, <3>3
  <2>7. \A i \in 1 .. n + 1 : i = n + 1 \/ i \in 1 .. n
    OBVIOUS
  <2>8. s \in [1 .. n + 1 -> Q]
    BY <2>6, <2>7
  <2>9. ASSUME NEW i \in 1 .. n + 1, NEW j \in 1 .. n + 1, i < j PROVE s[i] > s[j]
    <3>1. i \in 1 .. n /\ s[i] = r[i]
      BY <2>9
    <3>2. CASE j = n + 1
      BY <2>6, <3>1, <3>2
    <3>3. CASE j # n + 1
      <4>1. j \in 1 .. n /\ s[j] = r[j]
        BY <3>3
      <4> QED BY <2>5, <2>9, <3>1, <4>1
    <3> QED BY <3>2, <3>3
  <2> HIDE DEF s
  <2>10. Descends(s, Q)
    BY <2>8, <2>9 DEF Descends
  <2> QED BY <2>10
<1> HIDE DEF T
<1>3. Nat \subseteq T
  BY <1>1, <1>2, Inductive
<1>4. Cardinality(S) \in Nat
  BY FS_CardinalityType
<1> QED BY <1>3, <1>4 DEF T

\* So the first of them is one of them.
LEMMA DescendingFirst ==
    ASSUME NEW S \in SUBSET Nat, IsFiniteSet(S), S # {}
    PROVE  Descending(S)[1] \in S
<1> DEFINE d == Descending(S)
<1>1. \E s : Descends(s, S)
  BY CanDescend
<1>2. \E s \in [1 .. Cardinality(S) -> S] :
        \A i, j \in 1 .. Cardinality(S) : i < j => s[i] > s[j]
  BY <1>1 DEF Descends
<1>3. d \in [1 .. Cardinality(S) -> S]
  BY <1>2 DEF Descending
<1>4. Cardinality(S) \in Nat /\ Cardinality(S) # 0
  BY FS_CardinalityType, FS_EmptySet
<1> HIDE DEF d
<1>5. 1 \in 1 .. Cardinality(S)
  BY <1>4
<1> QED BY <1>3, <1>5 DEF d

\* A set of indices has a first and a last one.
LEMMA Greatest ==
    ASSUME NEW n \in Nat, NEW S \in SUBSET (1 .. n), S # {}
    PROVE  \E m \in S : \A y \in S : y <= m
<1> DEFINE Q == {n - x : x \in S}
<1>1. Q \in SUBSET Nat /\ Q # {}
  <2>1. \A x \in S : x \in 1 .. n /\ n - x \in Nat
    OBVIOUS
  <2> QED BY <2>1
<1>2. PICK m \in Q : \A y \in Q : m <= y
  BY <1>1, Least
<1>3. PICK k \in S : m = n - k
  BY <1>2
<1>4. ASSUME NEW y \in S PROVE y <= k
  <2>1. n - k <= n - y
    BY <1>2, <1>3
  <2>2. k \in Nat /\ y \in Nat
    OBVIOUS
  <2> QED BY <2>1, <2>2
<1> QED BY <1>3, <1>4

\* An interface of the keyring: its device, if any, has an address.
HasHost(interface) ==
    \/ interface.host = <<>>
    \/ \E digits : IsAddress(digits) /\ interface.host = <<IndividualAddress(digits)>>

\* The devices of the keyring have three digits.
LEMMA RingIs ==
    /\ DOMAIN Ring.interfaces \in SUBSET Nat /\ IsFiniteSet(DOMAIN Ring.interfaces)
    /\ DOMAIN Ring.interfaces \in SUBSET Words
    /\ \A a \in DOMAIN Ring.interfaces : HasHost(Ring.interfaces[a])
<1> DEFINE file == KeyringFile.interfaces
           n == Len(file)
           read(i) == ParseInterface(i, Right)
           entries == Attribute(file, read)
           D == {AddressOf(entries[i]) : i \in 1 .. Len(entries)}
           last(key) == LastOf(entries, AddressOf, key)
<1>1. n \in Nat
  BY KeyringAssumption
<1>2. Ring.interfaces = [key \in D |-> last(key)]
  BY DEF Ring, ParseKeyring, MapBy
<1>3. Len(entries) = n /\ \A i \in 1 .. n : entries[i] = ParseInterface(file[i], Right)
  BY <1>1 DEF Attribute
<1>4. \A i \in 1 .. n : AddressOf(entries[i]) \in Words /\ HasHost(entries[i])
  <2> TAKE i \in 1 .. n
  <2> DEFINE interface == file[i]
             entry == ParseInterface(interface, Right)
  <2>1. /\ IsAddress(interface.individualAddress)
        /\ interface.host = <<>> \/ (Len(interface.host) = 1 /\ IsAddress(interface.host[1]))
    BY KeyringAssumption
  <2> HIDE DEF interface
  <2>2. /\ entry.individualAddress = IndividualAddress(interface.individualAddress)
        /\ entry.host = Attribute(interface.host, IndividualAddress)
    BY DEF ParseInterface
  <2>3. IndividualAddress(interface.individualAddress) \in Words
    <3>1. AddressIs(interface.individualAddress)
      BY <2>1, AddressIsWord
    <3> QED BY <3>1 DEF AddressIs
  <2> HIDE DEF entry
  <2>4. HasHost(entry)
    <3>1. CASE interface.host = <<>>
      <4>1. entry.host = <<>>
        BY <2>2, <3>1 DEF Attribute
      <4> QED BY <4>1 DEF HasHost
    <3>2. CASE Len(interface.host) = 1 /\ IsAddress(interface.host[1])
      <4> DEFINE digits == interface.host[1]
      <4>1. entry.host = <<IndividualAddress(digits)>>
        BY <2>2, <3>2 DEF Attribute
      <4> HIDE DEF digits
      <4>2. IsAddress(digits)
        BY <3>2 DEF digits
      <4> QED BY <4>1, <4>2 DEF HasHost
    <3> QED BY <2>1, <3>1, <3>2
  <2>5. entries[i] = entry
    BY <1>3 DEF entry, interface
  <2> QED BY <2>2, <2>3, <2>4, <2>5 DEF AddressOf
<1> HIDE DEF entries, n
<1>5. D \in SUBSET Words
  BY <1>3, <1>4
<1>6. Words \in SUBSET Nat /\ \A w \in Words : w <= 65535
  BY DEF Words
<1>7. IsFiniteSet(D) /\ D \in SUBSET Nat
  <2> HIDE DEF D
  <2>1. D \in SUBSET Nat /\ \A w \in D : w <= 65535
    BY <1>5, <1>6
  <2> QED BY <2>1, FS_BoundedSetOfNaturals
<1>8. ASSUME NEW key \in D PROVE HasHost(last(key))
  <2> DEFINE at == {i \in 1 .. Len(entries) : AddressOf(entries[i]) = key}
             k == CHOOSE i \in at : \A j \in at : j <= i
  <2>1. at # {} /\ at \in SUBSET (1 .. n)
    BY <1>3
  <2>2. \E i \in at : \A j \in at : j <= i
    <3> HIDE DEF at
    <3> QED BY <1>1, <2>1, Greatest
  <2>3. k \in at
    <3> HIDE DEF at
    <3> QED BY <2>2
  <2>4. last(key) = entries[k]
    BY DEF LastOf
  <2> HIDE DEF k
  <2>5. k \in 1 .. n
    BY <2>1, <2>3
  <2> HIDE DEF last
  <2> QED BY <1>4, <2>4, <2>5
<1> HIDE DEF D, last
<1> QED BY <1>2, <1>5, <1>7, <1>8

\* The lines the choice is made from.
LinesOf(detailed, simple) ==
    IF detailed # <<>>
    THEN [i \in 1 .. Len(detailed) |->
            [host |-> detailed[i][1].host, ia |-> detailed[i][1].ia,
             tunnelling |-> detailed[i][1].type = "tunnelling"]]
    ELSE [i \in 1 .. Len(simple) |->
            [host |-> simple[i][1].host, ia |-> simple[i][1].ia, tunnelling |-> TRUE]]

\* All lines of the peer show one address, which has its area: the interfaces of
\* that device are taken.
LEMMA PeerIsTaken ==
    ASSUME NEW detailed, NEW simple, NEW lines, lines = LinesOf(detailed, simple),
           Len(lines) \in Nat, NEW own, IsAddress(own), HostedBy(own) # {},
           NEW k \in 1 .. Len(lines), lines[k].host = Peer, lines[k].tunnelling,
           \A i \in 1 .. Len(lines) : lines[i].host = Peer => lines[i].ia = own
    PROVE  SecureGetIaCandidates(detailed, simple, Ring, Peer)[1] \in HostedBy(own)
<1> DEFINE first(at) == IF at = {} THEN <<>>
                        ELSE lines[CHOOSE i \in at : \A j \in at : i <= j].ia
           here == {i \in 1 .. Len(lines) : lines[i].host = Peer /\ lines[i].tunnelling}
           exact == first(here)
           hostIa == IF exact # <<>> THEN exact
                     ELSE first({i \in 1 .. Len(lines) : lines[i].host[1] = Peer[1]})
           hosted == {a \in DOMAIN Ring.interfaces :
                        /\ Ring.interfaces[a].host # <<>>
                        /\ AddressDigits(Ring.interfaces[a].host[1], FALSE) = hostIa}
           candidates == IF hosted # {} THEN hosted
                         ELSE {a \in DOMAIN Ring.interfaces :
                                 Ring.interfaces[a].type = "tunneling"}
<1>1. SecureGetIaCandidates(detailed, simple, Ring, Peer)
        = IF hostIa = <<>> \/ candidates = {} THEN Malformed ELSE Descending(candidates)
  BY DEF SecureGetIaCandidates, LinesOf
<1>2. exact = own
  <2>1. here # {} /\ here \subseteq Nat
    OBVIOUS
  <2> DEFINE l == CHOOSE i \in here : \A j \in here : i <= j
  <2>2. \E i \in here : \A j \in here : i <= j
    <3> HIDE DEF here
    <3> QED BY <2>1, Least
  <2>3. l \in here
    <3> HIDE DEF here
    <3> QED BY <2>2
  <2>4. exact = lines[l].ia
    <3> HIDE DEF here
    <3> QED BY <2>1
  <2> HIDE DEF l, exact
  <2> QED BY <2>3, <2>4
<1>3. Len(own) = 3 /\ AddressIs(own)
  BY AddressIsWord DEF IsAddress
<1>4. hostIa = own /\ own # <<>>
  <2>1. own # <<>>
    BY <1>3
  <2> HIDE DEF exact
  <2> QED BY <1>2, <2>1
<1> HIDE DEF hostIa
<1>5. hosted = HostedBy(own)
  <2> SUFFICES ASSUME NEW a \in DOMAIN Ring.interfaces
               PROVE  (/\ Ring.interfaces[a].host # <<>>
                       /\ AddressDigits(Ring.interfaces[a].host[1], FALSE) = hostIa)
                        <=> Ring.interfaces[a].host = <<IndividualAddress(own)>>
    BY DEF HostedBy
  <2> DEFINE host == Ring.interfaces[a].host
  <2>1. host = <<>> \/ \E digits : IsAddress(digits) /\ host = <<IndividualAddress(digits)>>
    BY RingIs DEF HasHost
  <2> HIDE DEF host
  <2>2. CASE host = <<>>
    BY <2>2 DEF host
  <2>3. ASSUME NEW digits, IsAddress(digits), host = <<IndividualAddress(digits)>>
        PROVE  (host # <<>> /\ AddressDigits(host[1], FALSE) = own)
                 <=> host = <<IndividualAddress(own)>>
    <3> DEFINE x == IndividualAddress(digits)
               y == IndividualAddress(own)
    <3>1. AddressIs(digits)
      BY <2>3, AddressIsWord
    <3>2. AddressDigits(x, FALSE) = digits /\ AddressDigits(y, FALSE) = own
      BY <1>3, <3>1 DEF AddressIs
    <3>3. digits = own => x = y
      OBVIOUS
    <3> HIDE DEF x, y
    <3>4. digits = own <=> x = y
      BY <3>2, <3>3
    <3>5. host # <<>> /\ host[1] = x /\ (host = <<y>> <=> x = y)
      BY <2>3 DEF x
    <3> QED BY <3>2, <3>4, <3>5 DEF y
  <2> QED BY <1>4, <2>1, <2>2, <2>3 DEF host
<1> HIDE DEF hosted
<1>6. candidates = HostedBy(own)
  BY <1>5
<1> HIDE DEF candidates
<1>7. SecureGetIaCandidates(detailed, simple, Ring, Peer) = Descending(HostedBy(own))
  BY <1>1, <1>4, <1>6
<1>8. HostedBy(own) \in SUBSET Nat /\ IsFiniteSet(HostedBy(own))
  <2>1. HostedBy(own) \in SUBSET (DOMAIN Ring.interfaces)
    BY DEF HostedBy
  <2>2. DOMAIN Ring.interfaces \in SUBSET Nat /\ IsFiniteSet(DOMAIN Ring.interfaces)
    BY RingIs
  <2> QED BY <2>1, <2>2, FS_Subset
<1>9. Descending(HostedBy(own))[1] \in HostedBy(own)
  BY <1>8, DescendingFirst
<1> QED BY <1>7, <1>9

\* The devices at the peer have one address.
AtPeer(E, own) ==
    /\ \E e \in E : e.host = Peer
    /\ \A e \in E : e.host = Peer => e.ia = own /\ e.type = "tunnelling"

\* HostsAssumption says so of the devices heard.
LEMMA PeerIsOne ==
    ASSUME NEW H, H \subseteq Answers, NEW e \in EntriesIn(H), e.host = Peer, e.of.ia[1] # 0
    PROVE  AtPeer(EntriesIn(H), e.of.ia) /\ IsAddress(e.of.ia)
<1>1. ASSUME NEW x \in EntriesIn(H), x.host = Peer
      PROVE  /\ x.of \in Answers /\ x.type = "tunnelling" /\ x.ia = Shown(x.of)
             /\ <<x.of.ip, Port(x.of)>> = Peer
  <2>1. PICK a \in H : x \in EntriesOf(a)
    BY DEF EntriesIn
  <2>2. x = Tunnel(a) \/ x = Routing(a)
    BY <2>1 DEF EntriesOf
  <2>3. x # Routing(a)
    <3>1. Routing(a).host = RoutingHost
      BY DEF Routing
    <3>2. Peer[1] # RoutingHost[1]
      BY PeerAssumption
    <3> QED BY <1>1, <3>1, <3>2
  <2>4. x = Tunnel(a) /\ a \in Answers
    BY <2>2, <2>3
  <2>5. x.of = a /\ x.host = <<a.ip, Port(a)>> /\ x.ia = Shown(a) /\ x.type = "tunnelling"
    BY <2>4 DEF Tunnel
  <2> QED BY <1>1, <2>4, <2>5
<1>2. e.of \in Answers /\ <<e.of.ip, Port(e.of)>> = Peer
  BY <1>1
<1>3. ASSUME NEW x \in EntriesIn(H), x.host = Peer PROVE x.ia = e.of.ia /\ x.type = "tunnelling"
  <2>1. /\ x.of \in Answers /\ x.type = "tunnelling" /\ x.ia = Shown(x.of)
        /\ <<x.of.ip, Port(x.of)>> = Peer
    BY <1>1, <1>3
  <2>2. x.of.ia = e.of.ia
    <3>1. <<x.of.ip, Port(x.of)>> = <<e.of.ip, Port(e.of)>>
      BY <1>2, <2>1
    <3> QED BY <1>2, <2>1, <3>1, HostsAssumption
  <2>3. Shown(x.of) = e.of.ia
    BY <2>2 DEF Shown
  <2> QED BY <2>1, <2>3
<1>4. IsAddress(e.of.ia)
  BY <1>2, AnswersAreDevices DEF IsDevice
<1> QED BY <1>3, <1>4 DEF AtPeer

\* The lines of discoverDetailed lead to an interface of the peer.
LEMMA DetailedTakes ==
    ASSUME NEW E, NEW K, NEW m, Listed(m, {LineOf(e) : e \in E}, K, {TRUE}),
           NEW own, AtPeer(E, own), IsAddress(own), HostedBy(own) # {}
    PROVE  SecureGetIaCandidates(m, <<>>, Ring, Peer)[1] \in HostedBy(own)
<1> DEFINE lines == LinesOf(m, <<>>)
<1>1. Len(m) \in Nat /\ Keys(m) = {LineOf(e) : e \in E}
  BY DEF Listed
<1>2. PICK e \in E : e.host = Peer
  BY DEF AtPeer
<1>3. PICK k \in 1 .. Len(m) : m[k][1] = LineOf(e)
  BY <1>1 DEF Keys
<1>4. lines = [i \in 1 .. Len(m) |->
                 [host |-> m[i][1].host, ia |-> m[i][1].ia,
                  tunnelling |-> m[i][1].type = "tunnelling"]]
  <2>1. m # <<>>
    BY <1>3
  <2> QED BY <2>1 DEF LinesOf
<1> HIDE DEF lines
<1>5. Len(lines) = Len(m) /\ Len(lines) \in Nat
  BY <1>1, <1>4
<1>6. ASSUME NEW i \in 1 .. Len(lines)
      PROVE  \E x \in E : /\ lines[i].host = x.host /\ lines[i].ia = x.ia
                          /\ lines[i].tunnelling = (x.type = "tunnelling")
  <2>1. PICK x \in E : m[i][1] = LineOf(x)
    BY <1>1, <1>5 DEF Keys
  <2>2. /\ LineOf(x).host = x.host /\ LineOf(x).ia = x.ia /\ LineOf(x).type = x.type
    BY DEF LineOf
  <2>3. lines[i] = [host |-> m[i][1].host, ia |-> m[i][1].ia,
                    tunnelling |-> m[i][1].type = "tunnelling"]
    BY <1>4, <1>5
  <2>4. /\ lines[i].host = m[i][1].host /\ lines[i].ia = m[i][1].ia
        /\ lines[i].tunnelling = (m[i][1].type = "tunnelling")
    BY <2>3
  <2> QED BY <2>1, <2>2, <2>4
<1>7. lines[k].host = Peer /\ lines[k].tunnelling
  <2>1. e.type = "tunnelling"
    BY <1>2 DEF AtPeer
  <2>2. LineOf(e).host = Peer /\ LineOf(e).type = "tunnelling"
    BY <1>2, <2>1 DEF LineOf
  <2>3. lines[k] = [host |-> m[k][1].host, ia |-> m[k][1].ia,
                    tunnelling |-> m[k][1].type = "tunnelling"]
    BY <1>4
  <2>4. lines[k].host = m[k][1].host /\ lines[k].tunnelling = (m[k][1].type = "tunnelling")
    BY <2>3
  <2> QED BY <1>3, <2>2, <2>4
<1>8. \A i \in 1 .. Len(lines) : lines[i].host = Peer => lines[i].ia = own
  BY <1>6 DEF AtPeer
<1> QED BY <1>5, <1>7, <1>8, PeerIsTaken DEF lines

\* Those of discover do too.
LEMMA DiscoverTakes ==
    ASSUME NEW E, NEW K, NEW m, Collected(m, E, K),
           NEW own, AtPeer(E, own), IsAddress(own), HostedBy(own) # {}
    PROVE  SecureGetIaCandidates(<<>>, m, Ring, Peer)[1] \in HostedBy(own)
<1> DEFINE lines == LinesOf(<<>>, m)
<1>1. Len(m) \in Nat /\ Keys(m) = {BaseOf(e) : e \in E}
  BY DEF Collected
<1>2. PICK e \in E : e.host = Peer
  BY DEF AtPeer
<1>3. PICK k \in 1 .. Len(m) : m[k][1] = BaseOf(e)
  BY <1>1 DEF Keys
<1>4. lines = [i \in 1 .. Len(m) |->
                 [host |-> m[i][1].host, ia |-> m[i][1].ia, tunnelling |-> TRUE]]
  BY DEF LinesOf
<1> HIDE DEF lines
<1>5. Len(lines) = Len(m) /\ Len(lines) \in Nat
  BY <1>1, <1>4
<1>6. ASSUME NEW i \in 1 .. Len(lines)
      PROVE  \E x \in E : lines[i].host = x.host /\ lines[i].ia = x.ia
  <2>1. PICK x \in E : m[i][1] = BaseOf(x)
    BY <1>1, <1>5 DEF Keys
  <2>2. BaseOf(x).host = x.host /\ BaseOf(x).ia = x.ia
    BY DEF BaseOf
  <2>3. lines[i] = [host |-> m[i][1].host, ia |-> m[i][1].ia, tunnelling |-> TRUE]
    BY <1>4, <1>5
  <2> QED BY <2>1, <2>2, <2>3
<1>7. lines[k].host = Peer /\ lines[k].tunnelling
  BY <1>2, <1>3, <1>4 DEF BaseOf
<1>8. \A i \in 1 .. Len(lines) : lines[i].host = Peer => lines[i].ia = own
  BY <1>6 DEF AtPeer
<1> QED BY <1>5, <1>7, <1>8, PeerIsTaken DEF lines

-----------------------------------------------------------------------------
(* The three calls, in the system *)

\* The keys and values of the results, over all devices.
BasesOfAll == {BaseOf(e) : e \in EntriesIn(Answers)}

LinesOfAll == {LineOf(e) : e \in EntriesIn(Answers)}

ServicesOfAll == {ServiceOf(e) : e \in EntriesIn(Answers)}

OffersOfAll == UNION {Offered(a, Transports) : a \in Answers}

\* What a call has collected of the answers it has heard.
CollectedBy(which, H, m) ==
    /\ which = "none" => m = <<>>
    /\ which = "discover" => Collected(m, EntriesIn(H), BasesOfAll)
    /\ which = "detailed" =>
         Listed(m, {LineOf(e) : e \in EntriesIn(H)}, LinesOfAll, {TRUE})
    /\ which = "interfaces" =>
         Listed(m, {ServiceOf(e) : e \in EntriesIn(H)}, ServicesOfAll, OffersOfAll)

DiscoveryInv ==
    /\ heard \subseteq Answers
    /\ call \in {"none", "discover", "detailed", "interfaces"}
    /\ CollectedBy(call, heard, results)

\* Before the first answer nothing has been collected.
LEMMA NothingCollected == \A which : CollectedBy(which, {}, <<>>)
<1>1. EntriesIn({}) = {}
  BY DEF EntriesIn
<1>2. \A K, V : <<>> \in Seq(K \X V) /\ Distinct(<<>>) /\ Keys(<<>>) = {} /\ Pairs(<<>>) = {}
  BY DEF Distinct, Keys, Pairs
<1>3. \A K : Collected(<<>>, {}, K)
  BY <1>2 DEF Collected
<1>4. \A K, V : Listed(<<>>, {}, K, V)
  BY <1>2 DEF Listed
<1> QED BY <1>1, <1>3, <1>4 DEF CollectedBy

\* One more answer, and each of the calls has collected it.
LEMMA AnswerCollected ==
    ASSUME NEW H, H \subseteq Answers, NEW a \in Answers, NEW m, NEW sr, IsAnswer(sr, a)
    PROVE  /\ CollectedBy("discover", H, m) =>
                CollectedBy("discover", H \cup {a}, AddResultsFromSearch(m, HostOf(a.ip, sr), sr))
           /\ CollectedBy("detailed", H, m) =>
                CollectedBy("detailed", H \cup {a}, PushDetailed(m, HostOf(a.ip, sr), sr))
           /\ CollectedBy("interfaces", H, m) =>
                CollectedBy("interfaces", H \cup {a}, PushInterface(m, HostOf(a.ip, sr), sr))
<1>1. EntriesIn(H \cup {a}) = EntriesIn(H) \cup EntriesOf(a)
  BY EntriesGrow
<1>2. \A e \in EntriesOf(a) : e \in EntriesIn(Answers)
  BY DEF EntriesIn
<1>3. /\ \A e \in EntriesOf(a) : BaseOf(e) \in BasesOfAll
      /\ \A e \in EntriesOf(a) : LineOf(e) \in LinesOfAll
      /\ \A e \in EntriesOf(a) : ServiceOf(e) \in ServicesOfAll
  BY <1>2 DEF BasesOfAll, LinesOfAll, ServicesOfAll
<1>4. Offered(a, Transports) \subseteq OffersOfAll
  BY DEF OffersOfAll
<1>5. a.ip # RoutingHost[1]
  BY AnswersAreDevices DEF IsDevice
<1> DEFINE E == EntriesIn(H)
<1>6. Collected(m, E, BasesOfAll) =>
        Collected(AddResultsFromSearch(m, HostOf(a.ip, sr), sr), E \cup EntriesOf(a), BasesOfAll)
  <2> HIDE DEF E
  <2> QED BY <1>3, <1>5, DiscoverAdds
<1>7. Listed(m, {LineOf(e) : e \in E}, LinesOfAll, {TRUE}) =>
        Listed(PushDetailed(m, HostOf(a.ip, sr), sr), {LineOf(e) : e \in E \cup EntriesOf(a)},
               LinesOfAll, {TRUE})
  <2> HIDE DEF E
  <2> QED BY <1>3, DetailedAdds
<1>8. Listed(m, {ServiceOf(e) : e \in E}, ServicesOfAll, OffersOfAll) =>
        Listed(PushInterface(m, HostOf(a.ip, sr), sr), {ServiceOf(e) : e \in E \cup EntriesOf(a)},
               ServicesOfAll, OffersOfAll)
  <2> HIDE DEF E
  <2> QED BY <1>3, <1>4, InterfacesAdd
<1>9. CollectedBy("discover", H, m) =>
        CollectedBy("discover", H \cup {a}, AddResultsFromSearch(m, HostOf(a.ip, sr), sr))
  BY <1>1, <1>6 DEF CollectedBy
<1>10. CollectedBy("detailed", H, m) =>
         CollectedBy("detailed", H \cup {a}, PushDetailed(m, HostOf(a.ip, sr), sr))
  BY <1>1, <1>7 DEF CollectedBy
<1>11. CollectedBy("interfaces", H, m) =>
         CollectedBy("interfaces", H \cup {a}, PushInterface(m, HostOf(a.ip, sr), sr))
  BY <1>1, <1>8 DEF CollectedBy
<1> QED BY <1>9, <1>10, <1>11

\* Every step keeps what a call has collected.
LEMMA DiscoveryStep == DiscoveryInv /\ [Next]_vars => DiscoveryInv'
<1> SUFFICES ASSUME DiscoveryInv, [Next]_vars PROVE DiscoveryInv'
  OBVIOUS
<1>1. ASSUME UNCHANGED discovery PROVE DiscoveryInv'
  BY <1>1 DEF DiscoveryInv, discovery
<1>2. ASSUME NEW which \in {"discover", "detailed", "interfaces"}, Start(which) PROVE DiscoveryInv'
  BY <1>2, NothingCollected DEF DiscoveryInv, Start
<1>3. ASSUME NEW a \in Answers, Discover(a) \/ DiscoverDetailed(a) \/ DiscoverInterfaces(a)
      PROVE  DiscoveryInv'
  <2> DEFINE sr == Answer(a)
  <2>1. IsAnswer(sr, a)
    BY AnswersAreRead
  <2>2. heard \subseteq Answers /\ CollectedBy(call, heard, results)
    BY DEF DiscoveryInv
  <2>3. CASE Discover(a)
    <3>1. /\ call = "discover" /\ heard' = heard \cup {a} /\ call' = call
          /\ results' = AddResultsFromSearch(results, HostOf(a.ip, sr), sr)
      BY <2>3 DEF Discover, Hears
    <3> HIDE DEF sr
    <3>2. CollectedBy("discover", heard', results')
      BY <2>1, <2>2, <3>1, AnswerCollected
    <3> QED BY <2>2, <3>1, <3>2 DEF DiscoveryInv
  <2>4. CASE DiscoverDetailed(a)
    <3>1. /\ call = "detailed" /\ heard' = heard \cup {a} /\ call' = call
          /\ results' = PushDetailed(results, HostOf(a.ip, sr), sr)
      BY <2>4 DEF DiscoverDetailed, Hears
    <3> HIDE DEF sr
    <3>2. CollectedBy("detailed", heard', results')
      BY <2>1, <2>2, <3>1, AnswerCollected
    <3> QED BY <2>2, <3>1, <3>2 DEF DiscoveryInv
  <2>5. CASE DiscoverInterfaces(a)
    <3>1. /\ call = "interfaces" /\ heard' = heard \cup {a} /\ call' = call
          /\ results' = PushInterface(results, HostOf(a.ip, sr), sr)
      BY <2>5 DEF DiscoverInterfaces, Hears
    <3> HIDE DEF sr
    <3>2. CollectedBy("interfaces", heard', results')
      BY <2>1, <2>2, <3>1, AnswerCollected
    <3> QED BY <2>2, <3>1, <3>2 DEF DiscoveryInv
  <2> QED BY <1>3, <2>3, <2>4, <2>5
<1>4. ASSUME NEW password, ConnectSecure(password) PROVE DiscoveryInv'
  BY <1>4, NothingCollected DEF ConnectSecure, DiscoveryInv
<1>5. ASSUME NEW password, ConnectSecureRouting(password) PROVE DiscoveryInv'
  BY <1>1, <1>5 DEF ConnectSecureRouting
<1>6. ASSUME NEW protocol, Connect(protocol) PROVE DiscoveryInv'
  BY <1>1, <1>6 DEF Connect
<1>7. ASSUME NEW i, Send(i) PROVE DiscoveryInv'
  BY <1>1, <1>7 DEF Send, SendPacket, SendFrom, SendsOctets
<1>8. ASSUME NEW i, SendControl(i) PROVE DiscoveryInv'
  BY <1>1, <1>8 DEF SendControl, SendsOctets
<1>9. ASSUME DeliverDatagram PROVE DiscoveryInv'
  BY <1>1, <1>9 DEF DeliverDatagram, Delivers
<1>10. ASSUME NEW n, DeliverTcp(n) PROVE DiscoveryInv'
  BY <1>1, <1>10 DEF DeliverTcp, Delivers
<1>11. ASSUME NEW n, DeliverSerial(n) PROVE DiscoveryInv'
  BY <1>1, <1>11 DEF DeliverSerial, Delivers
<1>12. CASE UNCHANGED vars
  BY <1>1, <1>12 DEF vars
<1> QED BY <1>2, <1>3, <1>4, <1>5, <1>6, <1>7, <1>8, <1>9, <1>10, <1>11, <1>12 DEF Next

\* An entry of discover says what its answers said.
SaidBy(v, k, about) ==
    /\ v.secure = \E a \in about : a.extended /\ a.secured # <<>>
    /\ (v.transport = "TCP")
         = (/\ k.host[1] # RoutingHost[1]
            /\ \E a \in about : a.extended /\ a.secured # <<>> /\ 4 \in ToSet(a.secured[1]))

\* So an entry of discover says what was said of it.
LEMMA SaysAll ==
    ASSUME NEW E, NEW v, NEW k, Says(v, E, k), NEW about,
           about = {e.of : e \in {x \in E : BaseOf(x) = k}}
    PROVE  SaidBy(v, k, about)
<1>1. (\E a \in about : a.extended /\ a.secured # <<>>) <=> SecureAt(E, k)
  BY DEF SecureAt, SecuredBy
<1>2. (/\ k.host[1] # RoutingHost[1]
       /\ \E a \in about : a.extended /\ a.secured # <<>> /\ 4 \in ToSet(a.secured[1]))
        <=> TcpAt(E, k)
  BY DEF TcpAt, TcpBy
<1> DEFINE s == \E a \in about : a.extended /\ a.secured # <<>>
           t == /\ k.host[1] # RoutingHost[1]
                /\ \E a \in about : a.extended /\ a.secured # <<>> /\ 4 \in ToSet(a.secured[1])
<1>3. s \in BOOLEAN /\ t \in BOOLEAN
  OBVIOUS
<1>4. (s <=> SecureAt(E, k)) /\ (t <=> TcpAt(E, k))
  BY <1>1, <1>2
<1> HIDE DEF s, t
<1>5. s = SecureAt(E, k) /\ t = TcpAt(E, k)
  BY <1>3, <1>4, AreBoolean, Zenon
<1>6. v.secure = s /\ (v.transport = "TCP") = t
  BY <1>5, Zenon DEF Says
<1> QED BY <1>6, Zenon DEF s, t, SaidBy

\* What has been collected is what DiscoveryConverges asks for.
LEMMA DiscoveryInvSuffices == DiscoveryInv => DiscoveryConverges
<1> SUFFICES ASSUME DiscoveryInv PROVE DiscoveryConverges
  OBVIOUS
<1> DEFINE E == EntriesIn(heard)
           keysOf == {results[i][1] : i \in 1 .. Len(results)}
           secured(a, family) ==
             a.extended /\ a.secured # <<>> /\ family \in ToSet(a.secured[1])
           base(e) == [host |-> e.host, name |-> e.name, ia |-> e.ia]
           about(key) == {e.of : e \in {x \in Entries : base(x) = key}}
<1>1. Entries = E
  BY EntriesAre
<1>2. /\ heard \subseteq Answers /\ call \in {"none", "discover", "detailed", "interfaces"}
      /\ CollectedBy(call, heard, results)
  BY DEF DiscoveryInv
<1>3. keysOf = Keys(results)
  BY DEF Keys
<1>4. ASSUME call = "discover"
      PROVE  /\ keysOf = {base(e) : e \in Entries}
             /\ \A i \in 1 .. Len(results) : LET r == results[i] IN
                  /\ r[2].secure = \E a \in about(r[1]) : a.extended /\ a.secured # <<>>
                  /\ (r[2].transport = "TCP")
                        = (/\ r[1].host[1] # RoutingHost[1]
                           /\ \E a \in about(r[1]) : secured(a, 4))
  <2>1. Collected(results, E, BasesOfAll)
    BY <1>2, <1>4 DEF CollectedBy
  <2>2. Keys(results) = {BaseOf(e) : e \in E}
    BY <2>1 DEF Collected
  <2>3. {base(e) : e \in Entries} = {BaseOf(e) : e \in E}
    BY <1>1 DEF BaseOf
  <2>4. ASSUME NEW i \in 1 .. Len(results)
        PROVE  /\ results[i][2].secure
                    = \E a \in about(results[i][1]) : a.extended /\ a.secured # <<>>
               /\ (results[i][2].transport = "TCP")
                    = (/\ results[i][1].host[1] # RoutingHost[1]
                       /\ \E a \in about(results[i][1]) : secured(a, 4))
    <3>1. Says(results[i][2], E, results[i][1])
      BY <2>1 DEF Collected, Pairs
    <3>2. about(results[i][1]) = {e.of : e \in {x \in E : BaseOf(x) = results[i][1]}}
      BY <1>1 DEF BaseOf
    <3> HIDE DEF about, E
    <3>3. SaidBy(results[i][2], results[i][1], about(results[i][1]))
      BY <3>1, <3>2, SaysAll
    <3> QED BY <3>3, Zenon DEF SaidBy
  <2> HIDE DEF keysOf, about, E
  <2> QED BY <1>3, <2>2, <2>3, <2>4
<1>5. ASSUME call = "detailed"
      PROVE  keysOf = {[host |-> e.host, name |-> e.name, ia |-> e.ia,
                        services |-> e.of.families, type |-> e.type] : e \in Entries}
  <2>1. Keys(results) = {LineOf(e) : e \in E}
    BY <1>2, <1>5 DEF CollectedBy, Listed
  <2> HIDE DEF keysOf
  <2> QED BY <1>1, <1>3, <2>1 DEF LineOf
<1>6. ASSUME call = "interfaces"
      PROVE  keysOf = {<<e.host, e.type>> : e \in Entries}
  <2>1. Keys(results) = {ServiceOf(e) : e \in E}
    BY <1>2, <1>6 DEF CollectedBy, Listed
  <2> HIDE DEF keysOf
  <2> QED BY <1>1, <1>3, <2>1 DEF ServiceOf
<1>7. Cardinality(keysOf) = Len(results)
  <2>1. \E K, V : results \in Seq(K \X V) /\ Distinct(results)
    <3>1. CASE call = "none"
      <4>1. results = <<>>
        BY <1>2, <3>1 DEF CollectedBy
      <4> QED BY <4>1 DEF Distinct
    <3>2. CASE call = "discover"
      BY <1>2, <3>2 DEF CollectedBy, Collected
    <3>3. CASE call = "detailed"
      BY <1>2, <3>3 DEF CollectedBy, Listed
    <3>4. CASE call = "interfaces"
      BY <1>2, <3>4 DEF CollectedBy, Listed
    <3> QED BY <1>2, <3>1, <3>2, <3>3, <3>4
  <2> HIDE DEF keysOf
  <2> QED BY <1>3, <2>1, KeysCount
<1>8. ASSUME call \in {"discover", "detailed"}, NEW e \in Entries, e.host = Peer, e.of.ia[1] # 0,
             HostedBy(e.of.ia) # {}
      PROVE  Candidates[1] \in HostedBy(e.of.ia)
  <2> DEFINE own == e.of.ia
  <2>1. AtPeer(E, own) /\ IsAddress(own)
    BY <1>1, <1>2, <1>8, PeerIsOne
  <2> HIDE DEF own, E
  <2>2. HostedBy(own) # {}
    BY <1>8 DEF own
  <2>3. CASE call = "discover"
    <3>1. Collected(results, E, BasesOfAll)
      BY <1>2, <2>3 DEF CollectedBy, E
    <3>2. Candidates = SecureGetIaCandidates(<<>>, results, Ring, Peer)
      BY <2>3 DEF Candidates
    <3> QED BY <2>1, <2>2, <3>1, <3>2, DiscoverTakes DEF own
  <2>4. CASE call = "detailed"
    <3>1. Listed(results, {LineOf(x) : x \in E}, LinesOfAll, {TRUE})
      BY <1>2, <2>4 DEF CollectedBy, E
    <3>2. Candidates = SecureGetIaCandidates(results, <<>>, Ring, Peer)
      BY <2>4 DEF Candidates
    <3> QED BY <2>1, <2>2, <3>1, <3>2, DetailedTakes DEF own
  <2> QED BY <1>8, <2>3, <2>4
<1>9. \A peer \in PeersFound :
        peer[1] # 0 /\ HostedBy(peer) # {} => Candidates[1] \in HostedBy(peer)
  <2>1. CASE call \in {"discover", "detailed"}
    BY <1>8, <2>1 DEF PeersFound
  <2>2. CASE call \notin {"discover", "detailed"}
    BY <2>2 DEF PeersFound
  <2> QED BY <2>1, <2>2
<1> HIDE DEF E
<1> QED BY <1>4, <1>5, <1>6, <1>7, <1>9 DEF DiscoveryConverges

\* What discovery collects does not depend on the order of the answers nor on
\* their repetition, and the secure client takes an interface of its peer
\* (DiscoveryConverges), whatever the devices, the keyring and the peer are.
THEOREM DiscoveryAlwaysConverges == Spec => []DiscoveryConverges
<1>1. Init => DiscoveryInv
  BY NothingCollected DEF Init, DiscoveryInv
<1>2. DiscoveryInv /\ [Next]_vars => DiscoveryInv'
  BY DiscoveryStep
<1>3. DiscoveryInv => DiscoveryConverges
  BY DiscoveryInvSuffices
<1> QED BY <1>1, <1>2, <1>3, PTL DEF Spec

-----------------------------------------------------------------------------
(* The telegram of a call *)

\* The octets of a call, in the fields of a telegram.
Conveys(npdu, c) ==
    /\ npdu \in NPDUFields /\ npdu.tpci = 0 /\ Len(FlattenSeq(npdu.data)) <= 241
    /\ Action(npdu) = Service(c) /\ DataValue(npdu) = Content(c)

\* The client of the conversation is one that sends.
LEMMA ClientIs ==
    ASSUME transport \in Protocols, Len(sent) \in Octet
    PROVE  /\ Client \in Senders /\ Client.physAddr = 65535 /\ Client.channelID = 9
           /\ Client.seq = Len(sent)
           /\ Client.hostProtocol = IF transport = "SecureMulticast" THEN "Multicast" ELSE transport
<1> DEFINE host == IF transport = "SecureMulticast" THEN "Multicast" ELSE transport
           n == Len(sent)
<1>1. host \in {"TunnelUDP", "TunnelTCP", "Multicast", "SerialFT12"}
  BY DEF Protocols
<1>2. 65535 \in Words /\ 9 \in Octet /\ FALSE \in BOOLEAN
  BY OctetIs DEF Words
<1> HIDE DEF host, n
<1>3. Client = [hostProtocol |-> host, suppress |-> FALSE, physAddr |-> 65535, channelID |-> 9,
                seq |-> n]
  BY DEF Client, host, n
<1>4. n \in Octet
  BY DEF n
<1>5. Client \in Senders
  BY <1>1, <1>2, <1>3, <1>4 DEF Senders
<1> QED BY <1>3, <1>5 DEF host, n

\* A group of three numbers has one number, in packets and in the keyring, which
\* gives the three back.
LEMMA GroupIs ==
    ASSUME NEW dst \in Seq(Nat), Len(dst) = 3, ValidAddress(dst, TRUE)
    PROVE  /\ AddressNumber(dst, TRUE) = GroupAddress(dst) /\ GroupAddress(dst) \in Words
           /\ AddressDigits(GroupAddress(dst), TRUE) = dst
<1> DEFINE x == dst[1]
           y == dst[2]
           z == dst[3]
<1>1. x \in Nat /\ y \in Nat /\ z \in Nat /\ dst = <<x, y, z>>
  BY TripleIs
<1>3. x <= 31 /\ y <= 7 /\ z <= 255
  <2> DEFINE limits == <<31, 7, 255>>
  <2>1. \A i \in 1 .. Len(dst) : dst[i] <= limits[i]
    BY DEF ValidAddress
  <2>2. 1 \in 1 .. Len(dst) /\ 2 \in 1 .. Len(dst) /\ 3 \in 1 .. Len(dst)
    OBVIOUS
  <2>3. dst[1] <= limits[1] /\ dst[2] <= limits[2] /\ dst[3] <= limits[3]
    BY <2>1, <2>2
  <2> QED BY <2>3
<1>4. z + 256 * y + x * 2048 = 2048 * x + 256 * y + z
  <2> HIDE DEF x, y, z
  <2> QED BY <1>1
<1>6. AddressNumber(dst, TRUE) = GroupAddress(dst)
  BY <1>1, <1>4 DEF AddressNumber, GroupAddress
<1> HIDE DEF x, y, z
<1>7. /\ AddressNumber(<<x, y, z>>, TRUE) \in Words
      /\ AddressDigits(AddressNumber(<<x, y, z>>, TRUE), TRUE) = <<x, y, z>>
  BY <1>1, <1>3, AddressesAreRead
<1>8. dst = <<x, y, z>>
  BY <1>1
<1> HIDE DEF x, y, z
<1> QED BY <1>6, <1>7, <1>8

\* What the application has asked for, in the telegram that its call makes.
CallMakes(c, packet) ==
    \E npdu, ack :
        /\ Conveys(npdu, c) /\ ack \in 0 .. 1
        /\ packet = PacketWith(Client, Telegram(CodeFor(Client), ack, 6, 65535,
                                                GroupAddress(c.dst), npdu))

\* What a receiver reads of a call that has octets to send: those octets.
Bears(c, octets) == IsMade(c) /\ octets = Content(c)

\* Of a packet made for a call it is the call that is conveyed.
LEMMA MadeIsCall ==
    ASSUME NEW c, NEW p, Client.physAddr = 65535,
           MadeFrom(p, Client, Service(c), c.dst, Content(c)),
           GroupNumber(c.dst) = GroupAddress(c.dst)
    PROVE  CallMakes(c, p)
<1>1. PICK npdu, ack :
        /\ npdu \in NPDUFields /\ ack \in 0 .. 1
        /\ p = PacketWith(Client, Telegram(CodeFor(Client), ack, 6, Client.physAddr,
                                          GroupNumber(c.dst), npdu))
        /\ npdu.tpci = 0 /\ Len(FlattenSeq(npdu.data)) <= 241 /\ Action(npdu) = Service(c)
        /\ DataValue(npdu) = Content(c)
  BY DEF MadeFrom
<1>2. Conveys(npdu, c)
  BY <1>1 DEF Conveys
<1>3. p = PacketWith(Client, Telegram(CodeFor(Client), ack, 6, 65535, GroupAddress(c.dst), npdu))
  BY <1>1
<1> QED BY <1>1, <1>2, <1>3 DEF CallMakes

\* What the client hands to its transport, for any of the calls.
LEMMA CallIsSent ==
    ASSUME NEW i \in 1 .. Len(Calls), transport \in Protocols, Len(sent) \in Octet,
           PacketOf(Calls[i]) # Malformed
    PROVE  /\ CallMakes(Calls[i], PacketOf(Calls[i])) /\ IsCall(Calls[i])
           /\ Calls[i].dst \in Seq(Nat) /\ Len(Calls[i].dst) = 3 /\ ValidAddress(Calls[i].dst, TRUE)
           /\ Bears(Calls[i], Content(Calls[i]))
<1> DEFINE c == Calls[i]
           p == PacketOf(c)
           content == Content(c)
<1>1. IsCall(c)
  BY ContentAssumption
<1>2. Client \in Senders /\ Client.physAddr = 65535
  BY ClientIs
<1> HIDE DEF c
<1>3. /\ c.dst \in Seq(Nat) /\ Len(c.dst) = 3
      /\ c.method \in {"read", "write", "respond", "writeRaw", "respondRaw"}
  BY <1>1 DEF IsCall
<1>4. p # Malformed
  BY DEF c
<1>5. ValidAddress(c.dst, TRUE)
  BY <1>3, <1>4 DEF PacketOf, Write, Respond, WriteRaw, RespondRaw, Read
<1>6. BusAck(Client) \in 0 .. 1 /\ 0 \in 0 .. 1
  BY DEF BusAck
<1>7. content \in Octets /\ Len(content) \in 1 .. 241 /\ Bears(c, content)
      /\ Len(content) > 0 /\ Len(content) <= 241
  <2> SUFFICES content \in Octets /\ Len(content) \in 1 .. 241 /\ Bears(c, content)
    <3> DEFINE n == Len(content)
    <3>1. n \in 1 .. 241 => n > 0 /\ n <= 241
      <4> HIDE DEF n
      <4> QED OBVIOUS
    <3> QED BY <3>1
  <2>1. CASE c.method \in {"read", "writeRaw", "respondRaw"}
    <3>1. IsMade(c)
      BY <2>1 DEF IsMade
    <3> QED BY <1>1, <2>1, <3>1 DEF IsCall, Octets, Bears
  <2>2. CASE c.method \in {"write", "respond"}
    <3> DEFINE buffer == KNXDataBuffer(c.dpt, c.subtype, c.value)
    <3>1. buffer # Malformed
      BY <1>4, <1>5, <2>2 DEF PacketOf, Write, Respond, With
    <3>2. Resolves(c.dpt, c.subtype)
      BY <3>1 DEF KNXDataBuffer
    <3>3. PopulateAPDU(c.dpt, c.subtype, c.value) # Malformed
      BY <3>1, <3>2 DEF KNXDataBuffer, With
    <3>4. content # Malformed
      BY <2>2, <3>3 DEF Content
    <3>5. IsMade(c)
      BY <3>2, <3>4 DEF IsMade
    <3> QED BY <1>1, <2>2, <3>2, <3>4, <3>5 DEF IsCall, Octets, Bears
  <2> QED BY <1>3, <2>1, <2>2
<1>8. GroupNumber(c.dst) = GroupAddress(c.dst)
  BY <1>3, <1>5, GroupIs DEF GroupNumber
<1>9. ASSUME NEW action \in 0 .. 2, action = Service(c), NEW ack \in 0 .. 1,
             NEW buffer \in {<<>>} \cup {<<b>> : b \in Buffers},
             (IF buffer = <<>> THEN << 0 >> ELSE buffer[1].octets) = content,
             p = GroupPacket(Client, action, c.dst, buffer, ack)
      PROVE  CallMakes(c, p)
  <2>1. ContentOf(buffer) = content
    BY <1>9 DEF ContentOf
  <2> HIDE DEF p, content
  <2>2. Len(ContentOf(buffer)) <= 241
    BY <1>7, <2>1
  <2>3. MadeFrom(GroupPacket(Client, action, c.dst, buffer, ack), Client, action, c.dst,
                 ContentOf(buffer))
    <3>1. Buffered(buffer) /\ action \in 0 .. 2 /\ ack \in 0 .. 1
      BY <1>9 DEF Buffered
    <3>2. IsGroup(c.dst)
      BY <1>3, <1>5 DEF IsGroup
    <3> QED BY <1>2, <2>2, <3>1, <3>2, PacketMade
  <2>4. MadeFrom(p, Client, Service(c), c.dst, Content(c))
    BY <1>9, <2>1, <2>3 DEF content
  <2> QED BY <1>2, <1>8, <2>4, MadeIsCall
<1>10. CallMakes(c, p)
  <2>1. CASE c.method = "read"
    <3>1. p = GroupPacket(Client, 0, c.dst, <<>>, BusAck(Client))
      BY <1>5, <2>1 DEF PacketOf, Read
    <3>2. Service(c) = 0 /\ content = <<0>>
      BY <2>1 DEF Service, Content
    <3> HIDE DEF p, content
    <3> QED BY <1>6, <1>9, <3>1, <3>2
  <2>2. CASE c.method \in {"writeRaw", "respondRaw"}
    <3> DEFINE raw == RawBuffer(c.octets, c.bits)
    <3>1. content = c.octets /\ c.bits \in Nat /\ Len(c.octets) = (c.bits + 7) \div 8
      BY <1>1, <2>2 DEF IsCall, Content
    <3>2. raw \in Buffers /\ raw.octets = content
      <4>1. c.octets \in Octets /\ Len(c.octets) \in 1 .. 241
        BY <1>7, <3>1
      <4> DEFINE bits == c.bits
                 octets == c.octets
      <4>2. bits > 0 /\ bits <= 2032
        <5> DEFINE n == Len(octets)
        <5>1. n \in 1 .. 241 /\ n = (bits + 7) \div 8 /\ bits \in Nat
          BY <3>1, <4>1
        <5> HIDE DEF n, bits
        <5> QED BY <5>1
      <4> HIDE DEF bits, octets
      <4>3. /\ RawBuffer(octets, bits) \in Buffers
            /\ RawBuffer(octets, bits).octets = octets
        <5>1. octets \in Octets /\ bits \in Nat /\ Len(octets) = (bits + 7) \div 8
          BY <3>1, <4>1 DEF octets, bits
        <5> QED BY <4>2, <5>1, RawBuffersFit
      <4> QED BY <3>1, <4>3 DEF bits, octets
    <3> HIDE DEF raw
    <3>3. <<raw>> \in {<<>>} \cup {<<b>> : b \in Buffers} /\ <<raw>> # <<>> /\ <<raw>>[1] = raw
      BY <3>2
    <3>4. CASE c.method = "writeRaw"
      <4>1. p = GroupPacket(Client, 2, c.dst, <<raw>>, BusAck(Client))
        BY <1>5, <3>4 DEF PacketOf, WriteRaw, raw
      <4>2. Service(c) = 2
        BY <3>4 DEF Service
      <4> HIDE DEF p, content
      <4> QED BY <1>6, <1>9, <3>2, <3>3, <4>1, <4>2
    <3>5. CASE c.method = "respondRaw"
      <4>1. p = GroupPacket(Client, 1, c.dst, <<raw>>, 0)
        BY <1>5, <3>5 DEF PacketOf, RespondRaw, raw
      <4>2. Service(c) = 1
        BY <3>5 DEF Service
      <4> HIDE DEF p, content
      <4> QED BY <1>6, <1>9, <3>2, <3>3, <4>1, <4>2
    <3> QED BY <2>2, <3>4, <3>5
  <2>3. CASE c.method \in {"write", "respond"}
    <3> DEFINE buffer == KNXDataBuffer(c.dpt, c.subtype, c.value)
               six == ConfigOf(c.dpt).bits <= 6
    <3>1. buffer # Malformed
      BY <1>4, <1>5, <2>3 DEF PacketOf, Write, Respond, With
    <3>2. content = PopulateAPDU(c.dpt, c.subtype, c.value)
      BY <2>3 DEF Content
    <3>3. buffer = [octets |-> content, sixBits |-> six]
      BY <3>1, <3>2 DEF KNXDataBuffer, With
    <3>4. six \in BOOLEAN
      OBVIOUS
    <3> HIDE DEF six, content
    <3>5. buffer \in Buffers /\ buffer.octets = content
      <4>1. content \in Payloads
        <5>1. \A n \in Nat : n <= 241 => n < 255
          OBVIOUS
        <5>2. Len(content) \in Nat
          BY <1>7 DEF Octets
        <5> QED BY <1>7, <5>1, <5>2 DEF Payloads
      <4> QED BY <3>3, <3>4, <4>1 DEF Buffers
    <3> HIDE DEF buffer
    <3>6. <<buffer>> \in {<<>>} \cup {<<b>> : b \in Buffers} /\ <<buffer>> # <<>>
          /\ <<buffer>>[1] = buffer
      BY <3>5
    <3>7. CASE c.method = "write"
      <4>1. p = GroupPacket(Client, 2, c.dst, <<buffer>>, BusAck(Client))
        BY <1>5, <3>1, <3>7 DEF PacketOf, Write, With, buffer
      <4>2. Service(c) = 2
        BY <3>7 DEF Service
      <4> HIDE DEF p
      <4> QED BY <1>6, <1>9, <3>5, <3>6, <4>1, <4>2
    <3>8. CASE c.method = "respond"
      <4>1. p = GroupPacket(Client, 1, c.dst, <<buffer>>, 0)
        BY <1>5, <3>1, <3>8 DEF PacketOf, Respond, With, buffer
      <4>2. Service(c) = 1
        BY <3>8 DEF Service
      <4> HIDE DEF p
      <4> QED BY <1>6, <1>9, <3>5, <3>6, <4>1, <4>2
    <3> QED BY <2>3, <3>7, <3>8
  <2> QED BY <1>3, <2>1, <2>2, <2>3
<1> HIDE DEF p, content
<1> QED BY <1>1, <1>3, <1>5, <1>7, <1>10 DEF c, p, content

-----------------------------------------------------------------------------
(* What a receiver takes for the telegram of a call *)

\* The interface hands the telegram on with one hop less, as an indication of its own
\* address.
LEMMA BusIs ==
    ASSUME NEW code, NEW ack \in 0 .. 1, NEW src, NEW dst, NEW npdu, NEW source
    PROVE  FromBus(Telegram(code, ack, 6, src, dst, npdu), source)
             = Telegram(L_DATA_IND, ack, 5, source, dst, npdu)
<1> DEFINE t == Telegram(code, ack, 6, src, dst, npdu)
           control == <<188 + 2 * ack, 128 + 16 * 6>>
           new == <<188 + 2 * ack, 128 + 16 * 5>>
<1>1. HasFields(t, code, control, src, dst, npdu)
  BY TelegramHas
<1>2. WithHopCount(control, 5) = new
  BY HopsAndBits
<1> HIDE DEF t, control, new
<1>3. FromBus(t, source) = [t EXCEPT !.msgCode = L_DATA_IND, !.srcAddress = source, !.control = new]
  <2>1. t.control = control
    BY <1>1, FieldsRead
  <2> QED BY <1>2, <2>1 DEF FromBus
<1>4. HasFields([t EXCEPT !.msgCode = L_DATA_IND, !.srcAddress = source, !.control = new],
                L_DATA_IND, new, source, dst, npdu)
  BY <1>1, FieldsChanged
<1> QED BY <1>3, <1>4, SameFields DEF t, new

\* The keys of the receiver are those of the project, where keys matter.
Keyed == transport \in {"TunnelTCP", "SecureMulticast"} => keys = RightKeys

\* A message that a receiver takes for what a call has sent.
Suits(m, c) ==
    /\ m.msgCode = L_DATA_IND /\ m.srcAddress \in Sources(m.dstAddress)
    /\ m.dstAddress = GroupAddress(c.dst)
    /\ IsGroupAddress(m.control) /\ Bits(m.control[1], 2, 2) = 3
    /\ Keyed => Action(m.npdu) = Service(c) /\ Bears(c, DataValue(m.npdu))

\* They address a group, with low priority.
LEMMA ControlIs ==
    ASSUME NEW ack \in 0 .. 1, NEW hop \in {5, 6}
    PROVE  LET control == <<188 + 2 * ack, 128 + 16 * hop>>
           IN  IsGroupAddress(control) /\ Bits(control[1], 2, 2) = 3
<1> DEFINE k == 188 + 2 * ack
           l == 128 + 16 * hop
<1>1. Bits(l, 7, 1) = 1 /\ Bits(k, 2, 2) = 3
  <2>1. l \in {208, 224} /\ k \in {188, 190}
    OBVIOUS
  <2> HIDE DEF k, l
  <2>2. Bits(208, 7, 1) = 1 /\ Bits(224, 7, 1) = 1 /\ Bits(188, 2, 2) = 3 /\ Bits(190, 2, 2) = 3
    BY DEF Bits
  <2> QED BY <2>1, <2>2
<1> HIDE DEF k, l
<1>2. IsGroupAddress(<<k, l>>) /\ Bits(<<k, l>>[1], 2, 2) = 3
  BY <1>1 DEF IsGroupAddress
<1> QED BY <1>2 DEF k, l

\* What a telegram conveys of the call when it arrives.
Conveyed(c, npdu, ack, hop, src, opened) ==
    /\ Conveys(npdu, c) /\ Bears(c, Content(c)) /\ ack \in 0 .. 1 /\ hop \in {5, 6}
    /\ src \in Sources(GroupAddress(c.dst))
    /\ Keyed => SameTelegram(opened, npdu)

\* A telegram that conveys the call, from an address it may have, suits the call.
LEMMA TelegramSuits ==
    ASSUME NEW c, NEW npdu, NEW ack, NEW hop, NEW src, NEW opened,
           Conveyed(c, npdu, ack, hop, src, opened)
    PROVE  Suits(Telegram(L_DATA_IND, ack, hop, src, GroupAddress(c.dst), opened), c)
<1> DEFINE dst == GroupAddress(c.dst)
           control == <<188 + 2 * ack, 128 + 16 * hop>>
           t == Telegram(L_DATA_IND, ack, hop, src, dst, opened)
<1>0. /\ Conveys(npdu, c) /\ Bears(c, Content(c)) /\ ack \in 0 .. 1 /\ hop \in {5, 6}
      /\ src \in Sources(dst) /\ (Keyed => SameTelegram(opened, npdu))
  BY DEF Conveyed
<1>1. HasFields(t, L_DATA_IND, control, src, dst, opened)
  BY TelegramHas
<1>2. IsGroupAddress(control) /\ Bits(control[1], 2, 2) = 3
  BY <1>0, ControlIs
<1> HIDE DEF t, control
<1>3. t.msgCode = L_DATA_IND /\ t.control = control /\ t.srcAddress = src
      /\ t.dstAddress = dst /\ t.npdu = opened
  BY <1>1, FieldsRead
<1>4. Keyed => Action(opened) = Service(c) /\ Bears(c, DataValue(opened))
  BY <1>0 DEF SameTelegram, Conveys
<1> HIDE DEF dst
<1>5. Suits(t, c)
  BY <1>0, <1>2, <1>3, <1>4 DEF Suits, dst
<1> QED BY <1>5 DEF t, dst

\* A receiver takes a telegram off the packet it comes in.
LEMMA RequestIsRead ==
    ASSUME NEW c \in Sendable, NEW channel \in Octet, NEW seq \in Octet
    PROVE  TunnelingRequest(channel, seq, c) # Malformed
<1>1. TunnelingRequest(channel, seq, c)
        \in [service_type : Nat, channelID : Octet, seqCounter : Octet, cEMIMessage : Messages]
  BY SendableIsRead DEF TunnelingRequest, TUNNELING_REQUEST
<1> QED BY <1>1, MalformedAssumption DEF Packets

\* Of a routing indication the receiver takes the telegram.
LEMMA IndicationHeard ==
    ASSUME NEW c \in Sendable
    PROVE  FromDatagram(ToBuffer(RoutingIndication(c))) = <<c>>
<1>1. ParseMessage(ToBuffer(RoutingIndication(c))) = RoutingIndication(c)
  BY RoutingRoundTrip
<1>2. RoutingIndication(c) # Malformed /\ RoutingIndication(c).service_type = ROUTING_INDICATION
      /\ RoutingIndication(c).cEMIMessage = c
  BY IndicationIsRead DEF RoutingIndication
<1> QED BY <1>1, <1>2 DEF FromDatagram, Heard

\* Of a tunnelling request too.
LEMMA RequestHeard ==
    ASSUME NEW c \in Sendable, NEW channel \in Octet, NEW seq \in Octet
    PROVE  FromDatagram(ToBuffer(TunnelingRequest(channel, seq, c))) = <<c>>
<1> DEFINE p == TunnelingRequest(channel, seq, c)
<1>1. ParseMessage(ToBuffer(p)) = p
  BY TunnelingRoundTrip
<1>2. p # Malformed /\ p.service_type = TUNNELING_REQUEST /\ p.cEMIMessage = c
  BY RequestIsRead DEF TunnelingRequest
<1> HIDE DEF p
<1>3. FromDatagram(ToBuffer(p)) = <<c>>
  BY <1>1, <1>2 DEF FromDatagram, Heard
<1> QED BY <1>3 DEF p

\* What the client hands to its transport: a telegram that conveys the call.
HandsOver(i, code, ack, npdu) ==
    LET c == Calls[i]
    IN  /\ Conveys(npdu, c) /\ TelegramData(npdu) /\ npdu \in NPDUFields /\ ack \in 0 .. 1
        /\ Bears(c, Content(c)) /\ GroupAddress(c.dst) \in Words
        /\ PacketOf(c) = PacketWith(Client, Telegram(code, ack, 6, 65535, GroupAddress(c.dst), npdu))

\* The client does so for every call that makes a packet.
LEMMA CallHandsOver ==
    ASSUME NEW i \in 1 .. Len(Calls), transport \in Protocols, Len(sent) \in Octet,
           PacketOf(Calls[i]) # Malformed
    PROVE  \E ack, npdu : HandsOver(i, CodeFor(Client), ack, npdu)
<1> DEFINE c == Calls[i]
           p == PacketOf(c)
<1>1. /\ CallMakes(c, p) /\ Bears(c, Content(c))
      /\ c.dst \in Seq(Nat) /\ Len(c.dst) = 3 /\ ValidAddress(c.dst, TRUE)
  BY CallIsSent
<1>2. GroupAddress(c.dst) \in Words
  BY <1>1, GroupIs
<1> HIDE DEF c, p
<1>3. PICK npdu, ack :
        /\ Conveys(npdu, c) /\ ack \in 0 .. 1
        /\ p = PacketWith(Client, Telegram(CodeFor(Client), ack, 6, 65535, GroupAddress(c.dst), npdu))
  BY <1>1 DEF CallMakes
<1>4. TelegramData(npdu) /\ npdu \in NPDUFields
  BY <1>3 DEF Conveys, TelegramData
<1>5. HandsOver(i, CodeFor(Client), ack, npdu)
  BY <1>1, <1>2, <1>3, <1>4 DEF HandsOver, c, p
<1> QED BY <1>5

\* A datagram, or a frame, that a receiver takes for the call.
ArrivesAs(read, c) == \E m : read = <<m>> /\ Suits(m, c)

\* Multicast: the indication of the client.
LEMMA MulticastArrives ==
    ASSUME NEW i \in 1 .. Len(Calls), transport = "Multicast", Len(sent) \in Octet,
           PacketOf(Calls[i]) # Malformed
    PROVE  ArrivesAs(FromDatagram(ToBuffer(PacketOf(Calls[i]))), Calls[i])
<1> DEFINE c == Calls[i]
           dst == GroupAddress(c.dst)
<1>1. transport \in Protocols
  BY DEF Protocols
<1>2. Client.hostProtocol = "Multicast"
  BY <1>1, ClientIs
<1>3. CodeFor(Client) = L_DATA_IND
  BY <1>2 DEF CodeFor
<1>4. PICK ack, npdu : HandsOver(i, L_DATA_IND, ack, npdu)
  BY <1>1, <1>3, CallHandsOver
<1>5. /\ Conveys(npdu, c) /\ npdu \in NPDUFields /\ ack \in 0 .. 1 /\ Bears(c, Content(c))
      /\ dst \in Words
      /\ PacketOf(c) = PacketWith(Client, Telegram(L_DATA_IND, ack, 6, 65535, dst, npdu))
  BY <1>4 DEF HandsOver
<1> DEFINE t == Telegram(L_DATA_IND, ack, 6, 65535, dst, npdu)
<1>6. t \in Sendable
  <2>1. 65535 \in Words
    BY DEF Words
  <2> HIDE DEF dst
  <2>2. IsTelegram(L_DATA_IND, ack, 6, 65535, dst, npdu)
    BY <1>5, <2>1 DEF IsTelegram
  <2> QED BY <2>2, TelegramFields
<1>7. Suits(t, c)
  <2>1. 65535 \in Sources(dst)
    BY DEF Sources
  <2>2. SameTelegram(npdu, npdu)
    BY DEF SameTelegram
  <2> HIDE DEF c
  <2>3. Conveyed(c, npdu, ack, 6, 65535, npdu)
    BY <1>5, <2>1, <2>2 DEF Conveyed
  <2> QED BY <2>3, TelegramSuits
<1> HIDE DEF t, c, dst
<1>8. PacketOf(c) = RoutingIndication(t)
  BY <1>2, <1>5 DEF PacketWith, t
<1>9. FromDatagram(ToBuffer(PacketOf(c))) = <<t>>
  BY <1>6, <1>8, IndicationHeard
<1> QED BY <1>7, <1>9 DEF ArrivesAs, c

\* TunnelUDP: what the tunnelling server makes of the request.
LEMMA ServerMakes ==
    ASSUME NEW t, NEW d \in Sendable, t \in Sendable, NEW seq \in Octet,
           RoutingFromTunneling(t, AssignedAddress) = <<RoutingIndication(d)>>,
           Len(sent) \in Nat
    PROVE  ThroughServer(ToBuffer(TunnelingRequest(9, seq, t)))
             = ToBuffer(TunnelingRequest(3, Len(sent) % 256, d))
<1> DEFINE p == TunnelingRequest(9, seq, t)
           b == ToBuffer(RoutingIndication(d))
<1>1. 9 \in Octet /\ 3 \in Octet
  BY OctetIs
<1>2. ParseMessage(ToBuffer(p)) = p /\ p.cEMIMessage = t
  BY <1>1, TunnelingRoundTrip DEF TunnelingRequest
<1>3. TunnelingFromRouting(b, 3, Len(sent)) = <<TunnelingRequest(3, Len(sent) % 256, d)>>
  BY <1>1, ServerDelivers
<1> HIDE DEF p
<1>4. RoutingFromTunneling(ParseMessage(ToBuffer(p)).cEMIMessage, AssignedAddress)[1]
        = RoutingIndication(d)
  BY <1>2
<1>5. ThroughServer(ToBuffer(p)) = ToBuffer(TunnelingFromRouting(b, 3, Len(sent))[1])
  BY <1>4 DEF ThroughServer
<1> HIDE DEF b
<1> QED BY <1>3, <1>5 DEF p

\* TunnelUDP: the request of the tunnelling server, of what the client has sent.
LEMMA UdpArrives ==
    ASSUME NEW i \in 1 .. Len(Calls), transport = "TunnelUDP", Len(sent) \in Octet,
           PacketOf(Calls[i]) # Malformed
    PROVE  ArrivesAs(FromDatagram(ThroughServer(ToBuffer(PacketOf(Calls[i])))), Calls[i])
<1> DEFINE c == Calls[i]
           dst == GroupAddress(c.dst)
           n == Len(sent)
<1>1. transport \in Protocols
  BY DEF Protocols
<1>2. Client.hostProtocol = "TunnelUDP" /\ Client.channelID = 9 /\ Client.seq = n
  BY <1>1, ClientIs
<1>3. CodeFor(Client) = L_DATA_REQ
  BY <1>2 DEF CodeFor
<1>4. PICK ack, npdu : HandsOver(i, L_DATA_REQ, ack, npdu)
  BY <1>1, <1>3, CallHandsOver
<1>5. /\ Conveys(npdu, c) /\ npdu \in NPDUFields /\ ack \in 0 .. 1 /\ Bears(c, Content(c))
      /\ dst \in Words
      /\ PacketOf(c) = PacketWith(Client, Telegram(L_DATA_REQ, ack, 6, 65535, dst, npdu))
  BY <1>4 DEF HandsOver
<1> DEFINE t == Telegram(L_DATA_REQ, ack, 6, 65535, dst, npdu)
           d == Telegram(L_DATA_IND, 0, 6, AssignedAddress, dst, npdu)
<1>6. t \in Sendable /\ d \in Sendable
  <2>1. 65535 \in Words /\ AssignedAddress \in Words
    BY DEF Words, AssignedAddress
  <2> HIDE DEF dst
  <2>2. IsTelegram(L_DATA_REQ, ack, 6, 65535, dst, npdu)
        /\ IsTelegram(L_DATA_IND, 0, 6, AssignedAddress, dst, npdu)
    BY <1>5, <2>1 DEF IsTelegram
  <2> QED BY <2>2, TelegramFields
<1>7. Suits(d, c)
  <2>1. AssignedAddress \in Sources(dst)
    BY DEF Sources
  <2>2. SameTelegram(npdu, npdu)
    BY DEF SameTelegram
  <2> HIDE DEF c
  <2>3. Conveyed(c, npdu, 0, 6, AssignedAddress, npdu)
    BY <1>5, <2>1, <2>2 DEF Conveyed
  <2> QED BY <2>3, TelegramSuits
<1>8. RoutingFromTunneling(t, AssignedAddress) = <<RoutingIndication(d)>>
  <2> HIDE DEF dst
  <2> QED BY <1>5, ServerIs
<1> HIDE DEF t, d, c, dst
<1>9. PacketOf(c) = TunnelingRequest(9, n, t)
  BY <1>2, <1>5 DEF PacketWith, t
<1>10. n \in Octet /\ n \in Nat /\ n % 256 \in Octet /\ 3 \in Octet
  <2>1. n \in Octet
    BY DEF n
  <2> HIDE DEF n
  <2>2. n \in Nat /\ n <= 255
    BY <2>1, OctetIs
  <2>3. n % 256 = n
    BY <2>2
  <2> QED BY <2>1, <2>2, <2>3, OctetIs
<1>11. ThroughServer(ToBuffer(TunnelingRequest(9, n, t))) = ToBuffer(TunnelingRequest(3, n % 256, d))
  BY <1>6, <1>8, <1>10, ServerMakes
<1>12. FromDatagram(ToBuffer(TunnelingRequest(3, n % 256, d))) = <<d>>
  <2> DEFINE m == n % 256
  <2>1. m \in Octet
    BY <1>10
  <2> HIDE DEF m
  <2>2. FromDatagram(ToBuffer(TunnelingRequest(3, m, d))) = <<d>>
    BY <1>6, <1>10, <2>1, RequestHeard
  <2> QED BY <2>2 DEF m
<1> QED BY <1>7, <1>9, <1>11, <1>12 DEF ArrivesAs, c

\* A secured telegram that keeps its sender on the way suits its call.
LEMMA SealedArrives ==
    ASSUME NEW c, NEW npdu, Conveys(npdu, c), Bears(c, Content(c)), GroupAddress(c.dst) \in Words,
           NEW ack \in 0 .. 1, NEW hop \in {5, 6}, NEW number \in Words, NEW own \in Words,
           NEW source \in Words, source \in Sources(GroupAddress(c.dst)),
           transport \in {"TunnelTCP", "SecureMulticast"},
           GroupAddress(c.dst) \in DOMAIN RightKeys =>
              source = Sealing(RightKeys, number, own, 65535, GroupAddress(c.dst), npdu).from
    PROVE  Suits(MaybeDecryptDataSecure(
                    Telegram(L_DATA_IND, ack, hop, source, GroupAddress(c.dst),
                             Sealing(RightKeys, number, own, 65535, GroupAddress(c.dst), npdu).npdu),
                    keys), c)
<1> DEFINE dst == GroupAddress(c.dst)
           inner == Sealing(RightKeys, number, own, 65535, dst, npdu).npdu
           t == Telegram(L_DATA_IND, ack, hop, source, dst, inner)
           r == MaybeDecryptDataSecure(t, keys)
<1>1. TelegramData(npdu)
  BY DEF Conveys, TelegramData
<1>2. dst \in DOMAIN RightKeys => RightKeys[dst] \in Octets
  <2>1. \A group \in DOMAIN RightKeys : RightKeys[group] \in Octets
    BY KeysAssumption DEF Octets
  <2> HIDE DEF dst
  <2> QED BY <2>1
<1>3. Keyed => keys = RightKeys
  BY DEF Keyed
<1>4. PICK opened : r = Telegram(L_DATA_IND, ack, hop, source, dst, opened)
                    /\ (Keyed => SameTelegram(opened, npdu))
  <2>1. CASE keys = RightKeys
    <3>1. 65535 \in Words /\ L_DATA_IND \in {L_DATA_REQ, L_DATA_IND}
      BY DEF Words
    <3> HIDE DEF dst
    <3>2. dst \in Words /\ (dst \in DOMAIN RightKeys =>
             source = Sealing(RightKeys, number, own, 65535, dst, npdu).from)
      BY DEF dst
    <3>3. OpensAs(t, RightKeys, L_DATA_IND, ack, hop, source, dst, npdu)
      <4>1. /\ ack \in 0 .. 1 /\ hop \in {5, 6} /\ number \in Words /\ own \in Words
            /\ source \in Words
        OBVIOUS
      <4> QED BY ONLY <1>1, <1>2, <3>1, <3>2, <4>1, TelegramOpened
    <3> HIDE DEF t
    <3> QED BY <2>1, <3>3 DEF OpensAs
  <2>2. CASE keys # RightKeys
    <3> HIDE DEF inner
    <3>1. StaysTelegram(keys, L_DATA_IND, ack, hop, source, dst, inner)
      BY TelegramStays
    <3>2. ~Keyed
      BY <1>3, <2>2
    <3> QED BY <3>1, <3>2 DEF StaysTelegram
  <2> QED BY <2>1, <2>2
<1> HIDE DEF r
<1>5. Conveyed(c, npdu, ack, hop, source, opened)
  BY <1>4 DEF Conveyed
<1>6. Suits(Telegram(L_DATA_IND, ack, hop, source, dst, opened), c)
  BY <1>5, TelegramSuits
<1>7. Suits(r, c)
  BY <1>4, <1>6
<1> QED BY <1>7 DEF r, t, inner

\* The backbone key is one key, if there is one.
LEMMA BackboneIs ==
    ASSUME BackboneKey # <<>>
    PROVE  BackboneKey[1] \in Octets
<1> DEFINE cfg == [keyring |-> <<KeyringFile>>, knxkeys_password |-> <<Right>>,
                   tunnelUserId |-> <<2>>, tunnelUserPassword |-> <<<<112>>>>,
                   tunnelInterfaceIndividualAddress |-> <<>>]
           b == BackboneOf(Ring)
           key == Sub(b.decryptedKey[1], 0, 16)
<1>1. BackboneKey = KeyringCredentials(cfg, FALSE, Ring, InterfaceOf(cfg, Ring)).backboneKey
  <2>1. cfg.keyring # <<>> /\ cfg.knxkeys_password # <<>> /\ cfg.keyring[1] = KeyringFile
        /\ cfg.knxkeys_password[1] = Right
    OBVIOUS
  <2>2. BackboneKey = SecureEnsureKeyring(cfg, FALSE).backboneKey
    BY DEF BackboneKey, Credentials
  <2> HIDE DEF cfg
  <2> QED BY <2>1, <2>2 DEF SecureEnsureKeyring, Ring
<1> HIDE DEF cfg
<1>2. BackboneKey = IF b.decryptedKey = <<>> THEN <<>>
                    ELSE IF Len(b.decryptedKey[1]) < 16 THEN <<>> ELSE <<key>>
  BY <1>1 DEF KeyringCredentials
<1> HIDE DEF key
<1>3. BackboneKey = <<key>>
  BY <1>2
<1>4. 1 \in 1 .. Len(BackboneKey)
  BY <1>3
<1> QED BY <1>4, KeysAssumption DEF Octets

\* The later of the entries with a key is one of them.
LEMMA LastIs ==
    ASSUME NEW entries, Len(entries) \in Nat, NEW key, NEW e \in ToSet(entries), e.address = key
    PROVE  LET address(g) == g.address
           IN  LastOf(entries, address, key) \in ToSet(entries)
               /\ LastOf(entries, address, key).address = key
<1> DEFINE at == {i \in 1 .. Len(entries) : entries[i].address = key}
           k == CHOOSE i \in at : \A j \in at : j <= i
           address(g) == g.address
<1>1. at # {}
  BY DEF ToSet
<1>2. \E i \in at : \A j \in at : j <= i
  <2> DEFINE n == Len(entries)
  <2>1. at \in SUBSET (1 .. n) /\ n \in Nat
    OBVIOUS
  <2> HIDE DEF at, n
  <2> QED BY <1>1, <2>1, Greatest
<1>3. k \in at
  <2> HIDE DEF at
  <2> QED BY <1>2
<1>4. LastOf(entries, address, key) = entries[k]
  BY DEF LastOf
<1> HIDE DEF k
<1>5. entries[k] \in ToSet(entries) /\ entries[k].address = key
  BY <1>3 DEF ToSet
<1> QED BY <1>4, <1>5

\* The senders the keyring allows are the ones its interfaces list for the group.
LEMMA AllowedAreSources ==
    ASSUME NEW group \in DOMAIN RightKeys, transport = "SecureMulticast",
           NEW sender \in AllowedSenders(Ring, group)
    PROVE  sender \in Sources(group)
<1> DEFINE address(g) == g.address
           groups(a) == Ring.interfaces[a].groupAddresses
           listing == {a \in DOMAIN Ring.interfaces : \E g \in ToSet(groups(a)) : g.address = group}
           all == UNION {ToSet(groups(a)) : a \in DOMAIN Ring.interfaces}
<1>1. AllowedSenders(Ring, group)
        = UNION {ToSet(LastOf(groups(a), address, group).senders) : a \in listing}
  BY DEF AllowedSenders
<1>2. PICK a \in listing : sender \in ToSet(LastOf(groups(a), address, group).senders)
  BY <1>1
<1> DEFINE entries == groups(a)
           last == LastOf(entries, address, group)
<1>3. PICK own \in ToSet(entries) : own.address = group
  BY <1>2
<1>4. Len(entries) \in Nat
  BY <1>2, SendersAssumption
<1>5. entries \in {groups(x) : x \in DOMAIN Ring.interfaces} /\ ToSet(entries) \subseteq all
  BY <1>2
<1>6. sender \in ToSet(last.senders)
  BY <1>2
<1> HIDE DEF entries, listing, all
<1>7. last \in ToSet(entries) /\ last.address = group
  BY <1>3, <1>4, LastIs
<1> HIDE DEF last
<1>8. last \in {h \in all : h.address = group}
  BY <1>5, <1>7
<1>9. Sources(group) = UNION {ToSet(g.senders) : g \in {h \in all : h.address = group}}
  BY DEF Sources, all
<1> QED BY <1>6, <1>8, <1>9

\* securePickSenderIaForGa picks a sender of the group.
LEMMA PickIs ==
    ASSUME NEW i \in 1 .. Len(Calls), GroupAddress(Calls[i].dst) \in DOMAIN RightKeys, NEW current
    PROVE  LET group == GroupAddress(Calls[i].dst)
               picked == SecurePickSenderIaForGa(Ring, group, current)
           IN  picked \in AllowedSenders(Ring, group) /\ picked \in Words /\ picked # 0
<1> DEFINE group == GroupAddress(Calls[i].dst)
           allowed == AllowedSenders(Ring, group)
           best == CHOOSE a \in allowed : \A b \in allowed : b <= a
           picked == SecurePickSenderIaForGa(Ring, group, current)
<1>1. allowed # {} /\ \A a \in allowed : a \in Nat /\ 0 < a /\ a <= 65535
  BY SendersAssumption
<1>2. picked = IF allowed = {} \/ current \in allowed THEN current ELSE best
  BY DEF SecurePickSenderIaForGa
<1> HIDE DEF allowed
<1> DEFINE n == 65535
<1>3. n \in Nat /\ \A a \in allowed : a \in Nat /\ 0 < a /\ a <= n
  BY <1>1
<1> HIDE DEF n
<1>4. \E a \in allowed : \A b \in allowed : b <= a
  <2>1. allowed \in SUBSET (1 .. n)
    BY <1>3
  <2>2. n \in Nat /\ allowed # {}
    BY <1>1, <1>3
  <2> QED BY <2>1, <2>2, Greatest
<1>5. best \in allowed
  BY <1>4
<1> HIDE DEF best, picked
<1>6. picked \in allowed
  BY <1>1, <1>2, <1>5
<1>7. picked \in Nat /\ 0 < picked /\ picked <= 65535
  BY <1>1, <1>6
<1>8. picked \in Words /\ picked # 0
  BY <1>7 DEF Words
<1> QED BY <1>6, <1>8 DEF picked, allowed

\* The sender of a secure telegram: what the client takes for its own address, and
\* what the telegram then comes from.
LEMMA SenderIs ==
    ASSUME NEW i \in 1 .. Len(Calls), transport = "SecureMulticast", ia \in Words,
           NEW t, t.dstAddress = GroupAddress(Calls[i].dst), t.srcAddress = 65535,
           NEW number, NEW npdu
    PROVE  /\ SenderOf(t) \in Words
           /\ Sealing(RightKeys, number, SenderOf(t), 65535, t.dstAddress, npdu).from
                \in Sources(t.dstAddress)
<1> DEFINE dst == t.dstAddress
           current == IF ia # 0 THEN ia ELSE 65535
           picked == SecurePickSenderIaForGa(Ring, dst, current)
           sender == SenderOf(t)
           s == Sealing(RightKeys, number, sender, 65535, dst, npdu)
<1>1. CASE dst \notin DOMAIN RightKeys
  <2>1. sender = ia
    BY <1>1 DEF SenderOf
  <2>2. s.from = 65535
    BY <1>1 DEF Sealing
  <2>3. Sources(dst) = {65535}
    BY <1>1 DEF Sources
  <2> HIDE DEF s, sender
  <2> QED BY <2>1, <2>2, <2>3 DEF s, sender
<1>2. CASE dst \in DOMAIN RightKeys
  <2>1. picked \in AllowedSenders(Ring, dst) /\ picked \in Words /\ picked # 0
    BY <1>2, PickIs
  <2>2. picked \in Sources(dst)
    BY <1>2, <2>1, AllowedAreSources
  <2>3. sender = IF picked # current THEN picked ELSE ia
    BY <1>2 DEF SenderOf
  <2>4. s.from = IF sender # 0 THEN sender ELSE 65535
    BY <1>2 DEF Sealing
  <2> HIDE DEF s, sender, picked
  <2>5. s.from = picked
    BY <2>1, <2>3, <2>4
  <2>6. sender \in Words
    BY <2>1, <2>3
  <2> QED BY <2>2, <2>5, <2>6 DEF s, sender
<1> QED BY <1>1, <1>2

\* A receiver opens the one message that it has heard.
LEMMA OpenedOne ==
    ASSUME NEW m
    PROVE  Opened(<<m>>) = <<MaybeDecryptDataSecure(m, keys)>>
<1>1. Len(<<m>>) = 1 /\ <<m>>[1] = m
  OBVIOUS
<1>2. Opened(<<m>>) = [i \in 1 .. 1 |-> MaybeDecryptDataSecure(<<m>>[i], keys)]
  BY <1>1 DEF Opened
<1>3. [i \in 1 .. 1 |-> MaybeDecryptDataSecure(<<m>>[i], keys)] = <<MaybeDecryptDataSecure(m, keys)>>
  BY <1>1
<1> QED BY <1>2, <1>3

\* The keys of the keyring are octets.
LEMMA KeysAre == ASSUME NEW dst, dst \in DOMAIN RightKeys PROVE RightKeys[dst] \in Octets
<1>1. \A group \in DOMAIN RightKeys : RightKeys[group] \in Octets
  BY KeysAssumption DEF Octets
<1> QED BY <1>1

\* TelegramSealed, of the telegrams of a call.
SealsAs(code, ack, src, dst, npdu, number, own) ==
    LET s == Sealing(RightKeys, number, own, src, dst, npdu)
    IN  /\ MaybeApplyDataSecure(Telegram(code, ack, 6, src, dst, npdu), RightKeys, number, own)
             = Telegram(code, ack, 6, s.from, dst, s.npdu)
        /\ s.from \in Words /\ s.npdu \in NPDUFields

\* The keys of the keyring seal every telegram of a call.
LEMMA TelegramSeals ==
    ASSUME NEW code, NEW ack \in 0 .. 1, NEW src \in Words, NEW dst \in Words, NEW npdu,
           TelegramData(npdu), NEW number \in Words, NEW own \in Words
    PROVE  SealsAs(code, ack, src, dst, npdu, number, own)
<1> DEFINE ks == RightKeys
<1>1. dst \in DOMAIN ks => ks[dst] \in Octets
  BY KeysAre
<1> HIDE DEF ks
<1>2. LET s == Sealing(ks, number, own, src, dst, npdu)
      IN  /\ MaybeApplyDataSecure(Telegram(code, ack, 6, src, dst, npdu), ks, number, own)
               = Telegram(code, ack, 6, s.from, dst, s.npdu)
          /\ s.from \in Words /\ s.npdu \in NPDUFields
  BY <1>1, TelegramSealed
<1> QED BY <1>2 DEF ks, SealsAs

\* SecureMulticast: the datagram of a call, opened by a holder of the backbone key.
LEMMA SecureMulticastArrives ==
    ASSUME NEW i \in 1 .. Len(Calls), transport = "SecureMulticast", Len(sent) \in Octet,
           PacketOf(Calls[i]) # Malformed, ia \in Words, backbone = BackboneKey, backbone # <<>>
    PROVE  LET packet == PacketOf(Calls[i])
               sender == SenderOf(packet.cEMIMessage)
           IN  /\ ArrivesAs(FromSecureDatagram(SecuredRouting(packet, sender)), Calls[i])
               /\ sender \in Words
<1> DEFINE c == Calls[i]
           dst == GroupAddress(c.dst)
           packet == PacketOf(c)
           sender == SenderOf(packet.cEMIMessage)
           number == 1000 + Len(sent)
<1>1. transport \in Protocols
  BY DEF Protocols
<1>2. Client.hostProtocol = "Multicast"
  BY <1>1, ClientIs
<1>3. CodeFor(Client) = L_DATA_IND
  BY <1>2 DEF CodeFor
<1>4. PICK ack, npdu : HandsOver(i, L_DATA_IND, ack, npdu)
  BY <1>1, <1>3, CallHandsOver
<1>5. /\ Conveys(npdu, c) /\ TelegramData(npdu) /\ ack \in 0 .. 1 /\ Bears(c, Content(c))
      /\ dst \in Words
      /\ packet = PacketWith(Client, Telegram(L_DATA_IND, ack, 6, 65535, dst, npdu))
  BY <1>4 DEF HandsOver
<1> DEFINE t == Telegram(L_DATA_IND, ack, 6, 65535, dst, npdu)
           s == Sealing(RightKeys, number, sender, 65535, dst, npdu)
           m == Telegram(L_DATA_IND, ack, 6, s.from, dst, s.npdu)
           b == ToBuffer(RoutingIndication(m))
           key == BackboneKey[1]
<1>6. packet = RoutingIndication(t)
  BY <1>2, <1>5 DEF PacketWith
<1>7. packet.cEMIMessage = t
  BY <1>6 DEF RoutingIndication
<1>8. t.dstAddress = dst /\ t.srcAddress = 65535
  BY DEF Telegram, CEMI
<1>9. number \in Words
  <2> DEFINE n == Len(sent)
  <2>1. n \in Nat /\ n <= 255
    BY OctetIs
  <2> HIDE DEF n
  <2>2. 1000 + n \in Nat /\ 1000 + n <= 65535
    BY <2>1
  <2> QED BY <2>2 DEF Words, n
<1>10. sender \in Words /\ s.from \in Sources(dst)
  <2> HIDE DEF t, packet, number, dst
  <2>1. t.dstAddress = GroupAddress(Calls[i].dst)
    BY <1>8 DEF dst
  <2>2. /\ SenderOf(t) \in Words
        /\ Sealing(RightKeys, number, SenderOf(t), 65535, t.dstAddress, npdu).from
             \in Sources(t.dstAddress)
    BY <1>8, <2>1, SenderIs
  <2> QED BY <1>7, <1>8, <2>2
<1> HIDE DEF number
<1>11. MaybeApplyDataSecure(t, RightKeys, number, sender) = m /\ s.from \in Words /\ s.npdu \in NPDUFields
  <2>1. 65535 \in Words
    BY DEF Words
  <2>2. ack \in 0 .. 1 /\ dst \in Words /\ TelegramData(npdu) /\ sender \in Words /\ number \in Words
    BY <1>5, <1>9, <1>10
  <2> HIDE DEF sender, dst
  <2>3. SealsAs(L_DATA_IND, ack, 65535, dst, npdu, number, sender)
    BY ONLY <2>1, <2>2, TelegramSeals
  <2> QED BY <2>3 DEF SealsAs
<1> HIDE DEF s
<1>12. m \in Sendable
  <2> HIDE DEF dst
  <2>1. IsTelegram(L_DATA_IND, ack, 6, s.from, dst, s.npdu)
    BY <1>5, <1>11 DEF IsTelegram
  <2> QED BY <2>1, TelegramFields
<1> HIDE DEF packet, sender, t, m
<1>13. SecuredRouting(packet, sender)
         = SecureWrapRouting(b, key, 500 + Len(sent), Serial, <<Len(sent), 77>>)
  <2>1. [packet EXCEPT !.cEMIMessage = m] = RoutingIndication(m)
    BY <1>6 DEF RoutingIndication
  <2>2. MaybeApplyDataSecure(packet.cEMIMessage, RightKeys, 1000 + Len(sent), sender) = m
    BY <1>7, <1>11 DEF number
  <2> QED BY <2>1, <2>2 DEF SecuredRouting
<1>14. b \in Octets /\ 38 + Len(b) \in Words
  <2>1. b \in Octets /\ Len(b) < 400
    BY <1>12, RoutingRoundTrip
  <2> DEFINE n == Len(b)
  <2>2. n \in Nat /\ n < 400
    BY <2>1 DEF Octets
  <2> HIDE DEF n
  <2>3. 38 + n \in Words
    BY <2>2 DEF Words
  <2> QED BY <2>1, <2>3 DEF n
<1>15. /\ Serial \in Octets /\ Len(Serial) = 6 /\ <<Len(sent), 77>> \in Octets
       /\ Len(<<Len(sent), 77>>) = 2 /\ 500 + Len(sent) \in Words
  <2> DEFINE n == Len(sent)
  <2>1. n \in Nat /\ n <= 255 /\ n \in Octet
    BY OctetIs
  <2> HIDE DEF n
  <2>2. 500 + n \in Words
    BY <2>1 DEF Words
  <2>3. 77 \in Octet /\ 0 \in Octet /\ 1 \in Octet /\ 2 \in Octet /\ 3 \in Octet /\ 4 \in Octet
        /\ 5 \in Octet
    BY OctetIs
  <2>4. <<n, 77>> \in Octets /\ Len(<<n, 77>>) = 2
    BY <2>1, <2>3, OctetTuples
  <2>5. Serial \in Octets /\ Len(Serial) = 6
    BY <2>3 DEF Serial, Octets
  <2> QED BY <2>2, <2>4, <2>5 DEF n
<1>16. key \in Octets
  BY BackboneIs
<1> HIDE DEF b, key
<1>17. SecureDecryptRouting(SecuredRouting(packet, sender), key) = b
  BY <1>13, <1>14, <1>15, <1>16, MulticastRoundTrip
<1>18. FromDatagram(b) = <<m>>
  BY <1>12, IndicationHeard DEF b
<1>19. b # Malformed
  BY <1>14, MalformedAssumption DEF Octets
<1>20. FromSecureDatagram(SecuredRouting(packet, sender)) = <<MaybeDecryptDataSecure(m, keys)>>
  <2>1. FromSecureDatagram(SecuredRouting(packet, sender)) = Opened(FromDatagram(b))
    <3>1. backbone[1] = key /\ backbone # <<>>
      BY DEF key
    <3> QED BY <1>17, <1>19, <3>1 DEF FromSecureDatagram
  <2> QED BY <1>18, <2>1, OpenedOne
<1>21. Suits(MaybeDecryptDataSecure(m, keys), c)
  <2> DEFINE source == s.from
  <2>1. dst \in DOMAIN RightKeys =>
          source = Sealing(RightKeys, number, sender, 65535, dst, npdu).from
    BY DEF s
  <2>2. source \in Words /\ source \in Sources(dst)
    BY <1>10, <1>11
  <2> HIDE DEF source, c, dst
  <2>3. Suits(MaybeDecryptDataSecure(
                 Telegram(L_DATA_IND, ack, 6, source, GroupAddress(c.dst),
                    Sealing(RightKeys, number, sender, 65535, GroupAddress(c.dst), npdu).npdu), keys), c)
    BY <1>5, <1>9, <1>10, <2>1, <2>2, SealedArrives DEF dst
  <2> QED BY <2>3 DEF m, s, source, dst
<1> QED BY <1>10, <1>20, <1>21 DEF ArrivesAs, packet, sender, c

\* The raw telegram that the tunnelling server reports of a call.
SaysOf(o, c) ==
    /\ o.event = Service(c) /\ o.destination = c.dst
    /\ c.method # "read" => Bears(c, o.data[1])

Reports(seen, c) == \E o : seen = <<o>> /\ SaysOf(o, c)

\* The event of a request has the service, the group and the data of the call.
LEMMA TelegramReported ==
    ASSUME NEW c, NEW npdu, Conveys(npdu, c), Bears(c, Content(c)), NEW ack \in 0 .. 1,
           c.dst \in Seq(Nat), Len(c.dst) = 3, ValidAddress(c.dst, TRUE),
           NEW src \in Words
    PROVE  Reports(RawTelegram(Telegram(L_DATA_REQ, ack, 6, src, GroupAddress(c.dst), npdu)), c)
<1> DEFINE dst == GroupAddress(c.dst)
           t == Telegram(L_DATA_REQ, ack, 6, src, dst, npdu)
           o == [event |-> Action(npdu), source |-> AddressDigits(src, FALSE),
                 destination |-> AddressDigits(dst, IsGroupAddress(t.control)),
                 data |-> IF Action(npdu) = 0 THEN <<>> ELSE <<DataValue(npdu)>>,
                 bitlength |-> CASE Action(npdu) = 0 -> 0
                                 [] npdu.data = <<>> -> 6
                                 [] OTHER -> 8 * Len(DataValue(npdu))]
<1>1. dst \in Words /\ AddressDigits(dst, TRUE) = c.dst
  BY GroupIs
<1>2. Action(npdu) = Service(c) /\ DataValue(npdu) = Content(c) /\ npdu \in NPDUFields
  BY DEF Conveys
<1> HIDE DEF dst
<1>3. t \in Sendable /\ t.msgCode = L_DATA_REQ /\ t.npdu = npdu /\ t.srcAddress = src
      /\ t.dstAddress = dst /\ IsGroupAddress(t.control)
  <2>1. IsTelegram(L_DATA_REQ, ack, 6, src, dst, npdu)
    BY <1>1, <1>2 DEF IsTelegram
  <2> QED BY <2>1, TelegramFields
<1> HIDE DEF t
<1>4. t.npdu # Malformed
  BY <1>3, SendableIsRead
<1>5. Writable(t)
  BY <1>3, <1>4 DEF Writable, L_DATA_REQ, L_DATA_CON
<1>6. Service(c) \in 0 .. 2 /\ (c.method # "read" => Service(c) # 0)
  BY DEF Service
<1>7. RawTelegram(t) = <<o>>
  BY <1>2, <1>3, <1>5, <1>6 DEF RawTelegram
<1>8. IsGroupAddress(t.control) = TRUE
  BY <1>3 DEF IsGroupAddress
<1>9. AddressDigits(dst, IsGroupAddress(t.control)) = c.dst
  BY <1>1, <1>8
<1>10. /\ o.event = Action(npdu) /\ o.destination = AddressDigits(dst, IsGroupAddress(t.control))
       /\ o.data = IF Action(npdu) = 0 THEN <<>> ELSE <<DataValue(npdu)>>
  OBVIOUS
<1> HIDE DEF o
<1>11. c.method # "read" => o.data[1] = Content(c)
  BY <1>2, <1>6, <1>10
<1>12. Reports(<<o>>, c)
  BY <1>2, <1>9, <1>10, <1>11 DEF Reports, SaysOf
<1> QED BY <1>7, <1>12 DEF t, dst

\* So has the event of each call over TunnelUDP.
LEMMA UdpReported ==
    ASSUME NEW i \in 1 .. Len(Calls), transport = "TunnelUDP", Len(sent) \in Octet,
           PacketOf(Calls[i]) # Malformed
    PROVE  Reports(RawTelegram(ParseMessage(ToBuffer(PacketOf(Calls[i]))).cEMIMessage), Calls[i])
<1> DEFINE c == Calls[i]
           dst == GroupAddress(c.dst)
           n == Len(sent)
<1>1. transport \in Protocols
  BY DEF Protocols
<1>2. Client.hostProtocol = "TunnelUDP" /\ Client.channelID = 9 /\ Client.seq = n
  BY <1>1, ClientIs
<1>3. CodeFor(Client) = L_DATA_REQ
  BY <1>2 DEF CodeFor
<1>4. PICK ack, npdu : HandsOver(i, L_DATA_REQ, ack, npdu)
  BY <1>1, <1>3, CallHandsOver
<1>5. /\ Conveys(npdu, c) /\ npdu \in NPDUFields /\ ack \in 0 .. 1 /\ Bears(c, Content(c))
      /\ dst \in Words
      /\ PacketOf(c) = PacketWith(Client, Telegram(L_DATA_REQ, ack, 6, 65535, dst, npdu))
  BY <1>4 DEF HandsOver
<1>6. c.dst \in Seq(Nat) /\ Len(c.dst) = 3 /\ ValidAddress(c.dst, TRUE)
  BY <1>1, CallIsSent
<1> DEFINE t == Telegram(L_DATA_REQ, ack, 6, 65535, dst, npdu)
<1>7. 65535 \in Words
  BY DEF Words
<1>8. t \in Sendable
  <2> HIDE DEF dst
  <2>1. IsTelegram(L_DATA_REQ, ack, 6, 65535, dst, npdu)
    BY <1>5, <1>7 DEF IsTelegram
  <2> QED BY <2>1, TelegramFields
<1>9. Reports(RawTelegram(t), c)
  <2> HIDE DEF c
  <2>1. /\ Conveys(npdu, c) /\ ack \in 0 .. 1 /\ Bears(c, Content(c))
    BY <1>5
  <2> DEFINE src == 65535
  <2>2. src \in Words
    BY <1>7
  <2> HIDE DEF src, dst
  <2>3. Reports(RawTelegram(Telegram(L_DATA_REQ, ack, 6, src, GroupAddress(c.dst), npdu)), c)
    BY ONLY <1>6, <2>1, <2>2, TelegramReported
  <2> QED BY <2>3 DEF src, dst, c
<1> HIDE DEF t, c, dst
<1>10. PacketOf(c) = TunnelingRequest(9, n, t)
  BY <1>2, <1>5 DEF PacketWith, t
<1>11. n \in Octet /\ 9 \in Octet
  BY OctetIs
<1>12. ParseMessage(ToBuffer(PacketOf(c))).cEMIMessage = t
  <2> HIDE DEF n
  <2>1. ParseMessage(ToBuffer(TunnelingRequest(9, n, t))) = TunnelingRequest(9, n, t)
    BY <1>8, <1>11, TunnelingRoundTrip
  <2>2. TunnelingRequest(9, n, t).cEMIMessage = t
    BY DEF TunnelingRequest
  <2> QED BY <1>10, <2>1, <2>2
<1> QED BY <1>9, <1>12 DEF c

-----------------------------------------------------------------------------
(* The steps of a conversation *)

\* secureGetIaCandidatesByDiscovery returns interfaces of the keyring.
LEMMA CandidatesAre ==
    ASSUME NEW detailed, NEW simple,
           SecureGetIaCandidates(detailed, simple, Ring, Peer) # Malformed
    PROVE  SecureGetIaCandidates(detailed, simple, Ring, Peer)[1] \in DOMAIN Ring.interfaces
<1> DEFINE lines == LinesOf(detailed, simple)
           first(at) == IF at = {} THEN <<>>
                        ELSE lines[CHOOSE i \in at : \A j \in at : i <= j].ia
           here == {i \in 1 .. Len(lines) : lines[i].host = Peer /\ lines[i].tunnelling}
           exact == first(here)
           hostIa == IF exact # <<>> THEN exact
                     ELSE first({i \in 1 .. Len(lines) : lines[i].host[1] = Peer[1]})
           hosted == {a \in DOMAIN Ring.interfaces :
                        /\ Ring.interfaces[a].host # <<>>
                        /\ AddressDigits(Ring.interfaces[a].host[1], FALSE) = hostIa}
           candidates == IF hosted # {} THEN hosted
                         ELSE {a \in DOMAIN Ring.interfaces :
                                 Ring.interfaces[a].type = "tunneling"}
           result == SecureGetIaCandidates(detailed, simple, Ring, Peer)
<1>1. result = IF hostIa = <<>> \/ candidates = {} THEN Malformed ELSE Descending(candidates)
  BY DEF SecureGetIaCandidates, LinesOf
<1>2. candidates \subseteq DOMAIN Ring.interfaces
  <2> HIDE DEF hostIa
  <2> QED OBVIOUS
<1> HIDE DEF candidates, hostIa, result
<1>3. candidates # {} /\ result = Descending(candidates)
  BY <1>1 DEF result
<1>4. candidates \in SUBSET Nat /\ IsFiniteSet(candidates)
  <2>1. DOMAIN Ring.interfaces \in SUBSET Nat /\ IsFiniteSet(DOMAIN Ring.interfaces)
    BY RingIs
  <2> QED BY <1>2, <2>1, FS_Subset
<1>5. Descending(candidates)[1] \in candidates
  BY <1>3, <1>4, DescendingFirst
<1> QED BY <1>2, <1>3, <1>5 DEF result

\* The address taken for the tunnel is an individual address.
LEMMA TunnelAddress == ASSUME Candidates # Malformed PROVE Candidates[1] \in Words /\ Candidates[1] # 0
<1> DEFINE detailed == IF call = "detailed" THEN results ELSE <<>>
           simple == IF call = "discover" THEN results ELSE <<>>
           D == DOMAIN Ring.interfaces
<1>1. Candidates = SecureGetIaCandidates(detailed, simple, Ring, Peer)
  BY DEF Candidates
<1> HIDE DEF detailed, simple
<1>2. Candidates[1] \in D
  BY <1>1, CandidatesAre
<1>3. D \in SUBSET Words
  BY RingIs
<1>4. 0 \notin D
  BY SendersAssumption
<1> QED BY <1>2, <1>3, <1>4

\* The kinds of steps of the conversation.
Idle == UNCHANGED <<link, path>>

Connects ==
    /\ transport = "none" /\ transport' \in Protocols /\ UNCHANGED path
    /\ ia' = ia \/ (Candidates # Malformed /\ ia' = Candidates[1])
    /\ transport' = "TunnelTCP" => Candidates # Malformed /\ ia' = Candidates[1]

Steps ==
    \/ Idle \/ Connects
    \/ \E i \in 1 .. Len(Calls) : Send(i)
    \/ \E i \in 1 .. Len(Controls) : SendControl(i)
    \/ DeliverDatagram
    \/ \E n \in Chunks : DeliverTcp(n)
    \/ \E n \in Chunks : DeliverSerial(n)

\* Every step is one of them.
LEMMA StepIs == ASSUME [Next]_vars PROVE Steps
<1>1. CASE UNCHANGED vars
  BY <1>1 DEF vars, Steps, Idle
<1>2. CASE \E which \in {"discover", "detailed", "interfaces"} : Start(which)
  BY <1>2 DEF Start, Steps, Idle
<1>3. CASE \E a \in Answers : Discover(a) \/ DiscoverDetailed(a) \/ DiscoverInterfaces(a)
  BY <1>3 DEF Discover, DiscoverDetailed, DiscoverInterfaces, Hears, Steps, Idle
<1>4. CASE \E password \in {Right, "wrong"} : ConnectSecure(password) \/ ConnectSecureRouting(password)
  <2>1. CASE \E password \in {Right, "wrong"} : ConnectSecure(password)
    <3>1. /\ transport = "none" /\ transport' = "TunnelTCP" /\ UNCHANGED path
          /\ Candidates # Malformed /\ ia' = Candidates[1]
      BY <2>1 DEF ConnectSecure
    <3> QED BY <3>1 DEF Connects, Steps, Protocols
  <2>2. CASE \E password \in {Right, "wrong"} : ConnectSecureRouting(password)
    <3>1. transport = "none" /\ transport' = "SecureMulticast" /\ UNCHANGED path /\ ia' = ia
      BY <2>2 DEF ConnectSecureRouting
    <3> QED BY <3>1 DEF Connects, Steps, Protocols
  <2> QED BY <1>4, <2>1, <2>2
<1>5. CASE \E protocol \in {"TunnelUDP", "Multicast", "SerialFT12"} : Connect(protocol)
  <2>1. /\ transport = "none" /\ transport' \in {"TunnelUDP", "Multicast", "SerialFT12"}
        /\ UNCHANGED path /\ ia' = ia
    BY <1>5 DEF Connect
  <2> QED BY <2>1 DEF Connects, Steps, Protocols
<1>6. CASE \/ \E i \in 1 .. Len(Calls) : Send(i)
           \/ \E i \in 1 .. Len(Controls) : SendControl(i)
           \/ DeliverDatagram
           \/ \E n \in Chunks : DeliverTcp(n) \/ DeliverSerial(n)
  BY <1>6 DEF Steps
<1> QED BY <1>1, <1>2, <1>3, <1>4, <1>5, <1>6 DEF Next

\* What a call that is sent changes.
Octets1(i) ==
    LET packet == PacketOf(Calls[i])
    IN  OnLine(i, packet, IF transport = "SecureMulticast" THEN SenderOf(packet.cEMIMessage) ELSE ia)

\* The record of it.
Entry(i) == [control |-> FALSE, index |-> i, due |-> Due(Octets1(i))]

\* All of it.
SendChanges(i) ==
    LET packet == PacketOf(Calls[i])
    IN  /\ transport # "none" /\ packet # Malformed
        /\ sent = <<>> \/ (Len(sent) = 1 /\ i \in Cuttable /\ ~sent[1].control
                             /\ sent[1].index \in Cuttable)
        /\ sent' = Append(sent, Entry(i)) /\ line' = line \o Octets1(i)
        /\ ia' = IF transport = "SecureMulticast" THEN SenderOf(packet.cEMIMessage) ELSE ia
        /\ observed' = IF transport = "TunnelUDP"
                       THEN observed \o RawTelegram(ParseMessage(ToBuffer(packet)).cEMIMessage)
                       ELSE observed
        /\ UNCHANGED <<transport, keys, backbone, count, rest, got, acks>>

\* A call that is sent changes that.
LEMMA SendIs == ASSUME NEW i \in 1 .. Len(Calls), Send(i) PROVE SendChanges(i)
<1> DEFINE packet == PacketOf(Calls[i])
           sender == IF transport = "SecureMulticast" THEN SenderOf(packet.cEMIMessage) ELSE ia
           octets == OnLine(i, packet, sender)
           before == [control |-> FALSE, index |-> i]
<1>1. /\ transport # "none" /\ packet # Malformed
      /\ sent = <<>> \/ (Len(sent) = 1 /\ i \in Cuttable /\ ~sent[1].control
                           /\ sent[1].index \in Cuttable)
      /\ SendFrom(i, packet, sender)
  BY DEF Send, SendPacket
<1>2. octets = Octets1(i)
  BY DEF Octets1
<1> HIDE DEF sender, packet
<1>3. /\ ia' = sender /\ SendsOctets(before, octets)
      /\ observed' = IF transport = "TunnelUDP"
                     THEN observed \o RawTelegram(ParseMessage(ToBuffer(packet)).cEMIMessage)
                     ELSE observed
  BY <1>1 DEF SendFrom
<1> HIDE DEF octets
<1>4. /\ sent' = Append(sent, [control |-> FALSE, index |-> i, due |-> Due(octets)])
      /\ line' = line \o octets
      /\ UNCHANGED <<transport, keys, backbone, count, rest, got, acks>>
  <2>1. before.control = FALSE /\ before.index = i
    OBVIOUS
  <2> HIDE DEF before
  <2> QED BY <1>3, <2>1 DEF SendsOctets
<1> QED BY <1>1, <1>2, <1>3, <1>4 DEF SendChanges, Entry, packet, sender

\* What is the same on every transport.
Typed ==
    /\ Sequence(sent) /\ Len(sent) <= 2
    /\ \A k \in 1 .. Len(sent) :
         IF sent[k].control THEN transport = "TunnelUDP" /\ Len(sent) = 1
         ELSE sent[k].index \in 1 .. Len(Calls)
    /\ \A k \in 1 .. Len(sent) : sent[k].control \in BOOLEAN
    /\ transport \in Protocols \cup {"none"}
    /\ transport = "none" => /\ sent = <<>> /\ line = <<>> /\ count = 0 /\ rest = <<>>
                             /\ got = <<>> /\ acks = 0 /\ observed = <<>>
    /\ ia \in Words /\ (transport = "TunnelTCP" => ia # 0)

\* At most two calls are sent, so that their number fits into the sequence counter.
LEMMA SentFew == ASSUME Typed PROVE Len(sent) \in Octet /\ Len(sent) \in Nat /\ Sequence(sent)
<1> DEFINE n == Len(sent)
<1>1. n \in Nat /\ n <= 2
  BY DEF Typed, Sequence
<1> HIDE DEF n
<1>2. n \in Octet
  BY <1>1, OctetIs
<1> QED BY <1>1, <1>2 DEF n, Typed

\* Every step keeps it.
LEMMA TypedStep == ASSUME Typed, Steps PROVE Typed'
<1>1. CASE Idle
  BY <1>1 DEF Idle, link, path, Typed, Sequence
<1>2. CASE Connects
  <2>1. /\ sent' = <<>> /\ line' = <<>> /\ count' = 0 /\ rest' = <<>> /\ got' = <<>> /\ acks' = 0
        /\ observed' = <<>> /\ transport' \in Protocols
    BY <1>2 DEF Connects, Typed, path
  <2>2. ia' \in Words /\ (transport' = "TunnelTCP" => ia' # 0)
    BY <1>2, TunnelAddress DEF Connects, Typed
  <2>3. Sequence(sent') /\ Len(sent') = 0 /\ transport' # "none"
    BY <2>1, EmptySequence DEF Protocols
  <2> QED BY <2>1, <2>2, <2>3 DEF Typed, Sequence
<1>3. CASE \E i \in 1 .. Len(Calls) : Send(i)
  <2>1. PICK i \in 1 .. Len(Calls) : SendChanges(i)
    BY <1>3, SendIs
  <2>2. transport \in Protocols /\ transport' = transport /\ PacketOf(Calls[i]) # Malformed
    BY <2>1 DEF SendChanges, Typed
  <2>3. Len(sent) \in Octet /\ Sequence(sent) /\ Len(sent) \in Nat
    BY SentFew
  <2>4. ia' \in Words /\ (transport' = "TunnelTCP" => ia' # 0)
    <3>1. CASE transport = "SecureMulticast"
      <4> DEFINE packet == PacketOf(Calls[i])
                 sender == SenderOf(packet.cEMIMessage)
      <4>1. ia' = sender /\ transport' # "TunnelTCP"
        BY <2>1, <2>2, <3>1 DEF SendChanges
      <4>2. sender \in Words
        <5>1. PICK ack, npdu : HandsOver(i, CodeFor(Client), ack, npdu)
          BY <2>2, <2>3, CallHandsOver
        <5> DEFINE dst == GroupAddress(Calls[i].dst)
                   t == Telegram(CodeFor(Client), ack, 6, 65535, dst, npdu)
        <5>2. packet = PacketWith(Client, t)
          BY <5>1 DEF HandsOver
        <5>3. packet.cEMIMessage = t
          <6> HIDE DEF t
          <6> QED BY <5>2 DEF PacketWith, RoutingIndication, TunnelingRequest
        <5>4. t.dstAddress = dst /\ t.srcAddress = 65535
          BY DEF Telegram, CEMI
        <5> HIDE DEF t, packet
        <5>5. SenderOf(t) \in Words
          <6>1. t.dstAddress = GroupAddress(Calls[i].dst) /\ ia \in Words
            BY <5>4 DEF Typed
          <6> QED BY <3>1, <5>4, <6>1, SenderIs
        <5> QED BY <5>3, <5>5
      <4> QED BY <4>1, <4>2
    <3>2. CASE transport # "SecureMulticast"
      BY <2>1, <2>2, <3>2 DEF SendChanges, Typed
    <3> QED BY <3>1, <3>2
  <2>5. /\ Sequence(sent') /\ Len(sent') = Len(sent) + 1
        /\ \A k \in 1 .. Len(sent) : sent'[k] = sent[k]
        /\ sent'[Len(sent) + 1] = Entry(i)
    <3>1. AddsOne(sent, Entry(i), sent')
      BY <2>1, <2>3, OneMore DEF SendChanges
    <3> QED BY <3>1 DEF AddsOne
  <2>6. Entry(i).control = FALSE /\ Entry(i).index = i
    BY DEF Entry
  <2>7. Len(sent) = 0 \/ (Len(sent) = 1 /\ ~sent[1].control)
    BY <2>1, EmptySequence DEF SendChanges
  <2>8. ASSUME NEW k \in 1 .. Len(sent')
        PROVE  ~sent'[k].control /\ sent'[k].index \in 1 .. Len(Calls) /\ sent'[k].control \in BOOLEAN
    <3>1. k \in 1 .. Len(sent) \/ k = Len(sent) + 1
      BY <2>3, <2>5
    <3>2. CASE k \in 1 .. Len(sent)
      <4>1. k = 1
        BY <2>7, <3>2
      <4> QED BY <2>5, <2>7, <3>2, <4>1 DEF Typed
    <3>3. CASE k = Len(sent) + 1
      BY <2>5, <2>6, <3>3
    <3> QED BY <3>1, <3>2, <3>3
  <2>9. Len(sent') <= 2
    BY <2>5, <2>7
  <2>10. transport' \in Protocols /\ transport' # "none"
    BY <2>2 DEF Protocols
  <2> HIDE DEF Protocols
  <2> QED BY <2>4, <2>5, <2>8, <2>9, <2>10 DEF Typed
<1>4. CASE \E i \in 1 .. Len(Controls) : SendControl(i)
  <2>1. PICK e : /\ sent = <<>> /\ sent' = Append(sent, e) /\ e.control = TRUE
                 /\ transport = "TunnelUDP" /\ transport' = transport /\ ia' = ia
    <3>1. PICK i \in 1 .. Len(Controls) : SendControl(i)
      BY <1>4
    <3> DEFINE octets == <<PacketToFrame(Controls[i])>>
               e == [control |-> TRUE, index |-> i, due |-> Due(octets)]
    <3>2. /\ transport = "TunnelUDP" /\ sent = <<>> /\ ia' = ia
          /\ SendsOctets([control |-> TRUE, index |-> i], octets)
      BY <3>1 DEF SendControl
    <3> HIDE DEF octets
    <3>3. sent' = Append(sent, e) /\ transport' = transport
      BY <3>2 DEF SendsOctets
    <3>4. e.control = TRUE
      OBVIOUS
    <3> HIDE DEF e
    <3> QED BY <3>2, <3>3, <3>4
  <2>2. Sequence(sent') /\ Len(sent') = 1 /\ sent'[1] = e
    <3>1. AddsOne(<<>>, e, sent')
      BY <2>1, EmptySequence, OneMore
    <3> QED BY <3>1, EmptySequence DEF AddsOne
  <2>3. \A k \in 1 .. Len(sent') : sent'[k].control = TRUE
    <3>1. \A k \in 1 .. 1 : k = 1
      OBVIOUS
    <3> QED BY <2>1, <2>2, <3>1
  <2>4. ia' \in Words /\ transport' \in Protocols /\ transport' = "TunnelUDP"
    BY <2>1 DEF Typed, Protocols
  <2>5. \A k \in 1 .. Len(sent') :
          IF sent'[k].control THEN transport' = "TunnelUDP" /\ Len(sent') = 1
          ELSE sent'[k].index \in 1 .. Len(Calls)
    BY <2>2, <2>3, <2>4
  <2>6. \A k \in 1 .. Len(sent') : sent'[k].control \in BOOLEAN
    BY <2>3
  <2>7. Len(sent') <= 2 /\ transport' # "none" /\ transport' # "TunnelTCP"
    BY <2>2, <2>4
  <2> QED BY <2>2, <2>4, <2>5, <2>6, <2>7 DEF Typed
<1>5. CASE DeliverDatagram \/ (\E n \in Chunks : DeliverTcp(n)) \/ (\E n \in Chunks : DeliverSerial(n))
  <2>1. UNCHANGED <<sent, transport, ia>> /\ transport # "none"
    BY <1>5 DEF DeliverDatagram, DeliverTcp, DeliverSerial, Delivers, link
  <2> QED BY <2>1 DEF Typed, Sequence
<1> QED BY <1>1, <1>2, <1>3, <1>4, <1>5 DEF Steps

-----------------------------------------------------------------------------
(* Conversations over datagrams *)

\* The receiver: its transport, the address of its tunnel, its keys.
Reader == <<transport, IF transport = "TunnelTCP" THEN ia ELSE 0, keys, backbone>>

\* The addresses a telegram may come from, as the receiver sees it.
SourcesBy(r, group) ==
    CASE r[1] = "TunnelUDP" -> {AssignedAddress} [] r[1] = "TunnelTCP" -> {r[2]}
      [] r[1] = "Multicast" -> {65535} [] r[1] = "SerialFT12" -> {InterfaceAddress}
      [] r[1] = "SecureMulticast" ->
           IF group \notin DOMAIN RightKeys THEN {65535}
           ELSE UNION {ToSet(g.senders) : g \in
                  {h \in UNION {ToSet(Ring.interfaces[a].groupAddresses) : a \in DOMAIN Ring.interfaces} :
                     h.address = group}}

\* The receiver has the keys of the project, if it needs any.
KeyedBy(r) == r[1] \in {"TunnelTCP", "SecureMulticast"} => r[3] = RightKeys

\* A message it takes for what a call has sent.
SuitsBy(r, m, c) ==
    /\ m.msgCode = L_DATA_IND /\ m.srcAddress \in SourcesBy(r, m.dstAddress)
    /\ m.dstAddress = GroupAddress(c.dst)
    /\ IsGroupAddress(m.control) /\ Bits(m.control[1], 2, 2) = 3
    /\ KeyedBy(r) => Action(m.npdu) = Service(c) /\ Bears(c, DataValue(m.npdu))

\* What it opens, with its keys.
OpenedBy(r, read) == [i \in 1 .. Len(read) |-> MaybeDecryptDataSecure(read[i], r[3])]

\* What it reads of a datagram or a frame.
ReadBy(r, frame) ==
    CASE r[1] \in {"TunnelUDP", "Multicast"} -> FromDatagram(frame)
      [] r[1] = "SecureMulticast" ->
           LET opened(inner) == IF inner = Malformed THEN <<>> ELSE OpenedBy(r, FromDatagram(inner))
           IN  IF r[4] = <<>> THEN <<>> ELSE opened(SecureDecryptRouting(frame, r[4][1]))
      [] r[1] = "TunnelTCP" -> OpenedBy(r, FromDatagram(SecureDecrypt(frame, ReaderKey)))
      [] r[1] = "SerialFT12" -> FromSerialLine(frame)

\* That is one message, of the call.
Arrives(r, frame, c) == \E m : ReadBy(r, frame) = <<m>> /\ SuitsBy(r, m, c)

\* These are its parts.
LEMMA ReaderIs ==
    /\ Reader[1] = transport /\ (transport = "TunnelTCP" => Reader[2] = ia)
    /\ Reader[3] = keys /\ Reader[4] = backbone
<1> DEFINE own == IF transport = "TunnelTCP" THEN ia ELSE 0
<1>1. transport = "TunnelTCP" => own = ia
  OBVIOUS
<1>2. Reader = <<transport, own, keys, backbone>>
  BY DEF Reader
<1> HIDE DEF own
<1>3. Reader[1] = transport /\ Reader[2] = own /\ Reader[3] = keys /\ Reader[4] = backbone
  BY <1>2
<1> QED BY <1>1, <1>3

\* The addresses a telegram may come from depend on the receiver only.
LEMMA SourcesHere == ASSUME NEW group PROVE Sources(group) = SourcesBy(Reader, group)
<1> DEFINE r == Reader
           senders == UNION {ToSet(g.senders) : g \in
                  {h \in UNION {ToSet(Ring.interfaces[a].groupAddresses) : a \in DOMAIN Ring.interfaces} :
                     h.address = group}}
<1>1. r[1] = transport /\ (transport = "TunnelTCP" => r[2] = ia)
  BY ReaderIs
<1> HIDE DEF r
<1>2. /\ transport = "TunnelUDP" => Sources(group) = {AssignedAddress} /\ SourcesBy(r, group) = {AssignedAddress}
      /\ transport = "TunnelTCP" => Sources(group) = {ia} /\ SourcesBy(r, group) = {ia}
      /\ transport = "Multicast" => Sources(group) = {65535} /\ SourcesBy(r, group) = {65535}
      /\ transport = "SerialFT12" => Sources(group) = {InterfaceAddress} /\ SourcesBy(r, group) = {InterfaceAddress}
  BY <1>1 DEF Sources, SourcesBy
<1> HIDE DEF senders
<1>3. transport = "SecureMulticast" =>
        /\ Sources(group) = IF group \notin DOMAIN RightKeys THEN {65535} ELSE senders
        /\ SourcesBy(r, group) = IF group \notin DOMAIN RightKeys THEN {65535} ELSE senders
  BY <1>1 DEF Sources, SourcesBy, senders
<1>4. transport \in Protocols => Sources(group) = SourcesBy(r, group)
  BY <1>2, <1>3 DEF Protocols
<1>5. transport \notin Protocols => Sources(group) = SourcesBy(r, group)
  <2>1. ASSUME transport \notin Protocols
        PROVE  /\ transport # "TunnelUDP" /\ transport # "TunnelTCP" /\ transport # "Multicast"
               /\ transport # "SecureMulticast" /\ transport # "SerialFT12"
    BY <2>1 DEF Protocols
  <2> QED BY <1>1, <2>1 DEF Sources, SourcesBy
<1> QED BY <1>4, <1>5 DEF r

\* So does what suits a call.
LEMMA SuitsHere == ASSUME NEW m, NEW c PROVE Suits(m, c) <=> SuitsBy(Reader, m, c)
<1> DEFINE r == Reader
           group == m.dstAddress
<1>1. Sources(group) = SourcesBy(r, group)
  BY SourcesHere
<1>2. Keyed <=> KeyedBy(r)
  BY ReaderIs DEF Keyed, KeyedBy
<1> HIDE DEF r
<1> QED BY <1>1, <1>2 DEF Suits, SuitsBy, r

\* So does what is opened.
LEMMA OpenedHere == ASSUME NEW read PROVE Opened(read) = OpenedBy(Reader, read)
<1> DEFINE r == Reader
<1>1. r[3] = keys
  BY ReaderIs
<1> HIDE DEF r
<1> QED BY <1>1 DEF Opened, OpenedBy, r

\* And what is read of a datagram or a frame.
LEMMA ReadHere ==
    ASSUME NEW frame
    PROVE  /\ transport \in {"TunnelUDP", "Multicast"} => ReadBy(Reader, frame) = FromDatagram(frame)
           /\ transport = "SecureMulticast" => ReadBy(Reader, frame) = FromSecureDatagram(frame)
           /\ transport = "TunnelTCP" => ReadBy(Reader, frame) = FromSecureFrame(frame)
           /\ transport = "SerialFT12" => ReadBy(Reader, frame) = FromSerialLine(frame)
<1> DEFINE r == Reader
<1>1. r[1] = transport /\ r[3] = keys /\ r[4] = backbone
  BY ReaderIs
<1>2. \A read : Opened(read) = OpenedBy(r, read)
  BY OpenedHere
<1> HIDE DEF r
<1>3. transport \in {"TunnelUDP", "Multicast"} => ReadBy(r, frame) = FromDatagram(frame)
  BY <1>1 DEF ReadBy
<1>4. transport = "SerialFT12" => ReadBy(r, frame) = FromSerialLine(frame)
  BY <1>1 DEF ReadBy
<1>5. transport = "TunnelTCP" => ReadBy(r, frame) = FromSecureFrame(frame)
  <2>1. transport = "TunnelTCP" =>
          ReadBy(r, frame) = OpenedBy(r, FromDatagram(SecureDecrypt(frame, ReaderKey)))
    BY <1>1 DEF ReadBy
  <2> QED BY <1>2, <2>1 DEF FromSecureFrame
<1>6. transport = "SecureMulticast" => ReadBy(r, frame) = FromSecureDatagram(frame)
  <2> DEFINE inner == SecureDecryptRouting(frame, backbone[1])
             value == IF backbone = <<>> THEN <<>>
                      ELSE IF inner = Malformed THEN <<>> ELSE OpenedBy(r, FromDatagram(inner))
  <2>1. FromSecureDatagram(frame) = value
    <3>1. Opened(FromDatagram(inner)) = OpenedBy(r, FromDatagram(inner))
      BY <1>2
    <3> QED BY <3>1 DEF FromSecureDatagram
  <2>2. transport = "SecureMulticast" => ReadBy(r, frame) = value
    BY <1>1 DEF ReadBy
  <2> HIDE DEF value
  <2> QED BY <2>1, <2>2
<1> QED BY <1>3, <1>4, <1>5, <1>6 DEF r

\* And what arrives.
LEMMA ArrivesHere ==
    ASSUME NEW read, NEW frame, NEW c, ArrivesAs(read, c), ReadBy(Reader, frame) = read
    PROVE  Arrives(Reader, frame, c)
  BY SuitsHere DEF ArrivesAs, Arrives

\* Datagrams: as many were delivered as messages received, the others are under way.
DatagramsOf(r, s, l, n, g) ==
    /\ Sequence(s) /\ Sequence(l) /\ Sequence(g)
    /\ n = Len(g) /\ Len(s) = n + Len(l)
    /\ \A k \in 1 .. Len(s) : s[k].due = k
    /\ \A k \in 1 .. Len(l) : Arrives(r, l[k], Calls[s[n + k].index])
    /\ \A k \in 1 .. Len(g) : SuitsBy(r, g[k], Calls[s[k].index])

\* A call adds one datagram to those under way.
LEMMA DatagramSent ==
    ASSUME NEW r, NEW s, NEW l, NEW n, NEW g, DatagramsOf(r, s, l, n, g),
           NEW e, e.due = n + Len(l) + 1, NEW frame, Arrives(r, frame, Calls[e.index])
    PROVE  DatagramsOf(r, Append(s, e), l \o <<frame>>, n, g)
<1> DEFINE s2 == Append(s, e)
           l2 == l \o <<frame>>
<1>1. /\ Sequence(s) /\ Sequence(l) /\ Sequence(g) /\ n = Len(g) /\ Len(s) = n + Len(l)
      /\ Len(l) \in Nat /\ Len(g) \in Nat /\ Len(s) \in Nat
      /\ \A k \in 1 .. Len(s) : s[k].due = k
      /\ \A k \in 1 .. Len(l) : Arrives(r, l[k], Calls[s[n + k].index])
      /\ \A k \in 1 .. Len(g) : SuitsBy(r, g[k], Calls[s[k].index])
  BY DEF DatagramsOf, Sequence
<1>2. AddsOne(s, e, s2)
  BY <1>1, OneMore
<1>3. AddsOne(l, frame, l2)
  <2>1. AddsOne(l, frame, Append(l, frame))
    BY <1>1, OneMore
  <2> QED BY <2>1 DEF AddsOne
<1> HIDE DEF s2, l2
<1>4. /\ Sequence(s2) /\ Len(s2) = Len(s) + 1 /\ s2[Len(s) + 1] = e
      /\ \A k \in 1 .. Len(s) : s2[k] = s[k]
      /\ Sequence(l2) /\ Len(l2) = Len(l) + 1 /\ l2[Len(l) + 1] = frame
      /\ \A k \in 1 .. Len(l) : l2[k] = l[k]
  BY <1>2, <1>3 DEF AddsOne
<1>5. Len(s2) = n + Len(l2)
  BY <1>1, <1>4
<1>6. ASSUME NEW k \in 1 .. Len(s2) PROVE s2[k].due = k
  <2>1. k \in 1 .. Len(s) \/ k = Len(s) + 1
    <3>1. Len(s2) = Len(s) + 1 /\ Len(s) \in Nat
      BY <1>1, <1>4
    <3> QED BY <3>1
  <2>2. CASE k \in 1 .. Len(s)
    BY <1>1, <1>4, <2>2
  <2>3. CASE k = Len(s) + 1
    <3>1. k = n + Len(l) + 1 /\ s2[k] = e
      BY <1>1, <1>4, <2>3
    <3> QED BY <3>1
  <2> QED BY <2>1, <2>2, <2>3
<1>7. ASSUME NEW k \in 1 .. Len(l2) PROVE Arrives(r, l2[k], Calls[s2[n + k].index])
  <2>1. k \in 1 .. Len(l) \/ k = Len(l) + 1
    BY <1>1, <1>4
  <2>2. CASE k \in 1 .. Len(l)
    <3>1. n + k \in 1 .. Len(s) /\ l2[k] = l[k]
      BY <1>1, <1>4, <2>2
    <3>2. s2[n + k] = s[n + k]
      BY <1>4, <3>1
    <3> QED BY <1>1, <2>2, <3>1, <3>2
  <2>3. CASE k = Len(l) + 1
    <3>1. n + k = Len(s) + 1 /\ l2[k] = frame
      BY <1>1, <1>4, <2>3
    <3>2. s2[n + k] = e
      BY <1>4, <3>1
    <3> QED BY <3>1, <3>2
  <2> QED BY <2>1, <2>2, <2>3
<1>8. ASSUME NEW k \in 1 .. Len(g) PROVE SuitsBy(r, g[k], Calls[s2[k].index])
  <2>1. k \in 1 .. Len(s)
    BY <1>1
  <2>2. s2[k] = s[k]
    BY <1>4, <2>1
  <2> QED BY <1>1, <2>2
<1>9. DatagramsOf(r, s2, l2, n, g)
  BY <1>1, <1>4, <1>5, <1>6, <1>7, <1>8 DEF DatagramsOf
<1> QED BY <1>9 DEF s2, l2

\* A delivery takes the first of them and adds its one message.
LEMMA DatagramTaken ==
    ASSUME NEW r, NEW s, NEW l, NEW n, NEW g, DatagramsOf(r, s, l, n, g), l # <<>>
    PROVE  DatagramsOf(r, s, SubSeq(l, 1 + 1, Len(l)), n + 1, g \o ReadBy(r, Head(l)))
<1> DEFINE l2 == SubSeq(l, 1 + 1, Len(l))
           read == ReadBy(r, Head(l))
<1>1. /\ Sequence(s) /\ Sequence(l) /\ Sequence(g) /\ n = Len(g) /\ Len(s) = n + Len(l)
      /\ Len(l) \in Nat /\ Len(g) \in Nat /\ Len(s) \in Nat
      /\ \A k \in 1 .. Len(s) : s[k].due = k
      /\ \A k \in 1 .. Len(l) : Arrives(r, l[k], Calls[s[n + k].index])
      /\ \A k \in 1 .. Len(g) : SuitsBy(r, g[k], Calls[s[k].index])
  BY DEF DatagramsOf, Sequence
<1>2. Len(l) # 0 /\ Head(l) = l[1]
  <2>1. l \in Seq(ElementsOf(l))
    BY <1>1, SequenceOf
  <2> QED BY <2>1
<1>3. 1 \in 1 .. Len(l) /\ 1 \in 0 .. Len(l)
  BY <1>1, <1>2
<1>4. PICK m : read = <<m>> /\ SuitsBy(r, m, Calls[s[n + 1].index])
  BY <1>1, <1>2, <1>3 DEF Arrives
<1>5. /\ Sequence(l2) /\ Len(l2) = Len(l) - 1
      /\ \A k \in 1 .. Len(l2) : l2[k] = l[1 + k]
  BY <1>1, <1>3, WithoutFirst
<1> HIDE DEF read, l2
<1> DEFINE g2 == g \o read
<1>6. AddsOne(g, m, g2)
  <2>1. AddsOne(g, m, Append(g, m))
    BY <1>1, OneMore
  <2> QED BY <1>4, <2>1 DEF AddsOne
<1> HIDE DEF g2
<1>7. /\ Sequence(g2) /\ Len(g2) = n + 1 /\ g2[n + 1] = m
      /\ \A k \in 1 .. n : g2[k] = g[k]
  BY <1>1, <1>6 DEF AddsOne
<1>8. Len(s) = (n + 1) + Len(l2)
  BY <1>1, <1>2, <1>5
<1>9. ASSUME NEW k \in 1 .. Len(l2) PROVE Arrives(r, l2[k], Calls[s[(n + 1) + k].index])
  <2>1. 1 + k \in 1 .. Len(l) /\ n + (1 + k) = (n + 1) + k
    BY <1>1, <1>5
  <2> QED BY <1>1, <1>5, <2>1
<1>10. ASSUME NEW k \in 1 .. Len(g2) PROVE SuitsBy(r, g2[k], Calls[s[k].index])
  <2>1. k \in 1 .. n \/ k = n + 1
    BY <1>1, <1>7
  <2>2. CASE k \in 1 .. n
    BY <1>1, <1>7, <2>2
  <2>3. CASE k = n + 1
    BY <1>4, <1>7, <2>3
  <2> QED BY <2>1, <2>2, <2>3
<1>11. DatagramsOf(r, s, l2, n + 1, g2)
  BY <1>1, <1>5, <1>7, <1>8, <1>9, <1>10 DEF DatagramsOf
<1> QED BY <1>11 DEF l2, read, g2

\* The receivers of secure routing hold the key of the backbone.
Linked == transport = "SecureMulticast" => backbone = BackboneKey /\ backbone # <<>>

\* No control packet was sent.
NoControl == \A k \in 1 .. Len(sent) : ~sent[k].control

\* The transports that send one datagram per packet.
ByDatagram == transport \in {"TunnelUDP", "Multicast", "SecureMulticast"}

\* The conversation over them.
DatagramInv == ByDatagram /\ NoControl /\ Linked => DatagramsOf(Reader, sent, line, count, got)

\* Over the transports of datagrams a call is one datagram.
LEMMA CallIsDatagram ==
    ASSUME Typed, ByDatagram, Linked, NEW i \in 1 .. Len(Calls), PacketOf(Calls[i]) # Malformed
    PROVE  \E frame : Octets1(i) = <<frame>> /\ Arrives(Reader, frame, Calls[i])
<1> DEFINE packet == PacketOf(Calls[i])
<1>1. Len(sent) \in Octet /\ Len(sent) \in Nat
  BY SentFew
<1>2. CASE transport = "TunnelUDP"
  <2> DEFINE frame == ThroughServer(ToBuffer(packet))
  <2>1. Octets1(i) = <<frame>>
    BY <1>2 DEF Octets1, OnLine
  <2>2. ArrivesAs(FromDatagram(frame), Calls[i])
    BY <1>1, <1>2, UdpArrives
  <2> HIDE DEF frame
  <2>3. ReadBy(Reader, frame) = FromDatagram(frame)
    BY <1>2, ReadHere
  <2> QED BY <2>1, <2>2, <2>3, ArrivesHere
<1>3. CASE transport = "Multicast"
  <2> DEFINE frame == ToBuffer(packet)
  <2>1. Octets1(i) = <<frame>>
    BY <1>3 DEF Octets1, OnLine
  <2>2. ArrivesAs(FromDatagram(frame), Calls[i])
    BY <1>1, <1>3, MulticastArrives
  <2> HIDE DEF frame
  <2>3. ReadBy(Reader, frame) = FromDatagram(frame)
    BY <1>3, ReadHere
  <2> QED BY <2>1, <2>2, <2>3, ArrivesHere
<1>4. CASE transport = "SecureMulticast"
  <2> DEFINE frame == SecuredRouting(packet, SenderOf(packet.cEMIMessage))
  <2>1. Octets1(i) = <<frame>>
    BY <1>4 DEF Octets1, OnLine
  <2>2. ArrivesAs(FromSecureDatagram(frame), Calls[i])
    <3>1. ia \in Words /\ backbone = BackboneKey /\ backbone # <<>>
      BY <1>4 DEF Typed, Linked
    <3> QED BY <1>1, <1>4, <3>1, SecureMulticastArrives
  <2> HIDE DEF frame
  <2>3. ReadBy(Reader, frame) = FromSecureDatagram(frame)
    BY <1>4, ReadHere
  <2> QED BY <2>1, <2>2, <2>3, ArrivesHere
<1> QED BY <1>2, <1>3, <1>4 DEF ByDatagram

\* Neither a call nor a delivery changes the receiver.
LEMMA ReaderStays ==
    /\ \A i \in 1 .. Len(Calls) : SendChanges(i) => Reader' = Reader
    /\ DeliverDatagram => Reader' = Reader
    /\ \A n : DeliverTcp(n) => Reader' = Reader
    /\ \A n : DeliverSerial(n) => Reader' = Reader
<1>1. ASSUME UNCHANGED <<transport, keys, backbone>>, transport = "TunnelTCP" => ia' = ia
      PROVE  Reader' = Reader
  BY <1>1 DEF Reader
<1>2. ASSUME NEW i \in 1 .. Len(Calls), SendChanges(i) PROVE Reader' = Reader
  BY <1>1, <1>2 DEF SendChanges
<1>3. ASSUME UNCHANGED link PROVE Reader' = Reader
  BY <1>1, <1>3 DEF link
<1>4. DeliverDatagram => Reader' = Reader
  BY <1>3 DEF DeliverDatagram, Delivers
<1>5. \A n : DeliverTcp(n) => Reader' = Reader
  BY <1>3 DEF DeliverTcp, Delivers
<1>6. \A n : DeliverSerial(n) => Reader' = Reader
  BY <1>3 DEF DeliverSerial, Delivers
<1> QED BY <1>2, <1>4, <1>5, <1>6

\* Before the first call there are none.
LEMMA NoDatagrams == ASSUME NEW r PROVE DatagramsOf(r, <<>>, <<>>, 0, <<>>)
  BY EmptySequence DEF DatagramsOf

\* Every step keeps it.
LEMMA DatagramStep == ASSUME Typed, DatagramInv, Steps PROVE DatagramInv'
<1>1. CASE Idle
  <2>1. UNCHANGED <<transport, ia, keys, backbone, sent, line, count, got>>
    BY <1>1 DEF Idle, link, path
  <2>2. Reader' = Reader
    BY <2>1 DEF Reader
  <2>3. (ByDatagram /\ NoControl /\ Linked)' => ByDatagram /\ NoControl /\ Linked
    BY <2>1 DEF ByDatagram, NoControl, Linked
  <2> QED BY <2>1, <2>2, <2>3 DEF DatagramInv
<1>2. CASE Connects
  <2>1. sent' = <<>> /\ line' = <<>> /\ count' = 0 /\ got' = <<>>
    BY <1>2 DEF Connects, Typed, path
  <2>2. DatagramsOf(Reader', sent', line', count', got')
    BY <2>1, NoDatagrams
  <2> QED BY <2>2 DEF DatagramInv
<1>3. CASE \E i \in 1 .. Len(Calls) : Send(i)
  <2>1. PICK i \in 1 .. Len(Calls) : SendChanges(i)
    BY <1>3, SendIs
  <2>2. /\ PacketOf(Calls[i]) # Malformed /\ sent' = Append(sent, Entry(i)) /\ line' = line \o Octets1(i)
        /\ UNCHANGED <<transport, keys, backbone, count, got>>
    BY <2>1 DEF SendChanges
  <2>3. Reader' = Reader
    BY <2>1, ReaderStays
  <2>4. Sequence(sent) /\ Len(sent) \in Nat
    BY SentFew
  <2> SUFFICES ASSUME ByDatagram', NoControl', Linked'
               PROVE  DatagramsOf(Reader, sent', line', count', got')
    BY <2>3 DEF DatagramInv
  <2>5. ByDatagram /\ Linked
    BY <2>2 DEF ByDatagram, Linked
  <2>6. NoControl
    <3>1. AddsOne(sent, Entry(i), sent')
      BY <2>2, <2>4, OneMore
    <3>2. \A k \in 1 .. Len(sent) : k \in 1 .. Len(sent') /\ sent'[k] = sent[k]
      BY <2>4, <3>1 DEF AddsOne
    <3> QED BY <3>2 DEF NoControl
  <2>7. DatagramsOf(Reader, sent, line, count, got)
    BY <2>5, <2>6 DEF DatagramInv
  <2>8. PICK frame : Octets1(i) = <<frame>> /\ Arrives(Reader, frame, Calls[i])
    BY <2>2, <2>5, CallIsDatagram
  <2> DEFINE e == Entry(i)
             r == Reader
  <2>9. e.due = count + Len(line) + 1 /\ e.index = i
    <3>1. e.due = count + Len(line) + Len(<<frame>>) /\ e.index = i
      BY <2>8 DEF Entry, Due
    <3> QED BY <3>1
  <2> HIDE DEF e, r
  <2>10. DatagramsOf(r, Append(sent, e), line \o <<frame>>, count, got)
    BY <2>7, <2>8, <2>9, DatagramSent DEF r
  <2> QED BY <2>2, <2>8, <2>10 DEF e, r
<1>4. CASE \E i \in 1 .. Len(Controls) : SendControl(i)
  <2>1. PICK e : sent = <<>> /\ sent' = Append(sent, e) /\ e.control = TRUE
    BY <1>4 DEF SendControl, SendsOctets
  <2>2. AddsOne(<<>>, e, sent')
    BY <2>1, EmptySequence, OneMore
  <2>3. Len(sent') = 1 /\ sent'[1] = e
    BY <2>2, EmptySequence DEF AddsOne
  <2>4. ~NoControl'
    <3>1. 1 \in 1 .. Len(sent') /\ sent'[1].control = TRUE
      BY <2>1, <2>3
    <3> QED BY <3>1 DEF NoControl
  <2> QED BY <2>4 DEF DatagramInv
<1>5. CASE DeliverDatagram
  <2>1. /\ line # <<>> /\ line' = SubSeq(line, 1 + 1, Len(line)) /\ count' = count + 1
        /\ UNCHANGED <<transport, ia, keys, backbone, sent>>
        /\ got' = got \o IF transport = "SecureMulticast" THEN FromSecureDatagram(Head(line))
                         ELSE FromDatagram(Head(line))
        /\ ByDatagram
    BY <1>5 DEF DeliverDatagram, Delivers, link, ByDatagram
  <2>2. Reader' = Reader
    BY <1>5, ReaderStays
  <2>3. got' = got \o ReadBy(Reader, Head(line))
    <3>1. transport = "SecureMulticast" \/ transport \in {"TunnelUDP", "Multicast"}
      BY <2>1 DEF ByDatagram
    <3> QED BY <2>1, <3>1, ReadHere
  <2> SUFFICES ASSUME NoControl', Linked'
               PROVE  DatagramsOf(Reader, sent', line', count', got')
    BY <2>2 DEF DatagramInv
  <2>4. NoControl /\ Linked
    BY <2>1 DEF NoControl, Linked
  <2>5. DatagramsOf(Reader, sent, line, count, got)
    BY <2>1, <2>4 DEF DatagramInv
  <2> DEFINE r == Reader
             read == ReadBy(r, Head(line))
  <2> HIDE DEF r
  <2>6. DatagramsOf(r, sent, SubSeq(line, 1 + 1, Len(line)), count + 1, got \o read)
    BY <2>1, <2>5, DatagramTaken DEF r
  <2> QED BY <2>1, <2>3, <2>6 DEF r
<1>6. CASE (\E n \in Chunks : DeliverTcp(n)) \/ (\E n \in Chunks : DeliverSerial(n))
  <2>1. ~ByDatagram'
    BY <1>6 DEF DeliverTcp, DeliverSerial, Delivers, link, ByDatagram
  <2> QED BY <2>1 DEF DatagramInv
<1> QED BY <1>1, <1>2, <1>3, <1>4, <1>5, <1>6 DEF Steps

-----------------------------------------------------------------------------
(* What the tunnelling server reports *)

\* The tunnelling server reports one raw telegram per call, and none of a control packet.
ObservedBy(s, o) ==
    /\ Sequence(o) /\ Len(o) = Len(s)
    /\ \A k \in 1 .. Len(o) : SaysOf(o[k], Calls[s[k].index])

ObservedInv ==
    IF transport = "TunnelUDP" /\ NoControl THEN ObservedBy(sent, observed) ELSE observed = <<>>

\* A control packet is one datagram, of which the receiver hears once at most.
ControlsOf(l, g) == Sequence(l) /\ Sequence(g) /\ Len(l) + Len(g) <= 1

ControlInv == ~NoControl => ControlsOf(line, got)

\* Before the first call nothing is reported.
LEMMA NoneObserved == ObservedBy(<<>>, <<>>)
  BY EmptySequence DEF ObservedBy

\* A call adds its report.
LEMMA OneObserved ==
    ASSUME NEW s, NEW o, ObservedBy(s, o), Sequence(s), NEW e, NEW seen, Reports(seen, Calls[e.index])
    PROVE  ObservedBy(Append(s, e), o \o seen)
<1> DEFINE s2 == Append(s, e)
<1>1. /\ Sequence(o) /\ Len(o) = Len(s) /\ Len(s) \in Nat
      /\ \A k \in 1 .. Len(o) : SaysOf(o[k], Calls[s[k].index])
  BY DEF ObservedBy, Sequence
<1>2. PICK x : seen = <<x>> /\ SaysOf(x, Calls[e.index])
  BY DEF Reports
<1> DEFINE o2 == Append(o, x)
<1>3. AddsOne(s, e, s2) /\ AddsOne(o, x, o2)
  BY <1>1, OneMore
<1> HIDE DEF s2, o2
<1>4. /\ Len(s2) = Len(s) + 1 /\ s2[Len(s) + 1] = e /\ \A k \in 1 .. Len(s) : s2[k] = s[k]
      /\ Sequence(o2) /\ Len(o2) = Len(s) + 1 /\ o2[Len(s) + 1] = x
      /\ \A k \in 1 .. Len(s) : o2[k] = o[k]
      /\ o2 = o \o <<x>>
  BY <1>1, <1>3 DEF AddsOne
<1>5. ASSUME NEW k \in 1 .. Len(o2) PROVE SaysOf(o2[k], Calls[s2[k].index])
  <2>1. k \in 1 .. Len(s) \/ k = Len(s) + 1
    BY <1>1, <1>4
  <2>2. CASE k \in 1 .. Len(s)
    BY <1>1, <1>4, <2>2
  <2>3. CASE k = Len(s) + 1
    BY <1>2, <1>4, <2>3
  <2> QED BY <2>1, <2>2, <2>3
<1>6. ObservedBy(s2, o2)
  BY <1>4, <1>5 DEF ObservedBy
<1>7. o \o seen = o2
  BY <1>2, <1>4
<1> QED BY <1>6, <1>7 DEF s2

\* A call is only sent when no control packet was; a control packet when nothing was.
LEMMA NoControlSent ==
    ASSUME Typed, NEW i \in 1 .. Len(Calls), SendChanges(i)
    PROVE  NoControl /\ NoControl'
<1>1. /\ sent' = Append(sent, Entry(i))
      /\ sent = <<>> \/ (Len(sent) = 1 /\ ~sent[1].control)
  BY DEF SendChanges
<1>2. Sequence(sent) /\ Len(sent) \in Nat
  BY SentFew
<1>3. NoControl
  <2>1. CASE sent = <<>>
    <3>1. Len(sent) = 0
      BY <2>1, EmptySequence
    <3> QED BY <3>1 DEF NoControl
  <2>2. CASE Len(sent) = 1 /\ ~sent[1].control
    <3>1. \A k \in 1 .. 1 : k = 1
      OBVIOUS
    <3> QED BY <2>2, <3>1 DEF NoControl
  <2> QED BY <1>1, <2>1, <2>2
<1>4. AddsOne(sent, Entry(i), sent')
  BY <1>1, <1>2, OneMore
<1>5. /\ Len(sent') = Len(sent) + 1 /\ sent'[Len(sent) + 1] = Entry(i)
      /\ \A k \in 1 .. Len(sent) : sent'[k] = sent[k]
  BY <1>4 DEF AddsOne
<1>6. Entry(i).control = FALSE
  BY DEF Entry
<1>7. ASSUME NEW k \in 1 .. Len(sent') PROVE ~sent'[k].control
  <2>1. k \in 1 .. Len(sent) \/ k = Len(sent) + 1
    BY <1>2, <1>5
  <2>2. CASE k \in 1 .. Len(sent)
    BY <1>3, <1>5, <2>2 DEF NoControl
  <2>3. CASE k = Len(sent) + 1
    BY <1>5, <1>6, <2>3
  <2> QED BY <2>1, <2>2, <2>3
<1>8. NoControl'
  BY <1>7 DEF NoControl
<1> QED BY <1>3, <1>8

\* A control packet is one datagram over TunnelUDP.
LEMMA ControlSent ==
    ASSUME NEW i \in 1 .. Len(Controls), SendControl(i)
    PROVE  /\ sent = <<>> /\ ~NoControl' /\ transport = "TunnelUDP" /\ transport' = transport
           /\ UNCHANGED <<observed, got>> /\ \E frame : line' = line \o <<frame>>
<1> DEFINE octets == <<PacketToFrame(Controls[i])>>
           before == [control |-> TRUE, index |-> i]
           e == [control |-> TRUE, index |-> i, due |-> Due(octets)]
<1>1. /\ transport = "TunnelUDP" /\ sent = <<>> /\ SendsOctets(before, octets)
      /\ observed' = observed
  BY DEF SendControl
<1>2. \E frame : octets = <<frame>>
  OBVIOUS
<1>3. before.control = TRUE /\ before.index = i /\ e.control = TRUE
  OBVIOUS
<1> HIDE DEF octets, before
<1>4. sent' = Append(sent, e) /\ line' = line \o octets /\ transport' = transport /\ got' = got
  BY <1>1, <1>3 DEF SendsOctets
<1> HIDE DEF e
<1>5. AddsOne(<<>>, e, sent')
  BY <1>1, <1>4, EmptySequence, OneMore
<1>6. Len(sent') = 1 /\ sent'[1] = e
  BY <1>5, EmptySequence DEF AddsOne
<1>7. ~NoControl'
  <2>1. 1 \in 1 .. Len(sent') /\ sent'[1].control = TRUE
    BY <1>3, <1>6
  <2> QED BY <2>1 DEF NoControl
<1> QED BY <1>1, <1>2, <1>4, <1>7

\* Every step keeps what was reported.
LEMMA ObservedStep == ASSUME Typed, ObservedInv, Steps PROVE ObservedInv'
<1>1. CASE Idle
  <2>1. UNCHANGED <<transport, sent, observed>>
    BY <1>1 DEF Idle, link, path
  <2>2. NoControl' <=> NoControl
    BY <2>1 DEF NoControl
  <2> QED BY <2>1, <2>2 DEF ObservedInv
<1>2. CASE Connects
  <2>1. sent' = <<>> /\ observed' = <<>>
    BY <1>2 DEF Connects, Typed, path
  <2>2. ObservedBy(sent', observed')
    BY <2>1, NoneObserved
  <2> QED BY <2>1, <2>2 DEF ObservedInv
<1>3. CASE \E i \in 1 .. Len(Calls) : Send(i)
  <2>1. PICK i \in 1 .. Len(Calls) : SendChanges(i)
    BY <1>3, SendIs
  <2>2. /\ transport' = transport /\ PacketOf(Calls[i]) # Malformed /\ sent' = Append(sent, Entry(i))
        /\ transport = "TunnelUDP" =>
             observed' = observed \o RawTelegram(ParseMessage(ToBuffer(PacketOf(Calls[i]))).cEMIMessage)
        /\ transport # "TunnelUDP" => observed' = observed
    BY <2>1 DEF SendChanges
  <2>3. NoControl /\ NoControl'
    BY <2>1, NoControlSent
  <2>4. Len(sent) \in Octet /\ Sequence(sent)
    BY SentFew
  <2>5. CASE transport = "TunnelUDP"
    <3> DEFINE seen == RawTelegram(ParseMessage(ToBuffer(PacketOf(Calls[i]))).cEMIMessage)
               e == Entry(i)
    <3>1. ObservedBy(sent, observed)
      BY <2>3, <2>5 DEF ObservedInv
    <3>2. e.index = i
      BY DEF Entry
    <3>3. Reports(seen, Calls[i])
      BY <2>2, <2>4, <2>5, UdpReported
    <3> HIDE DEF seen, e
    <3>4. ObservedBy(Append(sent, e), observed \o seen)
      BY <2>4, <3>1, <3>2, <3>3, OneObserved
    <3>5. sent' = Append(sent, e) /\ observed' = observed \o seen
      BY <2>2, <2>5 DEF seen, e
    <3> QED BY <2>2, <2>3, <2>5, <3>4, <3>5 DEF ObservedInv
  <2>6. CASE transport # "TunnelUDP"
    BY <2>2, <2>6 DEF ObservedInv
  <2> QED BY <2>5, <2>6
<1>4. CASE \E i \in 1 .. Len(Controls) : SendControl(i)
  <2>1. sent = <<>> /\ ~NoControl' /\ transport = "TunnelUDP" /\ observed' = observed
    BY <1>4, ControlSent
  <2>2. NoControl
    BY <2>1, EmptySequence DEF NoControl
  <2>3. Sequence(observed) /\ Len(observed) = 0
    BY <2>1, <2>2, EmptySequence DEF ObservedInv, ObservedBy
  <2>4. observed \in Seq({})
    <3>1. ElementsOf(observed) \subseteq {}
      BY <2>3 DEF ElementsOf
    <3> QED BY <2>3, <3>1, SequenceOf
  <2>5. observed = <<>>
    BY <2>3, <2>4
  <2> QED BY <2>1, <2>5 DEF ObservedInv
<1>5. CASE DeliverDatagram \/ (\E n \in Chunks : DeliverTcp(n)) \/ (\E n \in Chunks : DeliverSerial(n))
  <2>1. UNCHANGED <<transport, sent, observed>>
    BY <1>5 DEF DeliverDatagram, DeliverTcp, DeliverSerial, Delivers, link
  <2>2. NoControl' <=> NoControl
    BY <2>1 DEF NoControl
  <2> QED BY <2>1, <2>2 DEF ObservedInv
<1> QED BY <1>1, <1>2, <1>3, <1>4, <1>5 DEF Steps

\* A delivery takes it off the way.
LEMMA HeardOnce ==
    ASSUME NEW l, NEW g, ControlsOf(l, g), l # <<>>, NEW frame
    PROVE  ControlsOf(SubSeq(l, 1 + 1, Len(l)), g \o FromDatagram(frame))
<1> DEFINE l2 == SubSeq(l, 1 + 1, Len(l))
           read == FromDatagram(frame)
           g2 == g \o read
<1>1. Sequence(l) /\ Sequence(g) /\ Len(l) + Len(g) <= 1 /\ Len(l) \in Nat /\ Len(g) \in Nat
  BY DEF ControlsOf, Sequence
<1>2. Len(l) # 0
  <2>1. l \in Seq(ElementsOf(l))
    BY <1>1, SequenceOf
  <2> QED BY <2>1
<1>3. Len(l) = 1 /\ Len(g) = 0 /\ 1 \in 0 .. Len(l)
  BY <1>1, <1>2
<1>4. Sequence(l2) /\ Len(l2) = 0
  <2>1. Sequence(l2) /\ Len(l2) = Len(l) - 1
    BY <1>1, <1>3, WithoutFirst
  <2> QED BY <1>3, <2>1
<1>5. read = <<>> \/ \E x : read = <<x>>
  BY DEF FromDatagram, Heard
<1>6. Sequence(read) /\ Len(read) <= 1 /\ Len(read) \in Nat
  BY <1>5, EmptySequence, OneElement
<1> HIDE DEF l2, read
<1>7. Sequence(g2) /\ Len(g2) = Len(g) + Len(read)
  BY <1>1, <1>6, JoinedSequence DEF JoinsTo
<1> HIDE DEF g2
<1>8. ControlsOf(l2, g2)
  BY <1>3, <1>4, <1>6, <1>7 DEF ControlsOf
<1> QED BY <1>8 DEF l2, g2, read

\* Every step keeps that there is one.
LEMMA ControlStep == ASSUME Typed, DatagramInv, ControlInv, Steps PROVE ControlInv'
<1>1. CASE Idle
  <2>1. UNCHANGED <<sent, line, got>>
    BY <1>1 DEF Idle, path
  <2>2. NoControl' <=> NoControl
    BY <2>1 DEF NoControl
  <2> QED BY <2>1, <2>2 DEF ControlInv
<1>2. CASE Connects
  <2>1. sent' = <<>>
    BY <1>2 DEF Connects, Typed, path
  <2>2. NoControl'
    BY <2>1, EmptySequence DEF NoControl
  <2> QED BY <2>2 DEF ControlInv
<1>3. CASE \E i \in 1 .. Len(Calls) : Send(i)
  BY <1>3, SendIs, NoControlSent DEF ControlInv
<1>4. CASE \E i \in 1 .. Len(Controls) : SendControl(i)
  <2>1. sent = <<>> /\ transport = "TunnelUDP" /\ got' = got
    BY <1>4, ControlSent
  <2>2. PICK frame : line' = line \o <<frame>>
    BY <1>4, ControlSent
  <2>3. ByDatagram /\ Linked /\ NoControl
    BY <2>1, EmptySequence DEF ByDatagram, Linked, NoControl
  <2>4. DatagramsOf(Reader, sent, line, count, got)
    BY <2>3 DEF DatagramInv
  <2>5. Sequence(line) /\ Sequence(got) /\ Len(line) + Len(got) = 0 /\ Len(line) \in Nat /\ Len(got) \in Nat
    BY <2>1, <2>4, EmptySequence DEF DatagramsOf, Sequence
  <2>6. AddsOne(line, frame, Append(line, frame))
    BY <2>5, OneMore
  <2>7. Sequence(line') /\ Len(line') = Len(line) + 1
    BY <2>2, <2>6 DEF AddsOne
  <2> QED BY <2>1, <2>5, <2>7 DEF ControlInv, ControlsOf
<1>5. CASE DeliverDatagram \/ (\E n \in Chunks : DeliverTcp(n)) \/ (\E n \in Chunks : DeliverSerial(n))
  <2>1. UNCHANGED <<transport, sent>>
    BY <1>5 DEF DeliverDatagram, DeliverTcp, DeliverSerial, Delivers, link
  <2>2. NoControl' <=> NoControl
    BY <2>1 DEF NoControl
  <2> SUFFICES ASSUME ~NoControl PROVE ControlsOf(line', got')
    BY <2>2 DEF ControlInv
  <2>3. transport = "TunnelUDP"
    BY DEF NoControl, Typed
  <2>4. DeliverDatagram
    BY <1>5, <2>3 DEF DeliverTcp, DeliverSerial
  <2>5. /\ line # <<>> /\ line' = SubSeq(line, 1 + 1, Len(line))
        /\ got' = got \o FromDatagram(Head(line))
    BY <2>3, <2>4 DEF DeliverDatagram, Delivers
  <2>6. ControlsOf(line, got)
    BY DEF ControlInv
  <2> DEFINE frame == Head(line)
  <2> HIDE DEF frame
  <2>7. ControlsOf(SubSeq(line, 1 + 1, Len(line)), got \o FromDatagram(frame))
    BY <2>5, <2>6, HeardOnce
  <2> QED BY <2>5, <2>7 DEF frame
<1> QED BY <1>1, <1>2, <1>3, <1>4, <1>5 DEF Steps

-----------------------------------------------------------------------------
(* What the properties ask for *)

\* As many messages as calls whose octets have all arrived, each of its call.
MessagesOf(r, s, n, g) ==
    /\ Sequence(g) /\ Len(g) <= Len(s)
    /\ Len(g) = Cardinality({i \in 1 .. Len(s) : s[i].due <= n})
    /\ \A k \in 1 .. Len(g) : SuitsBy(r, g[k], Calls[s[k].index])

\* So it is of datagrams: each has arrived whole or not at all.
LEMMA DatagramMessages ==
    ASSUME NEW r, NEW s, NEW l, NEW n, NEW g, DatagramsOf(r, s, l, n, g)
    PROVE  MessagesOf(r, s, n, g)
<1> DEFINE due == {i \in 1 .. Len(s) : s[i].due <= n}
<1>1. /\ Sequence(g) /\ n = Len(g) /\ Len(s) = n + Len(l) /\ Len(l) \in Nat /\ n \in Nat
      /\ \A k \in 1 .. Len(s) : s[k].due = k
      /\ \A k \in 1 .. Len(g) : SuitsBy(r, g[k], Calls[s[k].index])
  BY DEF DatagramsOf, Sequence
<1>2. Len(g) <= Len(s)
  BY <1>1
<1>3. due = 1 .. n
  <2>1. ASSUME NEW i PROVE i \in due <=> i \in 1 .. n
    <3>1. i \in due <=> i \in 1 .. Len(s) /\ s[i].due <= n
      OBVIOUS
    <3>2. i \in 1 .. Len(s) => s[i].due = i
      BY <1>1
    <3>3. i \in 1 .. Len(s) /\ i <= n <=> i \in 1 .. n
      BY <1>1
    <3> HIDE DEF due
    <3> QED BY <3>1, <3>2, <3>3
  <2> HIDE DEF due
  <2> QED BY <2>1
<1>4. Cardinality(1 .. n) = n
  <2>1. 1 \in Int /\ n \in Int
    BY <1>1
  <2>2. Cardinality(1 .. n) = IF 1 > n THEN 0 ELSE n - 1 + 1
    BY ONLY <2>1, FS_Interval
  <2> QED BY <1>1, <2>2
<1>5. Len(g) = Cardinality(due)
  BY <1>1, <1>3, <1>4
<1> QED BY <1>1, <1>2, <1>5 DEF MessagesOf

\* So it is before the first call.
LEMMA NoMessages == ASSUME NEW r PROVE MessagesOf(r, <<>>, 0, <<>>)
  BY NoDatagrams, DatagramMessages

\* What the two properties say, of a conversation without control packets.
LEMMA FramesAre ==
    ASSUME Typed, NoControl, Linked, MessagesOf(Reader, sent, count, got),
           transport = "SerialFT12" =>
             acks = Cardinality({i \in 1 .. Len(sent) :
                                   count > IF i = 1 THEN 0 ELSE sent[i - 1].due})
    PROVE  FramesSurvive
<1>1. /\ Len(got) = Cardinality({i \in 1 .. Len(sent) : sent[i].due <= count}) /\ Len(got) \in Nat
      /\ Len(sent) \in Nat /\ Len(got) <= Len(sent)
      /\ \A k \in 1 .. Len(got) : SuitsBy(Reader, got[k], Calls[sent[k].index])
  BY SentFew DEF MessagesOf, Sequence
<1>2. Len(got) = IF transport = "SecureMulticast" /\ backbone # BackboneKey THEN 0
                 ELSE Cardinality({i \in 1 .. Len(sent) : sent[i].due <= count})
  <2>1. ~(transport = "SecureMulticast" /\ backbone # BackboneKey)
    BY DEF Linked
  <2> QED BY <1>1, <2>1
<1>3. ASSUME NEW i \in 1 .. Len(got)
      PROVE  IF sent[i].control THEN got[i] = Controls[sent[i].index]
             ELSE /\ got[i].msgCode = L_DATA_IND
                  /\ got[i].srcAddress \in Sources(got[i].dstAddress)
                  /\ got[i].dstAddress = GroupAddress(Calls[sent[i].index].dst)
                  /\ IsGroupAddress(got[i].control) /\ Bits(got[i].control[1], 2, 2) = 3
  <2>1. i \in 1 .. Len(sent)
    BY <1>1
  <2>2. ~sent[i].control
    BY <2>1 DEF NoControl
  <2>3. Suits(got[i], Calls[sent[i].index])
    BY <1>1, SuitsHere
  <2> QED BY <2>2, <2>3 DEF Suits
<1> QED BY <1>2, <1>3 DEF FramesSurvive

\* A receiver with the keys of the project has what the application asked for.
LEMMA TelegramsAre ==
    ASSUME ValuesRead, Typed, Keyed, ObservedInv, ControlInv,
           NoControl => MessagesOf(Reader, sent, count, got)
    PROVE  TelegramSurvives
<1>1. ASSUME NEW i \in {j \in 1 .. Len(got) : ~sent[j].control}
      PROVE  LET c    == Calls[sent[i].index]
                 npdu == got[i].npdu
             IN  IF transport = "TunnelTCP" /\ GroupAddress(c.dst) \in DOMAIN keys
                      /\ keys # RightKeys
                 THEN IsDataSecure(npdu)
                 ELSE Action(npdu) = Service(c) /\ Carries(c, DataValue(npdu))
  <2>1. NoControl
    <3> SUFFICES ASSUME ~NoControl PROVE FALSE
      OBVIOUS
    <3>1. PICK k \in 1 .. Len(sent) : sent[k].control
      BY DEF NoControl
    <3>2. Len(sent) = 1
      BY <3>1 DEF Typed
    <3>3. k = 1
      BY <3>1, <3>2
    <3>4. i = 1
      <4>1. ControlsOf(line, got)
        BY DEF ControlInv
      <4>2. Len(got) \in Nat /\ Len(got) <= 1
        BY <4>1 DEF ControlsOf, Sequence
      <4> QED BY <4>2
    <3> QED BY <3>1, <3>3, <3>4
  <2>2. i \in 1 .. Len(got) /\ SuitsBy(Reader, got[i], Calls[sent[i].index])
    BY <2>1 DEF MessagesOf
  <2>3. Suits(got[i], Calls[sent[i].index])
    BY <2>2, SuitsHere
  <2>4. Action(got[i].npdu) = Service(Calls[sent[i].index])
        /\ Carries(Calls[sent[i].index], DataValue(got[i].npdu))
    <3>1. Action(got[i].npdu) = Service(Calls[sent[i].index])
          /\ Bears(Calls[sent[i].index], DataValue(got[i].npdu))
      BY <2>3 DEF Suits
    <3>2. sent[i].index \in 1 .. Len(Calls)
      <4>1. i \in 1 .. Len(sent)
        BY <2>1, <2>2, SentFew DEF MessagesOf, Sequence
      <4> QED BY <2>1, <4>1 DEF NoControl, Typed
    <3> QED BY <3>1, <3>2 DEF Bears, ValuesRead
  <2>5. ~(transport = "TunnelTCP" /\ keys # RightKeys)
    BY DEF Keyed
  <2> QED BY <2>4, <2>5
<1>2. ASSUME NEW i \in 1 .. Len(observed)
      PROVE  LET c == Calls[sent[i].index]
             IN  /\ observed[i].event = Service(c) /\ observed[i].destination = c.dst
                 /\ c.method # "read" => Carries(c, observed[i].data[1])
  <2>1. CASE transport = "TunnelUDP" /\ NoControl
    <3>1. SaysOf(observed[i], Calls[sent[i].index])
      BY <2>1 DEF ObservedInv, ObservedBy
    <3>2. sent[i].index \in 1 .. Len(Calls)
      <4>1. i \in 1 .. Len(sent)
        BY <2>1 DEF ObservedInv, ObservedBy
      <4> QED BY <2>1, <4>1 DEF NoControl, Typed
    <3> QED BY <3>1, <3>2 DEF SaysOf, Bears, ValuesRead
  <2>2. CASE ~(transport = "TunnelUDP" /\ NoControl)
    BY <2>2, EmptySequence DEF ObservedInv
  <2> QED BY <2>1, <2>2
<1> QED BY <1>1, <1>2 DEF TelegramSurvives

-----------------------------------------------------------------------------
(* Conversations over TCP *)

\* What the session seals is one, and is opened with its key.
LEMMA SessionFrame ==
    ASSUME NEW b \in Octets, Len(b) < 400, NEW key \in Octets, NEW session \in Words,
           NEW seq \in Words
    PROVE  Wraps(SecureWrap(b, key, session, seq, Serial), b, key)
<1> DEFINE tag == <<0, 0>>
           w == SecureWrap(b, key, session, seq, Serial)
           len == Len(b)
<1>1. len \in Nat /\ len < 400
  BY DEF Octets
<1> HIDE DEF len
<1>2. 38 + len \in Words /\ 38 + len \in Nat /\ 6 <= 38 + len
  BY <1>1 DEF Words
<1>3. \A k \in Nat : k <= 255 => k \in Octet
  BY OctetIs
<1>4. Serial \in Octets /\ Len(Serial) = 6
  BY <1>3 DEF Serial, Octets
<1>5. tag \in Octets /\ Len(tag) = 2
  BY <1>3, OctetTuples
<1>6. w = Wrapper(b, key, session, seq, Serial, tag)
  BY DEF SecureWrap
<1> HIDE DEF w, tag
<1>7. 38 + Len(b) \in Words
  BY <1>2 DEF len
<1>8. WrapperOpens(w, b, key, session, seq, Serial, tag)
  BY <1>4, <1>5, <1>6, <1>7, WrapperRead
<1>9. w \in Octets /\ Len(w) = 38 + len /\ U16(w, 4) = Len(w)
  BY <1>8 DEF WrapperOpens, len
<1>10. SecureDecrypt(w, key) = b
  BY <1>8 DEF WrapperOpens, SecureDecrypt
<1>11. Wraps(w, b, key)
  BY <1>2, <1>9, <1>10 DEF Wraps, IsWhole
<1> QED BY <1>11 DEF w

\* The keys of the two sessions are octets.
LEMMA SessionKeys == SessionKey \in Octets /\ ReaderKey \in Octets /\ 17 \in Words /\ 18 \in Words
<1>1. \A k \in Nat : k <= 255 => k \in Octet
  BY OctetIs
<1>2. SessionKey \in Octets /\ ReaderKey \in Octets
  BY <1>1 DEF SessionKey, ReaderKey, Octets
<1> QED BY <1>2 DEF Words

\* TunnelTCP: what reaches the receiver of the request of a call.
LEMMA GatewayMakes ==
    ASSUME NEW code, NEW ack \in 0 .. 1, NEW from \in Words, NEW dst \in Words, NEW npdu \in NPDUFields,
           code \in {L_DATA_REQ, L_DATA_IND}, ia \in Words, Len(sent) \in Octet
    PROVE  LET m == Telegram(code, ack, 6, from, dst, npdu)
               d == Telegram(L_DATA_IND, ack, 5, ia, dst, npdu)
               frame == SecureWrap(ToBuffer(TunnelingRequest(9, Len(sent), m)), SessionKey, 17,
                                   Len(sent), Serial)
           IN  /\ IsWhole(ThroughGateway(frame))
               /\ FromDatagram(SecureDecrypt(ThroughGateway(frame), ReaderKey)) = <<d>>
<1> DEFINE n == Len(sent)
           m == Telegram(code, ack, 6, from, dst, npdu)
           d == Telegram(L_DATA_IND, ack, 5, ia, dst, npdu)
           p == TunnelingRequest(9, n, m)
           q == TunnelingRequest(9, n, d)
           b == ToBuffer(p)
           b2 == ToBuffer(q)
           frame == SecureWrap(b, SessionKey, 17, n, Serial)
           out == SecureWrap(b2, ReaderKey, 18, n, Serial)
<1>1. n \in Octet /\ n \in Words /\ 9 \in Octet
  <2>1. 9 \in Octet /\ n \in Nat /\ n <= 255
    BY OctetIs
  <2> HIDE DEF n
  <2>2. n \in Words
    BY <2>1 DEF Words
  <2> QED BY <2>1, <2>2 DEF n
<1>2. m \in Sendable /\ d \in Sendable
  <2>1. IsTelegram(code, ack, 6, from, dst, npdu) /\ IsTelegram(L_DATA_IND, ack, 5, ia, dst, npdu)
    BY DEF IsTelegram
  <2> QED BY <2>1, TelegramFields
<1>3. FromBus(m, ia) = d
  BY BusIs
<1> HIDE DEF m, d, n
<1>4. b \in Octets /\ Len(b) < 400 /\ ParseMessage(b) = p
  BY <1>1, <1>2, TunnelingRoundTrip
<1>5. b2 \in Octets /\ Len(b2) < 400 /\ FromDatagram(b2) = <<d>>
  <2>1. b2 \in Octets /\ Len(b2) < 400
    BY <1>1, <1>2, TunnelingRoundTrip
  <2>2. FromDatagram(b2) = <<d>>
    BY <1>1, <1>2, RequestHeard
  <2> QED BY <2>1, <2>2
<1>6. [p EXCEPT !.cEMIMessage = FromBus(@, ia)] = q
  BY <1>3 DEF TunnelingRequest
<1> HIDE DEF p, q, b, b2
<1>7. Wraps(frame, b, SessionKey) /\ Wraps(out, b2, ReaderKey)
  BY <1>1, <1>4, <1>5, SessionKeys, SessionFrame
<1> HIDE DEF frame
<1>8. ThroughGateway(frame) = out
  <2>1. SecureDecrypt(frame, SessionKey) = b
    BY <1>7 DEF Wraps
  <2> QED BY <1>4, <1>6, <2>1 DEF ThroughGateway, b2, n
<1> HIDE DEF out
<1>9. IsWhole(ThroughGateway(frame)) /\ FromDatagram(SecureDecrypt(ThroughGateway(frame), ReaderKey)) = <<d>>
  BY <1>5, <1>7, <1>8 DEF Wraps
<1> QED BY <1>9 DEF frame, b, p, m, d, n

\* TunnelTCP: the frame of the gateway, of what the client has sent in its session.
LEMMA TcpArrives ==
    ASSUME NEW i \in 1 .. Len(Calls), transport = "TunnelTCP", Len(sent) \in Octet,
           PacketOf(Calls[i]) # Malformed, ia \in Words, ia # 0
    PROVE  LET frame == ThroughGateway(Secured(PacketOf(Calls[i])))
           IN  IsWhole(frame) /\ ArrivesAs(FromSecureFrame(frame), Calls[i])
<1> DEFINE c == Calls[i]
           dst == GroupAddress(c.dst)
           packet == PacketOf(c)
           n == Len(sent)
           number == 1000 + n
<1>1. transport \in Protocols
  BY DEF Protocols
<1>2. Client.hostProtocol = "TunnelTCP" /\ Client.channelID = 9
  BY <1>1, ClientIs
<1>3. CodeFor(Client) = L_DATA_REQ
  BY <1>2 DEF CodeFor
<1>4. PICK ack, npdu : HandsOver(i, L_DATA_REQ, ack, npdu)
  BY <1>1, <1>3, CallHandsOver
<1>5. /\ Conveys(npdu, c) /\ TelegramData(npdu) /\ ack \in 0 .. 1 /\ Bears(c, Content(c))
      /\ dst \in Words
      /\ packet = PacketWith(Client, Telegram(L_DATA_REQ, ack, 6, 65535, dst, npdu))
  BY <1>4 DEF HandsOver
<1> DEFINE t == Telegram(L_DATA_REQ, ack, 6, 65535, dst, npdu)
           s == Sealing(RightKeys, number, ia, 65535, dst, npdu)
           m == Telegram(L_DATA_REQ, ack, 6, s.from, dst, s.npdu)
           d == Telegram(L_DATA_IND, ack, 5, ia, dst, s.npdu)
           wrapped == SecureWrap(ToBuffer(TunnelingRequest(9, n, m)), SessionKey, 17, n, Serial)
           frame == ThroughGateway(wrapped)
<1>6. packet = TunnelingRequest(9, 0, t)
  BY <1>2, <1>5 DEF PacketWith
<1>7. number \in Words
  <2>1. n \in Nat /\ n <= 255
    BY OctetIs
  <2> HIDE DEF n
  <2>2. 1000 + n \in Nat /\ 1000 + n <= 65535
    BY <2>1
  <2> QED BY <2>2 DEF Words
<1>8. dst \in DOMAIN RightKeys => s.from = ia
  BY DEF Sealing
<1>9. MaybeApplyDataSecure(t, RightKeys, number, ia) = m /\ s.from \in Words /\ s.npdu \in NPDUFields
  <2>1. 65535 \in Words
    BY DEF Words
  <2>2. ack \in 0 .. 1 /\ dst \in Words /\ TelegramData(npdu) /\ ia \in Words /\ number \in Words
    BY <1>5, <1>7
  <2> HIDE DEF dst, number
  <2>3. SealsAs(L_DATA_REQ, ack, 65535, dst, npdu, number, ia)
    BY ONLY <2>1, <2>2, TelegramSeals
  <2> QED BY <2>3 DEF SealsAs
<1> HIDE DEF t, packet
<1>10. Secured(packet) = wrapped
  <2>1. packet.cEMIMessage = t
    BY <1>6 DEF TunnelingRequest
  <2> HIDE DEF m
  <2>2. Numbered(packet, m) = TunnelingRequest(9, n, m)
    <3>1. Numbered(packet, m) = [packet EXCEPT !.seqCounter = n, !.cEMIMessage = m]
      BY DEF Numbered
    <3> HIDE DEF n
    <3> DEFINE p0 == TunnelingRequest(9, 0, t)
               p1 == TunnelingRequest(9, n, t)
    <3>2. [p0 EXCEPT !.seqCounter = n] = p1
      BY DEF TunnelingRequest
    <3>3. [p1 EXCEPT !.cEMIMessage = m] = TunnelingRequest(9, n, m)
      BY DEF TunnelingRequest
    <3> HIDE DEF p1, p0
    <3>4. [p0 EXCEPT !.seqCounter = n, !.cEMIMessage = m]
            = [[p0 EXCEPT !.seqCounter = n] EXCEPT !.cEMIMessage = m]
      OBVIOUS
    <3> QED BY <1>6, <3>1, <3>2, <3>3, <3>4 DEF p0
  <2>3. MaybeApplyDataSecure(packet.cEMIMessage, RightKeys, 1000 + Len(sent), ia) = m
    BY <1>9, <2>1
  <2> QED BY <2>2, <2>3 DEF Secured
<1> HIDE DEF s, number
<1>11. IsWhole(frame) /\ FromDatagram(SecureDecrypt(frame, ReaderKey)) = <<d>>
  <2> DEFINE from == s.from
             inner == s.npdu
  <2>1. from \in Words /\ inner \in NPDUFields /\ dst \in Words /\ ack \in 0 .. 1
        /\ L_DATA_REQ \in {L_DATA_REQ, L_DATA_IND}
    BY <1>5, <1>9
  <2> HIDE DEF from, inner, dst
  <2> QED BY <2>1, GatewayMakes DEF from, inner, dst
<1> HIDE DEF wrapped, frame
<1>12. FromSecureFrame(frame) = <<MaybeDecryptDataSecure(d, keys)>>
  <2> HIDE DEF d
  <2> QED BY <1>11, OpenedOne DEF FromSecureFrame
<1>13. Suits(MaybeDecryptDataSecure(d, keys), c)
  <2> DEFINE source == ia
  <2>1. /\ dst \in DOMAIN RightKeys => source = Sealing(RightKeys, number, ia, 65535, dst, npdu).from
        /\ source \in Words
    BY <1>8 DEF s
  <2>2. source \in Sources(dst)
    BY DEF Sources
  <2> HIDE DEF source, c, dst
  <2>3. 5 \in {5, 6}
    OBVIOUS
  <2>4. Suits(MaybeDecryptDataSecure(
                 Telegram(L_DATA_IND, ack, 5, source, GroupAddress(c.dst),
                    Sealing(RightKeys, number, ia, 65535, GroupAddress(c.dst), npdu).npdu), keys), c)
    BY <1>5, <1>7, <2>1, <2>2, <2>3, SealedArrives DEF dst
  <2> QED BY <2>4 DEF d, s, source, dst
<1>14. ArrivesAs(FromSecureFrame(frame), c)
  BY <1>12, <1>13 DEF ArrivesAs
<1> QED BY <1>10, <1>11, <1>14 DEF frame, packet, c

\* Over TCP: every call is a frame of the stream; what was received is what ends in the
\* octets delivered.
StreamOf(r, s, l, c, rs, g, w, at) ==
    /\ Sequence(s) /\ Sequence(g)
    /\ Stream(w, Len(s), at) /\ c \in Nat /\ c <= Len(w) /\ l = Sub(w, c, Len(w))
    /\ \A k \in 1 .. Len(s) : s[k].due = at[k] /\ Arrives(r, Sub(w, at[k - 1], at[k]), Calls[s[k].index])
    /\ Ended(Len(s), at, c, Len(g)) /\ rs = Sub(w, at[Len(g)], c)
    /\ \A k \in 1 .. Len(g) : SuitsBy(r, g[k], Calls[s[k].index])

\* A call adds its frame to the stream.
LEMMA StreamSent ==
    ASSUME NEW r, NEW s, NEW l, NEW c, NEW rs, NEW g, NEW w, NEW at,
           StreamOf(r, s, l, c, rs, g, w, at), NEW f, IsWhole(f),
           NEW e, e.due = c + Len(l) + Len(f), Arrives(r, f, Calls[e.index])
    PROVE  StreamOf(r, Append(s, e), l \o f, c, rs, g, w \o f, Grown(Len(s), at, f))
<1> DEFINE n == Len(s)
           s2 == Append(s, e)
           w2 == w \o f
           at2 == Grown(n, at, f)
           q == Len(g)
<1>1. /\ Sequence(s) /\ Sequence(g) /\ n \in Nat /\ q \in Nat
      /\ Stream(w, n, at) /\ c \in Nat /\ c <= Len(w) /\ l = Sub(w, c, Len(w))
      /\ \A k \in 1 .. n : s[k].due = at[k] /\ Arrives(r, Sub(w, at[k - 1], at[k]), Calls[s[k].index])
      /\ Ended(n, at, c, q) /\ rs = Sub(w, at[q], c)
      /\ \A k \in 1 .. q : SuitsBy(r, g[k], Calls[s[k].index])
  BY DEF StreamOf, Sequence
<1>2. Parts(w, n, at) /\ w \in Octets /\ Len(w) \in Nat
  BY <1>1, StreamIsParts, PartsEnds
<1>3. f \in Octets /\ Len(f) \in Nat /\ 0 < Len(f)
  BY DEF IsWhole
<1>4. AddsOne(s, e, s2)
  BY <1>1, OneMore
<1>5. GrownBy(w, n, at, f, w2, at2)
  BY <1>2, <1>3, PartAdded
<1>6. Len(l) = Len(w) - c
  <2>1. Len(w) <= Len(w)
    BY <1>2
  <2> QED BY <1>1, <1>2, <2>1, SubIs
<1> HIDE DEF s2, w2, at2, n, q
<1>7. Stream(w2, n + 1, at2)
  BY <1>1, <1>5, StreamGrows
<1>8. /\ Sequence(s2) /\ Len(s2) = n + 1 /\ s2[n + 1] = e /\ \A k \in 1 .. n : s2[k] = s[k]
  BY <1>4 DEF AddsOne, n
<1>9. /\ Len(w2) = Len(w) + Len(f) /\ at2[n + 1] = Len(w2) /\ Sub(w2, at2[n], at2[n + 1]) = f
      /\ \A i \in 0 .. n : at2[i] = at[i]
      /\ Sub(w2, c, Len(w2)) = l \o f /\ Ended(n + 1, at2, c, q)
  <2>1. q \in 0 .. n
    BY <1>1 DEF Ended
  <2> QED BY <1>1, <1>5, <2>1 DEF GrownBy
<1>10. c <= Len(w2) /\ e.due = at2[n + 1]
  BY <1>1, <1>2, <1>3, <1>6, <1>9
<1>11. ASSUME NEW k \in 1 .. Len(s2)
       PROVE  s2[k].due = at2[k] /\ Arrives(r, Sub(w2, at2[k - 1], at2[k]), Calls[s2[k].index])
  <2>1. CASE k = n + 1
    <3>1. s2[k] = e /\ k - 1 = n
      BY <1>1, <1>8, <2>1
    <3> QED BY <1>9, <1>10, <2>1, <3>1
  <2>2. CASE k # n + 1
    <3>1. k \in 1 .. n
      BY <1>1, <1>8, <2>2
    <3>2. Sub(w2, at2[k - 1], at2[k]) = Sub(w, at[k - 1], at[k]) /\ at2[k] = at[k]
      BY <1>2, <1>5, <3>1, PartsStay
    <3> QED BY <1>1, <1>8, <3>1, <3>2
  <2> QED BY <2>1, <2>2
<1>12. rs = Sub(w2, at2[q], c)
  <2>1. q \in 0 .. n /\ at[q] <= c
    BY <1>1 DEF Ended
  <2>2. at[q] \in Nat
    BY <1>2, <2>1, PartsEnds
  <2>3. Sub(w2, at[q], c) = Sub(w, at[q], c)
    BY <1>1, <1>5, <2>1, <2>2 DEF GrownBy
  <2> QED BY <1>1, <1>9, <2>1, <2>3
<1>13. ASSUME NEW k \in 1 .. q PROVE SuitsBy(r, g[k], Calls[s2[k].index])
  <2>1. q \in 0 .. n
    BY <1>1 DEF Ended
  <2>2. k \in 1 .. n
    BY <1>1, <2>1
  <2> QED BY <1>1, <1>8, <2>2
<1>14. StreamOf(r, s2, l \o f, c, rs, g, w2, at2)
  <2> HIDE DEF Sequence
  <2> QED BY <1>1, <1>7, <1>8, <1>9, <1>10, <1>11, <1>12, <1>13 DEF StreamOf, q
<1> QED BY <1>14 DEF s2, w2, at2, n

\* A chunk adds the messages of the frames that end in it, wherever it is cut.
LEMMA StreamTaken ==
    ASSUME NEW r, NEW s, NEW l, NEW c, NEW rs, NEW g, NEW w, NEW at,
           StreamOf(r, s, l, c, rs, g, w, at), NEW d \in Nat, d <= Len(l)
    PROVE  LET taken == TcpFrames(rs \o SubSeq(l, 1, d))
           IN  StreamOf(r, s, SubSeq(l, d + 1, Len(l)), c + d, taken.rest,
                        g \o FlattenSeq([i \in 1 .. Len(taken.frames) |-> ReadBy(r, taken.frames[i])]),
                        w, at)
<1> DEFINE n == Len(s)
           j == Len(g)
           m == c + d
           taken == TcpFrames(rs \o SubSeq(l, 1, d))
           read == [i \in 1 .. Len(taken.frames) |-> ReadBy(r, taken.frames[i])]
           g2 == g \o FlattenSeq(read)
           l2 == SubSeq(l, d + 1, Len(l))
<1>1. /\ Sequence(s) /\ Sequence(g) /\ n \in Nat /\ j \in Nat
      /\ Stream(w, n, at) /\ c \in Nat /\ c <= Len(w) /\ l = Sub(w, c, Len(w))
      /\ \A k \in 1 .. n : s[k].due = at[k] /\ Arrives(r, Sub(w, at[k - 1], at[k]), Calls[s[k].index])
      /\ Ended(n, at, c, j) /\ rs = Sub(w, at[j], c)
      /\ \A k \in 1 .. j : SuitsBy(r, g[k], Calls[s[k].index])
  BY DEF StreamOf, Sequence
<1>2. Parts(w, n, at) /\ w \in Octets /\ Len(w) \in Nat
  BY <1>1, StreamIsParts, PartsEnds
<1>3. m <= Len(w) /\ l2 = Sub(w, m, Len(w)) /\ SubSeq(l, 1, d) = Sub(w, c, m)
  BY <1>1, <1>2, ChunkTaken
<1>4. m \in Nat /\ c <= m /\ j \in 0 .. n /\ at[j] <= c
  BY <1>1 DEF Ended
<1> HIDE DEF n, j, m, l2
<1>5. PICK k \in j .. n : Ended(n, at, m, k) /\ taken = Seen(w, at, m, j, k)
  <2>1. taken = TcpFrames(Sub(w, at[j], c) \o Sub(w, c, m))
    BY <1>1, <1>3
  <2> HIDE DEF taken
  <2>2. /\ Stream(w, n, at) /\ j \in 0 .. n /\ c \in Nat /\ m \in Nat
        /\ at[j] <= c /\ c <= m /\ m <= Len(w)
    BY <1>1, <1>3, <1>4
  <2>3. PICK k \in j .. n : /\ Ended(n, at, m, k)
                            /\ TcpFrames(Sub(w, at[j], c) \o Sub(w, c, m)) = Seen(w, at, m, j, k)
    BY ONLY <2>2, ChunkOfStream
  <2> QED BY <2>1, <2>3
<1>6. taken.rest = Sub(w, at[k], m) /\ taken.frames = FramesOf(w, at, j, k)
  BY <1>5 DEF Seen
<1> DEFINE size == k - j
           suits(x, i) == SuitsBy(r, x, Calls[s[j + i].index])
           m1(i) == CHOOSE x : ReadBy(r, Sub(w, at[j + i - 1], at[j + i])) = <<x>> /\ suits(x, i)
           xs == [i \in 1 .. size |-> m1(i)]
<1>7. size \in Nat /\ j + size = k
  BY <1>1, <1>4
<1> HIDE DEF size
<1>8. \A i \in 1 .. size : ReadBy(r, Sub(w, at[j + i - 1], at[j + i])) = <<m1(i)>> /\ suits(m1(i), i)
  <2> TAKE i \in 1 .. size
  <2> DEFINE p == j + i
  <2>1. p \in 1 .. n
    BY <1>1, <1>4, <1>5, <1>7
  <2>5. p = j + i
    OBVIOUS
  <2> HIDE DEF p
  <2>2. Arrives(r, Sub(w, at[p - 1], at[p]), Calls[s[p].index])
    BY <1>1, <2>1
  <2>3. PICK x : ReadBy(r, Sub(w, at[p - 1], at[p])) = <<x>> /\ SuitsBy(r, x, Calls[s[p].index])
    BY <2>2 DEF Arrives
  <2>4. ReadBy(r, Sub(w, at[j + i - 1], at[j + i])) = <<x>> /\ suits(x, i)
    <3>1. suits(x, i) <=> SuitsBy(r, x, Calls[s[p].index])
      BY <2>5
    <3>2. ReadBy(r, Sub(w, at[j + i - 1], at[j + i])) = ReadBy(r, Sub(w, at[p - 1], at[p]))
      <4>1. j \in Int /\ i \in Int /\ p \in Int
        BY <1>1, <1>7, <2>1
      <4>2. j + i - 1 = p - 1
        BY <2>5, <4>1
      <4> QED BY <2>5, <4>2
    <3> QED BY <2>3, <3>1, <3>2
  <2> HIDE DEF suits
  <2> QED BY <2>4
<1> HIDE DEF m1, suits
<1>9. read = [i \in 1 .. size |-> <<xs[i]>>]
  <2>1. Len(taken.frames) = size
        /\ \A i \in 1 .. size : taken.frames[i] = Sub(w, at[j + i - 1], at[j + i])
    BY <1>6, <1>7 DEF FramesOf, size
  <2> HIDE DEF taken
  <2>2. \A i \in 1 .. size : ReadBy(r, taken.frames[i]) = <<xs[i]>>
    BY <1>8, <2>1
  <2> HIDE DEF xs
  <2> QED BY <2>1, <2>2
<1> HIDE DEF read
<1>10. FlattenSeq(read) = xs
  <2>1. xs = [i \in 1 .. size |-> xs[i]]
    OBVIOUS
  <2> HIDE DEF xs
  <2>2. FlattenSeq(read) = [i \in 1 .. size |-> xs[i]]
    <3>1. size \in Nat /\ read = [i \in 1 .. size |-> <<xs[i]>>]
      BY <1>7, <1>9
    <3>2. OnesOf(read, size, xs)
      BY <3>1 DEF OnesOf
    <3> QED BY ONLY <3>2, FlatOnes
  <2> QED BY <2>1, <2>2
<1>11. Sequence(xs) /\ Len(xs) = size
  BY <1>7 DEF Sequence
<1>12. \A i \in 1 .. size : suits(xs[i], i)
  BY <1>8
<1> HIDE DEF xs, taken
<1>13. JoinsTo(g, xs, g2)
  BY <1>1, <1>10, <1>11, JoinedSequence
<1> HIDE DEF g2
<1>14. /\ Sequence(g2) /\ Len(g2) = k
       /\ \A i \in 1 .. j : g2[i] = g[i]
       /\ \A i \in 1 .. size : g2[j + i] = xs[i]
  BY <1>7, <1>11, <1>13 DEF JoinsTo, j
<1>15. ASSUME NEW i \in 1 .. Len(g2) PROVE SuitsBy(r, g2[i], Calls[s[i].index])
  <2>1. CASE i \in 1 .. j
    BY <1>1, <1>14, <2>1
  <2>2. CASE ~(i \in 1 .. j)
    <3> DEFINE p == i - j
    <3>1. p \in 1 .. size /\ j + p = i
      BY <1>1, <1>7, <1>14, <2>2
    <3> HIDE DEF p
    <3>2. suits(xs[p], p) /\ g2[i] = xs[p]
      BY <1>12, <1>14, <3>1
    <3> QED BY <3>1, <3>2 DEF suits
  <2> QED BY <2>1, <2>2
<1>16. StreamOf(r, s, l2, m, taken.rest, g2, w, at)
  <2> HIDE DEF Sequence
  <2> QED BY <1>1, <1>3, <1>4, <1>5, <1>6, <1>14, <1>15 DEF StreamOf, n
<1> QED BY <1>16 DEF l2, m, g2, read, taken

\* The stream of the secure tunnel.
TcpStream(r, s, l, c, rs, g) == \E w, at : StreamOf(r, s, l, c, rs, g, w, at)

\* The conversation over TCP.
TcpInv == transport = "TunnelTCP" => TcpStream(Reader, sent, line, count, rest, got)

\* Before the first call the stream is empty.
LEMMA NoStream == ASSUME NEW r PROVE TcpStream(r, <<>>, <<>>, 0, <<>>, <<>>)
<1> DEFINE w == <<>>
           at == [i \in 0 .. 0 |-> 0]
<1>1. Sequence(<<>>) /\ Len(<<>>) = 0 /\ w \in Octets /\ Len(w) = 0
  BY EmptySequence DEF Octets
<1>2. at \in [0 .. 0 -> Nat] /\ at[0] = 0
  OBVIOUS
<1>3. Sub(w, 0, 0) = <<>>
  BY DEF Sub
<1> HIDE DEF w, at
<1>4. Stream(w, 0, at)
  <2>1. 1 .. 0 = {}
    OBVIOUS
  <2> QED BY <1>1, <1>2, <2>1 DEF Stream
<1>5. Ended(0, at, 0, 0)
  BY <1>2 DEF Ended
<1>6. StreamOf(r, <<>>, <<>>, 0, <<>>, <<>>, w, at)
  <2>1. 1 .. 0 = {} /\ 0 \in Nat /\ 0 <= 0
    OBVIOUS
  <2> HIDE DEF Sequence
  <2> QED BY <1>1, <1>2, <1>3, <1>4, <1>5, <2>1 DEF StreamOf
<1> QED BY <1>6 DEF TcpStream

\* A call over TCP is a frame more; a chunk of it is taken off the line.
LEMMA CallIsFrame ==
    ASSUME Typed, transport = "TunnelTCP", NEW i \in 1 .. Len(Calls), PacketOf(Calls[i]) # Malformed
    PROVE  IsWhole(Octets1(i)) /\ Arrives(Reader, Octets1(i), Calls[i])
<1> DEFINE frame == ThroughGateway(Secured(PacketOf(Calls[i])))
<1>1. Len(sent) \in Octet /\ ia \in Words /\ ia # 0
  BY SentFew DEF Typed
<1>2. IsWhole(frame) /\ ArrivesAs(FromSecureFrame(frame), Calls[i])
  BY <1>1, TcpArrives
<1>3. Octets1(i) = frame
  BY DEF Octets1, OnLine
<1> HIDE DEF frame
<1>4. ReadBy(Reader, frame) = FromSecureFrame(frame)
  BY ReadHere
<1>5. Arrives(Reader, frame, Calls[i])
  BY <1>2, <1>4, ArrivesHere
<1> QED BY <1>2, <1>3, <1>5

\* So every delivery keeps the stream.
LEMMA TcpTaken ==
    ASSUME transport = "TunnelTCP", TcpInv, NEW n \in Chunks, DeliverTcp(n)
    PROVE  TcpStream(Reader, sent', line', count', rest', got')
<1> DEFINE r == Reader
           taken == TcpFrames(rest \o SubSeq(line, 1, n))
<1>1. PICK w, at : StreamOf(r, sent, line, count, rest, got, w, at)
  BY DEF TcpInv, TcpStream
<1>2. /\ sent' = sent /\ line' = SubSeq(line, n + 1, Len(line)) /\ count' = count + n
      /\ rest' = taken.rest
      /\ got' = got \o FlattenSeq([i \in 1 .. Len(taken.frames) |-> FromSecureFrame(taken.frames[i])])
  BY DEF DeliverTcp, Delivers
<1>3. n \in Nat /\ n <= Len(line)
  <2>1. line \in Octets
    <3>1. w \in Octets /\ Len(w) \in Nat /\ count \in Nat /\ count <= Len(w)
          /\ line = Sub(w, count, Len(w))
      BY <1>1, StreamIsParts, PartsEnds DEF StreamOf
    <3>2. Len(w) <= Len(w)
      BY <3>1
    <3> QED BY <3>1, <3>2, SubIs
  <2>2. Len(line) \in Nat
    BY <2>1 DEF Octets
  <2>3. n <= Len(line) /\ (n = Len(line) \/ n \in ChunkSizes)
    BY DEF Chunks
  <2> QED BY <2>2, <2>3, CallsAssumption
<1>4. \A frame : FromSecureFrame(frame) = ReadBy(r, frame)
  BY ReadHere
<1>5. [i \in 1 .. Len(taken.frames) |-> FromSecureFrame(taken.frames[i])]
        = [i \in 1 .. Len(taken.frames) |-> ReadBy(r, taken.frames[i])]
  <2> HIDE DEF taken, r
  <2> QED BY <1>4
<1> HIDE DEF r
<1>6. StreamOf(r, sent, SubSeq(line, n + 1, Len(line)), count + n, taken.rest,
               got \o FlattenSeq([i \in 1 .. Len(taken.frames) |-> ReadBy(r, taken.frames[i])]), w, at)
  <2>1. StreamOf(r, sent, line, count, rest, got, w, at) /\ n \in Nat /\ n <= Len(line)
    BY <1>1, <1>3
  <2> QED BY ONLY <2>1, StreamTaken
<1> HIDE DEF taken
<1>7. StreamOf(r, sent', line', count', rest', got', w, at)
  BY <1>2, <1>5, <1>6
<1> QED BY <1>7 DEF TcpStream, r

\* So does every call.
LEMMA TcpSent ==
    ASSUME Typed, transport = "TunnelTCP", TcpInv, NEW i \in 1 .. Len(Calls), SendChanges(i)
    PROVE  TcpStream(Reader, sent', line', count', rest', got')
<1>2. /\ PacketOf(Calls[i]) # Malformed /\ sent' = Append(sent, Entry(i)) /\ line' = line \o Octets1(i)
      /\ UNCHANGED <<transport, count, rest, got>>
  BY DEF SendChanges
<1> DEFINE r == Reader
           f == Octets1(i)
           e == Entry(i)
<1>4. IsWhole(f) /\ Arrives(r, f, Calls[i])
  BY <1>2, CallIsFrame
<1>5. e.due = count + Len(line) + Len(f) /\ e.index = i
  BY DEF Entry, Due
<1>6. PICK w, at : StreamOf(r, sent, line, count, rest, got, w, at)
  BY DEF TcpInv, TcpStream
<1>7. sent' = Append(sent, e) /\ line' = line \o f
  BY <1>2
<1> HIDE DEF r, f, e
<1>8. StreamOf(r, sent, line, count, rest, got, w, at) /\ IsWhole(f)
      /\ e.due = count + Len(line) + Len(f) /\ Arrives(r, f, Calls[e.index])
  BY <1>4, <1>5, <1>6
<1>9. StreamOf(r, Append(sent, e), line \o f, count, rest, got, w \o f, Grown(Len(sent), at, f))
  BY ONLY <1>8, StreamSent
<1>10. TcpStream(r, Append(sent, e), line \o f, count, rest, got)
  BY <1>9 DEF TcpStream
<1> QED BY <1>2, <1>7, <1>10 DEF r

\* So does every step.
LEMMA TcpInvStep == ASSUME Typed, TcpInv, Steps PROVE TcpInv'
<1>1. CASE Idle
  <2>1. UNCHANGED <<transport, ia, keys, backbone, sent, line, count, rest, got>>
    BY <1>1 DEF Idle, link, path
  <2>2. Reader' = Reader
    BY <2>1 DEF Reader
  <2> QED BY <2>1, <2>2 DEF TcpInv
<1>2. CASE Connects
  <2>1. sent' = <<>> /\ line' = <<>> /\ count' = 0 /\ rest' = <<>> /\ got' = <<>>
    BY <1>2 DEF Connects, Typed, path
  <2>2. TcpStream(Reader', sent', line', count', rest', got')
    BY <2>1, NoStream
  <2> QED BY <2>2 DEF TcpInv
<1>3. CASE \E i \in 1 .. Len(Calls) : Send(i)
  <2>1. PICK i \in 1 .. Len(Calls) : SendChanges(i)
    BY <1>3, SendIs
  <2>2. /\ PacketOf(Calls[i]) # Malformed /\ sent' = Append(sent, Entry(i)) /\ line' = line \o Octets1(i)
        /\ UNCHANGED <<transport, count, rest, got>>
    BY <2>1 DEF SendChanges
  <2>3. Reader' = Reader
    BY <2>1, ReaderStays
  <2>4. transport = "TunnelTCP" => TcpStream(Reader, sent', line', count', rest', got')
    BY <2>1, TcpSent
  <2> QED BY <2>2, <2>3, <2>4 DEF TcpInv
<1>4. CASE \E i \in 1 .. Len(Controls) : SendControl(i)
  <2>1. transport' = "TunnelUDP"
    BY <1>4, ControlSent
  <2> QED BY <2>1 DEF TcpInv
<1>5. CASE DeliverDatagram \/ \E n \in Chunks : DeliverSerial(n)
  <2>1. transport' # "TunnelTCP"
    BY <1>5 DEF DeliverDatagram, DeliverSerial, Delivers, link
  <2> QED BY <2>1 DEF TcpInv
<1>6. CASE \E n \in Chunks : DeliverTcp(n)
  <2>1. PICK n \in Chunks : DeliverTcp(n)
    BY <1>6
  <2>2. transport = "TunnelTCP" /\ Reader' = Reader
    BY <2>1, ReaderStays DEF DeliverTcp
  <2>3. TcpStream(Reader, sent', line', count', rest', got')
    BY <2>1, <2>2, TcpTaken
  <2> QED BY <2>2, <2>3 DEF TcpInv
<1> QED BY <1>1, <1>2, <1>3, <1>4, <1>5, <1>6 DEF Steps

\* Over TCP as many messages are received as frames have arrived whole.
LEMMA StreamMessages ==
    ASSUME NEW r, NEW s, NEW l, NEW c, NEW rs, NEW g, TcpStream(r, s, l, c, rs, g)
    PROVE  MessagesOf(r, s, c, g)
<1>1. PICK w, at : StreamOf(r, s, l, c, rs, g, w, at)
  BY DEF TcpStream
<1> DEFINE n == Len(s)
           q == Len(g)
<1>2. /\ Sequence(g) /\ Parts(w, n, at) /\ c \in Nat /\ Ended(n, at, c, q)
      /\ \A k \in 1 .. n : s[k].due = at[k]
      /\ \A k \in 1 .. q : SuitsBy(r, g[k], Calls[s[k].index])
  BY <1>1, StreamIsParts DEF StreamOf
<1> HIDE DEF n, q
<1>3. q <= n /\ Cardinality({i \in 1 .. n : at[i] <= c}) = q
  BY <1>2, PartsEnded
<1>4. {i \in 1 .. n : s[i].due <= c} = {i \in 1 .. n : at[i] <= c}
  BY <1>2
<1>5. Cardinality({i \in 1 .. n : s[i].due <= c}) = q
  BY <1>3, <1>4
<1> QED BY <1>2, <1>3, <1>5 DEF MessagesOf, n, q

-----------------------------------------------------------------------------
(* Conversations over the serial line *)

\* The telegram of a call comes back, as an indication, in one long frame.
LEMMA TelegramOnLine ==
    ASSUME NEW t \in Sendable, Len(FlattenSeq(t.npdu.data)) <= 241
    PROVE  LET b == CEMIBytes(t)
           IN  /\ Long(LongFrame(b, TRUE), b) /\ ParseCEMI(b, 0) = t
               /\ t.msgCode = L_DATA_IND => FromSerialLine(b) = <<t>>
<1> DEFINE b == CEMIBytes(t)
<1>1. b \in Octets /\ 0 < Len(b) /\ Len(b) <= 254 /\ b[1] = t.msgCode
  BY CEMIShort
<1>2. t.msgCode # 240
  BY SendableFields DEF L_DATA_REQ, L_DATA_IND
<1>3. Ends(b, 0, b)
  <2> HIDE DEF b
  <2>1. Len(b) \in Nat
    BY <1>1 DEF Octets
  <2> QED BY <2>1 DEF Ends
<1>4. ParseCEMI(b, 0) = t
  BY <1>1, <1>3, CEMIRead
<1>5. t.msgCode = L_DATA_IND => FromSerialLine(b) = <<t>>
  <2>1. t.msgCode = L_DATA_IND => SerialIndication(b) = t
    BY SerialRoundTrip
  <2>2. t # Malformed
    BY SendableIsRead, MalformedAssumption
  <2> HIDE DEF b
  <2> QED BY <2>1, <2>2 DEF FromSerialLine
<1> HIDE DEF b
<1>6. Long(LongFrame(b, TRUE), b)
  BY <1>1, <1>2, LongIs
<1> QED BY <1>4, <1>5, <1>6 DEF b

\* SerialFT12: the line of a call is an acknowledgement, others, and a frame that
\* arrives.
LEMMA SerialArrives ==
    ASSUME NEW i \in 1 .. Len(Calls), transport = "SerialFT12", Len(sent) \in Octet,
           PacketOf(Calls[i]) # Malformed
    PROVE  \E u, p : /\ Long(u, p) /\ ArrivesAs(FromSerialLine(p), Calls[i])
                     /\ OnSerial(OnSerialLine(PacketOf(Calls[i]), i \in Cuttable), u, i \in Cuttable)
<1> DEFINE c == Calls[i]
           dst == GroupAddress(c.dst)
<1>1. transport \in Protocols
  BY DEF Protocols
<1>2. Client.hostProtocol = "SerialFT12"
  BY <1>1, ClientIs
<1>3. CodeFor(Client) = L_DATA_REQ
  BY <1>2 DEF CodeFor
<1>4. PICK ack, npdu : HandsOver(i, L_DATA_REQ, ack, npdu)
  BY <1>1, <1>3, CallHandsOver
<1>5. /\ Conveys(npdu, c) /\ npdu \in NPDUFields /\ ack \in 0 .. 1 /\ Bears(c, Content(c))
      /\ dst \in Words /\ TelegramData(npdu)
      /\ PacketOf(c) = PacketWith(Client, Telegram(L_DATA_REQ, ack, 6, 65535, dst, npdu))
  BY <1>4 DEF HandsOver
<1> DEFINE t == Telegram(L_DATA_REQ, ack, 6, 65535, dst, npdu)
           d == Telegram(L_DATA_IND, ack, 5, InterfaceAddress, dst, npdu)
<1>6. t \in Sendable /\ d \in Sendable
  <2>1. 65535 \in Words /\ InterfaceAddress \in Words
    BY DEF Words, InterfaceAddress
  <2> HIDE DEF dst
  <2>2. IsTelegram(L_DATA_REQ, ack, 6, 65535, dst, npdu)
        /\ IsTelegram(L_DATA_IND, ack, 5, InterfaceAddress, dst, npdu)
    BY <1>5, <2>1 DEF IsTelegram
  <2> QED BY <2>2, TelegramFields
<1>7. Suits(d, c)
  <2>1. InterfaceAddress \in Sources(dst)
    BY DEF Sources
  <2>2. SameTelegram(npdu, npdu)
    BY DEF SameTelegram
  <2> HIDE DEF c
  <2>3. Conveyed(c, npdu, ack, 5, InterfaceAddress, npdu)
    BY <1>5, <2>1, <2>2 DEF Conveyed
  <2> QED BY <2>3, TelegramSuits
<1>8. t.npdu = npdu /\ d.npdu = npdu /\ d.msgCode = L_DATA_IND
  <2>1. HasFields(t, L_DATA_REQ, <<188 + 2 * ack, 128 + 16 * 6>>, 65535, dst, npdu)
        /\ HasFields(d, L_DATA_IND, <<188 + 2 * ack, 128 + 16 * 5>>, InterfaceAddress, dst, npdu)
    BY TelegramHas
  <2> HIDE DEF t, d, dst
  <2> QED BY <2>1, FieldsRead
<1>9. FromBus(t, InterfaceAddress) = d
  <2> DEFINE source == InterfaceAddress
             code == L_DATA_REQ
             from == 65535
             m == Telegram(code, ack, 6, from, dst, npdu)
             e == Telegram(L_DATA_IND, ack, 5, source, dst, npdu)
  <2>1. ack \in 0 .. 1
    BY <1>5
  <2> HIDE DEF dst, source, code, from
  <2> DEFINE Bus(a, x, z) == FromBus(Telegram(code, x, 6, from, dst, a), z)
                               = Telegram(L_DATA_IND, x, 5, z, dst, a)
  <2>5. \A a, z : \A x \in 0 .. 1 : Bus(a, x, z)
    BY BusIs
  <2>6. Bus(npdu, ack, source)
    <3> HIDE DEF Bus
    <3> QED BY <2>1, <2>5
  <2>2. FromBus(m, source) = e
    BY <2>6
  <2>3. m = t /\ e = d
    BY DEF source, code, from
  <2> HIDE DEF m, e, t, d
  <2> QED BY <2>2, <2>3 DEF source
<1> HIDE DEF t, d, c, dst
<1>10. Len(FlattenSeq(t.npdu.data)) <= 241 /\ Len(FlattenSeq(d.npdu.data)) <= 241
  BY <1>5, <1>8 DEF TelegramData
<1> DEFINE b == CEMIBytes(t)
           p == CEMIBytes(d)
           u == LongFrame(p, TRUE)
<1>11. Long(LongFrame(b, TRUE), b) /\ ParseCEMI(b, 0) = t
  BY <1>6, <1>10, TelegramOnLine
<1>12. Long(u, p) /\ FromSerialLine(p) = <<d>>
  BY <1>6, <1>8, <1>10, TelegramOnLine
<1>13. LongFramePayload(LongFrame(b, TRUE)).cemi[1] = b
  BY <1>11 DEF Long
<1>14. PacketOf(c) = RoutingIndication(t)
  BY <1>2, <1>5 DEF PacketWith, t
<1>15. RoutingIndication(t).cEMIMessage = t
  BY DEF RoutingIndication
<1> HIDE DEF u
<1>16. OnSerial(OnSerialLine(PacketOf(c), i \in Cuttable), u, i \in Cuttable)
  <2>1. LongFrame(CEMIBytes(FromBus(ParseCEMI(b, 0), InterfaceAddress)), TRUE) = u
    BY <1>9, <1>11 DEF u
  <2>2. PacketOf(c).cEMIMessage = t
    BY <1>14, <1>15
  <2> DEFINE o == i \in Cuttable
  <2>3. o \in BOOLEAN
    OBVIOUS
  <2> HIDE DEF o
  <2>4. OnSerial(OnSerialLine(PacketOf(c), o), u, o)
    <3> DEFINE asked == LongFramePayload(LongFrame(CEMIBytes(PacketOf(c).cEMIMessage), TRUE)).cemi[1]
    <3>1. asked = b
      BY <1>13, <2>2
    <3> HIDE DEF asked
    <3>2. LongFrame(CEMIBytes(FromBus(ParseCEMI(asked, 0), InterfaceAddress)), TRUE) = u
      BY <2>1, <3>1
    <3>3. OnSerialLine(PacketOf(c), o) =
             <<ACK_BYTE>> \o (IF o THEN Short \o Baos ELSE <<>>)
               \o LongFrame(CEMIBytes(FromBus(ParseCEMI(asked, 0), InterfaceAddress)), TRUE)
      BY DEF OnSerialLine, asked, Short, Baos
    <3> QED BY <3>2, <3>3 DEF OnSerial
  <2> QED BY <2>4 DEF o
<1>17. ArrivesAs(FromSerialLine(p), c)
  BY <1>7, <1>12 DEF ArrivesAs
<1> QED BY <1>12, <1>16, <1>17 DEF c

\* A unit of the line: others, an acknowledgement, or the telegram of the next call; x0 and y0
\* telegrams and acknowledgements come before it, x1 and y1 with it.
OneUnit(r, s, u, x0, x1, y0, y1) ==
    \/ Quiet(u) /\ x1 = x0 /\ y1 = y0
    \/ u = <<ACK_BYTE>> /\ x1 = x0 /\ y1 = y0 + 1
    \/ /\ x1 = x0 + 1 /\ y1 = y0
       /\ \E p : Long(u, p) /\ Arrives(r, p, Calls[s[x1].index])

Laid(r, s, w, n, at, fr, ak) ==
    /\ Line(w, n, at) /\ Sequence(s) /\ Counted(n, s, fr, ak)
    /\ \A i \in 1 .. n : OneUnit(r, s, Sub(w, at[i - 1], at[i]), fr[i - 1], fr[i], ak[i - 1], ak[i])
    /\ \A k \in 1 .. Len(s) : \E i \in 1 .. n : fr[i] = k /\ fr[i - 1] = k - 1 /\ s[k].due = at[i]
    /\ \A k \in 1 .. ak[n] : \E i \in 1 .. n :
         /\ ak[i] = k /\ ak[i - 1] = k - 1 /\ at[i] = at[i - 1] + 1
         /\ k = 1 => at[i - 1] = 0
         /\ k # 1 => k - 1 \in 1 .. Len(s) /\ at[i - 1] = s[k - 1].due

\* What the unit f changes: s2 is s, or s with the call whose telegram it is.
Adds(r, s, w, n, fr, ak, f, s2, x, y) ==
    /\ f \in Octets /\ 0 < Len(f) /\ LineSize(f) = Len(f)
    /\ Sequence(s2) /\ Len(s) <= Len(s2) /\ \A k \in 1 .. Len(s) : s2[k] = s[k]
    /\ x = Len(s2) /\ x \in Nat /\ y \in Nat
    /\ OneUnit(r, s2, f, fr[n], x, ak[n], y)
    /\ x # fr[n] => s2[x].due = Len(w) + Len(f)
    /\ y # ak[n] => /\ Len(f) = 1
                    /\ y = 1 => Len(w) = 0
                    /\ y # 1 => y - 1 \in 1 .. Len(s) /\ Len(w) = s[y - 1].due

\* Another call leaves the units before as they are.
LEMMA UnitStays ==
    ASSUME NEW r, NEW s, NEW s2, NEW u, NEW x0 \in Nat, NEW x1, NEW y0, NEW y1,
           OneUnit(r, s, u, x0, x1, y0, y1), x1 # x0 => s2[x1] = s[x1]
    PROVE  OneUnit(r, s2, u, x0, x1, y0, y1)
<1>1. CASE x1 = x0 + 1 /\ y1 = y0 /\ \E p : Long(u, p) /\ Arrives(r, p, Calls[s[x1].index])
  <2>1. CASE x1 # x0
    BY <1>1, <2>1 DEF OneUnit
  <2>2. CASE x1 = x0
    BY <1>1, <2>2 DEF OneUnit
  <2> QED BY <2>1, <2>2
<1>2. CASE ~(x1 = x0 + 1 /\ y1 = y0 /\ \E p : Long(u, p) /\ Arrives(r, p, Calls[s[x1].index]))
  BY <1>2 DEF OneUnit
<1> QED BY <1>1, <1>2

\* So do those of a line.
LEMMA FramesGrow ==
    ASSUME NEW r, NEW s, NEW w, NEW n, NEW at, NEW fr, NEW ak, Laid(r, s, w, n, at, fr, ak)
    PROVE  /\ \A i \in 0 .. n, k \in 0 .. n : i <= k => fr[i] <= fr[k]
           /\ \A i \in 0 .. n, k \in 0 .. n : i <= k => ak[i] <= ak[k]
<1>1. n \in Nat /\ fr \in [0 .. n -> Nat] /\ ak \in [0 .. n -> Nat]
  BY DEF Laid, Counted, Line, Parts
<1>2. ASSUME NEW i \in 1 .. n
      PROVE  (fr[i] = fr[i - 1] \/ fr[i] = fr[i - 1] + 1) /\ (ak[i] = ak[i - 1] \/ ak[i] = ak[i - 1] + 1)
  <2>1. OneUnit(r, s, Sub(w, at[i - 1], at[i]), fr[i - 1], fr[i], ak[i - 1], ak[i])
    BY DEF Laid
  <2> QED BY <2>1 DEF OneUnit
<1>3. \A i \in 0 .. n, k \in 0 .. n : i <= k => fr[i] <= fr[k]
  BY <1>1, <1>2, CountsGrow
<1>4. \A i \in 0 .. n, k \in 0 .. n : i <= k => ak[i] <= ak[k]
  BY <1>1, <1>2, CountsGrow
<1> QED BY <1>3, <1>4

\* And the line with it is laid as before, with the counts it adds to.
LEMMA LaidMore ==
    ASSUME NEW r, NEW s, NEW w, NEW n, NEW at, NEW fr, NEW ak, Laid(r, s, w, n, at, fr, ak),
           NEW f, NEW s2, NEW x, NEW y, Adds(r, s, w, n, fr, ak, f, s2, x, y)
    PROVE  Laid(r, s2, w \o f, n + 1, Grown(n, at, f), Spread(n, fr, x), Spread(n, ak, y))
<1> DEFINE w2 == w \o f
           at2 == Grown(n, at, f)
           fr2 == Spread(n, fr, x)
           ak2 == Spread(n, ak, y)
           N == n + 1
           size == Len(s)
<1>1. Line(w, n, at) /\ Parts(w, n, at) /\ n \in Nat /\ Len(w) \in Nat /\ at[n] = Len(w)
  <2>1. Line(w, n, at) /\ Parts(w, n, at)
    BY DEF Laid, Line
  <2> QED BY <2>1, PartsEnds
<1>2. /\ Sequence(s) /\ size \in Nat /\ Counted(n, s, fr, ak)
      /\ fr \in [0 .. n -> Nat] /\ ak \in [0 .. n -> Nat] /\ fr[0] = 0 /\ ak[0] = 0 /\ fr[n] = size
      /\ \A i \in 0 .. n : fr[i] \in Nat /\ ak[i] \in Nat
  BY DEF Laid, Counted, Sequence
<1>3. /\ f \in Octets /\ 0 < Len(f) /\ Len(f) \in Nat /\ LineSize(f) = Len(f)
      /\ Sequence(s2) /\ size <= x /\ (\A k \in 1 .. size : s2[k] = s[k])
      /\ x = Len(s2) /\ x \in Nat /\ y \in Nat
      /\ OneUnit(r, s2, f, fr[n], x, ak[n], y)
      /\ x # fr[n] => s2[x].due = Len(w) + Len(f)
      /\ y # ak[n] => /\ Len(f) = 1
                      /\ y = 1 => Len(w) = 0
                      /\ y # 1 => y - 1 \in 1 .. size /\ Len(w) = s[y - 1].due
  BY DEF Adds, Octets
<1>4. GrownBy(w, n, at, f, w2, at2)
  BY <1>1, <1>3, PartAdded
<1>5. /\ fr2 \in [0 .. N -> Nat] /\ fr2[N] = x /\ \A i \in 0 .. n : fr2[i] = fr[i]
      /\ ak2 \in [0 .. N -> Nat] /\ ak2[N] = y /\ \A i \in 0 .. n : ak2[i] = ak[i]
  <2>1. n \in Nat /\ fr \in [0 .. n -> Nat] /\ ak \in [0 .. n -> Nat] /\ x \in Nat /\ y \in Nat
    BY <1>1, <1>2, <1>3
  <2>2. fr2 \in [0 .. N -> Nat] /\ fr2[N] = x /\ \A i \in 0 .. n : fr2[i] = fr[i]
    BY ONLY <2>1, SpreadIs
  <2>3. ak2 \in [0 .. N -> Nat] /\ ak2[N] = y /\ \A i \in 0 .. n : ak2[i] = ak[i]
    BY ONLY <2>1, SpreadIs
  <2> QED BY <2>2, <2>3
<1> HIDE DEF w2, at2, fr2, ak2, size
<1>6. Line(w2, N, at2)
  BY <1>1, <1>3, <1>4, LineGrows
<1>7. Counted(N, s2, fr2, ak2)
  <2>1. 0 \in 0 .. n
    BY <1>1
  <2> QED BY <1>2, <1>3, <1>5, <2>1 DEF Counted
<1>8. /\ N \in 1 .. N /\ N - 1 = n /\ n \in 0 .. n /\ N \in Nat
      /\ \A i \in 1 .. N : i = N \/ (i \in 1 .. n /\ i \in 0 .. n /\ i - 1 \in 0 .. n)
      /\ 1 .. n \subseteq 1 .. N
  BY <1>1
<1>9. at2[N] = Len(w) + Len(f) /\ at2[n] = Len(w) /\ Sub(w2, at2[n], at2[N]) = f
  BY <1>1, <1>4, <1>8 DEF GrownBy
<1>10. \A i \in 1 .. n : /\ Sub(w2, at2[i - 1], at2[i]) = Sub(w, at[i - 1], at[i])
                         /\ at2[i] = at[i] /\ at2[i - 1] = at[i - 1]
  BY <1>1, <1>4, PartsStay
<1>11. \A i \in 1 .. n : fr2[i] = fr[i] /\ fr2[i - 1] = fr[i - 1] /\ ak2[i] = ak[i] /\ ak2[i - 1] = ak[i - 1]
  BY <1>5, <1>8
<1>12. x = fr[n] \/ x = fr[n] + 1
  BY <1>3 DEF OneUnit
<1>13. y = ak[n] \/ y = ak[n] + 1
  BY <1>3 DEF OneUnit
<1> HIDE DEF N
<1>14. ASSUME NEW i \in 1 .. N
       PROVE  OneUnit(r, s2, Sub(w2, at2[i - 1], at2[i]), fr2[i - 1], fr2[i], ak2[i - 1], ak2[i])
  <2>1. CASE i = N
    BY <1>3, <1>5, <1>8, <1>9, <2>1
  <2>2. CASE i # N
    <3>1. i \in 1 .. n /\ i \in 0 .. n /\ i - 1 \in 0 .. n
      BY <1>8, <2>2
    <3> DEFINE u == Sub(w, at[i - 1], at[i])
    <3>2. OneUnit(r, s, u, fr[i - 1], fr[i], ak[i - 1], ak[i])
      BY <3>1 DEF Laid
    <3>3. fr[i - 1] \in Nat /\ fr[i] \in Nat
      BY <1>2, <3>1
    <3>4. fr[i] # fr[i - 1] => s2[fr[i]] = s[fr[i]]
      <4> SUFFICES ASSUME fr[i] # fr[i - 1] PROVE fr[i] \in 1 .. size
        BY <1>3
      <4>1. fr[i] # 0
        <5>1. fr[i] = fr[i - 1] + 1
          BY <3>2 DEF OneUnit
        <5> QED BY <3>3, <5>1
      <4>2. fr[i] <= fr[n]
        <5>1. \A h \in 0 .. n, k \in 0 .. n : h <= k => fr[h] <= fr[k]
          BY FramesGrow
        <5>2. i <= n
          BY <3>1
        <5> QED BY <1>8, <3>1, <5>1, <5>2
      <4> QED BY <1>2, <3>3, <4>1, <4>2
    <3> HIDE DEF u
    <3>5. OneUnit(r, s2, u, fr[i - 1], fr[i], ak[i - 1], ak[i])
      BY <3>2, <3>3, <3>4, UnitStays
    <3> QED BY <1>10, <1>11, <3>1, <3>5 DEF u
  <2> QED BY <2>1, <2>2
<1>15. ASSUME NEW k \in 1 .. Len(s2)
       PROVE  \E i \in 1 .. N : fr2[i] = k /\ fr2[i - 1] = k - 1 /\ s2[k].due = at2[i]
  <2>1. CASE k \in 1 .. size
    <3>1. PICK i \in 1 .. n : fr[i] = k /\ fr[i - 1] = k - 1 /\ s[k].due = at[i]
      BY <2>1 DEF Laid, size
    <3> QED BY <1>3, <1>8, <1>10, <1>11, <2>1, <3>1
  <2>2. CASE ~(k \in 1 .. size)
    <3>1. k = x /\ x = fr[n] + 1 /\ x # fr[n]
      BY <1>2, <1>3, <1>12, <2>2
    <3>2. fr2[N] = k /\ fr2[N - 1] = k - 1
      BY <1>2, <1>5, <1>8, <3>1
    <3>3. s2[k].due = at2[N]
      BY <1>3, <1>9, <3>1
    <3> QED BY <1>8, <3>2, <3>3
  <2> QED BY <2>1, <2>2
<1>16. ASSUME NEW k \in 1 .. ak2[N]
       PROVE  \E i \in 1 .. N :
                /\ ak2[i] = k /\ ak2[i - 1] = k - 1 /\ at2[i] = at2[i - 1] + 1
                /\ k = 1 => at2[i - 1] = 0
                /\ k # 1 => k - 1 \in 1 .. Len(s2) /\ at2[i - 1] = s2[k - 1].due
  <2>1. CASE k \in 1 .. ak[n]
    <3>1. PICK i \in 1 .. n :
                /\ ak[i] = k /\ ak[i - 1] = k - 1 /\ at[i] = at[i - 1] + 1
                /\ k = 1 => at[i - 1] = 0
                /\ k # 1 => k - 1 \in 1 .. size /\ at[i - 1] = s[k - 1].due
      BY <2>1 DEF Laid, size
    <3>2. ak2[i] = k /\ ak2[i - 1] = k - 1 /\ at2[i] = at2[i - 1] + 1 /\ i \in 1 .. N
      BY <1>8, <1>10, <1>11, <3>1
    <3>3. k = 1 => at2[i - 1] = 0
      BY <1>10, <3>1
    <3>4. k # 1 => k - 1 \in 1 .. Len(s2) /\ at2[i - 1] = s2[k - 1].due
      <4> SUFFICES ASSUME k # 1 PROVE k - 1 \in 1 .. Len(s2) /\ at2[i - 1] = s2[k - 1].due
        OBVIOUS
      <4> DEFINE h == k - 1
      <4>1. h \in 1 .. size /\ at[i - 1] = s[h].due
        BY <3>1
      <4> HIDE DEF h
      <4>2. h \in 1 .. Len(s2) /\ s2[h] = s[h]
        BY <1>2, <1>3, <4>1
      <4> QED BY <1>10, <4>1, <4>2 DEF h
    <3> QED BY <3>2, <3>3, <3>4
  <2>2. CASE ~(k \in 1 .. ak[n])
    <3>1. k = y /\ y = ak[n] + 1 /\ y # ak[n]
      BY <1>2, <1>3, <1>5, <1>8, <1>13, <2>2
    <3>2. ak2[N] = k /\ ak2[N - 1] = k - 1
      BY <1>2, <1>5, <1>8, <3>1
    <3>3. at2[N] = at2[N - 1] + 1 /\ at2[N - 1] = Len(w)
      BY <1>3, <1>8, <1>9, <3>1
    <3>4. k # 1 => k - 1 \in 1 .. Len(s2) /\ at2[N - 1] = s2[k - 1].due
      <4> SUFFICES ASSUME k # 1 PROVE k - 1 \in 1 .. Len(s2) /\ at2[N - 1] = s2[k - 1].due
        OBVIOUS
      <4> DEFINE h == k - 1
      <4>1. h \in 1 .. size /\ Len(w) = s[h].due
        BY <1>3, <3>1
      <4> HIDE DEF h
      <4>2. h \in 1 .. Len(s2) /\ s2[h] = s[h]
        BY <1>2, <1>3, <4>1
      <4> QED BY <3>3, <4>1, <4>2 DEF h
    <3> QED BY <1>3, <1>8, <3>1, <3>2, <3>3, <3>4
  <2> QED BY <2>1, <2>2
<1>17. Laid(r, s2, w2, N, at2, fr2, ak2)
  <2> HIDE DEF Sequence
  <2> QED BY <1>3, <1>6, <1>7, <1>14, <1>15, <1>16, Zenon DEF Laid
<1> QED BY <1>17 DEF w2, N, at2, fr2, ak2

OverSerial(r, s, l, c, rs, g, a, w, n, at, fr, ak) ==
    /\ Laid(r, s, w, n, at, fr, ak) /\ c \in Nat /\ c <= Len(w) /\ l = Sub(w, c, Len(w))
    /\ Sequence(g) /\ ReadTo(w, n, at, fr, ak, c, rs, g, a)
    /\ \A k \in 1 .. Len(g) : SuitsBy(r, g[k], Calls[s[k].index])

\* A line of x octets with y acknowledgements.
SerialTo(r, s, l, c, rs, g, a, x, y) ==
    \E w, n, at, fr, ak :
       OverSerial(r, s, l, c, rs, g, a, w, n, at, fr, ak) /\ Len(w) = x /\ ak[n] = y

\* A unit put on the line does not change what was read.
LEMMA UnitSent ==
    ASSUME NEW r, NEW s, NEW l, NEW c, NEW rs, NEW g, NEW a, NEW w, NEW n, NEW at, NEW fr, NEW ak,
           OverSerial(r, s, l, c, rs, g, a, w, n, at, fr, ak),
           NEW f, NEW s2, NEW x, NEW y, Adds(r, s, w, n, fr, ak, f, s2, x, y)
    PROVE  SerialTo(r, s2, l \o f, c, rs, g, a, Len(w) + Len(f), y)
<1> DEFINE w2 == w \o f
           at2 == Grown(n, at, f)
           fr2 == Spread(n, fr, x)
           ak2 == Spread(n, ak, y)
           N == n + 1
<1>1. /\ Laid(r, s, w, n, at, fr, ak) /\ c \in Nat /\ c <= Len(w) /\ l = Sub(w, c, Len(w))
      /\ Sequence(g) /\ ReadTo(w, n, at, fr, ak, c, rs, g, a)
      /\ \A k \in 1 .. Len(g) : SuitsBy(r, g[k], Calls[s[k].index])
  BY DEF OverSerial
<1>2. Parts(w, n, at) /\ n \in Nat /\ Len(w) \in Nat
  <2>1. Parts(w, n, at)
    BY <1>1 DEF Laid, Line
  <2> QED BY <2>1, PartsEnds
<1>3. f \in Octets /\ 0 < Len(f) /\ Len(f) \in Nat /\ x \in Nat /\ y \in Nat
      /\ \A k \in 1 .. Len(s) : s2[k] = s[k]
  BY DEF Adds, Octets
<1>4. GrownBy(w, n, at, f, w2, at2)
  BY <1>2, <1>3, PartAdded
<1>5. Laid(r, s2, w2, N, at2, fr2, ak2)
  BY <1>1, LaidMore
<1>6. /\ fr \in [0 .. n -> Nat] /\ ak \in [0 .. n -> Nat] /\ fr[n] = Len(s)
  BY <1>1 DEF Laid, Counted
<1>7. ak2[N] = y /\ \A i \in 0 .. n : fr2[i] = fr[i] /\ ak2[i] = ak[i]
  <2>1. n \in Nat /\ fr \in [0 .. n -> Nat] /\ ak \in [0 .. n -> Nat] /\ x \in Nat /\ y \in Nat
    BY <1>2, <1>3, <1>6
  <2>2. \A i \in 0 .. n : fr2[i] = fr[i]
    BY ONLY <2>1, SpreadIs
  <2>3. ak2[N] = y /\ \A i \in 0 .. n : ak2[i] = ak[i]
    BY ONLY <2>1, SpreadIs
  <2> QED BY <2>2, <2>3
<1> HIDE DEF w2, at2, fr2, ak2
<1>8. PICK j \in 0 .. n : Ended(n, at, c, j) /\ rs = Sub(w, at[j], c) /\ Len(g) = fr[j] /\ a = ak[j]
  BY <1>1 DEF ReadTo
<1>9. ReadTo(w2, N, at2, fr2, ak2, c, rs, g, a)
  <2>1. Ended(N, at2, c, j)
    BY <1>1, <1>4, <1>8 DEF GrownBy
  <2>2. at[j] \in Nat /\ at[j] <= c
    BY <1>2, <1>8, PartsEnds DEF Ended
  <2>3. rs = Sub(w2, at2[j], c)
    BY <1>1, <1>4, <1>8, <2>2 DEF GrownBy
  <2>4. j \in 0 .. N
    BY <1>2
  <2>5. Len(g) = fr2[j] /\ a = ak2[j]
    BY <1>7, <1>8
  <2> QED BY <2>1, <2>3, <2>4, <2>5 DEF ReadTo
<1>10. c <= Len(w2) /\ l \o f = Sub(w2, c, Len(w2)) /\ Len(w2) = Len(w) + Len(f)
  <2>1. Len(w2) = Len(w) + Len(f) /\ Sub(w2, c, Len(w2)) = l \o f
    BY <1>1, <1>4 DEF GrownBy
  <2>2. c <= Len(w2)
    BY <1>1, <1>2, <1>3, <2>1
  <2> QED BY <2>1, <2>2
<1>11. ASSUME NEW k \in 1 .. Len(g) PROVE SuitsBy(r, g[k], Calls[s2[k].index])
  <2>1. Len(g) <= Len(s)
    <3>1. \A i \in 0 .. n, h \in 0 .. n : i <= h => fr[i] <= fr[h]
      BY <1>1, FramesGrow
    <3>2. n \in 0 .. n /\ j <= n
      BY <1>2
    <3> QED BY <1>6, <1>8, <3>1, <3>2
  <2>2. Len(g) \in Nat /\ Len(s) \in Nat
    BY <1>1 DEF Sequence, Laid
  <2>3. k \in 1 .. Len(s)
    BY <2>1, <2>2
  <2> QED BY <1>1, <1>3, <2>3
<1> DEFINE l2 == l \o f
<1>12. l2 = Sub(w2, c, Len(w2))
  BY <1>10
<1> HIDE DEF l2, N
<1>13. OverSerial(r, s2, l2, c, rs, g, a, w2, N, at2, fr2, ak2)
  <2> HIDE DEF Sequence
  <2> QED BY <1>1, <1>5, <1>9, <1>10, <1>11, <1>12 DEF OverSerial
<1> QED BY <1>7, <1>10, <1>13 DEF SerialTo, l2

\* The acknowledgement of a call comes first, when the line ends with the call before.
LEMMA AckSent ==
    ASSUME NEW r, NEW s, NEW l, NEW c, NEW rs, NEW g, NEW a, NEW x, EndOf(s, x),
           SerialTo(r, s, l, c, rs, g, a, x, Len(s))
    PROVE  SerialTo(r, s, l \o <<ACK_BYTE>>, c, rs, g, a, x + 1, Len(s) + 1)
<1> DEFINE f == <<ACK_BYTE>>
           y == Len(s) + 1
<1>1. PICK w, n, at, fr, ak :
         OverSerial(r, s, l, c, rs, g, a, w, n, at, fr, ak) /\ Len(w) = x /\ ak[n] = Len(s)
  BY DEF SerialTo
<1>2. Laid(r, s, w, n, at, fr, ak) /\ Sequence(s) /\ Len(s) \in Nat /\ fr[n] = Len(s)
  BY <1>1 DEF OverSerial, Laid, Sequence, Counted
<1>3. f \in Octets /\ Len(f) = 1 /\ LineSize(f) = Len(f)
  <2>1. ACK_BYTE \in Octet
    BY OctetIs DEF ACK_BYTE
  <2>2. f \in Octets /\ Len(f) = 1
    BY <2>1 DEF Octets
  <2> QED BY <2>2, LineUnitsAreRead
<1>4. OneUnit(r, s, f, fr[n], Len(s), ak[n], y)
  BY <1>1, <1>2 DEF OneUnit
<1>5. y # 1 => y - 1 \in 1 .. Len(s) /\ Len(w) = s[y - 1].due
  <2> SUFFICES ASSUME y # 1 PROVE y - 1 \in 1 .. Len(s) /\ Len(w) = s[y - 1].due
    OBVIOUS
  <2>1. y - 1 = Len(s) /\ Len(s) # 0
    BY <1>2
  <2>2. Len(w) = s[Len(s)].due
    BY <1>1, <2>1 DEF EndOf
  <2>3. Len(s) \in 1 .. Len(s)
    BY <1>2, <2>1
  <2> HIDE DEF y
  <2> QED BY <2>1, <2>2, <2>3
<1>6. y = 1 => Len(w) = 0
  BY <1>1, <1>2 DEF EndOf
<1>7. y \in Nat
  BY <1>2
<1> HIDE DEF f, y
<1>8. Adds(r, s, w, n, fr, ak, f, s, Len(s), y)
  <2> HIDE DEF Sequence
  <2>1. Len(s) <= Len(s) /\ 0 < Len(f)
    BY <1>2, <1>3
  <2> QED BY <1>2, <1>3, <1>4, <1>5, <1>6, <1>7, <2>1 DEF Adds
<1>9. SerialTo(r, s, l \o f, c, rs, g, a, Len(w) + Len(f), y)
  BY <1>1, <1>8, UnitSent
<1> QED BY <1>1, <1>3, <1>9 DEF f, y

\* Quiet units are only octets.
LEMMA OtherSent ==
    ASSUME NEW r, NEW s, NEW l, NEW c, NEW rs, NEW g, NEW a, NEW x, NEW y,
           SerialTo(r, s, l, c, rs, g, a, x, y), NEW f, Quiet(f)
    PROVE  SerialTo(r, s, l \o f, c, rs, g, a, x + Len(f), y)
<1>1. PICK w, n, at, fr, ak :
         OverSerial(r, s, l, c, rs, g, a, w, n, at, fr, ak) /\ Len(w) = x /\ ak[n] = y
  BY DEF SerialTo
<1>2. /\ Laid(r, s, w, n, at, fr, ak) /\ Sequence(s) /\ Len(s) \in Nat /\ fr[n] = Len(s)
      /\ ak \in [0 .. n -> Nat] /\ n \in Nat
  BY <1>1 DEF OverSerial, Laid, Sequence, Counted, Line, Parts
<1>3. f \in Octets /\ 0 < Len(f) /\ LineSize(f) = Len(f)
  BY DEF Quiet
<1>4. OneUnit(r, s, f, fr[n], Len(s), ak[n], y)
  BY <1>1, <1>2 DEF OneUnit
<1>5. y \in Nat
  <2>1. n \in 0 .. n
    BY <1>2
  <2> QED BY <1>1, <1>2, <2>1
<1>6. Adds(r, s, w, n, fr, ak, f, s, Len(s), y)
  <2> HIDE DEF Sequence
  <2>1. Len(s) <= Len(s)
    BY <1>2
  <2> QED BY <1>1, <1>2, <1>3, <1>4, <1>5, <2>1 DEF Adds
<1>7. SerialTo(r, s, l \o f, c, rs, g, a, Len(w) + Len(f), y)
  BY <1>1, <1>6, UnitSent
<1> QED BY <1>1, <1>7

\* The telegram of a call comes last.
LEMMA TelegramSent ==
    ASSUME NEW r, NEW s, NEW l, NEW c, NEW rs, NEW g, NEW a, NEW x,
           SerialTo(r, s, l, c, rs, g, a, x, Len(s) + 1), NEW u, NEW p, Long(u, p),
           NEW e, e.due = x + Len(u), Arrives(r, p, Calls[e.index])
    PROVE  LET s2 == Append(s, e)
           IN  SerialTo(r, s2, l \o u, c, rs, g, a, x + Len(u), Len(s2)) /\ EndOf(s2, x + Len(u))
<1> DEFINE s2 == Append(s, e)
           y == Len(s) + 1
<1>1. PICK w, n, at, fr, ak :
         OverSerial(r, s, l, c, rs, g, a, w, n, at, fr, ak) /\ Len(w) = x /\ ak[n] = y
  BY DEF SerialTo
<1>2. Laid(r, s, w, n, at, fr, ak) /\ Sequence(s) /\ Len(s) \in Nat /\ fr[n] = Len(s)
  BY <1>1 DEF OverSerial, Laid, Sequence, Counted
<1>3. AddsOne(s, e, s2)
  BY <1>2, OneMore
<1> HIDE DEF s2
<1>4. /\ Sequence(s2) /\ Len(s2) = y /\ s2[y] = e /\ (\A k \in 1 .. Len(s) : s2[k] = s[k])
      /\ y \in Nat
  BY <1>2, <1>3 DEF AddsOne
<1>5. u \in Octets /\ 0 < Len(u) /\ LineSize(u) = Len(u)
  BY DEF Long
<1>6. OneUnit(r, s2, u, fr[n], y, ak[n], y)
  <2>1. y = fr[n] + 1
    BY <1>2
  <2> HIDE DEF y
  <2> QED BY <1>1, <1>4, <2>1 DEF OneUnit
<1>7. Len(s) <= Len(s2)
  BY <1>2, <1>4
<1> HIDE DEF y
<1>8. Adds(r, s, w, n, fr, ak, u, s2, y, y)
  <2> HIDE DEF Sequence
  <2> QED BY <1>1, <1>4, <1>5, <1>6, <1>7 DEF Adds
<1>9. SerialTo(r, s2, l \o u, c, rs, g, a, Len(w) + Len(u), y)
  BY <1>1, <1>8, UnitSent
<1>10. EndOf(s2, x + Len(u))
  <2>1. Len(s2) # 0
    BY <1>2, <1>4 DEF y
  <2>2. x + Len(u) = s2[Len(s2)].due
    BY <1>4
  <2> QED BY <2>1, <2>2 DEF EndOf
<1> QED BY <1>1, <1>4, <1>9, <1>10 DEF s2

\* Frames that arrive for the calls after the first Len(g) add their messages to g.
ReadFrom(r, s, frames, first) ==
    /\ Sequence(frames)
    /\ \A i \in 1 .. Len(frames) : Arrives(r, frames[i], Calls[s[first + i].index])

Received(r, s, g) == Sequence(g) /\ \A k \in 1 .. Len(g) : SuitsBy(r, g[k], Calls[s[k].index])

\* They are read one by one, and each suits its call.
LEMMA AllRead ==
    ASSUME NEW r, NEW s, NEW g, Received(r, s, g), NEW frames, ReadFrom(r, s, frames, Len(g))
    PROVE  LET g2 == g \o FlattenSeq([i \in 1 .. Len(frames) |-> ReadBy(r, frames[i])])
           IN  Received(r, s, g2) /\ Len(g2) = Len(g) + Len(frames)
<1> DEFINE j == Len(g)
           size == Len(frames)
           read == [i \in 1 .. size |-> ReadBy(r, frames[i])]
           g2 == g \o FlattenSeq(read)
           suits(x, i) == SuitsBy(r, x, Calls[s[j + i].index])
           m1(i) == CHOOSE x : ReadBy(r, frames[i]) = <<x>> /\ suits(x, i)
           xs == [i \in 1 .. size |-> m1(i)]
<1>1. /\ Sequence(g) /\ j \in Nat /\ size \in Nat
      /\ \A k \in 1 .. j : SuitsBy(r, g[k], Calls[s[k].index])
      /\ \A i \in 1 .. size : Arrives(r, frames[i], Calls[s[j + i].index])
  BY DEF Received, ReadFrom, Sequence
<1> HIDE DEF j, size
<1>2. \A i \in 1 .. size : ReadBy(r, frames[i]) = <<m1(i)>> /\ suits(m1(i), i)
  <2> TAKE i \in 1 .. size
  <2>1. Arrives(r, frames[i], Calls[s[j + i].index])
    BY <1>1
  <2>2. PICK x : ReadBy(r, frames[i]) = <<x>> /\ suits(x, i)
    BY <2>1 DEF Arrives
  <2> HIDE DEF suits
  <2> QED BY <2>2
<1> HIDE DEF m1, suits
<1>3. read = [i \in 1 .. size |-> <<xs[i]>>]
  <2>1. \A i \in 1 .. size : ReadBy(r, frames[i]) = <<xs[i]>>
    BY <1>2
  <2> HIDE DEF xs
  <2> QED BY <2>1
<1>4. \A i \in 1 .. size : suits(xs[i], i)
  BY <1>2
<1>5. Sequence(xs) /\ Len(xs) = size
  BY <1>1 DEF Sequence
<1>6. xs = [i \in 1 .. size |-> xs[i]]
  OBVIOUS
<1> HIDE DEF read, xs
<1>7. FlattenSeq(read) = xs
  <2>1. OnesOf(read, size, xs)
    BY <1>1, <1>3 DEF OnesOf
  <2>2. FlattenSeq(read) = [i \in 1 .. size |-> xs[i]]
    BY ONLY <2>1, FlatOnes
  <2> QED BY <1>6, <2>2
<1>8. JoinsTo(g, xs, g2)
  BY <1>1, <1>5, <1>7, JoinedSequence
<1> HIDE DEF g2
<1>9. /\ Sequence(g2) /\ Len(g2) = j + size
      /\ \A i \in 1 .. j : g2[i] = g[i]
      /\ \A i \in 1 .. size : g2[j + i] = xs[i]
  BY <1>5, <1>8 DEF JoinsTo, j
<1>10. ASSUME NEW i \in 1 .. Len(g2) PROVE SuitsBy(r, g2[i], Calls[s[i].index])
  <2>1. CASE i \in 1 .. j
    BY <1>1, <1>9, <2>1
  <2>2. CASE ~(i \in 1 .. j)
    <3> DEFINE p == i - j
    <3>1. p \in 1 .. size /\ j + p = i
      BY <1>1, <1>9, <2>2
    <3> HIDE DEF p
    <3>2. suits(xs[p], p) /\ g2[i] = xs[p]
      BY <1>4, <1>9, <3>1
    <3> QED BY <3>1, <3>2 DEF suits
  <2> QED BY <2>1, <2>2
<1>11. Received(r, s, g2)
  BY <1>9, <1>10 DEF Received
<1> QED BY <1>9, <1>11 DEF g2, read, j, size

\* What the units after the j-th tell, the first d of them.
Tells(r, s, t, x0, x1, y0, y1) ==
    /\ ReadFrom(r, s, t.frames, x0) /\ x0 + Len(t.frames) = x1 /\ Len(t.frames) \in Nat
    /\ t.acks \in Nat /\ y0 + t.acks = y1

\* One unit more tells what it tells.
LEMMA UnitTold ==
    ASSUME NEW r, NEW s, NEW t, NEW x0 \in Nat, NEW x1 \in Nat, NEW y0 \in Nat, NEW y1 \in Nat,
           Tells(r, s, t, x0, x1, y0, y1), NEW u, NEW x2, NEW y2, OneUnit(r, s, u, x1, x2, y1, y2)
    PROVE  Tells(r, s, Plus(t, LineUnit(u)), x0, x2, y0, y2)
<1> DEFINE v == LineUnit(u)
           t2 == Plus(t, v)
           old == t.frames
           new == v.frames
           both == old \o new
<1>1. t2.frames = both /\ t2.acks = t.acks + v.acks
  BY DEF Plus
<1>2. /\ Sequence(old) /\ Len(old) \in Nat /\ x0 + Len(old) = x1 /\ t.acks \in Nat /\ y0 + t.acks = y1
      /\ \A i \in 1 .. Len(old) : Arrives(r, old[i], Calls[s[x0 + i].index])
  BY DEF Tells, ReadFrom
<1>3. /\ Sequence(new) /\ Len(new) \in Nat /\ x1 + Len(new) = x2 /\ v.acks \in Nat /\ y1 + v.acks = y2
      /\ \A i \in 1 .. Len(new) : Arrives(r, new[i], Calls[s[x1 + i].index])
  <2>1. CASE Quiet(u) /\ x2 = x1 /\ y2 = y1
    <3>1. new = <<>> /\ v.acks = 0
      BY <2>1 DEF Quiet
    <3> HIDE DEF new, v, Sequence
    <3>2. Sequence(new) /\ Len(new) = 0 /\ 1 .. Len(new) = {}
      BY <3>1, EmptySequence
    <3> QED BY <2>1, <3>1, <3>2
  <2>2. CASE u = <<ACK_BYTE>> /\ x2 = x1 /\ y2 = y1 + 1
    <3>1. v = [frames |-> <<>>, acks |-> 1, sent |-> 0]
      BY <2>2, LineUnitsAreRead
    <3>2. new = <<>> /\ v.acks = 1
      BY <3>1
    <3> HIDE DEF new, v, Sequence
    <3>3. Sequence(new) /\ Len(new) = 0 /\ 1 .. Len(new) = {}
      BY <3>2, EmptySequence
    <3> QED BY <2>2, <3>2, <3>3
  <2>3. CASE x2 = x1 + 1 /\ y2 = y1 /\ \E p : Long(u, p) /\ Arrives(r, p, Calls[s[x2].index])
    <3>1. PICK p : Long(u, p) /\ Arrives(r, p, Calls[s[x2].index])
      BY <2>3
    <3>2. new = <<p>> /\ v.acks = 0
      BY <3>1 DEF Long
    <3> HIDE DEF new, v
    <3>3. Sequence(new) /\ Len(new) = 1 /\ new[1] = p
      BY <3>2 DEF Sequence
    <3> HIDE DEF Sequence
    <3>4. \A i \in 1 .. Len(new) : Arrives(r, new[i], Calls[s[x1 + i].index])
      <4> TAKE i \in 1 .. Len(new)
      <4>1. i = 1
        BY <3>3
      <4> QED BY <2>3, <3>1, <3>3, <4>1
    <3> QED BY <2>3, <3>2, <3>3, <3>4
  <2> QED BY <2>1, <2>2, <2>3 DEF OneUnit
<1> HIDE DEF v
<1>4. JoinsTo(old, new, both)
  BY <1>2, <1>3, JoinedSequence
<1> HIDE DEF both, old, new, t2
<1>5. /\ Sequence(both) /\ Len(both) = Len(old) + Len(new)
      /\ \A i \in 1 .. Len(old) : both[i] = old[i]
      /\ \A i \in 1 .. Len(new) : both[Len(old) + i] = new[i]
  BY <1>4 DEF JoinsTo
<1>6. ASSUME NEW i \in 1 .. Len(both) PROVE Arrives(r, both[i], Calls[s[x0 + i].index])
  <2>1. CASE i \in 1 .. Len(old)
    BY <1>2, <1>5, <2>1
  <2>2. CASE ~(i \in 1 .. Len(old))
    <3> DEFINE x == Len(old)
               y == Len(new)
               p == i - x
    <3>0. x \in Nat /\ y \in Nat /\ i \in 1 .. x + y /\ ~(i \in 1 .. x) /\ x0 \in Nat /\ x1 = x0 + x
      BY <1>2, <1>3, <1>5, <2>2
    <3> HIDE DEF x, y
    <3>1. p \in 1 .. y /\ x + p = i /\ x1 + p = x0 + i
      BY <3>0
    <3> USE DEF x, y
    <3> HIDE DEF p
    <3>2. Arrives(r, new[p], Calls[s[x1 + p].index]) /\ both[i] = new[p]
      BY <1>3, <1>5, <3>1
    <3> QED BY <3>1, <3>2
  <2> QED BY <2>1, <2>2
<1>7. x0 + Len(both) = x2 /\ Len(both) \in Nat
  <2>1. Len(old) \in Nat /\ Len(new) \in Nat /\ x0 + Len(old) = x1 /\ x1 + Len(new) = x2
        /\ Len(both) = Len(old) + Len(new)
    BY <1>2, <1>3, <1>5
  <2> QED BY ONLY <2>1, x0 \in Nat
<1>8. t2.acks \in Nat /\ y0 + t2.acks = y2
  BY <1>1, <1>2, <1>3
<1>9. Tells(r, s, t2, x0, x2, y0, y2)
  <2> HIDE DEF Sequence
  <2> QED BY <1>1, <1>5, <1>6, <1>7, <1>8 DEF Tells, ReadFrom
<1> QED BY <1>9 DEF t2, v

\* So the units told by the line tell the counts they have.
LEMMA LineTells ==
    ASSUME NEW r, NEW s, NEW w, NEW n, NEW at, NEW fr, NEW ak, Laid(r, s, w, n, at, fr, ak),
           NEW j \in 0 .. n, NEW k \in j .. n
    PROVE  Tells(r, s, Told(w, n, at, j)[k - j], fr[j], fr[k], ak[j], ak[k])
<1> DEFINE t == Told(w, n, at, j)
           told(d) == Tells(r, s, t[d], fr[j], fr[j + d], ak[j], ak[j + d])
           T == {d \in Nat : d <= n - j => told(d)}
<1>1. Line(w, n, at) /\ n \in Nat /\ \A i \in 0 .. n : fr[i] \in Nat /\ ak[i] \in Nat
  BY DEF Laid, Counted, Line, Parts
<1>2. /\ t[0] = Nothing
      /\ \A d \in 1 .. n - j : t[d] = Plus(t[d - 1], LineUnit(Sub(w, at[j + d - 1], at[j + d])))
  BY <1>1, ToldIs
<1> HIDE DEF t
<1>3. told(0)
  <2>1. t[0].frames = <<>> /\ t[0].acks = 0
    BY <1>2 DEF Nothing
  <2>2. j + 0 = j /\ fr[j] \in Nat /\ ak[j] \in Nat
    BY <1>1
  <2> DEFINE frames == t[0].frames
  <2>3. Sequence(frames) /\ Len(frames) = 0 /\ 1 .. Len(frames) = {}
    BY <2>1, EmptySequence
  <2> HIDE DEF Sequence
  <2>4. ReadFrom(r, s, frames, fr[j])
    BY <2>3 DEF ReadFrom
  <2> QED BY <2>1, <2>2, <2>3, <2>4 DEF Tells
<1>4. ASSUME NEW d \in Nat, d \in T PROVE d + 1 \in T
  <2> SUFFICES ASSUME d + 1 <= n - j PROVE told(d + 1)
    OBVIOUS
  <2> DEFINE e == d + 1
             p == j + d
             q == j + e
  <2>1. d <= n - j /\ e \in 1 .. n - j /\ e - 1 = d /\ p \in 0 .. n /\ q \in 1 .. n /\ q - 1 = p
        /\ q \in 0 .. n /\ j + e - 1 = p
    BY <1>1
  <2>2. Tells(r, s, t[d], fr[j], fr[p], ak[j], ak[p])
    BY <1>4, <2>1
  <2> HIDE DEF T, told, p
  <2>3. t[e] = Plus(t[d], LineUnit(Sub(w, at[p], at[q])))
    BY <1>2, <2>1
  <2> HIDE DEF q, e
  <2>4. OneUnit(r, s, Sub(w, at[p], at[q]), fr[p], fr[q], ak[p], ak[q])
    BY <2>1 DEF Laid
  <2>5. fr[j] \in Nat /\ fr[p] \in Nat /\ ak[j] \in Nat /\ ak[p] \in Nat
    BY <1>1, <2>1
  <2>6. Tells(r, s, t[e], fr[j], fr[q], ak[j], ak[q])
    BY <2>2, <2>3, <2>4, <2>5, UnitTold
  <2> QED BY <2>6 DEF told, e, q
<1>5. 0 \in T
  BY <1>3
<1> HIDE DEF T, told
<1>6. Nat \subseteq T
  BY <1>4, <1>5, Inductive
<1>7. k - j \in Nat /\ k - j <= n - j /\ j + (k - j) = k
  BY <1>1
<1> DEFINE z == k - j
<1>8. z \in T
  BY <1>6, <1>7
<1>9. told(z)
  BY <1>7, <1>8 DEF T
<1> QED BY <1>7, <1>9 DEF told, t

\* A chunk adds the messages and the acknowledgements of the units that end in it,
\* wherever it is cut.
LEMMA LineTaken ==
    ASSUME NEW r, NEW s, NEW l, NEW c, NEW rs, NEW g, NEW a, NEW w, NEW n, NEW at, NEW fr, NEW ak,
           OverSerial(r, s, l, c, rs, g, a, w, n, at, fr, ak), NEW d \in Nat, d <= Len(l)
    PROVE  LET taken == LineFrames(rs \o SubSeq(l, 1, d))
           IN  OverSerial(r, s, SubSeq(l, d + 1, Len(l)), c + d, taken.rest,
                        g \o FlattenSeq([i \in 1 .. Len(taken.frames) |-> ReadBy(r, taken.frames[i])]),
                        a + taken.acks, w, n, at, fr, ak)
<1> DEFINE m == c + d
           taken == LineFrames(rs \o SubSeq(l, 1, d))
           g2 == g \o FlattenSeq([i \in 1 .. Len(taken.frames) |-> ReadBy(r, taken.frames[i])])
           a2 == a + taken.acks
           l2 == SubSeq(l, d + 1, Len(l))
<1>1. /\ Laid(r, s, w, n, at, fr, ak) /\ c \in Nat /\ c <= Len(w) /\ l = Sub(w, c, Len(w))
      /\ Sequence(g) /\ ReadTo(w, n, at, fr, ak, c, rs, g, a)
      /\ \A k \in 1 .. Len(g) : SuitsBy(r, g[k], Calls[s[k].index])
  BY DEF OverSerial
<1>2. Line(w, n, at) /\ w \in Octets /\ Len(w) \in Nat
  <2>1. Line(w, n, at) /\ Parts(w, n, at)
    BY <1>1 DEF Laid, Line
  <2> QED BY <2>1, PartsEnds
<1>3. m <= Len(w) /\ l2 = Sub(w, m, Len(w)) /\ SubSeq(l, 1, d) = Sub(w, c, m)
  BY <1>1, <1>2, ChunkTaken
<1>4. PICK j \in 0 .. n : Ended(n, at, c, j) /\ rs = Sub(w, at[j], c) /\ Len(g) = fr[j] /\ a = ak[j]
  BY <1>1 DEF ReadTo
<1>5. m \in Nat /\ c <= m /\ at[j] <= c
  BY <1>1, <1>4 DEF Ended
<1>6. taken = LineFrames(Sub(w, at[j], c) \o Sub(w, c, m))
  BY <1>3, <1>4
<1> HIDE DEF taken, m, l2
<1>7. PICK k \in j .. n : Ended(n, at, m, k) /\ taken = LineSeen(w, n, at, m, j, k)
  <2>1. /\ Line(w, n, at) /\ j \in 0 .. n /\ c \in Nat /\ m \in Nat
        /\ at[j] <= c /\ c <= m /\ m <= Len(w)
    BY <1>1, <1>2, <1>3, <1>5
  <2>2. PICK k \in j .. n : /\ Ended(n, at, m, k)
                            /\ LineFrames(Sub(w, at[j], c) \o Sub(w, c, m)) = LineSeen(w, n, at, m, j, k)
    BY ONLY <2>1, ChunkOfLine
  <2> QED BY <1>6, <2>2
<1> DEFINE t == Told(w, n, at, j)[k - j]
<1>8. taken.rest = Sub(w, at[k], m) /\ taken.frames = t.frames /\ taken.acks = t.acks
  BY <1>7 DEF LineSeen
<1>9. Tells(r, s, t, fr[j], fr[k], ak[j], ak[k])
  BY <1>1, LineTells
<1> HIDE DEF t
<1>10. /\ ReadFrom(r, s, taken.frames, Len(g)) /\ Len(g) + Len(taken.frames) = fr[k]
       /\ a2 = ak[k]
  BY <1>4, <1>8, <1>9 DEF Tells
<1>11. Received(r, s, g)
  BY <1>1 DEF Received
<1>12. Received(r, s, g2) /\ Len(g2) = fr[k]
  <2> DEFINE frames == taken.frames
  <2>1. Received(r, s, g) /\ ReadFrom(r, s, frames, Len(g)) /\ Len(g) + Len(frames) = fr[k]
    BY <1>10, <1>11
  <2> DEFINE g3 == g \o FlattenSeq([i \in 1 .. Len(frames) |-> ReadBy(r, frames[i])])
  <2>2. g2 = g3
    OBVIOUS
  <2> HIDE DEF frames, g2
  <2>3. Received(r, s, g3) /\ Len(g3) = Len(g) + Len(frames)
    BY ONLY <2>1, AllRead
  <2> QED BY <2>1, <2>2, <2>3
<1> HIDE DEF g2, a2
<1>13. k \in 0 .. n
  BY <1>2 DEF Line, Parts
<1>14. ReadTo(w, n, at, fr, ak, m, taken.rest, g2, a2)
  BY <1>7, <1>8, <1>10, <1>12, <1>13 DEF ReadTo
<1>15. OverSerial(r, s, l2, m, taken.rest, g2, a2, w, n, at, fr, ak)
  <2> HIDE DEF Sequence
  <2> QED BY <1>1, <1>3, <1>5, <1>12, <1>14 DEF OverSerial, Received
<1> QED BY <1>15 DEF l2, m, g2, a2, taken

\* A call ends the line, and each has been acknowledged on it.
SerialStream(r, s, l, c, rs, g, a) ==
    \E x : EndOf(s, x) /\ SerialTo(r, s, l, c, rs, g, a, x, Len(s))

\* The conversation over the serial line.
SerialInv == transport = "SerialFT12" => SerialStream(Reader, sent, line, count, rest, got, acks)

\* Before the first call the line is empty.
LEMMA NoLine == ASSUME NEW r PROVE SerialStream(r, <<>>, <<>>, 0, <<>>, <<>>, 0)
<1> DEFINE w == <<>>
           at == [i \in 0 .. 0 |-> 0]
<1>1. Sequence(<<>>) /\ Len(<<>>) = 0 /\ w \in Octets /\ Len(w) = 0
  BY EmptySequence DEF Octets
<1>2. at \in [0 .. 0 -> Nat] /\ at[0] = 0
  OBVIOUS
<1>3. Sub(w, 0, 0) = <<>>
  BY DEF Sub
<1> HIDE DEF w, at
<1>4. Line(w, 0, at)
  <2>1. 1 .. 0 = {}
    OBVIOUS
  <2> QED BY <1>1, <1>2, <2>1 DEF Line, Parts
<1>5. Ended(0, at, 0, 0)
  BY <1>2 DEF Ended
<1>6. Laid(r, <<>>, w, 0, at, at, at)
  <2>1. 1 .. 0 = {}
    OBVIOUS
  <2> HIDE DEF Sequence
  <2> QED BY <1>1, <1>2, <1>4, <2>1 DEF Laid, Counted
<1>7. ReadTo(w, 0, at, at, at, 0, <<>>, <<>>, 0)
  <2>1. 0 \in 0 .. 0
    OBVIOUS
  <2> QED BY <1>1, <1>2, <1>3, <1>5, <2>1 DEF ReadTo
<1>8. OverSerial(r, <<>>, <<>>, 0, <<>>, <<>>, 0, w, 0, at, at, at)
  <2>1. 1 .. 0 = {} /\ 0 \in Nat /\ 0 <= 0
    OBVIOUS
  <2> HIDE DEF Sequence
  <2> QED BY <1>1, <1>3, <1>6, <1>7, <2>1 DEF OverSerial
<1>9. SerialTo(r, <<>>, <<>>, 0, <<>>, <<>>, 0, 0, 0)
  BY <1>1, <1>2, <1>8 DEF SerialTo
<1>10. EndOf(<<>>, 0)
  BY <1>1 DEF EndOf
<1> QED BY <1>1, <1>9, <1>10 DEF SerialStream

\* The line has the octets that are delivered and those under way.
LEMMA SerialLength ==
    ASSUME NEW r, NEW s, NEW l, NEW c, NEW rs, NEW g, NEW a, NEW x, NEW y,
           SerialTo(r, s, l, c, rs, g, a, x, y)
    PROVE  /\ l \in Octets /\ Len(l) \in Nat /\ c \in Nat /\ x \in Nat /\ c + Len(l) = x
           /\ Sequence(s)
<1>1. PICK w, n, at, fr, ak :
         OverSerial(r, s, l, c, rs, g, a, w, n, at, fr, ak) /\ Len(w) = x /\ ak[n] = y
  BY DEF SerialTo
<1>2. Parts(w, n, at) /\ Sequence(s) /\ c \in Nat /\ c <= Len(w) /\ l = Sub(w, c, Len(w))
  BY <1>1 DEF OverSerial, Laid, Line
<1>3. w \in Octets /\ Len(w) \in Nat /\ Len(w) <= Len(w)
  BY <1>2, PartsEnds
<1>4. l \in Octets /\ Len(l) = Len(w) - c
  BY <1>2, <1>3, SubIs
<1> QED BY <1>1, <1>2, <1>3, <1>4

\* A call adds its acknowledgement, the others, and its telegram.
LEMMA LineSent ==
    ASSUME NEW r, NEW s, NEW l, NEW c, NEW rs, NEW g, NEW a, SerialStream(r, s, l, c, rs, g, a),
           NEW octets, NEW others \in BOOLEAN, NEW u, NEW p, OnSerial(octets, u, others), Long(u, p),
           NEW e, e.due = c + Len(l) + Len(octets), Arrives(r, p, Calls[e.index])
    PROVE  SerialStream(r, Append(s, e), l \o octets, c, rs, g, a)
<1> DEFINE ack == <<ACK_BYTE>>
           s2 == Append(s, e)
           y == Len(s) + 1
<1>1. PICK x : EndOf(s, x) /\ SerialTo(r, s, l, c, rs, g, a, x, Len(s))
  BY DEF SerialStream
<1>2. l \in Octets /\ Len(l) \in Nat /\ c \in Nat /\ x \in Nat /\ c + Len(l) = x
  BY <1>1, SerialLength
<1>3. ack \in Octets /\ Len(ack) = 1
  <2>1. ACK_BYTE \in Octet
    BY OctetIs DEF ACK_BYTE
  <2> QED BY <2>1 DEF Octets
<1>4. Quiet(Short) /\ Quiet(Baos)
  BY OthersAreQuiet
<1>5. Short \in Octets /\ Baos \in Octets /\ u \in Octets
      /\ Len(Short) \in Nat /\ Len(Baos) \in Nat /\ Len(u) \in Nat
  <2>1. Short \in Octets /\ Baos \in Octets /\ u \in Octets
    BY <1>4 DEF Quiet, Long
  <2> QED BY <2>1, JoinedLength
<1>6. LineJoins(l, ack, Short, Baos, u)
  BY <1>2, <1>3, <1>5, LineJoined
<1>7. SerialTo(r, s, l \o ack, c, rs, g, a, x + 1, y)
  BY <1>1, AckSent
<1>8. CASE others
  <2> DEFINE l1 == (l \o ack) \o Short
             l2 == l1 \o Baos
             x1 == x + 1 + Len(Short)
             x2 == x1 + Len(Baos)
  <2>1. SerialTo(r, s, l1, c, rs, g, a, x1, y)
    BY <1>4, <1>7, OtherSent
  <2>2. l \o octets = l2 \o u /\ Len(octets) = 1 + Len(Short) + Len(Baos) + Len(u)
    <3>1. octets = (ack \o (Short \o Baos)) \o u
      BY <1>8 DEF OnSerial
    <3> HIDE DEF ack
    <3> QED BY <1>3, <1>6, <3>1 DEF LineJoins
  <2> HIDE DEF l1, x1
  <2>3. SerialTo(r, s, l2, c, rs, g, a, x2, y)
    BY <1>4, <2>1, OtherSent
  <2>4. e.due = x2 + Len(u)
    <3> DEFINE z == Len(octets)
    <3>1. e.due = c + Len(l) + z /\ z = 1 + Len(Short) + Len(Baos) + Len(u)
      BY <2>2
    <3> HIDE DEF z
    <3> QED BY <1>2, <1>5, <3>1 DEF x1
  <2> HIDE DEF l2, x2
  <2>5. SerialTo(r, s2, l2 \o u, c, rs, g, a, x2 + Len(u), Len(s2)) /\ EndOf(s2, x2 + Len(u))
    BY <2>3, <2>4, TelegramSent
  <2> DEFINE l3 == l \o octets
  <2>6. l3 = l2 \o u
    BY <2>2
  <2> HIDE DEF s2, l3
  <2>7. SerialStream(r, s2, l3, c, rs, g, a)
    BY <2>5, <2>6 DEF SerialStream
  <2> QED BY <2>7 DEF s2, l3
<1>9. CASE ~others
  <2> DEFINE l2 == l \o ack
             x2 == x + 1
  <2>2. l \o octets = l2 \o u /\ Len(octets) = 1 + Len(u)
    <3>1. octets = (ack \o <<>>) \o u
      BY <1>9 DEF OnSerial
    <3> HIDE DEF ack
    <3> QED BY <1>3, <1>6, <3>1 DEF LineJoins
  <2>3. SerialTo(r, s, l2, c, rs, g, a, x2, y)
    BY <1>7
  <2>4. e.due = x2 + Len(u)
    <3> DEFINE z == Len(octets)
    <3>1. e.due = c + Len(l) + z /\ z = 1 + Len(u)
      BY <2>2
    <3> HIDE DEF z
    <3> QED BY <1>2, <1>5, <3>1
  <2> HIDE DEF l2, x2
  <2>5. SerialTo(r, s2, l2 \o u, c, rs, g, a, x2 + Len(u), Len(s2)) /\ EndOf(s2, x2 + Len(u))
    BY <2>3, <2>4, TelegramSent
  <2> DEFINE l3 == l \o octets
  <2>6. l3 = l2 \o u
    BY <2>2
  <2> HIDE DEF s2, l3
  <2>7. SerialStream(r, s2, l3, c, rs, g, a)
    BY <2>5, <2>6 DEF SerialStream
  <2> QED BY <2>7 DEF s2, l3
<1> QED BY <1>8, <1>9

\* So every call keeps the line.
LEMMA SerialSent ==
    ASSUME Typed, transport = "SerialFT12", SerialInv, NEW i \in 1 .. Len(Calls), SendChanges(i)
    PROVE  SerialStream(Reader, sent', line', count', rest', got', acks')
<1> DEFINE r == Reader
           octets == Octets1(i)
           e == Entry(i)
           o == i \in Cuttable
<1>1. /\ PacketOf(Calls[i]) # Malformed /\ sent' = Append(sent, e) /\ line' = line \o octets
      /\ UNCHANGED <<transport, count, rest, got, acks>>
  BY DEF SendChanges
<1>2. octets = OnSerialLine(PacketOf(Calls[i]), o)
  BY DEF Octets1, OnLine
<1>3. Len(sent) \in Octet
  BY SentFew
<1>4. PICK u, p : /\ Long(u, p) /\ ArrivesAs(FromSerialLine(p), Calls[i])
                  /\ OnSerial(OnSerialLine(PacketOf(Calls[i]), o), u, o)
  BY <1>1, <1>3, SerialArrives
<1>5. e.due = count + Len(line) + Len(octets) /\ e.index = i
  BY DEF Entry, Due
<1>6. Arrives(r, p, Calls[i])
  <2>1. ReadBy(r, p) = FromSerialLine(p)
    BY ReadHere
  <2> QED BY <1>4, <2>1, ArrivesHere
<1>7. SerialStream(r, sent, line, count, rest, got, acks)
  BY DEF SerialInv
<1>8. o \in BOOLEAN
  OBVIOUS
<1> HIDE DEF r, octets, e, o
<1>9. /\ SerialStream(r, sent, line, count, rest, got, acks) /\ o \in BOOLEAN
      /\ OnSerial(octets, u, o) /\ Long(u, p)
      /\ e.due = count + Len(line) + Len(octets) /\ Arrives(r, p, Calls[e.index])
  BY <1>2, <1>4, <1>5, <1>6, <1>7, <1>8
<1>10. SerialStream(r, Append(sent, e), line \o octets, count, rest, got, acks)
  BY ONLY <1>9, LineSent
<1> QED BY <1>1, <1>10 DEF r

\* So does every delivery.
LEMMA SerialTaken ==
    ASSUME transport = "SerialFT12", SerialInv, NEW n \in Chunks, DeliverSerial(n)
    PROVE  SerialStream(Reader, sent', line', count', rest', got', acks')
<1> DEFINE r == Reader
           taken == LineFrames(rest \o SubSeq(line, 1, n))
<1>1. PICK x : EndOf(sent, x) /\ SerialTo(r, sent, line, count, rest, got, acks, x, Len(sent))
  BY DEF SerialInv, SerialStream
<1>2. /\ sent' = sent /\ line' = SubSeq(line, n + 1, Len(line)) /\ count' = count + n
      /\ rest' = taken.rest /\ acks' = acks + taken.acks
      /\ got' = got \o FlattenSeq([i \in 1 .. Len(taken.frames) |-> FromSerialLine(taken.frames[i])])
  BY DEF DeliverSerial, Delivers
<1>3. n \in Nat /\ n <= Len(line)
  <2>1. Len(line) \in Nat
    BY <1>1, SerialLength
  <2>2. n <= Len(line) /\ (n = Len(line) \/ n \in ChunkSizes)
    BY DEF Chunks
  <2> QED BY <2>1, <2>2, CallsAssumption
<1>4. \A frame : FromSerialLine(frame) = ReadBy(r, frame)
  BY ReadHere
<1>5. [i \in 1 .. Len(taken.frames) |-> FromSerialLine(taken.frames[i])]
        = [i \in 1 .. Len(taken.frames) |-> ReadBy(r, taken.frames[i])]
  <2> HIDE DEF taken, r
  <2> QED BY <1>4
<1> HIDE DEF r
<1>6. PICK w, m, at, fr, ak :
         /\ OverSerial(r, sent, line, count, rest, got, acks, w, m, at, fr, ak)
         /\ Len(w) = x /\ ak[m] = Len(sent)
  BY <1>1 DEF SerialTo
<1>7. OverSerial(r, sent, SubSeq(line, n + 1, Len(line)), count + n, taken.rest,
               got \o FlattenSeq([i \in 1 .. Len(taken.frames) |-> ReadBy(r, taken.frames[i])]),
               acks + taken.acks, w, m, at, fr, ak)
  <2>1. OverSerial(r, sent, line, count, rest, got, acks, w, m, at, fr, ak) /\ n \in Nat /\ n <= Len(line)
    BY <1>3, <1>6
  <2> QED BY ONLY <2>1, LineTaken
<1> HIDE DEF taken
<1>8. OverSerial(r, sent', line', count', rest', got', acks', w, m, at, fr, ak)
  BY <1>2, <1>5, <1>7
<1>9. SerialTo(r, sent', line', count', rest', got', acks', x, Len(sent'))
  BY <1>2, <1>6, <1>8 DEF SerialTo
<1>10. EndOf(sent', x)
  BY <1>1, <1>2
<1> QED BY <1>9, <1>10 DEF SerialStream, r

\* So does every step.
LEMMA SerialInvStep == ASSUME Typed, SerialInv, Steps PROVE SerialInv'
<1>1. CASE Idle
  <2>1. UNCHANGED <<transport, ia, keys, backbone, sent, line, count, rest, got, acks>>
    BY <1>1 DEF Idle, link, path
  <2>2. Reader' = Reader
    BY <2>1 DEF Reader
  <2> QED BY <2>1, <2>2 DEF SerialInv
<1>2. CASE Connects
  <2>1. sent' = <<>> /\ line' = <<>> /\ count' = 0 /\ rest' = <<>> /\ got' = <<>> /\ acks' = 0
    BY <1>2 DEF Connects, Typed, path
  <2>2. SerialStream(Reader', sent', line', count', rest', got', acks')
    BY <2>1, NoLine
  <2> QED BY <2>2 DEF SerialInv
<1>3. CASE \E i \in 1 .. Len(Calls) : Send(i)
  <2>1. PICK i \in 1 .. Len(Calls) : SendChanges(i)
    BY <1>3, SendIs
  <2>2. transport' = transport
    BY <2>1 DEF SendChanges
  <2>3. Reader' = Reader
    BY <2>1, ReaderStays
  <2>4. transport = "SerialFT12" => SerialStream(Reader, sent', line', count', rest', got', acks')
    BY <2>1, SerialSent
  <2> QED BY <2>2, <2>3, <2>4 DEF SerialInv
<1>4. CASE \E i \in 1 .. Len(Controls) : SendControl(i)
  <2>1. transport' = "TunnelUDP"
    BY <1>4, ControlSent
  <2> QED BY <2>1 DEF SerialInv
<1>5. CASE DeliverDatagram \/ \E n \in Chunks : DeliverTcp(n)
  <2>1. transport' # "SerialFT12"
    BY <1>5 DEF DeliverDatagram, DeliverTcp, Delivers, link
  <2> QED BY <2>1 DEF SerialInv
<1>6. CASE \E n \in Chunks : DeliverSerial(n)
  <2>1. PICK n \in Chunks : DeliverSerial(n)
    BY <1>6
  <2>2. transport = "SerialFT12" /\ Reader' = Reader
    BY <2>1, ReaderStays DEF DeliverSerial
  <2>3. SerialStream(Reader, sent', line', count', rest', got', acks')
    BY <2>1, <2>2, SerialTaken
  <2> QED BY <2>2, <2>3 DEF SerialInv
<1> QED BY <1>1, <1>2, <1>3, <1>4, <1>5, <1>6 DEF Steps

\* Over the serial line as many messages are received as telegrams have arrived whole,
\* and as many acknowledgements recognised as have arrived.
LEMMA SerialMessages ==
    ASSUME NEW r, NEW s, NEW l, NEW c, NEW rs, NEW g, NEW a, SerialStream(r, s, l, c, rs, g, a)
    PROVE  MessagesOf(r, s, c, g) /\ a = AcksOf(s, c)
<1>1. PICK x : EndOf(s, x) /\ SerialTo(r, s, l, c, rs, g, a, x, Len(s))
  BY DEF SerialStream
<1>2. PICK w, n, at, fr, ak :
         OverSerial(r, s, l, c, rs, g, a, w, n, at, fr, ak) /\ Len(w) = x /\ ak[n] = Len(s)
  BY <1>1 DEF SerialTo
<1> DEFINE size == Len(s)
<1>3. /\ Laid(r, s, w, n, at, fr, ak) /\ c \in Nat /\ Sequence(g) /\ Sequence(s)
      /\ ReadTo(w, n, at, fr, ak, c, rs, g, a)
      /\ \A k \in 1 .. Len(g) : SuitsBy(r, g[k], Calls[s[k].index])
  BY <1>2 DEF OverSerial, Laid
<1>4. /\ n \in Nat /\ fr \in [0 .. n -> Nat] /\ ak \in [0 .. n -> Nat] /\ fr[n] = size /\ Parts(w, n, at)
      /\ size \in Nat
  BY <1>3 DEF Laid, Counted, Line, Parts, Sequence
<1>5. /\ \A i \in 0 .. n, k \in 0 .. n : i <= k => fr[i] <= fr[k]
      /\ \A i \in 0 .. n, k \in 0 .. n : i <= k => ak[i] <= ak[k]
  BY <1>3, FramesGrow
<1>6. PICK j \in 0 .. n : Ended(n, at, c, j) /\ rs = Sub(w, at[j], c) /\ Len(g) = fr[j] /\ a = ak[j]
  BY <1>3 DEF ReadTo
<1>7. \A i \in 1 .. n : at[i] <= c <=> i <= j
  BY <1>3, <1>4, <1>6, PartsEnded
<1>8. \A i \in 0 .. n : at[i] \in Nat
  BY <1>4, PartsEnds
<1>9. fr[j] \in Nat /\ ak[j] \in Nat /\ fr[j] <= size /\ ak[j] <= size
  <2>1. j <= n /\ n \in 0 .. n
    BY <1>4
  <2> QED BY <1>2, <1>4, <1>5, <2>1
<1>10. ASSUME NEW k \in 1 .. size PROVE s[k].due <= c <=> k <= fr[j]
  <2>1. PICK i \in 1 .. n : fr[i] = k /\ fr[i - 1] = k - 1 /\ s[k].due = at[i]
    BY <1>3 DEF Laid
  <2>2. i <= j <=> k <= fr[j]
    <3>1. k \in Nat
      OBVIOUS
    <3> HIDE DEF size
    <3> QED BY <1>4, <1>5, <2>1, <3>1, CountedTo
  <2> QED BY <1>7, <2>1, <2>2
<1> DEFINE D(k) == IF k = 1 THEN 0 ELSE s[k - 1].due
<1>11. ASSUME NEW k \in 1 .. size PROVE c > D(k) <=> k <= ak[j]
  <2>0. k \in 1 .. ak[n]
    BY <1>2
  <2>1. PICK i \in 1 .. n :
          /\ ak[i] = k /\ ak[i - 1] = k - 1 /\ at[i] = at[i - 1] + 1
          /\ k = 1 => at[i - 1] = 0
          /\ k # 1 => k - 1 \in 1 .. Len(s) /\ at[i - 1] = s[k - 1].due
    BY <1>3, <2>0 DEF Laid
  <2>2. i <= j <=> k <= ak[j]
    <3>1. k \in Nat
      OBVIOUS
    <3> HIDE DEF size
    <3> QED BY <1>4, <1>5, <2>1, <3>1, CountedTo
  <2>3. D(k) = at[i - 1]
    BY <2>1
  <2> HIDE DEF D
  <2>4. c > at[i - 1] <=> at[i] <= c
    <3>1. i \in 0 .. n /\ i - 1 \in 0 .. n
      BY <1>4
    <3>2. at[i] \in Nat /\ at[i - 1] \in Nat
      BY <1>8, <3>1
    <3> QED BY <1>3, <2>1, <3>2
  <2> QED BY <1>7, <2>2, <2>3, <2>4
<1> DEFINE S1 == {i \in 1 .. size : s[i].due <= c}
           S2 == {i \in 1 .. size : c > D(i)}
<1>12. Cardinality(S1) = fr[j]
  <2>1. S1 \subseteq 1 .. size /\ \A k \in 1 .. size : k \in S1 <=> k <= fr[j]
    BY <1>10
  <2> HIDE DEF S1, size
  <2> QED BY <1>4, <1>9, <2>1, FirstOnes
<1>13. Cardinality(S2) = ak[j]
  <2>1. S2 \subseteq 1 .. size /\ \A k \in 1 .. size : k \in S2 <=> k <= ak[j]
    <3> HIDE DEF D, size
    <3> QED BY <1>11
  <2> HIDE DEF S2, size
  <2> QED BY <1>4, <1>9, <2>1, FirstOnes
<1>14. a = AcksOf(s, c)
  BY <1>6, <1>13 DEF AcksOf
<1>15. MessagesOf(r, s, c, g)
  <2>1. Len(g) = Cardinality(S1) /\ Len(g) <= Len(s)
    BY <1>6, <1>9, <1>12
  <2> HIDE DEF Sequence
  <2> QED BY <1>3, <2>1 DEF MessagesOf
<1> QED BY <1>14, <1>15

-----------------------------------------------------------------------------
(* Control packets *)

\* One control packet is on its way, or was heard.
ControlOnLine(s, l, n, g, frame) ==
    /\ Sequence(s) /\ Len(s) = 1 /\ s[1].control /\ s[1].due = 1
    /\ s[1].index \in 1 .. Len(Controls) /\ frame = PacketToFrame(Controls[s[1].index])
    /\ \/ l = <<frame>> /\ n = 0 /\ g = <<>>
       \/ l = <<>> /\ n = 1 /\ g = FromDatagram(frame)

HeardInv == ~NoControl => \E frame : ControlOnLine(sent, line, count, got, frame)

\* A control packet that is sent is on its way.
LEMMA ControlOnWay ==
    ASSUME Typed, DatagramInv, NEW i \in 1 .. Len(Controls), SendControl(i)
    PROVE  \E frame : ControlOnLine(sent', line', count', got', frame)
<1> DEFINE frame == PacketToFrame(Controls[i])
           octets == <<frame>>
           before == [control |-> TRUE, index |-> i]
           e == [control |-> TRUE, index |-> i, due |-> Due(octets)]
<1>1. /\ transport = "TunnelUDP" /\ sent = <<>> /\ SendsOctets(before, octets)
  BY DEF SendControl
<1>2. before.control = TRUE /\ before.index = i /\ e.control = TRUE /\ e.index = i
      /\ e.due = count + Len(line) + Len(octets) /\ Len(octets) = 1
  BY DEF Due
<1>3. DatagramsOf(Reader, sent, line, count, got)
  <2>1. ByDatagram /\ Linked /\ NoControl
    BY <1>1, EmptySequence DEF ByDatagram, Linked, NoControl
  <2> QED BY <2>1 DEF DatagramInv
<1>4. /\ Sequence(line) /\ Sequence(got) /\ count = Len(got) /\ 0 = count + Len(line)
      /\ Len(line) \in Nat /\ count \in Nat
  <2>1. Len(sent) = 0
    BY <1>1, EmptySequence
  <2> QED BY <1>3, <2>1 DEF DatagramsOf, Sequence
<1>5. line = <<>> /\ got = <<>> /\ count = 0
  <2>1. Len(line) = 0 /\ Len(got) = 0 /\ count = 0
    BY <1>4
  <2>2. line \in Seq(ElementsOf(line)) /\ got \in Seq(ElementsOf(got))
    BY <1>4, SequenceOf
  <2> QED BY <2>1, <2>2
<1> HIDE DEF frame, before
<1>6. sent' = Append(sent, e) /\ line' = line \o octets /\ count' = count /\ got' = got
  BY <1>1, <1>2 DEF SendsOctets
<1>7. line' = <<frame>>
  BY <1>5, <1>6
<1>8. e.due = 1
  BY <1>2, <1>4
<1> HIDE DEF e, octets
<1>9. AddsOne(<<>>, e, sent')
  BY <1>1, <1>6, EmptySequence, OneMore
<1>10. Sequence(sent') /\ Len(sent') = 1 /\ sent'[1] = e
  BY <1>9, EmptySequence DEF AddsOne
<1>11. ControlOnLine(sent', line', count', got', frame)
  <2> HIDE DEF Sequence
  <2> QED BY <1>2, <1>5, <1>6, <1>7, <1>8, <1>10 DEF ControlOnLine, frame
<1> QED BY <1>11

\* Every step keeps that there is one, of what was sent.
LEMMA HeardStep == ASSUME Typed, DatagramInv, HeardInv, Steps PROVE HeardInv'
<1>1. CASE Idle
  <2>1. UNCHANGED <<sent, line, count, got>>
    BY <1>1 DEF Idle, path
  <2>2. NoControl' <=> NoControl
    BY <2>1 DEF NoControl
  <2> QED BY <2>1, <2>2 DEF HeardInv
<1>2. CASE Connects
  <2>1. sent' = <<>>
    BY <1>2 DEF Connects, Typed, path
  <2>2. NoControl'
    BY <2>1, EmptySequence DEF NoControl
  <2> QED BY <2>2 DEF HeardInv
<1>3. CASE \E i \in 1 .. Len(Calls) : Send(i)
  BY <1>3, SendIs, NoControlSent DEF HeardInv
<1>4. CASE \E i \in 1 .. Len(Controls) : SendControl(i)
  BY <1>4, ControlOnWay DEF HeardInv
<1>5. CASE DeliverDatagram \/ (\E n \in Chunks : DeliverTcp(n)) \/ (\E n \in Chunks : DeliverSerial(n))
  <2>1. UNCHANGED <<transport, sent>>
    BY <1>5 DEF DeliverDatagram, DeliverTcp, DeliverSerial, Delivers, link
  <2>2. NoControl' <=> NoControl
    BY <2>1 DEF NoControl
  <2> SUFFICES ASSUME ~NoControl PROVE \E frame : ControlOnLine(sent', line', count', got', frame)
    BY <2>2 DEF HeardInv
  <2>3. transport = "TunnelUDP"
    BY DEF NoControl, Typed
  <2>4. DeliverDatagram
    BY <1>5, <2>3 DEF DeliverTcp, DeliverSerial
  <2>5. /\ line # <<>> /\ line' = SubSeq(line, 1 + 1, Len(line)) /\ count' = count + 1
        /\ got' = got \o FromDatagram(Head(line))
    BY <2>3, <2>4 DEF DeliverDatagram, Delivers
  <2>6. PICK frame : ControlOnLine(sent, line, count, got, frame)
    BY DEF HeardInv
  <2>7. line = <<frame>> /\ count = 0 /\ got = <<>>
    BY <2>5, <2>6 DEF ControlOnLine
  <2>8. line' = <<>> /\ count' = 1 /\ Head(line) = frame
    BY <2>5, <2>7
  <2>9. got' = FromDatagram(frame)
    <3> DEFINE read == FromDatagram(frame)
    <3>1. read = <<>> \/ \E x : read = <<x>>
      BY DEF FromDatagram, Heard
    <3> HIDE DEF read
    <3>2. <<>> \o read = read
      <4>1. CASE read = <<>>
        BY <4>1
      <4>2. CASE \E x : read = <<x>>
        <5>1. PICK x : read = <<x>>
          BY <4>2
        <5>2. read \in Seq({x})
          BY <5>1
        <5> QED BY <5>2
      <4> QED BY <3>1, <4>1, <4>2
    <3> QED BY <2>5, <2>7, <2>8, <3>2 DEF read
  <2>10. ControlOnLine(sent', line', count', got', frame)
    BY <2>1, <2>6, <2>8, <2>9 DEF ControlOnLine
  <2> QED BY <2>10
<1> QED BY <1>1, <1>2, <1>3, <1>4, <1>5 DEF Steps

\* So a control packet that was read as it was sent is what FramesSurvive asks for.
LEMMA ControlFramesAre ==
    ASSUME Typed, HeardInv, ~NoControl, ControlsRead
    PROVE  FramesSurvive
<1>1. PICK frame : ControlOnLine(sent, line, count, got, frame)
  BY DEF HeardInv
<1>2. transport = "TunnelUDP"
  BY DEF NoControl, Typed
<1>3. /\ Len(sent) = 1 /\ sent[1].control /\ sent[1].due = 1
      /\ \/ count = 0 /\ got = <<>>
         \/ count = 1 /\ got = <<Controls[sent[1].index]>>
  BY <1>1 DEF ControlOnLine, ControlsRead
<1>4. Len(got) \in Nat /\ (count = 0 => Len(got) = 0) /\ (count = 1 => Len(got) = 1)
      /\ \A i \in 1 .. Len(got) : i = 1 /\ got[1] = Controls[sent[1].index]
  <2>1. CASE count = 0 /\ got = <<>>
    <3>1. Len(got) = 0 /\ 1 .. 0 = {}
      BY <2>1
    <3> QED BY <2>1, <3>1
  <2>2. CASE count = 1 /\ got = <<Controls[sent[1].index]>>
    <3> DEFINE p == Controls[sent[1].index]
    <3> HIDE DEF p
    <3>1. got = <<p>>
      BY <2>2 DEF p
    <3>2. Len(got) = 1 /\ got[1] = p
      BY <3>1
    <3> QED BY <2>2, <3>2 DEF p
  <2> QED BY <1>3, <2>1, <2>2
<1> DEFINE due == {i \in 1 .. Len(sent) : sent[i].due <= count}
<1>5. Len(got) = Cardinality(due)
  <2>1. count \in Nat /\ count <= 1 /\ Len(got) = count
    BY <1>3, <1>4
  <2>2. due \subseteq 1 .. 1 /\ \A k \in 1 .. 1 : k \in due <=> k <= count
    <3>1. ASSUME NEW k \in 1 .. 1 PROVE k \in due <=> k <= count
      <4>1. k = 1
        OBVIOUS
      <4>2. k \in due <=> 1 <= count
        BY <1>3, <4>1
      <4> QED BY <4>1, <4>2
    <3> QED BY <1>3, <3>1
  <2> HIDE DEF due
  <2>3. 1 \in Nat
    OBVIOUS
  <2> QED BY <2>1, <2>2, <2>3, FirstOnes
<1>6. Len(got) = IF transport = "SecureMulticast" /\ backbone # BackboneKey THEN 0
                 ELSE Cardinality({i \in 1 .. Len(sent) : sent[i].due <= count})
  BY <1>2, <1>5
<1>7. \A i \in 1 .. Len(got) : sent[i].control /\ got[i] = Controls[sent[i].index]
  BY <1>3, <1>4
<1> QED BY <1>2, <1>6, <1>7 DEF FramesSurvive

-----------------------------------------------------------------------------
(* Every conversation *)

\* On every transport: what was sent is where it should be, and what was received is of it.
PathInv ==
    /\ Typed /\ DatagramInv /\ TcpInv /\ SerialInv
    /\ ObservedInv /\ ControlInv /\ HeardInv

\* A conversation starts so.
LEMMA PathStart == Init => PathInv
<1> SUFFICES ASSUME Init PROVE PathInv
  OBVIOUS
<1>1. /\ transport = "none" /\ ia = 0 /\ sent = <<>> /\ line = <<>> /\ count = 0 /\ rest = <<>>
      /\ got = <<>> /\ acks = 0 /\ observed = <<>>
  BY DEF Init
<1>2. Sequence(sent) /\ Len(sent) = 0 /\ 1 .. Len(sent) = {} /\ Len(sent) <= 2
  BY <1>1, EmptySequence
<1>3. Typed
  <2>1. ia \in Words
    BY <1>1 DEF Words
  <2> HIDE DEF Sequence
  <2> QED BY <1>1, <1>2, <2>1 DEF Typed
<1>4. NoControl
  BY <1>2 DEF NoControl
<1>5. DatagramInv /\ TcpInv /\ SerialInv /\ ObservedInv
  BY <1>1 DEF DatagramInv, ByDatagram, TcpInv, SerialInv, ObservedInv
<1>6. ControlInv /\ HeardInv
  BY <1>4 DEF ControlInv, HeardInv
<1> QED BY <1>3, <1>5, <1>6 DEF PathInv

\* Every step keeps it: the step of each part needs only the parts before.
LEMMA PathStep == PathInv /\ [Next]_vars => PathInv'
<1> SUFFICES ASSUME PathInv, [Next]_vars PROVE PathInv'
  OBVIOUS
<1>1. Steps
  BY StepIs
<1>2. Typed /\ DatagramInv /\ TcpInv /\ SerialInv /\ ObservedInv /\ ControlInv /\ HeardInv
  BY DEF PathInv
<1>3. Typed'
  BY <1>1, <1>2, TypedStep
<1>4. DatagramInv'
  BY <1>1, <1>2, DatagramStep
<1>5. TcpInv'
  BY <1>1, <1>2, TcpInvStep
<1>6. SerialInv'
  BY <1>1, <1>2, SerialInvStep
<1>7. ObservedInv'
  BY <1>1, <1>2, ObservedStep
<1>8. ControlInv'
  BY <1>1, <1>2, ControlStep
<1>9. HeardInv'
  BY <1>1, <1>2, HeardStep
<1> QED BY <1>3, <1>4, <1>5, <1>6, <1>7, <1>8, <1>9 DEF PathInv

\* What was received belongs to what was sent, whatever the transport.
LEMMA PathMessages ==
    ASSUME PathInv, NoControl, Linked
    PROVE  /\ MessagesOf(Reader, sent, count, got)
           /\ transport = "SerialFT12" => acks = AcksOf(sent, count)
<1>1. Typed /\ DatagramInv /\ TcpInv /\ SerialInv
  BY DEF PathInv
<1>2. transport = "none" \/ ByDatagram \/ transport = "TunnelTCP" \/ transport = "SerialFT12"
  BY <1>1 DEF Typed, Protocols, ByDatagram
<1>3. CASE transport = "none"
  <2>1. sent = <<>> /\ count = 0 /\ got = <<>>
    BY <1>1, <1>3 DEF Typed
  <2> QED BY <1>3, <2>1, NoMessages
<1>4. CASE ByDatagram
  <2>1. DatagramsOf(Reader, sent, line, count, got)
    BY <1>1, <1>4 DEF DatagramInv
  <2> QED BY <1>4, <2>1, DatagramMessages DEF ByDatagram
<1>5. CASE transport = "TunnelTCP"
  <2>1. TcpStream(Reader, sent, line, count, rest, got)
    BY <1>1, <1>5 DEF TcpInv
  <2> QED BY <1>5, <2>1, StreamMessages
<1>6. CASE transport = "SerialFT12"
  <2>1. SerialStream(Reader, sent, line, count, rest, got, acks)
    BY <1>1, <1>6 DEF SerialInv
  <2> QED BY <2>1, SerialMessages
<1> QED BY <1>2, <1>3, <1>4, <1>5, <1>6

\* The messages received are those of FramesSurvive, without a control packet and with
\* it.
LEMMA PathFrames == PathInv => (Linked /\ (NoControl \/ ControlsRead) => FramesSurvive)
<1> SUFFICES ASSUME PathInv, Linked, NoControl \/ ControlsRead PROVE FramesSurvive
  OBVIOUS
<1>1. Typed /\ HeardInv
  BY DEF PathInv
<1>2. CASE NoControl
  <2>1. /\ MessagesOf(Reader, sent, count, got)
        /\ transport = "SerialFT12" => acks = AcksOf(sent, count)
    BY <1>2, PathMessages
  <2> QED BY <1>1, <1>2, <2>1, FramesAre DEF AcksOf
<1>3. CASE ~NoControl
  BY <1>1, <1>3, ControlFramesAre
<1> QED BY <1>2, <1>3

\* They are those of TelegramSurvives.
LEMMA PathTelegrams == PathInv => (ValuesRead /\ Linked /\ Keyed => TelegramSurvives)
<1> SUFFICES ASSUME PathInv, ValuesRead, Linked, Keyed PROVE TelegramSurvives
  OBVIOUS
<1>1. Typed /\ ObservedInv /\ ControlInv
  BY DEF PathInv
<1>2. NoControl => MessagesOf(Reader, sent, count, got)
  BY PathMessages
<1> QED BY <1>1, <1>2, TelegramsAre

\* The frames of every conversation survive, on every transport, cut into any chunks: as many
\* messages are received as were delivered whole, each from the address, to the group and with
\* the control bits it was sent with (send, processReceivedBuffer, SerialFT12.handleData).
THEOREM FramesAlwaysSurvive == Spec => [](Linked /\ (NoControl \/ ControlsRead) => FramesSurvive)
<1>1. Init => PathInv
  BY PathStart
<1>2. PathInv /\ [Next]_vars => PathInv'
  BY PathStep
<1>3. PathInv => (Linked /\ (NoControl \/ ControlsRead) => FramesSurvive)
  BY PathFrames
<1> QED BY <1>1, <1>2, <1>3, PTL DEF Spec

\* A receiver with the keys of the project has what the application asked for, call by call:
\* the service, the group and the value, through the codecs, the tunnelling server, the ciphers
\* and the stream (write, respond, read; the indication and rawTelegram events).
THEOREM TelegramsAlwaysSurvive == Spec => [](ValuesRead /\ Linked /\ Keyed => TelegramSurvives)
<1>1. Init => PathInv
  BY PathStart
<1>2. PathInv /\ [Next]_vars => PathInv'
  BY PathStep
<1>3. PathInv => (ValuesRead /\ Linked /\ Keyed => TelegramSurvives)
  BY PathTelegrams
<1> QED BY <1>1, <1>2, <1>3, PTL DEF Spec
===============================================================================
