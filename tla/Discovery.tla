------------------------------- MODULE Discovery -------------------------------
\* What the three discovery calls collect from search responses, and the tunnel
\* interface a secure client picks from it and its keyring.
\*
\* A Map or a Set of the code is a sequence of <<key, value>> in the order of
\* insertion; host is <<ip, port>>, sr a parsed search response.
EXTENDS Keyring

ROUTING_FAMILY == 5
TUNNELLING_FAMILY == 4
RoutingHost == <<<<224, 0, 23, 12>>, 3671>>

HasKey(map, key) == \E i \in 1 .. Len(map) : map[i][1] = key
ValueOf(map, key) == map[CHOOSE i \in 1 .. Len(map) : map[i][1] = key][2]
Put(map, key, value) ==
    IF ~HasKey(map, key) THEN Append(map, <<key, value>>)
    ELSE [i \in 1 .. Len(map) |-> IF map[i][1] = key THEN <<key, value>> ELSE map[i]]

\* The host an answer from ip stands for: the port it advertises, or 3671.
HostOf(ip, sr) == <<ip, IF sr.hpai.port = 0 THEN 3671 ELSE sr.hpai.port>>
\* Colons separate the fields of a result: those of a name become blanks.  An
\* extended response may come without its device information.
NameOfDevice(sr) ==
    IF sr.deviceInfo = <<>> THEN <<>>
    ELSE [i \in 1 .. Len(sr.deviceInfo[1].name) |->
             IF sr.deviceInfo[1].name[i] = 58 THEN 32 ELSE sr.deviceInfo[1].name[i]]
AddressOfDevice(sr) ==
    IF sr.deviceInfo = <<>> THEN <<>> ELSE FormattedAddress(sr.deviceInfo[1].address)
BaseKey(host, sr) == [host |-> host, name |-> NameOfDevice(sr), ia |-> AddressOfDevice(sr)]
Offers(sr, family) == sr.serviceFamilies # <<>> /\ HasFamily(sr.serviceFamilies[1], family)
Secures(sr, family) ==
    sr.securedServiceFamilies # <<>> /\ HasFamily(sr.securedServiceFamilies[1], family)
ServicesOf(sr) ==
    IF sr.serviceFamilies = <<>> THEN <<>>
    ELSE LET services == sr.serviceFamilies[1].services
         IN  [i \in 1 .. Len(services) |-> services[i][1]]

NothingBefore(results, key) == [secure |-> FALSE, transport |-> ""]   \* mutant of Before
Before(results, key) ==
    IF HasKey(results, key) THEN ValueOf(results, key) ELSE [secure |-> FALSE, transport |-> ""]
\* discover: one entry per device and one per routing service; an entry that was
\* secure, or TCP, stays so.
AddResultsFromSearch(results, host, sr) ==
    LET isSecure == \/ sr.service_type = SEARCH_RESPONSE_EXTENDED
                       /\ sr.securedServiceFamilies # <<>>
                    \/ Secures(sr, TUNNELLING_FAMILY) \/ Secures(sr, ROUTING_FAMILY)
        base     == BaseKey(host, sr)
        routing  == BaseKey(RoutingHost, sr)
        tunnel   == Put(results, base,
                        [secure |-> Before(results, base).secure \/ isSecure,
                         transport |-> IF \/ Before(results, base).transport = "TCP"
                                          \/ Secures(sr, TUNNELLING_FAMILY)
                                       THEN "TCP" ELSE "UDP"])
    IN  IF ~Offers(sr, ROUTING_FAMILY) THEN tunnel
        ELSE Put(tunnel, routing,
                 [secure |-> Before(results, routing).secure \/ isSecure, transport |-> "Multicast"])

\* discoverDetailed: every line once.
PushDetailed(detailed, host, sr) ==
    LET line(h, type) ==
            [host |-> h, name |-> NameOfDevice(sr), ia |-> AddressOfDevice(sr),
             services |-> ServicesOf(sr), type |-> type]
        tunnel == Put(detailed, line(host, "tunnelling"), TRUE)
    IN  IF Offers(sr, ROUTING_FAMILY) THEN Put(tunnel, line(RoutingHost, "routing"), TRUE)
        ELSE tunnel

\* discoverInterfaces: the first answer of a host and type is kept, with the
\* transport it suggests.
PushInterface(out, host, sr) ==
    LET push(map, h, type) ==
            IF HasKey(map, <<h, type>>) THEN map
            ELSE Put(map, <<h, type>>,
                     [name |-> NameOfDevice(sr), ia |-> AddressOfDevice(sr),
                      services |-> ServicesOf(sr),
                      transport |-> IF type = "routing" THEN "Multicast"
                                    ELSE IF Secures(sr, TUNNELLING_FAMILY) THEN "TCP" ELSE "UDP"])
        tunnel == push(out, host, "tunnelling")
    IN  IF Offers(sr, ROUTING_FAMILY) THEN push(tunnel, RoutingHost, "routing") ELSE tunnel

Descending(S) ==
    CHOOSE s \in [1 .. Cardinality(S) -> S] :
        \A i, j \in 1 .. Cardinality(S) : i < j => s[i] > s[j]
\* secureGetIaCandidatesByDiscovery: the keyring's interfaces of the device found
\* at the peer, highest address first; failing those, all of type tunneling.  The
\* lines are discoverDetailed's, or discover's as tunnelling ones.
SecureGetIaCandidates(detailed, simple, kr, peer) ==
    LET lines == IF detailed # <<>>
                 THEN [i \in 1 .. Len(detailed) |->
                         [host |-> detailed[i][1].host, ia |-> detailed[i][1].ia,
                          tunnelling |-> detailed[i][1].type = "tunnelling"]]
                 ELSE [i \in 1 .. Len(simple) |->
                         [host |-> simple[i][1].host, ia |-> simple[i][1].ia, tunnelling |-> TRUE]]
        first(at) == IF at = {} THEN <<>>
                     ELSE lines[CHOOSE i \in at : \A j \in at : i <= j].ia
        exact  == first({i \in 1 .. Len(lines) : lines[i].host = peer /\ lines[i].tunnelling})
        hostIa == IF exact # <<>> THEN exact
                  ELSE first({i \in 1 .. Len(lines) : lines[i].host[1] = peer[1]})
        hosted == {a \in DOMAIN kr.interfaces :
                     /\ kr.interfaces[a].host # <<>>
                     /\ AddressDigits(kr.interfaces[a].host[1], FALSE) = hostIa}
        candidates == IF hosted # {} THEN hosted
                      ELSE {a \in DOMAIN kr.interfaces : kr.interfaces[a].type = "tunneling"}
    IN  IF hostIa = <<>> \/ candidates = {} THEN Malformed
        ELSE Descending(candidates)
=============================================================================
