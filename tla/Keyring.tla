------------------------------- MODULE Keyring -------------------------------
\* The ETS keyring: what is read from the file, and the credentials the client
\* takes from it.
\*
\* Attributes of the file that may be missing are sequences of at most one
\* element.  An encrypted attribute is [under, plain]: the password it was
\* encrypted with and the octets inside; under any other password AES yields
\* other octets.  The file itself is not authenticated.
EXTENDS Telegrams

IndividualAddress(digits) == 4096 * digits[1] + 256 * digits[2] + digits[3]
\* The two-level form is main << 11 | sub here; a single number is the address.
GroupAddress(digits) ==
    CASE Len(digits) = 1 -> digits[1]
      [] Len(digits) = 2 -> 2048 * digits[1] + digits[2]
      [] Len(digits) = 3 -> 2048 * digits[1] + 256 * digits[2] + digits[3]

Decrypt(encrypted, password) ==
    IF encrypted.under = password THEN encrypted.plain
    ELSE [i \in 1 .. Len(encrypted.plain) |-> (encrypted.plain[i] + 101 + 17 * i) % 256]
\* Eight octets before the password and PKCS#7 padding after it.
ExtractPassword(octets) ==
    IF octets = <<>> THEN <<>>
    ELSE LET pad == IF octets[Len(octets)] \in 1 .. 16 THEN octets[Len(octets)] ELSE 0
         IN  SubSeq(octets, 9, Len(octets) - pad)
\* An attribute that is there, read with f.
Attribute(field, f(_)) == [i \in 1 .. Len(field) |-> f(field[i])]

ParseInterface(i, password) ==
    LET text(e) == ExtractPassword(Decrypt(e, password))
        group(g) == [address |-> GroupAddress(g.address),
                     senders |-> Attribute(g.senders, IndividualAddress)]
    IN  [type |-> i.type, individualAddress |-> IndividualAddress(i.individualAddress),
         host |-> Attribute(i.host, IndividualAddress), userId |-> i.userId,
         decryptedPassword |-> Attribute(i.password, text),
         decryptedAuthentication |-> Attribute(i.authentication, text),
         groupAddresses |-> Attribute(i.groups, group)]
ParseBackbone(b, password) ==
    LET key(e) == Decrypt(e, password)
    IN  [decryptedKey |-> Attribute(b.key, key), latency |-> b.latency,
         multicastAddress |-> b.multicastAddress]
\* A group without address or key is left out.
ParseGroupAddress(g, password) ==
    IF g.address = <<>> \/ g.key = <<>> THEN <<>>
    ELSE <<[address |-> GroupAddress(g.address[1]), decryptedKey |-> Decrypt(g.key[1], password)]>>
ParseDevice(d, password) ==
    LET key(e) == Decrypt(e, password)
        text(e) == ExtractPassword(key(e))
    IN  [individualAddress |-> IndividualAddress(d.individualAddress),
         decryptedToolKey |-> Attribute(d.toolKey, key),
         decryptedManagementPassword |-> Attribute(d.managementPassword, text),
         decryptedAuthentication |-> Attribute(d.authentication, text),
         sequenceNumber |-> d.sequenceNumber, serialNumber |-> d.serialNumber]

\* The maps of the keyring: of two entries with one address the later counts.
LastOf(entries, field(_), key) ==
    LET at == {i \in 1 .. Len(entries) : field(entries[i]) = key}
    IN  entries[CHOOSE i \in at : \A j \in at : j <= i]
MapBy(entries, field(_)) ==
    [key \in {field(entries[i]) : i \in 1 .. Len(entries)} |-> LastOf(entries, field, key)]
AddressOf(entry) == entry.individualAddress
ParseKeyring(file, password) ==
    LET interface(i) == ParseInterface(i, password)
        backbone(b) == ParseBackbone(b, password)
        group(g) == ParseGroupAddress(g, password)
        device(d) == ParseDevice(d, password)
        address(g) == g.address
    IN  [interfaces |-> MapBy(Attribute(file.interfaces, interface), AddressOf),
         backbones |-> Attribute(file.backbones, backbone),
         groupAddresses |-> MapBy(FlattenSeq(Attribute(file.groups, group)), address),
         devices |-> MapBy(Attribute(file.devices, device), AddressOf)]

\* securePickSenderIaForGa: a sender the keyring allows for the group, the present
\* one if it is, else the highest.
AllowedSenders(kr, group) ==
    LET address(g) == g.address
        groups(a) == kr.interfaces[a].groupAddresses
        listing == {a \in DOMAIN kr.interfaces : \E g \in ToSet(groups(a)) : g.address = group}
    IN  UNION {ToSet(LastOf(groups(a), address, group).senders) : a \in listing}
SecurePickSenderIaForGa(kr, group, current) ==
    LET allowed == AllowedSenders(kr, group)
    IN  IF allowed = {} \/ current \in allowed THEN current
        ELSE CHOOSE a \in allowed : \A b \in allowed : b <= a

\* The interface of the configured address, if the keyring has it, and a field of it.
InterfaceOf(cfg, kr) ==
    LET chosen == cfg.tunnelInterfaceIndividualAddress
    IN  IF chosen = <<>> THEN <<>>
        ELSE IF chosen[1] \in DOMAIN kr.interfaces THEN <<kr.interfaces[chosen[1]]>> ELSE <<>>
FieldOf(iface, field) == IF iface = <<>> THEN <<>> ELSE iface[1][field]
\* The serial number of the interface's device, which may be the interface itself.
SerialOf(kr, iface) ==
    LET gateway == IF iface = <<>> THEN <<>>
                   ELSE IF iface[1].host # <<>> THEN iface[1].host
                   ELSE <<iface[1].individualAddress>>
        serials == IF gateway = <<>> THEN <<>>
                   ELSE IF gateway[1] \in DOMAIN kr.devices
                   THEN kr.devices[gateway[1]].serialNumber ELSE <<>>
    IN  IF serials = <<>> THEN <<0, 0, 0, 0, 0, 0>> ELSE serials[1]
BackboneOf(kr) ==
    IF kr.backbones = <<>> THEN [decryptedKey |-> <<>>, latency |-> <<>>] ELSE kr.backbones[1]
KeyringCredentials(cfg, isTunnelTCP, kr, iface) ==
    LET userId   == IF cfg.tunnelUserId # <<>> THEN cfg.tunnelUserId ELSE FieldOf(iface, "userId")
        password == IF FieldOf(iface, "decryptedPassword") \notin {<<>>, <<<<>>>>}
                    THEN FieldOf(iface, "decryptedPassword") ELSE cfg.tunnelUserPassword
        backbone == BackboneOf(kr)
    IN  IF isTunnelTCP /\ (userId = <<>> \/ password = <<>>) THEN Malformed
        ELSE [userId |-> IF isTunnelTCP THEN userId ELSE <<>>,
              userPassword |-> IF isTunnelTCP THEN password ELSE <<>>,
              groupKeys |-> [a \in DOMAIN kr.groupAddresses |->
                                Sub(kr.groupAddresses[a].decryptedKey, 0, 16)],
              serial |-> SerialOf(kr, iface),
              backboneKey |-> IF backbone.decryptedKey = <<>> THEN <<>>
                              ELSE IF Len(backbone.decryptedKey[1]) < 16 THEN <<>>
                              ELSE <<Sub(backbone.decryptedKey[1], 0, 16)>>,
              latencyMs |-> [i \in 1 .. Len(backbone.latency) |->
                                IF backbone.latency[i] < 100 THEN 100 ELSE backbone.latency[i]]]
\* secureEnsureKeyring: the credentials of a client; cfg has keyring (the file),
\* knxkeys_password, tunnelUserId, tunnelUserPassword and
\* tunnelInterfaceIndividualAddress, each optional.  A tunnel asks for a user id
\* and a password; of the interface's and the configured ones, the user id of the
\* configuration and the password of the interface win.
SecureEnsureKeyring(cfg, isTunnelTCP) ==
    LET from(kr) == KeyringCredentials(cfg, isTunnelTCP, kr, InterfaceOf(cfg, kr))
    IN  IF cfg.keyring = <<>> THEN
            IF cfg.tunnelUserPassword = <<>> \/ cfg.tunnelUserId = <<>> THEN Malformed
            ELSE [userId |-> cfg.tunnelUserId, userPassword |-> cfg.tunnelUserPassword,
                  groupKeys |-> <<>>, serial |-> <<0, 0, 0, 0, 0, 0>>, backboneKey |-> <<>>,
                  latencyMs |-> <<>>]
        ELSE IF cfg.knxkeys_password = <<>> THEN Malformed
        ELSE from(ParseKeyring(cfg.keyring[1], cfg.knxkeys_password[1]))
=============================================================================
