---------------------------- MODULE MCMessagePath ----------------------------
\* The instance of MessagePath that is checked: a telegram or more of every
\* datapoint type, at the values where its encoding changes.
EXTENDS MessagePath

Open == <<0, 0, 1>>          \* a group without a key
Closed == <<1, 2, 3>>        \* a group of the keyring
OpenTwice == <<31, 7, 255>>

W(dpt, subtype, value) ==
    [method |-> "write", dst |-> Open, dpt |-> dpt, subtype |-> subtype, value |-> value]
R(dpt, subtype, value) ==
    [method |-> "respond", dst |-> Closed, dpt |-> dpt, subtype |-> subtype, value |-> value]
Raw(method, dst, octets, bits) ==
    [method |-> method, dst |-> dst, octets |-> octets, bits |-> bits]
Sevens(names, n) == [name \in ToSet(names) |-> n]
Alternate(names) ==
    [name \in ToSet(names) |-> \E i \in 1 .. Len(names) : names[i] = name /\ i % 2 = 1]

MCCalls ==
    << \* the first four may be cut
       [method |-> "write", dst |-> Closed, dpt |-> 1, subtype |-> "001", value |-> 1],
       Raw("respondRaw", OpenTwice, <<229, 104>>, 16),
       W(16, "001", <<72, 101, 229, 16, 104, 22>>),
       [method |-> "read", dst |-> Closed],
       W(1, "", 0), R(2, "001", [priority |-> TRUE, data |-> FALSE]),
       W(3, "007", [decr_incr |-> 1, data |-> 5]), R(4, "001", <<65>>),
       W(5, "001", 50), W(5, "001", 100), R(5, "003", 359), W(5, "010", 63), W(5, "010", 255),
       W(6, "010", -128), R(6, "010", 127), W(7, "001", 70000), W(7, "001", 65535),
       W(8, "001", -32768), R(8, "001", 300),
       W(9, "001", 0), W(9, "001", 2050), R(9, "001", -2725), W(9, "001", 32775), W(9, "001", 65525),
       W(9, "001", -2050), R(9, "001", 8500000), W(9, "001", 67076000),
       W(10, "001", [day |-> 0, hours |-> 23, minutes |-> 59, seconds |-> 59]),
       R(10, "001", [day |-> 3, hours |-> 0, minutes |-> 0, seconds |-> 0]),
       W(11, "001", [date |-> 31, month |-> 12, year |-> 1999]),
       R(11, "001", [date |-> 1, month |-> 1, year |-> 2000]),
       W(11, "001", [date |-> 29, month |-> 2, year |-> 2088]),
       W(12, "001", 0), R(12, "001", 65536), W(13, "", -1), R(13, "001", 2147483647),
       W(14, "056", 0), W(14, "056", 1), R(14, "056", -10), W(14, "056", 16777215),
       W(15, "000", 16909060), W(17, "001", 63), R(17, "001", 64),
       W(18, "001", [save_recall |-> 1, scenenumber |-> 64]),
       R(18, "001", [save_recall |-> 0, scenenumber |-> 1]),
       W(19, "001", [year |-> 2024, month |-> 2, date |-> 29, day |-> 4, hours |-> 23,
                     minutes |-> 5, seconds |-> 59]),
       W(20, "102", 4), R(21, "001", Alternate(Names21)),
       W(22, "101", Alternate(Heating)), R(22, "101", Alternate(Cooling)),
       W(28, "001", <<72, 233, 108, 1087, 33>>), R(29, "010", -2), W(29, "010", 100000),
       W(213, "100", Sevens(Names213, 2100)), R(222, "100", Sevens(Names222, -1525)),
       W(222, "100", Sevens(Names222, 5000)), W(275, "100", Sevens(Names275, 1900)),
       R(232, "600", [red |-> 0, green |-> 128, blue |-> 255]),
       W(235, "001", [activeElectricalEnergy |-> -5, tariff |-> 4, validityEnergy |-> TRUE,
                      validityTariff |-> FALSE]),
       W(237, "600", [lampFailure |-> TRUE, ballastFailure |-> FALSE, convertorError |-> TRUE,
                      addressIndicator |-> FALSE, readResponse |-> TRUE, daliAddress |-> 63]),
       R(238, "102", 7),
       W(242, "600", [x |-> 65535, y |-> 1, brightness |-> 100, isBrightnessValid |-> FALSE,
                      isColorValid |-> TRUE]),
       R(249, "600", [transitionTime |-> 256, colourTemperature |-> 2700,
                      absoluteBrightness |-> 100, isAbsoluteBrightnessValid |-> TRUE,
                      isAbsoluteColourTemperatureValid |-> FALSE, isTimePeriodValid |-> TRUE]),
       W(251, "600", [red |-> 1, green |-> 2, blue |-> 3, white |-> 255, mR |-> 1, mG |-> 0,
                      mB |-> 0, mW |-> 1]),
       R(999, "001", <<1, 2, 3, 4, 5, 6, 7, 8, 9, 10, 11, 12, 13, 14, 15, 0, 1, 2, 3, 4>>),
       W(60001, "001", [command |-> "operation code", data |-> <<"localoperation", "stop">>,
                        sectors |-> <<3>>]),
       R(60001, "001", [command |-> "operation code", data |-> <<"localoperation", "long down">>,
                        sectors |-> <<1, 2, 3, 4>>]),
       W(60002, "001", [mode |-> "rain alarm", position |-> "top"]),
       Raw("writeRaw", Closed, <<63>>, 6), Raw("writeRaw", Open, <<63>>, 8),
       Raw("respondRaw", Closed, <<64>>, 8), [method |-> "read", dst |-> Open],
       \* calls that throw
       W(1, "099", 1), W(232, "", [red |-> 1, green |-> 1, blue |-> 1]), W(15, "000", -1), W(8, "001", 32768),
       [method |-> "read", dst |-> <<32, 0, 0>>], [method |-> "read", dst |-> <<0, 0, 0>>] >>
MCCuttable == 1 .. 4

Info == [medium |-> 2, status |-> 0, address |-> 4352, projectID |-> 0, serialNumber |-> Serial,
         ip |-> <<224, 0, 23, 12>>, macAddress |-> Serial, name |-> <<>>]
Families == [type |-> SUPP_SVC_FAMILIES, services |-> <<<<2, 1>>, <<4, 1>>>>]
Here == HPAI(<<10, 0, 0, 9>>, 3671, IPV4_UDP)
MCControls ==
    << SearchRequest(Here), DescriptionRequest(NULLHPAI), SearchResponse(Here, Info, Families),
       SecureSearchResponse(Here, <<Info>>, <<Families>>, <<>>),
       DescriptionResponse(Info, Families), ConnectRequest(TUNNEL_LINKLAYER, Here, NULLHPAI),
       ConnectResponse(9, 0, <<Here>>, <<[connectionType |-> 4, knxAddress |-> 65281]>>),
       ConnectResponse(0, 36, <<>>, <<>>), ConnectionStateRequest(255, Here),
       ConnectionStateResponse(9, 33), DisconnectRequest(9, Here),
       DisconnectResponse(9, 0), TunnelingAck(9, 255, 0) >>

\* A secure gateway that answers plain and extended, a router behind the same
\* address, and a gateway of area 0.
Gateway(ip, port, address, families, extended, secured) ==
    [ip |-> <<10, 0, 0, ip>>, port |-> port, name |-> <<75, 78, 88, 32, ip>>, ia |-> address,
     families |-> families, extended |-> extended, secured |-> secured]
MCAnswers ==
    {Gateway(1, 0, <<1, 1, 10>>, <<2, 4>>, FALSE, <<>>),
     Gateway(1, 0, <<1, 1, 10>>, <<2, 4>>, TRUE, <<<<4>>>>),
     Gateway(1, 3672, <<1, 2, 0>>, <<2, 4, 5>>, FALSE, <<>>),
     Gateway(1, 3672, <<1, 2, 0>>, <<2, 4, 5>>, TRUE, <<<<5>>>>),
     Gateway(2, 3671, <<0, 3, 1>>, <<4, 5>>, TRUE, <<>>)}
MCPeer == <<<<10, 0, 0, 1>>, 3671>>

Locked(octets) == [under |-> Right, plain |-> octets]
Key(n) == [i \in 1 .. 16 |-> (n * i + 3) % 256]
Interface(address, host, user, sender) ==
    [type |-> "tunneling", individualAddress |-> address, host |-> host, userId |-> <<user>>,
     password |-> <<Locked(<<1, 2, 3, 4, 5, 6, 7, 8, 112, 119, 2, 2>>)>>, authentication |-> <<>>,
     groups |-> <<[address |-> Closed, senders |-> <<sender>>]>>]
MCKeyringFile ==
    [interfaces |-> <<Interface(<<1, 1, 250>>, <<<<1, 1, 10>>>>, 3, <<1, 1, 4>>),
                      Interface(<<1, 1, 251>>, <<<<1, 1, 10>>>>, 4, <<1, 1, 250>>),
                      Interface(<<1, 2, 250>>, <<<<1, 2, 0>>>>, 5, <<1, 1, 9>>)>>,
     backbones |-> <<[key |-> <<Locked(Key(5))>>, latency |-> <<50>>,
                      multicastAddress |-> <<224, 0, 23, 12>>]>>,
     groups |-> <<[address |-> <<Closed>>, key |-> <<Locked(Key(7))>>],
                  [address |-> <<<<1, 600>>>>, key |-> <<Locked(Key(9))>>],
                  [address |-> <<Open>>, key |-> <<>>]>>,
     devices |-> <<[individualAddress |-> <<1, 1, 10>>, toolKey |-> <<Locked(Key(3))>>,
                    managementPassword |-> <<>>, authentication |-> <<>>,
                    sequenceNumber |-> <<>>, serialNumber |-> <<Serial>>]>>]
=============================================================================
