------------------------------ MODULE Datapoints ------------------------------
\* The datapoint types: the octets formatAPDU writes for a value and the value
\* fromBuffer reads.
\*
\* Octets are a sequence, null is the empty one; what is read is a sequence of at
\* most one value.  A boolean of DPT1 is a number; temperatures and other DPT9
\* numbers count hundredths (those a double holds exactly), DPT14 numbers
\* quarters; a text is a sequence of character codes, a date a record.
EXTENDS FrameCodecs

Null == <<>>
Flag(on) == IF on THEN 1 ELSE 0
IfLength(b, n, value) == IF Len(b) = n THEN <<value>> ELSE <<>>
\* Two's complement, most significant octet first; numbers stay below 2^31.
IntBytes(n, size) ==
    [i \in 1 .. size |-> IF size - i > 3 THEN (IF n < 0 THEN 255 ELSE 0)
                         ELSE (n \div 256 ^ (size - i)) % 256]
ReadInt(b, signed) ==
    FoldLeft(LAMBDA n, x : 256 * n + x,
             IF signed /\ b[1] > 127 THEN b[1] - 256 ELSE b[1], Tail(b))
\* An octet of flags, the first name at bit 0.
FlagOctet(names, v) ==
    FoldLeft(LAMBDA sum, i : sum + 2 ^ (i - 1) * Flag(v[names[i]]), 0,
             [i \in 1 .. Len(names) |-> i])
ReadFlags(names, octet) ==
    [name \in ToSet(names) |->
        Bits(octet, (CHOOSE i \in 1 .. Len(names) : names[i] = name) - 1, 1) = 1]
Has(v, names) == ToSet(names) \subseteq DOMAIN v
In(v, name, low, high) == v[name] >= low /\ v[name] <= high

-----------------------------------------------------------------------------
(* The configuration of each type: bits, sign, scalar ranges and subtypes *)

Config(bits, signed, subtypes) ==
    [bits |-> bits, signed |-> signed, subtypes |-> subtypes, scalar |-> <<>>]
DPT1 == Config(1, FALSE, {"001", "002", "003", "004", "005", "006", "007", "008", "009", "010",
                          "011", "012", "013", "014", "015", "016", "017", "018", "019",
                          "021", "022", "023", "024", "100"})
DPT2 == Config(2, FALSE, {"001", "002", "003", "004", "005", "006", "007", "008", "009", "010",
                          "011", "012"})
DPT3 == Config(4, FALSE, {"007", "008"})
DPT4 == Config(8, FALSE, {"001", "002"})
DPT5 == [Config(8, FALSE, {"001", "003", "004", "005", "006", "010", "100"})
           EXCEPT !.scalar = ("001" :> 100) @@ ("003" :> 360)]
DPT6 == Config(8, TRUE, {"001", "010", "020"})
DPT7 == Config(16, FALSE, {"001", "002", "003", "004", "005", "006", "007", "010", "011", "012",
                           "013", "600"})
DPT8 == Config(16, TRUE, {"001", "002", "003", "004", "005", "006", "007", "010", "011", "012"})
DPT9 == Config(16, FALSE, {"001", "002", "003", "004", "005", "006", "007", "008", "009", "010",
                           "011", "020", "021", "022", "023", "024", "025", "026", "027",
                           "028", "029", "030"})
DPT10 == Config(24, FALSE, {"001"})
DPT11 == Config(24, FALSE, {"001"})
DPT12 == Config(32, FALSE, {"001", "100", "101", "102", "1200", "1201"})
DPT13 == Config(32, TRUE, {"001", "002", "010", "011", "012", "013", "014", "015", "016", "100",
                           "1200", "1201"})
DPT14 == Config(32, FALSE, {"007", "019", "027", "028", "031", "032", "033", "036", "037", "038",
                            "039", "051", "056", "057", "058", "065", "066", "067", "068",
                            "069", "070", "074", "076", "077", "078", "079", "1200"})
DPT15 == Config(32, FALSE, {"000"})
DPT16 == Config(112, FALSE, {"000", "001"})
DPT17 == Config(8, FALSE, {"001"})
DPT18 == Config(8, FALSE, {"001"})
DPT19 == Config(64, FALSE, {"001"})
DPT20 == Config(8, FALSE, {"102", "103", "104", "105", "106", "107", "108", "109", "110", "111"})
DPT21 == Config(8, FALSE, {"001"})
DPT22 == Config(16, FALSE, {"101"})
DPT28 == Config(112, FALSE, {"001"})
DPT29 == Config(64, TRUE, {"010", "011", "012"})
DPT213 == Config(64, FALSE, {"100", "101", "102"})
DPT222 == Config(48, FALSE, {"100", "101"})
DPT232 == Config(24, FALSE, {"600"})
DPT235 == Config(48, FALSE, {"001"})
DPT237 == Config(16, FALSE, {"600"})
DPT238 == Config(8, FALSE, {"102", "003", "004", "005", "006", "010"})
DPT242 == Config(48, FALSE, {"600"})
DPT249 == Config(48, FALSE, {"600"})
DPT251 == Config(48, FALSE, {"600"})
DPT275 == Config(64, FALSE, {"100"})
DPT999 == Config(80, FALSE, {"001"})
DPT60001 == Config(54, FALSE, {"001"})
DPT60002 == Config(2, FALSE, {"001"})

-----------------------------------------------------------------------------
(* Bits, characters, integers *)

Encode1(n) == <<Flag(n # 0)>>
Decode1(b) == IfLength(b, 1, Flag(b[1] # 0))
Encode2(v) == IF Has(v, <<"priority", "data">>) THEN <<2 * Flag(v.priority) + Flag(v.data)>> ELSE Null
Decode2(b) == IfLength(b, 1, [priority |-> Bits(b[1], 1, 1) = 1, data |-> Bits(b[1], 0, 1) = 1])
\* A value without its fields is written as 0.
Encode3(v) ==
    <<IF Has(v, <<"decr_incr", "data">>) THEN 8 * Flag(v.decr_incr # 0) + Low(v.data, 3) ELSE 0>>
Decode3(b) == IfLength(b, 1, [decr_incr |-> Bits(b[1], 3, 1), data |-> Low(b[1], 3)])
Encode4(text) == IF text = <<>> THEN Null ELSE <<text[1] % 256>>
Decode4(b) == IfLength(b, 1, b)
\* Clamped to 16 bits.
Encode7(n) == U16Bytes(IF n < 0 THEN 0 ELSE IF n > 65535 THEN 65535 ELSE n)
Decode7(b) == IfLength(b, 2, U16(b, 0))
\* Out of range becomes 0.
Encode12(n) == IntBytes(IF n < 0 THEN 0 ELSE n, 4)
Decode12(b) == IfLength(b, 4, ReadInt(b, FALSE))
Encode18(v) ==
    IF Has(v, <<"save_recall", "scenenumber">>) /\ In(v, "scenenumber", 1, 64)
    THEN <<128 * v.save_recall + v.scenenumber - 1>> ELSE Null
Decode18(b) == IfLength(b, 1, [save_recall |-> Bits(b[1], 7, 1), scenenumber |-> Low(b[1], 6) + 1])
Encode20(n) == <<n % 256>>
Decode20(b) == IfLength(b, 1, b[1])
Encode238(n) == <<n % 256>>
Decode238(b) == IfLength(b, 1, b[1])
Encode29(n) == IntBytes(n, 8)
Decode29(b) == IfLength(b, 8, ReadInt(b, TRUE))

-----------------------------------------------------------------------------
(* Floating point *)

\* The mantissa is cut towards zero; the exponent is the least that makes it fit
\* in 11 bits and runs into the sign when it passes 15.
FitsTwelveBits(mantissa) == -2049 < mantissa /\ mantissa < 2049     \* mutant of Fits
Fits(mantissa) == -2048 < mantissa /\ mantissa < 2047
GetHex(n) ==
    LET mantissa(k) == IF n < 0 THEN -((-n) \div 2 ^ k) ELSE n \div 2 ^ k
        fits(k) == Fits(mantissa(k))
        e == CHOOSE k \in 0 .. 20 : fits(k) /\ \A j \in 0 .. k - 1 : ~fits(j)
    IN  <<(128 * Flag(n < 0) + 8 * e + (mantissa(e) % 2048) \div 256) % 256, mantissa(e) % 256>>
GetFloat(high, low) ==
    (256 * Low(high, 3) + low - 2048 * Bits(high, 7, 1)) * 2 ^ Bits(high, 3, 4)
Encode9(n) == GetHex(n)
Decode9(b) == IfLength(b, 2, GetFloat(b[1], b[2]))
\* IEEE single precision of n quarters, |n| < 2^24.
Encode14(n) ==
    LET size == IF n < 0 THEN -n ELSE n
        top  == CHOOSE p \in 0 .. 23 : 2 ^ p <= size /\ size < 2 ^ (p + 1)
        exponent == 127 + top - 2
        fraction == size * 2 ^ (23 - top) - 2 ^ 23
    IN  IF n = 0 THEN <<0, 0, 0, 0>>
        ELSE <<128 * Flag(n < 0) + exponent \div 2,
               128 * (exponent % 2) + fraction \div 2 ^ 16,
               (fraction \div 256) % 256, fraction % 256>>
Decode14(b) ==
    LET exponent == 2 * Low(b[1], 7) + b[2] \div 128
        size == (2 ^ 23 + 2 ^ 16 * Low(b[2], 7) + U16(b, 2)) \div 2 ^ (148 - exponent)
    IN  IfLength(b, 4, IF exponent = 0 THEN 0 ELSE IF b[1] > 127 THEN -size ELSE size)
Setpoints(v, names) == FlattenSeq([i \in 1 .. Len(names) |-> GetHex(v[names[i]])])
ReadSetpoints(b, names) ==
    LET at(name) == 2 * (CHOOSE i \in 1 .. Len(names) : names[i] = name) - 1
    IN  IfLength(b, 2 * Len(names), [name \in ToSet(names) |-> GetFloat(b[at(name)], b[at(name) + 1])])
Names213 == <<"Comfort", "Standby", "Economy", "BuildingProtection">>
Encode213(v) ==
    IF Has(v, Names213) /\ \A name \in ToSet(Names213) : In(v, name, -27200, 65534)
    THEN Setpoints(v, Names213) ELSE Null
Decode213(b) == ReadSetpoints(b, Names213)
Names222 == <<"Comfort", "Standby", "Economy">>
Encode222(v) ==
    IF Has(v, Names222) /\ \A name \in ToSet(Names222) : In(v, name, -27300, 67076000)
    THEN Setpoints(v, Names222) ELSE Null
Decode222(b) == ReadSetpoints(b, Names222)
Names275 == <<"comfort", "standby", "economy", "buildingProtection">>
Encode275(v) == IF Has(v, Names275) THEN Setpoints(v, Names275) ELSE Null
Decode275(b) == ReadSetpoints(b, Names275)

-----------------------------------------------------------------------------
(* Dates and texts *)

\* Sunday is 0 in a Date and 7 on the bus.
KNXDay(day) == IF day = 0 THEN 7 ELSE day
Encode10(d) == <<32 * KNXDay(d.day) + d.hours, d.minutes, d.seconds>>
\* Day 0 leaves today's; a time that does not exist leaves now.
Decode10(b, now) ==
    LET day == Bits(b[1], 5, 3)
    IN  IfLength(b, 3, IF Low(b[1], 5) > 23 \/ b[2] > 59 \/ b[3] > 59 THEN now
                       ELSE [day |-> IF day = 0 THEN now.day ELSE day % 7,
                             hours |-> Low(b[1], 5), minutes |-> b[2], seconds |-> b[3]])
Encode11(d) == <<d.date, d.month, (d.year - (IF d.year >= 2000 THEN 2000 ELSE 1900)) % 256>>
Decode11(b) ==
    LET year == Low(b[3], 7)
    IN  IF Len(b) # 3 THEN <<>>
        ELSE IF Low(b[1], 5) = 0 \/ Low(b[2], 4) \notin 1 .. 12 THEN Malformed
        ELSE <<[date |-> Low(b[1], 5), month |-> Low(b[2], 4),
                year |-> year + (IF year > 89 THEN 1900 ELSE 2000)]>>
Encode19(d) ==
    <<(d.year - 1900) % 256, d.month, d.date, 32 * KNXDay(d.day) + d.hours, d.minutes, d.seconds,
      0, 0>>
\* The day of the week follows from the date.
Decode19(b) ==
    IfLength(b, 8, [year |-> b[1] + 1900, month |-> b[2], date |-> b[3],
                    hours |-> Low(b[4], 5), minutes |-> b[5], seconds |-> b[6]])

Padded(octets) == [i \in 1 .. 14 |-> IF i > Len(octets) THEN 0 ELSE octets[i]]
Encode16(text) == Padded([i \in 1 .. Len(text) |-> text[i] % 256])
\* 16.000 reads ASCII: the top bit is cleared.
Decode16(b, subtype) ==
    IfLength(b, 14, [i \in 1 .. 14 |-> IF subtype = "000" THEN Low(b[i], 7) ELSE b[i]])
\* A character is written whole or not at all; characters stay below 2^11.
Encode28(text) ==
    LET utf8(c) == IF c < 128 THEN <<c>> ELSE <<192 + (c \div 64), 128 + (c % 64)>>
        write(octets, c) == IF Len(octets) + Len(utf8(c)) > 14 THEN octets ELSE octets \o utf8(c)
    IN  Padded(FoldLeft(write, <<>>, text))
Decode28(b) ==
    LET read(text, x) == CASE x >= 192 -> Append(text, x - 192)
                           [] x \in 128 .. 191 -> [text EXCEPT ![Len(text)] = 64 * @ + x - 128]
                           [] OTHER -> Append(text, x)
    IN  <<FoldLeft(read, <<>>, b)>>

-----------------------------------------------------------------------------
(* Composite values *)

Names21 == <<"outOfService", "fault", "overridden", "inAlarm", "alarmUnAck">>
Encode21(v) == IF Has(v, Names21) THEN <<FlagOctet(Names21, v)>> ELSE Null
Decode21(b) == IfLength(b, 1, ReadFlags(Names21, b[1]))
Heating == <<"Fault", "StatusEcoH", "TempFlowLimit", "TempReturnLimit", "StatusMorningBoostH",
             "StatusStartOptim", "StatusStopOptim", "HeatingDisabled">>
Cooling == <<"HeatCoolMode", "StatusEcoC", "StatusPreCool", "CoolingDisabled", "DewPointStatus",
             "FrostAlarm", "OverheatAlarm", "reserved">>
\* A flag left out is false, "reserved" true.
Complete22(v) ==
    [name \in ToSet(Heating) \union ToSet(Cooling) |->
        IF name \in DOMAIN v THEN v[name] ELSE name = "reserved"]
Encode22(v) == <<FlagOctet(Cooling, Complete22(v)), FlagOctet(Heating, Complete22(v))>>
Decode22(b) == IfLength(b, 2, ReadFlags(Heating, b[2]) @@ ReadFlags(Cooling, b[1]))
Colours == <<"red", "green", "blue">>
Encode232(v) ==
    IF Has(v, Colours) /\ \A name \in ToSet(Colours) : In(v, name, 0, 255)
    THEN <<v.red, v.green, v.blue>> ELSE Null
Decode232(b) == IfLength(b, 3, [red |-> b[1], green |-> b[2], blue |-> b[3]])
Validity235 == <<"validityEnergy", "validityTariff">>
Encode235(v) ==
    IF ~Has(v, Validity235 \o <<"activeElectricalEnergy", "tariff">>) THEN Null
    ELSE IntBytes(v.activeElectricalEnergy, 4) \o <<v.tariff % 256, FlagOctet(Validity235, v)>>
Decode235(b) ==
    IF Len(b) < 6 THEN <<>>
    ELSE <<[activeElectricalEnergy |-> ReadInt(SubSeq(b, 1, 4), TRUE), tariff |-> b[5]]
             @@ ReadFlags(Validity235, b[6])>>
Failures237 == <<"lampFailure", "ballastFailure", "convertorError">>
Address237 == <<"addressIndicator", "readResponse">>
\* Address 64 passes the check, takes seven bits and pushes a flag out.
Encode237(v) ==
    <<FlagOctet(Failures237, v),
      (FlagOctet(Address237, v) * (IF v.daliAddress > 63 THEN 128 ELSE 64) + v.daliAddress) % 256>>
Decode237(b) ==
    IfLength(b, 2, ReadFlags(Failures237, b[1]) @@ ReadFlags(Address237, b[2] \div 64)
                     @@ [daliAddress |-> Low(b[2], 6)])
Validity242 == <<"isBrightnessValid", "isColorValid">>
\* A brightness above 100 is only logged, above 65535 it throws as x and y do.
Encode242(v) ==
    IF \E name \in {"x", "y", "brightness"} : ~In(v, name, 0, 65535) THEN Malformed
    ELSE U16Bytes(v.x) \o U16Bytes(v.y) \o <<v.brightness % 256, FlagOctet(Validity242, v)>>
Decode242(b) ==
    IfLength(b, 6, [x |-> U16(b, 0), y |-> U16(b, 2), brightness |-> b[5]]
                     @@ ReadFlags(Validity242, b[6]))
Validity249 == <<"isAbsoluteBrightnessValid", "isAbsoluteColourTemperatureValid",
                 "isTimePeriodValid">>
Encode249(v) ==
    IF ~In(v, "colourTemperature", 0, 65535) \/ ~In(v, "absoluteBrightness", 0, 100) THEN Null
    ELSE IF ~In(v, "transitionTime", 0, 65535) THEN Malformed
    ELSE U16Bytes(v.transitionTime) \o U16Bytes(v.colourTemperature)
           \o <<v.absoluteBrightness, FlagOctet(Validity249, v)>>
Decode249(b) ==
    IfLength(b, 6, [transitionTime |-> U16(b, 0), colourTemperature |-> U16(b, 2),
                    absoluteBrightness |-> b[5]] @@ ReadFlags(Validity249, b[6]))
\* The ranges are only logged; mR, mG, mB and mW are 0 or 1.
Encode251(v) ==
    <<v.red % 256, v.green % 256, v.blue % 256, v.white % 256, 0,
      8 * v.mR + 4 * v.mG + 2 * v.mB + v.mW>>
Decode251(b) ==
    IfLength(b, 6, [red |-> b[1], green |-> b[2], blue |-> b[3], white |-> b[4],
                    mR |-> Bits(b[6], 3, 1), mG |-> Bits(b[6], 2, 1), mB |-> Bits(b[6], 1, 1),
                    mW |-> Bits(b[6], 0, 1)])
\* The digits of a hexadecimal text, ten octets of them.
Encode999(digits) ==
    LET digit(i) == IF i > Len(digits) THEN 0 ELSE digits[i]
    IN  IF Len(digits) < 10 THEN Null
        ELSE [i \in 1 .. 10 |-> IF 2 * i > Len(digits) THEN digit(2 * i - 1)
                                ELSE 16 * digit(2 * i - 1) + digit(2 * i)]
Decode999(b) == <<FlattenSeq([i \in 1 .. Len(b) |-> <<b[i] \div 16, b[i] % 16>>])>>

Modes == <<"normal", "priority", "wind alarm", "rain alarm", "disabled">>
Positions == <<"intermediate", "top", "bottom">>
\* What is unknown is written as 0 and read as null.
CodeOf(names, name) ==
    IF name \in ToSet(names) THEN (CHOOSE i \in 1 .. Len(names) : names[i] = name) - 1 ELSE 0
NameOf(names, code) == IF code < Len(names) THEN names[code + 1] ELSE "null"
Encode60002(v) == <<4 * CodeOf(Modes, v.mode) + CodeOf(Positions, v.position)>>
Decode60002(b) ==
    IfLength(b, 1, [mode |-> NameOf(Modes, Bits(b[1], 2, 3)),
                    position |-> NameOf(Positions, Low(b[1], 2))])

-----------------------------------------------------------------------------
(* DPT60001: sun protection *)

SectorCode(sectors) ==
    IF Len(sectors) = 1 THEN 2 * sectors[1] - 1
    ELSE FoldLeft(LAMBDA x, y : IF y < x THEN y ELSE x, sectors[1], sectors)
           + FoldLeft(LAMBDA x, y : IF y > x THEN y ELSE x, sectors[1], sectors) - 1
\* A code stands for the sectors around it, as many as its trailing zeros tell.
Sectors(code) ==
    LET twos == IF code = 0 THEN 0
                ELSE (CHOOSE p \in {1, 2, 4, 8, 16, 32, 64, 128, 256, 512} :
                        code % p = 0 /\ code % (2 * p) # 0) - 1
        half(n) == IF n = 0 THEN 0 ELSE (n - 1) \div 2 + 1
        first == half(code - twos)
    IN  [i \in 1 .. half(code + twos) - first + 1 |-> first + i - 1]
Drives == <<"long up", "long down", "short up", "short down", "stop", "long-short up",
            "long-short down">>
DriveName(octet) ==
    IF Low(octet, 7) < Len(Drives) THEN Drives[Low(octet, 7) + 1] ELSE "unknown"
CommandName(code) ==
    CASE code = 1 -> "drive command" [] code = 2 -> "value correction"
      [] code = 3 -> "automatic state" [] code = 4 -> "set/delete lock"
      [] code = 5 -> "operation code" [] code = 6 -> "set scene"
      [] code = 7 -> "special command" [] code = 8 -> "date" [] code = 9 -> "sync time"
      [] code = 10 -> "sensor reading notification" [] code = 11 -> "bus monitoring"
      [] code \in {16, 17, 19, 20} -> "driving range limits for safety drive commands"
      [] code \in 22 .. 24 -> "driving range limits for automatic drive commands"
      [] OTHER -> "unknown"
\* The parameters of a command; limits come as they are.
Parameters(code, b) ==
    CASE code = 1 ->
           <<CASE Low(b[3], 5) = 0 -> "no driving movement"
               [] Low(b[3], 5) = 1 -> "upper end position"
               [] Low(b[3], 5) = 2 -> "lower end position"
               [] Low(b[3], 5) = 3 /\ b[4] \in 1 .. 4 -> "fixed position"
               [] OTHER -> "unknown">>
      [] code = 4 ->
           <<CASE b[3] = 0 -> "no lock"
               [] Low(b[3], 2) = 1 -> "driving command"
               [] Low(b[3], 2) = 2 -> "button lock"
               [] Low(b[3], 2) = 3 -> "driving command- and button lock"
               [] OTHER -> IF b[4] = 0 THEN "delete lock" ELSE "set lock">>
      [] code = 5 ->
           <<CASE b[3] <= 6 -> "groupoperation" [] b[3] \in 128 .. 134 -> "localoperation"
               [] OTHER -> "unknown",
             DriveName(b[3])>>
      [] code = 22 -> Sub(b, 2, 6)
      [] OTHER -> <<"unknown">>
Priority(b) ==
    LET class == Bits(b[3], 5, 3)
    IN  IF b[2] > 3 THEN "-"
        ELSE CASE class = 0 -> "border command" [] class = 1 -> "automatic command"
               [] class = 3 -> "priority command" [] class = 4 -> "warning command"
               [] class = 5 -> "security command" [] class = 6 -> "danger command"
               [] OTHER -> "unknown"
\* Only local operation can be sent; another command or drive is an exception.
Encode60001(v) ==
    LET code == SectorCode(v.sectors)
    IN  IF v.data[1] # "localoperation" THEN Null
        ELSE IF v.command # "operation code" \/ v.data[2] \notin ToSet(Drives) THEN Malformed
        ELSE <<code % 256, 4 * 5 + Bits(code, 8, 2), 128 + CodeOf(Drives, v.data[2]), 0, 0, 0>>
Decode60001(b) ==
    LET command == b[2] \div 4
    IN  IfLength(b, 6, [sectors |-> Sectors(b[1] + 256 * Low(b[2], 2)), prio |-> Priority(b),
                        command |-> CommandName(command), data |-> Parameters(command, b)])

-----------------------------------------------------------------------------
(* populateAPDU and fromBuffer of the library *)

ConfigOf(dpt) ==
    CASE dpt = 1 -> DPT1 [] dpt = 2 -> DPT2 [] dpt = 3 -> DPT3 [] dpt = 4 -> DPT4
      [] dpt = 5 -> DPT5 [] dpt = 6 -> DPT6 [] dpt = 7 -> DPT7 [] dpt = 8 -> DPT8
      [] dpt = 9 -> DPT9 [] dpt = 10 -> DPT10 [] dpt = 11 -> DPT11 [] dpt = 12 -> DPT12
      [] dpt = 13 -> DPT13 [] dpt = 14 -> DPT14 [] dpt = 15 -> DPT15 [] dpt = 16 -> DPT16
      [] dpt = 17 -> DPT17 [] dpt = 18 -> DPT18 [] dpt = 19 -> DPT19 [] dpt = 20 -> DPT20
      [] dpt = 21 -> DPT21 [] dpt = 22 -> DPT22 [] dpt = 28 -> DPT28 [] dpt = 29 -> DPT29
      [] dpt = 213 -> DPT213 [] dpt = 222 -> DPT222 [] dpt = 232 -> DPT232
      [] dpt = 235 -> DPT235 [] dpt = 237 -> DPT237 [] dpt = 238 -> DPT238
      [] dpt = 242 -> DPT242 [] dpt = 249 -> DPT249 [] dpt = 251 -> DPT251
      [] dpt = 275 -> DPT275 [] dpt = 999 -> DPT999 [] dpt = 60001 -> DPT60001
      [] dpt = 60002 -> DPT60002
\* resolve: subtype 001 unless one is given; most composite types have none.
Resolves(dpt, subtype) ==
    (IF subtype = "" THEN "001" ELSE subtype) \in ConfigOf(dpt).subtypes
OctetsOf(dpt) == (ConfigOf(dpt).bits + 7) \div 8
\* The generic number of [0, 255]: the scalar range is mapped to it, rounding half
\* up; a value outside of it is written as it is.
Scaled(n, top) == IF n < 0 \/ n > top THEN n ELSE (2 * n * 255 + top) \div (2 * top)
Unscaled(n, top) == (2 * n * top + 255) \div (2 * 255)
HasScalar(dpt, subtype) == subtype \in DOMAIN ConfigOf(dpt).scalar
\* writeIntBE and writeUIntBE throw when the number does not fit.
Generic(dpt, subtype, n) ==
    LET c    == ConfigOf(dpt)
        m    == IF HasScalar(dpt, subtype) THEN Scaled(n, c.scalar[subtype]) ELSE n
        low  == IF c.signed THEN -(2 ^ (c.bits - 1)) ELSE 0
        high == 2 ^ (c.bits - Flag(c.signed)) - 1
    IN  IF (c.bits < 32 /\ m \notin low .. high) \/ (m < 0 /\ ~c.signed) THEN Malformed
        ELSE IntBytes(m, OctetsOf(dpt))
ReadGeneric(dpt, subtype, b) ==
    LET n == ReadInt(b, ConfigOf(dpt).signed)
    IN  IfLength(b, OctetsOf(dpt),
                 IF HasScalar(dpt, subtype) THEN Unscaled(n, ConfigOf(dpt).scalar[subtype]) ELSE n)
PopulateAPDU(dpt, subtype, v) ==
    CASE dpt = 1 -> Encode1(v) [] dpt = 2 -> Encode2(v) [] dpt = 3 -> Encode3(v)
      [] dpt = 4 -> Encode4(v) [] dpt = 7 -> Encode7(v) [] dpt = 9 -> Encode9(v)
      [] dpt = 10 -> Encode10(v) [] dpt = 11 -> Encode11(v) [] dpt = 12 -> Encode12(v)
      [] dpt = 14 -> Encode14(v) [] dpt = 16 -> Encode16(v) [] dpt = 18 -> Encode18(v)
      [] dpt = 19 -> Encode19(v) [] dpt = 20 -> Encode20(v) [] dpt = 21 -> Encode21(v)
      [] dpt = 22 -> Encode22(v) [] dpt = 28 -> Encode28(v) [] dpt = 29 -> Encode29(v)
      [] dpt = 213 -> Encode213(v) [] dpt = 222 -> Encode222(v) [] dpt = 232 -> Encode232(v)
      [] dpt = 235 -> Encode235(v) [] dpt = 237 -> Encode237(v) [] dpt = 238 -> Encode238(v)
      [] dpt = 242 -> Encode242(v) [] dpt = 249 -> Encode249(v) [] dpt = 251 -> Encode251(v)
      [] dpt = 275 -> Encode275(v) [] dpt = 999 -> Encode999(v)
      [] dpt = 60001 -> Encode60001(v) [] dpt = 60002 -> Encode60002(v)
      [] OTHER -> Generic(dpt, subtype, v)
FromBuffer(dpt, subtype, b, now) ==
    CASE dpt = 1 -> Decode1(b) [] dpt = 2 -> Decode2(b) [] dpt = 3 -> Decode3(b)
      [] dpt = 4 -> Decode4(b) [] dpt = 7 -> Decode7(b) [] dpt = 9 -> Decode9(b)
      [] dpt = 10 -> Decode10(b, now) [] dpt = 11 -> Decode11(b) [] dpt = 12 -> Decode12(b)
      [] dpt = 14 -> Decode14(b) [] dpt = 16 -> Decode16(b, subtype) [] dpt = 18 -> Decode18(b)
      [] dpt = 19 -> Decode19(b) [] dpt = 20 -> Decode20(b) [] dpt = 21 -> Decode21(b)
      [] dpt = 22 -> Decode22(b) [] dpt = 28 -> Decode28(b) [] dpt = 29 -> Decode29(b)
      [] dpt = 213 -> Decode213(b) [] dpt = 222 -> Decode222(b) [] dpt = 232 -> Decode232(b)
      [] dpt = 235 -> Decode235(b) [] dpt = 237 -> Decode237(b) [] dpt = 238 -> Decode238(b)
      [] dpt = 242 -> Decode242(b) [] dpt = 249 -> Decode249(b) [] dpt = 251 -> Decode251(b)
      [] dpt = 275 -> Decode275(b) [] dpt = 999 -> Decode999(b)
      [] dpt = 60001 -> Decode60001(b) [] dpt = 60002 -> Decode60002(b)
      [] OTHER -> ReadGeneric(dpt, subtype, b)
=============================================================================
