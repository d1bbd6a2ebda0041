---------------------------- MODULE DbcTranslation ----------------------------
(***************************************************************************)
(* From a line of the bridge to readings: the tokeniser of the live        *)
(* source, the DBC parser, the mapper of bits to values, the two           *)
(* translators and the service that owns the one in use.                   *)
(*                                                                         *)
(* Physical values are in hundredths, so that scales are whole numbers;    *)
(* the acceleration of the OBD2 translator is in parts of 255.  The DBC    *)
(* files hold the signals one session can tell apart.                      *)
(***************************************************************************)
EXTENDS Integers, Sequences, FiniteSets
LOCAL INSTANCE SequencesExt
LOCAL INSTANCE FiniteSetsExt
LOCAL INSTANCE TLC

\* An optional reading.
Nothing == <<>>
Just(x) == <<x>>

-----------------------------------------------------------------------------
\* LiveTwaiSource: the id has three hex digits and 11 bits, at most eight bytes follow; bytes
\* that are missing are zero.  A line that is none is passed over.
isTwaiLine(line) == line.id \in 0..2047 /\ Len(line.bytes) <= 8
nextFrame(line) ==
    [ id   |-> line.id,
      data |-> [i \in 1..8 |-> IF i \in DOMAIN line.bytes THEN line.bytes[i] ELSE 0] ]

-----------------------------------------------------------------------------
(***************************************************************************)
(* The DBC file: messages, the signals of the message above them, and      *)
(* value tables.                                                           *)
(***************************************************************************)
BO(id) == [kind |-> "BO_", id |-> id]
SG(name, at, len, signed, scale, offset, min, max) ==
    [ kind |-> "SG_", reads |-> "whole", name |-> name, startBit |-> at, bitLength |-> len,
      byteOrder |-> "Intel", isSigned |-> signed, scale |-> scale, offset |-> offset,
      min |-> min, max |-> max ]
VAL(id, name, table) == [kind |-> "VAL_", id |-> id, name |-> name, table |-> table]

Model3CAN ==
    << BO(280), SG("DI_gear", 21, 3, FALSE, 100, 0, 0, 700),
                SG("DI_accelPedalPos", 32, 8, FALSE, 40, 0, 0, 10000),
       BO(264), SG("DI_torqueActual", 27, 13, TRUE, 200, 0, -750000, 750000),
       VAL(280, "DI_gear", << <<4, "DI_GEAR_D">>, <<0, "DI_GEAR_INVALID">>, <<3, "DI_GEAR_N">>,
                              <<1, "DI_GEAR_P">>, <<2, "DI_GEAR_R">>, <<7, "DI_GEAR_SNA">> >>) >>
vw_mlb ==
    << BO(480), BO(65536), SG("CCP_MO_CRO_02_Data", 0, 64, FALSE, 100, 0, 0, 100),
       BO(256), SG("ESP_v_Signal", 32, 16, FALSE, 1, 0, 0, 65532),
       BO(262), SG("ESP_Bremsdruck", 16, 10, FALSE, 30, -3000, -3000, 27660),
       VAL(256, "ESP_v_Signal", << <<65533, "Unterspannung">>, <<65535, "Fehler">> >>) >>

\* parseBoLine: an id that does not fit 16 bits leaves the message as it was.
parseBoLine(current, line) == IF line.id < 65536 THEN line.id ELSE current

\* parseSignalDefinition: a delimiter or a whole number that is missing drops the signal, what
\* is no decimal number throws.
parseSignalDefinition(line, id) ==
    IF line.reads = "whole" THEN {line @@ [canId |-> id, valueTable |-> <<>>]} ELSE {}

\* parseString: the signals under the ids of their messages; none if anything throws.
parseLine(state, line) ==
    CASE line.kind = "BO_" -> [state EXCEPT !.id = parseBoLine(@, line)]
      [] line.kind = "SG_" /\ state.id # 0 ->
           [state EXCEPT !.signals = @ \cup parseSignalDefinition(line, state.id)]
      [] line.kind = "VAL_" /\ line.table # <<>> -> [state EXCEPT !.tables = @ \cup {line}]
      [] OTHER -> state

\* buildResult: each table goes to the signal of its id and name.
buildResult(state) ==
    LET TableOf(s) == {t \in state.tables : t.id = s.canId /\ t.name = s.name}
    IN  {[s EXCEPT !.valueTable = IF TableOf(s) = {} THEN <<>>
                                  ELSE (CHOOSE t \in TableOf(s) : TRUE).table] : s \in state.signals}

parseString(lines) ==
    IF \E i \in DOMAIN lines : lines[i].kind = "SG_" /\ lines[i].reads = "throws" THEN {}
    ELSE buildResult(FoldLeft(parseLine, [id |-> 0, signals |-> {}, tables |-> {}], lines))

-----------------------------------------------------------------------------
(***************************************************************************)
(* The mapper.                                                             *)
(***************************************************************************)
\* Where bit i of a signal is, from its least significant bit on for Intel, from its most
\* significant one for Motorola: down to bit 0 of a byte, and on at bit 7 of the next.
IntelBit(def, i) == def.startBit + i
MotorolaBit(def) ==
    LET at[i \in 0..def.bitLength - 1] ==
            IF i = 0 THEN def.startBit
            ELSE IF at[i - 1] % 8 = 0 THEN at[i - 1] + 15 ELSE at[i - 1] - 1
    IN  at

BitAt(data, n) == IF n \div 8 + 1 \in DOMAIN data THEN (data[n \div 8 + 1] \div 2^(n % 8)) % 2 ELSE 0

extractRawBits(data, def) ==
    LET last == def.bitLength - 1
    IN  IF def.byteOrder = "Intel"
        THEN MapThenSumSet(LAMBDA i : 2^i * BitAt(data, IntelBit(def, i)), 0..last)
        ELSE MapThenSumSet(LAMBDA i : 2^(last - i) * BitAt(data, MotorolaBit(def)[i]), 0..last)

toSigned(raw, length) == IF raw >= 2^(length - 1) THEN raw - 2^length ELSE raw

Clamp(x, low, high) == IF x < low THEN low ELSE IF x > high THEN high ELSE x
applyScaleOffsetClamp(raw, def) ==
    LET value == IF def.isSigned THEN toSigned(raw, def.bitLength) ELSE raw
    IN  Clamp(value * def.scale + def.offset, def.min, def.max)

\* The bound that mapSignal() checks is that of an Intel signal.
mapSignal(data, def) ==
    IF def.startBit + def.bitLength > 64 THEN Nothing
    ELSE Just(applyScaleOffsetClamp(extractRawBits(data, def), def))

\* A gear by the first entry of its value; 0 and 7 are no gear.
mapValueTableToGear(raw, table) ==
    LET gears == (-2 :> "DI_GEAR_P") @@ (-1 :> "DI_GEAR_R") @@ (0 :> "DI_GEAR_N") @@ (4097 :> "DI_GEAR_D")
        meant == {g \in DOMAIN gears : \E i \in DOMAIN table : table[i] = <<raw, gears[g]>>}
    IN  IF meant = {} THEN Nothing ELSE Just(CHOOSE g \in meant : TRUE)
mapGearSignal(data, def) ==
    LET raw == extractRawBits(data, def)
    IN  IF raw \in {0, 7} THEN Nothing
        ELSE IF def.valueTable = <<>> THEN Just(raw) ELSE mapValueTableToGear(raw, def.valueTable)

-----------------------------------------------------------------------------
(***************************************************************************)
(* Vehicles and their translators.                                         *)
(***************************************************************************)
Vehicles == {"generic", "tesla", "audi_mlb_evo"}
isCANProtocol(v) == v # "generic"
dbcFile(v) == IF v = "tesla" THEN Model3CAN ELSE vw_mlb
signalMappings(v) ==
    IF v = "tesla"
    THEN [throttlePercent |-> "DI_accelPedalPos", motorTorqueNm |-> "DI_torqueActual",
          gearSelector |-> "DI_gear", motorRpm |-> "DIR_axleSpeed"]
    ELSE [speedKmh |-> "ESP_v_Signal", brakePercent |-> "ESP_Bremsdruck"]
Fields == {"throttlePercent", "motorTorqueNm", "gearSelector", "motorRpm", "speedKmh",
           "brakePercent", "accelerationG"}
NoReadings == [f \in Fields |-> Nothing]

Parsed == [v \in {"tesla", "audi_mlb_evo"} |-> parseString(dbcFile(v))]

\* resolveMappings: a mapped name without a definition is no reading.
resolveMappings(v) ==
    {r \in (DOMAIN signalMappings(v)) \X Parsed[v] : r[2].name = signalMappings(v)[r[1]]}
Resolved == [v \in DOMAIN Parsed |-> resolveMappings(v)]

\* build: every reading from the last frame of its id.
Reading(f, def, data) ==
    IF f = "gearSelector" THEN mapGearSignal(data, def) ELSE mapSignal(data, def)
build(v, frames) ==
    LET Of(f) == {r \in Resolved[v] : r[1] = f /\ r[2].canId \in DOMAIN frames}
    IN  [f \in Fields |-> IF Of(f) = {} THEN Nothing
                          ELSE LET def == (CHOOSE r \in Of(f) : TRUE)[2]
                               IN  Reading(f, def, frames[def.canId])]

\* DBCTranslationService: a vehicle without signals in its file is not loaded; with it comes
\* a translator that has seen nothing.
Fresh(v) == [vehicle |-> v, frames |-> <<>>, load |-> Nothing]
FaultLoadKept(s, v) == IF s.vehicle = v THEN s ELSE Fresh(v)
loadVehicleFromPath(s, v) == IF isCANProtocol(v) /\ Parsed[v] = {} THEN s ELSE Fresh(v)

\* OBD2SignalTranslatorBase: the id of a frame is its mode and its PID; of the PIDs an 11-bit id
\* can hold, only the engine load is a reading.
isValidPacket(frame) == frame.id % 256 \in 64..79
applyUpdate(s, frame) ==
    IF frame.id \div 256 = 4 THEN [s EXCEPT !.load = Just(2 * frame.data[1] - 255)] ELSE s

\* processFrame: the service after a frame, and what the frame tells.
AfterFrame(s, frame) ==
    IF isCANProtocol(s.vehicle)
    THEN [s EXCEPT !.frames = [id \in {frame.id} \cup DOMAIN s.frames |->
                                  IF id = frame.id THEN frame.data ELSE s.frames[id]]]
    ELSE IF isValidPacket(frame) THEN applyUpdate(s, frame) ELSE s
Translates(s, frame) == isCANProtocol(s.vehicle) \/ isValidPacket(frame)
translate(s) ==
    IF isCANProtocol(s.vehicle) THEN build(s.vehicle, s.frames)
    ELSE [NoReadings EXCEPT !["accelerationG"] = s.load]

-----------------------------------------------------------------------------
\* What a signal's raw value is by arithmetic: the bytes it spans as one number, shifted.
ByteAt(data, k) == IF k + 1 \in DOMAIN data THEN data[k + 1] ELSE 0
RawByArithmetic(data, def) ==
    LET k == def.startBit \div 8
    IN  IF def.byteOrder = "Intel"
        THEN ((ByteAt(data, k) + 256 * ByteAt(data, k + 1) + 65536 * ByteAt(data, k + 2))
                 \div 2^(def.startBit % 8)) % 2^def.bitLength
        ELSE ((256 * ByteAt(data, k) + ByteAt(data, k + 1))
                 \div 2^(9 + (def.startBit % 8) - def.bitLength)) % 2^def.bitLength

\* The bit walks agree with it, in both byte orders, across the byte border and at the edges.
ASSUME BitOrderAssumption ==
    \A order \in {"Intel", "Motorola"}, at \in {0, 3, 7, 8, 13, 15}, len \in {1, 3, 8, 9},
       data \in {0, 1, 128, 165, 255} \X {0, 90, 255} \X {129} :
          (order = "Motorola" => len <= 9 + (at % 8)) =>
             LET def == [byteOrder |-> order, startBit |-> at, bitLength |-> len]
             IN  extractRawBits(data, def) = RawByArithmetic(data, def)
=============================================================================
