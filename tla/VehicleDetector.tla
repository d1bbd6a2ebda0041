--------------------------- MODULE VehicleDetector ---------------------------
(***************************************************************************)
(* VehicleDetector: from the frames a session observes, which vehicle is it? *)
(* The Bluetooth queue feeds it (Elm327Session) or the protocol handler does *)
(* (OBD2Protocol).  Every operation holds the detector's mutex, so it is a   *)
(* function of the detector's state and its argument.                        *)
(*                                                                          *)
(* A frame is its size, its first two bytes as the number they make in a CAN *)
(* frame, its third byte, and its characters: the bytes that are not zero.   *)
(* Times are left out.                                                       *)
(***************************************************************************)
EXTENDS Integers, SequencesExt

CONSTANTS
    VinLength,    \* characters of a VIN (17 in the code)
    HistoryMax    \* MAX_FRAME_HISTORY (50 in the code)

ASSUME DetectorAssumption ==
    /\ {VinLength, HistoryMax} \subseteq Nat \ {0}
    /\ VinLength >= 3

VinHead == 585          \* 49 02
FuelHead == 20801       \* 41 51
Electric == 8

\* The detector as it is made, and after a reset: the CAN ids seen and how often
\* (canIdCounts_), obd2ResponseCount_, vin_, isElectric_ and frameHistory_.
NewDetector ==
    [counts |-> <<>>, obd2 |-> 0, vin |-> <<>>, electric |-> "unknown", recent |-> <<>>]

-----------------------------------------------------------------------------
(* The vehicles.                                                            *)

\* 0x108, 0x118, 0x129 and 0x100.
canIdRegistry == [id \in {264, 280, 297, 256} |-> IF id = 256 THEN "Audi" ELSE "Tesla"]
ConfigOf == [Tesla |-> "tesla", Audi |-> "audi_mlb_evo"]

WmiOf == [Tesla |-> {"5YJ", "7SA"},
          Audi |-> {"WAU", "WUA", "WA1", "TRU"},
          Volkswagen |-> {"WVW", "WV1", "WV2", "WV0"},
          BMW |-> {"WBA", "WBS", "WBX"},
          MercedesBenz |-> {"WDB", "WDC"}]
Regions == {"1", "2", "3", "4", "5"} \cup
    {"A", "B", "C", "D", "E", "F", "G", "H", "J", "K", "L", "M", "N", "O", "P", "Q", "R",
     "S", "T", "U", "V", "W", "X", "Y", "Z"}
Alphanumeric == Regions \cup {"I", "0", "6", "7", "8", "9"}

\* The manufacturer by the first three characters of a VIN.
decodeWMI(wmi) ==
    LET makes == {make \in DOMAIN WmiOf : (wmi[1] \o wmi[2] \o wmi[3]) \in WmiOf[make]}
    IN IF makes # {} THEN CHOOSE make \in makes : TRUE
       ELSE IF ToSet(wmi) \subseteq Alphanumeric /\ wmi[1] \in Regions THEN "Generic"
       ELSE "Unknown"

makeToConfigId(make, isElectric) ==
    IF make = "Tesla" THEN "tesla"
    ELSE IF make \in {"Audi", "Volkswagen"} /\ isElectric THEN "audi_mlb_evo"
    ELSE "generic"

-----------------------------------------------------------------------------
(* The result.                                                              *)

\* The registered ids that were seen, by make.
gatherEvidence(d) ==
    LET ids == DOMAIN d.counts \cap DOMAIN canIdRegistry
    IN [make \in {canIdRegistry[id] : id \in ids} |-> {id \in ids : canIdRegistry[id] = make}]

FramesOf(d, ids) == FoldSet(LAMBDA id, sum : sum + d.counts[id], 0, ids)

\* 0 to 3: None, Low, Medium and High.
calculateConfidence(make, uniqueIdCount, totalFrameCount) ==
    LET graded(n, medium, high) == IF n >= high THEN 3 ELSE IF n >= medium THEN 2 ELSE 1
    IN IF make = "Tesla" THEN graded(uniqueIdCount, 2, 3)
       ELSE IF make = "Audi" THEN graded(totalFrameCount, 2, 5)
       ELSE IF totalFrameCount >= 3 THEN 2 ELSE 1

NoSuggestion == [configId |-> "", confidence |-> 0]
GenericSuggestion(d) ==
    IF d.obd2 = 0 THEN NoSuggestion
    ELSE [configId |-> "generic", confidence |-> calculateConfidence("Generic", 0, d.obd2)]
SuggestionOf(d, make) ==
    LET ids == gatherEvidence(d)[make]
    IN [configId |-> ConfigOf[make],
        confidence |-> calculateConfidence(make, Cardinality(ids), FramesOf(d, ids))]

\* Evidence of two makes is a conflict, and suggests nothing.
Conflicting(d) == Cardinality(DOMAIN gatherEvidence(d)) > 1
determineSuggestion(d) ==
    IF DOMAIN gatherEvidence(d) = {} THEN GenericSuggestion(d)
    ELSE IF Conflicting(d) THEN NoSuggestion
    ELSE SuggestionOf(d, CHOOSE make \in DOMAIN gatherEvidence(d) : TRUE)

\* A VIN goes before the evidence, and leaves the confidence at None.
HasWmi(d) == Len(d.vin) >= 3
getResult(d) ==
    [suggestion |->
        IF HasWmi(d)
          THEN [configId |-> makeToConfigId(decodeWMI(SubSeq(d.vin, 1, 3)), d.electric = "yes"),
                confidence |-> 0]
          ELSE determineSuggestion(d),
     frameCount |-> FramesOf(d, DOMAIN d.counts) + d.obd2]

-----------------------------------------------------------------------------
(* The operations.                                                          *)

addFrame(d, frame) ==
    [d EXCEPT !.recent = Append(IF Len(@) = HistoryMax THEN Tail(@) ELSE @, frame)]

\* The characters of an answer behind 49 02 and the number of the part.
IsVin(frame) == frame.size >= 8 /\ frame.head = VinHead
Part(frame) == SubSeq(frame.text, 4, Len(frame.text))
Extended(vin, part) ==
    LET text == vin \o part
    IN  IF Len(text) > VinLength THEN SubSeq(text, 1, VinLength) ELSE text

feedCANFrame(d, id) ==
    [d EXCEPT !.counts =
        [i \in DOMAIN @ \cup {id} |->
            (IF i \in DOMAIN @ THEN @[i] ELSE 0) + (IF i = id THEN 1 ELSE 0)]]

feedOBD2Frame(d, frame) ==
    [d EXCEPT
        !.obd2 = @ + 1,
        !.vin = IF IsVin(frame) THEN Extended(@, Part(frame)) ELSE @,
        !.electric = IF frame.size >= 3 /\ frame.head = FuelHead
                       THEN IF frame.third = Electric THEN "yes" ELSE "no"
                       ELSE @]

\* What an answer of ten bytes begins with counts as a CAN id.
observeFrame(d, frame) ==
    LET added == addFrame(d, frame)
    IN  IF frame.size = 10 THEN feedCANFrame(added, frame.head)
        ELSE IF frame.size \in 2..9 THEN feedOBD2Frame(added, frame)
        ELSE added

\* OBD2Protocol::processIncomingData: feedVINResponse takes whatever is not empty for a part
\* of a VIN, so that nothing gets as far as feedFuelTypeResponse.
processIncomingData(d, frame) ==
    [addFrame(d, frame) EXCEPT
        !.vin = Extended(@, IF IsVin(frame) THEN Part(frame) ELSE frame.text)]

-----------------------------------------------------------------------------
(* The detector against what should be said of the frames.                  *)

\* CAN frames, an answer to a PID, VINs in parts, fuel types and a byte alone; "." is any byte
\* that is neither zero nor a letter or digit.
CanFrame(id) == [size |-> 10, head |-> id, third |-> 0, text |-> <<".", ".">>]
Reply(size, head, third, text) == [size |-> size, head |-> head, third |-> third, text |-> text]
SampleFrames ==
    {CanFrame(id) : id \in {264, 280, 256, 700}} \cup
    {Reply(3, 3393, 0, <<"A", ".">>),
     Reply(8, VinHead, 1, <<"I", ".", ".", "W", "A", "U">>),
     Reply(9, VinHead, 1, <<"I", ".", ".", "5", "Y">>),
     Reply(10, VinHead, 1, <<"I", ".", ".", "7", "S", "A">>),
     Reply(7, VinHead, 1, <<"I", ".", ".", "W", "B">>),
     Reply(3, FuelHead, Electric, <<"A", "Q", ".">>),
     Reply(3, FuelHead, 1, <<"A", "Q", ".">>),
     Reply(1, 65, 0, <<"A">>)}

Samples(n) == UNION {[1..m -> SampleFrames] : m \in 0..n}
Observed(frames) == FoldLeft(observeFrame, NewDetector, frames)
Processed(frames) == FoldLeft(processIncomingData, NewDetector, frames)

\* The parts of a VIN in the frames, from the first on.
SaidVin(frames, PartOf(_)) == Extended(<<>>, FlattenSeq([i \in DOMAIN frames |-> PartOf(frames[i])]))
PartObserved(f) == IF IsVin(f) /\ f.size < 10 THEN Part(f) ELSE <<>>
PartProcessed(f) == IF IsVin(f) THEN Part(f) ELSE f.text
Latest(frames) ==
    IF Len(frames) <= HistoryMax THEN frames
    ELSE SubSeq(frames, Len(frames) - HistoryMax + 1, Len(frames))

\* What the result is about: each of the frames, and no other.  The ring has the latest of
\* them; those of two to ten bytes are all counted; a vehicle is suggested by its ids if no
\* other's were among them, and "generic" only if there were none; the VIN is what the answers
\* say; the fuel type what the last answer says.
ResultFits(frames) ==
    LET d == Observed(frames)
        ids == {f.head : f \in {g \in ToSet(frames) : g.size = 10}} \cap DOMAIN canIdRegistry
        fuel == SelectSeq(frames, LAMBDA f : f.head = FuelHead /\ f.size \in 3..9)
        suggested == getResult(d).suggestion.configId
    IN  /\ d.recent = Latest(frames)
        /\ d.vin = SaidVin(frames, PartObserved)
        /\ d.electric = IF fuel = <<>> THEN "unknown"
                        ELSE IF Last(fuel).third = Electric THEN "yes" ELSE "no"
        /\ getResult(d).frameCount = Cardinality({i \in DOMAIN frames : frames[i].size \in 2..10})
        /\ ~HasWmi(d) =>
             /\ suggested = "tesla" => ids # {} /\ 256 \notin ids
             /\ suggested = "audi_mlb_evo" => ids = {256}
             /\ suggested = "generic" => ids = {} /\ d.obd2 > 0
             /\ suggested = "" => Cardinality(ids) > 1 \/ (ids = {} /\ d.obd2 = 0)

ASSUME DetectorResult ==
    \A frames \in Samples(4) :
        /\ ResultFits(frames)
        /\ LET d == Processed(frames)
           IN  d.recent = Latest(frames) /\ d.vin = SaidVin(frames, PartProcessed)

\* The vehicle settles: a VIN is only completed, so its manufacturer never changes; without one
\* a suggested make goes only when another make's ids come, a conflict stays one, and the
\* confidence in the same suggestion never falls.
ASSUME DetectorSettles ==
    \A frames \in Samples(3), frame \in SampleFrames :
        LET d == Observed(frames)
            next == observeFrame(d, frame)
            old == determineSuggestion(d)
            new == determineSuggestion(next)
        IN  /\ IsPrefix(d.vin, next.vin)
            /\ ~HasWmi(next) =>
                 /\ old.configId \in {"tesla", "audi_mlb_evo"} =>
                       new.configId = old.configId \/ Conflicting(next)
                 /\ Conflicting(d) => Conflicting(next)
                 /\ new.configId = old.configId => new.confidence >= old.confidence

=============================================================================
