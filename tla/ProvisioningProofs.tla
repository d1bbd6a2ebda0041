------------------------- MODULE ProvisioningProofs -------------------------
(***************************************************************************)
(* Type correctness of Provisioning, that credentials are wiped only when  *)
(* asked, and that a run reports and the device stores only what was sent, *)
(* for every set of pairs, every hold time and every bound.                *)
(***************************************************************************)
EXTENDS Provisioning, SequenceTheorems, TLAPS

Texts == {"?", "failed", "stored", "cleared", "REBOOT"}

Printed == [text : Texts, of : Commands \union {None, Garbled}]

\* FactoryResetDebouncer counts exactly the polls in a row that found the
\* button down, and has not reached its threshold while it still polls.
HoldCounted ==
    /\ phase = "check" => held = 0 /\ streak = 0
    /\ phase = "debounce" => held = streak /\ held < HoldTicks

\* The inductive invariant.
IInv == TypeOK /\ HoldCounted

-----------------------------------------------------------------------------
(* The operators *)

\* A piece is a piece, whatever command it belongs to.
LEMMA PartIsPiece ==
    ASSUME NEW c \in Commands \union {Garbled}, NEW part \in {"head", "tail", "cr"}
    PROVE  Part(c, part) \in Piece
BY DEF Part, Piece

\* The frame the runner writes is three pieces.
LEMMA FrameIsPieces ==
    ASSUME NEW c \in Commands
    PROVE  Frame(c) \in Seq(Piece) /\ Len(Frame(c)) = 3
<1>1. /\ Part(c, "head") \in Piece
      /\ Part(c, "tail") \in Piece
      /\ Part(c, "cr") \in Piece
  BY PartIsPiece
<1>2. Whole(c) \in Seq(Piece) /\ Len(Whole(c)) = 2
  BY <1>1 DEF Whole
<1>3. <<Part(c, "cr")>> \in Seq(Piece) /\ Len(<<Part(c, "cr")>>) = 1
  BY <1>1
<1>4. \A s, t \in Seq(Piece) : s \o t \in Seq(Piece) /\ Len(s \o t) = Len(s) + Len(t)
  BY ConcatProperties
<1>5. Whole(c) \o <<Part(c, "cr")>> \in Seq(Piece)
      /\ Len(Whole(c) \o <<Part(c, "cr")>>) = 2 + 1
  <2> HIDE DEF Whole
  <2> QED BY <1>2, <1>3, <1>4
<1> QED BY <1>5 DEF Frame

\* What handleByte leaves in the buffer is a sequence of pieces.
LEMMA AppendedIsPieces ==
    ASSUME NEW b \in Seq(Piece), NEW piece \in Piece, NEW line \in Appended(b, piece)
    PROVE  line \in Seq(Piece)
<1>1. Append(b, piece) \in Seq(Piece)
  OBVIOUS
<1>2. Part(Garbled, "tail") \in Piece
  BY PartIsPiece
<1>3. line = Append(b, piece) \/ line \in Leftovers
  BY DEF Appended
<1>4. <<>> \in Seq(Piece) /\ <<Part(Garbled, "tail")>> \in Seq(Piece)
  BY <1>2
<1>5. \A l \in Leftovers : l \in Seq(Piece)
  BY <1>4, Zenon DEF Leftovers
<1> QED BY <1>1, <1>3, <1>5

\* What printing leaves for the host is a sequence of printed lines.
LEMMA PrintLinesType ==
    ASSUME NEW lines \in Seq(Printed), PrintLines(lines), console \in Seq(Printed)
    PROVE  console' \in Seq(Printed)
BY DEF PrintLines

\* A line reads as ATCLEARWIFI only if it is that command, whole.
LEMMA ReadsAsClear ==
    ASSUME "ATCLEARWIFI" \in ReadsAs(buffer)
    PROVE  buffer = Whole("ATCLEARWIFI")
<1>1. "ATCLEARWIFI" \notin {Garbled, Unknown}
  BY ProvisioningAssumption DEF Commands, Unknown
<1>2. \A c \in {c \in Commands : buffer = Whole(c)} : buffer = Whole(c)
  OBVIOUS
<1> QED BY <1>1, <1>2 DEF ReadsAs
-----------------------------------------------------------------------------
(* The invariant *)

LEMMA InitIInv == Init => IInv
<1> SUFFICES ASSUME Init PROVE IInv
  OBVIOUS
<1>1. nvs \in [count : BOOLEAN, ssid : Pairs \union {None, Garbled},
               pass : Pairs \union {None, Garbled}]
  <2>1. CASE nvs = NoCredentials
    BY <2>1 DEF NoCredentials
  <2>2. CASE \E p \in Pairs \ LongPairs : nvs = [count |-> TRUE, ssid |-> p, pass |-> p]
    BY <2>2
  <2> QED BY <2>1, <2>2 DEF Init
<1>2. radio \in [mode : {"off", "ap", "sta"}, ssid : Pairs \union {None, Garbled},
                 pass : Pairs \union {None, Garbled}]
  BY DEF Init, RadioOff, Radio
<1>3. held \in 0..HoldTicks /\ streak \in 0..HoldTicks
  BY ProvisioningAssumption DEF Init
<1>4. cuts \in 0..MaxCuts /\ shorts \in 0..MaxShort
  BY ProvisioningAssumption DEF Init
<1>5. /\ buffer \in Seq(Piece) /\ wire \in Seq(Piece)
      /\ console \in Seq([text : {"?", "failed", "stored", "cleared", "REBOOT"},
                           of : Commands \union {None, Garbled}])
  BY DEF Init
<1>6. phase \in Phases /\ button \in BOOLEAN /\ late \in BOOLEAN
  BY DEF Init, Phases
<1>7. storing \in Pairs \union {None, Garbled} /\ run \in Commands \union {None}
  BY DEF Init
<1>8. HoldCounted
  BY DEF Init, HoldCounted
<1> QED BY <1>1, <1>2, <1>3, <1>4, <1>5, <1>6, <1>7, <1>8 DEF IInv, TypeOK

\* One step per action; the environment only touches the button and the power.
LEMMA ResetKeeps ==
    ASSUME TypeOK, Reset
    PROVE  /\ phase' \in Phases /\ held' \in 0..HoldTicks /\ streak' \in 0..HoldTicks
           /\ radio' \in [mode : {"off", "ap", "sta"}, ssid : Pairs \union {None, Garbled},
                          pass : Pairs \union {None, Garbled}]
           /\ buffer' \in Seq(Piece) /\ wire' \in Seq(Piece)
           /\ storing' \in Pairs \union {None, Garbled}
           /\ HoldCounted'
           /\ UNCHANGED <<nvs, console, run, late, shorts>>
<1>1. wire' \in Seq(Piece)
  <2>1. PICK n \in 0..Len(wire) : wire' = SubSeq(wire, n + 1, Len(wire))
    BY DEF Reset
  <2>2. wire \in Seq(Piece) /\ Len(wire) \in Nat
    BY DEF TypeOK
  <2>3. n + 1 \in 1..(Len(wire) + 1) /\ Len(wire) \in (n + 1 - 1)..Len(wire)
    BY <2>2
  <2> QED BY <2>1, <2>2, <2>3, SubSeqProperties
<1>2. phase' = "check" /\ held' = 0 /\ streak' = 0
  BY DEF Reset
<1>3. held' \in 0..HoldTicks /\ streak' \in 0..HoldTicks
  BY <1>2, ProvisioningAssumption
<1>4. radio' \in [mode : {"off", "ap", "sta"}, ssid : Pairs \union {None, Garbled},
                  pass : Pairs \union {None, Garbled}]
  BY DEF Reset, RadioOff, Radio
<1>5. HoldCounted'
  BY <1>2 DEF HoldCounted
<1>6. buffer' \in Seq(Piece) /\ storing' \in Pairs \union {None, Garbled}
  BY DEF Reset
<1> QED BY <1>1, <1>2, <1>3, <1>4, <1>5, <1>6 DEF Reset, hostVars, Phases
\* StoreFails prints a line and forgets the pair.
LEMMA StoreFailsKeeps ==
    ASSUME TypeOK, StoreFails
    PROVE  /\ console' \in Seq(Printed) /\ phase' = "loop" /\ storing' = None
           /\ UNCHANGED nvs
<1>1. <<Line("failed", None)>> \in Seq(Printed)
  BY DEF Line, Printed, Texts
<1>2. console \in Seq(Printed)
  BY DEF TypeOK, Printed, Texts
<1> QED BY <1>1, <1>2, PrintLinesType DEF StoreFails

\* A dispatched line changes NVS, the pair being stored and the phase only
\* within their types, whatever the line reads as.
LEMMA ExecuteKeeps ==
    ASSUME TypeOK, NEW cmd \in Commands \union {Garbled, Unknown}, Execute(cmd)
    PROVE  /\ nvs' \in [count : BOOLEAN, ssid : Pairs \union {None, Garbled},
                        pass : Pairs \union {None, Garbled}]
           /\ storing' \in Pairs \union {None, Garbled}
           /\ console' \in Seq(Printed)
           /\ phase' \in {phase, "restart", "ssid", "loop"}
<1>1. /\ nvs \in [count : BOOLEAN, ssid : Pairs \union {None, Garbled},
                  pass : Pairs \union {None, Garbled}]
      /\ storing \in Pairs \union {None, Garbled}
      /\ console \in Seq(Printed)
  BY DEF TypeOK, Printed, Texts
<1>2. CASE cmd = Unknown /\ Refuse
  <2>1. <<Line("?", None)>> \in Seq(Printed)
    BY DEF Line, Printed, Texts
  <2> QED BY <1>1, <1>2, <2>1, PrintLinesType DEF Refuse
<1>3. CASE cmd = "ATREBOOT" /\ Reboots
  <2>1. <<Line("REBOOT", "ATREBOOT")>> \in Seq(Printed)
    BY DEF Line, Printed, Texts, Commands
  <2> QED BY <1>1, <1>3, <2>1, PrintLinesType DEF Reboots
<1>4. CASE cmd = "ATCLEARWIFI" /\ ClearWifi
  <2>1. <<Line("cleared", "ATCLEARWIFI"), Line("REBOOT", "ATCLEARWIFI")>> \in Seq(Printed)
    BY DEF Line, Printed, Texts, Commands
  <2> QED BY <1>1, <1>4, <2>1, PrintLinesType DEF ClearWifi, NoCredentials
<1>5. CASE cmd \in Pairs \union {Garbled} /\ BeginStore(cmd)
  BY <1>1, <1>5 DEF BeginStore
<1>6. CASE cmd \in Pairs \union {Garbled} /\ StoreFails
  BY <1>1, <1>6, StoreFailsKeeps
<1> QED BY <1>2, <1>3, <1>4, <1>5, <1>6 DEF Execute

\* The device's own steps.
LEMMA DeviceIInv == IInv /\ Device => IInv'
<1> SUFFICES ASSUME IInv, Device PROVE IInv'
  OBVIOUS
<1> USE DEF hostVars
<1>1. CASE CheckButton
  BY <1>1, ProvisioningAssumption DEF CheckButton, IInv, TypeOK, HoldCounted, Phases
<1>2. CASE Debounce
  <2>1. CASE Released
    BY <1>2, <2>1, ProvisioningAssumption
       DEF Debounce, Released, IInv, TypeOK, HoldCounted, Phases
  <2>2. CASE Holding
    BY <1>2, <2>2, ProvisioningAssumption
       DEF Debounce, Holding, IInv, TypeOK, HoldCounted, Phases
  <2>3. CASE Confirmed
    <3>1. nvs' \in [count : BOOLEAN, ssid : Pairs \union {None, Garbled},
                    pass : Pairs \union {None, Garbled}]
      BY <2>3 DEF Confirmed, NoCredentials
    <3>2. held' \in 0..HoldTicks /\ streak' \in 0..HoldTicks
      BY <1>2, <2>3, ProvisioningAssumption DEF Debounce, Confirmed, IInv, TypeOK, HoldCounted
    <3>3. phase' = "init"
      BY <2>3 DEF Confirmed
    <3>4. HoldCounted'
      BY <3>3 DEF HoldCounted
    <3> QED BY <1>2, <3>1, <3>2, <3>3, <3>4 DEF Debounce, IInv, TypeOK, Phases
  <2> QED BY <1>2, <2>1, <2>2, <2>3 DEF Debounce
<1>3. CASE InitWiFi
  BY <1>3 DEF InitWiFi, FirstTick, RadioOff, Radio, HasStored, Loadable,
              IInv, TypeOK, HoldCounted, Phases
<1>4. CASE ReadPiece
  BY <1>4, AppendedIsPieces DEF ReadPiece, IInv, TypeOK, HoldCounted, Phases
<1>5. CASE ReadTerminator
  <2>1. wire' \in Seq(Piece)
    BY <1>5 DEF ReadTerminator, IInv, TypeOK
  <2>2. CASE EmptyLine
    BY <1>5, <2>1, <2>2 DEF ReadTerminator, EmptyLine, IInv, TypeOK, HoldCounted, Phases
  <2>3. CASE Dispatch
    <3>1. PICK cmd \in ReadsAs(buffer) : Execute(cmd)
      BY <2>3 DEF Dispatch
    <3>2. cmd \in Commands \union {Garbled, Unknown}
      BY <3>1 DEF ReadsAs
    <3>3. TypeOK /\ phase = "loop"
      BY <1>5 DEF IInv, ReadTerminator
    <3>4. /\ nvs' \in [count : BOOLEAN, ssid : Pairs \union {None, Garbled},
                       pass : Pairs \union {None, Garbled}]
          /\ storing' \in Pairs \union {None, Garbled}
          /\ console' \in Seq([text : {"?", "failed", "stored", "cleared", "REBOOT"},
                               of : Commands \union {None, Garbled}])
          /\ phase' \in {"loop", "restart", "ssid"}
      BY <3>1, <3>2, <3>3, ExecuteKeeps DEF Printed, Texts
    <3>5. buffer' \in Seq(Piece)
      BY <2>3 DEF Dispatch
    <3>6. HoldCounted'
      BY <3>4 DEF HoldCounted
    <3> QED BY <1>5, <2>1, <3>4, <3>5, <3>6 DEF ReadTerminator, IInv, TypeOK, Phases
  <2> QED BY <1>5, <2>2, <2>3 DEF ReadTerminator
<1>6. CASE StoreSsid
  <2>1. CASE phase' = "pass" /\ nvs' = [nvs EXCEPT !.ssid = storing]
             /\ UNCHANGED <<storing, console>>
    BY <1>6, <2>1 DEF StoreSsid, IInv, TypeOK, HoldCounted, Phases
  <2>2. CASE StoreFails
    BY <1>6, <2>2, StoreFailsKeeps
       DEF StoreSsid, Printed, Texts, IInv, TypeOK, HoldCounted, Phases
  <2> QED BY <1>6, <2>1, <2>2 DEF StoreSsid
<1>7. CASE StorePass
  <2>1. CASE phase' = "stored" /\ nvs' = [nvs EXCEPT !.pass = storing]
             /\ UNCHANGED <<storing, console>>
    BY <1>7, <2>1 DEF StorePass, IInv, TypeOK, HoldCounted, Phases
  <2>2. CASE StoreFails
    BY <1>7, <2>2, StoreFailsKeeps
       DEF StorePass, Printed, Texts, IInv, TypeOK, HoldCounted, Phases
  <2> QED BY <1>7, <2>1, <2>2 DEF StorePass
<1>8. CASE Acknowledge
  <2>1. StoredPair \in Pairs \union {None, Garbled}
    BY DEF StoredPair, IInv, TypeOK
  <2>2. <<Line("stored", StoredPair), Line("REBOOT", StoredPair)>> \in Seq(Printed)
    BY <2>1 DEF Line, Printed, Texts, Commands
  <2>3. console \in Seq(Printed)
    BY DEF IInv, TypeOK, Printed, Texts
  <2>4. console' \in Seq([text : {"?", "failed", "stored", "cleared", "REBOOT"},
                          of : Commands \union {None, Garbled}])
    BY <1>8, <2>2, <2>3, PrintLinesType DEF Acknowledge, Printed, Texts
  <2> QED BY <1>8, <2>4 DEF Acknowledge, IInv, TypeOK, HoldCounted, Phases
<1>9. CASE Restart
  BY <1>9, ResetKeeps DEF Restart, IInv, TypeOK
<1> QED BY <1>1, <1>2, <1>3, <1>4, <1>5, <1>6, <1>7, <1>8, <1>9 DEF Device

\* The host's steps leave the device alone.
LEMMA HostIInv == IInv /\ Host => IInv'
<1> SUFFICES ASSUME IInv, Host PROVE IInv'
  OBVIOUS
<1> USE DEF deviceVars
<1>1. ASSUME NEW c \in Commands, WriteCommand(c) PROVE IInv'
  BY <1>1, FrameIsPieces DEF WriteCommand, UnderWay, IInv, TypeOK, HoldCounted
<1>2. ASSUME NEW c \in Commands, ShortWrite(c) PROVE IInv'
  <2>1. PICK n \in 1..2 : wire' = wire \o SubSeq(Frame(c), 1, n)
    BY <1>2 DEF ShortWrite
  <2>2. SubSeq(Frame(c), 1, n) \in Seq(Piece)
    <3> DEFINE s == Frame(c)
    <3>1. s \in Seq(Piece) /\ Len(s) = 3
      BY FrameIsPieces
    <3> HIDE DEF s
    <3>2. \A i \in 1..n : i \in 1..Len(s)
      BY <3>1
    <3>3. \A i \in 1..n : s[i] \in Piece
      BY <3>1, <3>2, ElementOfSeq
    <3>4. SubSeq(s, 1, n) \in Seq(Piece)
      BY <3>3, SubSeqProperties
    <3> QED BY <3>4 DEF s
  <2>3. wire' \in Seq(Piece)
    BY <2>1, <2>2 DEF IInv, TypeOK
  <2>4. shorts' \in 0..MaxShort
    BY <1>2, ProvisioningAssumption DEF ShortWrite, IInv, TypeOK
  <2> QED BY <1>2, <2>3, <2>4 DEF ShortWrite, IInv, TypeOK, HoldCounted
<1>3. CASE ReadLine
  <2>1. run' \in Commands \union {None}
    BY <1>3 DEF ReadLine, IInv, TypeOK
  <2>2. console' \in Seq([text : {"?", "failed", "stored", "cleared", "REBOOT"},
                          of : Commands \union {None, Garbled}])
    <3>1. console' = <<>> \/ (console # <<>> /\ console' = Tail(console))
      BY <1>3 DEF ReadLine
    <3>2. \A S : \A s \in Seq(S) : s # <<>> => Tail(s) \in Seq(S)
      OBVIOUS
    <3> DEFINE L == [text : {"?", "failed", "stored", "cleared", "REBOOT"},
                     of : Commands \union {None, Garbled}]
    <3>3. console \in Seq(L) /\ <<>> \in Seq(L)
      BY DEF IInv, TypeOK
    <3> HIDE DEF L
    <3>4. console' \in Seq(L)
      BY <3>1, <3>2, <3>3
    <3> QED BY <3>4 DEF L
  <2> QED BY <1>3, <2>1, <2>2 DEF ReadLine, IInv, TypeOK, HoldCounted
<1>4. CASE GiveUp
  BY <1>4 DEF GiveUp, IInv, TypeOK, HoldCounted
<1> QED BY <1>1, <1>2, <1>3, <1>4 DEF Host

\* The environment touches the button and the power.
LEMMA StepIInv == IInv /\ [Next]_vars => IInv'
<1> SUFFICES ASSUME IInv, [Next]_vars PROVE IInv'
  OBVIOUS
<1>1. CASE Device
  BY <1>1, DeviceIInv
<1>2. CASE Host
  BY <1>2, HostIInv
<1>3. CASE PressOrRelease
  BY <1>3 DEF PressOrRelease, deviceVars, hostVars, IInv, TypeOK, HoldCounted
<1>4. CASE PowerCut
  <2>1. cuts' \in 0..MaxCuts
    BY <1>4, ProvisioningAssumption DEF PowerCut, IInv, TypeOK
  <2>2. button' = button
    BY <1>4 DEF PowerCut
  <2> QED BY <1>4, <2>1, <2>2, ResetKeeps DEF PowerCut, IInv, TypeOK
<1>5. CASE UNCHANGED vars
  BY <1>5 DEF vars, deviceVars, hostVars, IInv, TypeOK, HoldCounted
<1> QED BY <1>1, <1>2, <1>3, <1>4, <1>5 DEF Next

-----------------------------------------------------------------------------
(* Lines, as long as what the host writes is whole *)

\* What may come after a piece of a line.
Follows(piece, next) ==
    \/ piece.part = "head" /\ next = Part(piece.cmd, "tail")
    \/ piece.part = "tail" /\ next.part = "cr"
    \/ piece.part = "cr" /\ next.part = "head"

\* s is the rest of a stream of whole lines, of commands in C.
Framed(s, C) ==
    /\ \A i \in 1..Len(s) : s[i].cmd \in C
    /\ \A i \in 1..Len(s) : i < Len(s) => Follows(s[i], s[i + 1])
    /\ s # <<>> => s[Len(s)].part = "cr"

\* What the framer has of a line of such a stream, and what it reads next: the
\* head, or the whole of a command, or what is left of a line that lost its head
\* to a reset or to the budget.
HasHead(C) == \E c \in C : buffer = <<Part(c, "head")>> /\ Head(wire) = Part(c, "tail")
HasWhole(C) == \E c \in C : buffer = Whole(c) /\ Head(wire).part = "cr"
HasTails ==
    /\ buffer # <<>>
    /\ \A i \in 1..Len(buffer) : buffer[i].part = "tail"
    /\ Head(wire).part \in {"tail", "cr"}

LineSoFar(C) == buffer = <<>> \/ (wire # <<>> /\ (HasHead(C) \/ HasWhole(C) \/ HasTails))

Orderly(C) == Framed(wire, C) /\ LineSoFar(C)

\* Whole writes keep the lines apart; a run that began with nothing under way has
\* the line to itself.
LineInv ==
    /\ shorts = 0 => Orderly(Commands)
    /\ run # None /\ ~late => Orderly({run})

StorePhases == {"ssid", "pass", "stored"}

\* The handler stores one pair, keys in order; which pair it is.
StoreInv ==
    /\ phase \in StorePhases => storing # None
    /\ phase \in {"pass", "stored"} => nvs.ssid = storing
    /\ phase = "stored" => nvs.pass = storing
    /\ shorts = 0 => Garbled \notin {storing, nvs.ssid, nvs.pass}
    /\ run # None /\ ~late /\ phase \in StorePhases => storing = run

\* The lines a run of c would match tell of c.
TellOf(c, lines) ==
    \A i \in 1..Len(lines) : lines[i].text = Expected(c) => lines[i].of = c

\* What the host may match was printed for its run.
ConsoleInv ==
    /\ run = None => console = <<>>
    /\ run # None /\ ~late => TellOf(run, console)

HonestInv == LineInv /\ StoreInv /\ ConsoleInv

\* The rest of a stream of whole lines is one, from any piece on; and it goes on
\* until the end of a line.
LEMMA FramedTail ==
    ASSUME NEW C, NEW s \in Seq(Piece), s # <<>>, Framed(s, C)
    PROVE  /\ Framed(Tail(s), C)
           /\ Head(s).cmd \in C
           /\ Head(s).part # "cr" => Tail(s) # <<>>
           /\ Tail(s) # <<>> => Follows(Head(s), Head(Tail(s)))
<1> DEFINE t == Tail(s)
<1>1. /\ t \in Seq(Piece) /\ Len(t) = Len(s) - 1
      /\ \A i \in 1..Len(t) : t[i] = s[i + 1]
      /\ Len(s) \in Nat \ {0}
  BY HeadTailProperties, EmptySeq
<1> HIDE DEF t
<1>2. Head(s) = s[1] /\ (t # <<>> => Head(t) = t[1] /\ Len(t) \in Nat \ {0})
      /\ (Len(t) > 0 => t # <<>>)
  <2>1. \A u \in Seq(Piece) : Head(u) = u[1]
    OBVIOUS
  <2>2. \A u \in Seq(Piece) : u # <<>> => Len(u) \in Nat \ {0}
    BY EmptySeq
  <2>3. \A u \in Seq(Piece) : Len(u) > 0 => u # <<>>
    OBVIOUS
  <2> QED BY <1>1, <2>1, <2>2, <2>3
<1>3. Framed(t, C)
  <2>1. \A i \in 1..Len(t) : t[i].cmd \in C
    BY <1>1 DEF Framed
  <2>2. \A i \in 1..Len(t) : i < Len(t) => Follows(t[i], t[i + 1])
    <3>1. TAKE i \in 1..Len(t)
    <3>2. HAVE i < Len(t)
    <3>3. i + 1 \in 1..Len(t) /\ i + 1 \in 1..Len(s) /\ i + 1 < Len(s)
      BY <1>1, <3>2
    <3>4. Follows(s[i + 1], s[(i + 1) + 1])
      BY <3>3 DEF Framed
    <3> QED BY <1>1, <3>3, <3>4
  <2>3. t # <<>> => t[Len(t)].part = "cr"
    <3>1. HAVE t # <<>>
    <3>2. Len(t) \in 1..Len(t) /\ Len(t) + 1 = Len(s)
      BY <1>1, <1>2, <3>1
    <3>3. s[Len(s)].part = "cr"
      BY DEF Framed
    <3> QED BY <1>1, <3>2, <3>3
  <2> QED BY <2>1, <2>2, <2>3 DEF Framed
<1>4. Head(s).cmd \in C
  BY <1>1, <1>2 DEF Framed
<1>5. Head(s).part # "cr" => t # <<>>
  <2>1. Len(s) = 1 => s[1].part = "cr"
    BY DEF Framed
  <2> QED BY <1>1, <1>2, <2>1
<1>6. t # <<>> => Follows(Head(s), Head(t))
  <2>1. HAVE t # <<>>
  <2>2. 1 \in 1..Len(t) /\ 1 \in 1..Len(s) /\ 1 < Len(s)
    BY <1>1, <1>2, <2>1
  <2>3. Follows(s[1], s[1 + 1])
    BY <2>2 DEF Framed
  <2> QED BY <1>1, <1>2, <2>1, <2>2, <2>3
<1> QED BY <1>3, <1>4, <1>5, <1>6 DEF t

LEMMA FramedSuffix ==
    ASSUME NEW C, NEW s \in Seq(Piece), Framed(s, C), NEW n \in 0..Len(s)
    PROVE  Framed(SubSeq(s, n + 1, Len(s)), C)
<1> DEFINE t == SubSeq(s, n + 1, Len(s))
<1>1. Len(s) \in Nat /\ \A i \in 1..Len(s) : s[i] \in Piece
  OBVIOUS
<1>2. /\ t \in Seq(Piece) /\ Len(t) = Len(s) - n
      /\ \A i \in 1..Len(t) : t[i] = s[n + i]
  <2>1. n + 1 \in Int /\ Len(s) \in Int /\ \A i \in (n + 1)..Len(s) : s[i] \in Piece
    BY <1>1
  <2>2. /\ t \in Seq(Piece)
        /\ Len(t) = IF n + 1 <= Len(s) THEN Len(s) - (n + 1) + 1 ELSE 0
        /\ \A i \in 1..(Len(s) - (n + 1) + 1) : t[i] = s[(n + 1) + i - 1]
    BY <2>1, SubSeqProperties
  <2> HIDE DEF t
  <2>3. Len(t) = Len(s) - n
    BY <1>1, <2>2
  <2>4. \A i \in 1..Len(t) : (n + 1) + i - 1 = n + i
    BY <1>1, <2>3
  <2> QED BY <1>1, <2>2, <2>3, <2>4
<1> HIDE DEF t
<1>3. \A i \in 1..Len(t) : n + i \in 1..Len(s)
  BY <1>1, <1>2
<1>4. \A i \in 1..Len(t) : t[i].cmd \in C
  BY <1>2, <1>3 DEF Framed
<1>5. \A i \in 1..Len(t) : i < Len(t) => Follows(t[i], t[i + 1])
  <2>1. TAKE i \in 1..Len(t)
  <2>2. HAVE i < Len(t)
  <2>3. i + 1 \in 1..Len(t) /\ n + i < Len(s) /\ n + (i + 1) = (n + i) + 1
    BY <1>1, <1>2, <2>2
  <2>4. Follows(s[n + i], s[(n + i) + 1])
    BY <1>3, <2>3 DEF Framed
  <2> QED BY <1>2, <2>3, <2>4
<1>6. t # <<>> => t[Len(t)].part = "cr"
  <2>1. HAVE t # <<>>
  <2>2. Len(t) \in 1..Len(t) /\ n + Len(t) = Len(s) /\ s # <<>>
    BY <1>1, <1>2, <2>1, EmptySeq
  <2> QED BY <1>2, <2>2 DEF Framed
<1> QED BY <1>4, <1>5, <1>6 DEF Framed, t

\* The parts of a frame, one by one.
LEMMA FrameParts ==
    ASSUME NEW c \in Commands
    PROVE  /\ Frame(c)[1] = Part(c, "head")
           /\ Frame(c)[2] = Part(c, "tail")
           /\ Frame(c)[3] = Part(c, "cr")
BY PartIsPiece DEF Frame, Whole

\* A whole frame written behind whole lines.
LEMMA FramedAppend ==
    ASSUME NEW C, NEW s \in Seq(Piece), Framed(s, C), NEW c \in C, c \in Commands
    PROVE  Framed(s \o Frame(c), C)
<1> DEFINE f == Frame(c)
<1> DEFINE t == s \o f
<1>1. f \in Seq(Piece) /\ Len(f) = 3
  BY FrameIsPieces
<1>2. f[1] = Part(c, "head") /\ f[2] = Part(c, "tail") /\ f[3] = Part(c, "cr")
  BY FrameParts
<1> HIDE DEF f
<1>3. /\ Len(s) \in Nat /\ t \in Seq(Piece) /\ Len(t) = Len(s) + 3
      /\ \A i \in 1..(Len(s) + 3) : t[i] = IF i <= Len(s) THEN s[i] ELSE f[i - Len(s)]
  <2>1. /\ t \in Seq(Piece) /\ Len(t) = Len(s) + Len(f)
        /\ \A i \in 1..(Len(s) + Len(f)) : t[i] = IF i <= Len(s) THEN s[i] ELSE f[i - Len(s)]
    BY <1>1, ConcatProperties
  <2>2. Len(s) \in Nat
    OBVIOUS
  <2> HIDE DEF t
  <2> QED BY <1>1, <2>1, <2>2
<1> HIDE DEF t
<1>4. \A i \in 1..Len(s) : t[i] = s[i]
  BY <1>3
<1>5. t[Len(s) + 1] = f[1] /\ t[Len(s) + 2] = f[2] /\ t[Len(s) + 3] = f[3]
  BY <1>3
<1>6. \A i \in 1..Len(t) : i \in 1..Len(s) \/ i \in {Len(s) + 1, Len(s) + 2, Len(s) + 3}
  BY <1>3
<1>7. \A i \in 1..Len(t) : t[i].cmd \in C
  BY <1>2, <1>4, <1>5, <1>6 DEF Framed, Part
<1>8. \A i \in 1..Len(t) : i < Len(t) => Follows(t[i], t[i + 1])
  <2>1. TAKE i \in 1..Len(t)
  <2>2. HAVE i < Len(t)
  <2>3. CASE i \in 1..Len(s) /\ i < Len(s)
    <3>1. i + 1 \in 1..Len(s) /\ Follows(s[i], s[i + 1])
      BY <1>3, <2>3 DEF Framed
    <3> QED BY <1>4, <2>3, <3>1
  <2>4. CASE i \in 1..Len(s) /\ i = Len(s)
    <3>1. s[Len(s)].part = "cr" /\ t[i] = s[i]
      BY <1>3, <1>4, <2>4, EmptySeq DEF Framed
    <3>2. t[i + 1] = Part(c, "head")
      BY <1>2, <1>5, <2>4
    <3> QED BY <2>4, <3>1, <3>2 DEF Follows, Part
  <2>5. CASE i = Len(s) + 1
    <3>1. t[i] = Part(c, "head") /\ t[i + 1] = Part(c, "tail")
      BY <1>2, <1>3, <1>5, <2>5
    <3> QED BY <3>1 DEF Follows, Part
  <2>6. CASE i = Len(s) + 2
    <3>1. t[i] = Part(c, "tail") /\ t[i + 1] = Part(c, "cr")
      BY <1>2, <1>3, <1>5, <2>6
    <3> QED BY <3>1 DEF Follows, Part
  <2> QED BY <1>3, <1>6, <2>2, <2>3, <2>4, <2>5, <2>6
<1>9. t[Len(t)].part = "cr"
  BY <1>2, <1>3, <1>5 DEF Part
<1> QED BY <1>7, <1>8, <1>9 DEF Framed, t, f

\* A second piece makes a pair.
LEMMA AppendToOne ==
    ASSUME NEW x \in Piece, NEW y \in Piece
    PROVE  Append(<<x>>, y) = <<x, y>>
<1> DEFINE s == Append(<<x>>, y)
<1> DEFINE t == <<x, y>>
<1>1. <<x>> \in Seq(Piece) /\ Len(<<x>>) = 1 /\ <<x>>[1] = x
  OBVIOUS
<1>2. s \in Seq(Piece) /\ Len(s) = 2 /\ s[1] = x /\ s[2] = y
  BY <1>1, AppendProperties
<1>3. t \in Seq(Piece) /\ Len(t) = 2 /\ t[1] = x /\ t[2] = y
  OBVIOUS
<1> HIDE DEF s, t
<1>4. \A i \in 1..Len(s) : s[i] = t[i]
  BY <1>2, <1>3
<1>5. s = t
  BY <1>2, <1>3, <1>4, SeqEqual
<1> QED BY <1>5 DEF s, t

\* handleByte keeps the lines apart, also when it drops one over the budget.
LEMMA ReadKeepsOrder ==
    ASSUME TypeOK, NEW C, Orderly(C), ReadPiece
    PROVE  Orderly(C)'
<1> DEFINE h == Head(wire)
<1>1. wire \in Seq(Piece) /\ wire # <<>> /\ buffer \in Seq(Piece)
      /\ wire' = Tail(wire) /\ h.part # "cr"
  BY DEF ReadPiece, TypeOK
<1>2. /\ Framed(wire', C) /\ h.cmd \in C /\ wire' # <<>>
      /\ Follows(h, Head(wire'))
  BY <1>1, FramedTail DEF Orderly
<1>3. h \in Piece /\ h.part \in {"head", "tail"}
  <2>1. h \in Piece
    BY <1>1, HeadTailProperties
  <2> QED BY <1>1, <2>1 DEF Piece
<1>4. buffer' \in Leftovers \/ buffer' = Append(buffer, h)
  BY DEF ReadPiece, Appended
<1> HIDE DEF h
<1>5. h = Part(h.cmd, h.part)
  BY <1>3 DEF Piece, Part
<1>6. Head(wire').part \in {"tail", "cr"}
  BY <1>2, <1>3 DEF Follows, Part
<1>7. CASE buffer' \in Leftovers
  <2>1. buffer' = <<>> \/ buffer' = <<Part(Garbled, "tail")>>
    BY <1>7, Zenon DEF Leftovers
  <2>2. CASE buffer' = <<Part(Garbled, "tail")>>
    <3>1. Len(buffer') = 1 /\ buffer'[1] = Part(Garbled, "tail") /\ buffer' # <<>>
      BY <2>2
    <3>2. HasTails'
      BY <1>6, <3>1 DEF HasTails, Part
    <3> QED BY <1>2, <3>2 DEF Orderly, LineSoFar
  <2> QED BY <1>2, <2>1, <2>2 DEF Orderly, LineSoFar
<1>8. CASE buffer' = Append(buffer, h) /\ h.part = "head"
  <2>1. buffer = <<>>
    BY <1>8 DEF Orderly, LineSoFar, HasHead, HasWhole, HasTails, Part, h
  <2>2. buffer' = <<Part(h.cmd, "head")>>
    BY <1>5, <1>8, <2>1
  <2>3. Head(wire') = Part(h.cmd, "tail")
    BY <1>2, <1>8 DEF Follows
  <2>4. HasHead(C)'
    BY <1>2, <2>2, <2>3 DEF HasHead
  <2> QED BY <1>2, <2>4 DEF Orderly, LineSoFar
<1>9. CASE buffer' = Append(buffer, h) /\ h.part = "tail"
  <2>1. Head(wire').part = "cr"
    BY <1>2, <1>9 DEF Follows, Part
  <2>2. CASE buffer = <<>> \/ HasTails
    <3>1. \A i \in 1..Len(buffer) : buffer[i].part = "tail"
      BY <2>2 DEF HasTails
    <3>2. Len(buffer) \in Nat /\ Len(buffer') = Len(buffer) + 1 /\ buffer' # <<>>
          /\ \A i \in 1..Len(buffer') : buffer'[i] = IF i <= Len(buffer) THEN buffer[i] ELSE h
      BY <1>1, <1>3, <1>9
    <3>3. \A i \in 1..Len(buffer') : buffer'[i].part = "tail"
      BY <1>9, <3>1, <3>2
    <3>4. HasTails'
      BY <1>6, <3>2, <3>3 DEF HasTails
    <3> QED BY <1>2, <3>4 DEF Orderly, LineSoFar
  <2>3. CASE HasHead(C)
    <3>1. PICK c \in C : buffer = <<Part(c, "head")>> /\ h = Part(c, "tail")
      BY <2>3 DEF HasHead, h
    <3>2. buffer' = Whole(c)
      <4>1. \A x, y \in Piece : Append(<<x>>, y) = <<x, y>>
        BY AppendToOne
      <4>2. Part(c, "head") \in Piece
        <5>1. <<Part(c, "head")>> \in Seq(Piece)
          BY <1>1, <3>1
        <5>2. Len(<<Part(c, "head")>>) = 1 /\ <<Part(c, "head")>>[1] = Part(c, "head")
          OBVIOUS
        <5> QED BY <5>1, <5>2, ElementOfSeq
      <4> QED BY <1>3, <1>9, <3>1, <4>1, <4>2 DEF Whole
    <3>3. HasWhole(C)'
      BY <2>1, <3>2 DEF HasWhole
    <3> QED BY <1>2, <3>3 DEF Orderly, LineSoFar
  <2>4. ~HasWhole(C)
    BY <1>9 DEF HasWhole, h
  <2> QED BY <2>2, <2>3, <2>4 DEF Orderly, LineSoFar
<1> QED BY <1>3, <1>4, <1>7, <1>8, <1>9

\* Of such a stream a line is dispatched as a command of it, or refused.
LEMMA ReadsOrderly ==
    ASSUME NEW C, C \subseteq Commands, Orderly(C),
           buffer # <<>>, Head(wire).part = "cr"
    PROVE  ReadsAs(buffer) \subseteq C \union {Unknown}
<1>1. ~HasHead(C)
  BY DEF HasHead, Part
<1>2. CASE HasWhole(C)
  <2>1. PICK c \in C : buffer = Whole(c)
    BY <1>2 DEF HasWhole
  <2>2. \A d : Whole(d) = Whole(c) => d = c
    <3>1. TAKE d
    <3>2. HAVE Whole(d) = Whole(c)
    <3>3. Whole(d)[1] = Part(d, "head") /\ Whole(c)[1] = Part(c, "head")
      BY DEF Whole
    <3>4. Part(d, "head") = Part(c, "head")
      BY <3>2, <3>3
    <3> QED BY <3>4 DEF Part
  <2>3. {d \in Commands : buffer = Whole(d)} = {c}
    BY <2>1, <2>2
  <2> QED BY <2>1, <2>3 DEF ReadsAs
<1>3. CASE HasTails
  <2>1. ~ \E c \in Commands : buffer = Whole(c)
    <3>1. \A c : Whole(c)[1].part = "head" /\ Len(Whole(c)) = 2
      BY DEF Whole, Part
    <3> QED BY <1>3, <3>1 DEF HasTails
  <2>2. buffer[1].part # "head"
    BY <1>3 DEF HasTails
  <2> QED BY <2>1, <2>2 DEF ReadsAs
<1> QED BY <1>1, <1>2, <1>3 DEF Orderly, LineSoFar

\* A terminator, read or not, ends the line.
LEMMA TerminatorKeepsOrder ==
    ASSUME TypeOK, NEW C, Orderly(C), ReadTerminator
    PROVE  Orderly(C)'
<1>1. wire \in Seq(Piece) /\ wire # <<>> /\ wire' = Tail(wire) /\ buffer' = <<>>
  BY DEF ReadTerminator, TypeOK, EmptyLine, Dispatch
<1> QED BY <1>1, FramedTail DEF Orderly, LineSoFar

\* A reset forgets the line and loses the start of what was on its way.
LEMMA ResetKeepsOrder ==
    ASSUME TypeOK, NEW C, Orderly(C), Reset
    PROVE  Orderly(C)'
<1>1. wire \in Seq(Piece) /\ buffer' = <<>>
  BY DEF TypeOK, Reset
<1>2. PICK n \in 0..Len(wire) : wire' = SubSeq(wire, n + 1, Len(wire))
  BY DEF Reset
<1> QED BY <1>1, <1>2, FramedSuffix DEF Orderly, LineSoFar

\* A whole write goes behind what is on its way.
LEMMA WriteKeepsOrder ==
    ASSUME TypeOK, NEW C, Orderly(C), NEW c \in C, c \in Commands, WriteCommand(c)
    PROVE  Orderly(C)'
<1>1. wire \in Seq(Piece) /\ wire' = wire \o Frame(c) /\ buffer' = buffer
  BY DEF TypeOK, WriteCommand, deviceVars
<1>2. Framed(wire', C)
  BY <1>1, FramedAppend DEF Orderly
<1>3. Frame(c) \in Seq(Piece)
  BY FrameIsPieces
<1>4. wire # <<>> => wire' # <<>> /\ Head(wire') = Head(wire)
  <2> DEFINE f == Frame(c)
  <2> HIDE DEF f
  <2>1. \A s, t \in Seq(Piece) : s # <<>> => s \o t # <<>> /\ Head(s \o t) = Head(s)
    OBVIOUS
  <2>2. f \in Seq(Piece) /\ wire' = wire \o f
    BY <1>1, <1>3 DEF f
  <2> QED BY <1>1, <2>1, <2>2
<1> QED BY <1>1, <1>2, <1>4 DEF Orderly, LineSoFar, HasHead, HasWhole, HasTails

\* The line of another command, reset or run leaves the lines apart.
LEMMA LineStep == IInv /\ LineInv /\ [Next]_vars => LineInv'
<1> SUFFICES ASSUME IInv, LineInv, [Next]_vars PROVE LineInv'
  OBVIOUS
<1>0. TypeOK
  BY DEF IInv
<1> PICK r : r = run
  OBVIOUS
<1>1. ASSUME UNCHANGED <<run, late, shorts>>,
             \A C : Orderly(C) => Orderly(C)'
      PROVE  LineInv'
  <2>1. shorts' = 0 => Orderly(Commands)'
    BY <1>1 DEF LineInv
  <2>2. run' # None /\ ~late' => Orderly({r})'
    BY <1>1 DEF LineInv
  <2> QED BY <1>1, <2>1, <2>2 DEF LineInv
<1>2. ASSUME UNCHANGED <<buffer, wire>> PROVE \A C : Orderly(C) => Orderly(C)'
  BY <1>2 DEF Orderly, LineSoFar, HasHead, HasWhole, HasTails
<1>3. CASE ReadPiece
  <2>1. \A C : Orderly(C) => Orderly(C)'
    BY <1>0, <1>3, ReadKeepsOrder
  <2> QED BY <1>1, <1>3, <2>1 DEF ReadPiece, hostVars
<1>4. CASE ReadTerminator
  <2>1. \A C : Orderly(C) => Orderly(C)'
    BY <1>0, <1>4, TerminatorKeepsOrder
  <2> QED BY <1>1, <1>4, <2>1 DEF ReadTerminator, hostVars
<1>5. CASE Restart \/ PowerCut
  <2>1. Reset
    BY <1>5 DEF Restart, PowerCut
  <2>2. \A C : Orderly(C) => Orderly(C)'
    BY <1>0, <2>1, ResetKeepsOrder
  <2> QED BY <1>1, <2>1, <2>2 DEF Reset, hostVars
<1>6. CASE CheckButton \/ Debounce \/ InitWiFi \/ StoreSsid \/ StorePass \/ Acknowledge
             \/ PressOrRelease \/ UNCHANGED vars
  <2>1. UNCHANGED <<buffer, wire, run, late, shorts>>
    BY <1>6 DEF CheckButton, Debounce, InitWiFi, StoreSsid, StorePass, Acknowledge,
                PressOrRelease, vars, deviceVars, hostVars
  <2> QED BY <1>1, <1>2, <2>1
<1>7. ASSUME NEW c \in Commands, WriteCommand(c) PROVE LineInv'
  <2>1. run' = c /\ late' = UnderWay /\ shorts' = shorts
    BY <1>7 DEF WriteCommand
  <2>2. shorts' = 0 => Orderly(Commands)'
    BY <1>0, <1>7, <2>1, WriteKeepsOrder DEF LineInv
  <2>3. ASSUME ~late' PROVE Orderly({c})'
    <3>1. wire = <<>> /\ buffer = <<>>
      BY <2>1, <2>3 DEF UnderWay
    <3>2. Orderly({c})
      BY <3>1 DEF Orderly, Framed, LineSoFar
    <3> QED BY <1>0, <1>7, <3>2, WriteKeepsOrder
  <2> QED BY <2>1, <2>2, <2>3 DEF LineInv
<1>8. ASSUME NEW c \in Commands, ShortWrite(c) PROVE LineInv'
  BY <1>0, <1>8 DEF ShortWrite, LineInv, TypeOK
<1>9. CASE ReadLine \/ GiveUp
  <2>1. UNCHANGED <<buffer, wire, late, shorts>> /\ run' \in {run, None}
    BY <1>9 DEF ReadLine, GiveUp, deviceVars
  <2>2. \A C : Orderly(C) => Orderly(C)'
    BY <1>2, <2>1
  <2>3. run' = None => LineInv'
    BY <2>1, <2>2 DEF LineInv
  <2> QED BY <1>1, <2>1, <2>2, <2>3
<1> QED BY <1>3, <1>4, <1>5, <1>6, <1>7, <1>8, <1>9 DEF Next, Device, Host

\* What a dispatched line may be.
LEMMA DispatchReads ==
    ASSUME IInv, LineInv, ReadTerminator, buffer # <<>>, Dispatch
    PROVE  \E cmd \in Commands \union {Garbled, Unknown} :
              /\ Execute(cmd)
              /\ shorts = 0 => cmd # Garbled
              /\ run # None /\ ~late => cmd \in {run, Unknown}
<1>1. PICK cmd \in ReadsAs(buffer) : Execute(cmd)
  BY DEF Dispatch
<1>2. cmd \in Commands \union {Garbled, Unknown}
  BY <1>1 DEF ReadsAs
<1>3. Head(wire).part = "cr"
  BY DEF ReadTerminator
<1>4. shorts = 0 => cmd # Garbled
  <2>1. HAVE shorts = 0
  <2>2. ReadsAs(buffer) \subseteq Commands \union {Unknown}
    BY <1>3, <2>1, ReadsOrderly DEF LineInv
  <2> QED BY <1>1, <2>2, ProvisioningAssumption
<1>5. run # None /\ ~late => cmd \in {run, Unknown}
  <2>1. HAVE run # None /\ ~late
  <2>2. PICK r \in Commands : r = run
    BY <2>1 DEF IInv, TypeOK
  <2>3. Orderly({r})
    BY <2>1, <2>2 DEF LineInv
  <2>4. ReadsAs(buffer) \subseteq {r} \union {Unknown}
    BY <1>3, <2>3, ReadsOrderly
  <2> QED BY <1>1, <2>2, <2>4
<1> QED BY <1>1, <1>2, <1>4, <1>5

\* The pair stored is that of the line, key after key, until a reset or a failure.
LEMMA StoreStep == IInv /\ LineInv /\ StoreInv /\ [Next]_vars => StoreInv'
<1> SUFFICES ASSUME IInv, LineInv, StoreInv, [Next]_vars PROVE StoreInv'
  OBVIOUS
<1>0. /\ nvs \in [count : BOOLEAN, ssid : Pairs \union {None, Garbled},
                  pass : Pairs \union {None, Garbled}]
      /\ phase \in Phases /\ shorts \in Nat
  BY ProvisioningAssumption DEF IInv, TypeOK
<1>1. ASSUME phase' \notin StorePhases, storing' \in {storing, None},
             UNCHANGED shorts, nvs' \in {nvs, NoCredentials}
      PROVE  StoreInv'
  <2>1. shorts' = 0 => Garbled \notin {storing', nvs'.ssid, nvs'.pass}
    BY <1>1, ProvisioningAssumption DEF StoreInv, NoCredentials
  <2> QED BY <1>1, <2>1 DEF StoreInv, StorePhases
<1>2. ASSUME UNCHANGED <<phase, storing, nvs, run, late, shorts>> PROVE StoreInv'
  BY <1>2 DEF StoreInv
<1>3. ASSUME StoreFails, UNCHANGED shorts PROVE StoreInv'
  BY <1>1, <1>3 DEF StoreFails, StorePhases
<1>4. CASE Restart \/ PowerCut
  BY <1>1, <1>4 DEF Restart, PowerCut, Reset, hostVars, StorePhases
<1>5. CASE CheckButton \/ InitWiFi
  BY <1>1, <1>5 DEF CheckButton, InitWiFi, hostVars, StorePhases
<1>6. CASE Debounce
  <2>1. phase' \in {"debounce", "init"}
    BY <1>6 DEF Debounce, Released, Holding, Confirmed
  <2>2. nvs' \in {nvs, NoCredentials}
    BY <1>6 DEF Debounce, Released, Holding, Confirmed
  <2> QED BY <1>1, <1>6, <2>1, <2>2 DEF Debounce, hostVars, StorePhases
<1>7. CASE ReadPiece
  BY <1>2, <1>7 DEF ReadPiece, hostVars
<1>8. CASE ReadTerminator
  <2>1. UNCHANGED <<run, late, shorts>> /\ phase = "loop"
    BY <1>8 DEF ReadTerminator, hostVars
  <2>2. CASE EmptyLine
    BY <1>2, <2>1, <2>2 DEF EmptyLine
  <2>3. CASE buffer # <<>> /\ Dispatch
    <3>1. PICK cmd \in Commands \union {Garbled, Unknown} :
            /\ Execute(cmd)
            /\ shorts = 0 => cmd # Garbled
            /\ run # None /\ ~late => cmd \in {run, Unknown}
      BY <1>8, <2>3, DispatchReads
    <3>2. CASE Refuse
      BY <1>2, <2>1, <3>2 DEF Refuse
    <3>3. CASE Reboots
      BY <1>1, <2>1, <3>3 DEF Reboots, StorePhases
    <3>4. CASE ClearWifi
      BY <1>1, <2>1, <3>4 DEF ClearWifi, StorePhases
    <3>5. CASE cmd \in Pairs \union {Garbled} /\ BeginStore(cmd)
      <4>1. cmd \notin {None, Unknown}
        BY <3>5, ProvisioningAssumption DEF Commands
      <4>2. nvs'.ssid = nvs.ssid /\ nvs'.pass = nvs.pass
        BY <1>0, <3>5 DEF BeginStore
      <4> QED BY <2>1, <3>1, <3>5, <4>1, <4>2 DEF BeginStore, StoreInv, StorePhases
    <3>6. CASE StoreFails
      BY <1>3, <2>1, <3>6
    <3> QED BY <3>1, <3>2, <3>3, <3>4, <3>5, <3>6 DEF Execute
  <2> QED BY <1>8, <2>2, <2>3 DEF ReadTerminator
<1>9. CASE StoreSsid
  <2>1. UNCHANGED <<run, late, shorts>> /\ phase = "ssid"
    BY <1>9 DEF StoreSsid, hostVars
  <2>2. CASE phase' = "pass" /\ nvs' = [nvs EXCEPT !.ssid = storing] /\ UNCHANGED storing
    <3>1. nvs'.ssid = storing /\ nvs'.pass = nvs.pass
      BY <1>0, <2>2
    <3> QED BY <2>1, <2>2, <3>1 DEF StoreInv, StorePhases
  <2> QED BY <1>3, <1>9, <2>1, <2>2 DEF StoreSsid
<1>10. CASE StorePass
  <2>1. UNCHANGED <<run, late, shorts>> /\ phase = "pass"
    BY <1>10 DEF StorePass, hostVars
  <2>2. CASE phase' = "stored" /\ nvs' = [nvs EXCEPT !.pass = storing] /\ UNCHANGED storing
    <3>1. nvs'.ssid = nvs.ssid /\ nvs'.pass = storing
      BY <1>0, <2>2
    <3> QED BY <2>1, <2>2, <3>1 DEF StoreInv, StorePhases
  <2> QED BY <1>3, <1>10, <2>1, <2>2 DEF StorePass
<1>11. CASE Acknowledge
  BY <1>1, <1>11 DEF Acknowledge, hostVars, StorePhases
<1>12. ASSUME NEW c \in Commands, WriteCommand(c) PROVE StoreInv'
  BY <1>12 DEF WriteCommand, deviceVars, UnderWay, StoreInv, StorePhases
<1>13. ASSUME NEW c \in Commands, ShortWrite(c) PROVE StoreInv'
  <2>1. shorts' # 0 /\ UNCHANGED <<phase, storing, nvs, run, late>>
    BY <1>0, <1>13 DEF ShortWrite, deviceVars
  <2> QED BY <2>1 DEF StoreInv
<1>14. CASE ReadLine \/ GiveUp
  <2>1. UNCHANGED <<phase, storing, nvs, late, shorts>> /\ run' \in {run, None}
    BY <1>14 DEF ReadLine, GiveUp, deviceVars
  <2> QED BY <2>1 DEF StoreInv
<1>15. CASE PressOrRelease \/ UNCHANGED vars
  BY <1>2, <1>15 DEF PressOrRelease, vars, deviceVars, hostVars
<1> QED BY <1>4, <1>5, <1>6, <1>7, <1>8, <1>9, <1>10, <1>11, <1>12, <1>13, <1>14, <1>15
        DEF Next, Device, Host

\* The line each command is acknowledged with.
LEMMA ExpectedTexts ==
    /\ \A c \in Pairs : Expected(c) = "stored"
    /\ Expected("ATCLEARWIFI") = "cleared"
    /\ Expected("ATREBOOT") = "REBOOT"
<1>1. ASSUME NEW c \in Pairs PROVE Expected(c) = "stored"
  <2>1. c \in Pairs /\ c # "ATCLEARWIFI" /\ c # "ATREBOOT"
    BY ProvisioningAssumption
  <2> QED BY <2>1, Zenon DEF Expected
<1>2. "ATCLEARWIFI" \notin Pairs /\ "ATREBOOT" \notin Pairs /\ "ATCLEARWIFI" # "ATREBOOT"
  BY ProvisioningAssumption
<1>3. Expected("ATCLEARWIFI") = "cleared"
  BY <1>2, Zenon DEF Expected
<1>4. Expected("ATREBOOT") = "REBOOT"
  BY <1>2, Zenon DEF Expected
<1> QED BY <1>1, <1>3, <1>4

\* Lines told of c, one after the other.
LEMMA TellOfEach ==
    ASSUME NEW c, NEW a, NEW b,
           a.text = Expected(c) => a.of = c, b.text = Expected(c) => b.of = c
    PROVE  TellOf(c, <<a>>) /\ TellOf(c, <<a, b>>)
<1>1. Len(<<a>>) = 1 /\ <<a>>[1] = a
  OBVIOUS
<1>2. Len(<<a, b>>) = 2 /\ <<a, b>>[1] = a /\ <<a, b>>[2] = b
  OBVIOUS
<1>3. TellOf(c, <<a>>)
  BY <1>1 DEF TellOf
<1>4. TellOf(c, <<a, b>>)
  BY <1>2 DEF TellOf
<1> QED BY <1>3, <1>4

\* Printing adds to what the host may match.
LEMMA PrintKeepsConsole ==
    ASSUME TypeOK, ConsoleInv, NEW lines \in Seq(Printed), PrintLines(lines),
           UNCHANGED <<run, late>>, run # None /\ ~late => TellOf(run, lines)
    PROVE  ConsoleInv'
<1>1. console \in Seq(Printed)
  BY DEF TypeOK, Printed, Texts
<1>2. CASE run = None
  BY <1>2 DEF PrintLines, ConsoleInv
<1>3. CASE run # None
  <2>1. console' = console \o lines
    BY <1>3 DEF PrintLines
  <2>2. /\ Len(console) \in Nat /\ Len(lines) \in Nat
        /\ Len(console') = Len(console) + Len(lines)
        /\ \A i \in 1..(Len(console) + Len(lines)) :
              console'[i] = IF i <= Len(console) THEN console[i] ELSE lines[i - Len(console)]
    BY <1>1, <2>1, ConcatProperties, LenProperties
  <2>3. ASSUME ~late PROVE TellOf(run, console')
    <3>1. TellOf(run, console) /\ TellOf(run, lines)
      BY <1>3, <2>3 DEF ConsoleInv
    <3>2. \A i \in 1..(Len(console) + Len(lines)) :
             \/ i <= Len(console) /\ i \in 1..Len(console)
             \/ ~(i <= Len(console)) /\ i - Len(console) \in 1..Len(lines)
      BY <2>2
    <3> QED BY <2>2, <3>1, <3>2 DEF TellOf
  <2> QED BY <1>3, <2>3 DEF ConsoleInv, TellOf
<1> QED BY <1>2, <1>3

\* The device prints, the host reads what is told of its run.
LEMMA ConsoleStep == IInv /\ LineInv /\ StoreInv /\ ConsoleInv /\ [Next]_vars => ConsoleInv'
<1> SUFFICES ASSUME IInv, LineInv, StoreInv, ConsoleInv, [Next]_vars PROVE ConsoleInv'
  OBVIOUS
<1>0. TypeOK
  BY DEF IInv
<1>1. ASSUME UNCHANGED <<console, run, late>> PROVE ConsoleInv'
  BY <1>1 DEF ConsoleInv, TellOf
<1>2. ASSUME NEW text \in Texts, NEW of \in Commands \union {None, Garbled}
      PROVE  /\ Line(text, of) \in Printed
             /\ Line(text, of).text = text /\ Line(text, of).of = of
  BY <1>2 DEF Line, Printed
<1>3. \A a, b \in Printed : <<a>> \in Seq(Printed) /\ <<a, b>> \in Seq(Printed)
  OBVIOUS
<1>4. run \in Commands \union {None}
  BY <1>0 DEF TypeOK
<1>5. run # None => Expected(run) \in {"stored", "cleared", "REBOOT"}
  BY <1>4, ExpectedTexts DEF Commands
<1>6. ASSUME StoreFails, UNCHANGED <<run, late>> PROVE ConsoleInv'
  <2>1. Line("failed", None) \in Printed /\ Line("failed", None).text = "failed"
    BY <1>2 DEF Texts
  <2>2. run # None => TellOf(run, <<Line("failed", None)>>)
    BY <1>5, <2>1, TellOfEach
  <2> QED BY <1>0, <1>3, <1>6, <2>1, <2>2, PrintKeepsConsole DEF StoreFails
<1>7. CASE ReadTerminator
  <2>1. UNCHANGED <<run, late>>
    BY <1>7 DEF ReadTerminator, hostVars
  <2>2. CASE EmptyLine
    BY <1>1, <2>1, <2>2 DEF EmptyLine
  <2>3. CASE buffer # <<>> /\ Dispatch
    <3>1. PICK cmd \in Commands \union {Garbled, Unknown} :
            /\ Execute(cmd)
            /\ run # None /\ ~late => cmd \in {run, Unknown}
      BY <1>7, <2>3, DispatchReads
    <3>2. CASE Refuse
      <4>1. Line("?", None) \in Printed /\ Line("?", None).text = "?"
        BY <1>2 DEF Texts
      <4>2. run # None => TellOf(run, <<Line("?", None)>>)
        BY <1>5, <4>1, TellOfEach
      <4> QED BY <1>0, <1>3, <2>1, <3>2, <4>1, <4>2, PrintKeepsConsole DEF Refuse
    <3>3. CASE cmd = "ATREBOOT" /\ Reboots
      <4>1. Line("REBOOT", "ATREBOOT") \in Printed /\ Line("REBOOT", "ATREBOOT").of = "ATREBOOT"
        BY <1>2 DEF Texts, Commands
      <4>2. "ATREBOOT" # Unknown
        BY DEF Unknown
      <4>3. run # None /\ ~late => run = "ATREBOOT"
        BY <3>1, <3>3, <4>2
      <4>4. run # None /\ ~late => TellOf(run, <<Line("REBOOT", "ATREBOOT")>>)
        BY <4>1, <4>3, TellOfEach
      <4> QED BY <1>0, <1>3, <2>1, <3>3, <4>1, <4>4, PrintKeepsConsole DEF Reboots
    <3>4. CASE cmd = "ATCLEARWIFI" /\ ClearWifi
      <4> DEFINE a == Line("cleared", "ATCLEARWIFI")
      <4> DEFINE b == Line("REBOOT", "ATCLEARWIFI")
      <4>1. a \in Printed /\ b \in Printed /\ a.of = "ATCLEARWIFI" /\ b.of = "ATCLEARWIFI"
        BY <1>2 DEF Texts, Commands
      <4>2. "ATCLEARWIFI" # Unknown
        BY DEF Unknown
      <4>3. run # None /\ ~late => run = "ATCLEARWIFI"
        BY <3>1, <3>4, <4>2
      <4>4. PrintLines(<<a, b>>)
        BY <3>4 DEF ClearWifi
      <4> HIDE DEF a, b
      <4>5. run # None /\ ~late => TellOf(run, <<a, b>>)
        BY <4>1, <4>3, TellOfEach
      <4> QED BY <1>0, <1>3, <2>1, <4>1, <4>4, <4>5, PrintKeepsConsole
    <3>5. CASE cmd \in Pairs \union {Garbled} /\ BeginStore(cmd)
      BY <1>1, <2>1, <3>5 DEF BeginStore
    <3>6. CASE StoreFails
      BY <1>6, <2>1, <3>6
    <3> QED BY <3>1, <3>2, <3>3, <3>4, <3>5, <3>6 DEF Execute
  <2> QED BY <1>7, <2>2, <2>3 DEF ReadTerminator
<1>8. CASE StoreSsid \/ StorePass
  <2>1. UNCHANGED <<run, late>> /\ (UNCHANGED console \/ StoreFails)
    BY <1>8 DEF StoreSsid, StorePass, hostVars
  <2> QED BY <1>1, <1>6, <2>1
<1>9. CASE Acknowledge
  <2> DEFINE a == Line("stored", StoredPair)
  <2> DEFINE b == Line("REBOOT", StoredPair)
  <2>1. StoredPair = storing /\ storing \in Pairs \union {Garbled}
    BY <1>0, <1>9 DEF Acknowledge, StoreInv, StorePhases, StoredPair, TypeOK
  <2>2. a \in Printed /\ b \in Printed /\ a.of = storing /\ b.text = "REBOOT" /\ b.of = storing
    BY <1>2, <2>1 DEF Texts, Commands
  <2>3. run # None /\ ~late => run = storing
    BY <1>9 DEF Acknowledge, StoreInv, StorePhases
  <2>4. PrintLines(<<a, b>>) /\ UNCHANGED <<run, late>>
    BY <1>9 DEF Acknowledge, hostVars
  <2> HIDE DEF a, b
  <2>5. run # None /\ ~late => TellOf(run, <<a, b>>)
    BY <2>2, <2>3, TellOfEach
  <2> QED BY <1>0, <1>3, <2>2, <2>4, <2>5, PrintKeepsConsole
<1>10. ASSUME NEW c \in Commands, WriteCommand(c) PROVE ConsoleInv'
  <2>1. console' = <<>> /\ run' = c /\ c # None
    BY <1>10, ProvisioningAssumption DEF WriteCommand, ConsoleInv
  <2> QED BY <2>1 DEF ConsoleInv, TellOf
<1>11. CASE ReadLine
  <2>1. CASE run' = None /\ console' = <<>>
    BY <2>1 DEF ConsoleInv
  <2>2. CASE run' = run /\ console' = Tail(console)
    <3>1. console # <<>> /\ run # None /\ late' = late
      BY <1>11 DEF ReadLine
    <3>2. console \in Seq(Printed)
      BY <1>0 DEF TypeOK, Printed, Texts
    <3>3. Len(console') = Len(console) - 1 /\ Len(console) \in Nat
          /\ \A i \in 1..Len(console') : console'[i] = console[i + 1]
      BY <2>2, <3>1, <3>2, HeadTailProperties, LenProperties
    <3>4. \A i \in 1..Len(console') : i + 1 \in 1..Len(console)
      BY <3>3
    <3> QED BY <2>2, <3>1, <3>3, <3>4 DEF ConsoleInv, TellOf
  <2> QED BY <1>11, <2>1, <2>2 DEF ReadLine
<1>12. CASE GiveUp
  BY <1>12 DEF GiveUp, ConsoleInv
<1>13. CASE Restart \/ PowerCut
  BY <1>1, <1>13 DEF Restart, PowerCut, Reset, hostVars
<1>14. CASE CheckButton \/ Debounce \/ InitWiFi \/ ReadPiece \/ PressOrRelease
              \/ UNCHANGED vars
  BY <1>1, <1>14 DEF CheckButton, Debounce, InitWiFi, ReadPiece, PressOrRelease, vars,
                     deviceVars, hostVars
<1>15. ASSUME NEW c \in Commands, ShortWrite(c) PROVE ConsoleInv'
  BY <1>1, <1>15 DEF ShortWrite
<1> QED BY <1>7, <1>8, <1>9, <1>10, <1>11, <1>12, <1>13, <1>14, <1>15
        DEF Next, Device, Host

-----------------------------------------------------------------------------
(* Theorems *)

\* Every variable of the device, the line and the runner keeps its type.
THEOREM TypeCorrect == Spec => []TypeOK
<1>1. IInv => TypeOK
  BY DEF IInv
<1> QED BY InitIInv, StepIInv, <1>1, PTL DEF Spec

\* FactoryResetCheck and the dispatcher: stored credentials disappear only with
\* a whole ATCLEARWIFI line or after HoldTicks polls in a row of a held button.
THEOREM NeverWipedUnasked == Spec => WipedOnlyWhenAsked
<1> DEFINE Asked == \/ phase = "debounce" /\ streak' >= HoldTicks
                    \/ phase = "loop" /\ buffer = Whole("ATCLEARWIFI")
<1>1. ASSUME IInv, [Next]_vars, nvs.count, ~nvs'.count
      PROVE  Asked
  <2>1. CASE Debounce
    BY <1>1, <2>1 DEF Debounce, Released, Holding, Confirmed, IInv, TypeOK, HoldCounted
  <2>2. CASE ReadTerminator
    <3>1. Dispatch /\ phase = "loop"
      BY <1>1, <2>2 DEF ReadTerminator, EmptyLine
    <3>2. PICK cmd \in ReadsAs(buffer) : Execute(cmd)
      BY <3>1 DEF Dispatch
    <3>3. ~ Refuse /\ ~ Reboots /\ ~ StoreFails
      BY <1>1 DEF Refuse, Reboots, StoreFails
    <3>4. ~ BeginStore(cmd)
      BY <1>1 DEF BeginStore, IInv, TypeOK
    <3>5. cmd = "ATCLEARWIFI"
      BY <3>2, <3>3, <3>4 DEF Execute
    <3> QED BY <3>1, <3>2, <3>5, ReadsAsClear
  <2>3. CASE StoreSsid
    BY <1>1, <2>3 DEF StoreSsid, StoreFails, IInv, TypeOK
  <2>4. CASE StorePass
    BY <1>1, <2>4 DEF StorePass, StoreFails, IInv, TypeOK
  <2>5. CASE CheckButton \/ InitWiFi \/ ReadPiece \/ Acknowledge
    BY <1>1, <2>5 DEF CheckButton, InitWiFi, ReadPiece, Acknowledge
  <2>6. CASE Restart \/ PowerCut
    BY <1>1, <2>6 DEF Restart, PowerCut, Reset
  <2>7. CASE Host \/ PressOrRelease \/ UNCHANGED vars
    BY <1>1, <2>7 DEF Host, WriteCommand, ShortWrite, ReadLine, GiveUp, PressOrRelease,
                      vars, deviceVars
  <2> QED BY <1>1, <2>1, <2>2, <2>3, <2>4, <2>5, <2>6, <2>7 DEF Next, Device
<1>2. IInv /\ [Next]_vars => [(nvs.count /\ ~nvs'.count) => Asked]_vars
  BY <1>1
<1> QED BY InitIInv, StepIInv, <1>2, PTL DEF Spec, WipedOnlyWhenAsked
\* As long as the host's writes are whole no glued pair is stored, and a run that
\* began with nothing under way matches only what was printed for it, through
\* failing writes, long lines, restarts and power cuts (SerialCommandFramer,
\* storeWifiCredentials, runProvisioning).
THEOREM HonestRuns == Spec => []RunsHonest
<1>1. Init => HonestInv
  <2> SUFFICES ASSUME Init PROVE HonestInv
    OBVIOUS
  <2>1. wire = <<>> /\ buffer = <<>> /\ console = <<>> /\ run = None /\ storing = None
    BY DEF Init
  <2>2. LineInv
    BY <2>1 DEF LineInv, Orderly, Framed, LineSoFar
  <2>3. nvs.ssid \in Pairs \union {None} /\ nvs.pass \in Pairs \union {None}
    BY DEF Init, NoCredentials
  <2>4. StoreInv
    BY <2>1, <2>3, ProvisioningAssumption DEF Init, StoreInv, StorePhases, Commands
  <2> QED BY <2>1, <2>2, <2>4 DEF HonestInv, ConsoleInv
<1>2. IInv /\ HonestInv /\ [Next]_vars => HonestInv'
  BY LineStep, StoreStep, ConsoleStep DEF HonestInv
<1>3. IInv /\ HonestInv => RunsHonest
  <2> SUFFICES ASSUME IInv, HonestInv PROVE RunsHonest
    OBVIOUS
  <2>1. NoGluedCredentials
    BY DEF HonestInv, StoreInv, NoGluedCredentials
  <2>2. DOMAIN console = 1..Len(console)
    BY DEF IInv, TypeOK
  <2>3. run = None => DOMAIN console = {}
    BY DEF HonestInv, ConsoleInv
  <2>4. SuccessIsOwn
    BY <2>2, <2>3 DEF SuccessIsOwn, HonestInv, ConsoleInv, TellOf
  <2> QED BY <2>1, <2>4 DEF RunsHonest
<1> QED BY InitIInv, StepIInv, <1>1, <1>2, <1>3, PTL DEF Spec

=============================================================================
