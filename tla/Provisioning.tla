---------------------------- MODULE Provisioning ----------------------------
(***************************************************************************)
(* Provisioning over the USB console: ProvisioningRunner on the host       *)
(* writes one AT command and waits for its acknowledgement; the firmware's *)
(* SerialCommandFramer and AtCommandDispatcher turn bytes into commands;   *)
(* NvsWifiCredentialStore writes three NVS keys one after the other; at    *)
(* boot FactoryResetCheck may wipe them and the first WiFiManager tick     *)
(* decides from them between STA, AP and nothing.  The power may be cut    *)
(* between any two steps.                                                  *)
(*                                                                         *)
(* A command travels as two pieces, head and tail, and the '\r' that ends  *)
(* it, so that it may be cut, lost in part or glued to another one.  The   *)
(* build has no baked-in credentials (WiFiManager models those).           *)
(***************************************************************************)
EXTENDS Naturals, Sequences

CONSTANTS
    Pairs,      \* (ssid, password) pairs an operator provisions
    LongPairs,  \* those whose ATSETWIFI line exceeds MAX_SERIAL_CMD_LENGTH
    None,
    Garbled,    \* an (ssid, password) made up of pieces of several lines
    HoldTicks,  \* FACTORY_RESET_HOLD_MS in polls of the button
    MaxWire,    \* bound: pieces written and not read
    MaxCuts,    \* bound: power cuts
    MaxShort    \* bound: short writes

Commands == Pairs \union {"ATCLEARWIFI", "ATREBOOT"}

\* A line that is no command.
Unknown == "?"

ASSUME ProvisioningAssumption ==
    /\ LongPairs \subseteq Pairs
    /\ None # Garbled /\ Unknown \notin {None, Garbled}
    /\ {None, Garbled, Unknown} \intersect Commands = {}
    /\ Pairs \intersect {"ATCLEARWIFI", "ATREBOOT"} = {}
    /\ HoldTicks \in Nat \ {0}
    /\ {MaxWire, MaxCuts, MaxShort} \subseteq Nat

VARIABLES
    phase,    \* where setup(), loop() or a command handler is
    button,   \* GPIO0 is held down
    held,     \* FactoryResetDebouncer::heldMs_, in polls; 0 is IDLE
    streak,   \* history: polls of this boot that found the button down in a row
    nvs,      \* namespace "wifi": cred_count present, ssid_0 and pass_0
    radio,    \* what the WiFi manager started at boot
    buffer,   \* SerialCommandFramer::buffer_
    storing,  \* the pair AtsetwifiCommandHandler is storing
    wire,     \* bytes the host wrote and the device has not read
    console,  \* lines the device printed and the host has not read
    run,      \* the runner's command while it waits; None when it does not
    late,     \* history: the run began with an earlier one under way
    cuts, shorts

deviceVars == <<phase, held, streak, nvs, radio, buffer, storing>>
hostVars   == <<run, late, shorts>>
vars == <<deviceVars, button, wire, console, hostVars, cuts>>

-----------------------------------------------------------------------------
(* Lines *)

Piece == [cmd : Commands \union {Garbled}, part : {"head", "tail", "cr"}]

Part(c, part) == [cmd |-> c, part |-> part]

Whole(c) == <<Part(c, "head"), Part(c, "tail")>>

Frame(c) == Whole(c) \o <<Part(c, "cr")>>

\* The commands a line of pieces may read as: a line that starts like an
\* ATSETWIFI is taken for one when the cut falls behind its comma.
ReadsAs(line) ==
    IF \E c \in Commands : line = Whole(c)
    THEN {c \in Commands : line = Whole(c)}
    ELSE IF line[1].part = "head" /\ line[1].cmd \in Pairs
         THEN {Garbled, Unknown}
         ELSE {Unknown}

\* handleByte's budget: which lines certainly exceed it, which may.
TooLong(line) ==
    \E p \in LongPairs, i \in 1..Len(line) :
        i < Len(line) /\ line[i] = Part(p, "head") /\ line[i + 1] = Part(p, "tail")
MayBeTooLong(line) ==
    ~ \E c \in Commands \ LongPairs : line \in {<<Part(c, "head")>>, Whole(c)}

\* The bytes after the one that overflowed stay.
Leftovers == {<<>>, <<Part(Garbled, "tail")>>}

\* What the buffer may hold after one more piece of a line.
Appended(b, piece) ==
    LET line == Append(b, piece)
    IN  (IF TooLong(line) THEN {} ELSE {line})
          \union (IF MayBeTooLong(line) THEN Leftovers ELSE {})

-----------------------------------------------------------------------------
(* NVS *)

NoCredentials == [count |-> FALSE, ssid |-> None, pass |-> None]

Radio(mode, ssid, pass) == [mode |-> mode, ssid |-> ssid, pass |-> pass]
RadioOff == Radio("off", None, None)

Complete(p) == nvs = [count |-> TRUE, ssid |-> p, pass |-> p]

StoredPair == IF nvs.ssid = nvs.pass THEN nvs.ssid ELSE None

\* determineCredentialSource and loadCredentialsImpl.
HasStored == nvs.count
Loadable  == nvs.ssid # None /\ nvs.pass # None

-----------------------------------------------------------------------------
(* Console *)

\* A printed line carries, for the properties, what it tells of: for "stored"
\* the pair NVS then holds.  Nobody keeps it unless a host has the port open.
Line(text, of) == [text |-> text, of |-> of]

PrintLines(lines) == console' = IF run = None THEN <<>> ELSE console \o lines

-----------------------------------------------------------------------------
(* Boot: setup() *)

\* ESP.restart() and power loss: RAM is gone, and so is a prefix of what was
\* on its way.
Reset ==
    /\ phase' = "check"
    /\ held' = 0 /\ streak' = 0
    /\ radio' = RadioOff
    /\ buffer' = <<>>
    /\ storing' = None
    /\ \E n \in 0..Len(wire) : wire' = SubSeq(wire, n + 1, Len(wire))
    /\ UNCHANGED <<nvs, console, hostVars>>

\* FactoryResetCheck::run: the first look at the button.
CheckButton ==
    /\ phase = "check"
    /\ phase' = IF button THEN "debounce" ELSE "init"
    /\ UNCHANGED <<held, streak, nvs, radio, buffer, storing, button, wire, console,
                   hostVars, cuts>>

\* Fault: a release only pauses the count.
ReleasePauses ==
    /\ ~button
    /\ streak' = 0
    /\ UNCHANGED <<phase, held, nvs>>

\* FactoryResetDebouncer::feed.
Released ==
    /\ ~button
    /\ phase' = IF held = 0 THEN "debounce" ELSE "init"
    /\ streak' = 0
    /\ UNCHANGED <<held, nvs>>

\* Fault: the threshold is compared one poll late.
HoldingOneMore ==
    /\ button
    /\ held + 1 <= HoldTicks
    /\ held' = held + 1
    /\ streak' = streak + 1
    /\ UNCHANGED <<phase, nvs>>

Holding ==
    /\ button
    /\ held + 1 < HoldTicks
    /\ held' = held + 1
    /\ streak' = streak + 1
    /\ UNCHANGED <<phase, nvs>>

Confirmed ==
    /\ button
    /\ held + 1 >= HoldTicks
    /\ held' = held + 1
    /\ streak' = streak + 1
    /\ nvs' = NoCredentials
    /\ phase' = "init"

Debounce ==
    /\ phase = "debounce"
    /\ Released \/ Holding \/ Confirmed
    /\ UNCHANGED <<radio, buffer, storing, button, wire, console, hostVars, cuts>>

\* Fault: the password is looked for under a key the writer does not use.
OtherPassKey ==
    IF ~HasStored THEN Radio("ap", None, None)
    ELSE IF Loadable THEN Radio("sta", nvs.ssid, None)
    ELSE RadioOff

\* FirmwareApp::init: DisconnectedStateHandler::execute runs once.  It runs
\* again on every tick of a radio that is off, with the same outcome.
FirstTick ==
    IF ~HasStored THEN Radio("ap", None, None)
    ELSE IF Loadable THEN Radio("sta", nvs.ssid, nvs.pass)
    ELSE RadioOff

InitWiFi ==
    /\ phase = "init"
    /\ radio' = FirstTick
    /\ phase' = "loop"
    /\ UNCHANGED <<held, streak, nvs, buffer, storing, button, wire, console,
                   hostVars, cuts>>

-----------------------------------------------------------------------------
(* loop(): drainSerialATCommands *)

\* SerialCommandFramer::handleByte, a byte of a line.
ReadPiece ==
    /\ phase = "loop"
    /\ wire # <<>> /\ Head(wire).part # "cr"
    /\ buffer' \in Appended(buffer, Head(wire))
    /\ wire' = Tail(wire)
    /\ UNCHANGED <<phase, held, streak, nvs, radio, storing, button, console,
                   hostVars, cuts>>

\* AtCommandDispatcher::handleCommand by command; Garbled stands for an
\* ATSETWIFI with the pair a glued line yields.
Refuse ==
    /\ PrintLines(<<Line("?", None)>>)
    /\ UNCHANGED <<phase, nvs, storing>>

Reboots ==
    /\ PrintLines(<<Line("REBOOT", "ATREBOOT")>>)
    /\ phase' = "restart"
    /\ UNCHANGED <<nvs, storing>>

ClearWifi ==
    /\ nvs' = NoCredentials
    /\ PrintLines(<<Line("cleared", "ATCLEARWIFI"), Line("REBOOT", "ATCLEARWIFI")>>)
    /\ phase' = "restart"
    /\ UNCHANGED storing

\* storeWifiCredentials: cred_count goes first.
BeginStore(p) ==
    /\ nvs' = [nvs EXCEPT !.count = TRUE]
    /\ storing' = p
    /\ phase' = "ssid"
    /\ UNCHANGED console

StoreFails ==
    /\ PrintLines(<<Line("failed", None)>>)
    /\ phase' = "loop"
    /\ storing' = None
    /\ UNCHANGED nvs

Execute(cmd) ==
    \/ cmd = Unknown /\ Refuse
    \/ cmd = "ATREBOOT" /\ Reboots
    \/ cmd = "ATCLEARWIFI" /\ ClearWifi
    \/ cmd \in Pairs \union {Garbled} /\ (BeginStore(cmd) \/ StoreFails)

\* Fault: the line is not forgotten.
DispatchAndKeep ==
    /\ \E cmd \in ReadsAs(buffer) : Execute(cmd)
    /\ UNCHANGED buffer

\* The end of a line: dispatched unless it is empty, then forgotten.
Dispatch ==
    /\ \E cmd \in ReadsAs(buffer) : Execute(cmd)
    /\ buffer' = <<>>

EmptyLine ==
    /\ buffer = <<>>
    /\ UNCHANGED <<phase, nvs, buffer, storing, console>>

ReadTerminator ==
    /\ phase = "loop"
    /\ wire # <<>> /\ Head(wire).part = "cr"
    /\ EmptyLine \/ (buffer # <<>> /\ Dispatch)
    /\ wire' = Tail(wire)
    /\ UNCHANGED <<held, streak, radio, button, hostVars, cuts>>

StoreSsid ==
    /\ phase = "ssid"
    /\ \/ /\ nvs' = [nvs EXCEPT !.ssid = storing]
          /\ phase' = "pass"
          /\ UNCHANGED <<storing, console>>
       \/ StoreFails
    /\ UNCHANGED <<held, streak, radio, buffer, button, wire, hostVars, cuts>>

\* Fault: the result of the last write is not looked at.
StorePassUnchecked ==
    /\ phase = "pass"
    /\ nvs' \in {nvs, [nvs EXCEPT !.pass = storing]}
    /\ phase' = "stored"
    /\ UNCHANGED <<storing, console, held, streak, radio, buffer, button, wire,
                   hostVars, cuts>>

StorePass ==
    /\ phase = "pass"
    /\ \/ /\ nvs' = [nvs EXCEPT !.pass = storing]
          /\ phase' = "stored"
          /\ UNCHANGED <<storing, console>>
       \/ StoreFails
    /\ UNCHANGED <<held, streak, radio, buffer, button, wire, hostVars, cuts>>

Acknowledge ==
    /\ phase = "stored"
    /\ PrintLines(<<Line("stored", StoredPair), Line("REBOOT", StoredPair)>>)
    /\ storing' = None
    /\ phase' = "restart"
    /\ UNCHANGED <<held, streak, nvs, radio, buffer, button, wire, hostVars, cuts>>

Restart ==
    /\ phase = "restart"
    /\ Reset
    /\ UNCHANGED <<button, cuts>>

-----------------------------------------------------------------------------
(* Host: runProvisioning *)

Expected(c) ==
    CASE c \in Pairs -> "stored"
      [] c = "ATCLEARWIFI" -> "cleared"
      [] c = "ATREBOOT" -> "REBOOT"

UnderWay == wire # <<>> \/ buffer # <<>> \/ phase \in {"ssid", "pass", "stored"}

WriteCommand(c) ==
    /\ run = None
    /\ Len(wire) + 3 <= MaxWire
    /\ wire' = wire \o Frame(c)
    /\ run' = c
    /\ late' = UnderWay
    /\ UNCHANGED <<deviceVars, button, console, shorts, cuts>>

\* writeAll on the O_NONBLOCK descriptor takes only a part: the run fails.
ShortWrite(c) ==
    /\ run = None
    /\ shorts < MaxShort
    /\ Len(wire) + 2 <= MaxWire
    /\ \E n \in 1..2 : wire' = wire \o SubSeq(Frame(c), 1, n)
    /\ shorts' = shorts + 1
    /\ UNCHANGED <<deviceVars, button, console, run, late, cuts>>

\* pollOnce with the substring matcher.
ReadLine ==
    /\ run # None
    /\ console # <<>>
    /\ IF Head(console).text = Expected(run)
       THEN run' = None /\ console' = <<>>
       ELSE UNCHANGED run /\ console' = Tail(console)
    /\ UNCHANGED <<deviceVars, button, wire, late, shorts, cuts>>

\* The deadline, or the operator, ends the wait.
GiveUp ==
    /\ run # None
    /\ run' = None
    /\ console' = <<>>
    /\ UNCHANGED <<deviceVars, button, wire, late, shorts, cuts>>

-----------------------------------------------------------------------------
(* Environment *)

PressOrRelease ==
    /\ button' = ~button
    /\ UNCHANGED <<deviceVars, wire, console, hostVars, cuts>>

PowerCut ==
    /\ cuts < MaxCuts
    /\ cuts' = cuts + 1
    /\ Reset
    /\ UNCHANGED button

-----------------------------------------------------------------------------

\* A device out of the box, or one whose flash was provisioned before.
Init ==
    /\ phase = "check"
    /\ button \in BOOLEAN
    /\ held = 0 /\ streak = 0
    /\ nvs \in {NoCredentials}
                 \union {[count |-> TRUE, ssid |-> p, pass |-> p] : p \in Pairs \ LongPairs}
    /\ radio = RadioOff
    /\ buffer = <<>> /\ storing = None
    /\ wire = <<>> /\ console = <<>>
    /\ run = None /\ late = FALSE
    /\ cuts = 0 /\ shorts = 0

Device ==
    \/ CheckButton \/ Debounce \/ InitWiFi
    \/ ReadPiece \/ ReadTerminator
    \/ StoreSsid \/ StorePass \/ Acknowledge \/ Restart

Host ==
    \/ \E c \in Commands : WriteCommand(c) \/ ShortWrite(c)
    \/ ReadLine \/ GiveUp

Next == Device \/ Host \/ PressOrRelease \/ PowerCut

Spec == Init /\ [][Next]_vars

\* The device runs whenever it has power.
LiveSpec == Spec /\ WF_vars(Device)

-----------------------------------------------------------------------------
(* Properties *)

Phases == {"check", "debounce", "init", "loop", "ssid", "pass", "stored", "restart"}

\* Every variable has its type; NVS only ever holds what a line asked for.
TypeOK ==
    /\ phase \in Phases
    /\ button \in BOOLEAN /\ late \in BOOLEAN
    /\ held \in 0..HoldTicks /\ streak \in 0..HoldTicks
    /\ nvs \in [count : BOOLEAN, ssid : Pairs \union {None, Garbled},
                pass : Pairs \union {None, Garbled}]
    /\ radio \in [mode : {"off", "ap", "sta"}, ssid : Pairs \union {None, Garbled},
                  pass : Pairs \union {None, Garbled}]
    /\ buffer \in Seq(Piece) /\ wire \in Seq(Piece)
    /\ storing \in Pairs \union {None, Garbled}
    /\ console \in Seq([text : {"?", "failed", "stored", "cleared", "REBOOT"},
                        of : Commands \union {None, Garbled}])
    /\ run \in Commands \union {None}
    /\ cuts \in 0..MaxCuts /\ shorts \in 0..MaxShort

\* SerialCommandFramer starts every line afresh: as long as every write of the
\* host was whole, resets in the middle of a line and lines over the budget
\* never get a pair stored that nobody sent.
NoGluedCredentials ==
    shorts = 0 => Garbled \notin {nvs.ssid, nvs.pass}

\* A provisioning run that reports success reports its own: unless it began
\* with bytes or a command of an earlier run under way, the line it matches was
\* printed for its command, and for a pair with NVS holding exactly that pair,
\* through failing writes, restarts and power cuts.
SuccessIsOwn ==
    \A i \in DOMAIN console :
        (~late /\ console[i].text = Expected(run)) => console[i].of = run

\* What the device stores and what a run reports is what somebody sent and what
\* that run did (SerialCommandFramer, handleLine, runProvisioning).
RunsHonest == NoGluedCredentials /\ SuccessIsOwn

\* Credentials never get lost on their own: cred_count disappears only with a
\* whole ATCLEARWIFI line, or in a boot whose last HoldTicks polls all found
\* the button down.
WipedOnlyWhenAsked ==
    [][ (nvs.count /\ ~nvs'.count) =>
          \/ phase = "debounce" /\ streak' >= HoldTicks
          \/ phase = "loop" /\ buffer = Whole("ATCLEARWIFI")
      ]_vars

\* A debounce that waits for a press: the button was let go between the two
\* reads that start it.
WaitsForPress == phase = "debounce" /\ held = 0

\* What a run stored is what the next boot joins, unless it is replaced or
\* wiped first, or the boot waits for the button.
StoredIsJoined ==
    \A p \in Pairs :
        (phase = "restart" /\ Complete(p))
            ~> (radio = Radio("sta", p, p) \/ ~Complete(p) \/ WaitsForPress)

\* README: the device boots as its access point until credentials are
\* provisioned.
UnprovisionedShowsAp ==
    (phase = "loop" /\ ~Loadable) => radio.mode = "ap"

\* FactoryResetCheck_test: a button let go before the threshold ends the check.
ButtonCheckEnds ==
    []((phase = "debounce" /\ []~button) => <>(phase # "debounce"))
=============================================================================
