----------------------------- MODULE CliOptions -----------------------------
(***************************************************************************)
(* The command line of vehicle-sim: what parseArgs() makes of the options  *)
(* that were given, what validateOptions() rejects and which text an early *)
(* exit prints.  A command line is a set of <<option, value>> pairs, at    *)
(* most one per option; the order of the words does not matter to any of   *)
(* this code.  A value stands for its class: "usb:" is a usb target        *)
(* without a path, "tcp:bad" a target parseTcpTarget refuses, "label" a    *)
(* vehicle the registry does not know, "label\n" one with a control        *)
(* character or more than 64 of them.                                      *)
(***************************************************************************)
EXTENDS Naturals, Sequences, FiniteSets

\* The targets of --connect, and the kind every predicate of CliOptions tells.
Targets == {"demo", "file:raw", "file:csv", "file:empty", "file:none",
            "tcp:host", "tcp:bad", "usb:path", "usb:", "auto", "ble"}
isDemo(t) == t = "demo"
isFile(t) == t \in {"file:raw", "file:csv", "file:empty", "file:none"}
isTcp(t)  == t \in {"tcp:host", "tcp:bad"}
isUsb(t)  == t \in {"usb:path", "usb:"}
isAuto(t) == t = "auto"
isBLE(t)  == t # "" /\ ~ (isDemo(t) \/ isFile(t) \/ isTcp(t) \/ isUsb(t) \/ isAuto(t))

\* parseTcpTarget(): host and port of a tcp: target, if they are legal.
parseTcpTarget(t) == t = "tcp:host"

\* isDecodedTelemetryCsv(): the header line of the file names timestamp_ms.
isDecodedTelemetryCsv(t) == t \in {"file:csv", "file:empty"}

\* The vehicles of the registry: "tesla" stands for those with a DBC file, and "generic" is
\* the one that speaks OBD2.
Registered == {"tesla", "generic"}

\* The switches, and the options that carry a value.
Switches == {"scan", "list", "discover", "led", "examples", "help", "interactive",
             "stdout-csv", "clear", "reboot", "status", "connect-auto", "connect-ble",
             "unknown"}
Valued ==
    [ connect        |-> Targets,
      connectUsb     |-> {"usb:path"},
      connectTcp     |-> {"tcp:host", "tcp:bad"},
      connectFile    |-> {"file:raw", "file:csv", "file:none"},
      vehicle        |-> {"tesla", "generic", "auto", "label", "label\n"},
      setWifiCreds   |-> {"pair", "no ssid"},
      adapter        |-> {"raw", "elm327", "other"},
      log            |-> {"base", "unwritable"},
      interval       |-> {"fixed"},
      startFrom      |-> {"time", "junk"} ]

Pairs == (Switches \X {"on"}) \cup UNION {{o} \X Valued[o] : o \in DOMAIN Valued}

\* A command line gives an option once (CLI11 rejects a second one).
isArgv(argv) == \A p, q \in argv : p[1] = q[1] => p = q

Given(argv, o) == \E p \in argv : p[1] = o
Value(argv, o, default) ==
    IF Given(argv, o) THEN (CHOOSE p \in argv : p[1] = o)[2] ELSE default

-----------------------------------------------------------------------------
\* parseArgs(), step by step.

wantsHelp(argv)     == Given(argv, "help")
wantsExamples(argv) == Given(argv, "examples")
shortCircuit(argv)  == wantsHelp(argv) \/ wantsExamples(argv)

\* Beside --help or --examples every other word is a topic and is not parsed.
CleanArgv(argv) ==
    IF shortCircuit(argv) THEN {p \in argv : p[1] \in {"help", "examples"}} ELSE argv

\* The topics the printed examples are filtered by.
HelpFocus(argv) ==
    IF shortCircuit(argv) THEN {p[1] : p \in argv} \ {"help", "examples"} ELSE {}

\* foldConnectAliases(): --connect wins over every alias; --connect-ble is a marker only.
Folded(argv) ==
    IF Given(argv, "connect") THEN Value(argv, "connect", "")
    ELSE IF Given(argv, "connectUsb") THEN Value(argv, "connectUsb", "")
    ELSE IF Given(argv, "connect-auto") THEN "auto"
    ELSE IF Given(argv, "connectTcp") THEN Value(argv, "connectTcp", "")
    ELSE IF Given(argv, "connectFile") THEN Value(argv, "connectFile", "")
    ELSE ""

\* WifiProvisioningOptions::active(): the operations asked of the device.
WifiOps(argv) ==
    {o \in {"clear", "reboot", "status"} : Given(argv, o)}
        \cup {o \in {"set"} : Value(argv, "setWifiCreds", "") = "pair"}

\* parseArgs(): the struct the rest of the program works from.
parseArgs(argv) ==
    LET clean  == CleanArgv(argv)
        wifi   == WifiOps(clean)
        target == Folded(clean)
    IN  [ error     |-> IF Given(argv, "unknown") THEN "unknown option"
                        ELSE IF Value(clean, "startFrom", "") = "junk"
                             THEN "invalid --start-from" ELSE "",
          help      |-> shortCircuit(argv),
          examples  |-> wantsExamples(argv),
          helpFocus |-> HelpFocus(argv),
          modes     |-> {o \in {"scan", "list", "discover", "led", "interactive"} :
                            Given(clean, o)},
          wifi      |-> wifi,
          transport |-> IF wifi # {} THEN target ELSE "",
          target    |-> IF wifi # {} THEN "" ELSE target,
          vehicle   |-> Value(clean, "vehicle", ""),
          adapter   |-> Value(clean, "adapter", "raw"),
          log       |-> Value(clean, "log", ""),
          fixed     |-> Given(clean, "interval"),
          startFrom |-> Given(clean, "startFrom"),
          stdoutCsv |-> Given(clean, "stdout-csv") ]

isProvisioning(opts) == opts.wifi # {}
isInfoMode(opts) == opts.help \/ opts.modes \cap {"scan", "list", "discover", "led"} # {}

-----------------------------------------------------------------------------
\* validateOptions(): the first check that fails names the error.

FaultSchemeIsEnough(opts) ==
    IF isProvisioning(opts) /\ ~ (opts.transport \in {"", "auto"} \/ isUsb(opts.transport)
                                    \/ isTcp(opts.transport))
    THEN "transport" ELSE ""
validateProvisioningTransport(opts) ==
    IF /\ isProvisioning(opts)
       /\ ~ (opts.transport \in {"", "auto"} \/ isUsb(opts.transport))
       /\ ~ (isTcp(opts.transport) /\ parseTcpTarget(opts.transport))
    THEN "transport" ELSE ""

validateAdapterProtocol(opts) == IF opts.adapter = "other" THEN "adapter" ELSE ""

validateConnectRequired(opts) ==
    IF opts.target = "" /\ "interactive" \notin opts.modes THEN "connect" ELSE ""

validateVehicleLabel(v) == IF v = "label\n" THEN "label" ELSE ""
validateInteractiveVehicleLabel(opts) ==
    IF "interactive" \in opts.modes THEN validateVehicleLabel(opts.vehicle) ELSE ""
validateDecodedCsvReplayLabel(opts) ==
    IF isFile(opts.target) /\ isDecodedTelemetryCsv(opts.target)
    THEN validateVehicleLabel(opts.vehicle) ELSE ""

\* validateVehicle(): asked of every telemetry run, whatever it replays.
validateVehicle(opts) ==
    IF opts.vehicle = "" THEN "vehicle required"
    ELSE IF opts.vehicle = "auto" THEN IF isBLE(opts.target) THEN "" ELSE "auto without BLE"
    ELSE IF opts.vehicle \in Registered THEN "" ELSE "unsupported vehicle"

validateOptions(opts) ==
    LET telemetry == << validateAdapterProtocol(opts), validateConnectRequired(opts),
                        validateInteractiveVehicleLabel(opts),
                        validateDecodedCsvReplayLabel(opts), validateVehicle(opts) >>
        failed    == {i \in DOMAIN telemetry : telemetry[i] # ""}
    IN  IF validateProvisioningTransport(opts) # "" THEN "transport"
        ELSE IF isInfoMode(opts) \/ isProvisioning(opts) \/ failed = {} THEN ""
        ELSE telemetry[CHOOSE i \in failed : \A j \in failed : i <= j]

\* The examples document: section marks, topic marks and the lines of their bodies, in which
\* a comment is a line like any other.
Body == [mark |-> "", topics |-> {}]
ExamplesText ==
    << Body, [mark |-> "section", topics |-> {}],
       [mark |-> "topic", topics |-> {"connect"}], Body, Body,
       [mark |-> "topic", topics |-> {"connectTcp", "discover"}], Body,
       [mark |-> "section", topics |-> {}], [mark |-> "topic", topics |-> {"led"}], Body >>

\* parseExamplesDocument(): each topic's block, the numbers of its lines under its section's.
parseExamplesDocument(text) ==
    { [ section |-> {s \in 1..i : /\ text[s].mark = "section"
                                  /\ \A k \in (s + 1)..i : text[k].mark # "section"},
        topics  |-> text[i].topics,
        lines   |-> {j \in (i + 1)..Len(text) : \A k \in (i + 1)..j : text[k].mark = ""} ]
      : i \in {j \in DOMAIN text : text[j].mark = "topic"} }

\* topicMatchesFocus(): the same name, or one is the first segment of the other.
Segments == {"connect"} \X {"connectUsb", "connectTcp", "connectFile", "connect-auto",
                           "connect-ble"}
topicMatchesFocus(topic, focus) ==
    topic = focus \/ <<topic, focus>> \in Segments \/ <<focus, topic>> \in Segments

\* renderExamples(): the lines printed, a heading once for its sections that match.
renderExamples(blocks, focus) ==
    UNION { b.section \cup b.lines :
            b \in {c \in blocks : \/ focus = {}
                                  \/ \E t \in c.topics, f \in focus : topicMatchesFocus(t, f)} }

\* handleEarlyExit(): the text printed, in this order of precedence, or none to go on.
EarlyExit(opts) ==
    IF opts.examples THEN "examples"
    ELSE IF opts.help THEN "help"
    ELSE IF "list" \in opts.modes THEN "signals"
    ELSE IF "led" \in opts.modes THEN "led legend" ELSE ""

\* The examples printed with it: --help prints those of a topic that is asked for.
ExamplesPrinted(opts) ==
    IF opts.examples \/ (opts.help /\ opts.helpFocus # {})
    THEN renderExamples(parseExamplesDocument(ExamplesText), opts.helpFocus) ELSE {}

-----------------------------------------------------------------------------
\* normalizeTransport(): "auto" and none are the serial port that is found, or the default one.
normalizeTransport(t) == IF t \in {"", "auto"} THEN "usb:path" ELSE t

\* createProvisioningPort(): the scheme's port, or none.
createProvisioningPort(t) ==
    LET target == normalizeTransport(t)
    IN  IF target = "usb:path" THEN "USB serial"
        ELSE IF isTcp(target) /\ parseTcpTarget(target) THEN "TCP console" ELSE ""

\* runProvisioning(): of the operations asked for, the one that is run.
OperationRun(opts) ==
    IF "status" \in opts.wifi THEN "status"
    ELSE IF "clear" \in opts.wifi THEN "clear"
    ELSE IF "reboot" \in opts.wifi THEN "reboot" ELSE "set"
=============================================================================
