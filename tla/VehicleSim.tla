----------------------------- MODULE VehicleSim -----------------------------
(***************************************************************************)
(* The program vehicle-sim, from its command line to its exit: main()      *)
(* dispatches to one runner, which finds a device, reads one status line,  *)
(* replays a capture, streams a live source or reads the keyboard, and     *)
(* writes to stdout, to <base>.csv and to <base>.raw.txt.                  *)
(*                                                                         *)
(* Interleaved with it: packets of other devices, a plug that is pulled,   *)
(* keys, and one Ctrl-C at any time.  What the TCP transport, the BLE      *)
(* session and the console of the device do is in TCPTransport,            *)
(* Elm327Session and Provisioning; here they deliver lines or an exit code.*)
(***************************************************************************)
EXTENDS CliOptions, ReplayPacing, UDPDiscovery

CONSTANTS MaxLines,    \* bound on the lines of a source, the number of frames of a capture or the demo
          MaxTs,       \* bound on the recorded timestamps
          MaxWork,     \* bound on the time one row takes to write
          MaxLate,     \* bound on how much longer than asked a sleep takes
          SkipMs,      \* the time of --start-from
          IntervalMs,  \* the value of -i
          MaxPieces,   \* bound on the reads of runStatus()
          MaxKeys      \* bound on the keys pressed

ASSUME HostAssumption ==
    /\ {MaxLines, MaxTs, MaxWork, MaxLate, SkipMs, MaxPieces, MaxKeys} \subseteq Nat
    /\ IntervalMs \in Nat \ {0}

VARIABLES
    pc,          \* where main() is
    opts,        \* the parsed options
    out,         \* stdout: words said, the skip hint, headers, status lines and rows
    csv,         \* <base>.csv, the rows behind its header
    raw,         \* <base>.raw.txt
    handler,     \* has a runner installed its signal handler?
    interrupted, \* has Ctrl-C been pressed?
    stop,        \* the StopToken
    disc,        \* the discovery socket and poll()
    heard,       \* every packet that reached the socket
    found,       \* what poll() returned
    reply,       \* what runStatus() has read, and what waits in the socket before it
    src,         \* the source: lines read, its end, the frame held, the schedule, and whether
                 \* the peer of a TCP connection leaves no pause
    now,         \* the clock
    kbd          \* the keyboard: keys pressed, keys read, the filter and what it let through

vars == << pc, opts, out, csv, raw, handler, interrupted, stop, disc, heard, found,
           reply, src, now, kbd >>

Ended == pc \in {"ok", "failed", "killed"}
NoFrame == [kind |-> "none"]

\* The frames of a source: one that becomes a row, as every frame does with a vehicle that has
\* a DBC file; one that is no response, for the OBD2 vehicle; one without time and data.
Frames == [ts : 0..MaxTs, kind : {"decodes"}]
              \cup (IF opts.vehicle = "generic" THEN [ts : 0..MaxTs, kind : {"unmatched"}] ELSE {})
Blank == [ts |-> 0, kind |-> "blank"]

\* An item of stdout that is not a row; what is said to the user, a run of lines being one.
Item(w) == [what |-> w]
Say(o) == IF o # <<>> /\ Last(o) = Item("text") THEN o ELSE Append(o, Item("text"))
Narrate(o) == IF opts.stdoutCsv THEN o ELSE Say(o)

Finish(rc) == pc' = IF rc = 0 THEN "ok" ELSE "failed"

-----------------------------------------------------------------------------
\* The command lines: any two options, and a telemetry run with the ways its output can go.
TelemetryOptions ==
    LET tesla   == <<"vehicle", "tesla">>   stdout == <<"stdout-csv", "on">>
        generic == <<"vehicle", "generic">> log    == <<"log", "base">>
    IN  { {tesla}, {tesla, log}, {generic, stdout, log}, {tesla, stdout, log},
          {tesla, stdout, log, <<"startFrom", "time">>},
          {tesla, stdout, <<"interval", "fixed">>} }
Argvs ==
    {argv \in {{p, q} : p, q \in Pairs} : isArgv(argv)}
    \cup {{p} \cup o : p \in ({"connect"} \X Targets) \cup {<<"interactive", "on">>},
                       o \in TelemetryOptions}

\* runTransport(): the last case is the one validation is to exclude.
runTransport(t) ==
    IF isTcp(t) \/ isDemo(t) \/ isUsb(t) THEN "live"
    ELSE IF isBLE(t) THEN "ble" ELSE "no source"

\* main() past the early exits: the first of these that applies.
Runner(o) ==
    IF "scan" \in o.modes THEN "scan"
    ELSE IF "discover" \in o.modes THEN "discover"
    ELSE IF "status" \in o.wifi THEN "status"
    ELSE IF isProvisioning(o) THEN "provision"
    ELSE IF "interactive" \in o.modes THEN "interactive"
    ELSE IF isAuto(o.target) THEN "auto"
    ELSE IF isFile(o.target)
         THEN IF isDecodedTelemetryCsv(o.target) THEN "csv replay" ELSE "replay"
    ELSE runTransport(o.target)

NewSource == [seen |-> <<>>, eof |-> FALSE, held |-> NoFrame, wait |-> 0,
              schedule |-> NewSchedule(0), busy |-> FALSE]

Init ==
    /\ pc = "start" /\ opts = parseArgs({})
    /\ out = <<>> /\ csv = <<>> /\ raw = <<>>
    /\ handler = FALSE /\ interrupted = FALSE /\ stop = FALSE
    /\ disc = NewPoll /\ heard = <<>> /\ found = <<>>
    /\ reply = [got |-> <<>>, queued |-> <<>>]
    /\ src = NewSource /\ now = 0
    /\ kbd = [unread |-> <<>>, read |-> <<>>, stage |-> "None", surfaced |-> <<>>,
              arrows |-> 0, quit |-> FALSE]

\* parseArgs(), then the banner on the stream --stdout-csv leaves for it.
Start ==
    /\ pc = "start"
    /\ \E argv \in Argvs :
          /\ opts' = parseArgs(argv)
          /\ out' = IF opts'.stdoutCsv THEN <<>> ELSE <<Item("text")>>
    /\ pc' = "check"
    /\ UNCHANGED << csv, raw, handler, interrupted, stop, disc, heard, found, reply,
                    src, now, kbd >>

\* A parse error, a validation error, an early exit, or the dispatch.
Dispatch ==
    /\ pc = "check"
    /\ IF opts.error # "" \/ validateOptions(opts) # "" THEN Finish(1) /\ UNCHANGED out
       ELSE IF EarlyExit(opts) # ""
            THEN /\ Finish(0)
                 /\ out' = Append(Say(out), [ what |-> EarlyExit(opts),
                                             examples |-> ExamplesPrinted(opts) ])
       ELSE pc' = Runner(opts) /\ UNCHANGED out
    /\ UNCHANGED << opts, csv, raw, handler, interrupted, stop, disc, heard, found,
                    reply, src, now, kbd >>

\* runScan(): what the BLE scan found decides the exit code.
Scan ==
    /\ pc = "scan"
    /\ out' = Say(out)
    /\ \E rc \in 0..1 : Finish(rc)
    /\ UNCHANGED << opts, csv, raw, handler, interrupted, stop, disc, heard, found,
                    reply, src, now, kbd >>

-----------------------------------------------------------------------------
(***************************************************************************)
(* Finding a device: the serial port first, then the broadcasts.           *)
(***************************************************************************)

\* UDPDiscovery::start(): the port may be taken.
StartPoll(next, rcIfTaken) ==
    \/ disc' = NewPoll /\ pc' = next
    \/ UNCHANGED disc /\ Finish(rcIfTaken)

\* runDiscovery() up to its poll(), the signal handler installed.
Discover ==
    /\ pc = "discover"
    /\ handler' = TRUE
    /\ out' = Say(out)
    /\ StartPoll("discovering", 1)
    /\ UNCHANGED << opts, csv, raw, interrupted, stop, heard, found, reply, src, now, kbd >>

\* resolveStatusTarget(): an explicit target, the serial port that is plugged in, or a search.
Status ==
    /\ pc = "status"
    /\ \/ /\ opts' = [opts EXCEPT !.transport = normalizeTransport(@)]
          /\ pc' = "console"
          /\ UNCHANGED << out, disc >>
       \/ /\ opts.transport \in {"", "auto"}
          /\ out' = Say(out)
          /\ StartPoll("locating", 1)
          /\ UNCHANGED opts
    /\ UNCHANGED << csv, raw, handler, interrupted, stop, heard, found, reply, src, now,
                    kbd >>

\* autoDiscoverAndAssign(): what it says goes to stdout, whatever the options.
autoDiscoverAndAssign ==
    /\ pc = "auto"
    /\ out' = Say(out)
    /\ \/ /\ opts' = [opts EXCEPT !.target = "usb:path"]  \* a serial port is there
          /\ pc' = runTransport("usb:path")
          /\ UNCHANGED disc
       \/ StartPoll("finding", 1) /\ UNCHANGED opts
    /\ UNCHANGED << csv, raw, handler, interrupted, stop, heard, found, reply, src, now,
                    kbd >>

Polling == pc \in {"discovering", "locating", "finding"}

\* One step of poll(): a window passes, or one packet of what came is drained.
Poll ==
    /\ Polling /\ KeepGoing(disc, stop)
    /\ disc' = PollStep(disc)
    /\ UNCHANGED << pc, opts, out, csv, raw, handler, interrupted, stop, heard, found,
                    reply, src, now, kbd >>

\* poll() returns, and its caller goes on with the first device it heard.
EndPoll ==
    /\ Polling /\ ~ KeepGoing(disc, stop)
    /\ found' = Devices(disc)
    /\ \/ /\ pc = "discovering"
          /\ Finish(IF found' = <<>> THEN 1 ELSE 0)
          /\ out' = Say(out)
          /\ UNCHANGED opts
       \/ pc # "discovering" /\ found' = <<>> /\ Finish(1) /\ UNCHANGED << out, opts >>
       \/ /\ pc = "locating" /\ found' # <<>>
          /\ opts' = [opts EXCEPT !.transport = "tcp:host"]
          /\ out' = Say(out)
          /\ pc' = "console"
       \/ /\ pc = "finding" /\ found' # <<>>
          /\ opts' = [opts EXCEPT !.target = "tcp:host"]
          /\ out' = Say(out)
          /\ pc' = runTransport("tcp:host")
    /\ disc' = NewPoll
    /\ UNCHANGED << csv, raw, handler, interrupted, stop, heard, reply, src, now, kbd >>

\* The network: a packet reaches the bound socket.
Broadcast ==
    /\ Polling /\ Len(heard) < QueueMax
    /\ \E p \in Packets :
          /\ disc' = [disc EXCEPT !.queue = Append(@, p)]
          /\ heard' = Append(heard, p)
    /\ UNCHANGED << pc, opts, out, csv, raw, handler, interrupted, stop, found, reply,
                    src, now, kbd >>

-----------------------------------------------------------------------------
(***************************************************************************)
(* The device's console: runStatusFlow() and runProvisioning().            *)
(***************************************************************************)

\* What a TCP console answers "AUTH": the ack, alone or with a heartbeat right behind it, a
\* refusal, or nothing in time.
Acks == { <<"OK", "eol">>, <<"OK", "eol", "[STATE]", "eol">>, <<"ERROR", "eol">>, <<>> }

\* The line open() reads, byte by byte, and what it leaves in the socket.
AckLine(bytes) == IF bytes = <<>> THEN <<>> ELSE SubSeq(bytes, 1, 2)
AckRest(bytes) == IF bytes = <<>> THEN <<>> ELSE SubSeq(bytes, 3, Len(bytes))

\* The scheme's port is built and opened, or the run fails; a TCP console has to let us in.
OpenConsole ==
    /\ pc = "console"
    /\ \/ Finish(1) /\ UNCHANGED reply
       \/ /\ createProvisioningPort(opts.transport) = "USB serial"
          /\ pc' = "reading" /\ UNCHANGED reply
       \/ /\ createProvisioningPort(opts.transport) = "TCP console"
          /\ \E bytes \in Acks :
                IF "OK" \in ToSet(AckLine(bytes))
                THEN pc' = "reading" /\ reply' = [reply EXCEPT !.queued = AckRest(bytes)]
                ELSE Finish(1) /\ UNCHANGED reply
    /\ UNCHANGED << opts, out, csv, raw, handler, interrupted, stop, disc, heard, found,
                    src, now, kbd >>

\* makeStateLineMatcher(): the marker, and an end of line behind it.
StateLine(r) == \E i, j \in DOMAIN r : i < j /\ r[i] = "[STATE]" /\ r[j] = "eol"

\* runStatus(): read until a whole status line is there and write that one line.
ReadStatus ==
    /\ pc = "reading"
    /\ \/ \E piece \in IF reply.queued # <<>> THEN {reply.queued}
                         ELSE {<<"noise">>, <<"[STATE]">>, <<"eol">>} :
             /\ Len(reply.got) < MaxPieces
             /\ reply' = [got |-> reply.got \o piece, queued |-> <<>>]
             /\ IF StateLine(reply'.got) THEN Finish(0) /\ out' = Append(out, Item("state"))
                ELSE UNCHANGED << pc, out >>
       \/ \* closed, an error, the deadline
          reply.queued = <<>> /\ Finish(1) /\ UNCHANGED << out, reply >>
    /\ UNCHANGED << opts, csv, raw, handler, interrupted, stop, disc, heard, found, src,
                    now, kbd >>

\* runProvisioning(): no port for the target, a port that does not open, or the operation.
Provision ==
    /\ pc = "provision"
    /\ \/ Finish(1) /\ UNCHANGED out
       \/ /\ createProvisioningPort(opts.transport) # ""
          /\ out' = Append(out, Item(OperationRun(opts)))
          /\ \E rc \in 0..1 : Finish(rc)
    /\ UNCHANGED << opts, csv, raw, handler, interrupted, stop, disc, heard, found,
                    reply, src, now, kbd >>

-----------------------------------------------------------------------------
(***************************************************************************)
(* The frame pipeline: a source, the schedule of a replay, and the sinks.  *)
(***************************************************************************)

\* A sink's header precedes its first row; the skip hint precedes stdout's.
Headed(o) ==
    IF ~ opts.stdoutCsv THEN Say(o)
    ELSE IF pc = "replay" /\ opts.startFrom THEN o \o <<Item("hint"), Item("header")>>
    ELSE Append(o, Item("header"))

\* ReplayRunContext::run() up to its loop.
OpenReplay ==
    /\ pc = "replay"
    /\ IF opts.target = "file:none" \/ opts.log = "unwritable"
       THEN Finish(1) /\ UNCHANGED << out, src >>
       ELSE /\ out' = Headed(out)
            /\ src' = [NewSource EXCEPT !.schedule = NewSchedule(now)]
            /\ pc' = "frames"
    /\ UNCHANGED << opts, csv, raw, handler, interrupted, stop, disc, heard, found,
                    reply, now, kbd >>

\* CsvReplayRunContext::run() up to its loop: a source without a row fails.
OpenCsvReplay ==
    /\ pc = "csv replay"
    /\ IF opts.target = "file:empty" THEN Finish(1) /\ UNCHANGED << out, src >>
       ELSE /\ out' = IF opts.stdoutCsv THEN Append(out, Item("header")) ELSE out
            /\ src' = [NewSource EXCEPT !.schedule = NewSchedule(now)]
            /\ pc' = "rows"
    /\ UNCHANGED << opts, csv, raw, handler, interrupted, stop, disc, heard, found,
                    reply, now, kbd >>

\* The transport open() announces itself on stdout (StdOut of buildPipelineSource).
Announced(o) == IF isDemo(opts.target) THEN o ELSE Say(o)

\* LiveRunContext::run() up to its loop: the stop scope, the transport, the sinks.
OpenLive ==
    /\ pc = "live"
    /\ handler' = TRUE /\ stop' = FALSE
    /\ \/ opts.target # "demo" /\ Finish(1) /\ UNCHANGED << out, src >>
       \/ /\ opts.target \in {"demo", "usb:path", "tcp:host"}
          /\ IF opts.log = "unwritable" THEN Finish(1) /\ out' = Announced(out) /\ UNCHANGED src
             ELSE /\ out' = Headed(Announced(out))
                  /\ src' = NewSource
                  /\ pc' = "lines"
    /\ UNCHANGED << opts, csv, raw, interrupted, disc, heard, found, reply, now, kbd >>

\* BLERunContext::run(): its lines go to stdout; Elm327Session is what it does.
RunBle ==
    /\ pc = "ble"
    /\ handler' = TRUE
    /\ out' = Say(out)
    /\ \E rc \in 0..1 : Finish(rc)
    /\ UNCHANGED << opts, csv, raw, interrupted, stop, disc, heard, found, reply, src, now,
                    kbd >>

\* What the loop does with frame f before it decodes it: skip it, or hold it until it is due.
Scheduled(f) ==
    IF pc = "frames" THEN Consider(src.schedule, f, IF opts.startFrom THEN SkipMs ELSE 0, now)
    ELSE IF pc = "rows" THEN PaceRow(src.schedule, f, IF opts.fixed THEN IntervalMs ELSE 0, now)
    ELSE [skip |-> FALSE, wait |-> 0, next |-> src.schedule]

\* The loops take frame f, the n-th: the raw line is recorded, then the schedule is asked.
Take(f) ==
    LET frame == [n |-> Len(src.seen) + 1, ts |-> f.ts, kind |-> f.kind, pulled |-> now]
        s     == Scheduled(frame)
    IN  /\ src.held = NoFrame /\ ~ src.eof /\ Len(src.seen) < MaxLines
        /\ src' = [src EXCEPT !.seen = Append(@, frame), !.schedule = s.next,
                              !.held = IF s.skip THEN NoFrame ELSE frame, !.wait = s.wait]
        /\ raw' = IF pc = "lines" /\ opts.log = "base" THEN Append(raw, frame) ELSE raw
        /\ UNCHANGED << pc, opts, out, csv, handler, interrupted, stop, disc, heard, found,
                        reply, now, kbd >>

\* BinaryFileSource::nextFrame(): the next record of the capture that is a frame.
NextRecorded == pc = "frames" /\ \E f \in Frames \cup {Blank} : Take(f)

\* FileCsvTelemetrySource::next(): the next line of the decoded capture that is not empty.
NextRow == pc = "rows" /\ \E f \in Frames : f.kind = "decodes" /\ Take(f)

\* DemoTransport::nextLine(): the next of its frames, whatever the StopToken says.
NextDemo ==
    /\ pc = "lines" /\ isDemo(opts.target)
    /\ \E f \in Frames : f.ts = 0 /\ Take([f EXCEPT !.ts = now])

\* LiveTwaiSource::nextFrame(): a line of the device that is a frame, stamped with the clock.
\* The USB transport asks for the stop before every line, TCP only when nothing arrives.
NextLive ==
    /\ pc = "lines" /\ ~ isDemo(opts.target) /\ (isUsb(opts.target) => ~ stop)
    /\ \E f \in Frames : f.ts = 0 /\ Take([f EXCEPT !.ts = now])

\* clock.sleepFor(): at least as long as asked.
Sleep ==
    /\ src.held # NoFrame /\ src.wait > 0 /\ ~ Ended
    /\ \E late \in 0..MaxLate : now' = now + src.wait + late
    /\ src' = [src EXCEPT !.wait = 0]
    /\ UNCHANGED << pc, opts, out, csv, raw, handler, interrupted, stop, disc, heard,
                    found, reply, kbd >>

\* The row a frame becomes, and when it was written.
Row(f) == [what |-> "row", frame |-> f, at |-> now]

\* dispatchFrame(): a frame that is no signal is reported on stderr alone.
Dispatched ==
    /\ src.held # NoFrame /\ src.wait = 0 /\ ~ Ended
    /\ IF src.held.kind = "unmatched" THEN UNCHANGED << out, csv >>
       ELSE /\ out' = IF opts.stdoutCsv \/ pc = "rows" THEN Append(out, Row(src.held))
                      ELSE Narrate(out)
            /\ csv' = IF opts.log = "base" /\ pc # "rows" THEN Append(csv, Row(src.held)) ELSE csv
    /\ src' = [src EXCEPT !.held = NoFrame]
    /\ \E work \in 0..MaxWork : now' = now + work
    /\ UNCHANGED << pc, opts, raw, handler, interrupted, stop, disc, heard, found, reply,
                    kbd >>

\* A capture and the demo have as many lines as they have; a device that is read live sends on,
\* past the lines that are modelled.
AtEnd == src.eof \/ (Len(src.seen) = MaxLines /\ (pc = "lines" => isDemo(opts.target)))

FaultStopIgnored == AtEnd

\* Has nextFrame() nothing more to give?  The demo does not look at the StopToken, USB does
\* before every line, TCP when a whole poll brought nothing.
Exhausted ==
    \/ AtEnd
    \/ pc = "lines" /\ stop /\ (isUsb(opts.target) \/ (isTcp(opts.target) /\ ~ src.busy))

\* The loop ends, and the summary follows the narrative.
EndFrames ==
    /\ pc \in {"frames", "rows", "lines"} /\ src.held = NoFrame /\ Exhausted
    /\ out' = IF pc = "rows" THEN out ELSE Narrate(out)
    /\ Finish(0)
    /\ UNCHANGED << opts, csv, raw, handler, interrupted, stop, disc, heard, found,
                    reply, src, now, kbd >>

\* The end of the file, or the plug is pulled.
EndOfSource ==
    /\ pc \in {"frames", "rows", "lines"} /\ ~ isDemo(opts.target) /\ ~ src.eof
    /\ pc = "rows" => src.seen # <<>>  \* a decoded capture has a row
    /\ src' = [src EXCEPT !.eof = TRUE]
    /\ UNCHANGED << pc, opts, out, csv, raw, handler, interrupted, stop, disc, heard,
                    found, reply, now, kbd >>

\* The peer of a TCP connection begins or ceases to send without a pause: frames, or anything
\* else that nextLine() reads.
Traffic ==
    /\ pc = "lines" /\ isTcp(opts.target)
    /\ src' = [src EXCEPT !.busy = ~ @]
    /\ UNCHANGED << pc, opts, out, csv, raw, handler, interrupted, stop, disc, heard,
                    found, reply, now, kbd >>

-----------------------------------------------------------------------------
(***************************************************************************)
(* The keyboard: arrows are taken out of the stream before the bridge's    *)
(* provider, which reads byte 27 as quit, sees it.                         *)
(***************************************************************************)

Keys == {"ESC", "[", "A", "q"}

FaultEscapeIsDropped(k, key) ==
    IF k.stage = "None"
    THEN IF key = "ESC" THEN [k EXCEPT !.stage = "Escape"]
                        ELSE [k EXCEPT !.surfaced = Append(@, key)]
    ELSE IF k.stage = "Escape"
    THEN IF key = "[" THEN [k EXCEPT !.stage = "Bracket"]
                      ELSE [k EXCEPT !.stage = "None", !.surfaced = Append(@, key)]
    ELSE [k EXCEPT !.stage = "None", !.arrows = @ + 1]

\* consumeEscapeSequence() and getKey(): an ESC that no '[' follows is handed on, then the key.
FilterKey(k, key) ==
    IF k.stage = "None"
    THEN IF key = "ESC" THEN [k EXCEPT !.stage = "Escape"]
                        ELSE [k EXCEPT !.surfaced = Append(@, key)]
    ELSE IF k.stage = "Escape"
    THEN IF key = "[" THEN [k EXCEPT !.stage = "Bracket"]
                      ELSE [k EXCEPT !.stage = "None", !.surfaced = @ \o <<"ESC", key>>]
    ELSE [k EXCEPT !.stage = "None", !.arrows = @ + 1]

\* getKey(): the next byte of the terminal, through the filter to the provider, whose quit()
\* is latched.
getKey(k) ==
    LET key  == Head(k.unread)
        next == FilterKey([k EXCEPT !.unread = Tail(@), !.read = Append(@, key)], key)
    IN  [next EXCEPT !.quit = ToSet(next.surfaced) \cap {"ESC", "q"} # {}]

\* InteractiveRunContext::run() up to its loop.
OpenInteractive ==
    /\ pc = "interactive"
    /\ out' = Append(out, Item("header"))
    /\ pc' = "tick"
    /\ UNCHANGED << opts, csv, raw, handler, interrupted, stop, disc, heard, found,
                    reply, src, now, kbd >>

\* OnUpdateSimulation() drains the keyboard, and more keys may be pressed meanwhile.
ReadKey ==
    /\ pc = "tick" /\ kbd.unread # <<>>
    /\ kbd' = getKey(kbd)
    /\ UNCHANGED << pc, opts, out, csv, raw, handler, interrupted, stop, disc, heard,
                    found, reply, src, now >>

\* The tick's row, once there is no key left; the row of the tick that quits is the last.
TickRow ==
    /\ pc = "tick" /\ kbd.unread = <<>>
    /\ out' = IF Last(out) = Item("bench row") THEN out ELSE Append(out, Item("bench row"))
    /\ IF kbd.quit THEN Finish(0) ELSE UNCHANGED pc
    /\ UNCHANGED << opts, csv, raw, handler, interrupted, stop, disc, heard, found,
                    reply, src, now, kbd >>

\* A key is pressed.
PressKey ==
    /\ pc = "tick" /\ Len(kbd.read) + Len(kbd.unread) < MaxKeys
    /\ \E key \in Keys : kbd' = [kbd EXCEPT !.unread = Append(@, key)]
    /\ UNCHANGED << pc, opts, out, csv, raw, handler, interrupted, stop, disc, heard,
                    found, reply, src, now >>

-----------------------------------------------------------------------------
\* Ctrl-C: the handler sets the StopToken; without one the signal ends the process.
Interrupt ==
    /\ ~ Ended /\ pc # "start" /\ ~ interrupted
    /\ interrupted' = TRUE
    /\ IF handler THEN stop' = TRUE /\ UNCHANGED pc ELSE pc' = "killed" /\ UNCHANGED stop
    /\ UNCHANGED << opts, out, csv, raw, handler, disc, heard, found, reply, src, now,
                    kbd >>

Exited == Ended /\ UNCHANGED vars

\* What main() does when it is its turn.
Main ==
    \/ Start \/ Dispatch \/ Scan \/ Discover \/ Status \/ autoDiscoverAndAssign
    \/ Poll \/ EndPoll \/ OpenConsole \/ ReadStatus \/ Provision
    \/ OpenReplay \/ OpenCsvReplay \/ OpenLive \/ RunBle
    \/ Sleep \/ Dispatched \/ EndFrames
    \/ OpenInteractive \/ ReadKey \/ TickRow

World == \/ NextRecorded \/ NextRow \/ NextDemo \/ NextLive \/ EndOfSource \/ Traffic
         \/ Broadcast \/ PressKey \/ Interrupt

Next == Main \/ World \/ Exited

\* A file and the demo never keep nextFrame() waiting; a device, the network and a hand may.
Spec == Init /\ [][Next]_vars /\ WF_vars(Main \/ NextRecorded \/ NextRow \/ NextDemo)

-----------------------------------------------------------------------------
\* Every variable keeps its type.
TypeOK ==
    /\ handler \in BOOLEAN /\ interrupted \in BOOLEAN /\ stop \in BOOLEAN
    /\ disc.remaining \in 0..PollWindows /\ ToSet(disc.queue) \subseteq Packets
    /\ ToSet(heard) \subseteq Packets /\ ToSet(found) \subseteq Addresses
    /\ now \in Nat /\ src.wait \in Nat
    /\ kbd.stage \in {"None", "Escape", "Bracket"} /\ kbd.arrows \in Nat

\* What validateOptions() lets through fits the runner main() picks: runTransport() never
\* meets a target it does not know, a vehicle the registry does not know reaches no decoder,
\* telemetry and device operations exclude each other, only an operation that was asked for
\* is run, only a bare "usb:" has no port, and no status line that came is missed, not even
\* one that came with the console's "OK".
RunnersFit ==
    /\ pc # "no source"
    /\ pc \in {"replay", "frames", "csv replay", "rows", "live", "lines"} =>
          opts.wifi = {} /\ opts.vehicle \in Registered
    /\ pc \in {"ble", "tick"} => opts.wifi = {} /\ opts.vehicle \in Registered \cup {"auto"}
    /\ {Item(o) : o \in {"clear", "reboot", "set"} \ opts.wifi} \cap ToSet(out) = {}
    /\ pc \in {"console", "provision"} =>
          opts.target = "" /\ (createProvisioningPort(opts.transport) = "" =>
                                  opts.transport = "usb:")
    /\ pc = "failed" => ~ StateLine(reply.got \o reply.queued)

\* The frames the sinks are to have, by their place in the source: those of the capture that
\* decode, without blanks and without those recorded less than --start-from behind the first.
Recorded == {n \in DOMAIN src.seen : src.seen[n].kind # "blank" \/ opts.target # "file:raw"}
InWindow(n) ==
    \/ ~ (opts.startFrom /\ opts.target = "file:raw")
    \/ src.seen[n].ts - src.seen[Min(Recorded)].ts \notin 0..(SkipMs - 1)
Kept == {n \in Recorded : InWindow(n)}
Due == {n \in Kept : src.seen[n].kind = "decodes" /\ (n = Len(src.seen) => src.held = NoFrame)}

\* A sink holds the frames of these places and no others, each once and in their order.
Rows(sink) == {i \in DOMAIN sink : sink[i].what = "row"}
Holds(sink, places) ==
    /\ {sink[i].frame.n : i \in Rows(sink)} = places
    /\ \A i \in Rows(sink) : sink[i].frame = src.seen[sink[i].frame.n]
    /\ \A i, j \in Rows(sink) : i < j => sink[i].frame.n < sink[j].frame.n

\* stdout and <base>.csv hold exactly the frames they are to hold, in their order, and
\* <base>.raw.txt every frame of a live source, the ones that match no signal included;
\* with --stdout-csv the header is there once, and before the first row.
SinksFaithful ==
    src.seen # <<>> =>
        /\ opts.stdoutCsv \/ opts.target = "file:csv" => Holds(out, Due)
        /\ opts.log = "base" /\ opts.target # "file:csv" => Holds(csv, Due)
        /\ opts.log = "base" /\ (isDemo(opts.target) \/ isUsb(opts.target) \/ isTcp(opts.target))
              => raw = src.seen
        /\ opts.stdoutCsv =>
              \E h \in DOMAIN out :
                 \A i \in DOMAIN out : /\ out[i] = Item("header") <=> i = h
                                       /\ out[i].what = "row" => i > h

\* When frame f is to be written: the first kept frame as soon as it is read, a later one at
\* its own distance from it.
DueAt(f) ==
    LET first == src.seen[Min(Kept)]
    IN  first.pulled + (IF opts.target = "file:csv" /\ opts.fixed THEN (f.n - 1) * IntervalMs
                        ELSE f.ts - first.ts)

\* A replay keeps an absolute schedule: a frame is written when it is due, or at once when that
\* has passed; however late sleeps end and however long rows take, nothing adds up.
PacedToSchedule ==
    isFile(opts.target) =>
        \A i \in Rows(out) :
            LET f == out[i].frame
            IN  IF f.pulled >= DueAt(f) THEN out[i].at = f.pulled
                ELSE out[i].at \in DueAt(f)..(DueAt(f) + MaxLate)

\* A run writes what it is to write, and when: no frame is lost, doubled or reordered, and a
\* replay keeps its recording's time.
RowsFaithful == SinksFaithful /\ PacedToSchedule

\* An arrow never quits and no other key is lost: what the provider sees and the arrows
\* account for every key that was read, but for an escape sequence still being typed; an ESC
\* comes through only because no '[' followed it, and a 'q' is kept from the provider only by
\* an ESC and a '[' right before it.
Held == IF kbd.stage = "None" THEN 0 ELSE IF kbd.stage = "Escape" THEN 1 ELSE 2
KeysKept ==
    /\ Len(kbd.read) = Len(kbd.surfaced) + 3 * kbd.arrows + Held
    /\ "ESC" \in ToSet(kbd.surfaced) =>
          \E i \in 1..(Len(kbd.read) - 1) : kbd.read[i] = "ESC" /\ kbd.read[i + 1] # "["
    /\ ~ kbd.quit =>
          \A i \in DOMAIN kbd.read :
             kbd.read[i] = "q" => i > 2 /\ kbd.read[i - 1] = "[" /\ kbd.read[i - 2] = "ESC"

\* poll() returns every address once, each of a packet it could parse, and comes back empty
\* only if every packet it could parse is still waiting in the socket.
DevicesFound ==
    [][ EndPoll =>
          /\ \A i, j \in DOMAIN found' : found'[i] = found'[j] => i = j
          /\ \A a \in ToSet(found') : [from |-> a, parses |-> TRUE] \in ToSet(heard)
          /\ found' = <<>> =>
                \A i \in 1..(Len(heard) - Len(disc.queue)) : ~ heard[i].parses ]_vars

\* Ctrl-C ends the run, whatever it is doing, unless the peer of its TCP connection goes on and
\* on sending; and a search for a device ends by itself.
Streaming == pc = "lines" /\ isTcp(opts.target) /\ src.busy
RunEnds == /\ interrupted ~> Ended \/ Streaming
           /\ Polling ~> ~ Polling

\* What LiveRunContext tells the user of every live source: "Press Ctrl+C to stop".
CtrlCStops == interrupted ~> Ended

\* With --stdout-csv, the stdout of a replay or a live stream is the hint, the header and
\* the rows, nothing else.
StdoutStaysPipeable ==
    opts.stdoutCsv /\ pc \in {"frames", "rows", "lines"} => Item("text") \notin ToSet(out)
=============================================================================
