# vehicle-sim in TLA+

Formal models of vehicle-sim: an ESP32 that streams a vehicle's CAN frames over WiFi
and TCP, the host program that connects to it, decodes the frames and replays them,
and the iOS application that does the same on a phone. The models follow the code
under `src/`; names of definitions are the code's where TLA+ allows it, and
`PROJECT.json` maps every definition to its lines.

`tlc -config <cfg> <module>` runs a check, `tlapm <proof module>.tla` the proofs.

## 1. Inventory

Firmware (`src/firmware`): one loop task runs `loop()`; the WiFi event task calls
`onDisconnected` on another core, with no lock between them; SNTP calls back from a
task of its own. Host (`src/src`): a command-line program and a library that an iOS
application also uses, with a reading thread, a discovery thread during a hunt, a
polling thread and CoreBluetooth's queue in a BLE session, and signal handlers that set
a stop token. iOS (`src/vehicle-sim-ios`): a view model on the main thread, its timers,
a serial work queue whose connects block, and the pipeline thread of the library.

| component | state | operations | hard part |
|---|---|---|---|
| WiFi state machine (`WiFiManager`) | connection state, timers, auth campaign, reasons, re-bind flag | one handler per state, `AuthCampaign::tick`, `onDisconnected`, `applyStateTransition` | callback between the halves of `update()`; timers set by one task and read by another |
| Firmware loop (`can-bridge.ino`, `FirmwareApp`) | global handle of the TCP client, re-bind flag | `loop()`, `restartTcpServerIfNeeded`, `FirmwareApp::update` | order of the phases; two handles of one socket |
| TCP server (`TcpServerManager`) | client, its address, partial line | `cycle()`: accept, greet, serve, drop | replacement, coalesced and split commands |
| CAN streaming (`CanBridge`) | monitor flag, TWAI queue | `processFrames` | stops when a handle is stale |
| AT commands (`AtCommandDispatcher`) | monitor, credentials, token, reboot | one handler per command | stores and restarts half-way |
| Stores (`NvsWifiCredentialStore`, `TokenStore`, `FactoryReset`) | NVS keys | store, load, reset | several writes, power loss between them |
| Serial framer | line, overflow flag | one byte at a time | lines longer than the budget |
| Discovery beacon, NTP, LED, link events | stamps, attempts, a step of a pattern | one tick each, two callbacks | cadence, wrap-around, a pattern changed at its end |
| OTA (`OtaUpdateServer`) | update session, two slots, selection | upload events, verify, select, restart, confirm | failure and power cut at every step |
| Host TCP transport (`TCPTransport`, `TcpReader`) | socket, buffer, host, device id, retry counters | `open`, `nextLine`, `enterHuntingState`, `performPing` | discovery thread races the reconnect; stop requests |
| Host discovery (`UDPDiscovery`) | pending devices | `start`, `poll`, `stop` | early return, packets left behind, deduplication |
| Vehicle detection (`VehicleDetector`) | counts of CAN ids and answers, VIN, fuel type, recent frames | observe a frame, take a part of a VIN, tell the result, reset | answers in parts, conflicting evidence, what is left of the vehicle before |
| BLE / ELM327 sessions | prompt buffer, mode, polling thread | detect, initialise, poll, monitor, notify | three threads, lost wake-ups, late answers |
| Replay (`PipelineReplay`, pacing) | anchors, clock | next frame, gate, sleep | drift, boundaries |
| Signal domain (DBC parser, mapper, translators, service) | tables, the translator in use | load, translate | bit extraction, a service changed under its user |
| Command line, runners, keyboard | options, sinks, escape state | parse, validate, dispatch, run | which of many combinations reaches what |
| Provisioning CLI | console, verdict | one dialogue per operation | a device that restarts while it answers |
| iOS application | mode, connection state, timers, skip list, work queue | discover, connect, hunt, reconnect, pause | blocks and operations that outlive the mode they were posted in |

They interact as follows. The WiFi manager flags that the listening socket has to be
re-bound; `loop()` serves the flag after the TCP server has had its cycle, and stops
the `.ino`'s handle of the client on the way. The TCP server switches the CAN monitor
on when it greets a client. A connect also resets the beacon's back-off and starts NTP;
the LED shows the manager's state and the client. The host's transport finds all of this
out as lines, as silence or as the end of a connection, and starts the hunt only on the
last. A provisioning run writes a command to the serial console; the device stores and
restarts, and what the next boot's first WiFi tick finds in NVS decides between
station, access point and nothing. The iOS application learns of devices from the
beacon, dials them on its work queue, and reads the latest signal the pipeline thread
has left with the translation service.

## 2. Modules

| module | models | extends |
|---|---|---|
| `WiFiManager` | `WiFiManager.cpp` whole, the part of `loop()` around it, the radio | |
| `MCWiFiManager` | NVS images for the runs | `WiFiManager` |
| `WiFiManagerProofs` | 5 theorems | `WiFiManager` |
| `TcpServerManager` | `cycle()`, both handles, command assembly, re-bind, frames | |
| `TcpServerManagerProofs` | 3 theorems | `TcpServerManager` |
| `TCPTransport` | first connect, reading, the hunt, its discovery thread | |
| `Provisioning` | a host run, the serial line, the framer, the three NVS writes, the button check at boot and the decision of the first WiFi tick | |
| `ProvisioningProofs` | 3 theorems | `Provisioning` |
| `BootSlots` | what a device with two firmware slots promises (abstract) | |
| `OtaUpdateServer` | upload, verification, selection, restart, confirmation, rollback, and the programs that push | instantiates `BootSlots` |
| `OtaUpdateServerProofs` | 2 theorems | `OtaUpdateServer` |
| `StatusLED` | table of patterns, choice of a pattern, step machine | |
| `FirmwareTasks` | beacon, NTP, LED and link events in one iteration of `loop()` | `StatusLED` |
| `FirmwareTasksProofs` | 2 theorems | `FirmwareTasks` |
| `VehicleDetector` | which vehicle the frames come from, as functions | |
| `Elm327Session` | detection, initialisation, polling and monitoring over BLE | `VehicleDetector` |
| `TransportProofs` | 7 theorems, about both transports of the host | `Elm327Session`, `TCPTransport` |
| `CliOptions` | parsing, validation and early exits of the command line, as functions | |
| `ReplayPacing` | both replay schedules, as functions | |
| `UDPDiscovery` | binding, windows, draining and deduplication, as functions | |
| `VehicleSim` | the program from its command line to its exit | the three above |
| `VehicleSimProofs` | 4 theorems | `VehicleSim` |
| `DbcTranslation` | lines, DBC parser, bit mapper, both translators, the service | |
| `VehicleViewModel` | the iOS application, its work queue and pipeline, the devices | `DbcTranslation` |
| `VehicleViewModelProofs` | 4 theorems | `VehicleViewModel` |

**WiFiManager.** `update()` is two steps, `execute()` of one handler and
`applyStateTransition()`; the callback may run between them, so a transition can be stale
when it is applied. A handler that gives up takes a step more: it reads the reason, changes
the radio's mode and reads the reason again, and the event task may have written it in
between (`labelFallback`, `recordEscalation`). Times are ages, saturated one past the
largest value they are compared with, and `Tick` ages them all; the callback has no clock,
so a timer it sets holds an age of the boot (`retryAge' = uptime`). The radio is external:
it associates, gets or loses an address, fails, and queues a reason for the event task; with
`AutoReconnect` it tries again by itself. Credentials are an image of NVS at boot, every
prefix a cut `storeWifiCredentials` leaves among them. History variables count strategies
(`tried`), time in CONNECTING (`entryAge`) and a re-bind still owed.

**TcpServerManager.** One iteration of `loop()` is the phases serial, cycle, (auth),
update, restart, frames. Between two phases hosts connect, send and close: in the
code they can at any instruction, but what a phase reads of them it reads once, but
for the blocking read of the first line, which is a phase of its own. A line arrives
whole or as a head and a tail; `CommandAt` says what command the bytes up to a
delimiter make up, or that they are garbled. The library's `WiFiClient` is external
and modelled from its use: copies share one socket, `stop()` releases the copy it is
called on.

**TCPTransport.** The reading thread is a program counter with a step for every place
where it blocks or reads what the other thread writes. `connectAndAuth` is dial,
handshake, and the write of the device id; while the id is being written an
unsynchronised comparison in the discovery thread may come out either way. A handshake
whose peer streams skips lines (`HandshakeSkips`) for as long as it streams. Backoff is
a wait that an end of the hunt interrupts; how long it is is not modelled, the
number of retries is. Devices move between addresses, vanish with or without closing
their connections, and answer a connect or not.

**Provisioning.** A command travels as a head, a tail and the `'\r'` that ends it, so it
can be cut, partly lost, or glued to another one: `ReadsAs` says what the dispatcher
may take a line for, `Garbled` standing for a pair made of pieces of several lines.
`Appended` is the framer's budget: a line over it is thrown away, and the bytes behind
the overflow start a line. A restart or a power cut forgets RAM and loses a prefix of
what is on the wire. `storeWifiCredentials` is a step per NVS key, each of which may
fail or be the last before a cut. The button check is the first read, then one feed of
the debouncer per poll. A console line carries, for the properties, what it tells of;
`late` and `streak` are history: a run that began with an earlier one under way, and the
polls in a row that found the button down. The build has no baked-in credentials
(`WiFiManager` models those); token and TCP console are left out.

**OtaUpdateServer.** One action per upload event, the POST handler and the restart; the
`WebServer` runs the handler after the last part, so a signature sent as a part of its
own is an event like any other. `flash` holds which image a slot has and whether it is whole;
the `Update` library refuses a second session, and fails or not. Its `end(true)` completes the
image and selects its slot, before the signature is verified, and `abort()` takes neither back:
`Finish` does as the device does. The bootloader is external: `BootChoice` is the slot a
restart runs, passing over one that is not whole. **BootSlots** says what comes of all that for
whoever updates: the device runs a whole image, the next one changes only to a whole one, which
another upload may withdraw; it runs on trial, and is confirmed or taken back. That the next one
is a verified one it does not say, since the device may run another (`OtaUpdateServer_select`
below). The refinement mapping reads the three phases off the state of the selected slot and
gives an incomplete image no name, so that running one would be a step `BootSlots` does not have.

**StatusLED, FirmwareTasks.** `StepOf` and the step machine play a sequence of timed
steps. `FirmwareTasks` is an iteration in six phases; the callbacks come between any two.
Ages saturate, and `millis()` wraps around at `Clock`; `ahead` is a stamp another task took
after the loop read its own clock, the unsigned difference of which is huge. An iteration holds
the loop for up to `Hold` ticks, which an OTA upload in `otaLoop()` makes long. Whether a beacon
leaves the radio nobody learns (`DiscoveryManager.cpp:26` stamps first and ignores the result),
so `untried`, a history variable, is the time since the last one that was tried. Link events
are written by both tasks: `told` is whether the last in the log is wifi_connected, whoever
wrote it, and the drop of the event task is two steps, the manager's and its event's.

**Elm327Session.** The run context, the polling thread and the Bluetooth queue are program
counters; a wait for a prompt is the flag cleared, the wait, and a deadline that may pass
at any time. Notifications are sequences of tokens that may be cut anywhere, so an answer
may arrive behind the prompt that should have followed it.

**VehicleDetector.** Every operation holds the detector's mutex, so it is a function of the
detector's state and a frame; a frame is its size, what it begins with and its characters. Two
assumptions that TLC evaluates compare them with definitions of their own over every sequence
of up to four sample frames. `DetectorResult`: the result is about the frames since the last
reset and no other, whether the session observes them or `OBD2Protocol` hands over answers.
`DetectorSettles`: one more frame only completes a VIN, never takes back a make but for a
conflict, nor a conflict, nor confidence in the same suggestion.

**CliOptions, ReplayPacing, UDPDiscovery, VehicleSim.** A command line is a set of option
and value classes. `VehicleSim` starts from any of them and runs what `main()` picks; a
runner is a loop of steps between which a device may be heard, a plug pulled, a key
pressed or Ctrl-C given. Time is counted, so that rows have a schedule; a sleep may end
late by `MaxLate`. `poll()` drains the socket a packet a step and the interactive run its
keyboard a key a step, as the code does, so that packets and keys may come meanwhile. `src`,
`out`, `csv` and `raw` keep what was read and written, for the properties; a frame carries its
place in the source (`n`), by which the rows of a sink are compared with what is due. Only
`MaxLines` lines of a live source are kept, but it does not end there: a TCP peer may be `busy`,
sending without a pause, and then a stop is not looked at (`TcpReader.cpp:82`). `OpenLive` is the
whole of `open()`, whose handshake `TCPTransport` models, with the same hole.

**DbcTranslation, VehicleViewModel.** Bits are taken by the code's loops over bytes
(`extractRawBits`) and, for the properties, by arithmetic (`RawByArithmetic`). The DBC files
are a few lines that show each rule of the parser. The view model is one record; blocks
posted to the main queue and operations of the work queue are sequences served in order,
and a blocking connect is an operation in several phases with the main thread running in
between. The vehicle can be changed while a frame is being translated, after which a
reading is `Anything`: the parse result the translator refers to has been replaced
(`DBCTranslationService.cpp:154`), although `DBCSignalTranslator.h:40` says it must
outlive the translator.

## 3. Runs

| run | shows |
|---|---|
| `wifi_auth` | auth failures, scan misses and link-level events in any order against all NVS images: AP_DEFAULT is shown only where nothing is configured, the campaign gives up only when exhausted, a fallback without a campaign has had its whole budget |
| `wifi_link` | no auth failures, baked-in credentials, changing leases: a lost link is noticed although the poll and the event race, an AP state with credentials ends in a new attempt, nothing falls back without a campaign (`BakedKeepsTrying`), and the manager follows a radio that stays associated |
| `tcp_serve` | two hosts replacing each other, with split and coalesced commands, re-binds and restarts: `CommandsWhole`, `NoCrossTalk`, `NothingSwallowed` |
| `tcp_live` | waiting connections are taken, closed clients let go of, and a client both handles agree on keeps receiving frames |
| `hunt` | two devices, two addresses, stops and drops anywhere: sessions name their peer and the discovery thread is joined (`HuntSafe`), no stale bytes, `host_` moves only to the hunted device, exhaustion is final, every hunt ends but one whose handshake is with a peer that streams for ever |
| `provision` | short writes, over-long lines, failing NVS writes, restarts, a power cut and a button anywhere: success is the run's own and nothing glued is stored (`RunsHonest`), credentials vanish only when asked, what was stored is what the next boot joins |
| `ota` | signed, unsigned and crashing images, three kinds of pushing program, aborts, timeouts, flash errors and power cuts at any point, between `end(true)` and the verification too: the device implements `BootSlots`, a success means that very image was installed and no session outlives its request (`UpdateSafe`), an accepted image is tried by itself |
| `tasks` | links, clients, back-off resets, iterations that hold the loop and a wrapping clock: a beacon is tried within the longest interval and a slow one, plus an iteration for each; the LED is in step with its pattern, shows the client and plays on, SNTP is started boundedly often, and a log whose last link event is wifi_connected is of a device that last saw its link up, although two tasks write it |
| `elm` | late, cut and missing answers and a link that drops: commands are paced by prompts or deadlines and two threads never wait for one prompt (`SessionSafe`), the program ends after a stop or a lost link; before it starts, the detector's functions are compared with what should be said of the frames |
| `host` | every command line reaches a runner that fits it, the sinks hold exactly the frames they are to hold and on schedule (`RowsFaithful`), keys and arrows are told apart, discovery returns what it heard, Ctrl-C ends every run but one whose TCP peer goes on sending |
| `ios` | two devices, one of which refuses the token, with mode switches, pauses, vehicle changes and power cuts: never stranded, never stuck in "connecting", only readings the device sent, a dead session noticed, the device of the last session reconnected to |
| `ios_heartbeat` | *violated*: `VehicleViewModelHeartbeatTests.swift:197` "Connection should stay connected with active data"; the code drops every WiFi session, since `isReceivingData` asks a detector that no TCP frame reaches |

Types: `UpdateSafe`, `HousekeepingSafe` and `SessionSafe` have the types as their first
conjunct; those of `WiFiManager`, `Provisioning` and `VehicleViewModel` are proved
(section 4); the others have a configuration of their own, `<module>_types.cfg`.

### Bounds

Timers of the WiFi model are one or two ticks: each comparison is seen on both
sides, and the connect budget stays below the initial timeout as in the code.
`wifi_auth` has two strategies and two passes, which let an index wrap and a pass repeat; a
radio that is idle or undecided for long is in `wifi_link`.
`MaxEvents = 1` queued event still lets an event arrive before, between and after the
halves of `update()`, because the next may be queued as soon as one is delivered. Two hosts
and one queued connection suffice for a replacement; two fragments in flight and in one
drain suffice for a split command and for two coalesced ones. `RapidRetries = 2` has
an immediate and a delayed attempt, `MaxRetries = 4` two rounds of the loop, and two
devices at two addresses a match, a mismatch and a swap. `FirstBudget = 1`:
one first attempt is made, or repeated hunts start from its success. In `provision`,
two pairs (one of which the framer's budget refuses) and both restarting commands make
every mixture of two lines; five pieces on the wire are a whole command behind a short
one; `HoldTicks = 2` sees a release on either side of the threshold; one power cut comes
on top of the restarts every command causes.

`ota`: two blocks let an upload end between them; three images are a sound, a crashing and a
foreign one; uploads and power cuts are unbounded. `tasks`: the longest interval is two
ticks and the others one, each age tier is reached, an iteration lasts up to two ticks
(`Hold`), so that it alone passes an interval, and the clock wraps after four; the bound of
`BeaconKeepsPace` is reached, and one tick less is violated. Durations of one tick keep the
patterns' shapes, of which only the order and the ends of steps matter. `elm`: two commands
and two PIDs have a first, a middle and a last; three tokens of buffer overflow it; four
commands reach from initialisation into polling, two notifications in flight are a late
answer behind its prompt; a VIN of five characters comes in two parts and is cut, a ring of
two recent frames turns over. `host`: three lines with timestamps 0 to 2 have a repeated, an
early and a late one; four keys hold an arrow and a key, or a cut arrow; two windows and two
packets a device found in the second window with one packet left behind. `ios`: each bound
is 1, which is a user action, an outage, a line and a listener failure at any point of any
interleaving; timers and operations repeat without bound. 276,000 states.

### Configurations beyond the runs

These are kept beside the runs. All but the last two refute a statement of the repository; what
the matching run holds to is what is left of it.

| cfg | property | statement refuted |
|---|---|---|
| `WiFiManager_campaign_ends` | `CampaignEnds` | the campaign is "bounded, not infinite": an auth failure resets the strategy while no pass is complete |
| `WiFiManager_link_escalates` | `LinkDropNeverEscalates` | link-level drops "MUST NOT trigger AP-mode escalation" (`WiFiManager.h`): after a budget in CONNECTING they do |
| `WiFiManager_label` | `NoApMeansScanMiss` | `AP_MODE_NO_AP` is shown for a scan miss (`handleConnectFailed`): the reason recorded (`WiFiManager.cpp:160`) and the one the label is chosen by (`:162`) are two reads, with the event task between them |
| `WiFiManager_rebind` | `ConnectRearmsRebind` | an auth event clears a flagged re-bind because the next connect flags it again (`WiFiManager.cpp:694`): a connect to the same address does not |
| `TcpServerManager_rebind_silences` | `StreamsThroughRebinds` | a re-bind "cannot drop a socket the manager still holds" (`can-bridge.ino:754`): it stops the handle frames go to |
| `TCPTransport_stop` | `StopEndsRapid` | discovery's success or a stop "aborts the rapid phase immediately" (`TCPTransport.cpp:533`): not while the handshake skips the frames of a streaming peer (`:361`) |
| `OtaUpdateServer_select` | `SelectedIsVerified` | "finalize + verify signature + select boot partition" (`OtaUpdateServer.cpp:181`): `end(true)` selects when it finalizes, and a verification that fails leaves the slot selected |
| `Provisioning_half_stored` | `UnprovisionedShowsAp` | an unprovisioned device is an access point (README): `cred_count` is written first, and a cut behind it leaves neither |
| `Provisioning_reset_hangs` | `ButtonCheckEnds` | a release before the threshold ends the check (`FactoryResetCheck_test`): one between its two first reads leaves `setup()` waiting |
| `FirmwareTasks_window` | `BeaconInWindow` | the device "NEVER broadcasts slower than the CLI's AUTO_DISCOVERY_TIMEOUT_S" (`DiscoveryManager.h`): the longest interval is 30 s (`DISCOVERY_INTERVAL_5_10_MIN_MS`), the window 12 |
| `VehicleSim_stop` | `CtrlCStops` | "Press Ctrl+C to stop" (`LiveRunContext.cpp:99`): a TCP peer that never pauses keeps the reader from looking at the stop token |
| `VehicleSim_pipe` | `StdoutStaysPipeable` | with `--stdout-csv` "stdout stays pipeable" (`CliOptions.cpp:120`): progress is printed there as well |
| `Elm327Session_callback` | `CallbackThreadSafe` | "Thread-safe." (`CallbackHub.h:44`): the callback is assigned while the queue may be calling it |
| `WiFiManager_baked` | `BakedKeepsTrying`, `FollowsRadio` | (holds) the same as in `wifi_link`, with auth campaigns |
| `TcpServerManager_types`, `TCPTransport_types`, `VehicleSim_types`, `VehicleViewModel_types` | `TypeOK` | (holds) every variable has its type, at the bounds of `tcp_live`, `hunt`, `host` and `ios` |

### Fairness

`WiFiManager.FairSpec`: `loop()` is called for ever and the event task drains its queue
(weak fairness); time passes (strong, as ticks are only enabled between two iterations); the
radio owes nothing. `TcpServerManager.Spec`: `loop()` never stops and the vehicle's bus
never falls silent for good, hosts owe nothing. `TCPTransport.Spec`: both threads are
scheduled; polling an idle socket is not progress, skipping a peer's frames is what a thread
that runs may do for ever, and `select()`, network, devices and callers owe nothing.
`Provisioning.LiveSpec`: the device runs while it has power (weak fairness of its steps
together); host, button and power owe nothing. `OtaUpdateServer.Spec`: the loop task runs
(one weak fairness over its steps); programs, network and power owe nothing.
`FirmwareTasks.Spec`: the loop runs, and time passes although a tick comes only between two
iterations (strong). `Elm327Session.ElmSpec`: the three threads are scheduled, and a wait
with a deadline ends; the adapter owes nothing. `VehicleSim.Spec`: the main thread runs, and
a recording, the rows of a file and the demo deliver; USB, TCP, devices and the keyboard owe
nothing, and a TCP peer need never pause. `VehicleViewModel.Spec`: main queue, work queue
and repeating timers run; an application sent to the background comes back; a device that is
on is heard again and again, and one that is off falls silent; devices' power and the user
owe nothing.

Deadlock is checked in every run but the two of the iOS application, which may sit idle
in the background or in a mode without a session.

### Other disagreements met while modelling

No run checks these; each is in the models where its code is modelled.

*Firmware.* A campaign's give-up may record the reason of a link-level event
(`WiFiManager.cpp:528`), as may an idle radio's; that a broadcast failed nobody looks at
(`DiscoveryManager.cpp:26`, `:83`); the wifi_drop the event task writes may stay the last
event of a connected device, if the link is back before the loop looks
(`FirmwareApp.cpp:130`); an auth failure in an AP state runs the campaign there
(`WiFiManager.cpp:712`); a link-level event flags a re-bind at once instead of on reconnect
(`WiFiManager.cpp:736`); an idle radio past the initial timeout gets no further `begin()`,
whatever the comment at `WiFiManager.cpp:243` promises; a replaced client stays in the
status line if its successor is rejected (`TcpServerManager.cpp:66`); the serial budget of
64 bytes refuses legal `ATSETWIFI` lines, which may take 106 (`can-bridge.ino:133`).

*OTA.* `OTAHttpTransport` sends the signature as a part of the form (`OTAHttpTransport.h:25`)
while the server reads only the header `X-Firmware-Signature` (`OtaUpdateServer.cpp:149`),
so the server refuses its pushes, and it takes a "200" anywhere in the answer for success. After
`end(true)` the errors `UPDATE_ERROR` and the second selection (`OtaUpdateServer.cpp:206`) are for
nothing: the one cannot occur, the other has been made.

*Host TCP.* The first-connect backoff is capped at 100 ms per attempt
(`TCPTransport.cpp:737`); a second `open()` reports success after the first one failed
(`TCPTransport.cpp:701`); `nextLine()` polls a silent peer for ever (`TcpReader.cpp:87`;
`TCPTransport.h:122` says it returns); the retry counter is incremented twice per attempt,
so 60 retries are 30 attempts (`TCPTransport.cpp:645`).

*Host program.* The `--vehicle` of interactive and decoded-CSV runs is called free-form
(`CliOptions.cpp:824`) but is always validated; of several device operations in one command
only one is run; a decoded-CSV replay ignores `--start-from` and `--log`; a frame recorded
before the first one wraps past the `--start-from` gate; a bare ESC quits only when another
key follows (`CsvKeyActionTarget.h:70`); an interactive run has no handler for Ctrl-C and
leaves the terminal raw; a demo run ignores Ctrl-C; a bare `usb:` passes validation but has
no port; a packet that does not parse ends the window's drain, which leaves those behind it
to the next `poll()`; pending USB bytes are truncated at 4096; comment lines inside a block
of the examples document are kept.

*BLE.* The adapter's banner "ELM327 v1.5" parses as data; the first `BLEManager` of an
auto-detection lives until the run ends; `disconnect()` on the failure path of
`BLEConnectionManager::connect` does nothing; a late notification may find its callback's
captures gone. `OBD2Protocol` never learns the fuel type: `feedVINResponse` takes any answer
that is not empty, so what should "feed as fuel type response" (`OBD2Protocol.cpp:26`) is
appended to the VIN instead. A VIN answer of ten bytes counts as a frame of the CAN id 0x249,
and a vehicle known by its VIN is told with no confidence (`VehicleDetector.cpp:186`).

*Signal domain.* A `BO_` id above 65535 leaves the previous message's id in force
(`vw_mlb.dbc:226`); `BO_TX_BU_` and `VAL_TABLE_` match by prefix; one malformed decimal empties
the whole parse; the bounds check of `mapSignal` is the Intel one for Motorola signals too;
Audi's error codes of the speed signal clamp to 655.32 km/h, and its acceleration and brake
pressure have other units than the fields they fill; a generic vehicle over TCP takes CAN
ids 0x44x for engine load; `Model3CAN.dbc` lacks signals the mapping names.

*iOS.* A mode switched while a connect is in flight leaves the application connected in the
new mode, with a TCP source; a hunt that aborts sets "disconnected" whatever the mode; a
reconnect that failed starts discovery whatever the mode; the success of a hunt does not stop
a reconnect timer, and `attemptReconnect` tears the new session down; `retryCount` is never
incremented, so `maxRetries` is never reached; a hunt takes any listed device and overwrites
the remembered one; a device that failed is skipped until the mode changes or the application
resumes; a listener that fails after its start is not started again, although
`VehicleViewModel.swift:553` says so; a saved mode "demo" is not started at launch; a vehicle
file that cannot be loaded fails the connect and skips every device; `ContentView.swift:302`
compares with "tesla_model3", an id no vehicle has; `connect` on the work queue and `stop` on
the main thread share a `unique_ptr`; `TCPSignalSource::start` after its worker ended assigns
to a joinable thread.

## 4. Proofs

All for every value of the constants that the modules' named assumptions allow.

`WiFiManagerProofs`
- `TypeCorrect`: `TypeOK` is inductive by itself; one step per handler.
- `ApDefault`: `CredentialInv` adds what a transition about to be applied may be, for
  a state past DISCONNECTED must have had credentials before it was entered.
- `GivesUpExhausted`: `RotationInv` relates index, pass counter and the number of
  strategies applied; resetting the index to 0 in pass 0 keeps `tried` at least as
  large as the counters say. This is the fact that makes early exhaustion impossible
  although events reset the rotation.
- `WholeBudget`: `BudgetInv` says that without a pending re-anchor the time in
  CONNECTING is at least the age the fallback compares with.
- `BakedKeeps`: from the step that returns a transition and the source of credentials.

`TcpServerManagerProofs`
- `HandlesAgree`: `NoCrossTalk` is inductive: adopting assigns both handles, and every
  other step releases one or leaves both.
- `CommandsStayWhole`: `StreamInv` says that what a waiting connection has sent, and what the
  adopted one has left over followed by what it has sent, are fragments of that connection's
  own lines, each tail behind its head, and that a host goes on where they end. A connection is
  in one place (`OnePlace`), or adopting it would leave its fragments in two. The cut the
  manager makes between two reads is at a fragment, and the rest of a stream is one.
- `EveryCommandAnswered`: from `StreamInv`, since what one cycle takes is a prefix of the
  stream, and a command whose delimiter is in the prefix is the same in both.

`ProvisioningProofs`
- `TypeCorrect`: `TypeOK` with `HoldCounted`, which bounds the history variable; pieces,
  lines and images of NVS are closed under what the framer and the handlers make of them.
- `NeverWipedUnasked`: `HoldCounted` ties the debouncer's time to the polls that found the
  button down in a row while the check polls, so a confirmed hold has `HoldTicks` of
  them; the other wipe is a line that reads as ATCLEARWIFI, which only the whole does.
- `HonestRuns`: `HonestInv` has three parts. `LineInv`: what is on the wire is the rest of a
  stream of whole lines, and what the framer holds is how one of them begins or the tails of
  lines whose heads were lost to the budget or to a restart, unless a write was short; and of
  the run's own command only, if nothing was under way when it began. `StoreInv`: the handler
  stores one pair, in order, and NVS holds the keys it has passed. `ConsoleInv`: the lines the
  run may match tell of its own command. The first gives the second its pair and the second
  the third its verdict.

`OtaUpdateServerProofs`
- `UpdateHolds`: `UpdateSafe` with `SlotsInv` (what runs is whole; a slot to be tried is the
  other one, whole unless another upload is overwriting it), `RequestInv` (a request with a
  signature has the one image it is for, and what it writes to does not boot before its end) and
  `HostInv` (a 200 is of an update that was installed).
- `ImplementsSlots`: the step simulation. Every step is a stutter of `BootSlots` or its step:
  `end(true)` accepts, verified or not, the first block of a later upload withdraws. What the
  mapping shows of the next image comes from `SlotsInv`, without which the bootloader could find
  an incomplete image, which the mapping gives no name.

`FirmwareTasksProofs`
- `HousekeepingHolds`: the step of the LED is one of the pattern last played (`LedInv`), and
  the starts of SNTP are at most the attempts until it has synced (`NtpInv`): attempts may
  start from 0 after that, but nothing starts it again. The link events need no more than
  `told`: it rises only where the observer takes over a state it saw, and falls with either
  task's wifi_drop.
- `PaceHolds`: `UntriedInv` relates `untried` to the age of the last beacon and, where a reset
  set that to 0, to the uptime, which the time before the reset may exceed by an interval and
  an iteration. `PaceInv` says an iteration ends with a beacon or within an interval, so the
  clock cannot wrap around twice between two beacons; `StartInv` that there is none before
  the radio is in use.

`TransportProofs`, the ELM327 session
- `SessionHolds`: `PaceOK` counts the prompts heard, which are those sent but for the ones
  still in the air (`Unheard`): the commands sent are at most those heard, and the deadlines
  passed, and one, and no more than that while neither thread waits. Notifications must
  hold one prompt at most, at their end (`PromptLast`), or two would be counted for one
  command. `OneWaiter` needs that the polling thread lives only where the run context
  monitors, and that it is told to stop before it is joined (`ThreadsOK`).

`TransportProofs`, the TCP transport
- `SessionInv` (a connection has its handshake behind it, and the id is the peer's) and
  `HuntInv` are proved together. `HuntInv` says that while nothing has reconnected the
  id is that of the device hunted and discovery found that device, except while the id
  is being written; but then the old address has won, and what was found is not used.
- `LinkHolds`, `HuntJoins`, `SwitchesToTarget` follow: lines come only from the
  device the id names, the discovery thread never outlives the hunt, and the race on
  the id cannot send the transport to another device. `HuntLeavesSession` is the
  conjunction `hunt` checks.
- `NothingStale`: `BufferInv` says the buffer is empty between a dial and the end of its
  handshake, and otherwise holds what the present connection brought.
- `ExhaustedStays`: `OpenInv` says an exhausted transport is opened and idle, so neither
  `open()` nor `nextLine()` gets past its first condition.

`VehicleSimProofs`
- `KeysAccounted`: `KeysInv` says that an escape sequence being typed is what was read last, so
  that only its own `[` and letter are kept from the provider; without it a `q` could be
  withheld by a filter left half-way in an older sequence.
- `SearchFaithful`: `SearchInv` says that what the socket has not handed on is the end of what
  was heard, and of the rest exactly the packets that parse are pending. What
  `drainPendingDeduplicated()` makes of them is a recursive function; that it exists and holds
  every sender once is shown for every length by its least counterexample (`LeastMember`).
- `DispatchFits`: `OptionsInv` ties the place in the program to options that were parsed and
  validated, for every command line; `IdleInv` and `OutInv` say that before its runner nothing
  is read or written but text, and a device operation is named on stdout only if asked for;
  `ReplyInv` follows the bytes of the console, so that no run fails with a whole status line in them.
- `RowsWritten`: `RowsInv`, on top of those, holds for a source, the sinks and the clock: frames
  are numbered as they come; the schedule's baselines are those of the first recorded and the
  first kept frame; a frame that is held is the last one and sleeps until it is due;
  each sink has the due frames in order, and a frame that comes moves no earlier due time
  (`DueTimeStays`), as the first kept frame stays the first. So late sleeps never add up.

`VehicleViewModelProofs`
- `ViewTypes`, `Stranded`, `ConnectingEnds` follow from `ViewInv`. A block of an operation
  that goes on has the operation, or its end, behind it (`EndFollows`), so a timer that is
  dropped on the way is armed again or the operation goes on; while "connecting" is shown
  there is a hunt or the end of one (`HuntFollows`). At most one block asks at a time,
  and only while the work queue waits for its answer.
- `ReadingsHold`: `ReadInv` says that all the service has, frames and engine load, comes from
  lines the present source was sent. Its hard case is the gap in which a connect has stopped
  the old source and not installed the new one: there the service has seen nothing, and
  nothing feeds it, whatever the user picks meanwhile. Loading a vehicle forgets the old
  session only because both DBC files have signals; that, and that every mapped signal of the
  bus's lines reads as arithmetic says, is `DecodesAssumption`, which has no constants and
  which TLC evaluates: the theorem is about the control around the decoder, and the decoder is
  checked on those lines.

What proving changed in the models. The bound of `BeaconKeepsPace` was one that held only
because the run had equal fast and slow intervals: it has the longest and the slow one, and
an iteration for each. The bound that `Elm327Session`'s type invariant had for prompts held
only for a short initialisation. Some `CASE`s had guards that overlap, where the code takes
the first that holds; they are chains of conditions now. And some values that stand for
nothing (`None`, `Garbled`, `Unknown`) had to be assumed apart from the constants they are
compared with; TLC's model values are so anyway. `KeysKept` said of a withheld `q` only that
some arrow had been typed; it says now that the two keys before it were an ESC and a `[`.
`UDPDiscovery` drained a window and `VehicleSim` the keyboard in one step, although packets
and keys may come in between: both go one at a time. The rows a sink should have were
filtered sequences, and are sets of places in the source.

Only model-checked:

- everything under fairness (`NoticesDrop`, `SelfHeals`, `FollowsRadio`, `QueueServed`,
  `DropNoticed`, `Streams`, `HuntEnds`, `StoredIsJoined`, `AcceptedIsTried`, `LedPlaysOn`,
  `RunEnds`, `Reconnects` and the like), which the prover does not do;
- what functions over bits, tables and sequences of frames compute: `BitOrderAssumption`,
  `DecodesAssumption`, `DetectorResult` and `DetectorSettles`, which are about sums and folds
  and would need induction over data; TLC evaluates them over bounded inputs;
- the type invariants of `TcpServerManager`, `TCPTransport` and `VehicleSim` as they stand; the
  proofs about these carry the types they need.

Every other property of the runs that hold is stated by a theorem.

## 5. Not modelled, and the plan

Abstracted in the modelled parts: bytes of lines, frames and credentials, wording of
output; lengths of waits where only their order counts; the serial copy of frames;
the HTTP calls and the logging of `loop()`; failures of the radio API's own
calls, which the code ignores. A torn read of the device id is a wrong comparison, not
a crash. `select()` reporting an interrupt is a retry, as in the code.

Left out, and why:

- CAN driver initialisation, the rest of `setup()`: straight-line code run once.
- `performPing` and `resetStop` of the host transport; `SecureTcpTransport`,
  `TeslaBLETransport` and `OBD2Transport`: no program calls them.
- `TokenStore` with ATSETTOKEN, ATDUMPWIFI, and the store commands on the TCP console: one
  NVS key, written by the handler `Provisioning` models for credentials.
- Scanning over BLE, on host and phone: the system's own, whose results the code takes as
  they come.
- `EventDispatcher`: `TelemetryRunner` registers its consumers before the first frame and
  nothing unregisters one while frames come.
- `StatusLEDRenderer`, `LoopHeartbeat`, formatting of telemetry, the physics of the
  interactive vehicle, the views of the application: presentation.
- `connectToESP32()` and `trustESP32()` of the application, which nothing calls.

Should a program come to call them, `performPing`, `resetStop` and the dialogue of the TCP
console come next; after that the detector's two assumptions for frames of any number, by the
least counterexample as in `VehicleSimProofs`.
