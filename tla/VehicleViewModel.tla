--------------------------- MODULE VehicleViewModel ---------------------------
(***************************************************************************)
(* The iOS application's connection to an ESP32: the view model on the     *)
(* main thread, with its timers and the blocks other threads post to it,   *)
(* and the work queue, one operation at a time, whose connect() calls      *)
(* block.  The C++ source behind both is one variable: connect() stops the *)
(* old one and installs a new one, stop() on the main thread may come in   *)
(* between.  The pipeline thread of a source takes lines of the bridge     *)
(* through the translation service, which the main thread and the work     *)
(* queue load vehicles into.                                               *)
(*                                                                         *)
(* Left out: scanning and connecting over BLE; connectToESP32() and        *)
(* trustESP32(), which nothing calls.  Time is only what the timers tell   *)
(* apart: a timer that is armed may fire whenever it likes.                *)
(***************************************************************************)
EXTENDS DbcTranslation
LOCAL INSTANCE SequencesExt

CONSTANTS Devices,       \* the ESP32s that broadcast
          Strangers,     \* those of them that refuse this application's token
          None,          \* no device
          FirstVehicle,  \* the vehicle the picker starts with, by the order of the registry
          MaxFails,      \* bound on the failures of the UDP listener
          MaxWaits,      \* bound on the checks for a candidate while a hunt waits
          MaxLines,      \* bound on the lines of a session
          MaxUser,       \* bound on what the user does
          MaxOutages     \* bound on what happens to the devices

ASSUME ViewModelAssumption ==
    /\ Strangers \subseteq Devices /\ None \notin Devices
    /\ FirstVehicle \in Vehicles /\ MaxFails \in Nat /\ MaxWaits \in Nat \ {0} /\ MaxLines \in Nat /\ MaxUser \in Nat /\ MaxOutages \in Nat

VARIABLES
    vm,      \* the view model
    source,  \* the wrapper's signal source: its peer, its state, its latest signal and what it was sent
    service, \* the translation service
    queue,   \* the operations of connectionWorkQueue, the running one first
    phase,   \* where the running operation is
    blocks,  \* what was posted to the main thread and has not run
    up,      \* the devices that are on
    user,    \* how much the user has done
    outages  \* how much has happened to the devices

vars == << vm, source, service, queue, phase, blocks, up, user, outages >>

Modes == {"ble", "wifi", "demo"}
NoSource == [from |-> None, alive |-> FALSE, flowing |-> FALSE, latest |-> NoReadings, sent |-> {}]
Demo == [NoSource EXCEPT !.alive = TRUE, !.flowing = TRUE]
TcpSource(d) == [Demo EXCEPT !.from = d]

\* A reading out of freed memory.
Anything == <<0, 0>>

\* Lines of a bus: a drive state, a short one, a negative torque, an error code for a speed, and
\* one whose id looks like an OBD2 response.
Bus == { [id |-> 280, bytes |-> <<0, 0, 128, 0, 100, 0, 0, 0>>], [id |-> 280, bytes |-> <<0, 0, 224>>],
         [id |-> 264, bytes |-> <<0, 0, 0, 248, 255, 0, 0, 0>>],
         [id |-> 256, bytes |-> <<0, 0, 0, 0, 254, 255, 0, 0>>], [id |-> 1089, bytes |-> <<255>>] }

Operation(kind, d) == [kind |-> kind, target |-> d, waits |-> 0]
Block(what, d) == [what |-> what, device |-> d]

-----------------------------------------------------------------------------
(***************************************************************************)
(* The view model's methods, each from view model to view model, or to the *)
(* set of those it may leave behind.                                       *)
(***************************************************************************)

\* startPolling(): with a heartbeat of its own, so that nothing is stale yet.
startPolling(v) == [v EXCEPT !.polling = TRUE, !.stale = FALSE]
stopUpdates(v) == [v EXCEPT !.polling = FALSE]

\* stopESP32Discovery(): the listener and the retry timer.
stopESP32Discovery(v) == [v EXCEPT !.listener = "off", !.retry = "none"]

\* scheduleDiscoveryRetry() on the main thread; called by onError on the listener's queue,
\* the timer is of a thread without a run loop and never fires.
scheduleDiscoveryRetry(v, timer) ==
    IF v.retry = "none" THEN [v EXCEPT !.retry = timer] ELSE v

\* startESP32Discovery(): always afresh; the listener may not start.
startESP32Discovery(v) ==
    LET stopped == IF v.listener # "off" THEN stopESP32Discovery(v) ELSE v
        cleared == [stopped EXCEPT !.listed = {}, !.auto = None]
    IN  {[cleared EXCEPT !.listener = "on"]}
            \cup {[scheduleDiscoveryRetry(cleared, "armed") EXCEPT !.fails = n] :
                     n \in {cleared.fails + 1} \cap 1..MaxFails}

stopReconnectLoop(v) == [v EXCEPT !.reconnect = FALSE]

\* A fault: the guard is the wrong way round.
FaultScheduleReconnect(v) == [v EXCEPT !.reconnect = v.mode = "wifi" /\ v.state = "connected"]
\* scheduleReconnect(): not for a session, nor outside WiFi mode.
scheduleReconnect(v) == [v EXCEPT !.reconnect = v.mode = "wifi" /\ v.state # "connected"]

\* disconnect(), the wrapper's source aside.
disconnect(v) ==
    LET stopped == stopReconnectLoop(stopUpdates([v EXCEPT !.state = "disconnected"]))
    IN  IF v.mode = "wifi" THEN startESP32Discovery(stopped) ELSE {stopped}

\* onConnectionModeChanged() behind its disconnect().
EnterMode(v) ==
    LET left == IF v.mode # "wifi" THEN stopReconnectLoop(v) ELSE v
    IN  IF v.mode = "ble" THEN {stopESP32Discovery(left)}
        ELSE IF v.mode = "wifi" THEN startESP32Discovery(left)
        ELSE {startPolling([stopESP32Discovery(left) EXCEPT !.state = "connected"])}

-----------------------------------------------------------------------------
\* The saved mode and the remembered device; a saved demo is not started, and the application
\* becoming active starts the discovery.
Init ==
    /\ \E mode \in Modes, device \in Devices \cup {None} :
          vm = [ mode |-> mode, state |-> "disconnected", active |-> FALSE,
                 listener |-> "off", retry |-> "none", listed |-> {}, skip |-> {},
                 auto |-> None, remembered |-> device, lastAddress |-> None,
                 polling |-> FALSE, stale |-> FALSE, reconnect |-> FALSE,
                 vehicle |-> FirstVehicle, fails |-> 0 ]
    /\ source = NoSource /\ service = Fresh("generic")
    /\ queue = <<>> /\ phase = "idle" /\ blocks = <<>>
    /\ up = Devices /\ user = 0 /\ outages = 0

\* The user picks a mode; a session that is not disconnected is stopped first.
SetMode ==
    /\ user < MaxUser /\ user' = user + 1
    /\ \E mode \in Modes \ {vm.mode} :
          LET v == [vm EXCEPT !.mode = mode, !.skip = {}]
          IN  /\ \E w \in (IF v.state # "disconnected" THEN disconnect(v) ELSE {v}) :
                    vm' \in EnterMode(w)
              /\ source' = IF mode = "demo" THEN Demo
                           ELSE IF v.state # "disconnected" THEN NoSource ELSE source
    /\ UNCHANGED << service, queue, phase, blocks, up, outages >>

\* The Disconnect button.
Disconnect ==
    /\ user < MaxUser /\ user' = user + 1
    /\ vm.state = "connected"
    /\ vm' \in disconnect(vm)
    /\ source' = NoSource
    /\ UNCHANGED << service, queue, phase, blocks, up, outages >>

\* The vehicle picker; switchVehicleType() loads under the running source.  Its thread may be in
\* the translator that is being replaced, or see the definitions under it go: it may then
\* publish anything.
PickVehicle ==
    /\ user < MaxUser /\ user' = user + 1
    /\ \E v \in Vehicles \ {vm.vehicle} :
          /\ vm' = [vm EXCEPT !.vehicle = v]
          /\ IF vm.state = "connected"
             THEN /\ service' = loadVehicleFromPath(service, v)
                  /\ \/ UNCHANGED source
                     \/ /\ source.from # None /\ source.alive /\ source.flowing
                        /\ isCANProtocol(service.vehicle)
                        /\ source' = [source EXCEPT !.latest = [f \in Fields |-> Anything]]
             ELSE UNCHANGED << source, service >>
    /\ UNCHANGED << queue, phase, blocks, up, outages >>

\* pauseDiscoveryIfNeeded(): the app goes to the background.
Pause ==
    /\ user < MaxUser /\ user' = user + 1
    /\ vm.active
    /\ LET v == [vm EXCEPT !.active = FALSE]
       IN  vm' = IF v.mode = "wifi" /\ v.state # "connected" THEN stopESP32Discovery(v) ELSE v
    /\ UNCHANGED << source, service, queue, phase, blocks, up, outages >>

\* resumeDiscoveryIfNeeded(): the app comes to the foreground.
Resume ==
    /\ ~ vm.active
    /\ LET v == [vm EXCEPT !.active = TRUE]
       IN  IF v.mode # "wifi" THEN vm' = v
           ELSE LET w == [v EXCEPT !.skip = {}]
                IN  vm' \in IF w.listener = "off" THEN startESP32Discovery(w) ELSE {w}
    /\ UNCHANGED << source, service, queue, phase, blocks, up, user, outages >>

\* onDiscovered: a broadcast is heard, and the device connected to if nothing stands against it.
Discovered(d) ==
    /\ vm.listener = "on" /\ d \in up /\ d \notin vm.skip
    /\ LET v == [vm EXCEPT !.listed = @ \cup {d}]
       IN  IF /\ v.mode = "wifi" /\ v.state = "disconnected" /\ v.auto = None
              /\ v.remembered \in {None, d}
           THEN /\ vm' = [stopESP32Discovery(v) EXCEPT !.auto = d, !.state = "connecting"]
                /\ queue' = Append(queue, Operation("hunt", d))
           ELSE vm' = v /\ UNCHANGED queue
    /\ UNCHANGED << source, service, phase, blocks, up, user, outages >>

\* onError: the listener fails after it was started, and stays as it is.
ListenerFailed ==
    /\ vm.fails < MaxFails /\ vm.listener = "on"
    /\ vm' = scheduleDiscoveryRetry([vm EXCEPT !.listener = "failed", !.fails = @ + 1], "dead")
    /\ UNCHANGED << source, service, queue, phase, blocks, up, user, outages >>

\* The retry timer: what it wants to do it posts.
RetryFires ==
    /\ vm.retry = "armed"
    /\ IF vm.mode = "wifi" /\ vm.state # "connected"
       THEN blocks' = Append(blocks, Block("retry", None)) /\ vm' = [vm EXCEPT !.retry = "fired"]
       ELSE vm' = [vm EXCEPT !.retry = "none"] /\ UNCHANGED blocks
    /\ UNCHANGED << source, service, queue, phase, up, user, outages >>

-----------------------------------------------------------------------------
(***************************************************************************)
(* The timers of a connection.                                             *)
(***************************************************************************)

\* A second passes since the last heartbeat.
HeartbeatAges ==
    /\ vm.polling /\ ~ vm.stale
    /\ vm' = [vm EXCEPT !.stale = TRUE]
    /\ UNCHANGED << source, service, queue, phase, blocks, up, user, outages >>

\* The wrapper's isConnectionAlive, and its isReceivingData: that is asked of the detector of
\* the BLE manager, which no frame of a TCP source ever reaches.
isConnectionAlive == source.alive
isReceivingData == FALSE

\* checkConnectionLiveness(): the transport is dead, or the heartbeat is.
IsLost(v) ==
    /\ v.mode = "wifi" /\ v.state = "connected"
    /\ ~ isConnectionAlive \/ v.stale

\* updateTelemetry() and checkConnectionLiveness(): a lost connection starts the reconnect loop.
PollTick ==
    /\ vm.polling
    /\ LET v == [vm EXCEPT !.stale = @ /\ ~ isReceivingData]
       IN  IF IsLost(v)
           THEN /\ vm' = scheduleReconnect(stopUpdates([v EXCEPT !.state = "disconnected"]))
                /\ source' = NoSource
           ELSE vm' = v /\ UNCHANGED source
    /\ UNCHANGED << service, queue, phase, blocks, up, user, outages >>

\* checkPendingReconnect() and attemptReconnect(): the last address, or a search.
ReconnectFires ==
    /\ vm.reconnect
    /\ LET v == [vm EXCEPT !.reconnect = FALSE]
       IN  IF v.lastAddress # None
           THEN /\ vm' = v
                /\ queue' = Append(queue, Operation("reconnect", v.lastAddress))
           ELSE /\ \E w \in startESP32Discovery(v) : vm' = scheduleReconnect(w)
                /\ UNCHANGED queue
    /\ UNCHANGED << source, service, phase, blocks, up, user, outages >>

-----------------------------------------------------------------------------
(***************************************************************************)
(* The work queue.                                                         *)
(***************************************************************************)

Running == Head(queue)
Finished == phase' = "idle" /\ queue' = Tail(queue)
Post(bs) == blocks' = blocks \o bs

\* connectToDevice: the running source is stopped first, and the vehicle loaded.
ConnectStops ==
    /\ phase = "idle" /\ queue # <<>>
    /\ phase' = "opening"
    /\ source' = NoSource
    /\ service' = loadVehicleFromPath(service, vm.vehicle)
    /\ UNCHANGED << vm, queue, blocks, up, user, outages >>

\* connectTCP: the transport opens and the source is installed, or the device does not answer
\* or refuses.  A hunt that failed first posts what it has to say about the device.
ConnectOpens ==
    /\ phase = "opening"
    /\ IF Running.target \in up \ Strangers
       THEN /\ source' = TcpSource(Running.target)
            /\ Post(<<Block(IF Running.kind = "hunt" THEN "connected" ELSE "reconnected",
                            Running.target)>>)
            /\ Finished
       ELSE /\ UNCHANGED source
            /\ IF Running.kind = "hunt"
               THEN /\ Post(<<Block("failed", Running.target), Block("rediscover", None)>>)
                    /\ phase' = "waiting" /\ UNCHANGED queue
               ELSE Post(<<Block("reconnect failed", None)>>) /\ Finished
    /\ UNCHANGED << vm, service, up, user, outages >>

\* A fault: the operation just ends.
FaultHuntAsks ==
    /\ phase = "waiting"
    /\ IF Running.waits < MaxWaits
       THEN /\ Post(<<Block("check", None)>>)
            /\ phase' = "asking"
            /\ queue' = [queue EXCEPT ![1].waits = @ + 1]
       ELSE Finished /\ UNCHANGED blocks
    /\ UNCHANGED << vm, source, service, up, user, outages >>

\* The hunt asks the main thread for a candidate and waits for the answer; the two questions
\* it asks there are one, as no answer to the first depends on the second.
HuntAsks ==
    /\ phase = "waiting"
    /\ IF Running.waits < MaxWaits
       THEN /\ Post(<<Block("check", None)>>)
            /\ phase' = "asking"
            /\ queue' = [queue EXCEPT ![1].waits = @ + 1]
       ELSE Post(<<Block("ended", None)>>) /\ Finished
    /\ UNCHANGED << vm, source, service, up, user, outages >>

-----------------------------------------------------------------------------
(***************************************************************************)
(* The blocks, in the order they were posted.                              *)
(***************************************************************************)

Doing(what) == blocks # <<>> /\ Head(blocks).what = what
About == Head(blocks).device

\* A hunt's connect() succeeded.
OnConnected ==
    /\ Doing("connected")
    /\ vm' = startPolling([vm EXCEPT !.state = "connected", !.lastAddress = About,
                                     !.auto = About, !.remembered = About])
    /\ blocks' = Tail(blocks)
    /\ UNCHANGED << source, service, queue, phase, up, user, outages >>

\* A fault: the timer of the telemetry is not started again.
FaultOnReconnected ==
    /\ Doing("reconnected")
    /\ vm' = stopReconnectLoop([vm EXCEPT !.state = "connected"])
    /\ blocks' = Tail(blocks)
    /\ UNCHANGED << source, service, queue, phase, up, user, outages >>

\* A reconnect succeeded.
OnReconnected ==
    /\ Doing("reconnected")
    /\ vm' = stopReconnectLoop(startPolling([vm EXCEPT !.state = "connected"]))
    /\ blocks' = Tail(blocks)
    /\ UNCHANGED << source, service, queue, phase, up, user, outages >>

\* A reconnect failed: discovery, and the next attempt.
OnReconnectFailed ==
    /\ Doing("reconnect failed")
    /\ \E w \in startESP32Discovery(vm) : vm' = scheduleReconnect(w)
    /\ blocks' = Tail(blocks)
    /\ UNCHANGED << source, service, queue, phase, up, user, outages >>

\* The device a hunt could not connect to is skipped and no longer listed.
Skipped(v, d) == [v EXCEPT !.skip = @ \cup {d}, !.listed = @ \ {d}]

OnFailed ==
    /\ Doing("failed")
    /\ vm' = Skipped(vm, About)
    /\ blocks' = Tail(blocks)
    /\ UNCHANGED << source, service, queue, phase, up, user, outages >>

\* A hunt that failed, and a retry timer, want discovery back.
OnRediscover ==
    /\ Doing("rediscover") \/ Doing("retry")
    /\ LET v == IF Doing("retry") THEN [vm EXCEPT !.retry = "none"] ELSE vm
       IN  IF v.mode = "wifi" /\ v.state # "connected"
              /\ (Doing("retry") => v.listener = "off")
           THEN vm' \in startESP32Discovery(v)
           ELSE vm' = v
    /\ blocks' = Tail(blocks)
    /\ UNCHANGED << source, service, queue, phase, up, user, outages >>

\* The hunt's questions: go on with another device, stop, or wait.
OnCheck ==
    /\ Doing("check")
    /\ LET abort      == vm.mode # "wifi" \/ vm.state = "connected"
           candidates == vm.listed \ vm.skip
       IN  IF abort
           THEN /\ blocks' = Append(Tail(blocks), Block("ended", None))
                /\ Finished
           ELSE IF candidates # {}
           THEN /\ \E d \in candidates :
                      queue' = [queue EXCEPT ![1] = Operation("hunt", d)]
                /\ blocks' = Append(Tail(blocks), Block("pause", None))
                /\ phase' = "idle"
           ELSE phase' = "waiting" /\ blocks' = Tail(blocks) /\ UNCHANGED queue
    /\ UNCHANGED << vm, source, service, up, user, outages >>

\* A hunt goes on with another device.
OnPause ==
    /\ Doing("pause")
    /\ vm' = stopESP32Discovery(vm)
    /\ blocks' = Tail(blocks)
    /\ UNCHANGED << source, service, queue, phase, up, user, outages >>

\* A fault: a hunt that found nobody leaves discovery as it is.
FaultOnEnded ==
    /\ Doing("ended")
    /\ vm' = [vm EXCEPT !.state = "disconnected"]
    /\ blocks' = Tail(blocks)
    /\ UNCHANGED << source, service, queue, phase, up, user, outages >>

\* A hunt found nobody.
OnEnded ==
    /\ Doing("ended")
    /\ LET v == [vm EXCEPT !.state = "disconnected"]
       IN  vm' \in IF v.mode = "wifi" THEN startESP32Discovery(v) ELSE {v}
    /\ blocks' = Tail(blocks)
    /\ UNCHANGED << source, service, queue, phase, up, user, outages >>

-----------------------------------------------------------------------------
(***************************************************************************)
(* The devices: power, the connection, and what flows over it.             *)
(***************************************************************************)

PowerOff(d) ==
    /\ d \in up /\ outages < MaxOutages /\ outages' = outages + 1
    /\ up' = up \ {d}
    /\ UNCHANGED << vm, source, service, queue, phase, blocks, user >>

PowerOn(d) ==
    /\ d \notin up
    /\ up' = up \cup {d}
    /\ UNCHANGED << vm, source, service, queue, phase, blocks, user, outages >>

\* A device that is off goes silent; the transport notices, or does not.
GoesSilent ==
    /\ source.from # None /\ source.from \notin up /\ source.flowing
    /\ \E alive \in BOOLEAN : source' = [source EXCEPT !.flowing = FALSE, !.alive = alive]
    /\ UNCHANGED << vm, service, queue, phase, blocks, up, user, outages >>

\* runPipeline: a line, through the service, to the latest signal.
LineArrives ==
    /\ source.from # None /\ source.alive /\ source.flowing
    /\ Cardinality(source.sent) < MaxLines
    /\ \E line \in {l \in Bus : isTwaiLine(l)} :
          LET frame == nextFrame(line)
              after == AfterFrame(service, frame)
          IN  /\ service' = after
              /\ source' = [source EXCEPT !.sent = @ \cup {line},
                                          !.latest = IF Translates(service, frame)
                                                     THEN translate(after) ELSE @]
    /\ UNCHANGED << vm, queue, phase, blocks, up, user, outages >>

Main ==
    \/ OnConnected \/ OnReconnected \/ OnReconnectFailed \/ OnFailed \/ OnRediscover
    \/ OnCheck \/ OnPause \/ OnEnded
Work == ConnectStops \/ ConnectOpens \/ HuntAsks
World == SetMode \/ Disconnect \/ PickVehicle \/ LineArrives \/ Pause \/ ListenerFailed
           \/ GoesSilent \/ \E d \in Devices : PowerOff(d) \/ PowerOn(d)

Next == Main \/ Work \/ World \/ Resume \/ RetryFires \/ HeartbeatAges \/ PollTick
          \/ ReconnectFires \/ \E d \in Devices : Discovered(d)

\* The run loop runs blocks and timers, the queue its operations; time passes, devices that
\* are on broadcast, and one that lost its power falls silent.
Spec ==
    /\ Init /\ [][Next]_vars
    /\ WF_vars(Main) /\ WF_vars(Work) /\ WF_vars(Resume)
    /\ WF_vars(RetryFires) /\ WF_vars(HeartbeatAges) /\ WF_vars(PollTick)
    /\ WF_vars(ReconnectFires) /\ WF_vars(GoesSilent)
    /\ \A d \in Devices : WF_vars(Discovered(d))

-----------------------------------------------------------------------------
\* Every variable has its type.
TypeOK ==
    /\ vm.mode \in Modes /\ vm.state \in {"disconnected", "connecting", "connected"}
    /\ vm.listener \in {"off", "on", "failed"}
    /\ vm.retry \in {"none", "armed", "fired", "dead"}
    /\ vm.listed \cup vm.skip \cup up \subseteq Devices
    /\ phase \in {"idle", "opening", "waiting", "asking"}
    /\ queue = <<>> => phase = "idle"

\* In the foreground and in WiFi mode, an application that is not connected has something
\* coming that may connect it: a listener, a timer or an operation (the mode, the lifecycle and
\* the ends of hunts, VehicleViewModel.swift).  A listener that failed while it ran counts,
\* though nothing starts it again.
NeverStranded ==
    vm.mode = "wifi" /\ vm.active /\ vm.state # "connected" =>
        \/ vm.listener # "off" \/ vm.retry \in {"armed", "fired"} \/ vm.reconnect
        \/ queue # <<>> \/ blocks # <<>>

\* "Connecting" is shown only while an operation is under way or has its end to tell: whatever
\* the modes, timers and sessions in between, the view does not get stuck in it.
ConnectingHasOp ==
    vm.state = "connecting" =>
        \/ queue # <<>>
        \/ \E i \in DOMAIN blocks : blocks[i].what \in {"connected", "reconnected", "ended"}

\* What a line says of a reading, the bits of a signal taken by arithmetic.
Says(line, f) ==
    LET frame == nextFrame(line)
        Of(def) == IF f = "gearSelector"
                   THEN mapValueTableToGear(RawByArithmetic(frame.data, def), def.valueTable)
                   ELSE Just(applyScaleOffsetClamp(RawByArithmetic(frame.data, def), def))
    IN  {Of(r[2]) : r \in {q \in UNION {Resolved[v] : v \in DOMAIN Resolved} :
                              q[1] = f /\ q[2].canId = line.id}}
        \cup IF f = "accelerationG" /\ isValidPacket(frame) THEN {Just(2 * frame.data[1] - 255)} ELSE {}

\* On the lines of the bus every mapped signal reads as the arithmetic says, or as nothing, and
\* both files have signals.
ASSUME DecodesAssumption ==
    /\ \A v \in DOMAIN Parsed : Parsed[v] # {}
    /\ \A line \in Bus, v \in DOMAIN Resolved : \A r \in Resolved[v] :
          r[2].canId = line.id =>
             Reading(r[1], r[2], nextFrame(line).data) \in {Nothing} \cup Says(line, r[1])

\* What the application shows of a bridge, the bridge has sent in this session, through
\* reconnects, changes of the vehicle and of the device; or a picked vehicle took the
\* definitions away under the pipeline (VehicleSimWrapper.mm, DBCTranslationService.cpp).
ReadingsFit ==
    source.from # None =>
        \A f \in Fields : source.latest[f] \in {Nothing, Anything}
                              \cup UNION {Says(line, f) : line \in source.sent}

\* A session over which nothing flows any more is not shown as connected for ever
\* (checkConnectionLiveness()).
DropNoticed ==
    (vm.mode = "wifi" /\ vm.state = "connected" /\ ~ source.flowing)
        ~> ~ (vm.mode = "wifi" /\ vm.state = "connected" /\ ~ source.flowing)

\* With the application in the foreground and in WiFi mode, the device of the last session on
\* and not on the skip list, the application is connected again and again: the reconnect loop
\* and the hunts do not wear out, nor get into each other's way for good.  A listener that
\* failed is excepted.
Settled ==
    vm.mode = "wifi" /\ vm.active /\ vm.lastAddress \in up \ vm.skip /\ vm.listener # "failed"
Reconnects == <>[]Settled => []<>(vm.state = "connected")

\* A session whose device is on and sends is not given up by the telemetry timer
\* (VehicleViewModelHeartbeatTests.swift: "Connection should stay connected with active data").
LiveSessionKept ==
    [][ vm.polling /\ ~ vm'.polling /\ user' = user
            => vm.mode # "wifi" \/ ~ source.alive \/ ~ source.flowing ]_vars
=============================================================================
