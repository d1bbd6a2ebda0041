------------------------ MODULE VehicleViewModelProofs ------------------------
(***************************************************************************)
(* The application is never stranded and never stuck in "connecting", and  *)
(* shows of a bridge only what the bridge has sent.                        *)
(*                                                                         *)
(* What the view model waits for is always on its way: an operation of the *)
(* queue ends with a block that says so, and a block of an operation that  *)
(* goes on is followed by the operation or by its end.                     *)
(***************************************************************************)
EXTENDS VehicleViewModel, SequenceTheorems, TLAPS

VmFields == { "mode", "state", "active", "listener", "retry", "listed", "skip", "auto",
              "remembered", "lastAddress", "polling", "stale", "reconnect", "vehicle", "fails" }

\* A view model; a timer that never fires stands beside a listener that failed.
VmOK(v) ==
    /\ DOMAIN v = VmFields
    /\ v.mode \in Modes /\ v.state \in {"disconnected", "connecting", "connected"}
    /\ v.listener \in {"off", "on", "failed"}
    /\ v.retry \in {"none", "armed", "fired", "dead"}
    /\ v.listed \subseteq Devices /\ v.skip \subseteq Devices
    /\ v.lastAddress \in Devices \cup {None} /\ v.vehicle \in Vehicles
    /\ v.retry = "dead" => v.listener # "off"

Operations == [kind : {"hunt", "reconnect"}, target : Devices, waits : Nat]
Ends == {"connected", "reconnected", "reconnect failed", "ended"}
Others == {"rediscover", "retry", "check"}
Blocks == [what : Ends \cup Others \cup {"failed", "pause"}, device : Devices \cup {None}]

QueueOK ==
    /\ queue \in Seq(Operations) /\ up \subseteq Devices
    /\ phase \in {"idle", "opening", "waiting", "asking"}
    /\ queue = <<>> => phase = "idle"

BlocksOK ==
    /\ blocks \in Seq(Blocks)
    /\ \A i \in 1..Len(blocks) : blocks[i].what \in {"connected", "failed"} => blocks[i].device \in Devices
    /\ \A i \in 1..Len(blocks) : blocks[i].what = "check" => phase = "asking"
    /\ \A i, j \in 1..Len(blocks) : blocks[i].what = "check" /\ blocks[j].what = "check" => i = j

\* Behind a block of an operation that went on is the operation, or its end.
EndFollows ==
    \A i \in 1..Len(blocks) : blocks[i].what \in {"failed", "pause"} =>
        \/ queue # <<>>
        \/ \E j \in 1..Len(blocks) : i < j /\ blocks[j].what \in Ends

\* While it shows "connecting" there is a hunt, or the end of one.
HuntFollows ==
    vm.state = "connecting" =>
        \/ \E i \in 1..Len(queue) : queue[i].kind = "hunt"
        \/ \E i \in 1..Len(blocks) : blocks[i].what \in {"connected", "ended"}

ViewInv == VmOK(vm) /\ QueueOK /\ BlocksOK /\ EndFollows /\ HuntFollows /\ NeverStranded
-----------------------------------------------------------------------------
\* What discovery leaves of a view model alone.
Alike(v, w) ==
    /\ w.mode = v.mode /\ w.state = v.state /\ w.active = v.active
    /\ w.reconnect = v.reconnect /\ w.lastAddress = v.lastAddress

\* Something of the discovery is on its way: the listener, or the timer that starts it.
Searching(v) == v.listener # "off" \/ v.retry \in {"armed", "fired"}

\* Stopped, discovery leaves the rest alone.
LEMMA StopKeeps ==
    ASSUME NEW v, VmOK(v)
    PROVE  /\ VmOK(stopESP32Discovery(v)) /\ Alike(v, stopESP32Discovery(v))
           /\ stopESP32Discovery(v).listed = v.listed /\ stopESP32Discovery(v).skip = v.skip
BY DEF VmOK, VmFields, Alike, stopESP32Discovery

\* Started, it searches, whether or not the listener could be started.
LEMMA StartSearches ==
    ASSUME NEW v, VmOK(v), NEW w \in startESP32Discovery(v)
    PROVE  VmOK(w) /\ Alike(v, w) /\ Searching(w)
<1> DEFINE stopped == IF v.listener # "off" THEN stopESP32Discovery(v) ELSE v
           cleared == [stopped EXCEPT !.listed = {}, !.auto = None]
<1>1. VmOK(stopped) /\ Alike(v, stopped) /\ stopped.retry # "dead" /\ stopped.listener = "off"
  BY DEF VmOK, VmFields, Alike, stopESP32Discovery
<1> HIDE DEF stopped
<1>2. VmOK(cleared) /\ Alike(v, cleared) /\ cleared.retry # "dead" /\ cleared.listener = "off"
  BY <1>1 DEF VmOK, VmFields, Alike
<1>3. \/ w = [cleared EXCEPT !.listener = "on"]
      \/ \E n \in Int : w = [scheduleDiscoveryRetry(cleared, "armed") EXCEPT !.fails = n]
  BY DEF startESP32Discovery, stopped
<1> HIDE DEF cleared
<1>4. CASE w = [cleared EXCEPT !.listener = "on"]
  BY <1>2, <1>4 DEF VmOK, VmFields, Alike, Searching
<1>5. ASSUME NEW n, w = [scheduleDiscoveryRetry(cleared, "armed") EXCEPT !.fails = n]
      PROVE  VmOK(w) /\ Alike(v, w) /\ Searching(w)
  BY <1>2, <1>5 DEF VmOK, VmFields, Alike, Searching, scheduleDiscoveryRetry
<1> QED BY <1>3, <1>4, <1>5

\* Scheduled, a reconnect is pending if there is no session and the mode is WiFi.
LEMMA ScheduleKeeps ==
    ASSUME NEW v, VmOK(v)
    PROVE  /\ VmOK(scheduleReconnect(v))
           /\ scheduleReconnect(v).mode = v.mode /\ scheduleReconnect(v).state = v.state
           /\ scheduleReconnect(v).active = v.active
           /\ Searching(v) => Searching(scheduleReconnect(v))
           /\ v.mode = "wifi" /\ v.state # "connected" => scheduleReconnect(v).reconnect
BY DEF VmOK, VmFields, scheduleReconnect, Searching

\* The end of a session: in WiFi mode discovery searches again.
LEMMA DisconnectSearches ==
    ASSUME NEW v, VmOK(v), NEW w \in disconnect(v)
    PROVE  /\ VmOK(w) /\ w.mode = v.mode /\ w.state = "disconnected"
           /\ v.mode = "wifi" => Searching(w)
<1> DEFINE u == stopReconnectLoop(stopUpdates([v EXCEPT !.state = "disconnected"]))
<1>1. VmOK(u) /\ u.mode = v.mode /\ u.state = "disconnected"
  BY DEF VmOK, VmFields, stopReconnectLoop, stopUpdates
<1>2. w \in (IF v.mode = "wifi" THEN startESP32Discovery(u) ELSE {u})
  BY DEF disconnect
<1> HIDE DEF u
<1> QED BY <1>1, <1>2, StartSearches DEF Alike

\* A mode is entered: WiFi searches, the demo is connected, and nothing gets stuck.
LEMMA EnterSearches ==
    ASSUME NEW v, VmOK(v), NEW w \in EnterMode(v)
    PROVE  /\ VmOK(w) /\ w.mode = v.mode
           /\ w.state = "connecting" => v.state = "connecting"
           /\ w.mode = "wifi" => Searching(w)
<1> DEFINE left == IF v.mode # "wifi" THEN stopReconnectLoop(v) ELSE v
<1>1. VmOK(left) /\ left.mode = v.mode /\ left.state = v.state
  BY DEF VmOK, VmFields, stopReconnectLoop
<1>2. w \in (IF v.mode = "ble" THEN {stopESP32Discovery(left)}
              ELSE IF v.mode = "wifi" THEN startESP32Discovery(left)
              ELSE {startPolling([stopESP32Discovery(left) EXCEPT !.state = "connected"])})
  BY DEF EnterMode
<1> HIDE DEF left
<1>3. VmOK(stopESP32Discovery(left)) /\ Alike(left, stopESP32Discovery(left))
  BY <1>1, StopKeeps
<1>4. ASSUME NEW u, VmOK(u), NEW x, x = startPolling([u EXCEPT !.state = "connected"])
      PROVE  VmOK(x) /\ x.mode = u.mode /\ x.state = "connected"
  BY <1>4 DEF VmOK, VmFields, startPolling
<1> QED BY <1>1, <1>2, <1>3, <1>4, StartSearches DEF Alike

-----------------------------------------------------------------------------
\* What is seen of a view model by the properties.
Safe(v) == v.mode = "wifi" /\ v.active /\ v.state # "connected" => Searching(v) \/ v.reconnect

LEMMA SafeSuffices ==
    ASSUME Safe(vm)'
    PROVE  NeverStranded'
BY DEF Safe, Searching, NeverStranded

\* A step of the view model alone.
LEMMA ViewStep ==
    ASSUME ViewInv, UNCHANGED <<queue, phase, blocks>>, up' \subseteq Devices,
           VmOK(vm)', NeverStranded',
           vm'.state = "connecting" => vm.state = "connecting"
    PROVE  ViewInv'
BY DEF ViewInv, QueueOK, BlocksOK, EndFollows, HuntFollows

\* The user.
LEMMA UserStep ==
    ASSUME ViewInv, SetMode \/ Disconnect \/ PickVehicle \/ Pause \/ Resume
    PROVE  ViewInv'
<1>0. VmOK(vm) /\ NeverStranded /\ up \subseteq Devices
  BY DEF ViewInv, QueueOK
<1>1. CASE SetMode
  <2>1. PICK mode \in Modes \ {vm.mode} :
          \E w \in (IF vm.state # "disconnected"
                    THEN disconnect([vm EXCEPT !.mode = mode, !.skip = {}])
                    ELSE {[vm EXCEPT !.mode = mode, !.skip = {}]}) : vm' \in EnterMode(w)
    <3>1. \E mode \in Modes \ {vm.mode} :
             \E w \in (IF [vm EXCEPT !.mode = mode, !.skip = {}].state # "disconnected"
                       THEN disconnect([vm EXCEPT !.mode = mode, !.skip = {}])
                       ELSE {[vm EXCEPT !.mode = mode, !.skip = {}]}) : vm' \in EnterMode(w)
      BY <1>1, Zenon DEF SetMode
    <3>2. \A mode : [vm EXCEPT !.mode = mode, !.skip = {}].state = vm.state
      BY <1>0 DEF VmOK, VmFields
    <3> QED BY <3>1, <3>2
  <2> DEFINE v == [vm EXCEPT !.mode = mode, !.skip = {}]
  <2>2. VmOK(v) /\ v.state = vm.state
    BY <1>0 DEF VmOK, VmFields
  <2>3. PICK w \in (IF vm.state # "disconnected" THEN disconnect(v) ELSE {v}) :
          vm' \in EnterMode(w)
    BY <2>1
  <2> HIDE DEF v
  <2>4. VmOK(w) /\ (w.state = "connecting" => vm.state = "connecting")
    BY <2>2, <2>3, DisconnectSearches
  <2>5. /\ VmOK(vm') /\ (vm'.state = "connecting" => vm.state = "connecting")
        /\ vm'.mode = "wifi" => Searching(vm')
    BY <2>3, <2>4, EnterSearches
  <2>6. Safe(vm)' /\ VmOK(vm)'
    BY <2>5 DEF Safe, VmOK, Searching
  <2> QED BY <1>0, <1>1, <2>5, <2>6, SafeSuffices, ViewStep DEF SetMode
<1>2. CASE Disconnect
  <2>1. /\ VmOK(vm') /\ vm'.state = "disconnected" /\ vm'.mode = vm.mode
        /\ vm'.mode = "wifi" => Searching(vm')
    BY <1>0, <1>2, DisconnectSearches DEF Disconnect
  <2>2. Safe(vm)' /\ VmOK(vm)'
    BY <2>1 DEF Safe, VmOK, Searching
  <2> QED BY <1>0, <1>2, <2>1, <2>2, SafeSuffices, ViewStep DEF Disconnect
<1>3. CASE PickVehicle
  <2>1. PICK v \in Vehicles : vm' = [vm EXCEPT !.vehicle = v]
    BY <1>3 DEF PickVehicle
  <2>2. VmOK(vm)' /\ Alike(vm, vm') /\ vm'.listener = vm.listener /\ vm'.retry = vm.retry
    BY <1>0, <2>1 DEF VmOK, VmFields, Alike
  <2>3. UNCHANGED <<queue, phase, blocks, up>>
    BY <1>3 DEF PickVehicle
  <2>4. NeverStranded'
    BY <1>0, <2>2, <2>3 DEF NeverStranded, Alike
  <2> QED BY <1>0, <2>2, <2>3, <2>4, ViewStep DEF Alike
<1>4. CASE Pause
  <2> DEFINE v == [vm EXCEPT !.active = FALSE]
  <2>1. VmOK(v) /\ v.active = FALSE /\ v.state = vm.state
    BY <1>0 DEF VmOK, VmFields
  <2>2. vm' = v \/ vm' = stopESP32Discovery(v)
    BY <1>4 DEF Pause
  <2> HIDE DEF v
  <2>3. VmOK(vm') /\ vm'.active = FALSE /\ vm'.state = vm.state
    BY <2>1, <2>2, StopKeeps DEF Alike
  <2>4. Safe(vm)' /\ VmOK(vm)'
    BY <2>3 DEF Safe, VmOK
  <2> QED BY <1>0, <1>4, <2>3, <2>4, SafeSuffices, ViewStep DEF Pause
<1>5. CASE Resume
  <2> DEFINE v == [vm EXCEPT !.active = TRUE]
             x == [v EXCEPT !.skip = {}]
  <2>1. VmOK(v) /\ v.state = vm.state /\ v.mode = vm.mode
        /\ VmOK(x) /\ x.state = vm.state /\ x.listener = vm.listener
    BY <1>0 DEF VmOK, VmFields
  <2>2. IF v.mode # "wifi" THEN vm' = v
        ELSE vm' \in IF x.listener = "off" THEN startESP32Discovery(x) ELSE {x}
    BY <1>5 DEF Resume
  <2> HIDE DEF v, x
  <2>3. /\ VmOK(vm') /\ vm'.state = vm.state
        /\ vm'.mode = "wifi" => Searching(vm')
    BY <2>1, <2>2, StartSearches DEF Alike, Searching
  <2>4. Safe(vm)' /\ VmOK(vm)'
    BY <2>3 DEF Safe, VmOK, Searching
  <2> QED BY <1>0, <1>5, <2>3, <2>4, SafeSuffices, ViewStep DEF Resume
<1> QED BY <1>1, <1>2, <1>3, <1>4, <1>5

-----------------------------------------------------------------------------
\* An operation is queued.
LEMMA QueuedStep ==
    ASSUME ViewInv, NEW op \in Operations, queue' = Append(queue, op),
           UNCHANGED <<phase, blocks, up>>, VmOK(vm)',
           vm'.state = "connecting" => vm.state = "connecting" \/ op.kind = "hunt"
    PROVE  ViewInv'
<1>1. /\ queue \in Seq(Operations) /\ queue' \in Seq(Operations)
      /\ Len(queue) \in Nat /\ Len(queue') = Len(queue) + 1
      /\ \A i \in 1..Len(queue) : queue'[i] = queue[i]
      /\ queue'[Len(queue) + 1] = op
  BY AppendProperties, LenProperties DEF ViewInv, QueueOK
<1>2. queue' # <<>>
  BY <1>1, EmptySeq
<1>3. VmOK(vm)' /\ QueueOK' /\ BlocksOK' /\ EndFollows' /\ NeverStranded'
  BY <1>1, <1>2 DEF ViewInv, QueueOK, BlocksOK, EndFollows, NeverStranded
<1>4. HuntFollows'
  <2>1. CASE op.kind = "hunt"
    BY <1>1, <2>1 DEF HuntFollows
  <2>2. CASE op.kind # "hunt"
    BY <1>1, <2>2 DEF ViewInv, HuntFollows
  <2> QED BY <2>1, <2>2
<1> QED BY <1>3, <1>4 DEF ViewInv

\* What a broadcast and the timers do.
LEMMA TimerStep ==
    ASSUME ViewInv,
           \/ ListenerFailed \/ RetryFires \/ HeartbeatAges \/ PollTick \/ ReconnectFires
           \/ \E d \in Devices : Discovered(d)
    PROVE  ViewInv'
<1>0. VmOK(vm) /\ NeverStranded /\ up \subseteq Devices
  BY DEF ViewInv, QueueOK
<1>1. CASE ListenerFailed
  <2> DEFINE v == [vm EXCEPT !.listener = "failed", !.fails = @ + 1]
  <2>1. VmOK(v) /\ v.state = vm.state /\ v.listener = "failed"
    BY <1>0 DEF VmOK, VmFields
  <2>2. vm' = scheduleDiscoveryRetry(v, "dead")
    BY <1>1 DEF ListenerFailed
  <2> HIDE DEF v
  <2>3. VmOK(vm') /\ vm'.state = vm.state /\ vm'.listener = "failed"
    BY <2>1, <2>2 DEF scheduleDiscoveryRetry, VmOK, VmFields
  <2>4. Safe(vm)' /\ VmOK(vm)'
    BY <2>3 DEF Safe, VmOK, Searching
  <2> QED BY <1>0, <1>1, <2>3, <2>4, SafeSuffices, ViewStep DEF ListenerFailed
<1>2. CASE RetryFires
  <2>1. CASE vm.mode = "wifi" /\ vm.state # "connected"
    <3>1. /\ blocks' = Append(blocks, Block("retry", None)) /\ UNCHANGED <<queue, phase, up>>
          /\ vm' = [vm EXCEPT !.retry = "fired"]
      BY <1>2, <2>1 DEF RetryFires
    <3>2. VmOK(vm)' /\ vm'.retry = "fired" /\ vm'.state = vm.state
      BY <1>0, <3>1 DEF VmOK, VmFields
    <3>3. Block("retry", None) \in Blocks /\ Block("retry", None).what = "retry"
      BY DEF Block, Blocks, Others
    <3>4. /\ blocks \in Seq(Blocks) /\ blocks' \in Seq(Blocks)
          /\ Len(blocks) \in Nat /\ Len(blocks') = Len(blocks) + 1
          /\ \A i \in 1..Len(blocks) : blocks'[i] = blocks[i]
          /\ blocks'[Len(blocks) + 1].what = "retry"
      BY <3>1, <3>3, AppendProperties, LenProperties DEF ViewInv, BlocksOK
    <3>5. \A i \in 1..Len(blocks') : i \in 1..Len(blocks) \/ blocks'[i].what = "retry"
      BY <3>4
    <3>6. QueueOK' /\ BlocksOK'
      BY <3>1, <3>4, <3>5 DEF ViewInv, QueueOK, BlocksOK
    <3>7. EndFollows' /\ HuntFollows'
      BY <3>1, <3>2, <3>4, <3>5 DEF ViewInv, EndFollows, HuntFollows
    <3>8. NeverStranded'
      BY <3>2 DEF NeverStranded
    <3> QED BY <3>2, <3>6, <3>7, <3>8 DEF ViewInv
  <2>2. CASE ~(vm.mode = "wifi" /\ vm.state # "connected")
    <3>1. vm' = [vm EXCEPT !.retry = "none"] /\ UNCHANGED <<queue, phase, up, blocks>>
      BY <1>2, <2>2 DEF RetryFires
    <3>2. VmOK(vm)' /\ vm'.state = vm.state /\ vm'.mode = vm.mode
      BY <1>0, <3>1 DEF VmOK, VmFields
    <3>3. NeverStranded'
      BY <2>2, <3>2 DEF NeverStranded
    <3> QED BY <1>0, <3>1, <3>2, <3>3, ViewStep
  <2> QED BY <2>1, <2>2
<1>3. CASE HeartbeatAges
  <2>1. vm' = [vm EXCEPT !.stale = TRUE] /\ UNCHANGED <<queue, phase, up, blocks>>
    BY <1>3 DEF HeartbeatAges
  <2>2. VmOK(vm)' /\ Alike(vm, vm') /\ vm'.listener = vm.listener /\ vm'.retry = vm.retry
    BY <1>0, <2>1 DEF VmOK, VmFields, Alike
  <2>3. NeverStranded'
    BY <1>0, <2>1, <2>2 DEF NeverStranded, Alike
  <2> QED BY <1>0, <2>1, <2>2, <2>3, ViewStep DEF Alike
<1>4. CASE PollTick
  <2> DEFINE v == [vm EXCEPT !.stale = @ /\ ~ isReceivingData]
             u == stopUpdates([v EXCEPT !.state = "disconnected"])
  <2>1. /\ VmOK(v) /\ Alike(vm, v) /\ v.listener = vm.listener /\ v.retry = vm.retry
        /\ VmOK(u) /\ u.mode = v.mode /\ u.state = "disconnected"
    BY <1>0 DEF VmOK, VmFields, Alike, stopUpdates
  <2>2. /\ IF IsLost(v) THEN vm' = scheduleReconnect(u) ELSE vm' = v
        /\ UNCHANGED <<queue, phase, up, blocks>>
    BY <1>4 DEF PollTick
  <2> HIDE DEF v, u
  <2>3. CASE IsLost(v)
    <3>1. VmOK(vm') /\ vm'.state = "disconnected" /\ Safe(vm')
      BY <2>1, <2>2, <2>3, ScheduleKeeps DEF IsLost, Safe
    <3>2. VmOK(vm)' /\ Safe(vm)'
      BY <3>1 DEF Safe, VmOK, Searching
    <3> QED BY <1>0, <2>2, <3>1, <3>2, SafeSuffices, ViewStep
  <2>4. CASE ~IsLost(v)
    <3>1. VmOK(vm)' /\ vm'.state = vm.state /\ NeverStranded'
      BY <1>0, <2>1, <2>2, <2>4 DEF Alike, VmOK, NeverStranded
    <3> QED BY <1>0, <2>2, <3>1, ViewStep
  <2> QED BY <2>3, <2>4
<1>5. CASE ReconnectFires
  <2> DEFINE v == [vm EXCEPT !.reconnect = FALSE]
  <2>1. VmOK(v) /\ v.state = vm.state /\ v.lastAddress = vm.lastAddress
    BY <1>0 DEF VmOK, VmFields
  <2>2. /\ IF v.lastAddress # None
           THEN vm' = v /\ queue' = Append(queue, Operation("reconnect", v.lastAddress))
           ELSE (\E w \in startESP32Discovery(v) : vm' = scheduleReconnect(w)) /\ UNCHANGED queue
        /\ UNCHANGED <<phase, up, blocks>>
    BY <1>5 DEF ReconnectFires
  <2> HIDE DEF v
  <2>3. CASE v.lastAddress # None
    <3>1. Operation("reconnect", v.lastAddress) \in Operations
      BY <2>1, <2>3 DEF VmOK, Operation, Operations
    <3>2. VmOK(vm)' /\ vm'.state = vm.state
      BY <2>1, <2>2, <2>3 DEF VmOK
    <3> QED BY <2>2, <2>3, <3>1, <3>2, QueuedStep
  <2>4. CASE v.lastAddress = None
    <3>1. PICK w \in startESP32Discovery(v) : vm' = scheduleReconnect(w)
      BY <2>2, <2>4
    <3>2. VmOK(vm') /\ vm'.state = vm.state /\ Searching(vm')
      BY <2>1, <3>1, StartSearches, ScheduleKeeps DEF Alike
    <3>3. VmOK(vm)' /\ Safe(vm)'
      BY <3>2 DEF Safe, VmOK, Searching
    <3> QED BY <1>0, <2>2, <2>4, <3>2, <3>3, SafeSuffices, ViewStep
  <2> QED BY <2>3, <2>4
<1>6. ASSUME NEW d \in Devices, Discovered(d) PROVE ViewInv'
  <2> DEFINE v == [vm EXCEPT !.listed = @ \cup {d}]
             u == [stopESP32Discovery(v) EXCEPT !.auto = d, !.state = "connecting"]
  <2>1. /\ VmOK(v) /\ Alike(vm, v) /\ v.listener = vm.listener /\ v.retry = vm.retry
        /\ VmOK(u)
    BY <1>0 DEF VmOK, VmFields, Alike, stopESP32Discovery
  <2>2. /\ \/ vm' = u /\ queue' = Append(queue, Operation("hunt", d))
           \/ vm' = v /\ UNCHANGED queue
        /\ UNCHANGED <<phase, up, blocks>>
    BY <1>6 DEF Discovered
  <2> HIDE DEF v, u
  <2>3. CASE vm' = u /\ queue' = Append(queue, Operation("hunt", d))
    <3>1. Operation("hunt", d) \in Operations /\ Operation("hunt", d).kind = "hunt"
      BY DEF Operation, Operations
    <3>2. VmOK(vm)'
      BY <2>1, <2>3 DEF VmOK
    <3> QED BY <2>2, <2>3, <3>1, <3>2, QueuedStep
  <2>4. CASE vm' = v /\ UNCHANGED queue
    <3>1. VmOK(vm)' /\ vm'.state = vm.state /\ NeverStranded'
      BY <1>0, <2>1, <2>2, <2>4 DEF Alike, VmOK, NeverStranded
    <3> QED BY <1>0, <2>2, <2>4, <3>1, ViewStep
  <2> QED BY <2>2, <2>3, <2>4
<1> QED BY <1>1, <1>2, <1>3, <1>4, <1>5, <1>6

\* The devices, and what flows.
LEMMA WorldStep ==
    ASSUME ViewInv,
           LineArrives \/ GoesSilent \/ UNCHANGED vars
             \/ \E d \in Devices : PowerOff(d) \/ PowerOn(d)
    PROVE  ViewInv'
<1>1. UNCHANGED <<vm, queue, phase, blocks>> /\ up' \subseteq Devices
  BY DEF LineArrives, GoesSilent, PowerOff, PowerOn, vars, ViewInv, QueueOK
<1>2. VmOK(vm)' /\ NeverStranded'
  BY <1>1 DEF ViewInv, VmOK, NeverStranded
<1> QED BY <1>1, <1>2, ViewStep

-----------------------------------------------------------------------------
\* A block posted behind the others.
LEMMA PostedLast ==
    ASSUME NEW s \in Seq(Blocks), NEW b \in Blocks
    PROVE  /\ s \o <<b>> \in Seq(Blocks) /\ Append(s, b) = s \o <<b>>
           /\ Len(s) \in Nat /\ Len(s \o <<b>>) = Len(s) + 1
           /\ \A i \in 1..Len(s) : (s \o <<b>>)[i] = s[i]
           /\ (s \o <<b>>)[Len(s) + 1] = b
           /\ \A i \in 1..Len(s \o <<b>>) : i \in 1..Len(s) \/ i = Len(s) + 1
<1>1. Append(s, b) = s \o <<b>>
  BY AppendIsConcat
<1> QED BY <1>1, AppendProperties, LenProperties

\* What is left of a sequence without its first element.
LEMMA WithoutFirst ==
    ASSUME NEW S, NEW s \in Seq(S), s # <<>>
    PROVE  /\ Tail(s) \in Seq(S) /\ Head(s) = s[1] /\ s[1] \in S
           /\ Len(s) \in Nat /\ Len(s) >= 1 /\ Len(Tail(s)) = Len(s) - 1
           /\ \A i \in 1..Len(Tail(s)) : Tail(s)[i] = s[i + 1]
           /\ \A i \in 2..Len(s) : Tail(s)[i - 1] = s[i] /\ i - 1 \in 1..Len(Tail(s))
<1>1. Len(s) \in Nat /\ Len(s) # 0
  BY EmptySeq, LenProperties
<1> QED BY <1>1, HeadTailProperties, ElementOfSeq

\* The running operation ends, and a block says how.
LEMMA FinishedStep ==
    ASSUME ViewInv, queue # <<>>, phase # "asking", Finished,
           NEW b \in Blocks, b.what \in Ends, b.what = "connected" => b.device \in Devices,
           blocks' = blocks \o <<b>>, UNCHANGED <<vm, up>>,
           queue[1].kind = "hunt" => b.what \in {"connected", "ended"}
    PROVE  ViewInv'
<1>1. /\ blocks \in Seq(Blocks) /\ blocks' \in Seq(Blocks) /\ Len(blocks) \in Nat
      /\ Len(blocks') = Len(blocks) + 1
      /\ \A i \in 1..Len(blocks) : blocks'[i] = blocks[i]
      /\ blocks'[Len(blocks) + 1] = b
      /\ \A i \in 1..Len(blocks') : i \in 1..Len(blocks) \/ i = Len(blocks) + 1
  BY PostedLast DEF ViewInv, BlocksOK
<1>2. /\ queue \in Seq(Operations) /\ queue' \in Seq(Operations)
      /\ \A i \in 2..Len(queue) : queue'[i - 1] = queue[i] /\ i - 1 \in 1..Len(queue')
      /\ Len(queue) \in Nat
  BY WithoutFirst DEF ViewInv, QueueOK, Finished
<1>3. b.what \notin {"failed", "pause", "check"}
  BY DEF Ends
<1>4. VmOK(vm)' /\ QueueOK'
  BY <1>2 DEF ViewInv, VmOK, QueueOK, Finished
<1>5. BlocksOK'
  BY <1>1, <1>3 DEF ViewInv, BlocksOK
<1>6. EndFollows'
  <2> SUFFICES ASSUME NEW i \in 1..Len(blocks'), blocks'[i].what \in {"failed", "pause"}
               PROVE  \E j \in 1..Len(blocks') : i < j /\ blocks'[j].what \in Ends
    BY DEF EndFollows
  <2>1. i \in 1..Len(blocks)
    BY <1>1, <1>3
  <2> QED BY <1>1, <2>1
<1>7. HuntFollows'
  <2>1. SUFFICES ASSUME vm'.state = "connecting" PROVE HuntFollows'
    BY DEF HuntFollows
  <2>2. CASE queue[1].kind = "hunt"
    BY <1>1, <2>2 DEF HuntFollows
  <2>3. ASSUME NEW i \in 2..Len(queue), queue[i].kind = "hunt"
        PROVE  \E k \in 1..Len(queue') : queue'[k].kind = "hunt"
    BY <1>2, <2>3
  <2>4. ASSUME NEW i \in 1..Len(blocks), blocks[i].what \in {"connected", "ended"}
        PROVE  \E k \in 1..Len(blocks') : blocks'[k].what \in {"connected", "ended"}
    BY <1>1, <2>4
  <2>5. \A i \in 1..Len(queue) : i = 1 \/ i \in 2..Len(queue)
    BY <1>2
  <2>6. vm.state = "connecting"
    BY <2>1
  <2> QED BY <2>2, <2>3, <2>4, <2>5, <2>6 DEF ViewInv, HuntFollows
<1>8. NeverStranded'
  <2>1. blocks' # <<>>
    BY <1>1, EmptySeq
  <2> QED BY <2>1 DEF NeverStranded
<1> QED BY <1>4, <1>5, <1>6, <1>7, <1>8 DEF ViewInv

\* What the work queue does.
LEMMA WorkStep ==
    ASSUME ViewInv, Work
    PROVE  ViewInv'
<1>0. /\ queue \in Seq(Operations) /\ VmOK(vm) /\ blocks \in Seq(Blocks)
      /\ queue # <<>> => queue[1] \in Operations /\ Head(queue) = queue[1] /\ Len(queue) >= 1
                          /\ Len(queue) \in Nat
  BY WithoutFirst DEF ViewInv, QueueOK, BlocksOK
<1>1. CASE ConnectStops
  <2>1. /\ phase = "idle" /\ queue # <<>> /\ phase' = "opening"
        /\ UNCHANGED <<vm, queue, blocks, up>>
    BY <1>1 DEF ConnectStops
  <2>2. VmOK(vm)' /\ NeverStranded' /\ QueueOK' /\ EndFollows' /\ HuntFollows'
    BY <2>1 DEF ViewInv, VmOK, NeverStranded, QueueOK, EndFollows, HuntFollows
  <2>3. BlocksOK'
    BY <2>1 DEF ViewInv, BlocksOK
  <2> QED BY <2>2, <2>3 DEF ViewInv
<1>2. CASE ConnectOpens
  <2>0. phase = "opening" /\ queue # <<>> /\ UNCHANGED <<vm, up>>
    BY <1>2 DEF ConnectOpens, ViewInv, QueueOK
  <2>1. CASE Running.target \in up \ Strangers
    <3> DEFINE b == Block(IF Running.kind = "hunt" THEN "connected" ELSE "reconnected",
                          Running.target)
    <3>1. blocks' = blocks \o <<b>> /\ Finished
      BY <1>2, <2>1 DEF ConnectOpens, Post
    <3>2. /\ b \in Blocks /\ b.what \in Ends /\ b.device \in Devices
          /\ queue[1].kind = "hunt" => b.what = "connected"
      BY <1>0, <2>0 DEF Block, Blocks, Ends, Running, Operations
    <3> HIDE DEF b
    <3> QED BY <2>0, <3>1, <3>2, FinishedStep
  <2>2. CASE Running.target \notin up \ Strangers /\ Running.kind # "hunt"
    <3> DEFINE b == Block("reconnect failed", None)
    <3>1. blocks' = blocks \o <<b>> /\ Finished
      BY <1>2, <2>2 DEF ConnectOpens, Post
    <3>2. b \in Blocks /\ b.what \in Ends /\ b.what # "connected" /\ queue[1].kind # "hunt"
      BY <1>0, <2>0, <2>2 DEF Block, Blocks, Ends, Running
    <3> HIDE DEF b
    <3> QED BY <2>0, <3>1, <3>2, FinishedStep
  <2>3. CASE Running.target \notin up \ Strangers /\ Running.kind = "hunt"
    <3> DEFINE b == Block("failed", Running.target)
               c == Block("rediscover", None)
               s == blocks \o <<b>>
    <3>1. /\ blocks' = blocks \o <<b, c>> /\ phase' = "waiting" /\ UNCHANGED queue
      BY <1>2, <2>3 DEF ConnectOpens, Post
    <3>2. /\ b \in Blocks /\ b.what = "failed" /\ b.device \in Devices
          /\ c \in Blocks /\ c.what = "rediscover"
      BY <1>0, <2>0 DEF Block, Blocks, Ends, Others, Running, Operations
    <3> HIDE DEF b, c
    <3>3. /\ s \in Seq(Blocks) /\ Len(blocks) \in Nat /\ Len(s) = Len(blocks) + 1
          /\ \A i \in 1..Len(blocks) : s[i] = blocks[i]
          /\ s[Len(blocks) + 1] = b
      BY <1>0, <3>2, PostedLast
    <3>4. blocks' = s \o <<c>>
      <4>1. <<b>> \in Seq(Blocks) /\ <<c>> \in Seq(Blocks) /\ <<b, c>> \in Seq(Blocks)
            /\ Len(<<b, c>>) = 2 /\ <<b, c>>[1] = b /\ <<b, c>>[2] = c
            /\ Len(<<b>>) = 1 /\ <<b>>[1] = b
        BY <3>2
      <4>2. /\ <<b>> \o <<c>> \in Seq(Blocks) /\ Len(<<b>> \o <<c>>) = 2
            /\ (<<b>> \o <<c>>)[1] = b /\ (<<b>> \o <<c>>)[2] = c
        BY <3>2, <4>1, PostedLast
      <4>3. \A i \in 1..2 : (<<b>> \o <<c>>)[i] = <<b, c>>[i]
        BY <4>1, <4>2
      <4>4. <<b>> \o <<c>> = <<b, c>>
        BY <4>1, <4>2, <4>3, SeqEqual
      <4>5. (blocks \o <<b>>) \o <<c>> = blocks \o (<<b>> \o <<c>>)
        BY <1>0, <4>1, ConcatAssociative
      <4> QED BY <3>1, <4>4, <4>5
    <3> HIDE DEF s
    <3>5. /\ blocks' \in Seq(Blocks) /\ Len(blocks') = Len(blocks) + 2
          /\ \A i \in 1..Len(s) : blocks'[i] = s[i]
          /\ blocks'[Len(blocks) + 2] = c
      BY <3>2, <3>3, <3>4, PostedLast
    <3>6. \A i \in 1..Len(blocks') :
             \/ i \in 1..Len(blocks) /\ blocks'[i] = blocks[i]
             \/ blocks'[i] = b
             \/ blocks'[i] = c
      BY <3>3, <3>5
    <3>7. \A i \in 1..Len(blocks) : i \in 1..Len(blocks') /\ blocks'[i] = blocks[i]
      BY <3>3, <3>5
    <3>8. BlocksOK'
      BY <2>0, <3>2, <3>5, <3>6 DEF ViewInv, BlocksOK
    <3>9. VmOK(vm)' /\ QueueOK' /\ EndFollows' /\ HuntFollows' /\ NeverStranded'
      BY <2>0, <3>1, <3>7 DEF ViewInv, VmOK, QueueOK, EndFollows, HuntFollows, NeverStranded
    <3> QED BY <3>8, <3>9 DEF ViewInv
  <2> QED BY <2>1, <2>2, <2>3
<1>3. CASE HuntAsks
  <2>0. phase = "waiting" /\ queue # <<>> /\ UNCHANGED <<vm, up>>
    BY <1>3 DEF HuntAsks, ViewInv, QueueOK
  <2>1. CASE Running.waits < MaxWaits
    <3> DEFINE b == Block("check", None)
    <3>1. /\ blocks' = blocks \o <<b>> /\ phase' = "asking"
          /\ queue' = [queue EXCEPT ![1].waits = @ + 1]
      BY <1>3, <2>1 DEF HuntAsks, Post
    <3>2. b \in Blocks /\ b.what = "check"
      BY DEF Block, Blocks, Others
    <3> HIDE DEF b
    <3>3. /\ blocks' \in Seq(Blocks) /\ Len(blocks) \in Nat /\ Len(blocks') = Len(blocks) + 1
          /\ \A i \in 1..Len(blocks) : blocks'[i] = blocks[i]
          /\ blocks'[Len(blocks) + 1] = b
          /\ \A i \in 1..Len(blocks') : i \in 1..Len(blocks) \/ i = Len(blocks) + 1
      BY <1>0, <3>1, <3>2, PostedLast
    <3>4. [queue[1] EXCEPT !.waits = @ + 1] \in Operations
          /\ [queue[1] EXCEPT !.waits = @ + 1].kind = queue[1].kind
      <4>1. queue[1] \in Operations
        BY <1>0, <2>0
      <4> QED BY <4>1 DEF Operations
    <3>12. queue' = [queue EXCEPT ![1] = [queue[1] EXCEPT !.waits = @ + 1]] /\ 1 \in 1..Len(queue)
      BY <1>0, <2>0, <3>1
    <3>5. /\ queue' \in Seq(Operations) /\ Len(queue') = Len(queue)
          /\ \A i \in 1..Len(queue) : queue'[i].kind = queue[i].kind
      <4> DEFINE o == [queue[1] EXCEPT !.waits = @ + 1]
      <4>1. o \in Operations /\ o.kind = queue[1].kind /\ queue' = [queue EXCEPT ![1] = o]
        BY <3>4, <3>12
      <4> HIDE DEF o
      <4>2. /\ [queue EXCEPT ![1] = o] \in Seq(Operations)
            /\ Len([queue EXCEPT ![1] = o]) = Len(queue)
            /\ \A i \in 1..Len(queue) : [queue EXCEPT ![1] = o][i] = IF i = 1 THEN o ELSE queue[i]
        <5>1. queue \in Seq(Operations) /\ 1 \in 1..Len(queue) /\ o \in Operations
          BY <1>0, <3>12, <4>1
        <5> QED BY ONLY <5>1, ExceptSeq
      <4> QED BY <4>1, <4>2
    <3>6. queue' # <<>>
      BY <1>0, <2>0, <3>5, EmptySeq
    <3>7. QueueOK'
      BY <2>0, <3>1, <3>5, <3>6 DEF ViewInv, QueueOK
    <3>8. BlocksOK'
      BY <2>0, <3>1, <3>2, <3>3 DEF ViewInv, BlocksOK
    <3>9. EndFollows' /\ NeverStranded'
      BY <3>6 DEF EndFollows, NeverStranded
    <3>10. HuntFollows'
      BY <2>0, <3>3, <3>5 DEF ViewInv, HuntFollows
    <3>11. VmOK(vm)'
      BY <1>0, <2>0 DEF VmOK
    <3> QED BY <3>7, <3>8, <3>9, <3>10, <3>11 DEF ViewInv
  <2>2. CASE ~(Running.waits < MaxWaits)
    <3> DEFINE b == Block("ended", None)
    <3>1. blocks' = blocks \o <<b>> /\ Finished
      BY <1>3, <2>2 DEF HuntAsks, Post
    <3>2. b \in Blocks /\ b.what = "ended" /\ b.what \in Ends
      BY DEF Block, Blocks, Ends
    <3> HIDE DEF b
    <3> QED BY <2>0, <3>1, <3>2, FinishedStep
  <2> QED BY <2>1, <2>2
<1> QED BY <1>1, <1>2, <1>3 DEF Work

-----------------------------------------------------------------------------
\* A block has run and is gone; the operations are as they were.
LEMMA PoppedStep ==
    ASSUME ViewInv, blocks # <<>>, blocks' = Tail(blocks), UNCHANGED <<queue, phase, up>>,
           VmOK(vm)', NeverStranded',
           vm'.state = "connecting" =>
               vm.state = "connecting" /\ Head(blocks).what \notin {"connected", "ended"}
    PROVE  ViewInv'
<1>1. /\ blocks \in Seq(Blocks) /\ blocks' \in Seq(Blocks) /\ Head(blocks) = blocks[1]
      /\ Len(blocks) \in Nat /\ Len(blocks') = Len(blocks) - 1
      /\ \A i \in 1..Len(blocks') : blocks'[i] = blocks[i + 1]
      /\ \A i \in 2..Len(blocks) : blocks'[i - 1] = blocks[i] /\ i - 1 \in 1..Len(blocks')
  BY WithoutFirst DEF ViewInv, BlocksOK
<1>2. \A i \in 1..Len(blocks') : i + 1 \in 1..Len(blocks) /\ i + 1 \in 2..Len(blocks)
  BY <1>1
<1>3. QueueOK' /\ BlocksOK'
  BY <1>1, <1>2 DEF ViewInv, QueueOK, BlocksOK
<1>4. EndFollows'
  <2> SUFFICES ASSUME NEW i \in 1..Len(blocks'), blocks'[i].what \in {"failed", "pause"},
                      queue' = <<>>
               PROVE  \E j \in 1..Len(blocks') : i < j /\ blocks'[j].what \in Ends
    BY DEF EndFollows
  <2>1. PICK j \in 1..Len(blocks) : i + 1 < j /\ blocks[j].what \in Ends
    BY <1>1, <1>2 DEF ViewInv, EndFollows
  <2>2. j \in 2..Len(blocks) /\ i < j - 1
    BY <1>1, <2>1
  <2> QED BY <1>1, <2>1, <2>2
<1>5. HuntFollows'
  <2>1. SUFFICES ASSUME vm'.state = "connecting" PROVE HuntFollows'
    BY DEF HuntFollows
  <2>2. ASSUME NEW i \in 1..Len(blocks), blocks[i].what \in {"connected", "ended"}
        PROVE  \E k \in 1..Len(blocks') : blocks'[k].what \in {"connected", "ended"}
    <3>1. i # 1
      BY <1>1, <2>1, <2>2
    <3>2. i \in 2..Len(blocks)
      BY <1>1, <3>1
    <3> QED BY <1>1, <2>2, <3>2
  <2> QED BY <2>1, <2>2 DEF ViewInv, HuntFollows
<1> QED BY <1>3, <1>4, <1>5 DEF ViewInv

\* The hunt's question: it ends, goes on or waits.
LEMMA CheckStep ==
    ASSUME ViewInv, OnCheck
    PROVE  ViewInv'
<1>0. /\ blocks # <<>> /\ Head(blocks).what = "check" /\ UNCHANGED <<vm, up>>
      /\ blocks \in Seq(Blocks) /\ queue \in Seq(Operations)
  BY DEF OnCheck, Doing, ViewInv, BlocksOK, QueueOK
<1> DEFINE s == Tail(blocks)
<1>1. /\ s \in Seq(Blocks) /\ Head(blocks) = blocks[1] /\ Len(blocks) >= 1
      /\ Len(blocks) \in Nat /\ Len(s) = Len(blocks) - 1
      /\ \A i \in 1..Len(s) : s[i] = blocks[i + 1]
      /\ \A i \in 2..Len(blocks) : s[i - 1] = blocks[i] /\ i - 1 \in 1..Len(s)
  BY <1>0, WithoutFirst
<1> HIDE DEF s
<1>2. \A i \in 1..Len(s) : i + 1 \in 1..Len(blocks) /\ i + 1 # 1
  BY <1>1
<1>3. \A i \in 1..Len(s) : s[i].what # "check"
  BY <1>0, <1>1, <1>2 DEF ViewInv, BlocksOK
<1>4. phase = "asking" /\ queue # <<>>
  BY <1>0, <1>1 DEF ViewInv, BlocksOK, QueueOK
<1>5. /\ queue[1] \in Operations /\ Len(queue) \in Nat /\ Len(queue) >= 1
  BY <1>0, <1>4, WithoutFirst
<1>6. \A i \in 1..Len(s) : s[i].what \in {"connected", "failed"} => s[i].device \in Devices
  BY <1>1, <1>2 DEF ViewInv, BlocksOK
<1>7. VmOK(vm)'
  BY <1>0 DEF ViewInv, VmOK
<1> DEFINE abort == vm.mode # "wifi" \/ vm.state = "connected"
           candidates == vm.listed \ vm.skip
<1>8. CASE abort
  <2> DEFINE b == Block("ended", None)
  <2>1. blocks' = Append(s, b) /\ Finished
    BY <1>8 DEF OnCheck, s
  <2>2. b \in Blocks /\ b.what = "ended"
    BY DEF Block, Blocks, Ends
  <2> HIDE DEF b
  <2>3. /\ blocks' \in Seq(Blocks) /\ Len(s) \in Nat /\ Len(blocks') = Len(s) + 1
        /\ \A i \in 1..Len(s) : blocks'[i] = s[i]
        /\ blocks'[Len(s) + 1] = b
        /\ \A i \in 1..Len(blocks') : i \in 1..Len(s) \/ i = Len(s) + 1
    BY <1>1, <2>1, <2>2, PostedLast
  <2>4. BlocksOK'
    BY <1>3, <1>6, <2>2, <2>3 DEF BlocksOK
  <2>5. QueueOK'
    BY <1>0, <1>4, <2>1, WithoutFirst DEF ViewInv, QueueOK, Finished
  <2>6. EndFollows'
    <3> SUFFICES ASSUME NEW i \in 1..Len(blocks'), blocks'[i].what \in {"failed", "pause"}
                 PROVE  \E j \in 1..Len(blocks') : i < j /\ blocks'[j].what \in Ends
      BY DEF EndFollows
    <3>1. i \in 1..Len(s)
      BY <2>2, <2>3
    <3>2. Len(s) + 1 \in 1..Len(blocks') /\ i < Len(s) + 1
      BY <2>3, <3>1
    <3>3. blocks'[Len(s) + 1].what \in Ends
      BY <2>2, <2>3 DEF Ends
    <3> QED BY <3>2, <3>3
  <2>7. HuntFollows'
    BY <2>2, <2>3 DEF HuntFollows
  <2>8. NeverStranded'
    <3>1. blocks' # <<>>
      BY <2>3, EmptySeq
    <3> QED BY <3>1 DEF NeverStranded
  <2> QED BY <1>7, <2>4, <2>5, <2>6, <2>7, <2>8 DEF ViewInv
<1>9. CASE ~abort /\ candidates # {}
  <2> DEFINE b == Block("pause", None)
  <2>1. PICK d \in candidates : queue' = [queue EXCEPT ![1] = Operation("hunt", d)]
    BY <1>9 DEF OnCheck
  <2>2. blocks' = Append(s, b) /\ phase' = "idle"
    BY <1>9 DEF OnCheck, s
  <2>3. b \in Blocks /\ b.what = "pause"
    BY DEF Block, Blocks
  <2> HIDE DEF b
  <2>4. /\ blocks' \in Seq(Blocks) /\ Len(s) \in Nat /\ Len(blocks') = Len(s) + 1
        /\ \A i \in 1..Len(s) : blocks'[i] = s[i]
        /\ blocks'[Len(s) + 1] = b
        /\ \A i \in 1..Len(blocks') : i \in 1..Len(s) \/ i = Len(s) + 1
    BY <1>1, <2>2, <2>3, PostedLast
  <2> DEFINE o == Operation("hunt", d)
  <2>5. d \in Devices
    BY DEF ViewInv, VmOK
  <2>6. o \in Operations /\ o.kind = "hunt"
    BY <2>5 DEF Operation, Operations
  <2> HIDE DEF o
  <2>7. /\ [queue EXCEPT ![1] = o] \in Seq(Operations)
        /\ Len([queue EXCEPT ![1] = o]) = Len(queue)
        /\ \A i \in 1..Len(queue) : [queue EXCEPT ![1] = o][i] = IF i = 1 THEN o ELSE queue[i]
    <3>1. queue \in Seq(Operations) /\ 1 \in 1..Len(queue) /\ o \in Operations
      BY <1>0, <1>5, <2>6
    <3> QED BY ONLY <3>1, ExceptSeq
  <2>8. queue' \in Seq(Operations) /\ Len(queue') = Len(queue) /\ queue'[1] = o
    BY <1>5, <2>1, <2>7 DEF o
  <2>9. queue' # <<>> /\ 1 \in 1..Len(queue')
    BY <1>5, <2>8, EmptySeq
  <2>10. BlocksOK'
    BY <1>3, <1>6, <2>3, <2>4 DEF BlocksOK
  <2>11. QueueOK' /\ EndFollows' /\ NeverStranded' /\ HuntFollows'
    BY <1>0, <2>2, <2>6, <2>8, <2>9 DEF ViewInv, QueueOK, EndFollows, NeverStranded, HuntFollows
  <2> QED BY <1>7, <2>10, <2>11 DEF ViewInv
<1>10. CASE ~abort /\ candidates = {}
  <2>1. phase' = "waiting" /\ blocks' = s /\ UNCHANGED queue
    BY <1>10 DEF OnCheck, s
  <2>2. BlocksOK'
    BY <1>1, <1>3, <1>6, <2>1 DEF BlocksOK
  <2>3. QueueOK' /\ EndFollows' /\ NeverStranded'
    BY <1>0, <1>4, <2>1 DEF ViewInv, QueueOK, EndFollows, NeverStranded
  <2>4. HuntFollows'
    <3>1. SUFFICES ASSUME vm.state = "connecting" PROVE HuntFollows'
      BY <1>0 DEF HuntFollows
    <3>2. ASSUME NEW i \in 1..Len(blocks), blocks[i].what \in {"connected", "ended"}
          PROVE  \E k \in 1..Len(blocks') : blocks'[k].what \in {"connected", "ended"}
      <4>1. i \in 2..Len(blocks)
        BY <1>0, <1>1, <3>2
      <4> QED BY <1>1, <2>1, <3>2, <4>1
    <3> QED BY <2>1, <3>1, <3>2 DEF ViewInv, HuntFollows
  <2> QED BY <1>7, <2>2, <2>3, <2>4 DEF ViewInv
<1> QED BY <1>8, <1>9, <1>10

\* The blocks.
LEMMA MainStep ==
    ASSUME ViewInv, Main
    PROVE  ViewInv'
<1>0. VmOK(vm) /\ blocks \in Seq(Blocks)
  BY DEF ViewInv, BlocksOK
<1>1. CASE OnCheck
  BY <1>1, CheckStep
<1>2. CASE ~OnCheck
  <2>0. blocks # <<>> /\ blocks' = Tail(blocks) /\ UNCHANGED <<queue, phase, up>>
    BY <1>2 DEF Main, OnConnected, OnReconnected, OnReconnectFailed, OnFailed, OnRediscover,
                OnPause, OnEnded, Doing
  <2>00. /\ Head(blocks) = blocks[1] /\ Head(blocks) \in Blocks /\ 1 \in 1..Len(blocks)
         /\ Len(blocks) \in Nat /\ Len(Tail(blocks)) = Len(blocks) - 1
    BY <1>0, <2>0, WithoutFirst
  <2>1. CASE OnConnected
    <3>1. Head(blocks).what = "connected" /\ About \in Devices
      BY <2>00, <2>1 DEF OnConnected, Doing, About, ViewInv, BlocksOK
    <3> DEFINE v == [vm EXCEPT !.state = "connected", !.lastAddress = About,
                               !.auto = About, !.remembered = About]
    <3>2. VmOK(v) /\ v.state = "connected"
      BY <1>0, <3>1 DEF VmOK, VmFields
    <3>3. vm' = startPolling(v)
      BY <2>1 DEF OnConnected
    <3> HIDE DEF v
    <3>4. VmOK(vm)' /\ vm'.state = "connected"
      BY <3>2, <3>3 DEF VmOK, VmFields, startPolling
    <3>5. NeverStranded'
      BY <3>4 DEF NeverStranded
    <3> QED BY <2>0, <3>4, <3>5, PoppedStep
  <2>2. CASE OnReconnected
    <3> DEFINE v == startPolling([vm EXCEPT !.state = "connected"])
    <3>1. VmOK(v) /\ v.state = "connected"
      BY <1>0 DEF VmOK, VmFields, startPolling
    <3>2. vm' = stopReconnectLoop(v)
      BY <2>2 DEF OnReconnected
    <3> HIDE DEF v
    <3>3. VmOK(vm)' /\ vm'.state = "connected"
      BY <3>1, <3>2 DEF VmOK, VmFields, stopReconnectLoop
    <3>4. NeverStranded'
      BY <3>3 DEF NeverStranded
    <3> QED BY <2>0, <3>3, <3>4, PoppedStep
  <2>3. CASE OnReconnectFailed
    <3>1. PICK w \in startESP32Discovery(vm) : vm' = scheduleReconnect(w)
      BY <2>3 DEF OnReconnectFailed
    <3>2. VmOK(vm') /\ vm'.state = vm.state /\ Searching(vm')
      BY <1>0, <3>1, StartSearches, ScheduleKeeps DEF Alike
    <3>3. VmOK(vm)' /\ Safe(vm)' /\ Head(blocks).what = "reconnect failed"
      BY <2>3, <3>2 DEF Safe, VmOK, Searching, OnReconnectFailed, Doing
    <3> QED BY <2>0, <3>2, <3>3, SafeSuffices, PoppedStep
  <2>4. CASE OnFailed
    <3>1. Head(blocks).what = "failed" /\ About \in Devices /\ vm' = Skipped(vm, About)
      BY <2>00, <2>4 DEF OnFailed, Doing, About, ViewInv, BlocksOK
    <3>2. VmOK(vm)' /\ vm'.state = vm.state
      BY <1>0, <3>1 DEF VmOK, VmFields, Skipped
    <3>3. queue' # <<>> \/ \E j \in 1..Len(blocks) : 1 < j
      BY <2>0, <2>00, <3>1 DEF ViewInv, EndFollows
    <3>4. queue' # <<>> \/ blocks' # <<>>
      BY <2>0, <2>00, <3>3, EmptySeq
    <3>5. NeverStranded'
      BY <3>4 DEF NeverStranded
    <3> QED BY <2>0, <3>1, <3>2, <3>5, PoppedStep
  <2>5. CASE OnRediscover
    <3> DEFINE v == IF Doing("retry") THEN [vm EXCEPT !.retry = "none"] ELSE vm
    <3>1. VmOK(v) /\ v.state = vm.state
      BY <1>0 DEF VmOK, VmFields
    <3>2. IF v.mode = "wifi" /\ v.state # "connected" /\ (Doing("retry") => v.listener = "off")
          THEN vm' \in startESP32Discovery(v) ELSE vm' = v
      BY <2>5 DEF OnRediscover
    <3> HIDE DEF v
    <3>3. VmOK(vm') /\ vm'.state = vm.state
          /\ (vm'.mode = "wifi" /\ vm'.state # "connected" => Searching(vm'))
      BY <3>1, <3>2, StartSearches DEF Alike, Searching
    <3>4. VmOK(vm)' /\ Safe(vm)'
      BY <3>3 DEF Safe, VmOK, Searching
    <3>5. Head(blocks).what \in {"rediscover", "retry"}
      BY <2>5 DEF OnRediscover, Doing
    <3> QED BY <2>0, <3>3, <3>4, <3>5, SafeSuffices, PoppedStep
  <2>6. CASE OnPause
    <3>1. Head(blocks).what = "pause" /\ vm' = stopESP32Discovery(vm)
      BY <2>6 DEF OnPause, Doing
    <3>2. VmOK(vm') /\ vm'.state = vm.state
      BY <1>0, <3>1, StopKeeps DEF Alike
    <3>3. queue' # <<>> \/ \E j \in 1..Len(blocks) : 1 < j
      BY <2>0, <2>00, <3>1 DEF ViewInv, EndFollows
    <3>4. queue' # <<>> \/ blocks' # <<>>
      BY <2>0, <2>00, <3>3, EmptySeq
    <3>5. NeverStranded' /\ VmOK(vm)'
      BY <3>2, <3>4 DEF NeverStranded, VmOK
    <3> QED BY <2>0, <3>1, <3>2, <3>5, PoppedStep
  <2>7. CASE OnEnded
    <3> DEFINE v == [vm EXCEPT !.state = "disconnected"]
    <3>1. VmOK(v) /\ v.state = "disconnected"
      BY <1>0 DEF VmOK, VmFields
    <3>2. vm' \in IF v.mode = "wifi" THEN startESP32Discovery(v) ELSE {v}
      BY <2>7 DEF OnEnded
    <3> HIDE DEF v
    <3>3. VmOK(vm') /\ vm'.state = "disconnected" /\ (vm'.mode = "wifi" => Searching(vm'))
      BY <3>1, <3>2, StartSearches DEF Alike
    <3>4. VmOK(vm)' /\ Safe(vm)'
      BY <3>3 DEF Safe, VmOK, Searching
    <3> QED BY <2>0, <3>3, <3>4, SafeSuffices, PoppedStep
  <2> QED BY <1>2, <2>1, <2>2, <2>3, <2>4, <2>5, <2>6, <2>7 DEF Main
<1> QED BY <1>1, <1>2

-----------------------------------------------------------------------------
LEMMA ViewInit == Init => ViewInv
<1> SUFFICES ASSUME Init PROVE ViewInv
  OBVIOUS
<1>1. PICK mode \in Modes, device \in Devices \cup {None} :
        vm = [ mode |-> mode, state |-> "disconnected", active |-> FALSE,
               listener |-> "off", retry |-> "none", listed |-> {}, skip |-> {},
               auto |-> None, remembered |-> device, lastAddress |-> None,
               polling |-> FALSE, stale |-> FALSE, reconnect |-> FALSE,
               vehicle |-> FirstVehicle, fails |-> 0 ]
  BY DEF Init
<1>2. VmOK(vm) /\ NeverStranded /\ vm.state = "disconnected"
  BY <1>1, ViewModelAssumption DEF VmOK, VmFields, NeverStranded
<1>3. QueueOK /\ BlocksOK
  BY EmptySeq DEF Init, QueueOK, BlocksOK
<1>4. EndFollows /\ HuntFollows
  BY <1>2, EmptySeq DEF Init, EndFollows, HuntFollows
<1> QED BY <1>2, <1>3, <1>4 DEF ViewInv

LEMMA ViewKept == ViewInv /\ [Next]_vars => ViewInv'
BY UserStep, TimerStep, WorldStep, WorkStep, MainStep DEF Next, World

LEMMA ViewHolds == Spec => []ViewInv
BY ViewInit, ViewKept, PTL DEF Spec

\* Type correctness of the view model, the work queue and the blocks (the property and queue
\* declarations of VehicleViewModel.swift).
THEOREM ViewTypes == Spec => []TypeOK
<1>1. ViewInv => TypeOK
  BY DEF ViewInv, VmOK, QueueOK, TypeOK
<1> QED BY <1>1, ViewHolds, PTL

\* The application in the foreground and in WiFi mode always has a listener, a timer, an
\* operation or a block that may connect it (startESP32Discovery(), huntForESP32() and
\* scheduleReconnect() in VehicleViewModel.swift).
THEOREM Stranded == Spec => []NeverStranded
<1>1. ViewInv => NeverStranded
  BY DEF ViewInv
<1> QED BY <1>1, ViewHolds, PTL

\* "Connecting" never outlives the hunt that set it (connectToESP32 and the end of
\* huntForESP32 in VehicleViewModel.swift).
THEOREM ConnectingEnds == Spec => []ConnectingHasOp
<1>1. ViewInv => ConnectingHasOp
  <2> SUFFICES ASSUME ViewInv, vm.state = "connecting", queue = <<>>
               PROVE  \E i \in DOMAIN blocks :
                         blocks[i].what \in {"connected", "reconnected", "ended"}
    BY DEF ConnectingHasOp
  <2>1. \A i \in 1..Len(queue) : FALSE
    BY EmptySeq
  <2>2. PICK i \in 1..Len(blocks) : blocks[i].what \in {"connected", "ended"}
    BY <2>1 DEF ViewInv, HuntFollows
  <2>3. DOMAIN blocks = 1..Len(blocks)
    BY DEF ViewInv, BlocksOK
  <2> QED BY <2>2, <2>3
<1> QED BY <1>1, ViewHolds, PTL

-----------------------------------------------------------------------------
(***************************************************************************)
(* The readings.  What the service keeps of a session, frames and engine   *)
(* load, comes from lines that the source of that session was sent: an     *)
(* operation that installs a source has stopped the old one before and     *)
(* loaded the vehicle afresh, and nothing fills the service in between.    *)
(* How a signal is read off the bits of a line is DecodesAssumption.       *)
(***************************************************************************)

\* What the service has was sent.
Heard(s, sent) ==
    /\ \A id \in DOMAIN s.frames :
          \E line \in sent : line.id = id /\ s.frames[id] = nextFrame(line).data
    /\ \/ s.load = Nothing
       \/ \E line \in sent : /\ isValidPacket(nextFrame(line))
                             /\ s.load = Just(2 * nextFrame(line).data[1] - 255)

\* What is shown of a field was sent, or is anything.
Told(latest, sent) ==
    \A f \in Fields : latest[f] \in {Nothing, Anything} \cup UNION {Says(line, f) : line \in sent}

\* A service that has seen nothing.
Unfed(s) == s.frames = <<>> /\ s.load = Nothing

ServiceOK(s) == DOMAIN s = {"vehicle", "frames", "load"} /\ s.vehicle \in Vehicles
SourceOK(r) == DOMAIN r = {"from", "alive", "flowing", "latest", "sent"} /\ r.sent \subseteq Bus

ReadInv ==
    /\ ServiceOK(service) /\ SourceOK(source)
    /\ phase = "opening" => source.from = None /\ Unfed(service)
    /\ source.from # None => Heard(service, source.sent) /\ Told(source.latest, source.sent)

LEMMA FreshUnfed ==
    ASSUME NEW v \in Vehicles
    PROVE  ServiceOK(Fresh(v)) /\ Unfed(Fresh(v)) /\ Fresh(v).vehicle = v
BY DEF ServiceOK, Unfed, Fresh

LEMMA UnfedHeard ==
    ASSUME NEW s, NEW sent, Unfed(s)
    PROVE  Heard(s, sent)
<1>1. DOMAIN s.frames = {}
  BY EmptySeq DEF Unfed
<1> QED BY <1>1 DEF Unfed, Heard

\* Every vehicle has signals, so that loading one forgets what was seen.
LEMMA LoadUnfed ==
    ASSUME NEW s, NEW v \in Vehicles
    PROVE  ServiceOK(loadVehicleFromPath(s, v)) /\ Unfed(loadVehicleFromPath(s, v))
<1>1. isCANProtocol(v) => v \in DOMAIN Parsed
  BY DEF isCANProtocol, Vehicles, Parsed
<1>2. loadVehicleFromPath(s, v) = Fresh(v)
  BY <1>1, DecodesAssumption DEF loadVehicleFromPath
<1> QED BY <1>2, FreshUnfed

-----------------------------------------------------------------------------
\* A reading of a DBC vehicle is that of a line the service has heard.
LEMMA BuildTold ==
    ASSUME NEW v \in Vehicles, isCANProtocol(v), NEW s, s.vehicle = v,
           NEW sent \in SUBSET Bus, Heard(s, sent)
    PROVE  Told(build(v, s.frames), sent)
<1> DEFINE Of(f) == {r \in Resolved[v] : r[1] = f /\ r[2].canId \in DOMAIN s.frames}
           latest == build(v, s.frames)
<1>1. v \in DOMAIN Resolved
  BY DEF isCANProtocol, Vehicles, Parsed, Resolved
<1> SUFFICES ASSUME NEW f \in Fields
             PROVE  latest[f] \in {Nothing, Anything} \cup UNION {Says(line, f) : line \in sent}
  BY DEF Told
<1>2. latest[f] = IF Of(f) = {} THEN Nothing
                  ELSE LET def == (CHOOSE r \in Of(f) : TRUE)[2]
                       IN  Reading(f, def, s.frames[def.canId])
  BY DEF build
<1> HIDE DEF latest
<1>3. CASE Of(f) = {}
  BY <1>2, <1>3
<1>4. CASE Of(f) # {}
  <2> DEFINE r == CHOOSE r \in Of(f) : TRUE
  <2>1. r \in Of(f)
    BY <1>4
  <2>2. latest[f] = Reading(f, r[2], s.frames[r[2].canId])
    BY <1>2, <1>4
  <2> HIDE DEF r
  <2>3. r \in Resolved[v] /\ r[1] = f /\ r[2].canId \in DOMAIN s.frames
    BY <2>1
  <2> DEFINE id == r[2].canId
  <2>4. PICK line \in sent : line.id = id /\ s.frames[id] = nextFrame(line).data
    BY <2>3 DEF Heard
  <2>5. Reading(r[1], r[2], nextFrame(line).data) \in {Nothing} \cup Says(line, r[1])
    <3>1. line \in Bus /\ r[2].canId = line.id
      BY <2>4
    <3> QED BY <1>1, <2>3, <3>1, DecodesAssumption
  <2>6. latest[f] \in {Nothing} \cup Says(line, f)
    BY <2>2, <2>3, <2>4, <2>5
  <2> QED BY <2>6
<1> QED BY <1>3, <1>4

\* So is the engine load of the others.
LEMMA LoadTold ==
    ASSUME NEW s, NEW sent \in SUBSET Bus, Heard(s, sent)
    PROVE  Told([NoReadings EXCEPT !["accelerationG"] = s.load], sent)
<1> DEFINE latest == [NoReadings EXCEPT !["accelerationG"] = s.load]
<1> SUFFICES ASSUME NEW f \in Fields
             PROVE  latest[f] \in {Nothing, Anything} \cup UNION {Says(line, f) : line \in sent}
  BY DEF Told
<1>1. latest[f] = IF f = "accelerationG" THEN s.load ELSE Nothing
  BY DEF NoReadings
<1> HIDE DEF latest
<1>2. CASE latest[f] = Nothing
  BY <1>2
<1>3. CASE latest[f] # Nothing
  <2>1. f = "accelerationG" /\ latest[f] = s.load /\ s.load # Nothing
    BY <1>1, <1>3
  <2>2. PICK line \in sent : /\ isValidPacket(nextFrame(line))
                             /\ s.load = Just(2 * nextFrame(line).data[1] - 255)
    BY <2>1 DEF Heard
  <2>3. Just(2 * nextFrame(line).data[1] - 255) \in Says(line, f)
    BY <2>1, <2>2 DEF Says
  <2> QED BY <2>1, <2>2, <2>3
<1> QED BY <1>2, <1>3

LEMMA TranslateTold ==
    ASSUME NEW s, ServiceOK(s), NEW sent \in SUBSET Bus, Heard(s, sent)
    PROVE  Told(translate(s), sent)
<1>1. CASE isCANProtocol(s.vehicle)
  BY <1>1, BuildTold DEF translate, ServiceOK
<1>2. CASE ~isCANProtocol(s.vehicle)
  BY <1>2, LoadTold DEF translate
<1> QED BY <1>1, <1>2

\* What was told stays told.
LEMMA MoreTold ==
    ASSUME NEW latest, NEW sent, NEW line, Told(latest, sent)
    PROVE  Told(latest, sent \cup {line})
BY DEF Told

\* The service after a line.
LEMMA FrameHeard ==
    ASSUME NEW s, ServiceOK(s), NEW sent, Heard(s, sent), NEW line
    PROVE  /\ ServiceOK(AfterFrame(s, nextFrame(line)))
           /\ Heard(AfterFrame(s, nextFrame(line)), sent \cup {line})
<1> DEFINE frame == nextFrame(line)
           after == AfterFrame(s, frame)
           more == sent \cup {line}
<1>1. frame.id = line.id
  BY DEF nextFrame
<1>2. line \in more /\ \A l \in sent : l \in more
  OBVIOUS
<1> HIDE DEF more
<1>3. CASE isCANProtocol(s.vehicle)
  <2> DEFINE seen == [id \in {frame.id} \cup DOMAIN s.frames |->
                        IF id = frame.id THEN frame.data ELSE s.frames[id]]
  <2>1. after = [s EXCEPT !.frames = seen]
    BY <1>3 DEF AfterFrame
  <2>2. /\ DOMAIN seen = {frame.id} \cup DOMAIN s.frames
        /\ \A id \in DOMAIN seen :
              seen[id] = IF id = frame.id THEN frame.data ELSE s.frames[id]
    OBVIOUS
  <2> HIDE DEF seen, after
  <2>3. ServiceOK(after) /\ after.frames = seen /\ after.load = s.load
    BY <2>1 DEF ServiceOK
  <2>4. ASSUME NEW id \in DOMAIN seen
        PROVE  \E l \in more : l.id = id /\ seen[id] = nextFrame(l).data
    <3>1. CASE id = frame.id
      <4>1. seen[id] = nextFrame(line).data /\ line.id = id
        BY <1>1, <2>2, <3>1
      <4> QED BY <1>2, <4>1
    <3>2. CASE id # frame.id
      <4>1. id \in DOMAIN s.frames /\ seen[id] = s.frames[id]
        BY <2>2, <3>2
      <4> QED BY <1>2, <4>1 DEF Heard
    <3> QED BY <3>1, <3>2
  <2>5. Heard(after, more)
    BY <1>2, <2>3, <2>4 DEF Heard
  <2> QED BY <2>3, <2>5 DEF after, more
<1>4. CASE after = s
  BY <1>2, <1>4 DEF Heard, more
<1>5. CASE ~isCANProtocol(s.vehicle) /\ after # s
  <2>1. isValidPacket(frame) /\ after = [s EXCEPT !.load = Just(2 * frame.data[1] - 255)]
    BY <1>5 DEF AfterFrame, applyUpdate
  <2> HIDE DEF after
  <2>2. /\ ServiceOK(after) /\ after.frames = s.frames
        /\ after.load = Just(2 * nextFrame(line).data[1] - 255)
    BY <2>1 DEF ServiceOK
  <2>3. Heard(after, more)
    BY <1>2, <2>1, <2>2 DEF Heard
  <2> QED BY <2>2, <2>3 DEF after, more
<1> QED BY <1>3, <1>4, <1>5

-----------------------------------------------------------------------------
LEMMA SourcesOK ==
    /\ SourceOK(NoSource) /\ NoSource.from = None
    /\ SourceOK(Demo) /\ Demo.from = None
    /\ \A d : SourceOK(TcpSource(d)) /\ TcpSource(d).sent = {} /\ TcpSource(d).latest = NoReadings
BY DEF SourceOK, NoSource, Demo, TcpSource

\* A step that leaves the source alone or takes it away, and opens nothing.
LEMMA QuietStep ==
    ASSUME ReadInv, UNCHANGED service, source' \in {source, NoSource, Demo},
           phase' = phase \/ phase' # "opening"
    PROVE  ReadInv'
<1>1. CASE source' = source
  BY <1>1 DEF ReadInv
<1>2. CASE source' \in {NoSource, Demo}
  <2>1. SourceOK(source') /\ source'.from = None
    BY <1>2, SourcesOK
  <2> QED BY <2>1 DEF ReadInv
<1> QED BY <1>1, <1>2

\* A vehicle is picked under the source: what was shown stays, or is anything.
LEMMA PickStep ==
    ASSUME ReadInv, PickVehicle
    PROVE  ReadInv'
<1>1. PICK v \in Vehicles :
        IF vm.state = "connected"
        THEN /\ service' = loadVehicleFromPath(service, v)
             /\ source' \in {source, [source EXCEPT !.latest = [f \in Fields |-> Anything]]}
        ELSE UNCHANGED <<source, service>>
  BY DEF PickVehicle
<1>2. UNCHANGED phase
  BY DEF PickVehicle
<1>3. CASE vm.state # "connected"
  BY <1>1, <1>2, <1>3, QuietStep
<1>4. CASE vm.state = "connected"
  <2>1. ServiceOK(service') /\ Unfed(service')
    BY <1>1, <1>4, LoadUnfed
  <2>2. /\ SourceOK(source') /\ source'.from = source.from /\ source'.sent = source.sent
        /\ source'.latest \in {source.latest, [f \in Fields |-> Anything]}
    BY <1>1, <1>4 DEF ReadInv, SourceOK
  <2>3. Heard(service', source'.sent)
    BY <2>1, UnfedHeard
  <2>4. source.from # None => Told(source'.latest, source'.sent)
    <3>1. Told([f \in Fields |-> Anything], source.sent)
      BY DEF Told
    <3> QED BY <2>2, <3>1 DEF ReadInv
  <2> QED BY <1>2, <2>1, <2>2, <2>3, <2>4 DEF ReadInv
<1> QED BY <1>3, <1>4

\* connect(): the source is stopped and the vehicle loaded, then a source installed that was
\* sent nothing.
LEMMA OpenStep ==
    ASSUME ReadInv, ViewInv, ConnectStops \/ ConnectOpens
    PROVE  ReadInv'
<1>1. CASE ConnectStops
  <2>1. vm.vehicle \in Vehicles
    BY DEF ViewInv, VmOK
  <2>2. source' = NoSource /\ service' = loadVehicleFromPath(service, vm.vehicle)
    BY <1>1 DEF ConnectStops
  <2>3. ServiceOK(service') /\ Unfed(service') /\ SourceOK(source') /\ source'.from = None
    BY <2>1, <2>2, LoadUnfed, SourcesOK
  <2> QED BY <2>3 DEF ReadInv
<1>2. CASE ConnectOpens
  <2>1. phase = "opening" /\ phase' # "opening" /\ UNCHANGED service
    BY <1>2 DEF ConnectOpens, Finished
  <2>2. source' = TcpSource(Running.target) \/ source' = source
    BY <1>2 DEF ConnectOpens
  <2>3. CASE source' = source
    BY <2>1, <2>3, QuietStep
  <2>4. CASE source' = TcpSource(Running.target)
    <3>1. SourceOK(source') /\ source'.sent = {} /\ source'.latest = NoReadings
      BY <2>4, SourcesOK
    <3>2. Heard(service', source'.sent) /\ ServiceOK(service')
      BY <2>1, UnfedHeard DEF ReadInv
    <3>3. Told(source'.latest, source'.sent)
      BY <3>1 DEF Told, NoReadings
    <3> QED BY <2>1, <3>1, <3>2, <3>3 DEF ReadInv
  <2> QED BY <2>2, <2>3, <2>4
<1> QED BY <1>1, <1>2

\* A line through the pipeline.
LEMMA LineStep ==
    ASSUME ReadInv, LineArrives
    PROVE  ReadInv'
<1>1. PICK line \in Bus :
        /\ service' = AfterFrame(service, nextFrame(line))
        /\ source' = [source EXCEPT !.sent = @ \cup {line},
                                    !.latest = IF Translates(service, nextFrame(line))
                                               THEN translate(AfterFrame(service, nextFrame(line)))
                                               ELSE @]
  BY DEF LineArrives
<1> DEFINE after == AfterFrame(service, nextFrame(line))
           more == source.sent \cup {line}
<1>2. source.from # None /\ UNCHANGED phase
  BY DEF LineArrives
<1>3. /\ ServiceOK(service) /\ SourceOK(source) /\ phase # "opening"
      /\ Heard(service, source.sent) /\ Told(source.latest, source.sent)
  BY <1>2 DEF ReadInv
<1>4. ServiceOK(after) /\ Heard(after, more)
  BY <1>3, FrameHeard
<1>5. more \in SUBSET Bus
  BY <1>3 DEF SourceOK
<1> HIDE DEF after, more
<1>6. Told(translate(after), more)
  BY <1>4, <1>5, TranslateTold
<1>7. Told(source.latest, more)
  BY <1>3, MoreTold DEF more
<1>8. /\ service' = after /\ DOMAIN source' = DOMAIN source /\ source'.from = source.from
      /\ source'.sent = more /\ source'.latest \in {source.latest, translate(after)}
  BY <1>1, <1>3 DEF after, more, SourceOK
<1>9. SourceOK(source') /\ Told(source'.latest, source'.sent)
  BY <1>3, <1>5, <1>6, <1>7, <1>8 DEF SourceOK
<1> QED BY <1>2, <1>3, <1>4, <1>8, <1>9 DEF ReadInv

LEMMA ReadStep ==
    ASSUME ReadInv, ViewInv, [Next]_vars
    PROVE  ReadInv'
<1>1. CASE SetMode \/ Disconnect \/ PollTick
  <2>1. source' \in {source, NoSource, Demo}
    BY <1>1 DEF SetMode, Disconnect, PollTick
  <2>2. UNCHANGED <<service, phase>>
    BY <1>1 DEF SetMode, Disconnect, PollTick
  <2> QED BY <2>1, <2>2, QuietStep
<1>2. CASE PickVehicle
  BY <1>2, PickStep
<1>3. CASE ConnectStops \/ ConnectOpens
  BY <1>3, OpenStep
<1>4. CASE LineArrives
  BY <1>4, LineStep
<1>5. CASE GoesSilent
  <2>1. PICK alive \in BOOLEAN : source' = [source EXCEPT !.flowing = FALSE, !.alive = alive]
    BY <1>5 DEF GoesSilent
  <2>2. UNCHANGED <<service, phase>>
    BY <1>5 DEF GoesSilent
  <2>3. /\ SourceOK(source') /\ source'.from = source.from
        /\ source'.sent = source.sent /\ source'.latest = source.latest
    BY <2>1 DEF ReadInv, SourceOK
  <2> QED BY <2>2, <2>3 DEF ReadInv
<1>6. CASE HuntAsks \/ OnCheck
  <2>1. UNCHANGED <<service, source>> /\ phase' # "opening"
    BY <1>6 DEF HuntAsks, OnCheck, Finished
  <2> QED BY <2>1, QuietStep
<1>7. CASE \/ OnConnected \/ OnReconnected \/ OnReconnectFailed \/ OnFailed \/ OnRediscover
           \/ OnPause \/ OnEnded
  <2>1. UNCHANGED <<service, source, phase>>
    BY <1>7 DEF OnConnected, OnReconnected, OnReconnectFailed, OnFailed, OnRediscover,
                OnPause, OnEnded
  <2> QED BY <2>1, QuietStep
<1>8. CASE \/ Pause \/ ListenerFailed \/ Resume \/ RetryFires \/ HeartbeatAges \/ ReconnectFires
           \/ \E d \in Devices : PowerOff(d) \/ PowerOn(d) \/ Discovered(d)
  <2>1. UNCHANGED <<service, source, phase>>
    BY <1>8 DEF Pause, ListenerFailed, Resume, RetryFires, HeartbeatAges, ReconnectFires,
                PowerOff, PowerOn, Discovered
  <2> QED BY <2>1, QuietStep
<1>9. CASE UNCHANGED vars
  BY <1>9, QuietStep DEF vars
<1> QED BY <1>1, <1>2, <1>3, <1>4, <1>5, <1>6, <1>7, <1>8, <1>9 DEF Next, Main, Work, World

\* What the application shows of a bridge, a line of the session says (the pipeline of
\* VehicleSimWrapper.mm, DBCTranslationService.cpp): for any number of devices, lines,
\* reconnects and changes of the vehicle.
THEOREM ReadingsHold == Spec => []ReadingsFit
<1>1. Init => ReadInv
  <2> SUFFICES ASSUME Init PROVE ReadInv
    OBVIOUS
  <2>1. "generic" \in Vehicles
    BY DEF Vehicles
  <2>2. service = Fresh("generic") /\ source = NoSource /\ phase = "idle"
    BY DEF Init
  <2>3. ServiceOK(service) /\ SourceOK(source) /\ source.from = None
    BY <2>1, <2>2, FreshUnfed, SourcesOK
  <2> QED BY <2>2, <2>3 DEF ReadInv
<1>2. ReadInv /\ ViewInv /\ [Next]_vars => ReadInv'
  BY ReadStep
<1>3. ReadInv => ReadingsFit
  BY DEF ReadInv, ReadingsFit, Told
<1> QED BY <1>1, <1>2, <1>3, ViewHolds, PTL DEF Spec
=============================================================================
