---------------------------- MODULE FirmwareTasks ----------------------------
(***************************************************************************)
(* What one iteration of loop() does besides serving clients: the          *)
(* discovery beacon with its back-off, the start of NTP, the status LED    *)
(* and the events about the WiFi link (FirmwareApp::update and what it     *)
(* owns).  The WiFi event callback and the SNTP callback run on tasks of   *)
(* their own and come between any two steps.                               *)
(*                                                                         *)
(* WiFiManager is a module of its own: here it is in some state after each *)
(* update, and calls back on every connect.  Times are ages in ticks that  *)
(* stop counting where nothing tells them apart any more, but for millis() *)
(* itself, which wraps around; the intervals of beacon and LED are not to  *)
(* one scale.  What an iteration does after update(), an upload to the OTA *)
(* server above all, may take Hold ticks.                                  *)
(***************************************************************************)
EXTENDS Integers, StatusLED

CONSTANTS
    Fast, Medium, Long, Slow,   \* DISCOVERY_INTERVAL_*_MS
    Age2, Age5, Age10,          \* DISCOVERY_AGE_*_MIN_MS
    Window,                     \* AUTO_DISCOVERY_TIMEOUT_S of the hosts
    RetryMax,                   \* NTP_SYNC_RETRY_MAX
    Hold,                       \* ticks that one iteration of loop() may last
    Clock                       \* 2^32 ms: millis() counts modulo this

ASSUME TasksAssumption ==
    /\ {Fast, Medium, Long, Slow, Age2, Age5, Age10, Window, RetryMax, Hold, Clock}
         \subseteq Nat
    /\ 0 < Fast /\ Fast <= Medium /\ Fast <= Slow /\ Medium <= Long /\ Slow <= Long
    /\ Long < Age2 /\ Age2 < Age5 /\ Age5 < Age10
    /\ 0 < Hold /\ Long + Hold <= Clock

WifiStates == {"DISCONNECTED", "CONNECTING", "CONNECTED",
               "AP_MODE_DEFAULT", "AP_MODE_AUTH_FAIL", "AP_MODE_NO_AP"}

Zero == -1    \* lastBroadcastMs = 0: as old as the uptime

VARIABLES
    phase,      \* where loop() is
    wifi,       \* WiFiManager's state
    client,     \* TcpServerManager holds a client
    beacon,     \* DiscoveryManager, and whether its socket is open
    uptime,     \* millis()
    ntp,        \* NtpSupervisor and NtpTimeSync, and SNTP's enabled()
    led,        \* StatusLED
    observed,   \* observeWifiState was called with WIFI_CONNECTED
    previous,   \* WifiTransitionObserver's previousState_ is WIFI_CONNECTED
    dropping,   \* the WiFi event task is inside onWiFiDisconnected
    told,       \* history: the last [EVENT] about the link, of either task, is wifi_connected
    untried,    \* history: time since the radio in use was last given a beacon
    held        \* ticks that have passed in this iteration

vars == <<phase, wifi, client, beacon, uptime, ntp, led, observed, previous, dropping, told,
          untried, held>>

-----------------------------------------------------------------------------
(* Discovery beacon *)

discoveryIntervalMs(age) ==
    IF age < Age2 THEN Fast
    ELSE IF age < Age5 THEN Medium
    ELSE IF age < Age10 THEN Long
    ELSE Slow

\* now - connectTimeMs, unsigned: a connect stamped after now was read is
\* almost 2^32 ago.
ConnectAge(b) == IF b.ahead THEN Age10 ELSE b.age

SinceLast(b) == IF b.last = Zero THEN uptime ELSE b.last

\* resetBackoff: millis() may be behind or ahead of the now of this iteration.
resetBackoff(b, isAhead) == [b EXCEPT !.age = 0, !.ahead = isAhead, !.last = Zero]

\* WIFI_AP or WIFI_STA; the radio is off until the first connect.
RadioInUse == wifi # "DISCONNECTED"

\* Fault: a device that has a client is silent.
shouldBroadcastAlone == RadioInUse /\ ~client

shouldBroadcast == RadioInUse

\* The time is stamped before broadcast(), whose result nobody looks at: a
\* beacon that did not leave the radio is not tried again before the next.
SendBeacon ==
    /\ beacon' = [beacon EXCEPT !.last = 0]
    /\ untried' = 0

UpdateBeacon ==
    IF shouldBroadcast /\ SinceLast(beacon) >= discoveryIntervalMs(ConnectAge(beacon))
    THEN SendBeacon
    ELSE UNCHANGED <<beacon, untried>>

-----------------------------------------------------------------------------
(* NTP *)

\* NtpTimeSync::init; sntp_init() may fail to start the service.
InitNtp ==
    IF ntp.enabled
    THEN UNCHANGED ntp
    ELSE IF ntp.attempts < RetryMax
    THEN \E up \in BOOLEAN :
             ntp' = [ntp EXCEPT !.attempts = @ + 1, !.enabled = up, !.starts = @ + 1]
    ELSE ntp' = [ntp EXCEPT !.attempts = RetryMax + 1]

\* NtpSupervisor::maybeStart.
MaybeStart == IF ntp.requested /\ ~ntp.synced THEN InitNtp ELSE UNCHANGED ntp

\* onSyncComplete, on the task of the SNTP service.
SyncComplete ==
    /\ ntp.enabled
    /\ ntp' = [ntp EXCEPT !.synced = TRUE, !.attempts = IF ntp.synced THEN @ ELSE 0]
    /\ UNCHANGED <<phase, wifi, client, beacon, uptime, led, observed, previous, dropping, told,
                   untried, held>>

-----------------------------------------------------------------------------
(* Link events *)

Connected(s) == s = "CONNECTED"

\* observeWifiState(getState(), ...).
ReadState ==
    /\ phase = "observe"
    /\ phase' = "tell"
    /\ observed' = Connected(wifi)
    /\ UNCHANGED <<wifi, client, beacon, uptime, ntp, led, previous, dropping, told, untried, held>>

\* observe(), of a state that may have been left meanwhile.
Observe ==
    /\ phase = "tell"
    /\ phase' = "led"
    /\ previous' = observed
    /\ told' = IF observed = previous THEN told ELSE observed
    /\ UNCHANGED <<wifi, client, beacon, uptime, ntp, led, observed, dropping, untried, held>>

\* onWiFiDisconnected, on the WiFi event task: the manager first,
WifiDrop ==
    /\ ~dropping
    /\ dropping' = TRUE
    /\ wifi' = IF Connected(wifi) THEN "CONNECTING" ELSE wifi
    /\ UNCHANGED <<phase, client, beacon, uptime, ntp, led, observed, previous, told, untried, held>>

\* then an event of its own, whatever state the manager was in and is in by now.
EmitDrop ==
    /\ dropping
    /\ dropping' = FALSE
    /\ told' = FALSE
    /\ UNCHANGED <<phase, wifi, client, beacon, uptime, ntp, led, observed, previous, untried, held>>

-----------------------------------------------------------------------------
(* loop() *)

\* TcpServerManager::cycle: a client comes, is replaced or goes; the cleanup of
\* a drop resets the back-off, before update() reads the time.
ServeClients ==
    /\ phase = "top"
    /\ phase' = "update"
    /\ client' \in BOOLEAN
    /\ beacon' = IF client /\ ~client' THEN resetBackoff(beacon, FALSE) ELSE beacon
    /\ UNCHANGED <<wifi, uptime, ntp, led, observed, previous, dropping, told, untried, held>>

\* startIfNeeded: the first iteration opens the socket and resets the back-off.
startIfNeeded == ~beacon.started

\* startIfNeeded, then WiFiManager::update, which calls back on a connect.
UpdateWifi ==
    /\ phase = "update"
    /\ phase' = "observe"
    /\ wifi' \in WifiStates \ {"DISCONNECTED"} \/ wifi' = wifi
    /\ LET connects == Connected(wifi') /\ ~Connected(wifi)
           resets   == connects \/ startIfNeeded
       IN  /\ \E isAhead \in BOOLEAN :
                 beacon' = IF resets
                           THEN [resetBackoff(beacon, isAhead) EXCEPT !.started = TRUE]
                           ELSE [beacon EXCEPT !.ahead = FALSE]
           /\ ntp' = [ntp EXCEPT !.requested = @ \/ connects]
    /\ UNCHANGED <<client, uptime, led, observed, previous, dropping, told, untried, held>>

\* LedPatternPolicy::update.
UpdateLed ==
    /\ phase = "led"
    /\ phase' = "tail"
    /\ led' = updateInternal(setPattern(led, selectLedPattern(wifi, client)))
    /\ UNCHANGED <<wifi, client, beacon, uptime, ntp, observed, previous, dropping, told, untried,
                   held>>

\* maybeStart, then DiscoveryPolicy::update.
NtpAndBeacon ==
    /\ phase = "tail"
    /\ phase' = "top"
    /\ MaybeStart
    /\ UpdateBeacon
    /\ held' = 0
    /\ UNCHANGED <<wifi, client, uptime, led, observed, previous, dropping, told>>

\* Ages do not go on where the code no longer tells them apart.  The age of a
\* connection is unsigned and may start again from there.
Older(age, limit) == IF age < limit THEN age + 1 ELSE limit

Wrapped(age, limit) == IF age < limit THEN {age + 1} ELSE {limit, 0}

\* A beacon that is never late is not told apart from one that is never sent.
Cap == Long + Slow + 2 * Hold

\* Time passes where loop() may be held, after update().
Tick ==
    /\ phase = "top" /\ held < Hold
    /\ held' = held + 1
    /\ uptime' = (uptime + 1) % Clock
    /\ \E age \in Wrapped(beacon.age, Age10) :
         beacon' = [beacon EXCEPT !.age = IF beacon.ahead THEN 0 ELSE age,
                                  !.ahead = FALSE,
                                  !.last = IF @ = Zero THEN Zero ELSE Older(@, Long)]
    /\ untried' = IF RadioInUse /\ beacon.started THEN Older(untried, Cap) ELSE 0
    /\ led' = LedTick(led)
    /\ UNCHANGED <<phase, wifi, client, ntp, observed, previous, dropping, told>>

-----------------------------------------------------------------------------

Init ==
    /\ phase = "top" /\ held = 0
    /\ wifi = "DISCONNECTED" /\ client = FALSE
    /\ beacon = [started |-> FALSE, age |-> 0, ahead |-> FALSE, last |-> Zero]
    /\ uptime = 0
    /\ ntp = [requested |-> FALSE, synced |-> FALSE, enabled |-> FALSE,
              attempts |-> 0, starts |-> 0]
    /\ led = LedInit
    /\ observed = FALSE /\ previous = FALSE
    /\ dropping = FALSE /\ told = FALSE
    /\ untried = 0

Loop == ServeClients \/ UpdateWifi \/ ReadState \/ Observe \/ UpdateLed \/ NtpAndBeacon

Next ==
    \/ Loop
    \/ SyncComplete
    \/ WifiDrop
    \/ EmitDrop
    \/ Tick

\* The loop task always runs on, and not for ever within one tick of the clock.
Spec == Init /\ [][Next]_vars /\ WF_vars(Loop) /\ SF_vars(Tick)

-----------------------------------------------------------------------------
(* Properties *)

\* Every variable has its type.
TypeOK ==
    /\ phase \in {"top", "update", "observe", "tell", "led", "tail"}
    /\ wifi \in WifiStates /\ client \in BOOLEAN /\ held \in 0..Hold
    /\ beacon \in [started : BOOLEAN, age : 0..Age10, ahead : BOOLEAN, last : Zero..Long]
    /\ uptime \in 0..(Clock - 1)
    /\ ntp \in [requested : BOOLEAN, synced : BOOLEAN, enabled : BOOLEAN,
                attempts : 0..(RetryMax + 1), starts : 0..(RetryMax + 1)]
    /\ led \in Led
    /\ observed \in BOOLEAN /\ previous \in BOOLEAN /\ dropping \in BOOLEAN
    /\ told \in BOOLEAN /\ untried \in 0..Cap

\* Whatever changes between two updates, the step machine stays inside its
\* pattern and the LED shows the step it is at.
LedInStep ==
    /\ led.last = led.pattern => led.step \in 1..Len(PatternSteps[led.pattern])
    /\ led.last = led.pattern => led.on = StepOf(led).on

\* A client adopted in this iteration is shown by its end, solidly: the order
\* of cycle() and update() in loop().
ClientShown == phase \in {"tail", "top"} /\ client => led.pattern = "CLIENT_CONNECTED" /\ led.on

\* SNTP is started RetryMax times at most, however often the link comes up.
NtpBounded == ntp.starts <= RetryMax

\* A log that ends with the link coming up is of a device whose last look found
\* it up: the event of a drop never goes before the connect it is about, though
\* both tasks write events.  The converse fails: a link that returns between two
\* looks leaves the event of its drop as the last.
EventsTellLink == told => previous

HousekeepingSafe == TypeOK /\ LedInStep /\ ClientShown /\ NtpBounded /\ EventsTellLink

\* A radio in use is given a beacon before the longest interval is over; where a
\* reset meets a clock that has just wrapped around, within one more interval of
\* the slow tier, which a link that comes back in every iteration may keep in
\* force.  To each the iteration that holds the loop is added.  So it is whatever
\* client the device has, whenever its stamps are taken, and whatever became of
\* the beacons before.
BeaconKeepsPace == untried <= (Long - 1 + Hold) + (Slow - 1 + Hold)

\* DiscoveryManager.h: the device "NEVER broadcasts slower than the CLI's
\* AUTO_DISCOVERY_TIMEOUT_S (12s) auto-discover window".
BeaconInWindow == untried <= (Window - 1 + Hold) + (Slow - 1 + Hold)

\* A pattern that is kept is played on: the LED of a device that searches never
\* freezes, whatever the loop's timing.
LedPlaysOn ==
    <>[](wifi = "CONNECTING" /\ ~client) => []<>led.on /\ []<>~led.on
=============================================================================
