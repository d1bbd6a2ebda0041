---------------------------- MODULE WiFiManager ----------------------------
(***************************************************************************)
(* The WiFi state machine of the ESP32 CAN bridge                          *)
(* (firmware/vanilla/WiFiManager.cpp), as it runs in the firmware: loop()  *)
(* calls update() and then restartTcpServerIfNeeded(), while the radio's   *)
(* STA_DISCONNECTED callback runs onDisconnected() on the event task with  *)
(* no lock.  update() is therefore two steps, execute and apply, and the   *)
(* callback may run between them; an execute() that gives up on STA reads  *)
(* the disconnect reason twice, and is two steps itself.                   *)
(*                                                                         *)
(* Times are kept as ages ("now - stamp"), each saturated one past the     *)
(* largest value the code compares it with; Tick ages all of them.         *)
(***************************************************************************)
EXTENDS Integers, Sequences

CONSTANTS
    Reasons,         \* disconnect reason codes the radio may report
    IPs,             \* what localIP() may read while associated
    RadioStatuses,   \* what status() may read while not associated
    AutoReconnect,   \* the WiFi core retries by itself after a failure
    BakedIn,         \* the build carries baked-in credentials
    NvsImages,       \* contents of the "wifi" NVS namespace at boot
    RetryInterval,   \* WIFI_CONNECT_RETRY_INTERVAL_MS, in ticks
    FirstRetries,    \* WIFI_CONNECT_FIRST_RETRIES_COUNT
    ConnectTimeout,  \* WIFI_CONNECT_TIMEOUT_MS, in ticks
    InitialTimeout,  \* WIFI_INITIAL_CONNECT_MAX_RETRIES retries, in ticks
    ApStaRetry,      \* WIFI_AP_MODE_STA_RETRY_INTERVAL_MS, in ticks
    LongOutage,      \* LONG_OUTAGE_MS, in ticks
    StrategyCount,   \* WIFI_AUTH_STRATEGY_COUNT
    LoopCount,       \* WIFI_AUTH_STRATEGY_LOOP_COUNT
    MaxEvents        \* bound: disconnect events queued at the event task

NvsImage == [count : BOOLEAN, ssid : BOOLEAN, pass : BOOLEAN]

NoIp   == "0.0.0.0"   \* what localIP() reads without a lease
NoneIp == ""          \* lastConnectedIp before the first connect
Never  == -1          \* age of a stamp that is still 0

ASSUME RadioAssumption ==
    /\ Reasons \subseteq Int
    /\ NoneIp \notin IPs
    /\ RadioStatuses \subseteq {"IDLE", "FAILED", "OTHER"}
    /\ AutoReconnect \in BOOLEAN
    /\ MaxEvents \in Nat \ {0}

ASSUME CredentialAssumption ==
    /\ BakedIn \in BOOLEAN
    /\ NvsImages \subseteq NvsImage

ASSUME TimingAssumption ==
    /\ {RetryInterval, FirstRetries, ApStaRetry, LongOutage} \subseteq Nat \ {0}
    /\ ConnectTimeout \in Nat \ {0}
    /\ InitialTimeout \in Nat
    /\ ConnectTimeout < InitialTimeout

ASSUME CampaignAssumption ==
    /\ StrategyCount \in Nat \ {0}
    /\ LoopCount \in Nat \ {0}

VARIABLES
    \* WiFiState::Context
    state,             \* state
    connectAge,        \* now - connectStartTime
    retryAge,          \* now - lastRetryMs
    reconnectPending,  \* reconnectPending
    attempts,          \* reconnectAttempts, saturated at FirstRetries
    reason,            \* lastDisconnectReason
    escalated,         \* escalatedToApReason
    apRetryAge,        \* now - apModeStaRetryMs, Never when unarmed
    pendingAuthFail,   \* pendingAuthFail
    strategy,          \* authFailStrategyIndex
    loop,              \* authFailStrategyLoop, saturated at LoopCount
    needsRestart,      \* tcpServerNeedsRestart
    lastIp,            \* lastConnectedIp
    outage,            \* now - disconnectStartMs, Never before a polled drop
    \* the loop task
    phase,             \* which step of loop() comes next
    tr,                \* the StateTransition update() is about to apply
    hooks,             \* callbacks fired in this iteration of loop()
    uptime,            \* now, saturated at RetryInterval
    \* outside the manager
    radio,             \* mode, status, address, and whether STA is trying
    events,            \* disconnect reasons the event task has yet to deliver
    nvs,               \* NVS contents (written only across a reboot)
    \* history
    tried,             \* strategies applied since the last genuine connect
    entryAge,          \* time since WIFI_CONNECTING was last entered
    rebindOwed         \* a connect decided to re-bind; no re-bind since

budgetVars   == <<connectAge, retryAge, reconnectPending, attempts>>
campaignVars == <<pendingAuthFail, strategy, loop, tried>>
apVars       == <<escalated, apRetryAge>>
serverVars   == <<needsRestart, lastIp, outage, rebindOwed>>
loopVars     == <<phase, tr, hooks>>
envVars      == <<radio, events>>
clockVars    == <<uptime, entryAge>>
vars == <<state, reason, nvs, budgetVars, campaignVars, apVars, serverVars,
          loopVars, envVars, clockVars>>

-----------------------------------------------------------------------------
(* WiFiState::State *)

ApStates == {"AP_MODE_DEFAULT", "AP_MODE_AUTH_FAIL", "AP_MODE_NO_AP"}
States == {"DISCONNECTED", "CONNECTING", "CONNECTED"} \union ApStates

isApModeState(s) == s \in ApStates

\* WL_IDLE_STATUS is "IDLE", WL_NO_SSID_AVAIL and WL_CONNECT_FAILED are
\* "FAILED", WL_CONNECTED is "CONNECTED", every other code is "OTHER".
Statuses == {"IDLE", "FAILED", "CONNECTED", "OTHER"}
Modes    == {"OFF", "STA", "AP", "AP_STA"}
Radio    == [mode : Modes, status : Statuses, ip : IPs \union {NoIp},
             engaged : BOOLEAN]

Transition == [next : States, tcp : BOOLEAN, ntp : BOOLEAN]
NoTransition == [next |-> "DISCONNECTED", tcp |-> FALSE, ntp |-> FALSE]

-----------------------------------------------------------------------------
(* The classification of disconnect reasons *)

isAuthMechanismFailure(r) == r \in {15, 23, 202}
isLinkLevelDrop(r)        == r \in {0, 2, 3, 4, 24, 200, 201, 204}
isApScanMiss(r)           == r = 201

(* Credentials *)

determineCredentialSource ==
    CASE nvs.count -> "STORED_NVS"
      [] ~nvs.count /\ BakedIn -> "BAKED_IN"
      [] OTHER -> "NONE"

\* Fault: the password key is not probed.
LoadWithoutPassword == nvs.ssid

loadCredentialsImpl == nvs.ssid /\ nvs.pass

\* Some begin() can be issued: stored credentials win, else the baked ones.
HaveCredentials ==
    \/ determineCredentialSource = "STORED_NVS" /\ loadCredentialsImpl
    \/ BakedIn

(* Policy predicates *)

\* Fault: the fallback does not ask where the credentials come from.
FallbackForAnySource(age) == age > ConnectTimeout

shouldFallbackToApMode(age) ==
    determineCredentialSource = "STORED_NVS" /\ age > ConnectTimeout

isInitialConnectTimeout(age) == age > InitialTimeout

shouldRetryWiFi == attempts < FirstRetries \/ retryAge >= RetryInterval

shouldRestartTcpServerForReconnect ==
    \/ lastIp = NoneIp
    \/ radio.ip # lastIp
    \/ outage > LongOutage

\* Fault: off by one, the last pass is skipped.
ExhaustedOnePassEarly(l) == l >= LoopCount - 1

isAuthCampaignExhausted(l) == l >= LoopCount

-----------------------------------------------------------------------------
(* The radio, as the Arduino WiFi library presents it (external) *)

SetMode(r, m) ==
    IF m \in {"OFF", "AP"}
    THEN [mode |-> m, status |-> "OTHER", ip |-> NoIp, engaged |-> FALSE]
    ELSE [r EXCEPT !.mode = m]

Begin(r) ==
    [r EXCEPT !.mode = IF @ \in {"AP", "AP_STA"} THEN "AP_STA" ELSE "STA",
              !.engaged = TRUE]

Disconnect(r) == [r EXCEPT !.status = "OTHER", !.ip = NoIp, !.engaged = FALSE]

\* begin() with whatever credentials there are; nothing when there are none.
BeginStored(r) == IF HaveCredentials THEN Begin(r) ELSE r

applyAuthStrategy(r, index) ==
    CASE index = 0 -> BeginStored(r)
      [] index = 1 -> BeginStored(SetMode(Disconnect(r), "STA"))
      [] OTHER     -> BeginStored(SetMode(SetMode(r, "OFF"), "STA"))

-----------------------------------------------------------------------------
Min2(a, b) == IF a <= b THEN a ELSE b

\* One more unit of age, saturated just past the largest bound compared with.
Older(age, bound) == IF age = Never THEN Never ELSE Min2(age + 1, bound + 1)

CountAttempt == attempts' = Min2(attempts + 1, FirstRetries)

\* execute() returns StateTransition(s, tcp, ntp); the loop task applies it next.
\* A genuine connect (ntp) has fired the discovery-reset callback by then.
Return(s, tcp, ntp) ==
    /\ phase = "update"
    /\ phase' = "apply"
    /\ tr' = [next |-> s, tcp |-> tcp, ntp |-> ntp]
    /\ hooks' = IF ntp THEN {"discovery_reset"} ELSE {}

\* execute() has put the radio in AP mode and goes on in a step of its own, with
\* another read of lastDisconnectReason that a late event may have rewritten.
GiveUp(next) ==
    /\ phase = "update"
    /\ phase' = next
    /\ radio' = SetMode(radio, "AP")
    /\ hooks' = {}
    /\ UNCHANGED tr

\* ... and that step returns the AP state it has settled on.
ReturnAp(s) ==
    /\ phase' = "apply"
    /\ tr' = [next |-> s, tcp |-> FALSE, ntp |-> FALSE]
    /\ UNCHANGED <<state, reason, nvs, budgetVars, campaignVars, apRetryAge,
                   serverVars, hooks, envVars, clockVars>>

Stay == Return(state, FALSE, FALSE)

ResetCampaign ==
    /\ pendingAuthFail' = FALSE
    /\ strategy' = 0
    /\ loop' = 0
    /\ tried' = 0

-----------------------------------------------------------------------------
(* DisconnectedStateHandler::execute *)

DisconnectedStateHandler ==
    /\ ~pendingAuthFail
    /\ state = "DISCONNECTED"
    /\ \/ /\ \/ determineCredentialSource = "STORED_NVS" /\ loadCredentialsImpl
             \/ determineCredentialSource = "BAKED_IN"
          /\ radio' = Begin(SetMode(radio, "STA"))
          /\ connectAge' = 0
          /\ retryAge' = 0
          /\ Return("CONNECTING", FALSE, FALSE)
       \/ /\ determineCredentialSource = "NONE"
          /\ radio' = SetMode(radio, "AP")
          /\ Return("AP_MODE_DEFAULT", FALSE, FALSE)
          /\ UNCHANGED <<connectAge, retryAge>>
       \/ /\ determineCredentialSource = "STORED_NVS" /\ ~loadCredentialsImpl
          /\ Stay
          /\ UNCHANGED <<radio, connectAge, retryAge>>
    /\ UNCHANGED <<state, reason, nvs, reconnectPending, attempts,
                   campaignVars, apVars, serverVars, events, clockVars>>

-----------------------------------------------------------------------------
(* ConnectingStateHandler::execute *)

\* Fault: the drop marker is ignored, the budget runs from the first begin().
DurationSinceBoot == connectAge

\* The drop marker re-anchors the connect budget on the first CONNECTING tick.
connectDuration == IF reconnectPending THEN 0 ELSE connectAge

Connecting ==
    /\ ~pendingAuthFail
    /\ state = "CONNECTING"

ReAnchor ==
    /\ connectAge' = connectDuration
    /\ reconnectPending' = FALSE

\* Fault: a drop that is still marked hides the connect that followed it.
ConnectBehindMarker ==
    /\ Connecting
    /\ radio.status = "CONNECTED"
    /\ \/ /\ reconnectPending
          /\ Stay
          /\ UNCHANGED <<connectAge, reconnectPending, attempts, campaignVars>>
       \/ /\ ~reconnectPending
          /\ ReAnchor
          /\ ResetCampaign
          /\ attempts' = 0
          /\ Return("CONNECTED", shouldRestartTcpServerForReconnect, TRUE)
    /\ UNCHANGED <<state, reason, nvs, retryAge, apVars, serverVars, envVars,
                   clockVars>>

handleConnected ==
    /\ Connecting
    /\ radio.status = "CONNECTED"
    /\ ReAnchor
    /\ ResetCampaign
    /\ attempts' = 0
    /\ Return("CONNECTED", shouldRestartTcpServerForReconnect, TRUE)
    /\ UNCHANGED <<state, reason, nvs, retryAge, apVars, serverVars, envVars,
                   clockVars>>

FallbackState ==
    IF isApScanMiss(reason) THEN "AP_MODE_NO_AP" ELSE "AP_MODE_AUTH_FAIL"

handleConnectFailed ==
    /\ Connecting
    /\ radio.status = "FAILED"
    /\ ReAnchor
    /\ \/ /\ shouldFallbackToApMode(connectDuration)
          /\ GiveUp("label")
          /\ escalated' = reason
          /\ UNCHANGED <<retryAge, attempts>>
       \/ /\ ~shouldFallbackToApMode(connectDuration)
          /\ shouldRetryWiFi
          /\ radio' = BeginStored(Disconnect(radio))
          /\ retryAge' = 0
          /\ CountAttempt
          /\ Stay
          /\ UNCHANGED escalated
       \/ /\ ~shouldFallbackToApMode(connectDuration)
          /\ ~shouldRetryWiFi
          /\ Stay
          /\ UNCHANGED <<radio, retryAge, attempts, escalated>>
    /\ UNCHANGED <<state, reason, nvs, campaignVars, apRetryAge, serverVars,
                   events, clockVars>>

\* The reason is recorded by now and read again for the label.
labelFallback ==
    /\ phase = "label"
    /\ ReturnAp(FallbackState)
    /\ UNCHANGED escalated

handleIdleStatus ==
    /\ Connecting
    /\ radio.status = "IDLE"
    /\ ~isInitialConnectTimeout(connectDuration)
    /\ ReAnchor
    /\ \/ /\ shouldRetryWiFi
          /\ radio' = BeginStored(radio)
          /\ retryAge' = 0
          /\ CountAttempt
       \/ /\ ~shouldRetryWiFi
          /\ UNCHANGED <<radio, retryAge, attempts>>
    /\ Stay
    /\ UNCHANGED <<state, reason, nvs, campaignVars, apVars, serverVars,
                   events, clockVars>>

\* The branch for source NONE is dead: CONNECTING is only entered with
\* credentials, and they change only across a reboot (EscalationHasCredentials).
handleInitialConnectTimeout ==
    /\ Connecting
    /\ radio.status \in {"IDLE", "OTHER"}
    /\ isInitialConnectTimeout(connectDuration)
    /\ ReAnchor
    /\ \/ /\ determineCredentialSource = "STORED_NVS"
          /\ isAuthMechanismFailure(reason)
          /\ GiveUp("record")
       \/ /\ ~(determineCredentialSource = "STORED_NVS"
               /\ isAuthMechanismFailure(reason))
          /\ Return("CONNECTING", FALSE, FALSE)
          /\ UNCHANGED radio
    /\ UNCHANGED <<state, reason, nvs, retryAge, attempts, campaignVars,
                   apVars, serverVars, events, clockVars>>

\* The reason has been found to be an auth failure and is read again to record it.
recordEscalation ==
    /\ phase = "record"
    /\ escalated' = reason
    /\ ReturnAp("AP_MODE_AUTH_FAIL")

\* Any other status within the budget: stay in CONNECTING.
ConnectingWait ==
    /\ Connecting
    /\ radio.status = "OTHER"
    /\ ~isInitialConnectTimeout(connectDuration)
    /\ ReAnchor
    /\ Stay
    /\ UNCHANGED <<state, reason, nvs, retryAge, attempts, campaignVars, apVars,
                   serverVars, envVars, clockVars>>

-----------------------------------------------------------------------------
(* ConnectedStaStateHandler::execute and ConnectedApStateHandler::execute *)

LinkUp == radio.status = "CONNECTED" /\ radio.ip # NoIp

\* Fault: only the status is polled, not the address.
DroppedByStatus == radio.status # "CONNECTED"

StaDropped == ~LinkUp

ConnectedStaStateHandler ==
    /\ ~pendingAuthFail
    /\ state = "CONNECTED"
    /\ \/ /\ StaDropped
          /\ reconnectPending' = TRUE
          /\ outage' = 0
          /\ Return("CONNECTING", FALSE, FALSE)
       \/ /\ ~StaDropped
          /\ Stay
          /\ UNCHANGED <<reconnectPending, outage>>
    /\ UNCHANGED <<state, reason, nvs, connectAge, retryAge, attempts,
                   campaignVars, apVars, needsRestart, lastIp, rebindOwed,
                   envVars, clockVars>>

attemptApModeStaRecovery ==
    \/ /\ apRetryAge = Never
       /\ apRetryAge' = 0
       /\ Stay
       /\ UNCHANGED <<radio, connectAge, retryAge>>
    \/ /\ apRetryAge # Never
       /\ apRetryAge < ApStaRetry
       /\ Stay
       /\ UNCHANGED <<radio, connectAge, retryAge, apRetryAge>>
    \/ /\ apRetryAge >= ApStaRetry
       /\ radio' = BeginStored(SetMode(radio, "STA"))
       /\ apRetryAge' = 0
       /\ connectAge' = 0
       /\ retryAge' = 0
       /\ Return("CONNECTING", FALSE, FALSE)

\* Fault: the state added last is taken for a stable AP.
StableApWithNoAp == {"AP_MODE_DEFAULT", "AP_MODE_NO_AP"}

\* Nothing to retry: this AP stays up.
StableAp == {"AP_MODE_DEFAULT"}

ConnectedApStateHandler ==
    /\ ~pendingAuthFail
    /\ \/ /\ state \in StableAp
          /\ Stay
          /\ UNCHANGED <<radio, connectAge, retryAge, apRetryAge>>
       \/ /\ state \in ApStates \ StableAp
          /\ attemptApModeStaRecovery
    /\ UNCHANGED <<state, reason, nvs, reconnectPending, attempts, campaignVars,
                   escalated, serverVars, events, clockVars>>

-----------------------------------------------------------------------------
(* AuthCampaign::tick: it owns update() while pendingAuthFail is set. *)

\* Fault: a connect during the campaign is not looked for.
CampaignIgnoresConnect ==
    /\ pendingAuthFail
    /\ radio.status = "CONNECTED"
    /\ Stay
    /\ UNCHANGED <<state, reason, nvs, budgetVars, campaignVars, apVars,
                   serverVars, envVars, clockVars>>

checkCampaignSuccess ==
    /\ pendingAuthFail
    /\ radio.status = "CONNECTED"
    /\ ResetCampaign
    /\ reconnectPending' = FALSE
    /\ attempts' = 0
    /\ Return("CONNECTED", shouldRestartTcpServerForReconnect, TRUE)
    /\ UNCHANGED <<state, reason, nvs, connectAge, retryAge, apVars, serverVars,
                   envVars, clockVars>>

CampaignWait ==
    /\ pendingAuthFail
    /\ radio.status # "CONNECTED"
    /\ ~shouldRetryWiFi
    /\ Stay
    /\ UNCHANGED <<state, reason, nvs, budgetVars, campaignVars, apVars,
                   serverVars, envVars, clockVars>>

\* Fault: the index does not wrap.
NextStrategyUnwrapped == strategy + 1

\* advanceRotation: the index wraps, and a wrap completes a pass.
NextStrategy == IF strategy + 1 >= StrategyCount THEN 0 ELSE strategy + 1
NextLoop == IF strategy + 1 >= StrategyCount THEN Min2(loop + 1, LoopCount)
                                             ELSE loop

\* applyCurrentStrategy; advanceRotation; checkExhaustion.
CampaignStrategy ==
    /\ pendingAuthFail
    /\ radio.status # "CONNECTED"
    /\ shouldRetryWiFi
    /\ strategy' = NextStrategy
    /\ loop' = NextLoop
    /\ tried' = Min2(tried + 1, StrategyCount * LoopCount)
    /\ retryAge' = 0
    /\ CountAttempt
    /\ \/ /\ isAuthCampaignExhausted(NextLoop)
          /\ radio' = SetMode(applyAuthStrategy(radio, strategy), "AP")
          /\ pendingAuthFail' = FALSE
          /\ escalated' = reason
          /\ Return("AP_MODE_AUTH_FAIL", FALSE, FALSE)
       \/ /\ ~isAuthCampaignExhausted(NextLoop)
          /\ radio' = applyAuthStrategy(radio, strategy)
          /\ Stay
          /\ UNCHANGED <<pendingAuthFail, escalated>>
    /\ UNCHANGED <<state, reason, nvs, connectAge, reconnectPending, apRetryAge,
                   serverVars, events, clockVars>>

-----------------------------------------------------------------------------
(* applyStateTransition, the second half of update() *)

applyStateTransition ==
    /\ phase = "apply"
    /\ phase' = "server"
    /\ tr' = NoTransition
    /\ state' = tr.next
    /\ \/ /\ tr.next = state
          /\ UNCHANGED <<lastIp, apRetryAge, needsRestart, rebindOwed, entryAge,
                         hooks>>
       \/ /\ tr.next # state
          /\ lastIp' = IF tr.next = "CONNECTED" THEN radio.ip ELSE lastIp
          /\ apRetryAge' = IF isApModeState(tr.next) /\ ~isApModeState(state)
                           THEN Never ELSE apRetryAge
          /\ needsRestart' = (needsRestart \/ tr.tcp)
          /\ rebindOwed' = (rebindOwed \/ tr.tcp)
          /\ hooks' = IF tr.ntp THEN hooks \union {"ntp_init"} ELSE hooks
          /\ entryAge' = IF tr.next = "CONNECTING" THEN 0 ELSE entryAge
    /\ UNCHANGED <<reason, nvs, budgetVars, campaignVars, escalated, outage,
                   envVars, uptime>>

\* loop(): end() and begin() of the listening socket, then the flag is cleared.
restartTcpServerIfNeeded ==
    /\ phase = "server"
    /\ phase' = "update"
    /\ hooks' = {}
    /\ needsRestart' = FALSE
    /\ rebindOwed' = (rebindOwed /\ ~needsRestart)
    /\ UNCHANGED <<state, reason, nvs, budgetVars, campaignVars, apVars, tr,
                   lastIp, outage, envVars, clockVars>>

-----------------------------------------------------------------------------
(* onDisconnected, on the event task: at any point of the loop task. *)

DropToConnecting ==
    /\ state' = "CONNECTING"
    /\ attempts' = 0
    /\ reconnectPending' = TRUE
    /\ entryAge' = 0

onDisconnectedAuth ==
    /\ events # <<>>
    /\ isAuthMechanismFailure(Head(events))
    /\ events' = Tail(events)
    /\ reason' = Head(events)
    /\ pendingAuthFail' = TRUE
    /\ needsRestart' = FALSE
    /\ strategy' = IF loop = 0 THEN 0 ELSE strategy
    /\ IF state = "CONNECTED"
       THEN DropToConnecting
       ELSE UNCHANGED <<state, attempts, reconnectPending, entryAge>>
    /\ retryAge' = uptime
    /\ UNCHANGED <<nvs, connectAge, loop, tried, apVars, lastIp, outage,
                   rebindOwed, loopVars, radio, uptime>>

onDisconnectedLink ==
    /\ events # <<>>
    /\ ~isAuthMechanismFailure(Head(events))
    /\ events' = Tail(events)
    /\ reason' = Head(events)
    /\ IF state = "CONNECTED"
       THEN /\ DropToConnecting
            /\ needsRestart' = TRUE
            /\ retryAge' = uptime
       ELSE UNCHANGED <<state, attempts, reconnectPending, entryAge,
                        needsRestart, retryAge>>
    /\ UNCHANGED <<nvs, connectAge, campaignVars, apVars, lastIp, outage,
                   rebindOwed, loopVars, radio, uptime>>

-----------------------------------------------------------------------------
(* The environment: clock, access point and DHCP server *)

\* millis() advances.  Nothing between execute and the socket restart reads the
\* clock, so time passing there commutes with passing before the next update().
Tick ==
    /\ phase = "update"
    /\ uptime' = Min2(uptime + 1, RetryInterval)
    /\ retryAge' = Min2(retryAge + 1, RetryInterval)
    /\ connectAge' = Older(connectAge, InitialTimeout)
    /\ entryAge' = Older(entryAge, ConnectTimeout)
    /\ outage' = Older(outage, LongOutage)
    /\ apRetryAge' = Older(apRetryAge, ApStaRetry)
    /\ UNCHANGED <<state, reason, nvs, reconnectPending, attempts, campaignVars,
                   escalated, needsRestart, lastIp, rebindOwed, loopVars, envVars>>

StaUp == radio.mode \in {"STA", "AP_STA"} /\ radio.engaged

\* Associated, with an address or still waiting for DHCP ("0.0.0.0").
RadioConnect(i) ==
    /\ StaUp
    /\ radio.status # "CONNECTED"
    /\ radio' = [radio EXCEPT !.status = "CONNECTED", !.ip = i]

\* The lease is lost or replaced while the link stays up.
RadioLease(i) ==
    /\ radio.status = "CONNECTED"
    /\ radio.ip # i
    /\ radio' = [radio EXCEPT !.ip = i]

\* The status read by WiFi.status() moves while nothing is associated.  Only
\* execute() reads it, so it moves before an update() rather than inside one.
RadioStatus(s) ==
    /\ phase = "update"
    /\ radio.mode \in {"STA", "AP_STA"}
    /\ radio.status \notin {s, "CONNECTED"}
    /\ radio' = [radio EXCEPT !.status = s]

\* The link drops or an attempt fails, and the event task has a reason to
\* deliver.  Whether STA keeps trying then is up to the core's auto-reconnect.
RadioFail(r, s) ==
    /\ StaUp
    /\ Len(events) < MaxEvents
    /\ radio' = [radio EXCEPT !.status = s, !.ip = NoIp,
                             !.engaged = AutoReconnect]
    /\ events' = Append(events, r)

RadioStep ==
    /\ \/ /\ \/ \E i \in IPs : RadioConnect(i)
             \/ \E i \in IPs : RadioLease(i)
             \/ \E s \in RadioStatuses : RadioStatus(s)
          /\ UNCHANGED events
       \/ \E r \in Reasons, s \in RadioStatuses : RadioFail(r, s)
    /\ UNCHANGED <<state, reason, nvs, budgetVars, campaignVars, apVars,
                   serverVars, loopVars, clockVars>>

-----------------------------------------------------------------------------
Init ==
    /\ state = "DISCONNECTED"
    /\ connectAge = 0 /\ retryAge = 0 /\ reconnectPending = FALSE /\ attempts = 0
    /\ reason = 0 /\ escalated = 0 /\ apRetryAge = Never
    /\ pendingAuthFail = FALSE /\ strategy = 0 /\ loop = 0
    /\ needsRestart = FALSE /\ lastIp = NoneIp /\ outage = Never
    /\ phase = "update" /\ tr = NoTransition /\ hooks = {} /\ uptime = 0
    /\ radio = [mode |-> "OFF", status |-> "OTHER", ip |-> NoIp, engaged |-> FALSE]
    /\ events = <<>>
    /\ nvs \in NvsImages
    /\ tried = 0 /\ entryAge = 0 /\ rebindOwed = FALSE

update ==
    \/ DisconnectedStateHandler
    \/ handleConnected \/ handleConnectFailed \/ handleIdleStatus
    \/ handleInitialConnectTimeout \/ ConnectingWait
    \/ labelFallback \/ recordEscalation
    \/ ConnectedStaStateHandler \/ ConnectedApStateHandler
    \/ checkCampaignSuccess \/ CampaignWait \/ CampaignStrategy

LoopStep == update \/ applyStateTransition \/ restartTcpServerIfNeeded

onDisconnected == onDisconnectedAuth \/ onDisconnectedLink

Next == LoopStep \/ onDisconnected \/ Tick \/ RadioStep

Spec == Init /\ [][Next]_vars

\* loop() is called forever, the event task drains its queue, time passes
\* (strongly fair: Tick is only enabled between two iterations of loop()); the
\* radio owes nothing.
FairSpec ==
    /\ Spec
    /\ WF_vars(LoopStep)
    /\ WF_vars(onDisconnected)
    /\ SF_vars(Tick)

-----------------------------------------------------------------------------
(* Properties *)

TimesOK ==
    /\ connectAge \in 0..(InitialTimeout + 1)
    /\ retryAge \in 0..RetryInterval
    /\ apRetryAge \in {Never} \union 0..(ApStaRetry + 1)
    /\ outage \in {Never} \union 0..(LongOutage + 1)
    /\ entryAge \in 0..(ConnectTimeout + 1)
    /\ uptime \in 0..RetryInterval

CountersOK ==
    /\ attempts \in 0..FirstRetries
    /\ strategy \in 0..(StrategyCount - 1)
    /\ loop \in 0..LoopCount
    /\ tried \in 0..(StrategyCount * LoopCount)

FlagsOK ==
    /\ reconnectPending \in BOOLEAN
    /\ pendingAuthFail \in BOOLEAN
    /\ needsRestart \in BOOLEAN
    /\ rebindOwed \in BOOLEAN

LabelsOK ==
    /\ state \in States
    /\ reason \in Reasons \union {0}
    /\ escalated \in Reasons \union {0}
    /\ lastIp \in IPs \union {NoIp, NoneIp}
    /\ phase \in {"update", "label", "record", "apply", "server"}
    /\ tr \in Transition
    /\ hooks \subseteq {"discovery_reset", "ntp_init"}

OutsideOK ==
    /\ radio \in Radio
    /\ events \in Seq(Reasons)
    /\ nvs \in NvsImage

\* Every variable of the manager, the loop task and the radio has its type.
TypeOK == TimesOK /\ CountersOK /\ FlagsOK /\ LabelsOK /\ OutsideOK

\* This step of execute() gives up on STA without a campaign: AP mode is next.
Escalates == phase = "update" /\ phase' \in {"label", "record"}

\* This step is an execute() that returns a transition to state s.
Returns(s) == phase = "update" /\ phase' = "apply" /\ tr'.next = s

\* The auth campaign gives up only once every strategy has been applied
\* LoopCount times since the last genuine connect, however its failures, its
\* events and its successes interleave (AuthCampaign::checkExhaustion).
GivesUpOnlyExhausted ==
    [][pendingAuthFail /\ Returns("AP_MODE_AUTH_FAIL") /\ ~pendingAuthFail'
         => tried' >= StrategyCount * LoopCount]_vars

\* However the drop was noticed (event or poll), whatever raced with it, a
\* fallback to AP mode without a campaign comes only after CONNECTING has had
\* its whole connect budget since it was last entered (reconnectPending).
FreshConnectBudget ==
    [][Escalates => entryAge > ConnectTimeout]_vars

\* With baked-in credentials and nothing stored, connecting never falls back to
\* AP mode without a campaign (handleInitialConnectTimeout: "keep trying").
BakedKeepsTrying ==
    [][determineCredentialSource = "BAKED_IN" => ~Escalates]_vars

\* AP_MODE_DEFAULT is the AP of a device with nothing configured and stays up;
\* every state past DISCONNECTED other than it has credentials to begin with.
ApDefaultMeansUnconfigured ==
    /\ state = "AP_MODE_DEFAULT" => ~nvs.count /\ ~BakedIn /\ radio.mode = "AP"
    /\ state \notin {"DISCONNECTED", "AP_MODE_DEFAULT"} =>
          BakedIn \/ (nvs.count /\ nvs.ssid /\ nvs.pass)

\* If the radio is associated for good, the manager ends up in WIFI_CONNECTED
\* for good, from every state, campaign and race it may be in.
FollowsRadio == <>[]LinkUp => <>[](state = "CONNECTED")

\* Without auth failures a lost link cannot leave the manager in
\* WIFI_CONNECTED: the poll catches what the event race loses.
NoticesDrop == state = "CONNECTED" /\ ~LinkUp ~> state # "CONNECTED" \/ LinkUp

\* Without auth failures a credential-backed AP state ends in a new STA attempt.
SelfHeals == state \in {"AP_MODE_AUTH_FAIL", "AP_MODE_NO_AP"}
                ~> state = "CONNECTING"

-----------------------------------------------------------------------------
(* What the repository says of this component, and the code does not do *)

\* WiFiManager.h: NO_AP is "AP because the configured SSID was not visible to the
\* scan (reason 201 ...)".  The reason recorded for the escalation says otherwise
\* when an event comes between the two reads of handleConnectFailed.
NoApMeansScanMiss ==
    phase # "apply" /\ state = "AP_MODE_NO_AP" => isApScanMiss(escalated)

\* onDisconnected, of the re-bind an auth failure takes back: "a later genuine
\* connect re-arms it".  A connect to the same address does not.
ConnectRearmsRebind == phase = "update" /\ state = "CONNECTED" => ~rebindOwed

\* WiFiManager.h: link-level drops "MUST NOT trigger AP-mode escalation".
LinkDropNeverEscalates == [][isLinkLevelDrop(reason) => ~Escalates]_vars

\* The campaign is "bounded, not infinite": it connects or gives up.
CampaignEnds == pendingAuthFail ~> ~pendingAuthFail

=============================================================================
