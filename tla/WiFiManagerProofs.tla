-------------------------- MODULE WiFiManagerProofs --------------------------
(***************************************************************************)
(* Theorems about the WiFi state machine, for every value of its constants. *)
(***************************************************************************)
EXTENDS WiFiManager, TLAPS

\* The constants as the proofs use them, one fact each.
LEMMA ConstantTypes ==
    /\ RetryInterval \in Nat /\ RetryInterval > 0
    /\ FirstRetries \in Nat /\ ConnectTimeout \in Nat /\ InitialTimeout \in Nat
    /\ ApStaRetry \in Nat /\ LongOutage \in Nat
    /\ StrategyCount \in Nat /\ StrategyCount > 0
    /\ LoopCount \in Nat /\ LoopCount > 0
    /\ ConnectTimeout < InitialTimeout
BY TimingAssumption, CampaignAssumption

\* The number of strategies of a whole campaign is a natural number.
LEMMA CampaignLength == StrategyCount * LoopCount \in Nat
BY ConstantTypes, SMT

\* Ageing keeps an age within its saturation bound.
LEMMA OlderType ==
    ASSUME NEW b \in Nat, NEW a \in {Never} \union 0..(b + 1)
    PROVE  /\ Older(a, b) \in {Never} \union 0..(b + 1)
           /\ a # Never => Older(a, b) \in 0..(b + 1)
           /\ a # Never => Older(a, b) >= a
BY DEF Older, Min2, Never

\* The library calls keep the radio a radio.
LEMMA RadioType ==
    ASSUME NEW r \in Radio
    PROVE  /\ \A m \in Modes : SetMode(r, m) \in Radio
           /\ Begin(r) \in Radio
           /\ Disconnect(r) \in Radio
           /\ BeginStored(r) \in Radio
BY DEF Radio, SetMode, Begin, Disconnect, BeginStored, Modes, Statuses

\* applyAuthStrategy drives the radio only through the calls of RadioType.
LEMMA StrategyType ==
    ASSUME NEW r \in Radio, NEW i \in Nat
    PROVE  applyAuthStrategy(r, i) \in Radio
<1>1. BeginStored(r) \in Radio
  BY RadioType
<1>2. BeginStored(SetMode(Disconnect(r), "STA")) \in Radio
  BY RadioType DEF Modes
<1>3. BeginStored(SetMode(SetMode(r, "OFF"), "STA")) \in Radio
  BY RadioType DEF Modes
<1> QED
  BY <1>1, <1>2, <1>3 DEF applyAuthStrategy

\* A handler that returns without a connect leaves a well-formed transition.
LEMMA ReturnType ==
    ASSUME NEW s \in States, Return(s, FALSE, FALSE)
    PROVE  /\ phase' = "apply"
           /\ hooks' = {}
           /\ tr' \in Transition
           /\ tr'.next = s
BY DEF Return, Transition

\* So does the second step of a handler that gives up, which changes no more
\* than the transition (handleConnectFailed, handleInitialConnectTimeout).
LEMMA SecondStep ==
    ASSUME labelFallback \/ recordEscalation
    PROVE  /\ phase \in {"label", "record"} /\ phase' = "apply"
           /\ \E s \in {"AP_MODE_NO_AP", "AP_MODE_AUTH_FAIL"} :
                 tr' = [next |-> s, tcp |-> FALSE, ntp |-> FALSE]
           /\ escalated' \in {escalated, reason}
           /\ UNCHANGED <<state, reason, nvs, apRetryAge, hooks, radio, events,
                          uptime, entryAge>>
           /\ UNCHANGED <<connectAge, retryAge, reconnectPending, attempts>>
           /\ UNCHANGED <<pendingAuthFail, strategy, loop, tried>>
           /\ UNCHANGED <<needsRestart, lastIp, outage, rebindOwed>>
BY DEF labelFallback, recordEscalation, ReturnAp, FallbackState, budgetVars,
       campaignVars, serverVars, envVars, clockVars

-----------------------------------------------------------------------------
(* Type correctness *)

\* The state WiFiManager::init leaves behind is well typed.
LEMMA InitTypeOK == Init => TypeOK
<1> SUFFICES ASSUME Init PROVE TypeOK
  OBVIOUS
<1> USE ConstantTypes, CampaignLength DEF Init
<1>1. TimesOK
  BY DEF TimesOK, Never
<1>2. CountersOK
  BY DEF CountersOK
<1>3. FlagsOK
  BY DEF FlagsOK
<1>4. LabelsOK
  BY DEF LabelsOK, States, ApStates, Transition, NoTransition
<1>5. OutsideOK
  BY CredentialAssumption
     DEF OutsideOK, Radio, Modes, Statuses, NoIp
<1> QED
  BY <1>1, <1>2, <1>3, <1>4, <1>5 DEF TypeOK

\* Every handler, event and radio step keeps the types, one step per action.
LEMMA NextTypeOK == TypeOK /\ [Next]_vars => TypeOK'
<1> SUFFICES ASSUME TypeOK, [Next]_vars
             PROVE  TypeOK'
  OBVIOUS
<1> USE ConstantTypes, CampaignLength
<1> USE DEF TypeOK, budgetVars, campaignVars, apVars, serverVars, loopVars,
            envVars, clockVars
<1>1. CASE DisconnectedStateHandler
  <2>1. TimesOK'
    BY <1>1
       DEF DisconnectedStateHandler, Stay, Return, TimesOK, Never
  <2>2. CountersOK'
    BY <1>1
       DEF DisconnectedStateHandler, Stay, Return, CountersOK
  <2>3. FlagsOK'
    BY <1>1
       DEF DisconnectedStateHandler, Stay, Return, FlagsOK
  <2>4. LabelsOK'
    BY <1>1, ReturnType
       DEF DisconnectedStateHandler, Stay, LabelsOK, States, ApStates
  <2>5. OutsideOK'
    BY <1>1, RadioType
       DEF DisconnectedStateHandler, Stay, Return, OutsideOK, Modes
  <2> QED
    BY <2>1, <2>2, <2>3, <2>4, <2>5
<1>2. CASE handleConnected
  <2>1. TimesOK'
    BY <1>2
       DEF handleConnected, Connecting, ReAnchor, ResetCampaign,
           Return, TimesOK, connectDuration
  <2>2. CountersOK'
    BY <1>2
       DEF handleConnected, Connecting, ReAnchor, ResetCampaign,
           Return, CountersOK
  <2>3. FlagsOK'
    BY <1>2
       DEF handleConnected, Connecting, ReAnchor, ResetCampaign,
           Return, FlagsOK
  <2>4. LabelsOK'
    BY <1>2
       DEF handleConnected, Connecting, ReAnchor, ResetCampaign,
           Return, LabelsOK, Transition, States, ApStates,
           shouldRestartTcpServerForReconnect
  <2>5. OutsideOK'
    BY <1>2
       DEF handleConnected, Connecting, ReAnchor, ResetCampaign,
           Return, OutsideOK
  <2> QED
    BY <2>1, <2>2, <2>3, <2>4, <2>5
<1>3. CASE handleConnectFailed
  <2>1. TimesOK'
    BY <1>3
       DEF handleConnectFailed, Connecting, ReAnchor, CountAttempt,
           Stay, Return, GiveUp, TimesOK, connectDuration
  <2>2. CountersOK'
    BY <1>3
       DEF handleConnectFailed, Connecting, ReAnchor, CountAttempt,
           Stay, Return, GiveUp, CountersOK, Min2
  <2>3. FlagsOK'
    BY <1>3
       DEF handleConnectFailed, Connecting, ReAnchor, CountAttempt,
           Stay, Return, GiveUp, FlagsOK
  <2>4. LabelsOK'
    BY <1>3, ReturnType
       DEF handleConnectFailed, Connecting, ReAnchor, CountAttempt,
           Stay, GiveUp, LabelsOK, States, ApStates
  <2>5. OutsideOK'
    BY <1>3, RadioType
       DEF handleConnectFailed, Connecting, ReAnchor, CountAttempt,
           Stay, Return, GiveUp, OutsideOK, Modes
  <2> QED
    BY <2>1, <2>2, <2>3, <2>4, <2>5
<1>4. CASE handleIdleStatus
  <2>1. TimesOK'
    BY <1>4
       DEF handleIdleStatus, Connecting, ReAnchor, CountAttempt, Stay,
           Return, TimesOK, connectDuration
  <2>2. CountersOK'
    BY <1>4
       DEF handleIdleStatus, Connecting, ReAnchor, CountAttempt, Stay,
           Return, CountersOK, Min2
  <2>3. FlagsOK'
    BY <1>4
       DEF handleIdleStatus, Connecting, ReAnchor, CountAttempt, Stay,
           Return, FlagsOK
  <2>4. LabelsOK'
    BY <1>4
       DEF handleIdleStatus, Connecting, ReAnchor, CountAttempt, Stay,
           Return, LabelsOK, Transition, States, ApStates
  <2>5. OutsideOK'
    BY <1>4, RadioType
       DEF handleIdleStatus, Connecting, ReAnchor, CountAttempt, Stay,
           Return, OutsideOK, Modes
  <2> QED
    BY <2>1, <2>2, <2>3, <2>4, <2>5
<1>5. CASE handleInitialConnectTimeout
  <2>1. TimesOK'
    BY <1>5
       DEF handleInitialConnectTimeout, Connecting, ReAnchor, Return, GiveUp,
           TimesOK, connectDuration
  <2>2. CountersOK'
    BY <1>5
       DEF handleInitialConnectTimeout, Connecting, ReAnchor, Return, GiveUp,
           CountersOK
  <2>3. FlagsOK'
    BY <1>5
       DEF handleInitialConnectTimeout, Connecting, ReAnchor, Return, GiveUp,
           FlagsOK
  <2>4. LabelsOK'
    BY <1>5, ReturnType
       DEF handleInitialConnectTimeout, Connecting, ReAnchor,
           GiveUp, LabelsOK, States, ApStates
  <2>5. OutsideOK'
    BY <1>5, RadioType
       DEF handleInitialConnectTimeout, Connecting, ReAnchor, Return, GiveUp,
           OutsideOK, Modes
  <2> QED
    BY <2>1, <2>2, <2>3, <2>4, <2>5
<1>6. CASE ConnectingWait
  <2>1. TimesOK'
    BY <1>6
       DEF ConnectingWait, Connecting, ReAnchor, Stay, Return,
           TimesOK, connectDuration
  <2>2. CountersOK'
    BY <1>6
       DEF ConnectingWait, Connecting, ReAnchor, Stay, Return,
           CountersOK
  <2>3. FlagsOK'
    BY <1>6
       DEF ConnectingWait, Connecting, ReAnchor, Stay, Return, FlagsOK
  <2>4. LabelsOK'
    BY <1>6
       DEF ConnectingWait, Connecting, ReAnchor, Stay, Return,
           LabelsOK, Transition, States, ApStates
  <2>5. OutsideOK'
    BY <1>6
       DEF ConnectingWait, Connecting, ReAnchor, Stay, Return,
           OutsideOK
  <2> QED
    BY <2>1, <2>2, <2>3, <2>4, <2>5
<1>7. CASE ConnectedStaStateHandler
  <2>1. TimesOK'
    BY <1>7
       DEF ConnectedStaStateHandler, Stay, Return, TimesOK, Never
  <2>2. CountersOK'
    BY <1>7
       DEF ConnectedStaStateHandler, Stay, Return, CountersOK
  <2>3. FlagsOK'
    BY <1>7
       DEF ConnectedStaStateHandler, Stay, Return, FlagsOK
  <2>4. LabelsOK'
    BY <1>7, ReturnType
       DEF ConnectedStaStateHandler, Stay, LabelsOK, States, ApStates
  <2>5. OutsideOK'
    BY <1>7
       DEF ConnectedStaStateHandler, Stay, Return, OutsideOK
  <2> QED
    BY <2>1, <2>2, <2>3, <2>4, <2>5
<1>8. CASE ConnectedApStateHandler
  <2>1. TimesOK'
    BY <1>8
       DEF ConnectedApStateHandler, attemptApModeStaRecovery, Stay,
           Return, TimesOK, Never
  <2>2. CountersOK'
    BY <1>8
       DEF ConnectedApStateHandler, attemptApModeStaRecovery, Stay,
           Return, CountersOK
  <2>3. FlagsOK'
    BY <1>8
       DEF ConnectedApStateHandler, attemptApModeStaRecovery, Stay,
           Return, FlagsOK
  <2>4. LabelsOK'
    BY <1>8, ReturnType
       DEF ConnectedApStateHandler, attemptApModeStaRecovery, Stay,
           LabelsOK, States, ApStates
  <2>5. OutsideOK'
    BY <1>8, RadioType
       DEF ConnectedApStateHandler, attemptApModeStaRecovery, Stay,
           Return, OutsideOK, Modes
  <2> QED
    BY <2>1, <2>2, <2>3, <2>4, <2>5
<1>9. CASE checkCampaignSuccess
  <2>1. TimesOK'
    BY <1>9
       DEF checkCampaignSuccess, ResetCampaign, Return, TimesOK
  <2>2. CountersOK'
    BY <1>9
       DEF checkCampaignSuccess, ResetCampaign, Return, CountersOK
  <2>3. FlagsOK'
    BY <1>9
       DEF checkCampaignSuccess, ResetCampaign, Return, FlagsOK
  <2>4. LabelsOK'
    BY <1>9
       DEF checkCampaignSuccess, ResetCampaign, Return, LabelsOK,
           Transition, States, ApStates,
           shouldRestartTcpServerForReconnect
  <2>5. OutsideOK'
    BY <1>9
       DEF checkCampaignSuccess, ResetCampaign, Return, OutsideOK
  <2> QED
    BY <2>1, <2>2, <2>3, <2>4, <2>5
<1>10. CASE CampaignWait
  <2>1. TimesOK'
    BY <1>10
       DEF CampaignWait, Stay, Return, TimesOK
  <2>2. CountersOK'
    BY <1>10
       DEF CampaignWait, Stay, Return, CountersOK
  <2>3. FlagsOK'
    BY <1>10
       DEF CampaignWait, Stay, Return, FlagsOK
  <2>4. LabelsOK'
    BY <1>10
       DEF CampaignWait, Stay, Return, LabelsOK, Transition, States,
           ApStates
  <2>5. OutsideOK'
    BY <1>10
       DEF CampaignWait, Stay, Return, OutsideOK
  <2> QED
    BY <2>1, <2>2, <2>3, <2>4, <2>5
<1>11. CASE CampaignStrategy
  <2>1. TimesOK'
    BY <1>11
       DEF CampaignStrategy, CountAttempt, Stay, Return, TimesOK
  <2>2. CountersOK'
    BY <1>11
       DEF CampaignStrategy, CountAttempt, Stay, Return, CountersOK,
           Min2, NextStrategy, NextLoop
  <2>3. FlagsOK'
    BY <1>11
       DEF CampaignStrategy, CountAttempt, Stay, Return, FlagsOK
  <2>4. LabelsOK'
    BY <1>11, ReturnType
       DEF CampaignStrategy, CountAttempt, Stay, LabelsOK, States,
           ApStates
  <2>5. OutsideOK'
    <3>1. applyAuthStrategy(radio, strategy) \in Radio
      BY StrategyType DEF CountersOK, OutsideOK
    <3>2. SetMode(applyAuthStrategy(radio, strategy), "AP") \in Radio
      BY <3>1, RadioType DEF Modes
    <3> QED
      BY <1>11, <3>1, <3>2 DEF CampaignStrategy, OutsideOK
  <2> QED
    BY <2>1, <2>2, <2>3, <2>4, <2>5
<1>12. CASE applyStateTransition
  <2>1. TimesOK'
    BY <1>12
       DEF applyStateTransition, TimesOK, Never
  <2>2. CountersOK'
    BY <1>12
       DEF applyStateTransition, CountersOK
  <2>3. FlagsOK'
    BY <1>12
       DEF applyStateTransition, FlagsOK, LabelsOK, Transition
  <2>4. LabelsOK'
    BY <1>12
       DEF applyStateTransition, LabelsOK, Transition, States,
           ApStates, OutsideOK, Radio, NoTransition
  <2>5. OutsideOK'
    BY <1>12
       DEF applyStateTransition, OutsideOK
  <2> QED
    BY <2>1, <2>2, <2>3, <2>4, <2>5
<1>13. CASE restartTcpServerIfNeeded
  <2>1. TimesOK'
    BY <1>13
       DEF restartTcpServerIfNeeded, TimesOK
  <2>2. CountersOK'
    BY <1>13
       DEF restartTcpServerIfNeeded, CountersOK
  <2>3. FlagsOK'
    BY <1>13
       DEF restartTcpServerIfNeeded, FlagsOK
  <2>4. LabelsOK'
    BY <1>13
       DEF restartTcpServerIfNeeded, LabelsOK
  <2>5. OutsideOK'
    BY <1>13
       DEF restartTcpServerIfNeeded, OutsideOK
  <2> QED
    BY <2>1, <2>2, <2>3, <2>4, <2>5
<1>14. CASE onDisconnectedAuth
  <2>1. TimesOK'
    BY <1>14
       DEF onDisconnectedAuth, DropToConnecting, TimesOK
  <2>2. CountersOK'
    BY <1>14
       DEF onDisconnectedAuth, DropToConnecting, CountersOK
  <2>3. FlagsOK'
    BY <1>14
       DEF onDisconnectedAuth, DropToConnecting, FlagsOK
  <2>4. LabelsOK'
    BY <1>14
       DEF onDisconnectedAuth, DropToConnecting, LabelsOK, States,
           OutsideOK
  <2>5. OutsideOK'
    BY <1>14
       DEF onDisconnectedAuth, DropToConnecting, OutsideOK
  <2> QED
    BY <2>1, <2>2, <2>3, <2>4, <2>5
<1>15. CASE onDisconnectedLink
  <2>1. TimesOK'
    BY <1>15
       DEF onDisconnectedLink, DropToConnecting, TimesOK
  <2>2. CountersOK'
    BY <1>15
       DEF onDisconnectedLink, DropToConnecting, CountersOK
  <2>3. FlagsOK'
    BY <1>15
       DEF onDisconnectedLink, DropToConnecting, FlagsOK
  <2>4. LabelsOK'
    BY <1>15
       DEF onDisconnectedLink, DropToConnecting, LabelsOK, States,
           OutsideOK
  <2>5. OutsideOK'
    BY <1>15
       DEF onDisconnectedLink, DropToConnecting, OutsideOK
  <2> QED
    BY <2>1, <2>2, <2>3, <2>4, <2>5
<1>16. CASE Tick
  <2>1. TimesOK'
    <3>1. connectAge' \in 0..(InitialTimeout + 1)
      BY <1>16, OlderType DEF Tick, TimesOK, Never
    <3>2. entryAge' \in 0..(ConnectTimeout + 1)
      BY <1>16, OlderType DEF Tick, TimesOK, Never
    <3>3. outage' \in {Never} \union 0..(LongOutage + 1)
      BY <1>16, OlderType DEF Tick, TimesOK
    <3>4. apRetryAge' \in {Never} \union 0..(ApStaRetry + 1)
      BY <1>16, OlderType DEF Tick, TimesOK
    <3>5. uptime' \in 0..RetryInterval /\ retryAge' \in 0..RetryInterval
      BY <1>16 DEF Tick, TimesOK, Min2
    <3> QED
      BY <3>1, <3>2, <3>3, <3>4, <3>5 DEF TimesOK
  <2>2. CountersOK'
    BY <1>16
       DEF Tick, CountersOK
  <2>3. FlagsOK'
    BY <1>16
       DEF Tick, FlagsOK
  <2>4. LabelsOK'
    BY <1>16
       DEF Tick, LabelsOK
  <2>5. OutsideOK'
    BY <1>16
       DEF Tick, OutsideOK
  <2> QED
    BY <2>1, <2>2, <2>3, <2>4, <2>5
<1>17. CASE RadioStep
  <2>1. TimesOK'
    BY <1>17
       DEF RadioStep, RadioConnect, RadioLease, RadioStatus,
           RadioFail, TimesOK
  <2>2. CountersOK'
    BY <1>17
       DEF RadioStep, RadioConnect, RadioLease, RadioStatus,
           RadioFail, CountersOK
  <2>3. FlagsOK'
    BY <1>17
       DEF RadioStep, RadioConnect, RadioLease, RadioStatus,
           RadioFail, FlagsOK
  <2>4. LabelsOK'
    BY <1>17
       DEF RadioStep, RadioConnect, RadioLease, RadioStatus,
           RadioFail, LabelsOK
  <2>5. OutsideOK'
    <3>1. /\ \A i \in IPs : [radio EXCEPT !.status = "CONNECTED", !.ip = i]
                               \in Radio
          /\ \A i \in IPs : [radio EXCEPT !.ip = i] \in Radio
          /\ \A s \in RadioStatuses : [radio EXCEPT !.status = s] \in Radio
      BY RadioAssumption DEF OutsideOK, Radio, Statuses
    <3>2. \A s \in RadioStatuses :
             [radio EXCEPT !.status = s, !.ip = NoIp, !.engaged = AutoReconnect]
                \in Radio
      BY RadioAssumption DEF OutsideOK, Radio, Statuses
    <3>3. \A r \in Reasons : Append(events, r) \in Seq(Reasons)
      BY DEF OutsideOK
    <3> QED
      BY <1>17, <3>1, <3>2, <3>3
         DEF RadioStep, RadioConnect, RadioLease, RadioStatus, RadioFail,
             OutsideOK
  <2> QED
    BY <2>1, <2>2, <2>3, <2>4, <2>5
<1>18. CASE UNCHANGED vars
  <2>1. TimesOK'
    BY <1>18
       DEF vars, TimesOK
  <2>2. CountersOK'
    BY <1>18
       DEF vars, CountersOK
  <2>3. FlagsOK'
    BY <1>18
       DEF vars, FlagsOK
  <2>4. LabelsOK'
    BY <1>18
       DEF vars, LabelsOK
  <2>5. OutsideOK'
    BY <1>18
       DEF vars, OutsideOK
  <2> QED
    BY <2>1, <2>2, <2>3, <2>4, <2>5
<1>19. CASE labelFallback \/ recordEscalation
  <2>1. TimesOK'
    BY <1>19, SecondStep DEF TimesOK
  <2>2. CountersOK'
    BY <1>19, SecondStep DEF CountersOK
  <2>3. FlagsOK'
    BY <1>19, SecondStep DEF FlagsOK
  <2>4. LabelsOK'
    <3>1. tr' \in Transition
      <4>1. PICK s \in {"AP_MODE_NO_AP", "AP_MODE_AUTH_FAIL"} :
                    tr' = [next |-> s, tcp |-> FALSE, ntp |-> FALSE]
        BY <1>19, SecondStep
      <4>2. s \in States
        BY DEF States, ApStates
      <4> QED
        BY <4>1, <4>2 DEF Transition
    <3>2. /\ phase' = "apply"
          /\ escalated' \in {escalated, reason}
          /\ UNCHANGED <<state, reason, lastIp, hooks>>
      BY <1>19, SecondStep
    <3> QED
      BY <3>1, <3>2 DEF LabelsOK
  <2>5. OutsideOK'
    <3>1. radio' = radio /\ events' = events /\ nvs' = nvs
      BY <1>19, SecondStep
    <3> QED
      BY <3>1 DEF OutsideOK
  <2> QED
    BY <2>1, <2>2, <2>3, <2>4, <2>5
<1> QED
  BY <1>1, <1>2, <1>3, <1>4, <1>5, <1>6, <1>7, <1>8, <1>9,
     <1>10, <1>11, <1>12, <1>13, <1>14, <1>15, <1>16, <1>17, <1>18, <1>19
     DEF Next, LoopStep, update, onDisconnected

\* Every variable of the manager, the loop task and the radio keeps its type,
\* for all constants (WiFiState::Context and the radio's view of it).
THEOREM TypeCorrect == Spec => []TypeOK
BY InitTypeOK, NextTypeOK, PTL DEF Spec

-----------------------------------------------------------------------------
(* Credentials: what every state but the unconfigured ones rests on *)

\* Whatever tries to connect, or may still report about an attempt, has
\* credentials; the AP of an unconfigured device is decided without any.
CredentialInv ==
    /\ \/ state \notin {"DISCONNECTED", "AP_MODE_DEFAULT"}
       \/ phase = "apply" /\ tr.next \notin {"DISCONNECTED", "AP_MODE_DEFAULT"}
       \/ phase \in {"label", "record"}
       \/ pendingAuthFail
       \/ radio.engaged
       \/ events # <<>>
       => HaveCredentials
    /\ \/ state = "AP_MODE_DEFAULT"
       \/ phase = "apply" /\ tr.next = "AP_MODE_DEFAULT"
       => ~nvs.count /\ ~BakedIn /\ radio.mode = "AP"

\* CredentialInv is inductive: only loadCredentialsImpl and the AP fallbacks can
\* change what it relates.
LEMMA CredentialStep == OutsideOK /\ CredentialInv /\ [Next]_vars => CredentialInv'
<1> SUFFICES ASSUME OutsideOK, CredentialInv, [Next]_vars
             PROVE  CredentialInv'
  OBVIOUS
<1> USE DEF CredentialInv, HaveCredentials, determineCredentialSource,
            loadCredentialsImpl, budgetVars, campaignVars, apVars, serverVars,
            loopVars, envVars, clockVars
<1>1. CASE DisconnectedStateHandler
  BY <1>1, CredentialAssumption
     DEF DisconnectedStateHandler, Stay, Return, SetMode
<1>2. CASE handleConnected \/ checkCampaignSuccess
  BY <1>2 DEF handleConnected, checkCampaignSuccess, ResetCampaign, Return, Connecting
<1>3. CASE handleConnectFailed
  BY <1>3 DEF handleConnectFailed, Connecting, GiveUp, Stay, Return
<1>4. CASE handleIdleStatus \/ handleInitialConnectTimeout \/ ConnectingWait
  BY <1>4
     DEF handleIdleStatus, handleInitialConnectTimeout, ConnectingWait,
         Connecting, GiveUp, Stay, Return
<1>12. CASE labelFallback \/ recordEscalation
  BY <1>12, SecondStep
<1>5. CASE ConnectedStaStateHandler
  BY <1>5 DEF ConnectedStaStateHandler, Stay, Return
<1>6. CASE ConnectedApStateHandler
  BY <1>6
     DEF ConnectedApStateHandler, attemptApModeStaRecovery, Stay, Return, StableAp, ApStates
<1>7. CASE CampaignWait \/ CampaignStrategy
  BY <1>7 DEF CampaignWait, CampaignStrategy, Stay, Return
<1>8. CASE applyStateTransition \/ restartTcpServerIfNeeded
  BY <1>8 DEF applyStateTransition, restartTcpServerIfNeeded
<1>9. CASE onDisconnected
  BY <1>9
     DEF onDisconnected, onDisconnectedAuth, onDisconnectedLink, DropToConnecting
<1>10. CASE Tick \/ UNCHANGED vars
  BY <1>10 DEF Tick, vars
<1>11. CASE RadioStep
  <2>1. radio'.mode = radio.mode /\ UNCHANGED <<nvs, state, pendingAuthFail, phase, tr>>
    BY <1>11
       DEF RadioStep, RadioConnect, RadioLease, RadioStatus, RadioFail,
           OutsideOK, Radio
  <2>2. radio'.engaged \/ events' # <<>> => radio.engaged \/ events # <<>>
    BY <1>11
       DEF RadioStep, RadioConnect, RadioLease, RadioStatus, RadioFail, StaUp,
           OutsideOK, Radio
  <2> QED
    BY <2>1, <2>2
<1> QED
  BY <1>1, <1>2, <1>3, <1>4, <1>5, <1>6, <1>7, <1>8, <1>9, <1>10, <1>11, <1>12
     DEF Next, LoopStep, update

\* The AP of an unconfigured device means just that, and every other state past
\* DISCONNECTED has credentials, also between an event and the next update().
THEOREM ApDefault == Spec => []ApDefaultMeansUnconfigured
<1>1. Init => CredentialInv
  BY DEF Init, CredentialInv
<1>2. TypeOK => OutsideOK
  BY DEF TypeOK
<1>3. CredentialInv => ApDefaultMeansUnconfigured
  BY DEF CredentialInv, ApDefaultMeansUnconfigured, HaveCredentials,
         determineCredentialSource, loadCredentialsImpl
<1> QED
  BY <1>1, <1>2, <1>3, TypeCorrect, CredentialStep, PTL DEF Spec

-----------------------------------------------------------------------------
(* The auth campaign *)

\* Every strategy the rotation has moved past has been applied.
RotationInv ==
    tried >= Min2(StrategyCount * LoopCount, loop * StrategyCount + strategy)

\* One pass more is StrategyCount strategies more.
LEMMA PassLength ==
    ASSUME NEW n \in Nat, NEW m \in Nat
    PROVE  (n + 1) * m = n * m + m /\ n * m \in Nat
OBVIOUS

\* LoopCount passes are a whole campaign.
LEMMA WholeCampaign == LoopCount * StrategyCount = StrategyCount * LoopCount
BY ConstantTypes, SMT

\* Applying a strategy and advancing the rotation keeps RotationInv, and a
\* rotation that has completed its last pass has applied all of them.
LEMMA StrategyStep ==
    ASSUME CountersOK, RotationInv, CampaignStrategy
    PROVE  /\ RotationInv'
           /\ isAuthCampaignExhausted(loop') => tried' >= StrategyCount * LoopCount
<1> DEFINE All == StrategyCount * LoopCount
<1>1. /\ strategy' = NextStrategy /\ loop' = NextLoop
      /\ tried' = Min2(tried + 1, All)
  BY DEF CampaignStrategy
<1>2. /\ loop \in Nat /\ loop <= LoopCount /\ tried \in Nat /\ All \in Nat
      /\ strategy \in Nat /\ strategy + 1 <= StrategyCount
      /\ StrategyCount \in Nat /\ LoopCount \in Nat
  BY ConstantTypes, CampaignLength DEF CountersOK
<1>3. (loop + 1) * StrategyCount = loop * StrategyCount + StrategyCount
  BY <1>2, PassLength
<1>4. loop * StrategyCount \in Nat
  BY <1>2, PassLength
<1>5. CASE strategy + 1 < StrategyCount
  <2>1. strategy' = strategy + 1 /\ loop' = loop
    BY <1>1, <1>2, <1>5 DEF NextStrategy, NextLoop
  <2>2. loop' * StrategyCount + strategy' = loop * StrategyCount + strategy + 1
    BY <2>1, <1>2, <1>4
  <2>3. RotationInv'
    <3> HIDE DEF All
    <3>1. tried' >= Min2(All, loop * StrategyCount + strategy + 1)
      BY <1>1, <1>2, <1>4 DEF RotationInv, Min2, All
    <3> QED
      BY <3>1, <2>2 DEF RotationInv, All
  <2>4. isAuthCampaignExhausted(loop') => tried' >= All
    <3>1. CASE loop = LoopCount
      <4>1. loop * StrategyCount = All
        BY <3>1, WholeCampaign
      <4> QED
        BY <4>1, <1>1, <1>2 DEF RotationInv, Min2
    <3> QED
      BY <3>1, <2>1, <1>2 DEF isAuthCampaignExhausted
  <2> QED
    BY <2>3, <2>4
<1>6. CASE strategy + 1 = StrategyCount
  <2>1. strategy' = 0 /\ loop' = Min2(loop + 1, LoopCount)
    BY <1>1, <1>2, <1>6 DEF NextStrategy, NextLoop
  <2>2. tried' >= Min2(All, (loop + 1) * StrategyCount)
    BY <1>1, <1>2, <1>3, <1>4, <1>6 DEF RotationInv, Min2
  <2>3. CASE loop + 1 < LoopCount
    <3>1. loop' = loop + 1
      BY <2>1, <2>3, <1>2 DEF Min2
    <3>2. loop' * StrategyCount + strategy' = (loop + 1) * StrategyCount
      BY <3>1, <2>1, <1>2, <1>3, <1>4
    <3> QED
      BY <3>1, <3>2, <2>2, <2>3, <1>2
         DEF RotationInv, isAuthCampaignExhausted
  <2>4. CASE loop + 1 >= LoopCount
    <3>1. loop' = LoopCount
      BY <2>1, <2>4, <1>2 DEF Min2
    <3>2. tried' >= All
      <4>1. CASE loop + 1 = LoopCount
        <5>1. (loop + 1) * StrategyCount = All
          BY <4>1, WholeCampaign
        <5> QED
          BY <5>1, <2>2, <1>2 DEF Min2
      <4>2. CASE loop = LoopCount
        <5>1. loop * StrategyCount = All
          BY <4>2, WholeCampaign
        <5> QED
          BY <5>1, <1>1, <1>2 DEF RotationInv, Min2
      <4> QED
        BY <4>1, <4>2, <2>4, <1>2
    <3>3. loop' * StrategyCount + strategy' = All
      BY <3>1, <2>1, <1>2, WholeCampaign
    <3> QED
      BY <3>2, <3>3, <1>2 DEF RotationInv, Min2
  <2> QED
    BY <2>3, <2>4, <1>2
<1> QED
  BY <1>5, <1>6, <1>2

\* RotationInv is inductive: rotation and loop counters say how many strategies
\* have been applied since the last genuine connect.
LEMMA RotationStep == TypeOK /\ RotationInv /\ [Next]_vars => RotationInv'
<1> SUFFICES ASSUME TypeOK, RotationInv, [Next]_vars
             PROVE  RotationInv'
  OBVIOUS
<1> USE DEF budgetVars, campaignVars, apVars, serverVars, loopVars, envVars,
            clockVars
<1>1. CASE CampaignStrategy
  BY <1>1, StrategyStep DEF TypeOK
<1>2. CASE ResetCampaign
  <2>1. loop' * StrategyCount + strategy' = 0
    BY <1>2, ConstantTypes DEF ResetCampaign
  <2> QED
    BY <1>2, <2>1, CampaignLength DEF ResetCampaign, RotationInv, Min2
<1>3. CASE loop' = loop /\ tried' = tried /\ strategy' \in {strategy, 0}
  <2>1. /\ loop * StrategyCount \in Nat /\ StrategyCount * LoopCount \in Nat
        /\ strategy \in Nat /\ tried \in Nat
    BY ConstantTypes, CampaignLength, PassLength DEF TypeOK, CountersOK
  <2>2. loop' * StrategyCount = loop * StrategyCount
    BY <1>3
  <2> QED
    BY <1>3, <2>1, <2>2 DEF RotationInv, Min2
<1>4. CASE UNCHANGED campaignVars
  BY <1>3, <1>4
<1>5. CASE handleConnected \/ checkCampaignSuccess
  BY <1>2, <1>5 DEF handleConnected, checkCampaignSuccess
<1>6. CASE \/ DisconnectedStateHandler \/ handleConnectFailed
           \/ handleIdleStatus \/ handleInitialConnectTimeout
           \/ ConnectingWait \/ ConnectedStaStateHandler
           \/ ConnectedApStateHandler \/ CampaignWait
  BY <1>4, <1>6
     DEF DisconnectedStateHandler, handleConnectFailed, handleIdleStatus,
         handleInitialConnectTimeout, ConnectingWait, ConnectedStaStateHandler,
         ConnectedApStateHandler, CampaignWait
<1>9. CASE labelFallback \/ recordEscalation
  BY <1>4, <1>9, SecondStep
<1>7. CASE \/ applyStateTransition \/ restartTcpServerIfNeeded
           \/ onDisconnectedLink \/ Tick \/ RadioStep \/ UNCHANGED vars
  BY <1>4, <1>7
     DEF applyStateTransition, restartTcpServerIfNeeded, onDisconnectedLink,
         Tick, RadioStep, vars
<1>8. CASE onDisconnectedAuth
  BY <1>3, <1>8 DEF onDisconnectedAuth
<1> QED
  BY <1>1, <1>5, <1>6, <1>7, <1>8, <1>9 DEF Next, LoopStep, update, onDisconnected

\* The auth campaign gives up only once every strategy has been applied
\* LoopCount times since the last genuine connect (AuthCampaign::checkExhaustion).
THEOREM GivesUpExhausted == Spec => GivesUpOnlyExhausted
<1> DEFINE GivesUp == pendingAuthFail /\ Returns("AP_MODE_AUTH_FAIL")
                        /\ ~pendingAuthFail'
<1>1. Init => RotationInv
  BY ConstantTypes, CampaignLength DEF Init, RotationInv, Min2
<1>2. TypeOK /\ RotationInv /\ [Next]_vars
        => [GivesUp => tried' >= StrategyCount * LoopCount]_vars
  <2> SUFFICES ASSUME TypeOK, RotationInv, [Next]_vars, GivesUp
               PROVE  tried' >= StrategyCount * LoopCount
    OBVIOUS
  <2>1. CampaignStrategy \/ checkCampaignSuccess
    <3>1. pendingAuthFail /\ ~pendingAuthFail' /\ phase = "update"
          /\ phase' = "apply"
      BY DEF Returns
    <3>2. ~(DisconnectedStateHandler \/ handleConnected \/ handleConnectFailed
            \/ handleIdleStatus \/ handleInitialConnectTimeout
            \/ ConnectingWait \/ ConnectedStaStateHandler
            \/ ConnectedApStateHandler)
      BY <3>1
         DEF DisconnectedStateHandler, handleConnected, Connecting,
             handleConnectFailed, handleIdleStatus, ConnectingWait,
             handleInitialConnectTimeout, ConnectedStaStateHandler,
             ConnectedApStateHandler
    <3>3. ~CampaignWait /\ ~(labelFallback \/ recordEscalation)
      BY <3>1, SecondStep DEF CampaignWait, campaignVars
    <3>4. ~applyStateTransition
      BY <3>1 DEF applyStateTransition
    <3>5. ~restartTcpServerIfNeeded
      BY <3>1 DEF restartTcpServerIfNeeded
    <3>6. ~onDisconnectedAuth
      BY <3>1 DEF onDisconnectedAuth
    <3>7. ~onDisconnectedLink
      BY <3>1 DEF onDisconnectedLink, campaignVars
    <3>8. ~Tick /\ ~RadioStep
      BY <3>1 DEF Tick, RadioStep, loopVars
    <3>9. ~UNCHANGED vars
      BY <3>1 DEF vars, loopVars
    <3> QED
      BY <3>2, <3>3, <3>4, <3>5, <3>6, <3>7, <3>8, <3>9
         DEF Next, LoopStep, update, onDisconnected
  <2>2. CampaignStrategy /\ isAuthCampaignExhausted(loop')
    <3>1. ~checkCampaignSuccess
      BY DEF checkCampaignSuccess, Return, Returns
    <3>2. CampaignStrategy => isAuthCampaignExhausted(NextLoop)
      BY DEF CampaignStrategy
    <3>3. CampaignStrategy => loop' = NextLoop
      BY DEF CampaignStrategy
    <3> QED
      BY <2>1, <3>1, <3>2, <3>3
  <2> QED
    BY <2>2, StrategyStep DEF TypeOK
<1> QED
  BY <1>1, <1>2, TypeCorrect, RotationStep, PTL
     DEF Spec, GivesUpOnlyExhausted

-----------------------------------------------------------------------------
(* The connect budget *)

\* Two handlers of CONNECTING give up on STA without a campaign, and no other step.
LEMMA FallbackSteps ==
    ASSUME [Next]_vars, Escalates
    PROVE  handleConnectFailed \/ handleInitialConnectTimeout
<1>1. phase = "update" /\ phase' \in {"label", "record"}
  BY DEF Escalates
<1>2. ~(\/ DisconnectedStateHandler \/ ConnectedStaStateHandler
        \/ ConnectedApStateHandler)
  BY <1>1 DEF DisconnectedStateHandler, ConnectedStaStateHandler, Return, Stay,
              ConnectedApStateHandler, attemptApModeStaRecovery
<1>3. ~(handleConnected \/ handleIdleStatus \/ ConnectingWait)
  BY <1>1 DEF handleConnected, handleIdleStatus, ConnectingWait, Return, Stay
<1>4. ~(checkCampaignSuccess \/ CampaignWait \/ CampaignStrategy)
  BY <1>1 DEF checkCampaignSuccess, CampaignWait, CampaignStrategy, Return, Stay
<1>5. ~(applyStateTransition \/ restartTcpServerIfNeeded)
  BY <1>1 DEF applyStateTransition, restartTcpServerIfNeeded
<1>6. ~(onDisconnectedAuth \/ onDisconnectedLink \/ Tick \/ RadioStep)
  BY <1>1 DEF onDisconnectedAuth, onDisconnectedLink, Tick, RadioStep, loopVars
<1>7. ~UNCHANGED vars
  BY <1>1 DEF vars, loopVars
<1>8. ~(labelFallback \/ recordEscalation)
  BY <1>1 DEF labelFallback, recordEscalation
<1> QED
  BY <1>2, <1>3, <1>4, <1>5, <1>6, <1>7, <1>8
     DEF Next, LoopStep, update, onDisconnected

\* A budget that is not re-anchored on the next CONNECTING tick started no
\* earlier than CONNECTING itself.
BudgetInv ==
    /\ state = "CONNECTING" /\ (phase = "apply" => tr.next = "CONNECTING")
         => \/ reconnectPending
            \/ connectAge <= entryAge
            \/ entryAge > ConnectTimeout
    /\ state # "CONNECTING" /\ phase = "apply" /\ tr.next = "CONNECTING"
         => reconnectPending \/ connectAge = 0

\* The first conjunct, for the two ages.
Covered == connectAge <= entryAge \/ entryAge > ConnectTimeout

\* Re-anchoring covers the budget again: a marked drop restarts it, and without
\* the marker it was covered already.
LEMMA ReAnchorCovers ==
    ASSUME TimesOK, FlagsOK, Connecting, phase = "update", BudgetInv,
           ReAnchor, entryAge' = entryAge
    PROVE  Covered'
BY ConstantTypes
   DEF TimesOK, BudgetInv, Covered, Connecting, ReAnchor, connectDuration

\* BudgetInv is inductive: in CONNECTING the budget has been covered since the
\* state was entered, or the reconnectPending marker is up.
LEMMA BudgetStep == TypeOK /\ BudgetInv /\ [Next]_vars => BudgetInv'
<1> SUFFICES ASSUME TypeOK, BudgetInv, [Next]_vars
             PROVE  BudgetInv'
  OBVIOUS
<1> USE ConstantTypes
<1> USE DEF budgetVars, campaignVars, apVars, serverVars, loopVars, envVars,
            clockVars
<1>1. TimesOK /\ FlagsOK
  BY DEF TypeOK
<1>2. CASE DisconnectedStateHandler
  <2>1. connectAge' = 0 \/ (state' # "CONNECTING" /\ tr'.next # "CONNECTING")
    BY <1>2 DEF DisconnectedStateHandler, Return, Stay
  <2> QED
    BY <1>1, <1>2, <2>1 DEF DisconnectedStateHandler, BudgetInv, TimesOK
<1>3. CASE \/ handleConnected \/ handleConnectFailed \/ handleIdleStatus
           \/ handleInitialConnectTimeout \/ ConnectingWait
  <2>1. phase = "update" /\ Connecting
    BY <1>3
       DEF handleConnected, handleConnectFailed, handleIdleStatus, Return, Stay,
           GiveUp, handleInitialConnectTimeout, ConnectingWait
  <2>2. ReAnchor /\ entryAge' = entryAge /\ state' = state
    BY <1>3
       DEF handleConnected, handleConnectFailed, handleIdleStatus,
           handleInitialConnectTimeout, ConnectingWait
  <2> QED
    BY <1>1, <2>1, <2>2, ReAnchorCovers DEF BudgetInv, Covered, Connecting
<1>4. CASE ConnectedStaStateHandler
  BY <1>4 DEF ConnectedStaStateHandler, Return, Stay, BudgetInv
<1>5. CASE ConnectedApStateHandler
  <2>1. connectAge' = 0 \/ tr'.next # "CONNECTING"
    BY <1>5
       DEF ConnectedApStateHandler, attemptApModeStaRecovery, Return, Stay,
           StableAp, ApStates
  <2>2. state' # "CONNECTING"
    BY <1>5 DEF ConnectedApStateHandler, StableAp, ApStates
  <2> QED
    BY <2>1, <2>2 DEF BudgetInv
<1>6. CASE checkCampaignSuccess
  BY <1>6 DEF checkCampaignSuccess, Return, BudgetInv
<1>7. CASE CampaignWait \/ CampaignStrategy
  <2>1. /\ phase = "update"
        /\ phase' = "apply"
        /\ state' = state
        /\ tr'.next \in {state, "AP_MODE_AUTH_FAIL"}
    BY <1>7 DEF CampaignWait, CampaignStrategy, Return, Stay
  <2>2. UNCHANGED <<connectAge, reconnectPending, entryAge>>
    BY <1>7 DEF CampaignWait, CampaignStrategy
  <2> QED
    BY <2>1, <2>2 DEF BudgetInv
<1>8. CASE applyStateTransition
  <2>1. phase = "apply" /\ phase' = "server" /\ state' = tr.next
        /\ UNCHANGED <<connectAge, reconnectPending>>
    BY <1>8 DEF applyStateTransition
  <2>2. CASE tr.next = state
    BY <1>8, <2>1, <2>2 DEF applyStateTransition, BudgetInv
  <2>3. CASE tr.next # state
    BY <1>1, <1>8, <2>1, <2>3 DEF applyStateTransition, BudgetInv, TimesOK
  <2> QED
    BY <2>2, <2>3
<1>9. CASE restartTcpServerIfNeeded
  BY <1>9 DEF restartTcpServerIfNeeded, BudgetInv
<1>10. CASE onDisconnectedAuth \/ onDisconnectedLink
  <2>1. UNCHANGED <<phase, tr, connectAge>>
    BY <1>10 DEF onDisconnectedAuth, onDisconnectedLink
  <2>2. \/ UNCHANGED <<state, reconnectPending, entryAge>>
        \/ state' = "CONNECTING" /\ reconnectPending'
    BY <1>10 DEF onDisconnectedAuth, onDisconnectedLink, DropToConnecting
  <2> QED
    BY <2>1, <2>2 DEF BudgetInv
<1>11. CASE Tick
  <2>1. /\ phase = "update"
        /\ UNCHANGED <<state, phase, reconnectPending>>
    BY <1>11 DEF Tick
  <2>2. /\ connectAge' = Min2(connectAge + 1, InitialTimeout + 1)
        /\ entryAge' = Min2(entryAge + 1, ConnectTimeout + 1)
    BY <1>1, <1>11 DEF Tick, Older, TimesOK, Never
  <2>3. Covered => Covered'
    BY <1>1, <2>2 DEF Covered, Min2, TimesOK
  <2> QED
    BY <2>1, <2>3 DEF BudgetInv, Covered
<1>12. CASE RadioStep \/ UNCHANGED vars
  BY <1>12 DEF RadioStep, vars, BudgetInv
<1>13. CASE labelFallback \/ recordEscalation
  BY <1>13, SecondStep DEF BudgetInv
<1> QED
  BY <1>2, <1>3, <1>4, <1>5, <1>6, <1>7, <1>8, <1>9, <1>10, <1>11, <1>12, <1>13
     DEF Next, LoopStep, update, onDisconnected

\* However the drop was noticed and whatever raced with it, a fallback to AP mode
\* without a campaign comes only after a whole connect budget in CONNECTING.
THEOREM WholeBudget == Spec => FreshConnectBudget
<1>1. Init => BudgetInv
  BY DEF Init, BudgetInv
<1>2. TypeOK /\ BudgetInv /\ [Next]_vars
        => [Escalates => entryAge > ConnectTimeout]_vars
  <2> SUFFICES ASSUME TypeOK, BudgetInv, [Next]_vars, Escalates
               PROVE  entryAge > ConnectTimeout
    OBVIOUS
  <2>1. handleConnectFailed \/ handleInitialConnectTimeout
    BY FallbackSteps
  <2>2. Connecting /\ phase = "update" /\ connectDuration > ConnectTimeout
    <3>1. CASE handleConnectFailed
      BY <3>1 DEF handleConnectFailed, Escalates, Return, Stay, GiveUp,
                  shouldFallbackToApMode
    <3>2. CASE handleInitialConnectTimeout
      BY <3>2, ConstantTypes
         DEF handleInitialConnectTimeout, isInitialConnectTimeout, Escalates,
             TypeOK, TimesOK, connectDuration
    <3> QED
      BY <2>1, <3>1, <3>2
  <2> QED
    <3>1. ~reconnectPending /\ connectAge > ConnectTimeout
      BY <2>2, ConstantTypes DEF connectDuration
    <3>2. connectAge <= entryAge \/ entryAge > ConnectTimeout
      BY <2>2, <3>1 DEF BudgetInv, Connecting
    <3> QED
      BY <3>1, <3>2, ConstantTypes DEF TypeOK, TimesOK
<1> QED
  BY <1>1, <1>2, TypeCorrect, BudgetStep, PTL DEF Spec, FreshConnectBudget

\* With baked-in credentials and nothing stored, CONNECTING never falls back to
\* AP mode without a campaign (handleInitialConnectTimeout: "keep trying").
THEOREM BakedKeeps == Spec => BakedKeepsTrying
<1>1. [Next]_vars => [determineCredentialSource = "BAKED_IN" => ~Escalates]_vars
  <2> SUFFICES ASSUME [Next]_vars, determineCredentialSource = "BAKED_IN",
                      Escalates
               PROVE  FALSE
    OBVIOUS
  <2>1. handleConnectFailed \/ handleInitialConnectTimeout
    BY FallbackSteps
  <2> QED
    BY <2>1
       DEF handleConnectFailed, handleInitialConnectTimeout, Escalates, Return,
           Stay, shouldFallbackToApMode
<1> QED
  BY <1>1, PTL DEF Spec, BakedKeepsTrying

=============================================================================
