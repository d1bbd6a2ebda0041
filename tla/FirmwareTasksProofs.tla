------------------------- MODULE FirmwareTasksProofs -------------------------
(***************************************************************************)
(* What holds of FirmwareTasks for every table of durations and intervals: *)
(* the housekeeping of loop() is safe, and the beacon keeps its pace.      *)
(***************************************************************************)
EXTENDS FirmwareTasks, SequenceTheorems, TLAPS

\* SNTP is started once for an attempt that is counted, until it has synced:
\* then attempts may start from 0, and nothing starts it again.
NtpInv == ~ntp.synced => ntp.starts <= ntp.attempts

\* The time without a beacon is at most the age of the last one.  After a reset
\* it is the uptime that is compared, which the time before the reset exceeds by
\* an interval and an iteration at most; the reset is then no older than the
\* uptime.
UntriedInv ==
    /\ beacon.last # Zero => untried < Long + held /\ (untried <= beacon.last \/ beacon.last = Long)
    /\ beacon.last = Zero =>
          \/ untried <= uptime
          \/ untried <= Long - 1 + Hold + uptime /\ beacon.age <= uptime

\* update() ends with a beacon or within an interval, from which the rest of the
\* iteration goes on: the clock does not wrap around before the next update().
PaceInv ==
    phase = "top" /\ RadioInUse /\ beacon.started /\ beacon.last = Zero =>
        uptime < Long + held /\ untried <= (Long - 1 + Hold) + (Slow - 1) + held

\* No beacon before the radio is in use and startIfNeeded has run.
StartInv ==
    /\ ~beacon.started => phase \in {"top", "update"}
    /\ beacon.ahead => beacon.age = 0
    /\ ~RadioInUse \/ ~beacon.started => untried = 0 /\ beacon.last = Zero

\* The step the LED is at is one of the pattern it was last played in.
LedInv == led.step \in 1..Len(PatternSteps[led.last])

IInv ==
    /\ HousekeepingSafe /\ BeaconKeepsPace
    /\ LedInv /\ NtpInv /\ UntriedInv /\ PaceInv /\ StartInv

-----------------------------------------------------------------------------
(* The status LED *)

LedSteps == [on : BOOLEAN, duration : Nat]

\* Steps(s, n): s is a sequence of n steps.
Steps(s, n) == s \in Seq(LedSteps) /\ Len(s) = n

LEMMA Durations ==
    /\ TINY \in Nat /\ SHORT \in Nat /\ MED \in Nat /\ LONG \in Nat
    /\ SEARCHING \in Nat /\ SEPARATOR \in Nat
BY DurationAssumption

LEMMA OneStep ==
    ASSUME NEW on \in BOOLEAN, NEW d \in Nat
    PROVE  Step(on, d) \in LedSteps /\ Step(on, d).on = on
BY DEF Step, LedSteps

LEMMA Joined ==
    ASSUME NEW s \in Seq(LedSteps), NEW t \in Seq(LedSteps)
    PROVE  s \o t \in Seq(LedSteps) /\ Len(s \o t) = Len(s) + Len(t)
BY ConcatProperties

LEMMA ShortSequences ==
    ASSUME NEW a \in LedSteps, NEW b \in LedSteps
    PROVE  /\ <<a>> \in Seq(LedSteps) /\ Len(<<a>>) = 1
           /\ <<a, b>> \in Seq(LedSteps) /\ Len(<<a, b>>) = 2
OBVIOUS

LEMMA Flashes ==
    ASSUME NEW on \in Nat, NEW off \in Nat
    PROVE  Steps(Flash(on, off), 2)
<1>1. Step(TRUE, on) \in LedSteps /\ Step(FALSE, off) \in LedSteps
  BY OneStep
<1> QED
  BY <1>1, ShortSequences, Zenon DEF Flash, Steps

LEMMA Pauses == Steps(Pause, 1)
<1>1. Step(FALSE, SEPARATOR) \in LedSteps
  BY OneStep, Durations
<1> QED
  BY <1>1, ShortSequences, Zenon DEF Pause, Steps

LEMMA StepsJoined ==
    ASSUME NEW s, NEW t, NEW m \in Nat, NEW n \in Nat, Steps(s, m), Steps(t, n)
    PROVE  Steps(s \o t, m + n)
<1>1. s \o t \in Seq(LedSteps) /\ Len(s \o t) = Len(s) + Len(t)
  BY Joined DEF Steps
<1> QED
  BY <1>1 DEF Steps

LEMMA StepsTripled ==
    ASSUME NEW s, NEW n \in Nat, Steps(s, n)
    PROVE  Steps(Thrice(s), 3 * n)
<1>1. Steps(s \o s, n + n)
  BY StepsJoined
<1>2. Steps((s \o s) \o s, (n + n) + n)
  BY <1>1, StepsJoined
<1> QED
  BY <1>2 DEF Thrice

LEMMA StepsError ==
    ASSUME NEW s, NEW n \in Nat, Steps(s, n)
    PROVE  Steps(Error(s), n + 7)
<1> DEFINE pulses == Thrice(Flash(SHORT, SHORT))
<1>1. Steps(pulses, 3 * 2)
  BY Flashes, Durations, StepsTripled
<1>2. Error(s) = (pulses \o s) \o Pause
  BY DEF Error
<1> HIDE DEF pulses
<1>3. Steps(pulses \o s, 6 + n)
  BY <1>1, StepsJoined
<1>4. Steps((pulses \o s) \o Pause, (6 + n) + 1)
  BY <1>3, StepsJoined, Pauses
<1> QED
  BY <1>2, <1>4
\* Every pattern is a sequence of 1 to 20 steps.
LEMMA Table ==
    \A p \in Patterns : PatternSteps[p] \in Seq(LedSteps) /\ Len(PatternSteps[p]) \in 1..20
<1>1. \A a \in {TINY, SHORT, MED, LONG}, b \in {TINY, SHORT, MED, SEARCHING, SEPARATOR} :
         Steps(Flash(a, b), 2)
  BY Flashes, Durations
<1>2. /\ PatternSteps.OFF = Pause
      /\ PatternSteps.BOOT = Flash(MED, MED)
      /\ PatternSteps.WIFI_SEARCHING = Flash(TINY, SEARCHING)
      /\ PatternSteps.WIFI_CONNECTED = Flash(LONG, SHORT)
      /\ PatternSteps.CLIENT_CONNECTED = <<Step(TRUE, SEPARATOR)>>
      /\ PatternSteps.AP_MODE = (Flash(LONG, SHORT) \o Flash(TINY, TINY)) \o Flash(TINY, SEPARATOR)
      /\ PatternSteps.OTA_IN_PROGRESS = Flash(SHORT, SHORT)
      /\ PatternSteps.ERROR_AUTH_FAILURE = Error(Thrice(Flash(TINY, TINY)))
      /\ PatternSteps.ERROR_RECOVERABLE = Error(Flash(TINY, TINY) \o Flash(TINY, TINY))
      /\ PatternSteps.ERROR_NO_NTP_SERVICE = Error(Flash(TINY, TINY))
      /\ PatternSteps.FATAL_UNRECOVERABLE_SOS =
            ((Thrice(Flash(SHORT, SHORT)) \o Thrice(Flash(LONG, SHORT)))
               \o Thrice(Flash(SHORT, SHORT))) \o Pause
  BY Zenon DEF PatternSteps
<1>3. Steps(PatternSteps.CLIENT_CONNECTED, 1)
  <2>1. Step(TRUE, SEPARATOR) \in LedSteps
    BY OneStep, Durations
  <2> QED
    BY <1>2, <2>1, ShortSequences, Zenon DEF Steps
<1>4. Steps(PatternSteps.AP_MODE, 6)
  <2> DEFINE a == Flash(LONG, SHORT)
             b == Flash(TINY, TINY)
             c == Flash(TINY, SEPARATOR)
  <2>1. Steps(a, 2) /\ Steps(b, 2) /\ Steps(c, 2)
    BY <1>1
  <2>2. PatternSteps.AP_MODE = (a \o b) \o c
    BY <1>2
  <2> HIDE DEF a, b, c
  <2>3. Steps(a \o b, 2 + 2)
    BY <2>1, StepsJoined
  <2>4. Steps((a \o b) \o c, 4 + 2)
    BY <2>1, <2>3, StepsJoined
  <2> QED
    BY <2>2, <2>4
<1>5. Steps(PatternSteps.ERROR_AUTH_FAILURE, 13)
  <2> DEFINE s == Thrice(Flash(TINY, TINY))
  <2>1. Steps(s, 3 * 2)
    BY <1>1, StepsTripled
  <2>2. PatternSteps.ERROR_AUTH_FAILURE = Error(s)
    BY <1>2
  <2> HIDE DEF s
  <2>3. Steps(Error(s), 6 + 7)
    BY <2>1, StepsError
  <2> QED
    BY <2>2, <2>3
<1>6. Steps(PatternSteps.ERROR_RECOVERABLE, 11)
  <2> DEFINE s == Flash(TINY, TINY) \o Flash(TINY, TINY)
  <2>1. Steps(s, 2 + 2)
    BY <1>1, StepsJoined
  <2>2. PatternSteps.ERROR_RECOVERABLE = Error(s)
    BY <1>2
  <2> HIDE DEF s
  <2>3. Steps(Error(s), 4 + 7)
    BY <2>1, StepsError
  <2> QED
    BY <2>2, <2>3
<1>7. Steps(PatternSteps.ERROR_NO_NTP_SERVICE, 9)
  <2>1. Steps(Error(Flash(TINY, TINY)), 2 + 7)
    BY <1>1, StepsError
  <2> QED
    BY <1>2, <2>1
<1>8. Steps(PatternSteps.FATAL_UNRECOVERABLE_SOS, 19)
  <2> DEFINE S == Thrice(Flash(SHORT, SHORT))
             O == Thrice(Flash(LONG, SHORT))
  <2>1. Steps(S, 3 * 2) /\ Steps(O, 3 * 2)
    BY <1>1, StepsTripled
  <2>2. PatternSteps.FATAL_UNRECOVERABLE_SOS = ((S \o O) \o S) \o Pause
    BY <1>2
  <2> HIDE DEF S, O
  <2>3. Steps(S \o O, 6 + 6)
    BY <2>1, StepsJoined
  <2>4. Steps((S \o O) \o S, 12 + 6)
    BY <2>1, <2>3, StepsJoined
  <2>5. Steps(((S \o O) \o S) \o Pause, 18 + 1)
    BY <2>4, StepsJoined, Pauses
  <2> QED
    BY <2>2, <2>5
<1>9. Steps(PatternSteps.OFF, 1)
  BY <1>2, Pauses, Zenon
<1> QED
  <2> SUFFICES ASSUME NEW p \in Patterns
               PROVE  \E n \in 1..20 : Steps(PatternSteps[p], n)
    BY DEF Steps
  <2>1. p \in {"OFF", "BOOT", "WIFI_SEARCHING", "WIFI_CONNECTED", "CLIENT_CONNECTED", "AP_MODE",
               "OTA_IN_PROGRESS", "ERROR_AUTH_FAILURE", "ERROR_RECOVERABLE",
               "ERROR_NO_NTP_SERVICE", "FATAL_UNRECOVERABLE_SOS"}
    BY DEF Patterns, PatternSteps
  <2>2. CASE p \in {"BOOT", "WIFI_SEARCHING", "WIFI_CONNECTED", "OTA_IN_PROGRESS"}
    <3>1. /\ Steps(PatternSteps.BOOT, 2) /\ Steps(PatternSteps.OTA_IN_PROGRESS, 2)
          /\ Steps(PatternSteps.WIFI_SEARCHING, 2) /\ Steps(PatternSteps.WIFI_CONNECTED, 2)
      BY <1>1, <1>2, Zenon
    <3>2. 2 \in 1..20
      OBVIOUS
    <3> QED
      BY <2>2, <3>1, <3>2, Zenon
  <2>3. CASE p \in {"AP_MODE", "ERROR_AUTH_FAILURE", "ERROR_RECOVERABLE", "ERROR_NO_NTP_SERVICE",
                    "FATAL_UNRECOVERABLE_SOS"}
    BY <1>4, <1>5, <1>6, <1>7, <1>8, <2>3
  <2>4. CASE p \in {"OFF", "CLIENT_CONNECTED"}
    BY <1>3, <1>9, <2>4
  <2> QED
    BY <2>1, <2>2, <2>3, <2>4

\* The LED shows the step it is at, which is one of its pattern.
InStep(l) ==
    /\ l.step \in 1..Len(PatternSteps[l.pattern])
    /\ l.on = StepOf(l).on

LEMMA StepsOfPatterns ==
    ASSUME NEW p \in Patterns, NEW i \in 1..Len(PatternSteps[p])
    PROVE  /\ i \in 1..20
           /\ PatternSteps[p][i] \in LedSteps
           /\ PatternSteps[p][i].on \in BOOLEAN
<1>1. PatternSteps[p] \in Seq(LedSteps)
  BY Table
<1>2. i \in 1..20
  <2>1. PICK n \in 1..20 : Len(PatternSteps[p]) = n
    BY Table
  <2>2. i \in 1..n
    BY <2>1, Zenon
  <2> QED
    BY <2>2
<1>3. PatternSteps[p][i] \in LedSteps
  BY <1>1, ElementOfSeq
<1> QED
  BY <1>2, <1>3 DEF LedSteps

LEMMA LedRecord ==
    ASSUME NEW r, r = [pattern |-> r.pattern, last |-> r.last, step |-> r.step,
                       elapsed |-> r.elapsed, on |-> r.on],
           r.pattern \in Patterns, r.last \in Patterns, r.step \in 1..20,
           r.elapsed \in 0..SEPARATOR, r.on \in BOOLEAN
    PROVE  r \in Led
BY DEF Led

\* A call of updateInternal in the middle of a pattern goes on by one step at most.
LEMMA Played ==
    ASSUME NEW l \in Led, l.step \in 1..Len(PatternSteps[l.pattern])
    PROVE  /\ Play(l) \in Led /\ InStep(Play(l))
           /\ Play(l).pattern = l.pattern /\ Play(l).last = l.last
<1> DEFINE q == PatternSteps[l.pattern]
           next == IF l.elapsed >= StepOf(l).duration THEN NextStep(l) ELSE l.step
           age == IF l.elapsed >= StepOf(l).duration THEN 0 ELSE l.elapsed
<1>1. l.pattern \in Patterns /\ l.last \in Patterns /\ l.elapsed \in 0..SEPARATOR
  BY DEF Led
<1>2. Len(q) \in 1..20
  BY <1>1, Table
<1>3. next \in 1..Len(q)
  BY <1>2 DEF NextStep
<1>4. age \in 0..SEPARATOR
  BY <1>1, Durations
<1>5. next \in 1..20 /\ q[next].on \in BOOLEAN
  BY <1>1, <1>3, StepsOfPatterns
<1>6. Play(l) = [pattern |-> l.pattern, last |-> l.last, step |-> next, elapsed |-> age,
                 on |-> q[next].on]
  <2>1. l = [pattern |-> l.pattern, last |-> l.last, step |-> l.step, elapsed |-> l.elapsed,
             on |-> l.on]
    BY DEF Led
  <2>2. CASE l.elapsed >= StepOf(l).duration
    BY <2>1, <2>2 DEF Play, StepOf
  <2>3. CASE ~(l.elapsed >= StepOf(l).duration)
    BY <2>1, <2>3 DEF Play, StepOf
  <2> QED
    BY <2>2, <2>3
<1> HIDE DEF next, age
<1>7. /\ Play(l).pattern = l.pattern /\ Play(l).last = l.last
      /\ Play(l).step = next /\ Play(l).elapsed = age /\ Play(l).on = q[next].on
  BY <1>6
<1>8. Play(l) = [pattern |-> Play(l).pattern, last |-> Play(l).last, step |-> Play(l).step,
                 elapsed |-> Play(l).elapsed, on |-> Play(l).on]
  BY <1>6, <1>7, Zenon
<1>9. Play(l) \in Led
  BY <1>1, <1>4, <1>5, <1>7, <1>8, LedRecord, Zenon
<1>10. InStep(Play(l))
  BY <1>3, <1>7, Zenon DEF InStep, StepOf
<1> QED
  BY <1>7, <1>9, <1>10

\* updateInternal with a new pattern starts it, and lastPattern_ follows.
LEMMA Updated ==
    ASSUME NEW l \in Led,
           l.last = l.pattern => l.step \in 1..Len(PatternSteps[l.pattern])
    PROVE  /\ updateInternal(l) \in Led /\ InStep(updateInternal(l))
           /\ updateInternal(l).pattern = l.pattern /\ updateInternal(l).last = l.pattern
<1>1. CASE l.pattern = l.last
  BY <1>1, Played DEF updateInternal
<1>2. CASE l.pattern # l.last
  <2> DEFINE b == [Begin(l) EXCEPT !.last = l.pattern]
  <2>1. l.pattern \in Patterns
    BY DEF Led
  <2>2. 1 \in 1..Len(PatternSteps[l.pattern])
    <3>1. PICK n \in 1..20 : Len(PatternSteps[l.pattern]) = n
      BY <2>1, Table
    <3> QED
      BY <3>1
  <2>3. PatternSteps[l.pattern][1].on \in BOOLEAN
    BY <2>1, <2>2, StepsOfPatterns
  <2>4. b = [pattern |-> l.pattern, last |-> l.pattern, step |-> 1, elapsed |-> 0,
             on |-> PatternSteps[l.pattern][1].on]
    BY DEF Begin
  <2>5. 1 \in 1..20 /\ 0 \in 0..SEPARATOR
    BY Durations
  <2>6. b \in Led /\ b.pattern = l.pattern /\ b.last = l.pattern /\ b.step = 1
    <3>1. /\ b.pattern = l.pattern /\ b.last = l.pattern /\ b.step = 1 /\ b.elapsed = 0
          /\ b.on = PatternSteps[l.pattern][1].on
      BY <2>4, Zenon
    <3>2. b = [pattern |-> b.pattern, last |-> b.last, step |-> b.step, elapsed |-> b.elapsed,
               on |-> b.on]
      BY <2>4, <3>1, Zenon
    <3> HIDE DEF b
    <3> QED
      BY <2>1, <2>3, <2>5, <3>1, <3>2, LedRecord, Zenon
  <2>7. updateInternal(l) = Play(b)
    BY <1>2 DEF updateInternal
  <2> HIDE DEF b
  <2> QED
    BY <2>2, <2>6, <2>7, Played
<1> QED
  BY <1>1, <1>2

LEMMA PatternSet ==
    ASSUME NEW l \in Led, NEW p \in Patterns
    PROVE  /\ setPattern(l, p) \in Led
           /\ setPattern(l, p).pattern = p
           /\ setPattern(l, p).last = l.last /\ setPattern(l, p).step = l.step
<1> DEFINE s == setPattern(l, p)
<1>1. s = [pattern |-> p, last |-> l.last, step |-> l.step, elapsed |-> l.elapsed, on |-> l.on]
  BY DEF setPattern, Led
<1>2. /\ l.last \in Patterns /\ l.step \in 1..20 /\ l.elapsed \in 0..SEPARATOR
      /\ l.on \in BOOLEAN
  BY Zenon DEF Led
<1>3. /\ s.pattern = p /\ s.last = l.last /\ s.step = l.step /\ s.elapsed = l.elapsed
      /\ s.on = l.on
  BY <1>1
<1>4. s = [pattern |-> s.pattern, last |-> s.last, step |-> s.step, elapsed |-> s.elapsed,
           on |-> s.on]
  BY <1>1, <1>3, Zenon
<1> QED
  BY <1>2, <1>3, <1>4, LedRecord, Zenon

LEMMA LedTicked ==
    ASSUME NEW l \in Led
    PROVE  /\ LedTick(l) \in Led
           /\ LedTick(l).pattern = l.pattern /\ LedTick(l).last = l.last
           /\ LedTick(l).step = l.step /\ LedTick(l).on = l.on
<1> DEFINE age == IF l.elapsed = SEPARATOR THEN SEPARATOR ELSE l.elapsed + 1
<1>1. /\ l.pattern \in Patterns /\ l.last \in Patterns /\ l.step \in 1..20
      /\ l.on \in BOOLEAN
  BY Zenon DEF Led
<1>2. age \in 0..SEPARATOR
  <2>1. l.elapsed \in 0..SEPARATOR
    BY Zenon DEF Led
  <2> QED
    BY <2>1, Durations
<1> DEFINE s == LedTick(l)
<1>3. s = [pattern |-> l.pattern, last |-> l.last, step |-> l.step, elapsed |-> age, on |-> l.on]
  BY DEF LedTick, Led
<1> HIDE DEF age
<1>4. /\ s.pattern = l.pattern /\ s.last = l.last /\ s.step = l.step /\ s.elapsed = age
      /\ s.on = l.on
  BY <1>3
<1>5. s = [pattern |-> s.pattern, last |-> s.last, step |-> s.step, elapsed |-> s.elapsed,
           on |-> s.on]
  BY <1>3, <1>4, Zenon
<1> QED
  BY <1>1, <1>2, <1>4, <1>5, LedRecord, Zenon

\* The pattern of a client is its alone, and always on.
LEMMA Chosen ==
    ASSUME NEW state, NEW c \in BOOLEAN
    PROVE  /\ selectLedPattern(state, c) \in Patterns
           /\ c => selectLedPattern(state, c) = "CLIENT_CONNECTED"
<1>1. {"CLIENT_CONNECTED", "WIFI_CONNECTED", "AP_MODE", "ERROR_AUTH_FAILURE", "WIFI_SEARCHING"}
         \subseteq Patterns
  BY DEF Patterns, PatternSteps
<1> QED
  BY <1>1 DEF selectLedPattern

LEMMA ClientIsOn ==
    ASSUME NEW l, l.pattern = "CLIENT_CONNECTED", InStep(l)
    PROVE  l.on
<1>1. PatternSteps["CLIENT_CONNECTED"] = <<Step(TRUE, SEPARATOR)>>
  BY Zenon DEF PatternSteps
<1>2. l.step = 1
  BY <1>1, ShortSequences, OneStep, Durations DEF InStep
<1>3. StepOf(l) = Step(TRUE, SEPARATOR)
  BY <1>1, <1>2 DEF StepOf
<1>4. Step(TRUE, SEPARATOR).on = TRUE
  BY Zenon DEF Step
<1> QED
  BY <1>3, <1>4, Zenon DEF InStep

-----------------------------------------------------------------------------
(* The parts of a type *)

Beacons == [started : BOOLEAN, age : 0..Age10, ahead : BOOLEAN, last : Zero..Long]

Services == [requested : BOOLEAN, synced : BOOLEAN, enabled : BOOLEAN,
             attempts : 0..(RetryMax + 1), starts : 0..(RetryMax + 1)]

Phases == {"top", "update", "observe", "tell", "led", "tail"}

LoopPart == phase \in Phases /\ wifi \in WifiStates /\ client \in BOOLEAN

LedPart == led \in Led /\ LedInStep /\ ClientShown /\ LedInv

NtpPart == ntp \in Services /\ NtpBounded /\ NtpInv

LinkPart ==
    /\ observed \in BOOLEAN /\ previous \in BOOLEAN /\ dropping \in BOOLEAN /\ told \in BOOLEAN
    /\ EventsTellLink

BeaconPart ==
    /\ beacon \in Beacons /\ uptime \in 0..(Clock - 1) /\ untried \in 0..Cap /\ held \in 0..Hold
    /\ BeaconKeepsPace /\ UntriedInv /\ PaceInv /\ StartInv

\* The invariant is one of each component of the loop.
LEMMA Parts == IInv <=> LoopPart /\ LedPart /\ NtpPart /\ LinkPart /\ BeaconPart
BY DEF IInv, HousekeepingSafe, TypeOK, LoopPart, LedPart, NtpPart, LinkPart, BeaconPart,
       Beacons, Services, Phases

LEMMA Constants ==
    /\ Fast \in Nat /\ Medium \in Nat /\ Long \in Nat /\ Slow \in Nat
    /\ Age2 \in Nat /\ Age5 \in Nat /\ Age10 \in Nat /\ RetryMax \in Nat
    /\ Hold \in Nat /\ Clock \in Nat
    /\ 0 < Fast /\ Fast <= Medium /\ Fast <= Slow /\ Medium <= Long /\ Slow <= Long
    /\ Long < Age2 /\ Age2 < Age5 /\ Age5 < Age10
    /\ 0 < Hold /\ Long + Hold <= Clock
BY TasksAssumption

LEMMA LoopStep == LoopPart /\ [Next]_vars => LoopPart'
BY DEF LoopPart, Phases, WifiStates, Next, Loop, ServeClients, UpdateWifi, ReadState, Observe,
       UpdateLed, NtpAndBeacon, SyncComplete, WifiDrop, EmitDrop, Tick, Connected, vars

LEMMA NtpStep == NtpPart /\ [Next]_vars => NtpPart'
<1> SUFFICES ASSUME NtpPart, [Next]_vars PROVE NtpPart'
  OBVIOUS
<1> USE Constants
<1>1. CASE SyncComplete
  <2>1. 0 \in 0..(RetryMax + 1) /\ ntp.attempts \in 0..(RetryMax + 1)
    BY DEF NtpPart, Services
  <2>2. ntp' \in Services
    <3>1. CASE ntp.synced
      BY <1>1, <2>1, <3>1 DEF SyncComplete, NtpPart, Services
    <3>2. CASE ~ntp.synced
      BY <1>1, <2>1, <3>2 DEF SyncComplete, NtpPart, Services
    <3> QED
      BY <3>1, <3>2
  <2>3. ntp'.starts = ntp.starts /\ ntp'.synced
    BY <1>1 DEF SyncComplete, NtpPart, Services
  <2> QED
    BY <2>2, <2>3 DEF NtpPart, NtpBounded, NtpInv
<1>2. CASE UpdateWifi
  <2>1. PICK up \in BOOLEAN : ntp' = [ntp EXCEPT !.requested = up]
    BY <1>2 DEF UpdateWifi, NtpPart, Services
  <2>2. ntp' \in Services
    BY <2>1 DEF NtpPart, Services
  <2> QED
    BY <2>1, <2>2 DEF NtpPart, NtpBounded, NtpInv, Services
<1>3. CASE NtpAndBeacon
  <2>1. CASE ~ntp.synced /\ InitNtp
    <3>0. ntp.attempts \in 0..(RetryMax + 1) /\ ntp.starts \in 0..RetryMax
      BY DEF NtpPart, Services, NtpBounded
    <3>1. CASE ntp.attempts < RetryMax /\ ntp' # ntp
      <4>1. PICK up \in BOOLEAN :
               ntp' = [ntp EXCEPT !.attempts = @ + 1, !.enabled = up, !.starts = @ + 1]
        BY <2>1, <3>1 DEF InitNtp
      <4>2. ntp.attempts + 1 \in 0..(RetryMax + 1) /\ ntp.starts + 1 \in 0..(RetryMax + 1)
        BY <3>0, <3>1
      <4>3. ntp' \in Services
        BY <4>1, <4>2 DEF NtpPart, Services
      <4>4. ntp'.attempts = ntp.attempts + 1 /\ ntp'.starts = ntp.starts + 1
        BY <4>1 DEF NtpPart, Services
      <4> QED
        BY <2>1, <3>0, <3>1, <4>3, <4>4 DEF NtpPart, NtpBounded, NtpInv
    <3>2. CASE ~(ntp.attempts < RetryMax) /\ ntp' # ntp
      <4>1. ntp' = [ntp EXCEPT !.attempts = RetryMax + 1]
        BY <2>1, <3>2 DEF InitNtp
      <4>2. ntp' \in Services
        BY <4>1 DEF NtpPart, Services
      <4>3. ntp'.attempts = RetryMax + 1 /\ ntp'.starts = ntp.starts
        BY <4>1 DEF NtpPart, Services
      <4> QED
        BY <3>0, <4>2, <4>3 DEF NtpPart, NtpBounded, NtpInv
    <3> QED
      BY <3>1, <3>2 DEF NtpPart, NtpBounded, NtpInv
  <2>2. CASE UNCHANGED ntp
    BY <2>2 DEF NtpPart, NtpBounded, NtpInv
  <2> QED
    BY <1>3, <2>1, <2>2 DEF NtpAndBeacon, MaybeStart
<1>4. CASE UNCHANGED ntp
  BY <1>4 DEF NtpPart, NtpBounded, NtpInv
<1> QED
  BY <1>1, <1>2, <1>3, <1>4
  DEF Next, Loop, ServeClients, ReadState, Observe, UpdateLed, WifiDrop, EmitDrop, Tick, vars

LEMMA LinkStep == LinkPart /\ [Next]_vars => LinkPart'
<1> SUFFICES ASSUME LinkPart, [Next]_vars PROVE LinkPart'
  OBVIOUS
<1>1. CASE ReadState
  BY <1>1 DEF ReadState, LinkPart, EventsTellLink, Connected
<1>2. CASE Observe
  BY <1>2 DEF Observe, LinkPart, EventsTellLink
<1>3. CASE WifiDrop \/ EmitDrop
  <2>1. observed' = observed /\ previous' = previous
    BY <1>3, Zenon DEF WifiDrop, EmitDrop
  <2>2. dropping' = TRUE \/ dropping' = FALSE
    BY <1>3, Zenon DEF WifiDrop, EmitDrop
  <2>3. told' = told \/ told' = FALSE
    BY <1>3, Zenon DEF WifiDrop, EmitDrop
  <2>4. EventsTellLink'
    BY <2>1, <2>3, Zenon DEF LinkPart, EventsTellLink
  <2> QED
    BY <2>1, <2>2, <2>3, <2>4, Zenon DEF LinkPart
<1>4. CASE UNCHANGED <<observed, previous, dropping, told>>
  BY <1>4 DEF LinkPart, EventsTellLink
<1> QED
  BY <1>1, <1>2, <1>3, <1>4
  DEF Next, Loop, ServeClients, UpdateWifi, UpdateLed, NtpAndBeacon, SyncComplete, Tick, vars

LEMMA LedStep == LoopPart /\ LedPart /\ [Next]_vars => LedPart'
<1> SUFFICES ASSUME LoopPart, LedPart, [Next]_vars PROVE LedPart'
  OBVIOUS
<1>1. CASE UpdateLed
  <2> DEFINE p == selectLedPattern(wifi, client)
             shown == setPattern(led, p)
  <2>1. p \in Patterns /\ (client => p = "CLIENT_CONNECTED")
    BY Chosen DEF LoopPart
  <2>2. shown \in Led /\ shown.pattern = p /\ shown.last = led.last /\ shown.step = led.step
    BY <2>1, PatternSet DEF LedPart
  <2>3. shown.last = shown.pattern => shown.step \in 1..Len(PatternSteps[shown.pattern])
    BY <2>2, Zenon DEF LedPart, LedInv
  <2>4. led' = updateInternal(shown) /\ client' = client
    BY <1>1, Zenon DEF UpdateLed
  <2> HIDE DEF p, shown
  <2>5. led' \in Led /\ InStep(led') /\ led'.pattern = p /\ led'.last = p
    BY <2>2, <2>3, <2>4, Updated, Zenon
  <2>6. client' => led'.pattern = "CLIENT_CONNECTED" /\ led'.on
    BY <2>1, <2>4, <2>5, ClientIsOn, Zenon
  <2> QED
    BY <2>5, <2>6, Zenon DEF LedPart, LedInStep, ClientShown, LedInv, InStep
<1>2. CASE Tick
  <2>1. /\ led' \in Led
        /\ led'.pattern = led.pattern /\ led'.last = led.last /\ led'.step = led.step
        /\ led'.on = led.on
    BY <1>2, LedTicked, Zenon DEF Tick, LedPart
  <2>2. UNCHANGED <<phase, client>>
    BY <1>2 DEF Tick
  <2> QED
    BY <2>1, <2>2, Zenon DEF LedPart, LedInStep, ClientShown, LedInv, StepOf
<1>3. CASE ServeClients \/ UpdateWifi \/ ReadState \/ Observe
  <2>1. UNCHANGED led /\ phase' \notin {"tail", "top"}
    BY <1>3 DEF ServeClients, UpdateWifi, ReadState, Observe
  <2> QED
    BY <2>1, Zenon DEF LedPart, LedInStep, ClientShown, LedInv, StepOf
<1>4. CASE NtpAndBeacon \/ SyncComplete \/ WifiDrop \/ EmitDrop \/ UNCHANGED vars
  <2>1. UNCHANGED <<led, client>> /\ (phase' \in {"tail", "top"} => phase \in {"tail", "top"})
    BY <1>4 DEF NtpAndBeacon, SyncComplete, WifiDrop, EmitDrop, vars
  <2> QED
    BY <2>1, Zenon DEF LedPart, LedInStep, ClientShown, LedInv, StepOf
<1> QED
  BY <1>1, <1>2, <1>3, <1>4, Zenon DEF Next, Loop

\* No interval is longer than Long.  That of a stamp ahead of the loop's time is
\* the slow one, that of a connection younger than the longest interval the first.
LEMMA Interval ==
    ASSUME NEW age \in Nat
    PROVE  /\ discoveryIntervalMs(age) \in 0..Long
           /\ age < Long => discoveryIntervalMs(age) = Fast
           /\ age = Age10 => discoveryIntervalMs(age) = Slow
BY Constants DEF discoveryIntervalMs

LEMMA BeaconStep == LoopPart /\ BeaconPart /\ [Next]_vars => BeaconPart'
<1> SUFFICES ASSUME LoopPart, BeaconPart, [Next]_vars PROVE BeaconPart'
  OBVIOUS
<1> USE Constants
<1>0. /\ beacon.age \in 0..Age10 /\ beacon.last \in Zero..Long /\ held \in 0..Hold
      /\ uptime \in 0..(Clock - 1) /\ untried \in 0..Cap /\ Zero = -1
  BY DEF BeaconPart, Beacons, Zero
<1>1. ASSUME NEW ahead \in BOOLEAN, NEW started \in BOOLEAN, beacon.started => started,
             \/ beacon' = [resetBackoff(beacon, ahead) EXCEPT !.started = started]
             \/ beacon' = [beacon EXCEPT !.ahead = FALSE] /\ beacon.started
             \/ beacon' = beacon /\ (started <=> beacon.started),
             UNCHANGED <<uptime, untried, held>>, phase' # "top",
             RadioInUse => RadioInUse', started \/ (phase' = "update" /\ (RadioInUse' => RadioInUse))
      PROVE  BeaconPart'
  <2>1. beacon' \in Beacons
    <3>1. 0 \in 0..Age10 /\ Zero \in Zero..Long
      BY DEF Zero
    <3> QED
      BY <1>1, <3>1 DEF BeaconPart, Beacons, resetBackoff
  <2>2. /\ beacon'.started <=> started
        /\ \/ beacon'.age = 0 /\ beacon'.last = Zero
           \/ beacon'.age = beacon.age /\ beacon'.last = beacon.last
        /\ beacon'.ahead => beacon'.age = 0
    BY <1>1 DEF BeaconPart, Beacons, resetBackoff, StartInv
  <2>3. UntriedInv'
    BY <1>0, <1>1, <2>2 DEF BeaconPart, UntriedInv
  <2>4. PaceInv' /\ StartInv'
    BY <1>0, <1>1, <2>2 DEF BeaconPart, PaceInv, StartInv
  <2> QED
    BY <1>0, <1>1, <2>1, <2>3, <2>4 DEF BeaconPart, BeaconKeepsPace
<1>2. CASE ServeClients
  <2>1. CASE beacon' = resetBackoff(beacon, FALSE)
    <3>1. beacon' = [resetBackoff(beacon, FALSE) EXCEPT !.started = beacon.started]
      BY <2>1 DEF resetBackoff, BeaconPart, Beacons
    <3> QED
      BY <1>1, <1>2, <3>1 DEF ServeClients, RadioInUse, BeaconPart, Beacons
  <2>2. CASE beacon' = beacon
    BY <1>1, <1>2, <2>2 DEF ServeClients, RadioInUse, BeaconPart, Beacons
  <2> QED
    BY <1>2, <2>1, <2>2 DEF ServeClients
<1>3. CASE UpdateWifi
  <2>1. /\ UNCHANGED <<uptime, untried, held>> /\ phase' = "observe"
        /\ RadioInUse => RadioInUse'
    BY <1>3 DEF UpdateWifi, RadioInUse
  <2>2. PICK ahead \in BOOLEAN :
           \/ beacon' = [resetBackoff(beacon, ahead) EXCEPT !.started = TRUE]
           \/ beacon' = [beacon EXCEPT !.ahead = FALSE] /\ beacon.started
    BY <1>3 DEF UpdateWifi, startIfNeeded
  <2> QED
    BY <1>1, <2>1, <2>2
<1>4. CASE NtpAndBeacon
  <2>0. /\ phase = "tail" /\ phase' = "top" /\ beacon.started /\ held' = 0
        /\ RadioInUse' = RadioInUse /\ uptime' = uptime
    BY <1>4 DEF NtpAndBeacon, RadioInUse, BeaconPart, StartInv
  <2>1. CASE SendBeacon /\ RadioInUse
    <3>1. beacon' \in Beacons /\ beacon'.last = 0 /\ untried' = 0
      <4>1. 0 \in Zero..Long
        BY DEF Zero
      <4> QED
        BY <2>1, <4>1 DEF SendBeacon, BeaconPart, Beacons
    <3>2. /\ beacon'.started = beacon.started /\ beacon'.ahead = beacon.ahead
          /\ beacon'.age = beacon.age
      BY <2>1 DEF SendBeacon, BeaconPart, Beacons
    <3> QED
      BY <1>0, <2>0, <2>1, <3>1, <3>2
      DEF BeaconPart, Cap, BeaconKeepsPace, UntriedInv, PaceInv, StartInv
  <2>2. CASE /\ UNCHANGED <<beacon, untried>>
             /\ RadioInUse => SinceLast(beacon) < discoveryIntervalMs(ConnectAge(beacon))
    <3>1. CASE ~RadioInUse
      BY <1>0, <2>0, <2>2, <3>1 DEF BeaconPart, BeaconKeepsPace, UntriedInv, PaceInv, StartInv
    <3>2. CASE RadioInUse /\ beacon.last # Zero
      <4>1. beacon.last < Long
        BY <1>0, <2>2, <3>2, Interval DEF SinceLast, ConnectAge
      <4>2. UntriedInv'
        BY <1>0, <2>0, <2>2, <3>2, <4>1 DEF BeaconPart, UntriedInv
      <4> QED
        BY <2>0, <2>2, <3>2, <4>2 DEF BeaconPart, BeaconKeepsPace, PaceInv, StartInv
    <3>3. CASE RadioInUse /\ beacon.last = Zero
      <4>1. uptime < Long
        BY <1>0, <2>2, <3>3, Interval DEF SinceLast, ConnectAge
      <4>2. beacon.age <= uptime => uptime < Slow
        BY <1>0, <2>2, <3>3, <4>1, Interval DEF SinceLast, ConnectAge
      <4>3. untried <= (Long - 1 + Hold) + (Slow - 1)
        BY <1>0, <3>3, <4>1, <4>2 DEF BeaconPart, UntriedInv
      <4> QED
        BY <1>0, <2>0, <2>2, <3>3, <4>1, <4>3
        DEF BeaconPart, BeaconKeepsPace, UntriedInv, PaceInv, StartInv
    <3> QED
      BY <3>1, <3>2, <3>3
  <2> QED
    <3>1. discoveryIntervalMs(ConnectAge(beacon)) \in 0..Long /\ SinceLast(beacon) \in Int
      BY <1>0, Interval DEF ConnectAge, SinceLast
    <3> QED
      BY <1>4, <2>1, <2>2, <3>1 DEF NtpAndBeacon, UpdateBeacon, shouldBroadcast
<1>5. CASE Tick
  <2>0. /\ phase = "top" /\ phase' = "top" /\ held < Hold /\ held' = held + 1
        /\ RadioInUse' = RadioInUse
    BY <1>5 DEF Tick, RadioInUse
  <2>1. PICK age \in Wrapped(beacon.age, Age10) :
           beacon' = [beacon EXCEPT !.age = IF beacon.ahead THEN 0 ELSE age, !.ahead = FALSE,
                                    !.last = IF @ = Zero THEN Zero ELSE Older(@, Long)]
    BY <1>5 DEF Tick
  <2>2. age \in 0..Age10 /\ age <= beacon.age + 1
    BY <1>0, <2>1 DEF Wrapped
  <2> DEFINE last == IF beacon.last = Zero THEN Zero ELSE Older(beacon.last, Long)
             connected == IF beacon.ahead THEN 0 ELSE age
  <2>3. last \in Zero..Long
    BY <1>0 DEF Older
  <2>4. connected \in 0..Age10 /\ connected <= beacon.age + 1
    BY <1>0, <2>2
  <2>5. beacon' = [beacon EXCEPT !.age = connected, !.ahead = FALSE, !.last = last]
    BY <2>1
  <2> HIDE DEF last, connected
  <2>6. /\ beacon' \in Beacons
        /\ beacon'.age = connected /\ beacon'.last = last
        /\ beacon'.started = beacon.started /\ ~beacon'.ahead
    BY <2>3, <2>4, <2>5 DEF BeaconPart, Beacons
  <2>7. /\ uptime' \in 0..(Clock - 1)
        /\ uptime < Clock - 1 => uptime' = uptime + 1
    <3>1. uptime' = (uptime + 1) % Clock /\ 0 < Clock
      BY <1>5 DEF Tick
    <3> QED
      BY <1>0, <3>1
  <2>8. CASE ~(RadioInUse /\ beacon.started)
    <3>1. last = Zero /\ untried' = 0
      BY <1>5, <2>8 DEF Tick, BeaconPart, StartInv, last
    <3> QED
      <4>1. untried' \in 0..Cap /\ held' \in 0..Hold
        BY <1>0, <2>0, <3>1 DEF Cap
      <4>2. UntriedInv'
        BY <1>0, <2>6, <2>7, <3>1 DEF UntriedInv
      <4>3. BeaconKeepsPace'
        BY <3>1 DEF BeaconKeepsPace
      <4>4. PaceInv' /\ StartInv'
        BY <2>0, <2>6, <2>8, <3>1 DEF PaceInv, StartInv
      <4> QED
        BY <2>6, <2>7, <4>1, <4>2, <4>3, <4>4 DEF BeaconPart
  <2>9. CASE RadioInUse /\ beacon.started
    <3>1. untried' = untried + 1 /\ untried' \in 0..Cap
      BY <1>0, <1>5, <2>9 DEF Tick, Older, Cap, BeaconPart, BeaconKeepsPace
    <3>2. StartInv'
      BY <2>0, <2>6, <2>9 DEF StartInv
    <3>3. UntriedInv' /\ PaceInv' /\ BeaconKeepsPace'
      <4>1. CASE beacon.last = Zero
        <5>1. uptime < Long + held /\ untried <= (Long - 1 + Hold) + (Slow - 1) + held
          BY <2>0, <2>9, <4>1 DEF BeaconPart, PaceInv
        <5>2. uptime' = uptime + 1
          BY <1>0, <2>0, <2>7, <5>1
        <5>3. beacon'.last = Zero /\ beacon'.age <= beacon.age + 1
          BY <2>4, <2>6, <4>1 DEF last
        <5>4. UntriedInv'
          BY <1>0, <2>4, <2>6, <3>1, <4>1, <5>2, <5>3 DEF BeaconPart, UntriedInv
        <5> QED
          BY <1>0, <2>0, <3>1, <5>1, <5>2, <5>4 DEF PaceInv, BeaconKeepsPace
      <4>2. CASE beacon.last # Zero
        <5>1. /\ beacon'.last # Zero
              /\ beacon'.last = beacon.last + 1 \/ beacon'.last = Long
          BY <1>0, <2>6, <4>2 DEF last, Older
        <5>2. untried < Long + held /\ (untried <= beacon.last \/ beacon.last = Long)
          BY <4>2 DEF BeaconPart, UntriedInv
        <5>3. beacon.last = Long => beacon'.last = Long
          BY <1>0, <2>6, <4>2 DEF last, Older
        <5>4. UntriedInv'
          BY <1>0, <2>0, <2>3, <2>6, <3>1, <5>1, <5>2, <5>3 DEF UntriedInv
        <5> QED
          BY <1>0, <2>0, <3>1, <5>1, <5>2, <5>4 DEF PaceInv, BeaconKeepsPace
      <4> QED
        BY <4>1, <4>2
    <3>4. held' \in 0..Hold
      BY <1>0, <2>0
    <3> QED
      BY <2>6, <2>7, <3>1, <3>2, <3>3, <3>4 DEF BeaconPart
  <2> QED
    BY <2>8, <2>9
<1>6. CASE ReadState \/ Observe \/ UpdateLed \/ SyncComplete \/ WifiDrop \/ EmitDrop \/ UNCHANGED vars
  <2>1. /\ UNCHANGED <<beacon, uptime, untried, held>> /\ RadioInUse' = RadioInUse
        /\ phase' = phase \/ (phase \in {"observe", "tell", "led"} /\ phase' # "top")
    BY <1>6 DEF ReadState, Observe, UpdateLed, SyncComplete, WifiDrop, EmitDrop, vars, RadioInUse,
                Connected
  <2> QED
    BY <2>1 DEF BeaconPart, BeaconKeepsPace, UntriedInv, PaceInv, StartInv
<1> QED
  BY <1>2, <1>3, <1>4, <1>5, <1>6, Zenon DEF Next, Loop

LEMMA InitIInv == Init => IInv
<1> SUFFICES ASSUME Init PROVE LoopPart /\ LedPart /\ NtpPart /\ LinkPart /\ BeaconPart
  BY Parts
<1> USE Constants
<1>1. LoopPart
  BY DEF Init, LoopPart, Phases, WifiStates
<1>2. LedPart
  <2>1. /\ led.pattern = "BOOT" /\ led.last = "OFF" /\ led.step = 1
    BY DEF Init, LedInit
  <2>2. "BOOT" \in Patterns /\ "OFF" \in Patterns
    BY DEF Patterns, PatternSteps
  <2>3. 0 \in 0..SEPARATOR
    BY Durations
  <2>4. led \in Led
    BY <2>2, <2>3 DEF Init, LedInit, Led
  <2>5. 1 \in 1..Len(PatternSteps["OFF"])
    <3>1. PICK n \in 1..20 : Len(PatternSteps["OFF"]) = n
      BY <2>2, Table
    <3> QED
      BY <3>1
  <2> QED
    BY <2>1, <2>4, <2>5, Zenon DEF Init, LedPart, LedInStep, ClientShown, LedInv
<1>3. NtpPart
  BY DEF Init, NtpPart, Services, NtpBounded, NtpInv
<1>4. LinkPart
  BY DEF Init, LinkPart, EventsTellLink
<1>5. BeaconPart
  BY DEF Init, BeaconPart, Beacons, Zero, Cap, BeaconKeepsPace, UntriedInv, PaceInv, StartInv, RadioInUse
<1> QED
  BY <1>1, <1>2, <1>3, <1>4, <1>5

LEMMA Invariance == Spec => []IInv
<1>1. IInv /\ [Next]_vars => IInv'
  <2> SUFFICES ASSUME IInv, [Next]_vars
               PROVE  (LoopPart /\ LedPart /\ NtpPart /\ LinkPart /\ BeaconPart)'
    BY Parts, PTL
  <2>1. LoopPart /\ LedPart /\ NtpPart /\ LinkPart /\ BeaconPart
    BY Parts
  <2> QED
    BY <2>1, LoopStep, LedStep, NtpStep, LinkStep, BeaconStep
<1> QED
  BY InitIInv, <1>1, PTL DEF Spec

\* Whatever the link, the clients and the services do between two steps of
\* loop(): the LED is in step with its pattern and shows a client, SNTP is
\* started RetryMax times at most, and a log that ends with the link coming up is
\* of a device that last found it up; for every table of durations.
THEOREM HousekeepingHolds == Spec => []HousekeepingSafe
<1>1. IInv => HousekeepingSafe
  BY DEF IInv
<1> QED
  BY Invariance, <1>1, PTL

\* A radio in use is given a beacon within the longest interval and a slow one,
\* plus the time an iteration may hold the loop for each, wherever
\* DiscoveryManager::resetBackoff takes its stamps, whenever millis() wraps
\* around and whatever becomes of a beacon: for all intervals that are ordered as
\* those of DiscoveryConfig are, and every Hold.
THEOREM PaceHolds == Spec => []BeaconKeepsPace
<1>1. IInv => BeaconKeepsPace
  BY DEF IInv
<1> QED
  BY Invariance, <1>1, PTL
=============================================================================
