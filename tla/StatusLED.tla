------------------------------ MODULE StatusLED ------------------------------
(***************************************************************************)
(* The status LED: the table of patterns, the choice of a pattern from the *)
(* state of the WiFi manager and the client, and the step machine that     *)
(* plays a pattern without blocking.  A duration is a number of ticks.     *)
(***************************************************************************)
EXTENDS Naturals, Sequences

CONSTANTS TINY, SHORT, MED, LONG, SEARCHING, SEPARATOR   \* StatusLEDConstants

ASSUME DurationAssumption ==
    /\ \A d \in {TINY, SHORT, MED, LONG, SEARCHING, SEPARATOR} : d \in Nat \ {0}
    /\ TINY <= SHORT /\ SHORT <= MED /\ MED <= LONG /\ LONG < SEPARATOR

Step(on, d) == [on |-> on, duration |-> d]

Flash(on, off) == <<Step(TRUE, on), Step(FALSE, off)>>

Pause == <<Step(FALSE, SEPARATOR)>>

Thrice(s) == s \o s \o s

\* ERROR_3_PULSE, followed by what tells the errors apart.
Error(s) == Thrice(Flash(SHORT, SHORT)) \o s \o Pause

PatternSteps ==
    [ OFF                     |-> Pause,
      BOOT                    |-> Flash(MED, MED),
      WIFI_SEARCHING          |-> Flash(TINY, SEARCHING),
      WIFI_CONNECTED          |-> Flash(LONG, SHORT),
      CLIENT_CONNECTED        |-> <<Step(TRUE, SEPARATOR)>>,
      AP_MODE                 |-> Flash(LONG, SHORT) \o Flash(TINY, TINY)
                                    \o Flash(TINY, SEPARATOR),
      OTA_IN_PROGRESS         |-> Flash(SHORT, SHORT),
      ERROR_AUTH_FAILURE      |-> Error(Thrice(Flash(TINY, TINY))),
      ERROR_RECOVERABLE       |-> Error(Flash(TINY, TINY) \o Flash(TINY, TINY)),
      ERROR_NO_NTP_SERVICE    |-> Error(Flash(TINY, TINY)),
      FATAL_UNRECOVERABLE_SOS |-> Thrice(Flash(SHORT, SHORT)) \o Thrice(Flash(LONG, SHORT))
                                    \o Thrice(Flash(SHORT, SHORT)) \o Pause ]

Patterns == DOMAIN PatternSteps

\* Fault: the WiFi state is looked at before the client.
selectWifiFirst(state, client) ==
    IF state = "CONNECTED" THEN "WIFI_CONNECTED"
    ELSE IF state = "AP_MODE_DEFAULT" THEN "AP_MODE"
    ELSE IF state = "AP_MODE_AUTH_FAIL" THEN "ERROR_AUTH_FAILURE"
    ELSE IF client THEN "CLIENT_CONNECTED" ELSE "WIFI_SEARCHING"

\* Which pattern shows a state: a client before everything else.
selectLedPattern(state, client) ==
    IF client THEN "CLIENT_CONNECTED"
    ELSE IF state = "CONNECTED" THEN "WIFI_CONNECTED"
    ELSE IF state = "AP_MODE_DEFAULT" THEN "AP_MODE"
    ELSE IF state = "AP_MODE_AUTH_FAIL" THEN "ERROR_AUTH_FAILURE"
    ELSE "WIFI_SEARCHING"

-----------------------------------------------------------------------------
(* The step machine.  elapsed is the time since phaseStartTime_. *)

Led == [pattern : Patterns, last : Patterns, step : 1..20,
        elapsed : 0..SEPARATOR, on : BOOLEAN]

\* The constructor and init(): off, then BOOT from the next update on.
LedInit == [pattern |-> "BOOT", last |-> "OFF", step |-> 1, elapsed |-> 0, on |-> FALSE]

setPattern(led, p) == [led EXCEPT !.pattern = p]

StepOf(led) == PatternSteps[led.pattern][led.step]

\* resetPattern.
Begin(led) ==
    [pattern |-> led.pattern, last |-> led.last, step |-> 1, elapsed |-> 0,
     on |-> PatternSteps[led.pattern][1].on]

NextStep(led) == IF led.step = Len(PatternSteps[led.pattern]) THEN 1 ELSE led.step + 1

\* One step at a time, however late the call is.
Play(led) ==
    IF led.elapsed >= StepOf(led).duration
    THEN LET moved == [led EXCEPT !.step = NextStep(led), !.elapsed = 0]
         IN  [moved EXCEPT !.on = StepOf(moved).on]
    ELSE [led EXCEPT !.on = StepOf(led).on]

\* Fault: lastPattern_ keeps its value when the pattern changes.
updateForgetsLast(led) ==
    Play(IF led.pattern # led.last THEN Begin(led) ELSE led)

updateInternal(led) ==
    Play(IF led.pattern # led.last THEN [Begin(led) EXCEPT !.last = led.pattern] ELSE led)

LedTick(led) ==
    [led EXCEPT !.elapsed = IF led.elapsed = SEPARATOR THEN SEPARATOR ELSE led.elapsed + 1]
=============================================================================
