---------------------------- MODULE Elm327Session ----------------------------
(***************************************************************************)
(* The ELM327 adapter over Bluetooth: BLERunContext drives a BLEManager     *)
(* through detection of the vehicle and then through polling (OBD2) or      *)
(* monitoring (CAN), Elm327Session paces its commands by the adapter's '>'  *)
(* prompt, a polling thread sends the PID queries, and CoreBluetooth's      *)
(* serial queue delivers the notifications and the loss of the link.        *)
(*                                                                          *)
(* Three threads of the program and the adapter interleave.  The waits of   *)
(* the code are condition variables with a deadline: a deadline may pass    *)
(* whenever its thread waits.  A notification is a sequence of tokens, each *)
(* a prompt or one answer; what an answer says is kept only as far as the   *)
(* parser tells it apart.                                                   *)
(***************************************************************************)
EXTENDS VehicleDetector

CONSTANTS
    InitLen,     \* commands of an initialisation sequence (7 or 5 in the code)
    PidCount,    \* PIDs of a polling cycle (6 in the code)
    BufferMax,   \* tokens of the prompt buffer (256 bytes in the code)
    MaxSent,     \* BOUND: commands the adapter still takes; later ones are lost
    Air          \* BOUND: notifications in flight

ASSUME SessionAssumption ==
    {InitLen, PidCount, BufferMax, MaxSent, Air} \subseteq Nat \ {0}

VARIABLES
    main,      \* the run context's thread
    poll,      \* the polling thread
    queue,     \* the Bluetooth queue: what it is doing with which notification
    session,   \* Elm327Session's fields
    device,    \* BLEManagerBase: connected flag and the data callback
    adapter,   \* the adapter: commands it was sent, notifications, link
    count,     \* commands sent by prompt, prompts of the adapter, waits that timed out
    stopToken  \* the StopToken: set by the signal handler

\* The names of the specification carry a prefix, as TransportProofs extends TCPTransport too.
elmVars == <<main, poll, queue, session, device, adapter, count, stopToken>>

Answers == {"data", "banner", "vin", "more", "error", "info", "frame", "half"}
Token == Answers \cup {">"}
Commands == {"at", "atz", "pid", "vin", "atma"}
Protocols == {"CAN", "OBD2"}

-----------------------------------------------------------------------------
(* The parser: what a notification is worth.                                *)

\* The part before the first prompt.
extractPrompt(note) ==
    LET at == SelectInSeq(note, LAMBDA t : t = ">")
    IN IF at = 0 THEN note ELSE SubSeq(note, 1, at - 1)

\* The part after the first banner SEARCHING, BUSINIT or OK.
stripInfoPrefixes(note) ==
    LET at == SelectInSeq(note, LAMBDA t : t = "info")
    IN SubSeq(note, at + 1, Len(note))

\* Every pair of hex digits is data, those of the version banner and of a piece
\* of a frame included; a whole frame has an odd number of digits and an error
\* message makes the response invalid.
parseOBD2Response(note) ==
    LET cleaned == stripInfoPrefixes(extractPrompt(note))
    IN IF ToSet(cleaned) \cap {"error", "frame"} # {} THEN <<>> ELSE cleaned

\* A line of an identifier and eight bytes, and nothing else.
parseCANFrame(note) ==
    IF SelectSeq(note, LAMBDA t : t # ">") = <<"frame">> THEN <<"frame">> ELSE <<>>

\* What parses, as a frame to VehicleDetector: a line of a VIN has eight bytes, so an answer
\* that came with more of them is too long to be read.
AsFrame(data) ==
    IF Head(data) = "vin"
    THEN Reply(8 * Len(data), VinHead, 1, <<"I", ".", ".", "W", "A", "U">>)
    ELSE IF data = <<"frame">> THEN CanFrame(280) ELSE Reply(3, 3393, 0, <<"A", ".">>)

observesVin(data) == data # <<>> /\ observeFrame(NewDetector, AsFrame(data)).vin # <<>>

-----------------------------------------------------------------------------
(* Sending, and the prompt.                                                 *)

NewSession == [canMode |-> FALSE, polling |-> FALSE, ready |-> FALSE,
               buffer |-> <<>>, vin |-> FALSE]
NewCount == [sent |-> 0, prompts |-> 0, timeouts |-> 0]

\* sendASCII: a write that reaches the adapter, or one on a dead link.
send(c) ==
    adapter' = IF adapter.up /\ Len(adapter.commands) < MaxSent
                 THEN [adapter EXCEPT !.commands = Append(@, c)] ELSE adapter

\* A command that is paced by the prompt.
sendPaced(c) ==
    IF count.sent < MaxSent
      THEN /\ send(c)
           /\ count' = [count EXCEPT !.sent = @ + 1]
      ELSE UNCHANGED <<adapter, count>>

\* waitForPrompt: the flag is cleared after the command was sent, then the
\* thread waits for it or for the deadline.
clearNothing == UNCHANGED session  \* fault: a prompt of an earlier command counts
clearPrompt == session' = [session EXCEPT !.ready = FALSE]
timedOut ==
    /\ ~session.ready
    /\ count' = [count EXCEPT !.timeouts = IF @ < MaxSent THEN @ + 1 ELSE @]
promptOrDeadline == (session.ready /\ UNCHANGED count) \/ timedOut

\* The scan for the prompt across notifications: through the first '>' only.
scanned(note) ==
    LET all == session.buffer \o note
        at  == SelectInSeq(all, LAMBDA t : t = ">")
        rest == SubSeq(all, at + 1, Len(all))
    IN [session EXCEPT
          !.ready = @ \/ at # 0,
          !.buffer = IF Len(rest) > BufferMax
                       THEN SubSeq(rest, Len(rest) - BufferMax + 1, Len(rest)) ELSE rest]

-----------------------------------------------------------------------------
(* The run context's thread.                                                *)

Goto(pc) == main' = [main EXCEPT !.pc = pc]

Idle == [pc |-> "none", pid |-> 0]
Quiet == [pc |-> "idle", note |-> <<>>]

\* BLERunContext::run: a given vehicle type has a protocol, "auto" asks the car.
ElmInit ==
    /\ main \in [pc : {"start"}, phase : {"detect", "run"}, protocol : Protocols, next : {1}]
    /\ poll = Idle
    /\ queue = Quiet
    /\ session = NewSession
    /\ device = [connected |-> FALSE, ready |-> FALSE, hooked |-> FALSE]
    /\ adapter = [up |-> FALSE, commands |-> <<>>, notes |-> <<>>, monitors |-> FALSE]
    /\ count = NewCount
    /\ stopToken = FALSE

\* BLEManager::connect: reports success once the attempt is under way; the
\* link itself may come up or not.
Connect ==
    /\ main.pc = "start"
    /\ \/ /\ Goto("chars")
          /\ device' = [device EXCEPT !.connected = TRUE]
          /\ \E up \in BOOLEAN : adapter' = [adapter EXCEPT !.up = up]
       \/ /\ Goto("done")                       \* unknown device, Bluetooth off
          /\ UNCHANGED <<device, adapter>>
    /\ UNCHANGED <<poll, queue, session, count, stopToken>>

\* onCharacteristicDiscovered, on the Bluetooth queue.
Discover ==
    /\ queue.pc = "idle" /\ adapter.up /\ ~device.ready /\ device.connected
    /\ device' = [device EXCEPT !.ready = TRUE]
    /\ UNCHANGED <<main, poll, queue, session, adapter, count, stopToken>>

\* waitForCharacteristics; BLEConnectionManager::connect gives up without
\* disconnecting, its own flag is not set yet.  initializeForVINQuery starts
\* by leaving CAN mode and resetting the detector.
AwaitCharacteristics ==
    /\ main.pc = "chars"
    /\ \/ /\ device.ready
          /\ main' = [main EXCEPT !.pc = "init", !.next = 1]
          /\ session' = IF main.phase = "detect"
                          THEN [session EXCEPT !.canMode = FALSE, !.vin = FALSE] ELSE session
       \/ /\ ~device.ready                      \* the deadline
          /\ Goto(IF main.phase = "detect" THEN "giveUp" ELSE "done")
          /\ UNCHANGED session
    /\ UNCHANGED <<poll, queue, device, adapter, count, stopToken>>

ByPrompt == main.phase = "detect" \/ main.protocol = "OBD2"
InitCommand == IF main.next = 1 THEN "atz"
               ELSE IF ~ByPrompt /\ main.next = InitLen THEN "atma" ELSE "at"

\* One command of initializeELM327 or initializeForVINQuery.
SendInit ==
    /\ main.pc = "init" /\ ByPrompt /\ main.next <= InitLen
    /\ sendPaced(InitCommand)
    /\ Goto("wait")
    /\ UNCHANGED <<poll, queue, session, device, stopToken>>

\* One command of initializeCANMonitor, followed by a pause of fixed length;
\* CAN mode begins after the last.
SendMonitorInit ==
    /\ main.pc = "init" /\ ~ByPrompt /\ main.next <= InitLen
    /\ send(InitCommand)
    /\ main' = [main EXCEPT !.next = @ + 1]
    /\ UNCHANGED <<poll, queue, session, device, count, stopToken>>

InitDone ==
    /\ main.pc = "init" /\ main.next > InitLen
    /\ Goto(IF main.phase = "detect" THEN "query" ELSE "hook")
    /\ session' = IF ByPrompt THEN session ELSE [session EXCEPT !.canMode = TRUE]
    /\ UNCHANGED <<poll, queue, device, adapter, count, stopToken>>

\* queryVIN: the query.
QueryVin ==
    /\ main.pc = "query"
    /\ session' = [session EXCEPT !.canMode = FALSE]
    /\ sendPaced("vin")
    /\ Goto("wait")
    /\ UNCHANGED <<poll, queue, device, stopToken>>

\* waitForPrompt on this thread: after a command of the sequence, or the query.
EnterWait ==
    /\ main.pc = "wait"
    /\ clearPrompt
    /\ Goto("waiting")
    /\ UNCHANGED <<poll, queue, device, adapter, count, stopToken>>

LeaveWait ==
    /\ main.pc = "waiting"
    /\ promptOrDeadline
    /\ main' = IF main.next <= InitLen
                 THEN [main EXCEPT !.pc = "init", !.next = @ + 1]
                 ELSE [main EXCEPT !.pc = IF session.ready THEN "vin" ELSE "giveUp"]
    /\ UNCHANGED <<poll, queue, session, device, adapter, stopToken>>

\* queryVIN's answer is what the detector holds now.  A configuration that the
\* registry knows has a protocol and the program starts over with a manager of
\* its own for it.
ReadVin ==
    /\ main.pc = "vin"
    /\ IF session.vin
         THEN \/ \E p \in Protocols : main' = [main EXCEPT !.pc = "restart", !.protocol = p]
              \/ Goto("giveUp")
         ELSE Goto("giveUp")
    /\ UNCHANGED <<poll, queue, session, device, adapter, count, stopToken>>

\* bleManager->disconnect() of the detection, with a result or without.
EndDetection ==
    /\ main.pc \in {"giveUp", "restart"}
    /\ main' = [main EXCEPT !.pc = IF @ = "restart" THEN "start" ELSE "done",
                            !.phase = IF main.pc = "restart" THEN "run" ELSE @, !.next = 1]
    /\ queue' = Quiet /\ session' = NewSession /\ count' = NewCount
    /\ device' = [device EXCEPT !.connected = FALSE, !.ready = FALSE]
    /\ adapter' = [up |-> FALSE, commands |-> <<>>, notes |-> <<>>, monitors |-> FALSE]
    /\ UNCHANGED <<poll, stopToken>>

\* onDataReceived: the callback is assigned while the queue may be calling it.
Hook ==
    /\ main.pc = "hook"
    /\ Goto("hooking")
    /\ UNCHANGED <<poll, queue, session, device, adapter, count, stopToken>>

Hooked ==
    /\ main.pc = "hooking"
    /\ device' = [device EXCEPT !.hooked = TRUE]
    /\ Goto("poll")
    /\ UNCHANGED <<poll, queue, session, adapter, count, stopToken>>

\* startPolling: a thread, or CAN mode.
StartPolling ==
    /\ main.pc = "poll"
    /\ IF ByPrompt
         THEN /\ session' = [session EXCEPT !.polling = TRUE]
              /\ poll' = [poll EXCEPT !.pc = "setup"]
         ELSE /\ session' = [session EXCEPT !.canMode = TRUE]
              /\ UNCHANGED poll
    /\ Goto("health")
    /\ UNCHANGED <<queue, device, adapter, count, stopToken>>

\* The health loop ends with the link or with the StopToken.
LeaveHealth ==
    /\ main.pc = "health"
    /\ ~device.connected \/ stopToken
    /\ Goto("stop")
    /\ UNCHANGED <<poll, queue, session, device, adapter, count, stopToken>>

\* stopPolling: stopCANMonitor, or the flag of stopOBD2Polling.
StopPolling ==
    /\ main.pc = "stop"
    /\ IF ByPrompt
         THEN /\ session' = [session EXCEPT !.polling = FALSE]
              /\ Goto("wake")
              /\ UNCHANGED adapter
         ELSE /\ session' = [session EXCEPT !.canMode = FALSE]
              /\ send("atma")
              /\ Goto("disconnect")
    /\ UNCHANGED <<poll, queue, device, count, stopToken>>

\* stopOBD2Polling wakes the thread with a prompt nobody sent.
WakePoller ==
    /\ main.pc = "wake"
    /\ session' = [session EXCEPT !.ready = TRUE]
    /\ Goto("join")
    /\ UNCHANGED <<poll, queue, device, adapter, count, stopToken>>

Join ==
    /\ main.pc = "join" /\ poll.pc = "over"
    /\ poll' = Idle
    /\ Goto("disconnect")
    /\ UNCHANGED <<queue, session, device, adapter, count, stopToken>>

Disconnect ==
    /\ main.pc = "disconnect"
    /\ device' = [device EXCEPT !.connected = FALSE, !.ready = FALSE]
    /\ adapter' = [adapter EXCEPT !.up = FALSE, !.commands = <<>>]
    /\ Goto("done")
    /\ UNCHANGED <<poll, queue, session, count, stopToken>>

\* The program has ended.
Ended == main.pc = "done" /\ UNCHANGED elmVars

Main ==
    \/ Connect \/ AwaitCharacteristics \/ SendInit \/ SendMonitorInit \/ InitDone
    \/ QueryVin \/ EnterWait \/ LeaveWait \/ ReadVin \/ EndDetection \/ Hook \/ Hooked
    \/ StartPolling \/ LeaveHealth \/ StopPolling \/ WakePoller \/ Join \/ Disconnect

-----------------------------------------------------------------------------
(* The polling thread: obd2PollingLoop.                                     *)

PollGoto(pc, pid) == poll' = [pc |-> pc, pid |-> pid]
keepsOnConnected == device.connected      \* fault: the flag of stopOBD2Polling is not read
KeepsOn == session.polling /\ device.connected

\* The wait for the notifications to be set up, and the pause between cycles:
\* until polling ends, or the deadline.
PollPause ==
    /\ poll.pc \in {"setup", "pause"}
    /\ PollGoto(IF KeepsOn THEN "query" ELSE "over", 1)
    /\ UNCHANGED <<main, queue, session, device, adapter, count, stopToken>>

PollQuery ==
    /\ poll.pc = "query"
    /\ IF KeepsOn /\ poll.pid <= PidCount
         THEN /\ sendPaced("pid")
              /\ PollGoto("wait", poll.pid)
         ELSE /\ PollGoto("pause", 0)
              /\ UNCHANGED <<adapter, count>>
    /\ UNCHANGED <<main, queue, session, device, stopToken>>

PollEnterWait ==
    /\ poll.pc = "wait"
    /\ clearPrompt
    /\ PollGoto("waiting", poll.pid)
    /\ UNCHANGED <<main, queue, device, adapter, count, stopToken>>

PollLeaveWait ==
    /\ poll.pc = "waiting"
    /\ promptOrDeadline
    /\ PollGoto("query", poll.pid + 1)
    /\ UNCHANGED <<main, queue, session, device, adapter, stopToken>>

Poller == PollPause \/ PollQuery \/ PollEnterWait \/ PollLeaveWait

-----------------------------------------------------------------------------
(* The Bluetooth queue: one callback at a time.                             *)

\* handleIncomingData up to notifyPrompt.
ScanPrompt ==
    /\ queue.pc = "idle" /\ adapter.notes # <<>>
    /\ LET note == Head(adapter.notes)
       IN /\ queue' = [pc |-> "parse", note |-> note]
          /\ session' = IF session.canMode THEN session ELSE scanned(note)
    /\ adapter' = [adapter EXCEPT !.notes = Tail(@)]
    /\ UNCHANGED <<main, poll, device, count, stopToken>>

\* The rest: the mode is read again, and what parses is observed by the detector.
ParseAndObserve ==
    /\ queue.pc = "parse"
    /\ LET data == IF session.canMode THEN parseCANFrame(queue.note)
                   ELSE parseOBD2Response(queue.note)
       IN /\ queue' = IF data = <<>> THEN Quiet ELSE [pc |-> "deliver", note |-> data]
          /\ session' = [session EXCEPT !.vin = @ \/ observesVin(data)]
    /\ UNCHANGED <<main, poll, device, adapter, count, stopToken>>

\* invokeDataCallback.
Deliver ==
    /\ queue.pc = "deliver"
    /\ queue' = Quiet
    /\ UNCHANGED <<main, poll, session, device, adapter, count, stopToken>>

\* didDisconnectPeripheral, didFailToConnectPeripheral.
ReportLoss ==
    /\ queue.pc = "idle" /\ ~adapter.up /\ device.connected
    /\ device' = [device EXCEPT !.connected = FALSE]
    /\ UNCHANGED <<main, poll, queue, session, adapter, count, stopToken>>

BleQueue == ScanPrompt \/ ParseAndObserve \/ Deliver \/ ReportLoss

-----------------------------------------------------------------------------
(* The adapter, the link and the user.                                      *)

AnswerTo(c) ==
    [ at   |-> {<<"info", ">">>},
      atz  |-> {<<"banner", ">">>},
      pid  |-> {<<"data", ">">>, <<"error", ">">>},
      vin  |-> {<<"vin", "more", ">">>, <<"vin", ">">>, <<"error", ">">>},
      atma |-> {<<>>} ][c]

\* An answer comes as one notification, or cut anywhere in two.
Cuts(answer) == {<<answer>>} \cup
    {<<SubSeq(answer, 1, i), SubSeq(answer, i + 1, Len(answer))>> : i \in 1..(Len(answer) - 1)}
PromptsOf(answer) == IF ToSet(answer) \cap {">"} = {} THEN 0 ELSE 1

Answer ==
    /\ adapter.up /\ adapter.commands # <<>>
    /\ \E answer \in AnswerTo(Head(adapter.commands)) : \E cut \in Cuts(answer) :
         /\ Len(adapter.notes) + Len(cut) <= Air
         /\ adapter' = [adapter EXCEPT
                !.commands = Tail(@),
                !.notes = IF answer = <<>> THEN @ ELSE @ \o cut,
                !.monitors = Head(adapter.commands) = "atma"]
         /\ count' = [count EXCEPT !.prompts = @ + PromptsOf(answer)]
    /\ UNCHANGED <<main, poll, queue, session, device, stopToken>>

\* A command of a busy adapter gets no answer.
Ignore ==
    /\ adapter.up /\ adapter.commands # <<>>
    /\ adapter' = [adapter EXCEPT !.commands = Tail(@)]
    /\ UNCHANGED <<main, poll, queue, session, device, count, stopToken>>

\* ATMA streams the frames of the bus, whole or in pieces.
Stream ==
    /\ adapter.up /\ adapter.monitors /\ adapter.notes = <<>>
    /\ \E t \in {"frame", "half"} : adapter' = [adapter EXCEPT !.notes = <<<<t>>>>]
    /\ UNCHANGED <<main, poll, queue, session, device, count, stopToken>>

LoseLink ==
    /\ adapter.up
    /\ adapter' = [up |-> FALSE, commands |-> <<>>, notes |-> <<>>, monitors |-> FALSE]
    /\ UNCHANGED <<main, poll, queue, session, device, count, stopToken>>

\* SIGINT or SIGTERM: vehicle_sim_onStopSignal.
Interrupt ==
    /\ ~stopToken
    /\ stopToken' = TRUE
    /\ UNCHANGED <<main, poll, queue, session, device, adapter, count>>

Environment == Discover \/ Answer \/ Ignore \/ Stream \/ LoseLink \/ Interrupt

ElmNext == Main \/ Poller \/ BleQueue \/ Environment \/ Ended

\* The threads are scheduled, deadlines pass and CoreBluetooth reports what it
\* knows; the adapter and the user owe nothing.
Fairness == WF_elmVars(Main) /\ WF_elmVars(Poller) /\ WF_elmVars(BleQueue)

ElmSpec == ElmInit /\ [][ElmNext]_elmVars /\ Fairness

-----------------------------------------------------------------------------
\* Every variable has its type.
ElmTypeOK ==
    /\ main \in [pc : {"start", "chars", "init", "wait", "waiting", "query", "vin", "giveUp",
                       "restart", "hook", "hooking", "poll", "health", "stop", "wake", "join",
                       "disconnect", "done"},
                 phase : {"detect", "run"}, protocol : Protocols, next : 1..InitLen + 1]
    /\ poll \in [pc : {"none", "setup", "query", "wait", "waiting", "pause", "over"},
                 pid : 0..PidCount + 1]
    /\ queue.pc \in {"idle", "parse", "deliver"} /\ queue.note \in Seq(Token)
    /\ session.buffer \in Seq(Token) /\ Len(session.buffer) <= BufferMax
    /\ {session.canMode, session.polling, session.ready, session.vin} \subseteq BOOLEAN
    /\ device \in [connected : BOOLEAN, ready : BOOLEAN, hooked : BOOLEAN]
    /\ adapter.commands \in Seq(Commands)
    /\ count \in [sent : 0..MaxSent, prompts : Nat, timeouts : 0..MaxSent]
    /\ stopToken \in BOOLEAN

\* The commands are paced: one more is sent only after a prompt of the adapter
\* or a deadline for each of those before it (waitForPrompt).
Paced == count.sent <= count.prompts + count.timeouts + 1

\* Two threads never wait for the same prompt: the polling thread lives only
\* between startOBD2Polling and the join.
OneWaiter == poll.pc # "none" => main.pc \in {"health", "stop", "wake", "join"}

\* The adapter is driven one command at a time, by one thread, and the buffer
\* of the prompt scan stays within its limit.
SessionSafe == ElmTypeOK /\ Paced /\ OneWaiter

\* Once the link is gone or the user has asked for it, the program ends, whatever
\* prompts are lost on the way (waitForPrompt clears the flag after the send, and
\* over the wake-up of stopOBD2Polling).
RunEnds == (stopToken \/ (main.pc = "health" /\ ~adapter.up)) ~> (main.pc = "done")

\* "Thread-safe" (CallbackHub): the callback is not assigned while it is called.
CallbackThreadSafe == ~(main.pc = "hooking" /\ queue.pc = "deliver")

=============================================================================
