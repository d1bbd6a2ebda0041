-------------------------- MODULE TcpServerManager --------------------------
(***************************************************************************)
(* The TCP side of the firmware's loop() (can-bridge.ino): TcpServerManager *)
(* accepts, greets, serves and drops the one client, restartTcpServer-     *)
(* IfNeeded re-binds the listening socket, CanBridge streams CAN frames.   *)
(*                                                                         *)
(* A connection has two handles on the device: the one the manager adopted *)
(* (current_) and the .ino's global client() that the frames and the AT    *)
(* replies are written to.  Both are WiFiClient copies of one socket:      *)
(* stop() on a copy releases that copy, and the socket is closed when no   *)
(* copy is left.  A host that vanished without closing is one that stays   *)
(* "open" and sends nothing more.                                          *)
(***************************************************************************)
EXTENDS Naturals, Sequences, FiniteSetsExt, SequencesExt

CONSTANTS
    Conns,        \* connections a host may open, each reused once released
    None,
    Lines,        \* what hosts send: AUTH is the valid auth line
    SerialLines,  \* AT commands typed at the serial console
    Rebinds,      \* the WiFi manager may decide to re-bind the socket
    MaxRx,        \* bound: fragments in flight on a connection
    MaxDrain,     \* kMaxDrain of readAvailableLine, in fragments
    MaxBacklog    \* bound: connections waiting to be accepted

ASSUME ConnAssumption ==
    /\ None \notin Conns \union Lines \union SerialLines
    /\ Rebinds \in BOOLEAN
    /\ {MaxRx, MaxDrain, MaxBacklog} \subseteq Nat \ {0}
    /\ Lines \union SerialLines
         \subseteq {"AUTH", "PING", "ATI", "ATMA", "ATPC", "ATREBOOT"}

VARIABLES
    phase,         \* which part of loop() runs next
    current,       \* TcpServerManager::current_
    clientIp,      \* TcpServerManager::clientIp_
    partialLine,   \* TcpServerManager::partialLine_
    mirror,        \* the .ino's client(): where frames and AT replies go
    monitor,       \* CanBridge::monitorActive_
    hubIp,         \* ObservabilityHub::clientIp_, the client= of [STATE]
    needsRestart,  \* WiFiManager's tcpServerNeedsRestart
    canPending,    \* the TWAI queue holds a frame
    backlog,       \* connections the listening socket has not handed out
    peer,          \* the host's end of each connection
    rx,            \* bytes received and not read, per connection
    half,          \* the line a host has sent only the head of
    out            \* what the last step wrote: <<connection, message>>

managerVars == <<current, clientIp, partialLine>>
hostVars    == <<peer, half>>
vars == <<phase, managerVars, mirror, monitor, hubIp, needsRestart, canPending,
          backlog, hostVars, rx, out>>

-----------------------------------------------------------------------------
(* Lines on the wire *)

\* A line arrives whole or as a head and, later, a tail; whole and tail carry
\* the delimiter.
Fragment == [from : Conns, line : Lines, part : {"whole", "head", "tail"}]

Delims(s) == {i \in 1..Len(s) : s[i].part # "head"}

IsHeadOf(head, tail) == head = [tail EXCEPT !.part = "head"]

\* The command that ends at delimiter i of s: the line its fragments make up.
Garbled == "garbled"
CommandAt(s, i) ==
    LET lone == i = 1 \/ i - 1 \in Delims(s)
        pair == i > 1 /\ IsHeadOf(s[i - 1], s[i]) /\ (i = 2 \/ i - 2 \in Delims(s))
    IN  IF (s[i].part = "whole" /\ lone) \/ (s[i].part = "tail" /\ pair)
        THEN s[i].line ELSE Garbled

\* readStringUntil('\r'): up to the first delimiter, or what there is at timeout.
LineEnd(s) == IF Delims(s) = {} THEN Len(s) ELSE Min(Delims(s))

isValidAuthToken(s) ==
    /\ Delims(s) # {}
    /\ CommandAt(s, LineEnd(s)) = "AUTH"

\* Fault: of coalesced commands, only the first is dispatched.
DispatchedFirst(s) == {i \in Delims(s) : \A j \in Delims(s) : i <= j}

\* The commands cycle() dispatches from the assembled bytes: all complete ones,
\* unless one of them restarts the device.
Dispatched(s) ==
    {i \in Delims(s) : \A j \in Delims(s) : j < i => CommandAt(s, j) # "ATREBOOT"}

\* Fault: the last delimiter is not consumed.
UnterminatedWithDelimiter(s) == SubSeq(s, Max(Delims(s) \union {1}), Len(s))

\* What stays in partialLine_.
Unterminated(s) == SubSeq(s, Max(Delims(s) \union {0}) + 1, Len(s))

-----------------------------------------------------------------------------
(* Sockets *)

Held(c) == c \in {current, mirror} \union Range(backlog)

\* WiFiClient::connected(): buffered bytes count as connected.
Connected(c) == peer[c] = "open" \/ rx[c] # <<>>

Live(h) == h # None /\ Connected(h)

Write(h, messages) == ({h} \ {None}) \X messages

\* AtCommandDispatcher: ATMA starts the monitor, ATPC and ATZ pause it.
MonitorAfter(cmd) ==
    CASE cmd = "ATMA" -> TRUE
      [] cmd = "ATPC" -> FALSE
      [] OTHER -> monitor

Answer(cmd) == IF cmd \in {"AUTH", Garbled} THEN "?" ELSE cmd

\* ESP.restart(): every handle and flag is gone; hosts find out later.
Reboot ==
    /\ phase' = "serial"
    /\ current' = None /\ clientIp' = None /\ partialLine' = <<>>
    /\ mirror' = None /\ monitor' = FALSE /\ hubIp' = None
    /\ needsRestart' = FALSE /\ canPending' = FALSE
    /\ backlog' = <<>>
    /\ rx' = [c \in Conns |-> <<>>]
    /\ UNCHANGED hostVars

-----------------------------------------------------------------------------
(* loop(): serial commands and heartbeat *)

DrainSerial ==
    /\ phase = "serial"
    /\ \E cmd \in (SerialLines \ {"ATREBOOT"}) \union {None}, beat \in BOOLEAN :
          /\ monitor' = MonitorAfter(cmd)
          /\ out' = IF beat /\ Live(current) THEN Write(current, {"STATE"}) ELSE {}
    /\ phase' = "cycle"
    /\ UNCHANGED <<managerVars, mirror, hubIp, needsRestart, canPending, backlog,
                   hostVars, rx>>

SerialReboot ==
    /\ phase = "serial"
    /\ "ATREBOOT" \in SerialLines
    /\ Reboot
    /\ out' = {}

-----------------------------------------------------------------------------
(* loop(): TcpServerManager::cycle *)

\* Fault: the one slot is taken while its client is connected.
ArrivalWhenFree == backlog # <<>> /\ ~Live(current)

\* server_.accept() returned a connection.
Arrival == backlog # <<>>

\* Fault: the .ino's handle is only assigned when it is free.
AdoptWhenFree(c) == mirror' = IF Live(mirror) THEN mirror ELSE c

\* ArduinoTcpServer::accept assigns the .ino's handle before the manager's.
Adopt(c) == mirror' = c

\* A new connection replaces the client, whoever it is.
Accept ==
    /\ phase = "cycle"
    /\ Arrival
    /\ LET c == Head(backlog)
       IN  /\ current' = c
           /\ Adopt(c)
           /\ clientIp' = IF Connected(c) THEN c ELSE None
    /\ backlog' = Tail(backlog)
    /\ partialLine' = <<>>
    /\ monitor' = FALSE
    /\ phase' = "auth"
    /\ out' = {}
    /\ UNCHANGED <<hubIp, needsRestart, canPending, hostVars, rx>>

\* Fault: whatever is buffered is taken for the first line.
ReadAllBuffered == rx' = [rx EXCEPT ![current] = <<>>]

\* The blocking read of the first line: hosts and the radio go on meanwhile.
ReadFirstLine ==
    rx' = [rx EXCEPT ![current] = SubSeq(@, LineEnd(@) + 1, Len(@))]

Greet ==
    /\ phase = "auth"
    /\ isValidAuthToken(rx[current])
    /\ ReadFirstLine
    /\ monitor' = TRUE
    /\ hubIp' = clientIp
    /\ out' = Write(current, {"OK"})
    /\ phase' = "update"
    /\ UNCHANGED <<managerVars, mirror, needsRestart, canPending, backlog, hostVars>>

Reject ==
    /\ phase = "auth"
    /\ ~isValidAuthToken(rx[current])
    /\ ReadFirstLine
    /\ current' = None
    /\ clientIp' = None
    /\ out' = Write(current, {"ERROR"})
    /\ phase' = "update"
    /\ UNCHANGED <<partialLine, mirror, monitor, hubIp, needsRestart, canPending,
                   backlog, hostVars>>

\* The bytes one cycle has at hand: what was left over and what one
\* readAvailableLine drains.
Drained == Min({Len(rx[current]), MaxDrain})
Assembled == partialLine \o SubSeq(rx[current], 1, Drained)

RestartsDevice(s) == \E i \in Delims(s) : CommandAt(s, i) = "ATREBOOT"

\* Fault: a handle counts as a client (hasClient()).
HaveHandle == current # None

haveClient == Live(current)

Serving == phase = "cycle" /\ ~Arrival /\ haveClient

\* PONG is written to the manager's handle, AT replies to the .ino's.
Replies(s) ==
    LET cmds == {CommandAt(s, i) : i \in Dispatched(s)}
    IN  Write(current, cmds \intersect {"PING"})
          \union Write(mirror, {Answer(cmd) : cmd \in cmds \ {"PING"}})

ServeClient ==
    /\ Serving
    /\ ~RestartsDevice(Assembled)
    /\ partialLine' = Unterminated(Assembled)
    /\ rx' = [rx EXCEPT ![current] = SubSeq(@, Drained + 1, Len(@))]
    /\ out' = Replies(Assembled)
    /\ LET toggles == {i \in Dispatched(Assembled) :
                          CommandAt(Assembled, i) \in {"ATMA", "ATPC"}}
       IN  monitor' = IF toggles = {} THEN monitor
                      ELSE MonitorAfter(CommandAt(Assembled, Max(toggles)))
    /\ phase' = "update"
    /\ UNCHANGED <<current, clientIp, mirror, hubIp, needsRestart, canPending,
                   backlog, hostVars>>

ClientReboot ==
    /\ Serving
    /\ RestartsDevice(Assembled)
    /\ out' = Replies(Assembled)
    /\ Reboot

DropClient ==
    /\ phase = "cycle"
    /\ ~Arrival
    /\ current # None /\ ~haveClient
    /\ monitor' = FALSE
    /\ hubIp' = None
    /\ partialLine' = <<>>
    /\ current' = None
    /\ clientIp' = None
    /\ phase' = "update"
    /\ out' = {}
    /\ UNCHANGED <<mirror, needsRestart, canPending, backlog, hostVars, rx>>

NoClient ==
    /\ phase = "cycle"
    /\ ~Arrival /\ current = None
    /\ phase' = "update"
    /\ out' = {}
    /\ UNCHANGED <<managerVars, mirror, monitor, hubIp, needsRestart, canPending,
                   backlog, hostVars, rx>>

-----------------------------------------------------------------------------
(* loop(): WiFi update, re-bind, CAN frames *)

\* WiFiManager::update() may decide a re-bind (module WiFiManager has when).
WiFiUpdate ==
    /\ phase = "update"
    /\ needsRestart' \in {needsRestart, needsRestart \/ Rebinds}
    /\ phase' = "restart"
    /\ out' = {}
    /\ UNCHANGED <<managerVars, mirror, monitor, hubIp, canPending, backlog,
                   hostVars, rx>>

\* end() and begin() drop what was waiting; client().stop() releases the .ino's
\* handle when the manager holds a client.
restartTcpServerIfNeeded ==
    /\ phase = "restart"
    /\ needsRestart' = FALSE
    /\ IF needsRestart
       THEN /\ backlog' = <<>>
            /\ mirror' = IF current # None /\ Live(mirror) THEN None ELSE mirror
       ELSE UNCHANGED <<backlog, mirror>>
    /\ phase' = "frames"
    /\ out' = {}
    /\ UNCHANGED <<managerVars, monitor, hubIp, canPending, hostVars, rx>>

\* Fault: command bytes in the buffer hold the stream back.
FrameWhenQuiet == canPending /\ monitor /\ Live(mirror) /\ rx[mirror] = <<>>

FrameGoesOut == canPending /\ monitor /\ Live(mirror)

processFrames ==
    /\ phase = "frames"
    /\ canPending' = FALSE
    /\ out' = IF FrameGoesOut THEN Write(mirror, {"frame"}) ELSE {}
    /\ phase' = "serial"
    /\ UNCHANGED <<managerVars, mirror, monitor, hubIp, needsRestart, backlog,
                   hostVars, rx>>

LoopStep ==
    \/ DrainSerial \/ SerialReboot
    \/ Accept \/ Greet \/ Reject
    \/ ServeClient \/ ClientReboot \/ DropClient \/ NoClient
    \/ WiFiUpdate \/ restartTcpServerIfNeeded \/ processFrames

-----------------------------------------------------------------------------
(* Hosts, the radio and the CAN bus *)

deviceVars == <<phase, managerVars, mirror, monitor, hubIp>>

\* A STA_DISCONNECTED event: a link-level reason flags a re-bind, an auth
\* failure withdraws one.
WiFiEvent ==
    /\ Rebinds
    /\ needsRestart' \in BOOLEAN
    /\ out' = {}
    /\ UNCHANGED <<deviceVars, canPending, backlog, hostVars, rx>>

CanFrame ==
    /\ ~canPending
    /\ canPending' = TRUE
    /\ out' = {}
    /\ UNCHANGED <<deviceVars, needsRestart, backlog, hostVars, rx>>

Connect(c) ==
    /\ peer[c] = "closed"
    /\ ~Held(c)
    /\ Len(backlog) < MaxBacklog
    /\ peer' = [peer EXCEPT ![c] = "open"]
    /\ half' = [half EXCEPT ![c] = None]
    /\ rx' = [rx EXCEPT ![c] = <<>>]
    /\ backlog' = Append(backlog, c)
    /\ out' = {}
    /\ UNCHANGED <<deviceVars, needsRestart, canPending>>

Send(c) ==
    /\ peer[c] = "open"
    /\ Held(c)
    /\ Len(rx[c]) < MaxRx
    /\ \E f \in Fragment :
          /\ f.from = c
          /\ IF f.part = "tail" THEN half[c] = f.line ELSE half[c] = None
          /\ half' = [half EXCEPT ![c] = IF f.part = "head" THEN f.line ELSE None]
          /\ rx' = [rx EXCEPT ![c] = Append(@, f)]
    /\ out' = {}
    /\ UNCHANGED <<deviceVars, needsRestart, canPending, backlog, peer>>

\* A FIN leaves the received bytes readable, a reset discards them.
Close(c) ==
    /\ peer[c] = "open"
    /\ peer' = [peer EXCEPT ![c] = "closed"]
    /\ rx' \in {rx, [rx EXCEPT ![c] = <<>>]}
    /\ out' = {}
    /\ UNCHANGED <<deviceVars, needsRestart, canPending, backlog, half>>

Init ==
    /\ phase = "serial"
    /\ current = None /\ clientIp = None /\ partialLine = <<>>
    /\ mirror = None /\ monitor = FALSE /\ hubIp = None
    /\ needsRestart = FALSE /\ canPending = FALSE
    /\ backlog = <<>>
    /\ peer = [c \in Conns |-> "closed"]
    /\ rx = [c \in Conns |-> <<>>]
    /\ half = [c \in Conns |-> None]
    /\ out = {}

Next ==
    \/ LoopStep
    \/ WiFiEvent \/ CanFrame
    \/ \E c \in Conns : Connect(c) \/ Send(c) \/ Close(c)

\* loop() never stops, and the bus never falls silent for good.
Spec == Init /\ [][Next]_vars /\ WF_vars(LoopStep) /\ WF_vars(CanFrame)

-----------------------------------------------------------------------------
(* Properties *)

Messages == {"OK", "ERROR", "STATE", "frame", "?"} \union Lines

\* Types, with what partialLine_ may hold between cycles: at most the head of
\* one line (cycle consumes through the last delimiter).
TypeOK ==
    /\ phase \in {"serial", "cycle", "auth", "update", "restart", "frames"}
    /\ {current, clientIp, mirror, hubIp} \subseteq Conns \union {None}
    /\ partialLine \in {<<>>} \union {<<f>> : f \in {g \in Fragment : g.part = "head"}}
    /\ {monitor, needsRestart, canPending} \subseteq BOOLEAN
    /\ backlog \in BoundedSeq(Conns, MaxBacklog)
    /\ peer \in [Conns -> {"open", "closed"}]
    /\ \A c \in Conns : Len(rx[c]) <= MaxRx /\ Range(rx[c]) \subseteq Fragment
    /\ half \in [Conns -> Lines \union {None}]
    /\ out \subseteq Conns \X Messages

\* No command the manager will dispatch is pieced together from the bytes of two
\* lines or two clients ("no bytes leak between clients", partialLine_).
CommandsWhole ==
    current # None /\ phase # "auth" =>
        LET s == partialLine \o rx[current]
        IN  \A i \in Delims(s) : CommandAt(s, i) # Garbled

\* While the manager serves a client, what loop() writes through the .ino's handle
\* reaches that client or nobody, whoever was replaced, rejected or re-bound before
\* (ArduinoTcpServer: "one underlying socket, one truth").
NoCrossTalk == current # None => mirror \in {current, None}

\* Always-allow-connect: a connection the listening socket holds is taken out of
\* the queue, whatever the adopted client does (cycle probes accept() every tick).
QueueServed == \A c \in Conns : c \in Range(backlog) ~> c \notin Range(backlog)

\* A closed client is let go of, also while other hosts come and go (branch 3 of
\* cycle).
DropNoticed ==
    \A c \in Conns : current = c /\ ~Connected(c) ~> current # c

\* Every complete command cycle() consumes is answered in that cycle, also when
\* several arrive in one read ("Dispatch each").
CompleteCommands ==
    LET s == partialLine \o rx[current]
    IN  {CommandAt(s, i) : i \in Delims(s)}

NothingSwallowed ==
    [][phase = "cycle" /\ phase' = "update" /\ current # None /\ current' = current
        => \A cmd \in CompleteCommands \ CompleteCommands' :
              IF cmd = "PING" THEN <<current, "PING">> \in out'
              ELSE mirror # None => <<mirror, Answer(cmd)>> \in out']_vars

\* Stream-on-connect: a client that stays adopted and connected with the monitor
\* active, and that both handles agree on, keeps receiving frames.
Streams ==
    \A c \in Conns :
        <>[](current = c /\ mirror = c /\ Connected(c) /\ monitor)
            => []<>(<<c, "frame">> \in out)

\* The same of every client the manager keeps: a re-bind "cannot drop a socket the
\* manager still holds" (can-bridge.ino:754).
StreamsThroughRebinds ==
    \A c \in Conns :
        <>[](current = c /\ Connected(c) /\ monitor) => []<>(<<c, "frame">> \in out)

=============================================================================
