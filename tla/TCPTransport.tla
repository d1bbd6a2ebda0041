---------------------------- MODULE TCPTransport ----------------------------
(***************************************************************************)
(* The host's TCP transport (src/pipeline/TCPTransport.cpp, with           *)
(* TcpReader.cpp): open() retries the first connect, nextLine() reads      *)
(* lines, and a lost connection starts the hunt: the reading thread retries *)
(* the old address while a discovery thread listens for the device's       *)
(* broadcasts at a new one.                                                *)
(*                                                                         *)
(* The reading thread is a program counter (pc) that stops wherever it     *)
(* blocks or another thread or host can be seen by it.  Devices keep one   *)
(* identity, the first 8 hex digits of the id, which is what the match     *)
(* compares.  Only the order of events counts, not how long a wait lasts.  *)
(***************************************************************************)
EXTENDS Naturals, Sequences, FiniteSetsExt

CONSTANTS
    Addrs,         \* addresses a device may have
    Devices,       \* devices on the network
    None,
    Home,          \* the endpoint's host
    FirstBudget,   \* bound: attempts CONNECT_FIRST_BUDGET_MS has room for
    RapidRetries,  \* RAPID_RETRIES
    MaxRetries,    \* MAX_RETRIES
    MaxPending     \* MAX_PENDING_LEN, in chunks

ASSUME NetAssumption ==
    /\ Home \in Addrs
    /\ None \notin Addrs \union Devices

ASSUME BudgetAssumption ==
    {FirstBudget, RapidRetries, MaxRetries, MaxPending} \subseteq Nat \ {0}

VARIABLES
    \* TCPTransport and TcpReader
    opened, connected, exhausted,   \* opened_, connected_, exhausted_
    host,          \* host_
    deviceId,      \* deviceIdHex_, None while empty
    retryCount,    \* retryCount_
    pending,       \* pending_: the chunks in it, each with the link it came by
    stop,          \* the shared StopToken
    \* the reading thread
    pc,            \* where it is
    from,          \* which caller connectAndAuth() returns to
    attempt,       \* attempts made by connectUntilUp or rapidReconnect
    reconnected,   \* enterHuntingState's reconnected
    ret,           \* what the last open() or nextLine() returned
    \* the discovery thread and what it shares with the reading thread
    disc,          \* where the discovery thread is
    found,         \* discoveryFound
    foundIp,       \* discoveredIp
    shouldStop,    \* shouldStopDiscovery
    \* outside
    at,            \* which device has each address
    remote, peer,  \* address and device at the other end of the socket
    wire,          \* what select() and recv() would report on the socket
    \* history
    link,          \* tells a connection from the one before
    hunted,        \* the device the transport was connected to at hunt start
    foundDev       \* the device discovery matched

flagVars == <<opened, connected, exhausted>>
callVars == <<from, attempt, reconnected, ret>>
discVars == <<disc, found, foundIp, shouldStop, foundDev>>
sockVars == <<remote, peer, wire, link>>
vars == <<flagVars, host, deviceId, retryCount, pending, stop, pc, callVars,
          discVars, at, sockVars, hunted>>

-----------------------------------------------------------------------------
(* TcpReader: the pending buffer *)

\* A chunk of received bytes; ends: it holds the end of a line.
Chunk == [link : BOOLEAN, ends : BOOLEAN]

LineEnds(p) == {i \in 1..Len(p) : p[i].ends}

\* takeBufferedLine: erase up to the first end of line.
AfterLine(p) == SubSeq(p, Min(LineEnds(p)) + 1, Len(p))

\* Fault: the cap is not enforced.
ReceivedUncapped(p, chunk) == Append(p, chunk)

\* readSocketIntoPending: append, and drop everything above the cap.
Received(p, chunk) == IF Len(p) = MaxPending THEN <<>> ELSE Append(p, chunk)

-----------------------------------------------------------------------------
(* connectAndAuth *)

CloseConnection ==
    /\ connected' = FALSE
    /\ remote' = None /\ peer' = None /\ wire' = "down"

\* Fault: a reconnect keeps what the last connection left over.
DialWithLeftovers(caller, h) ==
    /\ CloseConnection
    /\ pc' = "dial"
    /\ from' = caller
    /\ host' = h
    /\ UNCHANGED <<pending, link>>

\* closeConnection, clearPending, and the start of socket_->connect.
Dial(caller, h) ==
    /\ CloseConnection
    /\ pending' = <<>>
    /\ pc' = "dial"
    /\ from' = caller
    /\ host' = h
    /\ UNCHANGED link

Return(value) == pc' = "idle" /\ ret' = value

\* finalizeHunt failed: handleReadFailure gives up.
GiveUp == exhausted' = TRUE /\ Return("end")

\* connectAndAuth returned false: on with its caller.
ConnectFailed ==
    \/ /\ from = "first"
       /\ pc' = "first"
       /\ attempt' = attempt + 1
       /\ UNCHANGED <<exhausted, retryCount, ret>>
    \/ /\ from = "rapid"
       /\ pc' = "rapid"
       /\ attempt' = attempt + 1
       /\ UNCHANGED <<exhausted, retryCount, ret>>
    \/ /\ from = "backoff"
       /\ pc' = "loop"
       /\ retryCount' = retryCount + 1
       /\ UNCHANGED <<exhausted, attempt, ret>>
    \/ /\ from = "switch"
       /\ GiveUp
       /\ UNCHANGED <<attempt, retryCount>>

DialFails ==
    /\ pc = "dial"
    /\ ConnectFailed
    /\ UNCHANGED <<opened, connected, host, deviceId, pending, stop, from,
                   reconnected, discVars, at, sockVars, hunted>>

\* The connection is up; AUTH, ELM327 init and HELO are next.
DialConnects ==
    /\ pc = "dial"
    /\ at[host] # None
    /\ connected' = TRUE
    /\ remote' = host
    /\ peer' = at[host]
    /\ wire' = "quiet"
    /\ link' = ~link
    /\ pc' = "shake"
    /\ UNCHANGED <<opened, exhausted, host, deviceId, retryCount, pending, stop,
                   callVars, discVars, at, hunted>>

\* readLineSkippingFrames: the device streams already, and what it sends are frames
\* or other lines that are no ACK.  Each recv() is bounded, the loop is not, and it
\* asks neither for a stop nor whether discovery has found the device.
HandshakeSkips ==
    /\ pc = "shake"
    /\ wire = "data"
    /\ wire' \in {"quiet", "data"}
    /\ pending' \in {<<>>, <<[link |-> link, ends |-> FALSE]>>}
    /\ UNCHANGED <<flagVars, host, deviceId, retryCount, stop, pc, callVars,
                   discVars, at, remote, peer, link, hunted>>

\* A socket option, AUTH, the init sequence or HELO fails, or the peer is silent
\* for SO_RCVTIMEO: the socket is closed.
HandshakeFails ==
    /\ pc = "shake"
    /\ CloseConnection
    /\ ConnectFailed
    /\ pending' \in {<<>>, <<[link |-> link, ends |-> FALSE]>>}
    /\ UNCHANGED <<opened, host, deviceId, stop, from, reconnected, discVars, at,
                   link, hunted>>

\* HELO is acknowledged; frames read along with the ACK stay in the buffer.
HandshakeSucceeds ==
    /\ pc = "shake"
    /\ wire # "eof" /\ at[remote] = peer
    /\ pending' \in {<<>>} \union {<<[link |-> link, ends |-> e]>> : e \in BOOLEAN}
    /\ pc' = "tag"
    /\ UNCHANGED <<flagVars, host, deviceId, retryCount, stop, callVars, discVars,
                   at, sockVars, hunted>>

\* Fault: the hunt returns without joining the discovery thread.
ReturnWithoutJoin == pc' = "read" /\ shouldStop' = TRUE

\* shouldStopDiscovery is set; the join comes next.
StopDiscovery == pc' = "join" /\ shouldStop' = TRUE

\* connectAndAuth returned true: on with its caller.
ConnectSucceeded ==
    \/ /\ from = "first"
       /\ Return("opened")
       /\ UNCHANGED <<shouldStop, reconnected, retryCount>>
    \/ /\ from \in {"rapid", "backoff"}
       /\ reconnected' = TRUE
       /\ retryCount' = IF from = "rapid" THEN 0 ELSE retryCount + 1
       /\ StopDiscovery
       /\ UNCHANGED ret
    \/ /\ from = "switch"
       /\ pc' = "read"
       /\ retryCount' = 0
       /\ UNCHANGED <<shouldStop, reconnected, ret>>

\* Fault: the id of the first device is kept.
FirstIdKept == IF deviceId = None THEN peer ELSE deviceId

\* The id HELO was acknowledged with.
HandshakeId == peer

\* performHeloHandshake writes deviceIdHex_, unsynchronised with the discovery
\* thread, as its last failable step is behind it.
TagDevice ==
    /\ pc = "tag"
    /\ deviceId' = HandshakeId
    /\ ConnectSucceeded
    /\ UNCHANGED <<flagVars, host, pending, stop, from, attempt, disc, found,
                   foundIp, foundDev, at, sockVars, hunted>>

-----------------------------------------------------------------------------
(* open() *)

\* open() on a transport that is already open, or that could not be opened.
OpenAgain ==
    /\ pc = "idle"
    /\ opened
    /\ ret' = IF exhausted THEN "refused" ELSE "opened"
    /\ UNCHANGED <<flagVars, host, deviceId, retryCount, pending, stop, pc, from,
                   attempt, reconnected, discVars, at, sockVars, hunted>>

Open ==
    /\ pc = "idle"
    /\ ~opened
    /\ opened' = TRUE
    /\ retryCount' = 0
    /\ attempt' = 0
    /\ pc' = "first"
    /\ UNCHANGED <<connected, exhausted, host, deviceId, pending, stop, from,
                   reconnected, ret, discVars, at, sockVars, hunted>>

\* connectUntilUp: the budget is time, so it may be spent in fewer attempts.
ConnectUntilUp ==
    /\ pc = "first"
    /\ \/ /\ stop \/ attempt > 0
          /\ Return("refused")
          /\ UNCHANGED <<connected, host, pending, from, sockVars>>
       \/ /\ ~stop
          /\ attempt < FirstBudget
          /\ Dial("first", host)
          /\ UNCHANGED ret
    /\ UNCHANGED <<opened, exhausted, deviceId, retryCount, stop, attempt,
                   reconnected, discVars, at, hunted>>

-----------------------------------------------------------------------------
(* nextLine() and TcpReader::nextLine *)

\* Fault: exhausted_ is not asked.
CanReadIfConnected == opened /\ connected

canRead == opened /\ connected /\ ~exhausted

NextLine ==
    /\ pc = "idle"
    /\ \/ /\ ~canRead
          /\ Return("end")
          /\ UNCHANGED pending
       \/ /\ canRead /\ LineEnds(pending) # {}
          /\ Return("line")
          /\ pending' = AfterLine(pending)
       \/ /\ canRead /\ LineEnds(pending) = {}
          /\ pc' = "read"
          /\ UNCHANGED <<ret, pending>>
    /\ UNCHANGED <<flagVars, host, deviceId, retryCount, stop, from, attempt,
                   reconnected, discVars, at, sockVars, hunted>>

\* recv() has bytes: return the first line in the buffer, or poll again.
ReadChunk ==
    /\ pc = "read"
    /\ wire = "data"
    /\ wire' \in {"quiet", "data"}
    /\ \E chunk \in Chunk :
          /\ chunk.link = link
          /\ LET p == Received(pending, chunk)
             IN  IF LineEnds(p) # {}
                 THEN pending' = AfterLine(p) /\ Return("line")
                 ELSE pending' = p /\ UNCHANGED <<pc, ret>>
    /\ UNCHANGED <<flagVars, host, deviceId, retryCount, stop, from, attempt,
                   reconnected, discVars, at, remote, peer, link, hunted>>

\* select() fails for good, or reports nothing and a stop was requested.
ReadEnds ==
    /\ pc = "read"
    /\ exhausted' = TRUE
    /\ Return("end")
    /\ UNCHANGED <<opened, connected, host, deviceId, retryCount, pending, stop,
                   from, attempt, reconnected, discVars, at, sockVars, hunted>>

SelectError == ReadEnds

StopRequested == wire = "quiet" /\ stop /\ ReadEnds

\* handleReadFailure: recv() reported the end of the connection.
ReadFailure ==
    /\ pc = "read"
    /\ wire = "eof"
    /\ \/ /\ stop
          /\ exhausted' = TRUE
          /\ Return("end")
          /\ UNCHANGED <<connected, remote, peer, wire, retryCount, attempt,
                         reconnected, discVars, hunted>>
       \/ /\ ~stop
          /\ CloseConnection
          /\ disc' = "start"
          /\ found' = FALSE /\ foundIp' = None /\ shouldStop' = FALSE
          /\ reconnected' = FALSE
          /\ retryCount' = 0
          /\ attempt' = 0
          /\ pc' = "rapid"
          /\ hunted' = deviceId /\ foundDev' = None
          /\ UNCHANGED <<exhausted, ret>>
    /\ UNCHANGED <<opened, host, deviceId, pending, stop, from, at, link>>

-----------------------------------------------------------------------------
(* enterHuntingState, on the reading thread *)

HuntOver == found \/ stop

\* rapidReconnect, before each of its attempts.
RapidReconnect ==
    /\ pc = "rapid"
    /\ \/ /\ HuntOver \/ attempt = RapidRetries
          /\ pc' = "loop"
          /\ UNCHANGED <<connected, host, pending, from, sockVars>>
       \/ /\ ~HuntOver /\ attempt < RapidRetries
          /\ Dial("rapid", host)
    /\ UNCHANGED <<opened, exhausted, deviceId, retryCount, stop, attempt,
                   reconnected, ret, discVars, at, hunted>>

\* The head of the backoff loop.
RetryLoop ==
    /\ pc = "loop"
    /\ \/ /\ ~HuntOver /\ retryCount < MaxRetries
          /\ retryCount' = retryCount + 1
          /\ pc' = "backoff"
          /\ UNCHANGED shouldStop
       \/ /\ HuntOver \/ retryCount >= MaxRetries
          /\ StopDiscovery
          /\ UNCHANGED retryCount
    /\ UNCHANGED <<flagVars, host, deviceId, pending, stop, callVars, disc, found,
                   foundIp, foundDev, at, sockVars, hunted>>

\* backoffThenAttemptReconnect: a slice of the sleep sees the hunt is over, or
\* the sleep ends.  A stop during the last slice goes unseen.
BackoffThenAttemptReconnect ==
    /\ pc = "backoff"
    /\ \/ /\ HuntOver
          /\ retryCount' = retryCount + 1
          /\ StopDiscovery
          /\ UNCHANGED <<connected, host, pending, from, sockVars>>
       \/ /\ ~found
          /\ Dial("backoff", host)
          /\ UNCHANGED <<retryCount, shouldStop>>
    /\ UNCHANGED <<opened, exhausted, deviceId, stop, attempt, reconnected, ret,
                   disc, found, foundIp, foundDev, at, hunted>>

\* Fault: a discovered address is switched to whoever reconnected first.
SwitchIfFound == found

SwitchToDiscovered == ~reconnected /\ found

\* The join, and finalizeHunt.
FinalizeHunt ==
    /\ pc = "join"
    /\ disc = "done"
    /\ \/ /\ SwitchToDiscovered
          /\ Dial("switch", foundIp)
          /\ UNCHANGED <<exhausted, retryCount, ret>>
       \/ /\ reconnected /\ ~SwitchToDiscovered
          /\ retryCount' = 0
          /\ pc' = "read"
          /\ UNCHANGED <<connected, exhausted, host, pending, from, ret, sockVars>>
       \/ /\ ~reconnected /\ ~found
          /\ GiveUp
          /\ UNCHANGED <<connected, host, pending, retryCount, from, sockVars>>
    /\ UNCHANGED <<opened, deviceId, stop, attempt, reconnected, discVars, at,
                   hunted>>

-----------------------------------------------------------------------------
(* runDiscovery, on the discovery thread *)

mainVars == <<flagVars, host, deviceId, retryCount, pending, stop, pc, callVars,
              shouldStop, at, sockVars, hunted>>

\* hunter.start() may fail: the port cannot be bound.
DiscoveryStarts ==
    /\ disc = "start"
    /\ disc' \in {"guard", "done"}
    /\ UNCHANGED <<mainVars, found, foundIp, foundDev>>

\* Fault: discovery goes on until it has found the device.
GuardStopOnly == stop

EndDiscovery == shouldStop \/ stop

DiscoveryGuard ==
    /\ disc = "guard"
    /\ disc' = IF EndDiscovery THEN "done" ELSE "poll"
    /\ UNCHANGED <<mainVars, found, foundIp, foundDev>>

\* Whether d is the device last connected to.  While the reading thread writes
\* deviceIdHex_ the comparison may come out either way.
IdMatches(d) ==
    IF pc = "tag" THEN BOOLEAN ELSE {deviceId = None \/ deviceId = d}

\* isTargetDevice, of the device broadcasting from a.
isTargetDevice(a) == at[a] # None /\ a # host /\ TRUE \in IdMatches(at[a])

\* poll(): broadcasts of some devices are heard; the first target is taken.
DiscoveryPoll ==
    /\ disc = "poll"
    /\ \/ /\ disc' = "guard"
          /\ UNCHANGED <<found, foundIp, foundDev>>
       \/ \E a \in Addrs :
             /\ isTargetDevice(a)
             /\ found' = TRUE
             /\ foundIp' = a
             /\ foundDev' = at[a]
             /\ disc' = "done"
    /\ UNCHANGED mainVars

-----------------------------------------------------------------------------
(* The caller's stop request, devices and network *)

transportVars == <<flagVars, host, deviceId, retryCount, pending, pc, callVars,
                   discVars, link, hunted>>

RequestStop ==
    /\ ~stop
    /\ stop' = TRUE
    /\ UNCHANGED <<transportVars, at, remote, peer, wire>>

\* A device comes up at a free address, moves to it, or goes away.  What was
\* connected to it hears of that by PeerCloses, or never.
DeviceMoves ==
    /\ \E d \in Devices :
          LET off == [a \in Addrs |-> IF at[a] = d THEN None ELSE at[a]]
          IN  \/ at' = off
              \/ \E a \in Addrs : off[a] = None /\ at' = [off EXCEPT ![a] = d]
    /\ UNCHANGED <<transportVars, stop, remote, peer, wire>>

PeerSends ==
    /\ wire = "quiet"
    /\ at[remote] = peer
    /\ wire' = "data"
    /\ UNCHANGED <<transportVars, stop, at, remote, peer>>

PeerCloses ==
    /\ wire \in {"quiet", "data"}
    /\ wire' = "eof"
    /\ UNCHANGED <<transportVars, stop, at, remote, peer>>

-----------------------------------------------------------------------------
Init ==
    /\ opened = FALSE /\ connected = FALSE /\ exhausted = FALSE
    /\ host = Home /\ deviceId = None /\ retryCount = 0 /\ pending = <<>>
    /\ stop = FALSE
    /\ pc = "idle" /\ from = "first" /\ attempt = 0 /\ reconnected = FALSE
    /\ ret = "none"
    /\ disc = "done" /\ found = FALSE /\ foundIp = None /\ shouldStop = FALSE
    /\ at \in [Addrs -> Devices \union {None}]
    /\ \A a, b \in Addrs : at[a] = at[b] => a = b \/ at[a] = None
    /\ remote = None /\ peer = None /\ wire = "down"
    /\ link = FALSE /\ hunted = None /\ foundDev = None

Call == OpenAgain \/ Open \/ NextLine

ReadingThread ==
    \/ ConnectUntilUp \/ DialFails \/ DialConnects
    \/ HandshakeSkips \/ HandshakeFails \/ HandshakeSucceeds \/ TagDevice
    \/ ReadChunk \/ SelectError \/ StopRequested \/ ReadFailure
    \/ RapidReconnect \/ RetryLoop \/ BackoffThenAttemptReconnect \/ FinalizeHunt

DiscoveryThread == DiscoveryStarts \/ DiscoveryGuard \/ DiscoveryPoll

Network == DeviceMoves \/ PeerSends \/ PeerCloses

Next == Call \/ ReadingThread \/ DiscoveryThread \/ RequestStop \/ Network

\* select() has nothing to report and nobody asked to stop: poll again.
Polling == pc = "read" /\ wire = "quiet" /\ ~stop

\* Both threads are scheduled; select() owes a polling thread no error, and a
\* handshake whose peer keeps streaming is owed neither an ACK nor a failure.
Spec ==
    /\ Init /\ [][Next]_vars
    /\ WF_vars(ReadingThread /\ ~Polling)
    /\ WF_vars(DiscoveryThread)

-----------------------------------------------------------------------------
(* Properties *)

RapidHunt == {"rapid", "loop", "backoff", "join"}
Connecting == {"dial", "shake", "tag"}

\* The reading thread is in enterHuntingState before the join.
Hunting == pc \in RapidHunt \/ (pc \in Connecting /\ from \in {"rapid", "backoff"})

TypeOK ==
    /\ {opened, connected, exhausted, stop, reconnected, found, shouldStop, link}
         \subseteq BOOLEAN
    /\ host \in Addrs
    /\ {deviceId, peer, hunted, foundDev} \subseteq Devices \union {None}
    /\ {foundIp, remote} \subseteq Addrs \union {None}
    /\ retryCount \in 0..(MaxRetries + 1)
    /\ pending \in Seq(Chunk) /\ Len(pending) <= MaxPending
    /\ pc \in {"idle", "first", "read"} \union RapidHunt \union Connecting
    /\ from \in {"first", "rapid", "backoff", "switch"}
    /\ attempt \in Nat
    /\ ret \in {"none", "opened", "refused", "line", "end"}
    /\ disc \in {"start", "guard", "poll", "done"}
    /\ at \in [Addrs -> Devices \union {None}]
    /\ wire \in {"down", "quiet", "data", "eof"}

\* Whatever raced with the connects of a hunt, lines are read from the device the
\* id names, at the address host_ names, once its handshake is complete.
SessionNamesPeer ==
    pc \in {"idle", "read"} /\ connected =>
        remote = host /\ deviceId = peer /\ peer # None

\* Neither a handshake nor nextLine() ever parses what an earlier connection left
\* in the buffer they share (connectAndAuth: "a reconnect must never parse stale
\* line fragments").
NoStaleBytes ==
    connected => \A i \in 1..Len(pending) : pending[i].link = link

\* The discovery thread never outlives the hunt whose locals it refers to.
DiscoveryJoined == disc # "done" => Hunting

\* What a hunt leaves behind, by any of its ways out: a session with the device
\* the id names, and no thread (enterHuntingState).
HuntSafe == SessionNamesPeer /\ DiscoveryJoined

\* host_ moves only to an address from which the device the transport had been
\* connected to was heard, although the match reads the id while it is written.
SwitchOnlyToTarget ==
    [][host' # host => hunted # None /\ foundDev = hunted]_vars

\* An exhausted transport delivers no line and opens no connection again.
ExhaustedIsFinal ==
    [][exhausted => exhausted' /\ pc' = "idle"
                     /\ (ret' # ret => ret' \in {"end", "refused"})]_vars

\* A hunt ends: it reconnects, gives up or is stopped, and never waits for good on
\* its discovery thread.  The one thing it may be stuck in is a handshake with a
\* peer that streams for ever (readLineSkippingFrames).
HuntEnds ==
    Hunting ~> (~Hunting \/ [](pc = "shake" /\ <>(wire = "data")))

-----------------------------------------------------------------------------
(* What the repository says of this component, and the code does not do *)

\* rapidReconnect: "a discovery win or requestStop aborts the rapid phase
\* immediately".  Not while a handshake skips the frames of a streaming peer.
InRapidPhase == pc = "rapid" \/ (pc \in Connecting /\ from = "rapid")

StopEndsRapid == InRapidPhase /\ (stop \/ found) ~> ~InRapidPhase
=============================================================================
