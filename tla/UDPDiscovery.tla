---------------------------- MODULE UDPDiscovery ----------------------------
(***************************************************************************)
(* The host's side of discovery: a socket that queues what is broadcast on *)
(* its port, and poll(), which waits in windows of 100 ms until a device   *)
(* is heard, the time is up or a stop is asked for.  A packet is the       *)
(* address it came from and whether parse() accepts it (its length, magic, *)
(* version and type, and a CAN port that is not zero).                     *)
(***************************************************************************)
EXTENDS Naturals, SequencesExt

CONSTANTS Addresses,   \* the addresses packets come from
          PollWindows, \* 100 ms windows in AUTO_DISCOVERY_TIMEOUT_S
          QueueMax     \* bound on the packets waiting in the socket

ASSUME DiscoveryAssumption == PollWindows \in Nat \ {0} /\ QueueMax \in Nat

Packets == [from : Addresses, parses : BOOLEAN]

\* poll() starts: nothing collected, the whole budget left.
NewPoll == [queue |-> <<>>, pending |-> <<>>, remaining |-> PollWindows, draining |-> FALSE]

FaultDrainClearsSocket(d) ==
    IF d.queue = <<>> THEN [d EXCEPT !.draining = FALSE]
    ELSE IF Head(d.queue).parses
         THEN [d EXCEPT !.pending = Append(@, Head(d.queue)), !.queue = Tail(@)]
         ELSE [d EXCEPT !.queue = <<>>, !.draining = FALSE]

\* tryReceive(): a packet that parses is pending; one that does not is gone and ends the drain,
\* as an empty socket does.
tryReceive(d) ==
    IF d.queue = <<>> THEN [d EXCEPT !.draining = FALSE]
    ELSE IF Head(d.queue).parses
         THEN [d EXCEPT !.pending = Append(@, Head(d.queue)), !.queue = Tail(@)]
         ELSE [d EXCEPT !.queue = Tail(@), !.draining = FALSE]

\* pollStepShouldContinue(): a window of waiting, and the drain of what came, packet by packet.
PollStep(d) ==
    IF d.draining THEN tryReceive(d)
    ELSE IF d.queue # <<>> THEN [d EXCEPT !.draining = TRUE]
    ELSE [d EXCEPT !.remaining = @ - 1]

\* poll() goes on while nothing is pending and there is time left; a drain is not cut short.
KeepGoing(d, stop) == d.draining \/ (~ stop /\ d.pending = <<>> /\ d.remaining > 0)

\* drainPendingDeduplicated(): each address once, in the order they were heard.
Added(result, p) ==
    IF p.from \in ToSet(result) THEN result ELSE Append(result, p.from)
Devices(d) ==
    LET upTo[n \in 0..Len(d.pending)] ==
            IF n = 0 THEN <<>> ELSE Added(upTo[n - 1], d.pending[n])
    IN  upTo[Len(d.pending)]
=============================================================================
