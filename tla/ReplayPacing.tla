---------------------------- MODULE ReplayPacing ----------------------------
(***************************************************************************)
(* The two schedules a replay keeps: PacedFrameScheduler with its policy   *)
(* ReplayPacing for raw captures, CsvReplayPacer for decoded ones.  Both   *)
(* anchor at the first row they emit and give every later row a deadline   *)
(* of its own, so that what one row costs is not owed by the next.         *)
(***************************************************************************)
EXTENDS Integers

\* A schedule: has it seen a frame, has it emitted one, and its two origins.
NewSchedule(now) ==
    [ baselineSet |-> FALSE, emittedAny |-> FALSE, recordingBaseline |-> 0,
      pacingBaseline |-> 0, start |-> now, rowsPaced |-> 0 ]

\* ReplayPacing::isFrameBlank(): no timestamp and no data.
isFrameBlank(f) == f.kind = "blank"

FaultAbsoluteWindow(f, s, skipMs) == f.ts < skipMs

\* A frame from before the first one wraps around and is past every threshold.
BeforeWindow(f, s, skipMs) ==
    f.ts >= s.recordingBaseline /\ f.ts - s.recordingBaseline < skipMs

\* How long the frame is still to wait; nothing when it is due or overdue.
Remaining(scheduled, elapsed) ==
    IF scheduled - elapsed > 0 THEN scheduled - elapsed ELSE 0

\* The schedule once frame f has anchored its recording origin.
Anchored(s, f) ==
    IF s.baselineSet THEN s
    ELSE [s EXCEPT !.baselineSet = TRUE, !.recordingBaseline = f.ts, !.pacingBaseline = f.ts]

FaultAnchorAtFirstFrame(s, f, skipMs, now) ==
    LET anchored == Anchored(s, f)
        skip     == isFrameBlank(f) \/ BeforeWindow(f, anchored, skipMs)
    IN  [ skip |-> skip, next |-> IF isFrameBlank(f) THEN s ELSE anchored,
          wait |-> IF skip THEN 0
                   ELSE Remaining(f.ts - anchored.recordingBaseline, now - anchored.start) ]

\* PacedFrameScheduler::consider(): skip the frame, or emit it after a wait.
Consider(s, f, skipMs, now) ==
    LET anchored == Anchored(s, f)
    IN  IF isFrameBlank(f) THEN [skip |-> TRUE, wait |-> 0, next |-> s]
        ELSE IF BeforeWindow(f, anchored, skipMs)
             THEN [skip |-> TRUE, wait |-> 0, next |-> anchored]
        ELSE IF ~ s.emittedAny
             THEN [ skip |-> FALSE, wait |-> 0,
                    next |-> [anchored EXCEPT !.pacingBaseline = f.ts, !.start = now,
                                              !.emittedAny = TRUE] ]
        ELSE [ skip |-> FALSE, next |-> anchored,
               wait |-> Remaining(f.ts - anchored.pacingBaseline, now - anchored.start) ]

\* CsvReplayPacer::paceRow(): on the grid of -i, or by the recorded timestamps.
PaceRow(s, f, intervalMs, now) ==
    IF ~ s.emittedAny
    THEN [ skip |-> FALSE, wait |-> 0,
           next |-> [s EXCEPT !.emittedAny = TRUE, !.pacingBaseline = f.ts, !.start = now,
                              !.rowsPaced = 1] ]
    ELSE [ skip |-> FALSE,
           next |-> [s EXCEPT !.rowsPaced = @ + 1],
           wait |-> Remaining(IF intervalMs > 0 THEN s.rowsPaced * intervalMs
                              ELSE f.ts - s.pacingBaseline, now - s.start) ]
=============================================================================
