----------------------------- MODULE SpanTimes -----------------------------
(***************************************************************************)
(* Where the spans of a statement begin and end.  Only the moments a       *)
(* statement began and ended are read from the clock, which may be set     *)
(* back in between; the rest is reckoned backwards from the end with the   *)
(* durations the executor accumulated.  Times are nanoseconds.             *)
(***************************************************************************)
EXTENDS Integers

\* secondsToNanos, on a duration that is already in nanoseconds
SecondsToNanos(duration) == IF duration <= 0 THEN 0 ELSE duration

\* emitSuccessfulQuerySpan
QueryStartNs(hasPlannerState, startTime, end, total) ==
    LET duration == SecondsToNanos(total) IN
    IF ~hasPlannerState /\ duration > 0 /\ end >= duration
    THEN end - duration ELSE startTime

\* Slip: a node's own total is believed.
UnclippedStartNs(queryStart, queryEnd, total) ==
    LET duration == SecondsToNanos(total) IN
    IF queryEnd < duration THEN queryEnd ELSE queryEnd - duration

\* planNodeStartNs, for plan nodes and for the workers that ran them
PlanNodeStartNs(queryStart, queryEnd, total) ==
    LET duration == SecondsToNanos(total) IN
    CASE duration = 0 \/ queryEnd < duration -> queryEnd
      [] queryEnd >= duration /\ queryEnd - duration < queryStart -> queryStart
      [] OTHER -> queryEnd - duration
=============================================================================
