----------------------------- MODULE SpanQueue -----------------------------
(***************************************************************************)
(* What the shared span queue of pg_eatrace promises to its callers: one   *)
(* bounded first-in first-out queue shared by every backend and by the     *)
(* export worker, each call a single indivisible step.  A span offered to  *)
(* a full queue is dropped and counted; nothing already accepted is ever   *)
(* overwritten.  SpanRing is the detailed specification of the code and    *)
(* is checked to implement this one.                                       *)
(***************************************************************************)
EXTENDS Naturals, Sequences

CONSTANTS
    Span,       \* the spans backends may offer
    Capacity    \* pg_eatrace.max_spans

VARIABLES
    queue,               \* accepted spans, oldest first
    inFlight,            \* the batch the export worker took and has not accounted for
    droppedCount,        \* spans refused because the queue was full
    dequeuedCount,       \* spans handed to the export worker
    exportedCount,       \* spans the collector accepted
    exportFailureCount   \* export requests that failed

queueVars == <<queue, inFlight, droppedCount, dequeuedCount, exportedCount,
               exportFailureCount>>

Init ==
    /\ queue = <<>> /\ inFlight = <<>>
    /\ droppedCount = 0 /\ dequeuedCount = 0
    /\ exportedCount = 0 /\ exportFailureCount = 0

\* enqueueSpan with room: the span joins the tail.
Accept(s) ==
    /\ Len(queue) < Capacity
    /\ queue' = Append(queue, s)
    /\ UNCHANGED <<inFlight, droppedCount, dequeuedCount, exportedCount,
                   exportFailureCount>>

\* enqueueSpan on a full queue: the new span is the one that is lost.
DropNewest ==
    /\ Len(queue) = Capacity
    /\ droppedCount' = droppedCount + 1
    /\ UNCHANGED <<queue, inFlight, dequeuedCount, exportedCount,
                   exportFailureCount>>

\* dequeueSpanBatch(n): the n oldest spans, or all of them when fewer wait (so
\* that no n above Capacity needs to be considered).
DequeueBatch(n) ==
    LET k == IF n < Len(queue) THEN n ELSE Len(queue) IN
    /\ k > 0
    /\ inFlight' = SubSeq(queue, 1, k)
    /\ queue' = SubSeq(queue, k + 1, Len(queue))
    /\ dequeuedCount' = dequeuedCount + k
    /\ UNCHANGED <<droppedCount, exportedCount, exportFailureCount>>

\* recordExportSuccess: the whole batch counts as exported.
RecordSuccess ==
    /\ inFlight # <<>>
    /\ exportedCount' = exportedCount + Len(inFlight)
    /\ inFlight' = <<>>
    /\ UNCHANGED <<queue, droppedCount, dequeuedCount, exportFailureCount>>

\* recordExportFailure: the whole batch is gone, one failure is counted.
RecordFailure ==
    /\ inFlight # <<>>
    /\ exportFailureCount' = exportFailureCount + 1
    /\ inFlight' = <<>>
    /\ UNCHANGED <<queue, droppedCount, dequeuedCount, exportedCount>>

\* The batch is written to the server log, or dies with the worker.
Discard ==
    /\ inFlight # <<>>
    /\ inFlight' = <<>>
    /\ UNCHANGED <<queue, droppedCount, dequeuedCount, exportedCount,
                   exportFailureCount>>

\* The postmaster rebuilds shared memory after a process crashed.
Reinitialise ==
    /\ queue' = <<>> /\ inFlight' = <<>>
    /\ droppedCount' = 0 /\ dequeuedCount' = 0
    /\ exportedCount' = 0 /\ exportFailureCount' = 0

Next ==
    \/ \E s \in Span : Accept(s)
    \/ DropNewest
    \/ \E n \in 1..Capacity : DequeueBatch(n)
    \/ RecordSuccess \/ RecordFailure \/ Discard
    \/ Reinitialise

Spec == Init /\ [][Next]_queueVars
=============================================================================
