---------------------------- MODULE SpanPipeline ----------------------------
(***************************************************************************)
(* The way of a statement's spans from the backend to the collector: the   *)
(* flush at the end of a traced statement (emitSuccessfulQuerySpan and     *)
(* emitFailedQuerySpan), the walk of the executed plan that hands a parent *)
(* down past the nodes without a span (enqueuePlanNodeSpans), the shared   *)
(* queue, and exportOneBatch of the export worker.  Spans are offered one  *)
(* by one while other backends offer theirs and the worker takes batches,  *)
(* and nobody looks at what became of a span: one may be dropped, posted   *)
(* in vain, or die with the worker, and its children go on.                *)
(*                                                                         *)
(* The queue is SpanQueue, which SpanRing implements.  MaxStatements       *)
(* bounds the statements, MaxFaults the failed posts and the crashes.      *)
(***************************************************************************)
EXTENDS Integers, Sequences, FiniteSetsExt

CONSTANTS
    Backends,
    Executions,      \* the statements that may occur
    Capacity,        \* pg_eatrace.max_spans
    MaxBatch,        \* the largest pg_eatrace.max_export_batch
    MaxStatements, MaxFaults

\* The nodes of a plan are numbered in the order planstate_tree_walker meets them: a
\* node comes before its children, and its subtree before its next sibling.  up is
\* the parent of a node, 0 for the root; ran are the nodes with an instrument that
\* counted a loop; helpers is the number of parallel workers that ran a node and are
\* to be reported.
IsPlan(plan) ==
    /\ plan.size \in Nat
    /\ plan.up \in [1..plan.size -> Nat]
    /\ plan.ran \subseteq 1..plan.size
    /\ plan.helpers \in [1..plan.size -> Nat]
    /\ \A n \in 1..plan.size :
          /\ plan.up[n] < n
          /\ \A m \in 1..plan.size : plan.up[n] < m /\ m < n => plan.up[m] >= plan.up[n]

\* An executed statement: its plan, whether plannerHook stashed a planner span for it,
\* and whether it came to its end without an error.
ASSUME PipelineAssumption ==
    /\ \A e \in Executions : /\ IsPlan(e.plan)
                             /\ e.planned \in BOOLEAN /\ e.succeeded \in BOOLEAN
    /\ Capacity \in Nat \ {0} /\ MaxBatch \in Nat \ {0} /\ MaxStatements \in Nat
    /\ MaxFaults \in Nat

\* A span is known by its statement, the plan node and the worker: node 0 is the
\* query span, and the planner span is to it what a worker span is to its node.
Id(s, node, worker) == [statement |-> s, node |-> node, worker |-> worker]
Caller == Id(0, 0, 0)
SpanId == [statement : Nat, node : Nat, worker : Nat]
Span == [id : SpanId, parent : SpanId]

VARIABLES
    statements,  \* what was executed so far
    pc,          \* each backend's place in the flush of its statement
    current,     \* the number of that statement
    handed,      \* for each plan node visited so far, the node whose span its
                 \* children get as parent
    helper,      \* the worker whose span is next
    answer,      \* what httpPostJson made of the batch in flight
    \* SpanQueue
    queue, inFlight, droppedCount, dequeuedCount, exportedCount, exportFailureCount,
    \* history: what became of the spans that left the queue or did not enter it
    delivered,   \* the collector has them
    lost,        \* refused by a full queue, in a batch that was counted as a failure,
                 \* or in the queue or a batch when a process crashed
    faults       \* the failures and crashes so far

backendVars == <<statements, pc, current, handed, helper>>
queueVars == <<queue, inFlight, droppedCount, dequeuedCount, exportedCount,
               exportFailureCount>>
fate == <<delivered, lost, faults>>
vars == <<backendVars, answer, queueVars, fate>>

Queue == INSTANCE SpanQueue

Init ==
    /\ statements = <<>>
    /\ pc = [b \in Backends |-> "idle"]
    /\ current = [b \in Backends |-> 0]
    /\ handed = [b \in Backends |-> <<>>]
    /\ helper = [b \in Backends |-> 0]
    /\ answer = "none"
    /\ Queue!Init
    /\ delivered = {} /\ lost = {} /\ faults = 0

-----------------------------------------------------------------------------
\* Slip: a full queue gives the place of its oldest span to the new one.
EnqueueOverOldest(id, parent) ==
    /\ queue' = Append(IF Len(queue) < Capacity THEN queue ELSE Tail(queue),
                       [id |-> id, parent |-> parent])
    /\ UNCHANGED <<inFlight, droppedCount, dequeuedCount, exportedCount,
                   exportFailureCount, answer, fate>>

\* enqueueSpan; its callers ignore what it returns.
EnqueueSpan(id, parent) ==
    LET span == [id |-> id, parent |-> parent] IN
    /\ \/ Queue!Accept(span) /\ UNCHANGED lost
       \/ Queue!DropNewest /\ lost' = lost \cup {span}
    /\ UNCHANGED <<answer, delivered, faults>>

Goto(b, place) == pc' = [pc EXCEPT ![b] = place]

Statement(b) == statements[current[b]]
Plan(b) == Statement(b).plan

\* enqueuePlanNodeSpans is called for a statement that succeeded.
AfterQuery(b) ==
    IF Statement(b).succeeded /\ Plan(b).size > 0 THEN "node" ELSE "idle"

\* A traced statement ends.
Start(b, execution) ==
    /\ pc[b] = "idle" /\ Len(statements) < MaxStatements
    /\ statements' = Append(statements, execution)
    /\ current' = [current EXCEPT ![b] = Len(statements) + 1]
    /\ handed' = [handed EXCEPT ![b] = <<>>]
    /\ helper' = [helper EXCEPT ![b] = 0]
    /\ Goto(b, "query")
    /\ UNCHANGED <<answer, queueVars, fate>>

EnqueueQuerySpan(b) ==
    /\ pc[b] = "query"
    /\ EnqueueSpan(Id(current[b], 0, 0), Caller)
    /\ Goto(b, IF Statement(b).planned THEN "planner" ELSE AfterQuery(b))
    /\ UNCHANGED <<statements, current, handed, helper>>

FlushStoredPlannerSpan(b) ==
    /\ pc[b] = "planner"
    /\ EnqueueSpan(Id(current[b], 0, 1), Id(current[b], 0, 0))
    /\ Goto(b, AfterQuery(b))
    /\ UNCHANGED <<statements, current, handed, helper>>

-----------------------------------------------------------------------------
Visited(b) == Len(handed[b])

\* Slip: a node is attached to its parent whether that one has a span or not.
ParentSpanUncollapsed(b, node) == Plan(b).up[node]

\* The parent a node is given: what its own parent left in childParentOut.
ParentSpan(b, node) == IF Plan(b).up[node] = 0 THEN 0 ELSE handed[b][Plan(b).up[node]]

\* Slip: the walk does not see that it is at its end.
WalkPastEnd(b, visited) == Goto(b, IF visited <= Plan(b).size THEN "node" ELSE "idle")

\* The walk goes on after the node that was visited last.
WalkOn(b, visited) == Goto(b, IF visited < Plan(b).size THEN "node" ELSE "idle")

\* enqueuePlanNodeSpan, for the root and, from planNodeSpanWalker, for the others
SkipPlanNode(b) ==
    LET node == Visited(b) + 1 IN
    /\ pc[b] = "node" /\ node \notin Plan(b).ran
    /\ handed' = [handed EXCEPT ![b] = Append(@, ParentSpan(b, node))]
    /\ WalkOn(b, node)
    /\ UNCHANGED <<statements, current, helper, answer, queueVars, fate>>

EnqueuePlanNodeSpan(b) ==
    LET node == Visited(b) + 1 IN
    /\ pc[b] = "node" /\ node \in Plan(b).ran
    /\ EnqueueSpan(Id(current[b], node, 0), Id(current[b], ParentSpan(b, node), 0))
    /\ handed' = [handed EXCEPT ![b] = Append(@, node)]
    /\ IF Plan(b).helpers[node] > 0
       THEN Goto(b, "worker") /\ helper' = [helper EXCEPT ![b] = 1]
       ELSE WalkOn(b, node) /\ UNCHANGED helper
    /\ UNCHANGED <<statements, current>>

\* enqueueParallelWorkerSpans
EnqueueParallelWorkerSpan(b) ==
    LET node == Visited(b) IN
    /\ pc[b] = "worker"
    /\ EnqueueSpan(Id(current[b], node, helper[b]), Id(current[b], node, 0))
    /\ IF helper[b] < Plan(b).helpers[node]
       THEN helper' = [helper EXCEPT ![b] = @ + 1] /\ UNCHANGED pc
       ELSE WalkOn(b, node) /\ UNCHANGED helper
    /\ UNCHANGED <<statements, current, handed>>

-----------------------------------------------------------------------------
\* exportOneBatch: take a batch, ...
DequeueBatch ==
    /\ inFlight = <<>>
    /\ \E n \in 1..MaxBatch : Queue!DequeueBatch(n)
    /\ UNCHANGED <<backendVars, answer, fate>>

Fault == faults < MaxFaults /\ faults' = faults + 1

\* ... post it.  The collector may have it although its answer does not arrive, or is
\* not what it should be.
Post(arrives, result) ==
    /\ inFlight # <<>> /\ answer = "none"
    /\ IF result = "ok" THEN arrives /\ UNCHANGED faults ELSE Fault
    /\ answer' = result
    /\ delivered' = IF arrives THEN delivered \cup Range(inFlight) ELSE delivered
    /\ UNCHANGED <<backendVars, queueVars, lost>>

\* ... and record what came of it.
RecordExportSuccess ==
    /\ answer = "ok"
    /\ Queue!RecordSuccess
    /\ answer' = "none"
    /\ UNCHANGED <<backendVars, fate>>

\* Slip: a batch that failed is put back for the next wake-up.
RecordFailureAndRetry ==
    /\ answer = "failed"
    /\ queue' = inFlight \o queue
    /\ inFlight' = <<>>
    /\ exportFailureCount' = exportFailureCount + 1
    /\ answer' = "none"
    /\ UNCHANGED <<backendVars, droppedCount, dequeuedCount, exportedCount, fate>>

RecordExportFailure ==
    /\ answer = "failed"
    /\ Queue!RecordFailure
    /\ lost' = lost \cup Range(inFlight)
    /\ answer' = "none"
    /\ UNCHANGED <<backendVars, delivered, faults>>

\* An error ends the worker; the postmaster starts it again.
WorkerCrash ==
    /\ Fault
    /\ Queue!Discard
    /\ lost' = lost \cup Range(inFlight)
    /\ answer' = "none"
    /\ UNCHANGED <<backendVars, delivered>>

\* A process crashes, and the postmaster starts every process and shared memory anew.
Restart ==
    /\ Fault
    /\ Queue!Reinitialise
    /\ lost' = lost \cup Range(queue) \cup Range(inFlight)
    /\ answer' = "none"
    /\ pc' = [b \in Backends |-> "idle"]
    /\ current' = [b \in Backends |-> 0]
    /\ UNCHANGED <<statements, handed, helper, delivered>>

Next ==
    \/ \E b \in Backends :
          \/ \E execution \in Executions : Start(b, execution)
          \/ EnqueueQuerySpan(b) \/ FlushStoredPlannerSpan(b)
          \/ SkipPlanNode(b) \/ EnqueuePlanNodeSpan(b) \/ EnqueueParallelWorkerSpan(b)
    \/ DequeueBatch
    \/ \E arrives \in BOOLEAN, result \in {"ok", "failed"} : Post(arrives, result)
    \/ RecordExportSuccess \/ RecordExportFailure
    \/ WorkerCrash \/ Restart

Spec == Init /\ [][Next]_vars

-----------------------------------------------------------------------------
\* Every variable stays within its type, and a walk of a plan never goes on past its
\* last node.
TypeOK ==
    /\ statements \in Seq(Executions)
    /\ pc \in [Backends -> {"idle", "query", "planner", "node", "worker"}]
    /\ current \in [Backends -> Nat]
    /\ handed \in [Backends -> Seq(Nat)] /\ helper \in [Backends -> Nat]
    /\ answer \in {"none", "ok", "failed"}
    /\ queue \in Seq(Span) /\ inFlight \in Seq(Span)
    /\ Len(queue) <= Capacity
    /\ \A count \in {droppedCount, dequeuedCount, exportedCount, exportFailureCount} :
          count \in Nat
    /\ delivered \subseteq Span /\ lost \subseteq Span /\ faults \in Nat
    /\ \A b \in Backends : pc[b] # "idle" =>
          /\ current[b] \in 1..Len(statements)
          /\ pc[b] = "node" => Visited(b) < Plan(b).size

Offered == Range(queue) \cup Range(inFlight) \cup delivered \cup lost

Ids(spans) == {span.id : span \in spans}

\* What a trace should look like, said without a walk: above a node are those whose
\* subtree it is in, and its parent is the lowest of them that ran.
IsAbove(plan, m, n) == m < n /\ \A k \in (m + 1)..n : plan.up[k] >= m
Nearest(plan, n) == Max({0} \cup {m \in plan.ran : IsAbove(plan, m, n)})

Trace(s) ==
    LET statement == statements[s]
        plan == statement.plan
        walked == IF statement.succeeded THEN plan.ran ELSE {}
    IN  {[id |-> Id(s, 0, 0), parent |-> Caller]}
          \cup (IF statement.planned
                THEN {[id |-> Id(s, 0, 1), parent |-> Id(s, 0, 0)]} ELSE {})
          \cup {[id |-> Id(s, n, 0), parent |-> Id(s, Nearest(plan, n), 0)] : n \in walked}
          \cup UNION {{[id |-> Id(s, n, w), parent |-> Id(s, n, 0)] :
                          w \in 1..plan.helpers[n]} : n \in walked}

\* The walk attaches every span where it belongs: whatever a backend offers is part of
\* the trace of its statement, under its nearest ancestor that was executed, and a
\* flush that came to its end has offered all of it.
TraceIsFaithful ==
    /\ \A span \in Offered :
          span.id.statement \in 1..Len(statements) /\ span \in Trace(span.id.statement)
    /\ \A b \in Backends : pc[b] = "idle" /\ current[b] # 0 => Trace(current[b]) \subseteq Offered

\* An orphan is always a loss that was counted or a crash: when a span is at the
\* collector, its parent is the caller's, is there too, or was lost to a full queue, to
\* a failed export or to a crash.  It is never still on its way, so that no child
\* arrives before its parent.
OrphansAreLosses ==
    \A span \in delivered :
        span.parent = Caller \/ span.parent \in Ids(delivered \cup lost)

\* No span is exported twice, whatever fails and restarts: a batch about to be posted
\* holds nothing that was posted or given up before, nothing that is still queued, and
\* nothing twice.
ExportedAtMostOnce ==
    /\ \A i, j \in 1..Len(inFlight) : inFlight[i] = inFlight[j] => i = j
    /\ Range(inFlight) \cap (Range(queue) \cup lost) = {}
    /\ answer = "none" => Range(inFlight) \cap delivered = {}
=============================================================================
