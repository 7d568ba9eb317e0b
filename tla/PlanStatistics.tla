--------------------------- MODULE PlanStatistics ---------------------------
(***************************************************************************)
(* What a planner span says of the plan (fillPlannerPlanStats and the      *)
(* recursion collectPlanStats under it), and what a plan node span says of *)
(* the parallel workers that ran the node (fillParallelWorkerSummary).     *)
(*                                                                         *)
(* The nodes of a plan are numbered, parents first, and node 1 is the      *)
(* root: up is a node's parent, link the field of the parent that holds    *)
(* it, and kind what it is as far as the statistics tell nodes apart.      *)
(***************************************************************************)
EXTENDS Integers, SequencesExt

Links == {"outer", "inner", "list", "subplan", "initPlan"}

\* The kinds with a field of children besides outer and inner
ListKinds == {"append", "bitmap", "custom scan"}
ScanKinds == {"scan", "subquery scan", "custom scan"}
GatherKinds == {"gather", "gather merge"}
Kinds == ListKinds \cup ScanKinds \cup GatherKinds \cup {"join", "other"}

\* The children of a node in one of its fields, first to last
Children(plan, n, link) ==
    FoldLeftDomain(LAMBDA children, m : IF plan.up[m] = n /\ plan.link[m] = link
                                        THEN Append(children, m) ELSE children,
                   <<>>, plan.up)

NoStats == [nodeCount |-> 0, maxDepth |-> 0, scanCount |-> 0, joinCount |-> 0,
            parallelNodeCount |-> 0, workersPlanned |-> 0]

Statistics == [nodeCount : Nat, maxDepth : Nat, scanCount : Nat, joinCount : Nat,
               parallelNodeCount : Nat, workersPlanned : Nat]

One(condition) == IF condition THEN 1 ELSE 0

\* Slip: a Gather that is parallel aware counts once.
ParallelNodesOnce(plan, n) == One(plan.aware[n] \/ plan.kind[n] \in GatherKinds)

ParallelNodes(plan, n) == One(plan.aware[n]) + One(plan.kind[n] \in GatherKinds)

CountNode(plan, n, stats, depth) ==
    [nodeCount |-> stats.nodeCount + 1,
     maxDepth |-> IF depth > stats.maxDepth THEN depth ELSE stats.maxDepth,
     scanCount |-> stats.scanCount + One(plan.kind[n] \in ScanKinds),
     joinCount |-> stats.joinCount + One(plan.kind[n] = "join"),
     parallelNodeCount |-> stats.parallelNodeCount + ParallelNodes(plan, n),
     workersPlanned |-> stats.workersPlanned
         + (IF plan.kind[n] \in GatherKinds THEN plan.workers[n] ELSE 0)]

\* The children that are visited: outerPlan and innerPlan of every node, then what its
\* kind has besides.
Visited(plan, n) ==
    Children(plan, n, "outer") \o Children(plan, n, "inner")
    \o (IF plan.kind[n] \in ListKinds THEN Children(plan, n, "list") ELSE <<>>)
    \o (IF plan.kind[n] = "subquery scan" THEN Children(plan, n, "subplan") ELSE <<>>)

\* A visit is a call of the recursion: a node, the statistics so far, and its depth.
CollectPlanStats(plan, n, stats, depth) ==
    LET collect[visit \in (1..plan.size) \X Statistics \X Nat] ==
            FoldLeft(LAMBDA counted, child : collect[<<child, counted, visit[3] + 1>>],
                     CountNode(plan, visit[1], visit[2], visit[3]),
                     Visited(plan, visit[1]))
    IN  collect[<<n, stats, depth>>]

CountRteKind(rtable, kind) == Len(SelectSeq(rtable, LAMBDA rte : rte = kind))

\* A statement whose planning failed has no plan.
FillPlannerPlanStats(statement) ==
    IF statement.plan.size = 0 THEN [hasPlanStats |-> FALSE]
    ELSE [hasPlanStats |-> TRUE,
          stats |-> CollectPlanStats(statement.plan, 1, NoStats, 1),
          rteCounts |-> [kind \in {"relation", "subquery", "function"} |->
                            CountRteKind(statement.rtable, kind)]]

-----------------------------------------------------------------------------
\* The workers that counted a loop are active and get a span.
Active(instrument) == instrument.loops > 0

AddWorker(summary, instrument) ==
    IF ~Active(instrument) THEN summary
    ELSE [summary EXCEPT !.activeWorkerCount = @ + 1,
                         !.rows = @ + instrument.rows,
                         !.loops = @ + instrument.loops,
                         !.total = @ + instrument.total,
                         !.max = IF instrument.total > @ THEN instrument.total ELSE @]

FillParallelWorkerSummary(instruments) ==
    FoldLeft(AddWorker,
             [workerCount |-> Len(instruments), activeWorkerCount |-> 0,
              rows |-> 0, loops |-> 0, total |-> 0, max |-> 0],
             instruments)
=============================================================================
