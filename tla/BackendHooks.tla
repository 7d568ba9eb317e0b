---------------------------- MODULE BackendHooks ----------------------------
(***************************************************************************)
(* The hooks pg_eatrace installs in one backend: plannerHook, the four     *)
(* executor hooks, processUtilityHook and the transaction callback         *)
(* (src/src/pg_eatrace.c), with the two hash tables of trace state and the *)
(* stack of active spans they share, and the spans they emit.              *)
(*                                                                         *)
(* PostgreSQL is the environment.  It nests hook calls (a statement runs a *)
(* function that plans and runs statements of its own), unwinds them when  *)
(* an error is raised, catches errors in exception blocks, and owns the    *)
(* memory whose addresses key the hash tables.  Environment says which of  *)
(* its less orderly habits are allowed:                                    *)
(*   "suspend"  other statements may run while an executor is started and  *)
(*              not running: cursors, portals with a row limit, loops over *)
(*              a query;                                                   *)
(*   "copy"     the plan cache copies the plan the planner returned and    *)
(*              frees the original;                                        *)
(*   "recycle"  a new plan may get the address of a freed one that still   *)
(*              keys a planner state;                                      *)
(*   "commit"   a procedure may commit while its CALL is running.          *)
(* MaxCalls bounds the nesting of hook calls, MaxIds the span ids that are *)
(* generated.                                                              *)
(***************************************************************************)
EXTENDS Integers, Sequences, FiniteSets

CONSTANTS
    QueryDescs,      \* addresses an executor's QueryDesc can have
    PlannedStmts,    \* addresses a plan can have
    Texts,           \* query texts, by the traceparent they carry
    Modes,           \* the settings of span_generation that SET may choose
    MaxActiveSpans,  \* PG_EATRACE_MAX_ACTIVE_SPANS
    MaxCalls, MaxIds,
    Environment

\* A text without a valid traceparent has trace 0.  "sampled" is false when the
\* traceparent lacks the flag or the local sample rate rejects its trace.
NoText == [trace |-> 0, sampled |-> TRUE]

ASSUME HooksAssumption ==
    /\ Texts \subseteq [trace : Nat, sampled : BOOLEAN] \ {NoText}
    /\ Modes \subseteq {"none", "top-level", "all"} /\ Modes # {}
    /\ MaxActiveSpans \in Nat /\ MaxCalls \in Nat /\ MaxIds \in Nat
    /\ Environment \subseteq {"suspend", "copy", "recycle", "commit"}

\* "none" stands for no address at all.
ASSUME AddressAssumption == "none" \notin QueryDescs \cup PlannedStmts

VARIABLES
    mode,           \* span_generation; "none" as well when tracing is disabled
    stack,          \* activeSpanStack
    queryStates,    \* per QueryDesc address
    plannerStates,  \* per PlannedStmt address
    emitted,        \* the spans the last step gave to enqueueSpan, in order
    \* PostgreSQL
    calls,          \* the hook calls in progress, outermost first
    open,           \* what each started QueryDesc executes
    plans,          \* the plan at each address
    error,          \* an error is being propagated
    \* history: the transaction number, and that of each span id generated so far
    xact, bornIn,
    \* history: the statements whose spans were emitted, those that were parents of
    \* an emitted span, and whether a statement was reported twice
    reported, parents, reportedTwice

history == <<reported, parents, reportedTwice>>
vars == <<mode, stack, queryStates, plannerStates, emitted, calls, open, plans,
          error, xact, bornIn, history>>

\* A span of the caller is known by its trace: trace t has the remote parent -t.
\* The spans of this backend count from 1; 0 stands for no span.
NoContext == [trace |-> 0, parent |-> 0]
NoQueryState == [context |-> NoContext, id |-> 0, index |-> -1]
NoPlannerState == [context |-> NoContext, id |-> 0, hasSpan |-> FALSE]
NoQuery == [plan |-> "none", cause |-> 0]
NoPlan == [text |-> NoText, cause |-> 0, kind |-> "none"]

Init ==
    /\ mode \in Modes
    /\ stack = <<>>
    /\ queryStates = [q \in QueryDescs |-> NoQueryState]
    /\ plannerStates = [p \in PlannedStmts |-> NoPlannerState]
    /\ emitted = <<>>
    /\ calls = <<>>
    /\ open = [q \in QueryDescs |-> NoQuery]
    /\ plans = [p \in PlannedStmts |-> NoPlan]
    /\ error = FALSE
    /\ xact = 1 /\ bornIn = <<>>
    /\ reported = {} /\ parents = {} /\ reportedTwice = FALSE

-----------------------------------------------------------------------------
\* PostgreSQL's side.  A call of a hook remembers what the hook keeps in local
\* variables.  "cause" is history: the statement that caused this one.
Call(kind, query, text, context, id, index, cause) ==
    [kind |-> kind, query |-> query, text |-> text, context |-> context,
     id |-> id, index |-> index, cause |-> cause]

Top == calls[Len(calls)]
Enter(call) == calls' = Append(calls, call)
Leave == calls' = SubSeq(calls, 1, Len(calls) - 1)

\* Executors that are started and not running.
Idle == {q \in QueryDescs : /\ open[q] # NoQuery
                            /\ \A i \in 1..Len(calls) : calls[i].query # q}

\* The calls that execute a traced statement, and how deep each of them is.
Executing == {i \in 1..Len(calls) : calls[i].kind # "plan" /\ calls[i].id # 0}
Depth(i) == Cardinality({j \in Executing : j <= i})

\* As many of n statements, one inside the other, as the stack can hold.
Fitting(n) == IF n < MaxActiveSpans THEN n ELSE MaxActiveSpans

\* The statement that work started now is caused by.  Below the depth the stack
\* can hold, the deepest statement that fits stands for those inside it.
Cause ==
    LET depth == Fitting(Cardinality(Executing)) IN
    IF depth = 0 THEN 0 ELSE calls[CHOOSE i \in Executing : Depth(i) = depth].id

\* An orderly executor is started, run and ended with nothing in between.
Orderly == "suspend" \in Environment \/ Idle = {}
MayStart == ~error /\ Orderly
MayCall == MayStart /\ Len(calls) < MaxCalls

Allocatable(p) ==
    /\ plans[p] = NoPlan
    /\ "recycle" \in Environment \/ plannerStates[p] = NoPlannerState

-----------------------------------------------------------------------------
\* pushActiveSpan and popActiveSpanToIndex.  Push yields the index of the frame,
\* or -1 when the stack is full.
\* Slip: the array is not checked for room.
PushIndexUnchecked == Len(stack)

PushIndex == IF Len(stack) < MaxActiveSpans THEN Len(stack) ELSE -1

Pushed(context, id) ==
    IF PushIndex = -1 THEN stack
                      ELSE Append(stack, [trace |-> context.trace, span |-> id])

\* Slip: the frame below is taken along.
PoppedBelow(index) ==
    IF index > 0 /\ Len(stack) > index THEN SubSeq(stack, 1, index - 1) ELSE stack

PoppedTo(index) ==
    IF index >= 0 /\ Len(stack) > index THEN SubSeq(stack, 1, index) ELSE stack

\* Slip: the active span wins over the statement's own traceparent.
FindActiveFirst(text) ==
    IF mode = "all" /\ stack # <<>>
    THEN [trace |-> stack[Len(stack)].trace, parent |-> stack[Len(stack)].span]
    ELSE IF mode # "none" /\ stack = <<>> /\ text.trace # 0 /\ text.sampled
    THEN [trace |-> text.trace, parent |-> -text.trace]
    ELSE NoContext

\* findTraceContextForStatement: NoContext when the statement is not traced.
FindTraceContext(text) ==
    IF \/ mode = "none"
       \/ mode = "top-level" /\ stack # <<>>
       \/ text.trace # 0 /\ ~text.sampled
       \/ text.trace = 0 /\ (mode # "all" \/ stack = <<>>)
    THEN NoContext
    ELSE IF text.trace # 0
    THEN [trace |-> text.trace, parent |-> -text.trace]
    ELSE [trace |-> stack[Len(stack)].trace, parent |-> stack[Len(stack)].span]

\* generateSpanId
NewId == Len(bornIn) + 1
GenerateSpanId == Len(bornIn) < MaxIds /\ bornIn' = Append(bornIn, xact)

\* The spans, in the order of the enqueueSpan calls.  One span stands for those
\* of all the plan nodes; nobody refers to the ids of planner and plan node spans.
SpanOf(kind, id, context, text, cause) ==
    [kind |-> kind, id |-> id, context |-> context, text |-> text, cause |-> cause]

ChildSpan(kind, id, context) ==
    SpanOf(kind, 0, [trace |-> context.trace, parent |-> id], NoText, 0)

\* emitFailedQuerySpan and emitSuccessfulQuerySpan, with flushStoredPlannerSpan
\* and enqueuePlanNodeSpans.  The state that guards against emitting twice is
\* deleted by every caller.
QuerySpans(state, planner, text, cause, succeeded) ==
    IF state.id = 0 THEN <<>>
    ELSE <<SpanOf("query", state.id, state.context, text, cause)>>
           \o (IF planner.hasSpan
               THEN <<ChildSpan("planner", planner.id, planner.context)>> ELSE <<>>)
           \o (IF succeeded
               THEN <<ChildSpan("node", state.id, state.context)>> ELSE <<>>)

\* enqueueSpan for each of these spans, and the history of what was emitted.
Statements(spans) == {i \in 1..Len(spans) : spans[i].kind \in {"query", "utility"}}

Emit(spans) ==
    LET ids == {spans[i].id : i \in Statements(spans)} IN
    /\ emitted' = spans
    /\ reported' = reported \cup ids
    /\ parents' = parents \cup ({spans[i].context.parent : i \in 1..Len(spans)} \cap Nat)
    /\ reportedTwice' = (reportedTwice \/ ids \cap reported # {})

-----------------------------------------------------------------------------
\* plannerHook, up to the call of the planner it wraps
PlannerCall(text) ==
    LET context == FindTraceContext(text) IN
    /\ MayCall
    /\ IF context = NoContext
       THEN /\ Enter(Call("plan", "none", text, NoContext, 0, -1, Cause))
            /\ UNCHANGED bornIn
       ELSE /\ Enter(Call("plan", "none", text, context, NewId, -1, Cause))
            /\ GenerateSpanId
    /\ Emit(<<>>)
    /\ UNCHANGED <<mode, stack, queryStates, plannerStates, open, plans,
                   error, xact>>

\* Slip: the planner span is enqueued at once.
PlannerReturnEager(returned, kept) ==
    /\ ~error /\ Orderly /\ calls # <<>> /\ Top.kind = "plan"
    /\ Allocatable(returned) /\ Allocatable(kept)
    /\ returned # kept => "copy" \in Environment
    /\ plannerStates' =
         IF Top.id = 0 THEN plannerStates
         ELSE [plannerStates EXCEPT ![returned] =
                 [context |-> Top.context, id |-> Top.id, hasSpan |-> FALSE]]
    /\ plans' = [plans EXCEPT ![kept] =
                   [text |-> Top.text, cause |-> 0, kind |-> "cached"]]
    /\ Leave
    /\ Emit(IF Top.id = 0 THEN <<>> ELSE <<ChildSpan("planner", Top.id, Top.context)>>)
    /\ UNCHANGED <<mode, stack, queryStates, open, error, xact, bornIn>>

\* plannerHook after the planner returned the plan at address returned.  The
\* caller keeps it, or keeps a copy and frees it.
PlannerReturn(returned, kept) ==
    /\ ~error /\ Orderly /\ calls # <<>> /\ Top.kind = "plan"
    /\ Allocatable(returned) /\ Allocatable(kept)
    /\ returned # kept => "copy" \in Environment
    /\ plannerStates' =
         IF Top.id = 0 THEN plannerStates
         ELSE [plannerStates EXCEPT ![returned] =
                 [context |-> Top.context, id |-> Top.id, hasSpan |-> TRUE]]
    /\ plans' = [plans EXCEPT ![kept] =
                   IF returned = kept
                   THEN [text |-> Top.text, cause |-> Top.cause, kind |-> "one-shot"]
                   ELSE [text |-> Top.text, cause |-> 0, kind |-> "cached"]]
    /\ Leave
    /\ Emit(<<>>)
    /\ UNCHANGED <<mode, stack, queryStates, open, error, xact, bornIn>>

\* plannerHook when the planner raised an error
PlannerError ==
    /\ error /\ calls # <<>> /\ Top.kind = "plan"
    /\ Emit(IF Top.id = 0 THEN <<>>
            ELSE <<SpanOf("query", Top.id, Top.context, Top.text, Top.cause),
                   ChildSpan("planner", Top.id, Top.context)>>)
    /\ Leave
    /\ UNCHANGED <<mode, stack, queryStates, plannerStates, open, plans,
                   error, xact, bornIn>>

-----------------------------------------------------------------------------
\* executorStartHook: the trace state of a new execution of the plan at p.
Adopts(p) == mode # "none" /\ plannerStates[p].id # 0

\* Slip: an inheriting query keeps the id of the span it inherits from.
StartWithoutNewId(p) ==
    LET context == FindTraceContext(plans[p].text) IN
    IF Adopts(p)
    THEN [context |-> plannerStates[p].context, id |-> plannerStates[p].id,
          index |-> PushIndex]
    ELSE IF context = NoContext THEN NoQueryState
    ELSE [context |-> context, index |-> PushIndex,
          id |-> IF context.parent > 0 THEN context.parent ELSE NewId]

StartState(p) ==
    LET context == FindTraceContext(plans[p].text) IN
    IF Adopts(p)
    THEN [context |-> plannerStates[p].context, id |-> plannerStates[p].id,
          index |-> PushIndex]
    ELSE IF context = NoContext THEN NoQueryState
    ELSE [context |-> context, id |-> NewId, index |-> PushIndex]

\* A plan of the plan cache is executed anywhere, again and recursively.  One that
\* was not copied is executed once, where it was planned, and freed.
MayExecute(q, p) ==
    /\ MayStart
    /\ open[q] = NoQuery
    /\ plans[p] # NoPlan
    /\ plans[p].kind = "one-shot" =>
          plans[p].cause = Cause /\ \A other \in QueryDescs : open[other].plan # p
    /\ IF StartState(p).id # 0 /\ ~Adopts(p) THEN GenerateSpanId ELSE UNCHANGED bornIn

ExecutorStart(q, p) ==
    LET state == StartState(p) IN
    /\ MayExecute(q, p)
    /\ queryStates' = [queryStates EXCEPT ![q] = state]
    /\ stack' = IF state.id # 0 THEN Pushed(state.context, state.id) ELSE stack
    /\ plannerStates' = IF state.id # 0 THEN plannerStates
                        ELSE [plannerStates EXCEPT ![p] = NoPlannerState]
    /\ open' = [open EXCEPT ![q] = [plan |-> p, cause |-> Cause]]
    /\ Emit(<<>>)
    /\ UNCHANGED <<mode, calls, plans, error, xact>>

\* executorStartHook when standard_ExecutorStart raised an error: the frame that
\* was pushed is popped again by handleExecutorError.
ExecutorStartError(q, p) ==
    /\ MayExecute(q, p)
    /\ Emit(QuerySpans(StartState(p), plannerStates[p], plans[p].text, Cause, FALSE))
    /\ queryStates' = [queryStates EXCEPT ![q] = NoQueryState]
    /\ plannerStates' = [plannerStates EXCEPT ![p] = NoPlannerState]
    /\ plans' = IF plans[p].kind = "one-shot" THEN [plans EXCEPT ![p] = NoPlan] ELSE plans
    /\ error' = TRUE
    /\ UNCHANGED <<mode, stack, calls, open, xact>>

\* executorRunHook or executorFinishHook, up to the executor they wrap
ExecutorCall(q) ==
    /\ ~error /\ Len(calls) < MaxCalls
    /\ q \in Idle
    /\ Enter(Call("run", q, NoText, NoContext, queryStates[q].id, -1, 0))
    /\ Emit(<<>>)
    /\ UNCHANGED <<mode, stack, queryStates, plannerStates, open, plans,
                   error, xact, bornIn>>

ExecutorReturn ==
    /\ ~error /\ Orderly /\ calls # <<>> /\ Top.kind = "run"
    /\ Leave
    /\ Emit(<<>>)
    /\ UNCHANGED <<mode, stack, queryStates, plannerStates, open, plans,
                   error, xact, bornIn>>

\* The executors are freed, and with them the plans nobody else keeps.
Close(queries) ==
    /\ open' = [q \in QueryDescs |-> IF q \in queries THEN NoQuery ELSE open[q]]
    /\ plans' = [p \in PlannedStmts |->
                   IF plans[p].kind = "one-shot" /\ \E q \in queries : open[q].plan = p
                   THEN NoPlan ELSE plans[p]]

\* deleteTraceStates
DeleteTraceStates(q) ==
    /\ stack' = PoppedTo(queryStates[q].index)
    /\ queryStates' = [queryStates EXCEPT ![q] = NoQueryState]
    /\ plannerStates' = [plannerStates EXCEPT ![open[q].plan] = NoPlannerState]

\* Slip: only executorEndHook emits.
EmitSucceeded(q, succeeded) ==
    LET p == open[q].plan IN
    Emit(IF ~succeeded THEN <<>>
         ELSE QuerySpans(queryStates[q], plannerStates[p], plans[p].text, open[q].cause,
                         succeeded))

EmitQuery(q, succeeded) ==
    LET p == open[q].plan IN
    Emit(QuerySpans(queryStates[q], plannerStates[p], plans[p].text, open[q].cause,
                    succeeded))

\* handleExecutorError, in executorRunHook and executorFinishHook
ExecutorError ==
    LET q == Top.query IN
    /\ error /\ calls # <<>> /\ Top.kind = "run"
    /\ EmitQuery(q, FALSE)
    /\ DeleteTraceStates(q)
    /\ Close({q})
    /\ Leave
    /\ UNCHANGED <<mode, error, xact, bornIn>>

\* executorEndHook
ExecutorEnd(q) ==
    /\ ~error /\ q \in Idle
    /\ EmitQuery(q, TRUE)
    /\ DeleteTraceStates(q)
    /\ Close({q})
    /\ UNCHANGED <<mode, calls, error, xact, bornIn>>

-----------------------------------------------------------------------------
\* processUtilityHook, up to the call it wraps
UtilityCall(text) ==
    LET context == FindTraceContext(text) IN
    /\ MayCall
    /\ IF context = NoContext
       THEN /\ Enter(Call("utility", "none", NoText, NoContext, 0, -1, 0))
            /\ UNCHANGED <<stack, bornIn>>
       ELSE /\ Enter(Call("utility", "none", text, context, NewId, PushIndex, Cause))
            /\ stack' = Pushed(context, NewId)
            /\ GenerateSpanId
    /\ Emit(<<>>)
    /\ UNCHANGED <<mode, queryStates, plannerStates, open, plans, error,
                   xact>>

\* Slip: the frame of a utility command that failed is not popped.
UtilityReturnLeaky ==
    /\ Orderly /\ calls # <<>> /\ Top.kind = "utility"
    /\ stack' = IF error THEN stack ELSE PoppedTo(Top.index)
    /\ Emit(IF Top.id = 0 THEN <<>>
            ELSE <<SpanOf("utility", Top.id, Top.context, Top.text, Top.cause)>>)
    /\ Leave
    /\ UNCHANGED <<mode, queryStates, plannerStates, open, plans, error, xact,
                   bornIn>>

\* processUtilityHook, from the return of that call or from the error it raised:
\* both pop the frame and emit the span.
UtilityReturn ==
    /\ Orderly /\ calls # <<>> /\ Top.kind = "utility"
    /\ stack' = PoppedTo(Top.index)
    /\ Emit(IF Top.id = 0 THEN <<>>
            ELSE <<SpanOf("utility", Top.id, Top.context, Top.text, Top.cause)>>)
    /\ Leave
    /\ UNCHANGED <<mode, queryStates, plannerStates, open, plans, error, xact,
                   bornIn>>

-----------------------------------------------------------------------------
\* Slip: the hash tables are cleared and the stack is not.
XactEndKeepsStack ==
    /\ queryStates' = [q \in QueryDescs |-> NoQueryState]
    /\ plannerStates' = [p \in PlannedStmts |-> NoPlannerState]
    /\ xact' = IF bornIn # <<>> /\ bornIn[Len(bornIn)] = xact THEN xact + 1 ELSE xact
    /\ UNCHANGED stack

\* xactEndCallback: deleteAllTraceStates and an empty stack
XactEndCallback ==
    /\ queryStates' = [q \in QueryDescs |-> NoQueryState]
    /\ plannerStates' = [p \in PlannedStmts |-> NoPlannerState]
    /\ stack' = <<>>
    /\ xact' = IF bornIn # <<>> /\ bornIn[Len(bornIn)] = xact THEN xact + 1 ELSE xact

\* A plan that nobody keeps does not outlive its transaction.
ReleasePlans ==
    plans' = [p \in PlannedStmts |-> IF plans[p].kind = "cached" THEN plans[p] ELSE NoPlan]

\* Commit ends the executors that are still open before the callback.
Commit ==
    /\ ~error
    /\ \A q \in QueryDescs : open[q] = NoQuery
    /\ \/ calls = <<>>
       \/ "commit" \in Environment /\ \A i \in 1..Len(calls) : calls[i].kind = "utility"
    /\ XactEndCallback
    /\ ReleasePlans
    /\ Emit(<<>>)
    /\ UNCHANGED <<mode, calls, open, error, bornIn>>

\* Abort frees the executors that are still open without ending them.
Abort ==
    /\ Orderly /\ calls = <<>>
    /\ XactEndCallback
    /\ ReleasePlans
    /\ open' = [q \in QueryDescs |-> NoQuery]
    /\ error' = FALSE
    /\ Emit(<<>>)
    /\ UNCHANGED <<mode, calls, bornIn>>

\* An error outside the executor: in the planner, a function or a utility command.
RaiseError ==
    /\ MayStart /\ calls # <<>>
    /\ error' = TRUE
    /\ Emit(<<>>)
    /\ UNCHANGED <<mode, stack, queryStates, plannerStates, calls, open,
                   plans, xact, bornIn>>

\* An exception block catches the error.  The executors its subtransaction opened
\* are freed without being ended, and no callback runs.
CatchError(freed) ==
    /\ error /\ calls # <<>> /\ Top.kind # "plan"
    /\ Close(freed)
    /\ error' = FALSE
    /\ Emit(<<>>)
    /\ UNCHANGED <<mode, stack, queryStates, plannerStates, calls, xact, bornIn>>

FreePlan(p) ==
    /\ plans[p] # NoPlan
    /\ \A q \in QueryDescs : open[q].plan # p
    /\ plans' = [plans EXCEPT ![p] = NoPlan]
    /\ Emit(<<>>)
    /\ UNCHANGED <<mode, stack, queryStates, plannerStates, calls, open,
                   error, xact, bornIn>>

SetMode(m) ==
    /\ ~error /\ mode # m
    /\ mode' = m
    /\ Emit(<<>>)
    /\ UNCHANGED <<stack, queryStates, plannerStates, calls, open, plans,
                   error, xact, bornIn>>

Next ==
    \/ \E text \in Texts : PlannerCall(text) \/ UtilityCall(text)
    \/ \E returned, kept \in PlannedStmts : PlannerReturn(returned, kept)
    \/ PlannerError
    \/ \E q \in QueryDescs :
          \/ \E p \in PlannedStmts : ExecutorStart(q, p) \/ ExecutorStartError(q, p)
          \/ ExecutorCall(q)
          \/ ExecutorEnd(q)
    \/ ExecutorReturn \/ ExecutorError
    \/ UtilityReturn
    \/ Commit \/ Abort
    \/ RaiseError \/ \E freed \in SUBSET Idle : CatchError(freed)
    \/ \E p \in PlannedStmts : FreePlan(p)
    \/ \E m \in Modes : SetMode(m)

Spec == Init /\ [][Next]_vars

-----------------------------------------------------------------------------
ContextType == [trace : Nat, parent : Int]
TextType == [trace : Nat, sampled : BOOLEAN]

\* Every variable stays within its type; the stack never outgrows its array.
TypeOK ==
    /\ mode \in Modes
    /\ stack \in Seq([trace : Nat, span : Nat]) /\ Len(stack) <= MaxActiveSpans
    /\ queryStates \in [QueryDescs -> [context : ContextType, id : Nat, index : Int]]
    /\ plannerStates \in
         [PlannedStmts -> [context : ContextType, id : Nat, hasSpan : BOOLEAN]]
    /\ emitted \in Seq([kind : {"query", "planner", "node", "utility"}, id : Nat,
                        context : ContextType, text : TextType, cause : Nat])
    /\ calls \in Seq([kind : {"plan", "run", "utility"}, query : QueryDescs \cup {"none"},
                      text : TextType, context : ContextType, id : Nat, index : Int,
                      cause : Nat])
    /\ open \in [QueryDescs -> [plan : PlannedStmts \cup {"none"}, cause : Nat]]
    /\ plans \in [PlannedStmts -> [text : TextType, cause : Nat,
                               kind : {"none", "one-shot", "cached"}]]
    /\ error \in BOOLEAN
    /\ xact \in Nat /\ bornIn \in Seq(Nat)
    /\ reported \subseteq Nat /\ parents \subseteq Nat /\ reportedTwice \in BOOLEAN

\* A statement is traced on its own account or on account of the statement that
\* caused it: the span of a text with a sampled traceparent has that caller as
\* parent, the span of a text without one has the statement it runs under.  The
\* context PlannerTraceState carries from plannerHook to executorStartHook is
\* that of the same statement.
ContextIsOwn ==
    \A i \in Statements(emitted) :
        LET span == emitted[i] IN
        IF span.text.trace # 0
        THEN span.text.sampled
               /\ span.context = [trace |-> span.text.trace, parent |-> -span.text.trace]
        ELSE span.cause # 0 /\ span.context.parent = span.cause

\* activeSpanStack is what it claims to be: the traced statements in progress, in
\* the order they were started, as many as fit.
StackMirrorsCalls ==
    LET idle == {q \in Idle : queryStates[q].id # 0}
        depth == Cardinality(Executing) + Cardinality(idle)
    IN  /\ Len(stack) = Fitting(depth)
        /\ \A i \in Executing : Depth(i) <= MaxActiveSpans =>
               stack[Depth(i)].span = calls[i].id
        /\ \A q \in idle : depth <= MaxActiveSpans =>
               stack[depth].span = queryStates[q].id

\* flushStoredPlannerSpan keeps a planner span next to its query span: whatever
\* is cached, copied, nested, interrupted or never executed, a planner span is
\* given to the queue right after the query span that is its parent.
PlannerSpanHasParent ==
    \A i \in 1..Len(emitted) : emitted[i].kind = "planner" =>
        /\ i > 1 /\ emitted[i - 1].kind = "query"
        /\ emitted[i].context = [trace |-> emitted[i - 1].context.trace,
                                 parent |-> emitted[i - 1].id]

\* No statement is reported twice: executorRunHook, executorFinishHook and
\* executorEndHook agree on who emits, and no two executions share a span id.
ReportedOnce == ~reportedTwice

\* When the backend is back at the top level, every span it parented below a
\* statement of its own has that statement's span in the export.
NoOrphans ==
    calls = <<>> /\ (\A q \in QueryDescs : open[q] = NoQuery) =>
        parents \subseteq reported

\* The transaction callback cuts every inheritance: no span has a parent that
\* belongs to an earlier transaction.
ParentInSameTransaction ==
    \A i \in Statements(emitted) :
        LET span == emitted[i] IN
        span.context.parent > 0 => bornIn[span.context.parent] = bornIn[span.id]

\* A statement is traced when span_generation says so: with all, when its text has
\* a sampled traceparent or, having none, it is started below a traced statement;
\* with top-level, when its text has one and no traced statement is executing.
EligibleIsTraced ==
    [][\A q \in QueryDescs :
         LET text == plans[open'[q].plan].text IN
         /\ open[q] = NoQuery /\ open'[q] # NoQuery
         /\ \/ mode = "all" /\ IF text.trace = 0 THEN Cause # 0 ELSE text.sampled
            \/ mode = "top-level" /\ text.trace # 0 /\ text.sampled /\ Executing = {}
         => queryStates'[q].id # 0]_vars
=============================================================================
