---------------------------- MODULE Conversions ----------------------------
(***************************************************************************)
(* The functions of pg_eatrace that compute something from their arguments *)
(* alone, called one after the other: which trace a statement belongs to,  *)
(* where the collector is, what the planner span says of a plan and a plan *)
(* node span of its workers, when the spans of a statement begin, and the  *)
(* document they are posted in.  The invariants compare what a call        *)
(* returned with what it should be, said in another way than the code goes *)
(* about it.                                                               *)
(***************************************************************************)
EXTENDS Integers, SequencesExt

CONSTANTS
    Values, Words, MaxText,        \* TraceParent, and what texts are made of
    Numbers, Names, HostSize, PortSize, PathSize, MaxUrl,   \* CollectorUrl
    PlannedStatements, Instruments, MaxWorkers,             \* PlanStatistics
    MaxTime,                                                \* SpanTimes
    Spans, MaxBatch                                         \* OtlpJson

Trace == INSTANCE TraceParent
Url == INSTANCE CollectorUrl
Stats == INSTANCE PlanStatistics
Times == INSTANCE SpanTimes
Otlp == INSTANCE OtlpJson
Json == INSTANCE JsonReader

ASSUME ConversionsAssumption ==
    /\ Words \subseteq Seq(Trace!Marks \cup DOMAIN Values)
    /\ "80" \in Numbers /\ Numbers \cap Url!Punctuation = {}
    /\ \A size \in {HostSize, PortSize, PathSize} : size \in Nat /\ size > 1
    /\ \A n \in {MaxText, MaxUrl, MaxWorkers, MaxTime, MaxBatch} : n \in Nat

\* A plan tree as PlanStatistics numbers its nodes, parents first.
IsPlanTree(plan) ==
    /\ plan.size \in Nat \ {0}
    /\ DOMAIN plan.up = 1..plan.size
    /\ plan.up[1] = 0 /\ \A n \in 2..plan.size : plan.up[n] \in 1..(n - 1)
    /\ plan.aware \in [1..plan.size -> BOOLEAN]
    /\ plan.workers \in [1..plan.size -> Nat]

ASSUME StatisticsAssumption ==
    /\ \A statement \in PlannedStatements :
          statement.plan.size = 0 \/ IsPlanTree(statement.plan)
    /\ Instruments \subseteq [loops : Nat, rows : Nat, total : Nat]

\* A text is made of any characters; a number that is no number is named.
IsSpan(span) ==
    /\ span.type \in {"query", "planning", "utility", "plan node", "worker"}
    /\ span.status \in {"0", "1", "2"}
    /\ {span.name, span.sqlState, span.statusMessage} \subseteq Seq(STRING)
    /\ {span.data.commandTag, span.data.context, span.data.nodeType, span.data.relationName,
        span.data.indexName, span.data.joinType, span.data.modifyOperation} \subseteq Seq(STRING)
    /\ span.data.number \in {"number"} \cup Otlp!NonFinite
    /\ {span.data.hasResourceUsage, span.data.hasJitFlags, span.data.hasJit,
        span.data.hasWorkerJit, span.data.hasPlanStats, span.data.hasLoops,
        span.data.hasGatherInfo, span.data.hasSingleCopy, span.data.hasWorkerSummary,
        span.data.flag} \subseteq BOOLEAN

ASSUME DocumentAssumption == \A span \in Spans : IsSpan(span)

VARIABLES
    call,     \* the function that was called, and its arguments
    result    \* what it returned

vars == <<call, result>>

NoCall == [function |-> "none"]
NoResult == <<>>

Strings(tokens, length) == UNION {[1..n -> tokens] : n \in 0..length}

Init == call = NoCall /\ result = NoResult

Call(function, arguments, value) ==
    /\ call' = [function |-> function, arguments |-> arguments]
    /\ result' = value

FindTraceParent ==
    /\ call = NoCall
    /\ \E words \in Strings(Words, MaxText) :
          LET text == FlattenSeq(words) IN
          Call("traceparent", text, Trace!ParseTraceParentFromQuery(text))

ParseUrl ==
    /\ call = NoCall
    /\ \E rest \in Strings(Url!Tokens, MaxUrl), scheme \in {Url!Http, "https://"} :
          Call("url", <<scheme>> \o rest, Url!ParseHttpUrl(<<scheme>> \o rest))

DescribePlan ==
    /\ call = NoCall
    /\ \E statement \in PlannedStatements :
          Call("plan", statement, Stats!FillPlannerPlanStats(statement))

SummariseWorkers ==
    /\ call = NoCall
    /\ \E instruments \in Strings(Instruments, MaxWorkers) :
          Call("workers", instruments, Stats!FillParallelWorkerSummary(instruments))

\* The start of a query span, of a plan node's, and of one's below that ran no longer;
\* a statement began in the past unless the clock was set back.
PlaceSpans ==
    /\ call = NoCall
    /\ \E hasPlannerState \in BOOLEAN, startTime, end, total, node \in 0..MaxTime :
       \E below \in 0..node :
          LET start == Times!QueryStartNs(hasPlannerState, startTime, end, total) IN
          Call("times",
               [hasPlannerState |-> hasPlannerState, startTime |-> startTime, end |-> end,
                node |-> node, below |-> below],
               [query |-> start,
                node |-> Times!PlanNodeStartNs(start, end, node),
                below |-> Times!PlanNodeStartNs(start, end, below)])

Serialize ==
    /\ call = NoCall
    /\ \E spans \in Strings(Spans, MaxBatch) \ {<<>>} :
          Call("document", spans, Otlp!Document(spans))

Return == call # NoCall /\ call' = NoCall /\ result' = NoResult

Next == \/ FindTraceParent \/ ParseUrl \/ DescribePlan \/ SummariseWorkers
        \/ PlaceSpans \/ Serialize
        \/ Return

Spec == Init /\ [][Next]_vars

-----------------------------------------------------------------------------
\* A statement is traced with the context that PostgreSQL itself would call commented:
\* where every comment mark is one, the scan for marks and keys finds the first comment
\* whose first traceparent is well formed, takes nothing from outside of the comments,
\* and misses none.
TraceParentIsCommented ==
    call.function = "traceparent" =>
        (Trace!IsStatement(call.arguments) /\ Trace!IsPlain(call.arguments) =>
            result = Trace!FirstCommented(call.arguments))

\* What the comment in parseTraceParentFromQueryWithSampling promises: a value in a
\* string literal or elsewhere in the SQL text is not mistaken for trace context.
LiteralIsNoContext ==
    call.function = "traceparent" =>
        (Trace!IsStatement(call.arguments) /\ result.found =>
            \E i \in 1..Len(call.arguments) :
                /\ call.arguments[i] \in DOMAIN Values
                /\ Trace!Places(call.arguments)[i] \in {"comment", "inner comment"})

UrlsWithParts == UNION {Url!Spellings(parts) : parts \in Url!Parts}

\* The collector's URL is taken apart into what it was written from: exactly the ways to
\* write some host, port and path that fit their buffers are accepted, no part loses or
\* gains anything, and the Host header that is sent names the same host and port.
UrlIsItsParts ==
    call.function = "url" =>
        /\ result.valid <=> call.arguments \in UrlsWithParts
        /\ result.valid =>
              /\ call.arguments \in Url!Spellings(result)
              /\ LET same == Url!ParseHttpUrl(<<Url!Http>> \o Url!HostHeader(result)) IN
                 Url!IsAddress(result.host) => same = [result EXCEPT !.path = Url!DefaultPath]

\* The nodes the planner span counts, found from below: those from which every step up
\* is one the planner statistics go down.
Above(plan) ==
    LET above[n \in 0..plan.size] == IF n = 0 THEN {} ELSE {n} \cup above[plan.up[n]]
    IN  above
IsFollowed(plan, n) ==
    \/ plan.up[n] = 0 \/ plan.link[n] \in {"outer", "inner"}
    \/ plan.link[n] = "list" /\ plan.kind[plan.up[n]] \in Stats!ListKinds
    \/ plan.link[n] = "subplan" /\ plan.kind[plan.up[n]] = "subquery scan"
Reached(plan) == {n \in 1..plan.size : \A m \in Above(plan)[n] : IsFollowed(plan, m)}

StatsOf(plan) ==
    LET reached == Reached(plan)
        gathers == {n \in reached : plan.kind[n] \in Stats!GatherKinds}
        Count(nodes) == Cardinality(nodes \cap reached)
    IN  [nodeCount |-> Cardinality(reached),
         maxDepth |-> Max({Cardinality(Above(plan)[n]) : n \in reached}),
         scanCount |-> Count({n \in reached : plan.kind[n] \in Stats!ScanKinds}),
         joinCount |-> Count({n \in reached : plan.kind[n] = "join"}),
         parallelNodeCount |-> Cardinality(gathers) + Count({n \in reached : plan.aware[n]}),
         workersPlanned |-> MapThenSumSet(LAMBDA n : plan.workers[n], gathers)]

IsSummaryOf(instruments, summary) ==
    LET active == {i \in DOMAIN instruments : instruments[i].loops > 0} IN
    /\ summary.workerCount = Len(instruments)
    /\ summary.activeWorkerCount = Cardinality(active)
    /\ summary.total = MapThenSumSet(LAMBDA i : instruments[i].total, active)
    /\ summary.max = Max({0} \cup {instruments[i].total : i \in active})

\* The planner statistics count every node of the plan tree once, at its own depth, and
\* nothing else, the plans of InitPlans not, and a Gather as parallel for itself and once
\* more when it is parallel aware.  The summary of a node's workers is about those that
\* ran it, which are the ones that get a span of their own.
StatisticsAreExact ==
    /\ call.function = "plan" =>
          /\ result.hasPlanStats <=> call.arguments.plan.size > 0
          /\ result.hasPlanStats => result.stats = StatsOf(call.arguments.plan)
    /\ call.function = "workers" => IsSummaryOf(call.arguments, result)

\* Spans that are nested are nested in time, although most of their times are reckoned:
\* as long as the clock was not set back during the statement, nothing begins before the
\* query or ends before it began, and nothing begins before what it is below.
NestedInTime ==
    call.function = "times" =>
        (call.arguments.startTime <= call.arguments.end /\ call.arguments.node <= call.arguments.end =>
            /\ result.query <= result.node
            /\ result.node <= result.below
            /\ result.below <= call.arguments.end)

\* What a document says of the spans in it, as the reader would put it
StringRead(text) == <<"string", text>>
BareRead(token) == <<"bare", token>>
Read(name, value) == <<StringRead(<<name>>), value>>
IdRead(name) == Read(name, StringRead(<<name>>))

AttributeRead(attribute) ==
    <<"object", <<Read("key", StringRead(attribute.key)),
                  Read("value", <<"object", <<Read(attribute.kind,
                      IF \/ attribute.kind = "boolValue"
                         \/ attribute.kind = "doubleValue" /\ attribute.content = <<"number">>
                      THEN BareRead(attribute.content[1])
                      ELSE StringRead(attribute.content))>>>>)>>>>

SpanRead(span) ==
    LET attributes == Otlp!AttributesOf(span)
        message == IF span.statusMessage = <<>> THEN <<>>
                   ELSE <<Read("message", StringRead(span.statusMessage))>>
        status == IF span.status = "0" THEN <<>>
                  ELSE <<Read("status",
                         <<"object", <<Read("code", BareRead(span.status))>> \o message>>)>>
    IN  <<"object",
          <<IdRead("traceId"), IdRead("spanId"), IdRead("parentSpanId"),
            Read("name", StringRead(span.name)),
            Read("kind", BareRead(Otlp!SpanKind(span))),
            IdRead("startTimeUnixNano"), IdRead("endTimeUnixNano"),
            Read("attributes",
                 <<"array", [i \in DOMAIN attributes |-> AttributeRead(attributes[i])]>>)>>
          \o status>>

\* The collector looks into the second member of the only resource span, and there into
\* the second of the only scope span.
SpansRead(document) ==
    LET resourceSpan == Json!Parsed(document)[2][1][2][2][1]
        scopeSpan == resourceSpan[2][2][2][2][1]
    IN  scopeSpan[2][2]

\* The collector reads from a document the spans that were put into it, each with all its
\* attributes, whatever texts, optional parts and numbers it has, and no attribute twice.
DocumentReadsBack ==
    call.function = "document" =>
        /\ Json!Parsed(result)[1] = "object"
        /\ SpansRead(result) =
              Read("spans", <<"array", [i \in DOMAIN call.arguments |-> SpanRead(call.arguments[i])]>>)
        /\ \A i \in DOMAIN call.arguments :
              LET attributes == Otlp!AttributesOf(call.arguments[i]) IN
              \A j, k \in DOMAIN attributes : attributes[j].key = attributes[k].key => j = k
=============================================================================
