--------------------------- MODULE MCConversions ---------------------------
(* Arguments for the functions of Conversions: every short text and URL,      *)
(* every plan of up to three nodes and two taller ones, and for each kind of  *)
(* span one with everything optional, one with nothing, and the texts and     *)
(* numbers that JSON cannot take as they are.                                 *)
EXTENDS Conversions

Value(parentSpanId, flags) ==
    [length |-> 55, dashes |-> TRUE, version |-> 0, traceId |-> 1,
     parentSpanId |-> parentSpanId, flags |-> flags]

SomeValues == [v1 |-> Value(1, 1), v2 |-> Value(2, 0), v3 |-> Value(0, 1)]

Commented(value) == <<Trace!Key, value, Trace!Quote>>
SomeWords == {<<"/*">>, <<"*/">>, <<Trace!Key>>, <<Trace!Quote>>}
                \cup {Commented(value) : value \in DOMAIN SomeValues}
DollarWords == {<<"/*">>, <<"*/">>, <<"$$">>, Commented("v1")}

-----------------------------------------------------------------------------
\* The fields in which PostgreSQL's planner puts the children of a node
FieldsOf(kind) ==
    {"initPlan"} \cup (CASE kind = "join" -> {"outer", "inner"}
                         [] kind \in Stats!ListKinds -> {"list"}
                         [] kind = "subquery scan" -> {"subplan"}
                         [] kind = "scan" -> {}
                         [] OTHER -> {"outer"})

IsPlan(plan) ==
    \A n \in 2..plan.size :
        /\ plan.up[n] \in 1..(n - 1) /\ plan.link[n] \in FieldsOf(plan.kind[plan.up[n]])
        /\ plan.link[n] \in {"list", "initPlan"} \/
           \A m \in 2..(n - 1) : plan.up[m] # plan.up[n] \/ plan.link[m] # plan.link[n]

Plans(size) ==
    {plan \in [size : {size}, up : {<<0>> \o up : up \in [1..(size - 1) -> 1..(size - 1)]},
               link : {<<"outer">> \o link : link \in [1..(size - 1) -> Stats!Links]},
               kind : [1..size -> {"scan", "subquery scan", "append", "join", "gather", "other"}],
               aware : {[n \in 1..size |-> n \in aware] : aware \in {{1}, 2..size}},
               workers : {[n \in 1..size |-> n]}] : IsPlan(plan)}

Tall(kinds, ups, links) ==
    [size |-> Len(kinds), up |-> ups, link |-> links, kind |-> kinds,
     aware |-> [n \in DOMAIN kinds |-> kinds[n] = "scan"],
     workers |-> [n \in DOMAIN kinds |-> n]]

TallPlans ==
    {Tall(<<"gather merge", "append", "subquery scan", "join", "scan", "scan", "custom scan">>,
          <<0, 1, 2, 3, 4, 4, 2>>,
          <<"outer", "outer", "list", "subplan", "outer", "inner", "list">>),
     Tall(<<"other", "gather", "join", "bitmap", "scan", "scan", "other", "scan">>,
          <<0, 1, 2, 3, 4, 4, 3, 1>>,
          <<"outer", "outer", "outer", "outer", "list", "list", "inner", "initPlan">>)}

SomeStatements ==
    {[plan |-> plan, rtable |-> <<"relation", "subquery", "relation">>] :
        plan \in {[size |-> 0]} \cup UNION {Plans(n) : n \in 1..3} \cup TallPlans}

SomeInstruments == [loops : 0..1, rows : {1}, total : 0..2]

-----------------------------------------------------------------------------
Awkward == <<"text", Otlp!Q, Otlp!Backslash, "LF", "CR", "TAB", "control", "}">>

Data(some, text, number) ==
    [hasResourceUsage |-> some, hasJitFlags |-> some, hasJit |-> some, hasWorkerJit |-> some,
     hasPlanStats |-> some, hasGatherInfo |-> some, hasSingleCopy |-> some,
     hasWorkerSummary |-> some, hasLoops |-> some, flag |-> some,
     commandTag |-> text, context |-> text, nodeType |-> text, relationName |-> text,
     indexName |-> text, joinType |-> text, modifyOperation |-> text, number |-> number]

SomeData == {Data(FALSE, <<>>, "NaN"), Data(TRUE, <<"text">>, "number"),
             Data(TRUE, <<"text">>, "-Infinity")}

Outcomes == {[status |-> "0", text |-> <<>>], [status |-> "2", text |-> <<>>],
             [status |-> "2", text |-> Awkward]}

SomeSpans ==
    {[type |-> type, status |-> outcome.status, sqlState |-> outcome.text,
      statusMessage |-> outcome.text, name |-> Awkward, data |-> data] :
        type \in {"query", "planning", "utility", "plan node", "worker"},
        outcome \in Outcomes, data \in SomeData}
=============================================================================
