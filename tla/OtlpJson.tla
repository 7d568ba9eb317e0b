------------------------------ MODULE OtlpJson ------------------------------
(***************************************************************************)
(* The serializer that turns a batch of spans into the OTLP/JSON document  *)
(* the worker posts: otlpBatchBegin, otlpBatchAddSpan for every span, and  *)
(* otlpBatchFinish.  It writes text, so that nothing but care keeps the    *)
(* separators, the brackets and the quotes right.                          *)
(*                                                                         *)
(* A document is a sequence of tokens: punctuation, quotes, and between    *)
(* quotes the characters of a string, of which only those with a meaning   *)
(* in JSON matter.  An attribute of a span is its key and its value; for   *)
(* the values of a span, numbers, texts and flags are named once per kind. *)
(***************************************************************************)
EXTENDS Naturals, SequencesExt

Q == "\""
Backslash == "\\"

\* appendToJsonString: the escapes that RFC 8259 asks for
Escapes == [c \in {Q, Backslash, "LF", "CR", "TAB", "control"} |->
    CASE c = "LF" -> "n" [] c = "CR" -> "r" [] c = "TAB" -> "t"
      [] c = "control" -> "u0001" [] OTHER -> c]

Escaped(text) ==
    FlattenSeq([i \in DOMAIN text |->
        IF text[i] \in DOMAIN Escapes THEN <<Backslash, Escapes[text[i]]>> ELSE <<text[i]>>])

String(text) == <<Q>> \o Escaped(text) \o <<Q>>
Member(name, value) == <<Q, name, Q, ":">> \o value
Object(members) == <<"{">> \o members \o <<"}">>

\* A key is cut at its last dot, so that keys are equal when their parts are.
Attribute(prefix, name, kind, content) ==
    [key |-> <<prefix, name>>, kind |-> kind, content |-> content]
Integers(prefix, names) ==
    [i \in DOMAIN names |-> Attribute(prefix, names[i], "intValue", <<"integer">>)]
Doubles(prefix, names, x) ==
    [i \in DOMAIN names |-> Attribute(prefix, names[i], "doubleValue", <<x>>)]

If(condition, attributes) == IF condition THEN attributes ELSE <<>>
Text(prefix, name, text) == <<Attribute(prefix, name, "stringValue", text)>>
OptionalText(prefix, name, text) == If(text # <<>>, Text(prefix, name, text))
Flag(prefix, name, flag) ==
    <<Attribute(prefix, name, "boolValue", <<IF flag THEN "true" ELSE "false">>)>>

-----------------------------------------------------------------------------
BufferUsage(prefix) ==
    Integers(prefix, <<".shared_blks_hit", ".shared_blks_read", ".shared_blks_dirtied",
        ".shared_blks_written", ".local_blks_hit", ".local_blks_read", ".local_blks_dirtied",
        ".local_blks_written", ".temp_blks_read", ".temp_blks_written">>)
    \o Doubles(prefix, <<".shared_blk_read_seconds", ".shared_blk_write_seconds",
        ".local_blk_read_seconds", ".local_blk_write_seconds", ".temp_blk_read_seconds",
        ".temp_blk_write_seconds">>, "number")

WalUsage(prefix) == Integers(prefix, <<".records", ".fpi", ".bytes", ".buffers_full">>)

Jit(prefix) ==
    Integers(prefix, <<".created_functions">>)
    \o Doubles(prefix, <<".generation_seconds", ".deform_seconds", ".inlining_seconds",
                         ".optimization_seconds", ".emission_seconds">>, "number")

QueryAttributes(data) ==
    OptionalText("db.postgresql.statement", ".command", data.commandTag)
    \o If(data.hasResourceUsage, BufferUsage("db.postgresql.buffers") \o WalUsage("db.postgresql.wal"))
    \o If(data.hasJitFlags, Integers("db.postgresql.jit", <<".flags">>))
    \o If(data.hasJit, Jit("db.postgresql.jit"))
    \o If(data.hasWorkerJit, Jit("db.postgresql.jit.worker"))

PlannerAttributes(data) ==
    Text("db.postgresql.planner", ".command", data.commandTag)
    \o Integers("db.postgresql.planner", <<".cursor_options">>)
    \o If(data.hasPlanStats,
          Text("db.postgresql.plan", ".top_node_type", data.nodeType)
          \o Doubles("db.postgresql.plan", <<".startup_cost", ".total_cost", ".estimated_rows">>,
                     data.number)
          \o Integers("db.postgresql.plan", <<".estimated_width", ".node_count", ".max_depth",
                                             ".scan_count", ".join_count">>)
          \o Flag("db.postgresql.plan", ".parallel_mode_needed", data.flag)
          \o Flag("db.postgresql.plan", ".has_parallel_nodes", data.flag)
          \o Integers("db.postgresql.plan", <<".parallel_node_count", ".workers_planned",
                ".relation_rte_count", ".subquery_rte_count", ".function_rte_count", ".jit_flags">>))

UtilityAttributes(data) ==
    Text("db.postgresql.utility", ".command", data.commandTag)
    \o Text("db.postgresql.utility", ".context", data.context)

PlanNodeAttributes(data) ==
    Text("db.postgresql.plan", ".node_type", data.nodeType)
    \o Integers("db.postgresql.plan", <<".node_id">>)
    \o Doubles("db.postgresql.plan", <<".rows", ".loops", ".total_seconds", ".startup_seconds",
                 ".estimated_rows", ".startup_cost", ".total_cost">>, data.number)
    \o If(data.hasLoops, Doubles("db.postgresql.plan", <<".actual_rows_per_loop">>, data.number))
    \o Flag("db.postgresql.plan", ".parallel_aware", data.flag)
    \o Flag("db.postgresql.plan", ".parallel_safe", data.flag)
    \o OptionalText("db.postgresql.plan", ".relation_name", data.relationName)
    \o OptionalText("db.postgresql.plan", ".index_name", data.indexName)
    \o OptionalText("db.postgresql.plan", ".join_type", data.joinType)
    \o OptionalText("db.postgresql.plan", ".modify_operation", data.modifyOperation)
    \o BufferUsage("db.postgresql.plan.buffers") \o WalUsage("db.postgresql.plan.wal")
    \o If(data.hasGatherInfo,
          Integers("db.postgresql.parallel", <<".workers_planned", ".workers_launched">>)
          \o If(data.hasSingleCopy, Flag("db.postgresql.parallel", ".single_copy", data.flag)))
    \o If(data.hasWorkerSummary,
          Integers("db.postgresql.parallel", <<".worker_count", ".active_worker_count">>)
          \o Doubles("db.postgresql.parallel", <<".worker_rows", ".worker_loops",
                       ".worker_total_seconds", ".worker_max_seconds">>, data.number))

WorkerAttributes(data) ==
    Text("db.postgresql.plan", ".node_type", data.nodeType)
    \o Integers("db.postgresql.plan", <<".node_id">>)
    \o Integers("db.postgresql.parallel", <<".worker_index">>)
    \o Doubles("db.postgresql.parallel", <<".worker_rows", ".worker_loops",
                 ".worker_total_seconds", ".worker_startup_seconds">>, data.number)
    \o BufferUsage("db.postgresql.parallel.worker.buffers")
    \o WalUsage("db.postgresql.parallel.worker.wal")

\* serializeAttributes: which attributes a span has, in order
AttributesOf(span) ==
    Text("db", ".system", <<"postgresql">>)
    \o (CASE span.type = "query" -> QueryAttributes(span.data)
          [] span.type = "planning" -> PlannerAttributes(span.data)
          [] span.type = "utility" -> UtilityAttributes(span.data)
          [] span.type = "plan node" -> PlanNodeAttributes(span.data)
          [] span.type = "worker" -> WorkerAttributes(span.data))
    \o If(span.type \in {"plan node", "worker"}, Flag("pg_eatrace", ".timing_approximation", TRUE))
    \o If(span.status = "2", OptionalText("db.postgresql.error", ".sqlstate", span.sqlState)
                             \o OptionalText("db.postgresql.error", ".message", span.statusMessage))

-----------------------------------------------------------------------------
\* The value of an attribute.  Integers are strings in OTLP, and doubles that are no
\* numbers become strings.
NonFinite == {"NaN", "Infinity", "-Infinity"}
Value(attribute) ==
    Member(attribute.kind,
           IF \/ attribute.kind \in {"stringValue", "intValue"}
              \/ attribute.kind = "doubleValue" /\ attribute.content[1] \in NonFinite
           THEN String(attribute.content) ELSE attribute.content)

Written(attribute) ==
    Object(Member("key", String(attribute.key)) \o <<",">>
           \o Member("value", Object(Value(attribute))))

\* A writer is what was written so far and whether the next attribute is the first.

\* Slip: writing the first attribute does not make the next one the second.
WriteFirstAttribute(writer, attribute) ==
    [writer EXCEPT !.builder = @ \o Written(attribute)]

\* beginAttribute, the value, endAttribute
WriteAttribute(writer, attribute) ==
    [builder |-> writer.builder \o If(~writer.first, <<",">>) \o Written(attribute),
     first |-> FALSE]

SerializeAttributes(span) ==
    LET writer == FoldLeft(WriteAttribute, [builder |-> <<>>, first |-> TRUE], AttributesOf(span))
    IN  <<"[">> \o writer.builder \o <<"]">>

SpanKind(span) == IF span.type \in {"query", "utility"} THEN "2" ELSE "1"

Status(span) ==
    Object(Member("code", <<span.status>>)
           \o If(span.statusMessage # <<>>,
                 <<",">> \o Member("message", String(span.statusMessage))))

SerializeSpan(span) ==
    Object(Member("traceId", String(<<"traceId">>)) \o <<",">>
           \o Member("spanId", String(<<"spanId">>)) \o <<",">>
           \o Member("parentSpanId", String(<<"parentSpanId">>)) \o <<",">>
           \o Member("name", String(span.name)) \o <<",">>
           \o Member("kind", <<SpanKind(span)>>) \o <<",">>
           \o Member("startTimeUnixNano", String(<<"startTimeUnixNano">>)) \o <<",">>
           \o Member("endTimeUnixNano", String(<<"endTimeUnixNano">>)) \o <<",">>
           \o Member("attributes", SerializeAttributes(span))
           \o If(span.status # "0", <<",">> \o Member("status", Status(span))))

\* The resource has the service's name as its only attribute.
Resource ==
    Object(Member("attributes",
        <<"[">> \o Written(Attribute("service", ".name", "stringValue", <<"postgresql">>)) \o <<"]">>))

\* A batch is the document so far and the number of spans in it.
OtlpBatchBegin ==
    [spanCount |-> 0,
     builder |->
        <<"{">> \o Member("resourceSpans", <<"[", "{">>)
        \o Member("resource", Resource) \o <<",">>
        \o Member("scopeSpans", <<"[", "{">>)
        \o Member("scope", Object(Member("name", String(<<"pg_eatrace">>)) \o <<",">>
                                  \o Member("version", String(<<"0.0">>)))) \o <<",">>
        \o Member("spans", <<"[">>)]

OtlpBatchAddSpan(batch, span) ==
    [spanCount |-> batch.spanCount + 1,
     builder |-> batch.builder \o If(batch.spanCount > 0, <<",">>) \o SerializeSpan(span)]

OtlpBatchFinish(batch) == batch.builder \o <<"]", "}", "]", "}", "]", "}">>

\* exportOneBatch: the document for the spans it took
Document(spans) == OtlpBatchFinish(FoldLeft(OtlpBatchAddSpan, OtlpBatchBegin, spans))
=============================================================================
