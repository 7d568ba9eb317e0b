# pg_eatrace: specification and verification

pg_eatrace is a PostgreSQL extension that turns statements carrying a W3C
`traceparent` comment into spans and exports them to an OTLP collector.  This
directory holds TLA+ models of its concurrent and stateful parts, TLC
configurations that check them on small instances, and TLAPS proofs of what
holds for every instance.

    tlc  -workers 2 -config MCSpanRing.cfg MCSpanRing     # any run below
    tlapm SpanRingProofs.tla                              # likewise the other proof modules

`PROJECT.json` lists the components, runs, findings, hazards and theorems, and
maps every definition that models code to the lines it models.


## 1. The system

    client backend (many)                          export worker (one)
    plannerHook, executor hooks, utility hook      workerMain: drain, sleep
      trace state tables, active-span stack          |  dequeueSpanBatch
            | enqueueSpan                            v
            v                                      httpPostJson --> collector
       +--------------------------------------------------+
       | shared memory: span ring, counters, one LWLock   |<-- pg_eatrace_status()
       +--------------------------------------------------+

| component | state it keeps | operations | models |
|---|---|---|---|
| span queue (`pg_eatrace_queue.c`, `_status.c`) | ring of `max_spans` slots, two indexes, count, six counters, last result, one LWLock; in shared memory | `enqueueSpan` (backends), `dequeueSpanBatch`, `recordExportSuccess/Failure` (worker), `getQueueStatus` (SQL function), initialisation | `SpanRing`, `SpanQueue` |
| backend hooks and trace state (`pg_eatrace.c`, `_trace_state.c`, `_query_span.c`) | per backend: stack of 64 active spans, a hash table keyed by `QueryDesc*`, one keyed by `PlannedStmt*`, settings | planner, executor start/run/finish/end and utility hooks, transaction callback | `BackendHooks` |
| export worker (`pg_eatrace_worker.c`) | settings, two signal flags, the process latch, span buffer | main loop: reload, drain, sleep; signal handlers | `ExportWorker` |
| HTTP client (`pg_eatrace_http.c`) | one socket, deadlines, result, all local to a call | take the URL apart, resolve, connect to each address, send, read status, drain, close | `HttpClient`, `CollectorUrl` |
| traceparent parser (`_trace_context.c`) | none | scan comments, parse, generate ids | `TraceParent` |
| plan node spans (`_plan.c`) | the parent handed down the walk | walk of the plan tree, spans of nodes and workers, summary of workers | `SpanPipeline`, `SpanTimes`, `PlanStatistics` |
| planner statistics (`_planner.c`) | counters under construction | recursion over the plan | `PlanStatistics` |
| OTLP/JSON serializer (`_otlp_json.c`) | string under construction, first flag, span count | begin, add span, finish | `OtlpJson` |
| span builders (`_span.c`, `_utility_span.c`), error capture (`_error.c`) | none | fill a span | identity, parent and status only |

The modules build on each other: `SpanRing` implements `SpanQueue`, which is the queue
of `SpanPipeline`, where the spans of `BackendHooks`' statements go through the walk of
the plan, the queue and the export; `HttpClient`'s call is one step of `ExportWorker`
and of `SpanPipeline`; `Conversions` calls the functions without state.

How they interact.  A backend's hooks call `enqueueSpan`, which waits for the
LWLock and nothing else: on a full ring the new span is dropped and counted.  The
worker sleeps on its latch with a timeout, takes spans in batches, builds one
document per batch and posts it.  Postmaster and administrators reach the worker
through SIGHUP and SIGTERM, whose handlers set a flag and the latch.  Between
backends and worker there is no other communication, and no acknowledgement: a
batch that could not be posted is gone.

Where it is hard:

* *Concurrency* in the ring: check, store, index and count are separate
  statements, of several processes, over memory that a crash of any of them may
  make the postmaster rebuild.
* *Callbacks and unwinding* in the hooks: PostgreSQL nests them, interrupts them
  with errors, catches those errors halfway (exception blocks), keeps executors
  open while others run (cursors), recycles the addresses that key the tables,
  and may commit in the middle of a CALL.
* *Signals and latches* in worker and client: both wait on the same latch and both
  reset it, so a wake-up that was meant for one is consumed by the other.
* *Deadlines* in the client, over several addresses, partial reads and wake-ups
  that restart every wait.
* *Partial failure*: a batch is counted as dequeued before it is exported.

What makes each component correct.  Queue: a linearisable first-in first-out
queue that drops the newest, loses no span without counting it, and reports
consistent snapshots.  Hooks: every eligible statement is traced exactly once,
under its own trace context, and no parent is missing from the export.  Worker: no
request is slept over or lost, one failure ends a wake-up, shutdown is obeyed, the
queue is served.  Client: no wait outlives its deadline, every call returns,
sockets are closed, the result says what happened.  Pipeline: a trace has the shape of
the executed plan, a gap in it is a loss that was counted, nothing is exported twice.
Functions: each computes what can be said of its result without saying how.

`PROJECT.json`, "hazards", lists at each line what could go wrong and which
property looks for it.


## 2. The modules

Every module splits its actions where the code can be interrupted in a way that
somebody else may notice, and nowhere else.  Definitions that begin with "Slip:"
are not part of any specification: each is a plausible mistake in the action after
it, and each property is known to fail when some slip takes that action's place
(`PROJECT.json`, "mutants").

### SpanQueue and SpanRing

`SpanQueue` is the promise: a sequence, a batch in flight and four counters, with
one action per call.

`SpanRing` is the code, statement by statement.  `backendPc[b]` walks through
`enqueueSpan` (`acquire`, `check`, `count`, `release`), `workerPc` through
`dequeueSpanBatch` (`acquireTake`, `take`, `uncount`), the request (`holding`) and
`recordExport*` (`acquireRecord`, `record`, `recordLast`, `releaseRecord`),
`readerPc[r]` through `getQueueStatus`, which copies in two steps.  Moving a count
and moving an index are different steps, so what the lock buys is checked rather
than assumed.  `exclusive` and `sharers` are the LWLock.  A span is the number of
the call that offered it.  `WorkerDies` is an error that ends the worker between
taking and recording a batch; `PostmasterReinit` is a crash anywhere, also inside
a critical section, after which the segment starts from zero.

The refinement `ImplementsQueue` maps the ring to the queue: the slots between the
indexes are the sequence; a batch leaves, as one step, when `dequeueSpanBatch`
gives the lock back; it is settled when its counter changes.

### BackendHooks

One backend.  `stack` is `activeSpanStack`, `queryStates` and `plannerStates` are
the tables, with the addresses of `QueryDesc` and `PlannedStmt` as model values so
that they can be freed and used again.  PostgreSQL is the environment: `calls` is
the C call stack of hooks in progress, with what each keeps in local variables,
`open` the started executors, `plans` the plans in memory (one-shot, or kept by the
plan cache), `error` that an error is unwinding.  A statement is its text, and a
text is its trace (0 for no traceparent) and whether it is sampled.  `emitted` holds
the spans the last step gave to `enqueueSpan`, in order.

`cause` is history: the statement whose execution started this one.  It is what the
code means to find on top of its stack, kept independently of that stack.
`reported`, `parents` and `bornIn` are history as well.

PostgreSQL's less orderly habits are named, and a configuration allows some of them:
`suspend` (statements run while another executor is open: cursors, portals),
`copy` (the plan cache copies a plan and frees the original), `recycle` (a plan is
allocated at the address of a freed one), `commit` (a procedure commits in its CALL).

Abstracted: times, resource usage, error texts and the `spanEmitted` flag (every
path that sets it deletes the state in the same hook), and the plan node spans, which
are one span here.  Parallel workers have no place of their own: the code disables
tracing in them, which is `mode = "none"`.

### ExportWorker

`pc` is the place in `workerMain` and `drainAndExportBatches`; `latch`,
`shutdownPending` and `reloadPending` are what the signal handlers set, at any
moment.  `file`, `signalled` and `active` are the configuration file, the
configuration of the last SIGHUP and the one the worker has; reading the file and
clearing the flag are separate steps.  The queue is its length and a dequeue one step
(that is what `SpanRing` implements).  One POST is one step, `PostConsumesLatch`
being what `waitSocketReady` does to the latch meanwhile.  `Crash` is an error in the
worker, `Restart` the postmaster's answer to it.  A worker that exits with code 0
stays `stopped`: the postmaster does not start it again, also when it was
`pg_terminate_backend` that sent the SIGTERM.

### HttpClient

One call of `httpPostJson` after another, with time.  `check` and `blocked` are
`waitSocketReady` before and inside `WaitLatchOrSocket`; `phase` says what for.
`now` is the time since `startMs`; it passes while the client is blocked or resolves
the host, and by at most one unit while a chunk is moved.  The network may
refuse, delay, break or answer at each call; `body` is what the collector will still
send after its status line.

### SpanPipeline

The composition.  `pc[b]` is a backend's place in the flush of a statement that ends:
its query span, its planner span, then the walk of its plan.  A plan is a tree whose
nodes are numbered in the order of the walk; `handed[b][n]` is what
`enqueuePlanNodeSpan` left in `childParentOut` for node `n`: the node itself, or what it
was handed when it did not run.  Each offered span is one step, so that another
backend, the worker, a failed post and a crash come in between.  The queue is
`SpanQueue`, whose actions are used as they are.  A post may reach the collector and
fail all the same (`Post`): its answer was lost, or was no success.  `WorkerCrash` loses
the batch, `Restart` everything in shared memory and the backends' unfinished work.
`delivered` and `lost` are history: they say where each span that left the queue went.
Span ids are taken to be unique: a span is known by statement, node and worker.

### Conversions and the functions it calls

`Conversions` has one action per function, which calls it with every argument of a
bounded set; the invariants compare the result with a definition that goes about it in
another way.

* `TraceParent`: a text is a sequence of tokens (comment marks, key, quotes, values);
  the reference reads it as PostgreSQL's lexer does, from left to right with a state.
* `CollectorUrl`: the reference writes URLs from parts instead of reading them.
* `PlanStatistics`: the reference goes from each node upwards and asks whether the
  recursion would have come down that way.
* `SpanTimes`: the reference is that spans nest in time.
* `OtlpJson`: a document is a sequence of tokens; the reference is `JsonReader`, which
  takes one token after the other by the grammar of RFC 8259, with a stack of what is
  open, and must get the spans back.


## 3. What is checked

Two worker threads explore each run in less than two minutes.

| run | configuration | properties | instance |
|---|---|---|---|
| `ring_safety` | `MCSpanRing.cfg` | `TypeOK LockExclusion RingConsistent NothingLost ExportedWereDequeued HeldOnce StatusIsSnapshot`, refinement `ImplementsQueue` | 2 backends, 1 reader, ring of 2, batches up to 2, 4 spans |
| `ring_liveness` | `MCSpanRingLive.cfg` | `LockReleased EnqueueReturns` | 2 backends, 2 readers, ring of 1 |
| `hooks_orderly` | `MCBackendHooks.cfg` | `TypeOK ContextIsOwn StackMirrorsCalls EligibleIsTraced` | all modes, 3 texts, stack of 1, 2 nested calls, plan cache |
| `hooks_nested` | `MCBackendHooksDeep.cfg` | `ReportedOnce NoOrphans` | stack of 2, 3 nested calls |
| `hooks_any_environment` | `MCBackendHooksLoose.cfg` | `PlannerSpanHasParent ParentInSameTransaction` | cursors, recycled addresses, commits in a CALL |
| `worker` | `MCExportWorker.cfg` | `TypeOK NoSleepOnPendingSignal BatchFitsBuffer ReloadNotLost OneFailurePerWakeup SignalsServed QueueServed` | queue of 2, batch sizes 1 to 3, 2 edits of the file |
| `http_client` | `MCHttpClient.cfg` | `TypeOK NoWaitPastDeadline NoWaitOverShutdown ResultConsistent SocketsClosed CallReturns` | 2 addresses, timeouts 2 and 4, 2 signals per call |
| `span_pipeline` | `MCSpanPipeline.cfg` | `TypeOK TraceIsFaithful OrphansAreLosses ExportedAtMostOnce` | 2 backends, queue of 2, batches up to 2, 2 statements over 3 shapes, 1 fault |
| `conversions` | `MCConversions.cfg` | `TraceParentIsCommented UrlIsItsParts StatisticsAreExact NestedInTime DocumentReadsBack` | texts of 6 words, URLs of 6 tokens after the scheme, plans of 3 nodes and two taller ones, times to 5, batches of 2 spans |

Why the bounds are enough.  *Ring*: four spans through two slots wrap both indexes,
fill the ring, drop on it and empty it in batches and partial batches; two backends
meet at the lock with the worker and a reader there; a third backend would only queue
for the same lock.  A ring of one slot, where the indexes are always equal, is in
`ring_liveness`.  *Hooks*: a stack of one frame overflows with the second traced
statement, so push without room and pop with index -1 happen all the time; with a
stack of two and three calls a statement, one nested in it and one nested in that
fail and unwind in every combination; two addresses of each kind suffice for reuse.
`MaxIds` bounds the spans, not the statements, so untraced work goes on.  *Worker*: a
batch size above, at and below what is queued; two edits let a second reload overtake
the first.  The queue and the signals have no other bound.  *Client*: the connect
deadline passes before, during and after the second address; chunks take time, so the
total deadline is hit in each phase.  *Pipeline*: the plans have a node that did not run
in the middle and one at the root, a worker's span, and a statement that failed after
planning; five spans do not fit a queue of two, so that any of them may be dropped,
and a batch may hold spans of two traces.  One fault strikes at every point; the proofs
of section 4 are about any number.  *Functions*: a text holds a comment that opens,
closes, opens again and has two keys; buffers of two tokens are missed, filled and
exceeded by the URLs; the taller plans have each kind of child field; a batch of two
has a separator, and each kind of span comes with every optional part and with none,
with texts that need every escape and numbers that are none.

Deadlock is checked in the ring, hooks and worker runs and in `conversions`.  It is off
in the HTTP runs, whose worker makes no further call once shutdown was requested, and in
`span_pipeline`, which comes to rest when its statements are used up and exported.

### Fairness

* `SpanRing`: a process in the middle of a call is scheduled (weak fairness), and
  the LWLock's wait queue keeps no one out for ever when the lock is free again and
  again (strong fairness of the acquire steps).  Nobody has to make a call.
  `EnqueueReturns` carries the proviso that status readers do not overlap each other
  without end: an LWLock held shared can be joined by later readers.
* `ExportWorker`: the worker is scheduled, a POST ends (that is `CallReturns`), a
  crashed worker is restarted.  Signals, spans and crashes are never obliged to come,
  and may come for ever.  `QueueServed` excludes a worker that crashes over and over.
  `SignalsServed` promises a shutdown against any load except in log mode, whose loop
  looks at no flag until the queue is empty; there, and for a reload, it promises an
  answer once no more spans are offered.
* `HttpClient`: the process is scheduled, `getaddrinfo` returns, time passes.
  Nothing is promised of the collector: no socket need ever become ready.

### Findings

Three runs are expected to fail.  Each checks one sentence of the repository's own
documents or comments against the model.

* `hooks_recycled_plan` (code): `executorStartHook` adopts whatever planner state is
  keyed by the plan's address, before its clean-up of stale state is reached.  Planned
  with a traceparent, copied by the plan cache, the original freed; a plan allocated
  there in the same transaction is then reported as the earlier statement.
* `traceparent_in_literal` (code): the scan for comments knows no literals.  A comment
  in a dollar-quoted string is taken for the statement's own, which
  `src/pg_eatrace_trace_context.c:144-146` says it is not.
* `http_endless_response` (document): `drainResponse` looks at the shutdown flag and
  the deadline only when there is nothing to read.

Met on the way, and without a run of their own:

* a frame stays on the stack while a cursor is open, so that a later client statement
  without traceparent becomes its child with `span_generation = all`
  (`docs/cnpg_image_volume_usage.md:219-220` says otherwise); `ContextIsOwn` fails when
  `suspend` is allowed, which `hooks_orderly` does not;
* a commit inside a procedure empties the stack under its CALL, and what the procedure
  runs afterwards is not traced (`docs/extension_forward_overview.md:127`);
  `EligibleIsTraced` fails when `commit` is allowed;
* `httpPostJson` returns true after the status line, also when the rest never came
  (`include/pg_eatrace_http.h:20-21`: "a complete HTTP response");
* a planner span is offered right after its query span, "so the parent is always present
  in the export" (`src/pg_eatrace_query_span.c:14-16`); a queue that is full for the one
  may have room for the other, and the batch boundary may lie between them:
  `OrphansAreLosses` says what does hold;
* the planner span counts the nodes of the plan without those of InitPlans and
  SubPlans, while the plan node spans walk those too, so that the count and the spans of
  a statement differ;
* the overview still says that a wake-up makes one request
  (`docs/extension_forward_overview.md:40`), while the worker drains the backlog; a
  reload waits until a drain ends, which under sustained load with a healthy collector it
  need not; a name server that does not answer blocks the worker in `getaddrinfo`, out of
  reach of deadline and latch; what is queued when the worker stops stays there.


## 4. What is proved

With TLAPS, as theorems of each `Spec` and so without any fairness:

| module | theorem | invariant |
|---|---|---|
| `SpanRingProofs` | `TypeCorrect` | `TypeOK` |
| | `MutualExclusion` | `LockExclusion` |
| | `RingStaysConsistent` | `RingConsistent` |
| | `SpansAreAccountedFor` | `NothingLost` |
| | `ExportsAreDequeued` | `ExportedWereDequeued` |
| | `StatusIsOneMoment` | `StatusIsSnapshot` |
| | `SpansHeldOnce` | `HeldOnce` |
| | `RingImplementsQueue` | `ImplementsQueue` (the refinement of `SpanQueue`, step by step) |
| `BackendHooksProofs` | `TypeCorrect` | `TypeOK` |
| | `PlannerSpansHaveParents` | `PlannerSpanHasParent` |
| | `ParentsInSameTransaction` | `ParentInSameTransaction` |
| | `ReportedAtMostOnce` | `ReportedOnce`, without `recycle` |
| `BackendHooksStackProofs` | `StackMirrors` | `StackMirrorsCalls`, without `suspend` and `commit` |
| | `EligibleTraced` | `EligibleIsTraced`, without `suspend` and `commit` |
| | `ContextsAreOwn` | `ContextIsOwn`, without `suspend`, `commit` and `recycle` |
| | `NoSpanIsOrphan` | `NoOrphans`, without `suspend` |
| `ExportWorkerProofs` | `WorkerTypeCorrect` | `TypeOK` |
| | `NoRequestSleptOver` | `NoSleepOnPendingSignal` |
| | `BufferNeverOverrun` | `BatchFitsBuffer` |
| | `ReloadsAreKept` | `ReloadNotLost` |
| | `FailureEndsDrain` | `OneFailurePerWakeup` |
| `HttpClientProofs` | `ClientTypeCorrect` | `TypeOK` |
| | `WaitsAreBounded` | `NoWaitPastDeadline` |
| | `ShutdownWakesClient` | `NoWaitOverShutdown` |
| | `ResultIsConsistent` | `ResultConsistent` |
| | `NoSocketLeaks` | `SocketsClosed` |
| `SpanPipelineProofs` | `PipelineTypeCorrect` | `TypeOK` |
| | `TracesAreFaithful` | `TraceIsFaithful` |
| | `OrphansAreOnlyLosses` | `OrphansAreLosses` |
| | `NoSpanIsExportedTwice` | `ExportedAtMostOnce` |
| `ConversionsProofs` | `TraceParentsAreCommented` | `TraceParentIsCommented` |
| | `UrlsAreTheirParts` | `UrlIsItsParts` |
| | `StatisticsOfPlansAndWorkers` | `StatisticsAreExact` |
| | `SpansNestInTime` | `NestedInTime` |
| `DocumentProofs` | `DocumentsReadBack` | `DocumentReadsBack` |

Every invariant, action property and refinement that a passing run checks is in this
table.

They hold for every value of the constants that satisfies the modules' assumptions:
a ring has a slot, batches have a span, timeouts are positive and shorter than the
modelled clock, a host has at least one address and the status buffer room for at
least one read; the worker is no backend and there are finitely many backends.  What
the collector sends may be endless.  Texts and URLs may be of any length and made of any
words and names; a number in a URL is no punctuation, and each of the buffers it is cut
into has room for a character and the terminator.  A plan is a tree of any shape whose
nodes are numbered parents first, or there is none (`IsPlanTree`); what instruments have
counted is natural.  A span is of one of the five types with one of the three statuses, its
texts hold any characters, and its numbers are finite or not (`IsSpan`).  The hooks' theorems hold for any addresses, texts
and modes, a stack of any size and calls nested to any depth; "without" names the habits
of PostgreSQL that a theorem excludes from `Environment`, the others are allowed.  Each
exclusion is needed: with `hooks_nested` and one of these habits allowed, TLC finds the
property violated, and the behaviours are those of the findings above (a recycled plan,
a cursor left open, a commit in a CALL); `ContextIsOwn` under `commit` takes a stack of
one frame.

**The ring.**  None of its theorems is inductive alone.  `TypeOK` needs that `count`
never passes `Capacity`, and the store and the increment are two steps: that the room
seen by `EnqueueStore` is still there in `EnqueueCount` is a fact about the lock and
about `count + Stored - Taken`, the number of slots really in use.  So the invariant is

    IInv == TypeOK /\ LockExclusion /\ RingConsistent

and the proof that a step preserves it has one lemma per action (or group of actions
that touch the same part), with the modular arithmetic of the two indexes in
`AdvanceEnd` and `AdvanceStart` and the frame condition in `RingFrame`.  `NothingLost`
and `ExportedWereDequeued` then are inductive relative to `IInv`.  A snapshot is not:
`SnapshotSoFar` says of each reader what it has copied already, and
`ReadersExcludeWriters` that nothing it copied changes before it leaves.

**The ring as a queue.**  `HeldOnce` compares numbers of spans with numbers of spans, which
no step can be seen to preserve by itself.  The invariant

    QInv == IInv /\ Places /\ BatchUnderWay

says where each number is: the batch and the slots between read and write index hold
different numbers, each of a call that was made (`BatchDistinct`, `RingDistinct`), and none
is the number of a call still on its way in (`OfferDistinct`), except the one it has
stored already without moving the index (`LastStored`).  That slots which follow each
other differ is modular arithmetic (`SlotsDiffer`).  The refinement maps the slots from
`readIndex` on to a sequence; `Content` is that sequence for a given length, and lemmas say
what storing, taking and restarting do to it.  An enqueue maps to the queue's step when the
count moves, a dequeue when the lock is given back, an export when its counter changes;
every other statement is a stutter because it touches nothing the mapping looks at.

**The hooks.**  All the theorems rest on `HInv == TypeOK /\ Depths /\ Linked`: an open query
has its plan, a plan that is executed once is open once, and an executor call in progress
is that of an open query which is in no other call; without it the operands of a hook
need not exist.  To this each theorem adds what it is about.

* `PlannerLinks`: a query that adopted a planner state has its id and context, so that
  the planner span flushed behind a query span names it.
* `Births`: frames, planner states and planner calls are of the running transaction, and
  whoever inherits a parent is of that parent's transaction, also a query that outlives
  the transaction it was started in.
* `Once`: a statement that has an id and is not reported yet is held by one call, by the
  planner state of its plan, by a query, or by the last two when the query executes that
  plan.  A recycled address breaks just this: a second statement finds the planner state
  of the first and takes over its id.
* `Mirror`: which frame each statement in progress has.  `Depth(i)` is the number of
  executing calls up to call `i`; with at most one query waiting between start and run
  (`OneIdle`), the frame at height `Depth(i)` is that of call `i`, the index kept in
  `queryStates` or the local variable is `Depth(i) - 1`, and the stack is as high as the
  statements in progress, or full.  So a pop to an index removes its own frame alone.
  `StackMirrorsCalls` follows, and `EligibleIsTraced` because the top of the stack is there
  whenever a statement should inherit.
* `Owned`: every context that a call, a planner state or a query keeps is that of its
  text, or of the statement that caused it.
* `NoneLost`: every parent in an emitted span or in a context that is kept is a statement
  reported already or in progress.  A commit empties the stack but ends no statement, so
  this one needs only `FramesHeld`: every frame is that of a statement in progress which
  keeps its index, and whoever ends pops its frame.

The proofs have a lemma for each kind of step: calls that are entered or left, trace
states stored or deleted, spans emitted (`QuietSteps` collects the steps that emit
nothing).

**The worker.**  The invariant adds what holds between the places that the
properties speak of: nothing is in flight outside a request, no failure was counted
before the request, and a signalled configuration is never newer than the file.

**The client.**  `Stage` folds the waits into what they wait for.  By stage, the
invariant says whether the call has succeeded so far, that an address under way is one
that remains and a host without one left has a reason to report, and that the socket
is open.

**The pipeline.**  Its theorems hold for every set of statements with plans of any size
and shape, and for any numbers of backends, workers, faults and crashes.  The invariant
`Inv == Line /\ Flush` speaks of two things.  `Line` is about the spans wherever they
are: none is in two places, and every span in the queue has its parent ahead of it there,
or in the batch, or gone.  `Flush` is about each backend: what it offered of its
statement is exactly what its walk is past (`Walks`, `Progress`), and all of it belongs
to the trace (`Faithful`).  That a walk which hands down one node at a time finds the
nearest ancestor that ran, whatever the shape of the tree, is `ParentIsNearest`; it needs
no induction, because the invariant already says of each visited node what it hands down
(`NearestBelow`, `NearestOfTop`).

**The functions.**  A call of `Conversions` computes its result in one step, so its theorems
need no invariant but facts about functions, and these are about every position of a
sequence.  The induction they need is proved for sets (`HoldsUpTo`: a set that holds 0 and
with each number the next has no gap, or the numbers it holds would fit into fewer places;
`LeastOfSet`, `Descent`, `Lasts`), and with it that the functions defined by recursion over
a text exist (`Unfolds`, `LeadsBehind`), without which nothing could be said of them.

* The statement: `PlacesFollow` unfolds the reading of PostgreSQL position by position, and
  `ScanFollows` the scan.  As every comment mark in the text is one, a place is in a comment
  only behind a mark that opens it (`NoCommentUnopened`) and until the next that closes one
  (`CommentLasts`).  `OneComment` is the step: from a place in the code on, the scan of one
  comment finds just the value in it that is commented, or goes on in the code behind it
  with nothing missed.  `ScanFindsCommented` puts the steps together from the end of the
  text backwards.
* The URL: `Find` and `Skip` stop at the first position of their kind and at no other
  (`FindProperties`).  `ReadIsWritten` says that what is accepted was written from the parts
  that are returned, cutting the text at these positions (`SplitAt`); `WrittenIsRead` that
  whatever is written from parts is read as these, finding each piece where it was put
  (`PieceIs`).  The way back is what makes a URL unambiguous: no two sets of parts have a
  spelling in common.  The Host header is one of the spellings (`HeaderIsWritten`).
* The statistics: the code's loops are folds, and `FoldExists` says that a fold over a
  sequence is the last of a run of intermediate results, which `WorkersAreSummarised`
  follows worker by worker: the sums, the extremes and the number are those of the workers
  that ran.  The recursion over a plan lists the nodes it visits (`VisitedAreListed`), each
  once because the nodes under two children have none in common (`UnderIsApart`,
  `UnderSplits`).  Sums over sets are taken apart by `SumTakesOut` and compared by
  `SumsAgree`; with them `CollectExists` and `UnderIsCounted` go from the last node of the
  plan to its root and show that what is counted under each is what the reference finds by
  looking upwards (`ReachedIsUnder`, `PlanIsDescribed`).
* The document: since the reader takes one token after the other, what it makes of a text
  does not depend on what follows.  `Goes(a, w, b)` says that it goes from state `a`
  to state `b` by the text `w`, `Reads(w, v)` that by `w` it delivers the value `v` wherever
  one is expected, and `AreRead` the same of items and members with their commas.  These are
  put together as the serializer puts its texts together: `CharacterIsRead` (each escape),
  `StringIsRead`, `ValueIsRead`, `AttributeIsRead`, `SpanIsRead`, `SpansAreJoined`,
  `FinishedIsAround`, `DocumentIsRead`.  `Carries` says of a list of attributes that each can
  be written and no two have the same key; `AttributesCarried` shows it for every type of
  span, whichever of its parts it has.  The nesting that the collector looks for is
  `SpansAreFound`.
* The times: arithmetic by cases over the branches of `emitSuccessfulQuerySpan`
  (`QueryBeginsBeforeItEnds`) and `planNodeStartNs` (`NodesNest`).

Only model-checked is liveness (`LockReleased`, `EnqueueReturns`, `SignalsServed`,
`QueueServed`, `CallReturns`), which needs fairness and is out of the prover's reach.


## 5. What is not modelled

* Wording: span names, labels of plan nodes (`planNodeTypeName`, `joinTypeName`,
  `buildPlanNodeMetadata`), log lines, digits.  No modelled decision depends on them.
* `strlcpy` into fixed buffers: a text may be cut inside a multibyte character, which a
  model with whole characters cannot say.
* Error messages and timestamps of the last export: written in the same critical
  section as the HTTP status, which is modelled.
* Error capture (`_error.c`): copies SQLSTATE and message of the error being handled.
* Copied values of spans (costs, buffer usage, JIT times): which of them are written is
  modelled in `OtlpJson`, their numbers are not.
* A worker that finds shared memory missing: it exits before doing anything.


## 6. Plan

Done: `SpanQueue`/`SpanRing`, `BackendHooks`, `ExportWorker`, `HttpClient`,
`SpanPipeline`, the functions under `Conversions`, and the proofs of section 4: all safety
that a run checks, and the refinement.  What could still be added is in section 5: the
labels and copied values of spans, and the cutting of texts, which would need characters of
several bytes.
