------------------------------ MODULE SpanRing ------------------------------
(***************************************************************************)
(* The span ring buffer in shared memory (src/src/pg_eatrace_queue.c), at  *)
(* the grain of the statements inside each critical section.  Backends     *)
(* call enqueueSpan, the export worker calls dequeueSpanBatch and then     *)
(* recordExportSuccess or recordExportFailure, and pg_eatrace_status()     *)
(* reads a snapshot through getQueueStatus.  One LWLock serialises them:   *)
(* writers take it exclusively, status readers share it.  No call is       *)
(* atomic here, so that what the lock buys is something to be checked.     *)
(*                                                                         *)
(* MaxOffered bounds the spans offered between two restarts of the         *)
(* postmaster; MaxBatch bounds pg_eatrace.max_export_batch.                *)
(***************************************************************************)
EXTENDS Integers, Sequences, FiniteSets

CONSTANTS
    Backends,    \* the processes that call enqueueSpan
    Readers,     \* the processes that call getQueueStatus
    Worker,      \* the one export worker
    NoOne,       \* the lock is not held exclusively
    Capacity,    \* pg_eatrace.max_spans, fixed when the postmaster starts
    MaxBatch,
    MaxOffered

ASSUME CapacityAssumption == Capacity \in Nat \ {0}
ASSUME BoundAssumption == MaxBatch \in Nat \ {0} /\ MaxOffered \in Nat
ASSUME ProcessAssumption ==
    /\ Worker \notin Backends
    /\ NoOne \notin Backends \cup {Worker}
    /\ IsFiniteSet(Backends)

VARIABLES
    \* EatraceSharedState and the slots that follow it in shared memory
    slots, writeIndex, readIndex, count, droppedCount, dequeuedCount,
    exportedCount, exportFailureCount, lastHttpStatusCode,
    \* the LWLock: its exclusive holder, and the holders that share it
    exclusive, sharers,
    \* what each process is doing
    backendPc, span,
    workerPc, exporting, maxCount, batch, httpStatusCode,
    readerPc, status,
    \* history: how many spans enqueueSpan has been called with
    offered

counters == <<droppedCount, dequeuedCount, exportedCount, exportFailureCount,
              lastHttpStatusCode>>
ring == <<slots, writeIndex, readIndex, count>>
lock == <<exclusive, sharers>>
backendVars == <<backendPc, span, offered>>
workerVars == <<workerPc, exporting, maxCount, batch, httpStatusCode>>
readerVars == <<readerPc, status>>
vars == <<ring, counters, lock, backendVars, workerVars, readerVars>>

\* A span is known by the order in which it was offered; a slot that was never
\* written holds the zeros of the initial memset.
Span == 1..MaxOffered
NoSpan == 0

\* 0 stands for "no complete response"; 503 for every answer outside 2xx.
HttpCodes == {0, 200, 503}

\* QueueStatus, as far as two of its fields can disagree with each other.
EmptyStatus == [depth |-> 0, dropped |-> 0, dequeued |-> 0, exported |-> 0,
                failures |-> 0, http |-> 0]

-----------------------------------------------------------------------------
\* initQueueShmem: the segment is zeroed by the first process that maps it.
Init ==
    /\ slots = [i \in 0..Capacity - 1 |-> NoSpan]
    /\ writeIndex = 0 /\ readIndex = 0 /\ count = 0
    /\ droppedCount = 0 /\ dequeuedCount = 0
    /\ exportedCount = 0 /\ exportFailureCount = 0 /\ lastHttpStatusCode = 0
    /\ exclusive = NoOne /\ sharers = {}
    /\ backendPc = [b \in Backends |-> "idle"]
    /\ span = [b \in Backends |-> NoSpan]
    /\ offered = 0
    /\ workerPc = "idle" /\ exporting = FALSE /\ maxCount = 1
    /\ batch = <<>> /\ httpStatusCode = 0
    /\ readerPc = [r \in Readers |-> "idle"]
    /\ status = [r \in Readers |-> EmptyStatus]

-----------------------------------------------------------------------------
\* LWLockAcquire and LWLockRelease, which src/ only calls.
\* Slips the properties below must notice: a writer that only looks for other
\* writers, and one that does not wait at all.
AcquireBesideReaders(p) == exclusive = NoOne /\ exclusive' = p /\ UNCHANGED sharers
AcquireAtOnce(p) == exclusive' = p /\ UNCHANGED sharers

AcquireExclusive(p) ==
    /\ exclusive = NoOne /\ sharers = {}
    /\ exclusive' = p
    /\ UNCHANGED sharers

ReleaseExclusive ==
    /\ exclusive' = NoOne
    /\ UNCHANGED sharers

\* Slip: a status reader that does not wait for the writer.
AcquireSharedAtOnce(r) == sharers' = sharers \cup {r} /\ UNCHANGED exclusive

AcquireShared(r) ==
    /\ exclusive = NoOne
    /\ sharers' = sharers \cup {r}
    /\ UNCHANGED exclusive

ReleaseShared(r) ==
    /\ sharers' = sharers \ {r}
    /\ UNCHANGED exclusive

\* Slip: the index runs past the last slot.
AdvanceNoWrap(index) == index + 1

Advance(index) == (index + 1) % Capacity

-----------------------------------------------------------------------------
\* enqueueSpan
EnqueueGoto(b, here, there) ==
    /\ backendPc[b] = here
    /\ backendPc' = [backendPc EXCEPT ![b] = there]

EnqueueCall(b) ==
    /\ EnqueueGoto(b, "idle", "acquire")
    /\ offered < MaxOffered
    /\ offered' = offered + 1
    /\ span' = [span EXCEPT ![b] = offered + 1]
    /\ UNCHANGED <<ring, counters, lock, workerVars, readerVars>>

EnqueueAcquire(b) ==
    /\ EnqueueGoto(b, "acquire", "check")
    /\ AcquireExclusive(b)
    /\ UNCHANGED <<ring, counters, span, offered, workerVars, readerVars>>

\* Slips: a drop that is not counted, and one that returns with the lock held.
EnqueueDropUncounted(b) ==
    /\ EnqueueGoto(b, "check", "release")
    /\ count >= Capacity
    /\ UNCHANGED <<ring, counters, lock, span, offered, workerVars, readerVars>>

EnqueueDropEarlyReturn(b) ==
    /\ EnqueueGoto(b, "check", "idle")
    /\ count >= Capacity
    /\ droppedCount' = droppedCount + 1
    /\ UNCHANGED <<ring, dequeuedCount, exportedCount, exportFailureCount,
                   lastHttpStatusCode, lock, span, offered, workerVars,
                   readerVars>>

EnqueueDrop(b) ==
    /\ EnqueueGoto(b, "check", "release")
    /\ count >= Capacity
    /\ droppedCount' = droppedCount + 1
    /\ UNCHANGED <<ring, dequeuedCount, exportedCount, exportFailureCount,
                   lastHttpStatusCode, lock, span, offered, workerVars,
                   readerVars>>

\* Slip: off by one, the oldest span of a full ring is overwritten.
EnqueueStoreWhenFull(b) ==
    /\ EnqueueGoto(b, "check", "count")
    /\ count <= Capacity
    /\ slots' = [slots EXCEPT ![writeIndex] = span[b]]
    /\ writeIndex' = Advance(writeIndex)
    /\ UNCHANGED <<readIndex, count, counters, lock, span, offered, workerVars,
                   readerVars>>

EnqueueStore(b) ==
    /\ EnqueueGoto(b, "check", "count")
    /\ count < Capacity
    /\ slots' = [slots EXCEPT ![writeIndex] = span[b]]
    /\ writeIndex' = Advance(writeIndex)
    /\ UNCHANGED <<readIndex, count, counters, lock, span, offered, workerVars,
                   readerVars>>

EnqueueCount(b) ==
    /\ EnqueueGoto(b, "count", "release")
    /\ count' = count + 1
    /\ UNCHANGED <<slots, writeIndex, readIndex, counters, lock, span, offered,
                   workerVars, readerVars>>

EnqueueRelease(b) ==
    /\ EnqueueGoto(b, "release", "idle")
    /\ ReleaseExclusive
    /\ UNCHANGED <<ring, counters, span, offered, workerVars, readerVars>>

EnqueueStep(b) ==
    \/ EnqueueAcquire(b) \/ EnqueueDrop(b) \/ EnqueueStore(b)
    \/ EnqueueCount(b) \/ EnqueueRelease(b)

-----------------------------------------------------------------------------
\* dequeueSpanBatch.  Export mode asks for max_export_batch spans, log mode for
\* one span at a time.
DequeueCall(toCollector, n) ==
    /\ workerPc = "idle" /\ workerPc' = "acquireTake"
    /\ toCollector \/ n = 1
    /\ exporting' = toCollector
    /\ maxCount' = n
    /\ UNCHANGED <<ring, counters, lock, backendVars, batch, httpStatusCode,
                   readerVars>>

DequeueAcquire ==
    /\ workerPc = "acquireTake" /\ workerPc' = "take"
    /\ AcquireExclusive(Worker)
    /\ UNCHANGED <<ring, counters, backendVars, exporting, maxCount, batch,
                   httpStatusCode, readerVars>>

\* Slip: the read index stays behind, so the slot is handed out again.
DequeueTakeInPlace ==
    /\ workerPc = "take" /\ workerPc' = "uncount"
    /\ Len(batch) < maxCount /\ count > 0
    /\ batch' = Append(batch, slots[readIndex])
    /\ UNCHANGED <<ring, counters, lock, backendVars, exporting, maxCount,
                   httpStatusCode, readerVars>>

DequeueTake ==
    /\ workerPc = "take" /\ workerPc' = "uncount"
    /\ Len(batch) < maxCount /\ count > 0
    /\ batch' = Append(batch, slots[readIndex])
    /\ readIndex' = Advance(readIndex)
    /\ UNCHANGED <<slots, writeIndex, count, counters, lock, backendVars,
                   exporting, maxCount, httpStatusCode, readerVars>>

DequeueUncount ==
    /\ workerPc = "uncount" /\ workerPc' = "take"
    /\ count' = count - 1
    /\ dequeuedCount' = dequeuedCount + 1
    /\ UNCHANGED <<slots, writeIndex, readIndex, droppedCount, exportedCount,
                   exportFailureCount, lastHttpStatusCode, lock, backendVars,
                   exporting, maxCount, batch, httpStatusCode, readerVars>>

\* Slip: an early return on the empty ring keeps the lock.
DequeueReturnEmpty ==
    /\ workerPc = "take"
    /\ ~(Len(batch) < maxCount /\ count > 0)
    /\ workerPc' = IF batch = <<>> THEN "idle" ELSE "holding"
    /\ IF batch = <<>> THEN UNCHANGED lock ELSE ReleaseExclusive
    /\ UNCHANGED <<ring, counters, backendVars, exporting, maxCount, batch,
                   httpStatusCode, readerVars>>

DequeueRelease ==
    /\ workerPc = "take"
    /\ ~(Len(batch) < maxCount /\ count > 0)
    /\ workerPc' = IF batch = <<>> THEN "idle" ELSE "holding"
    /\ ReleaseExclusive
    /\ UNCHANGED <<ring, counters, backendVars, exporting, maxCount, batch,
                   httpStatusCode, readerVars>>

-----------------------------------------------------------------------------
\* What the worker does with its batch.  Log mode writes the span to the server
\* log; export mode posts the batch and records how that went.
LogSpan ==
    /\ workerPc = "holding" /\ workerPc' = "idle"
    /\ ~exporting
    /\ batch' = <<>>
    /\ UNCHANGED <<ring, counters, lock, backendVars, exporting, maxCount,
                   httpStatusCode, readerVars>>

PostAnswered(code) ==
    /\ workerPc = "holding" /\ workerPc' = "acquireRecord"
    /\ exporting
    /\ httpStatusCode' = code
    /\ UNCHANGED <<ring, counters, lock, backendVars, exporting, maxCount,
                   batch, readerVars>>

\* An ERROR in a background worker without a handler ends the process; the
\* postmaster starts a new one, which knows nothing of the batch.
WorkerDies ==
    /\ workerPc = "holding" /\ workerPc' = "idle"
    /\ batch' = <<>>
    /\ UNCHANGED <<ring, counters, lock, backendVars, exporting, maxCount,
                   httpStatusCode, readerVars>>

RecordAcquire ==
    /\ workerPc = "acquireRecord" /\ workerPc' = "record"
    /\ AcquireExclusive(Worker)
    /\ UNCHANGED <<ring, counters, backendVars, exporting, maxCount, batch,
                   httpStatusCode, readerVars>>

\* Slip: the requested batch size is counted instead of the spans sent.
RecordRequestedCount ==
    /\ workerPc = "record" /\ workerPc' = "recordLast"
    /\ httpStatusCode = 200
    /\ exportedCount' = exportedCount + maxCount
    /\ batch' = <<>>
    /\ UNCHANGED <<ring, droppedCount, dequeuedCount, exportFailureCount,
                   lastHttpStatusCode, lock, backendVars, exporting, maxCount,
                   httpStatusCode, readerVars>>

\* recordExportSuccess
RecordExportSuccess ==
    /\ workerPc = "record" /\ workerPc' = "recordLast"
    /\ httpStatusCode = 200
    /\ exportedCount' = exportedCount + Len(batch)
    /\ batch' = <<>>
    /\ UNCHANGED <<ring, droppedCount, dequeuedCount, exportFailureCount,
                   lastHttpStatusCode, lock, backendVars, exporting, maxCount,
                   httpStatusCode, readerVars>>

\* recordExportFailure
RecordExportFailure ==
    /\ workerPc = "record" /\ workerPc' = "recordLast"
    /\ httpStatusCode # 200
    /\ exportFailureCount' = exportFailureCount + 1
    /\ batch' = <<>>
    /\ UNCHANGED <<ring, droppedCount, dequeuedCount, exportedCount,
                   lastHttpStatusCode, lock, backendVars, exporting, maxCount,
                   httpStatusCode, readerVars>>

\* recordLastHttpResult
RecordLastHttpResult ==
    /\ workerPc = "recordLast" /\ workerPc' = "releaseRecord"
    /\ lastHttpStatusCode' = httpStatusCode
    /\ UNCHANGED <<ring, droppedCount, dequeuedCount, exportedCount,
                   exportFailureCount, lock, backendVars, exporting, maxCount,
                   batch, httpStatusCode, readerVars>>

RecordRelease ==
    /\ workerPc = "releaseRecord" /\ workerPc' = "idle"
    /\ ReleaseExclusive
    /\ UNCHANGED <<ring, counters, backendVars, exporting, maxCount, batch,
                   httpStatusCode, readerVars>>

WorkerStep ==
    \/ DequeueAcquire \/ DequeueTake \/ DequeueUncount \/ DequeueRelease
    \/ LogSpan \/ \E code \in HttpCodes : PostAnswered(code)
    \/ RecordAcquire \/ RecordExportSuccess \/ RecordExportFailure
    \/ RecordLastHttpResult \/ RecordRelease

-----------------------------------------------------------------------------
\* getQueueStatus.  The copy takes two steps, so that a writer let in between
\* them would show.
StatusGoto(r, here, there) ==
    /\ readerPc[r] = here
    /\ readerPc' = [readerPc EXCEPT ![r] = there]

StatusAcquire(r) ==
    /\ StatusGoto(r, "idle", "copyQueue")
    /\ AcquireShared(r)
    /\ status' = [status EXCEPT ![r] = EmptyStatus]
    /\ UNCHANGED <<ring, counters, backendVars, workerVars>>

StatusCopyQueue(r) ==
    /\ StatusGoto(r, "copyQueue", "copyExport")
    /\ status' = [status EXCEPT ![r] =
                    [@ EXCEPT !.depth = count, !.dropped = droppedCount,
                              !.dequeued = dequeuedCount]]
    /\ UNCHANGED <<ring, counters, lock, backendVars, workerVars>>

StatusCopyExport(r) ==
    /\ StatusGoto(r, "copyExport", "release")
    /\ status' = [status EXCEPT ![r] =
                    [@ EXCEPT !.exported = exportedCount,
                              !.failures = exportFailureCount,
                              !.http = lastHttpStatusCode]]
    /\ UNCHANGED <<ring, counters, lock, backendVars, workerVars>>

StatusRelease(r) ==
    /\ StatusGoto(r, "release", "idle")
    /\ ReleaseShared(r)
    /\ UNCHANGED <<ring, counters, backendVars, workerVars, status>>

StatusStep(r) ==
    StatusAcquire(r) \/ StatusCopyQueue(r) \/ StatusCopyExport(r)
        \/ StatusRelease(r)

-----------------------------------------------------------------------------
\* A process crashed somewhere, possibly inside a critical section: the
\* postmaster ends every process and initQueueShmem starts from zeroed memory.
PostmasterReinit ==
    /\ slots' = [i \in 0..Capacity - 1 |-> NoSpan]
    /\ writeIndex' = 0 /\ readIndex' = 0 /\ count' = 0
    /\ droppedCount' = 0 /\ dequeuedCount' = 0
    /\ exportedCount' = 0 /\ exportFailureCount' = 0 /\ lastHttpStatusCode' = 0
    /\ exclusive' = NoOne /\ sharers' = {}
    /\ backendPc' = [b \in Backends |-> "idle"]
    /\ span' = [b \in Backends |-> NoSpan]
    /\ offered' = 0
    /\ workerPc' = "idle" /\ exporting' = FALSE /\ maxCount' = 1
    /\ batch' = <<>> /\ httpStatusCode' = 0
    /\ readerPc' = [r \in Readers |-> "idle"]
    /\ status' = [r \in Readers |-> EmptyStatus]

Next ==
    \/ \E b \in Backends : EnqueueCall(b) \/ EnqueueStep(b)
    \/ \E toCollector \in BOOLEAN, n \in 1..MaxBatch : DequeueCall(toCollector, n)
    \/ WorkerStep
    \/ WorkerDies
    \/ \E r \in Readers : StatusStep(r)
    \/ PostmasterReinit

Spec == Init /\ [][Next]_vars

\* Processes are scheduled: a call that was started goes on, and LWLock's wait
\* queue keeps no process out for ever once the lock is free again and again.
\* Nobody is obliged to make a call.
Fairness ==
    /\ \A b \in Backends : WF_vars(EnqueueStep(b)) /\ SF_vars(EnqueueAcquire(b))
    /\ WF_vars(WorkerStep) /\ SF_vars(DequeueAcquire) /\ SF_vars(RecordAcquire)
    /\ \A r \in Readers :
          WF_vars(StatusCopyQueue(r) \/ StatusCopyExport(r) \/ StatusRelease(r))

FairSpec == Spec /\ Fairness

-----------------------------------------------------------------------------
\* Processes inside an exclusive critical section.
BackendInside(b) == backendPc[b] \in {"check", "count", "release"}
WorkerInside == workerPc \in {"take", "uncount", "record", "recordLast",
                             "releaseRecord"}

\* The statements that change an index come one step before those that change
\* the count: Stored spans are in a slot and not counted yet, Taken spans are
\* copied out and still counted.
Stored == IF \E b \in Backends : backendPc[b] = "count" THEN 1 ELSE 0
Taken == IF workerPc = "uncount" THEN 1 ELSE 0

\* Backends that offered a span and have not dropped or counted it yet.
Pending == {b \in Backends : backendPc[b] \in {"acquire", "check", "count"}}

\* The slots between readIndex and writeIndex, oldest span first.
Content(n) == [i \in 1..n |-> slots[(readIndex + i - 1) % Capacity]]

\* Every variable stays within its type; the indexes never leave the ring.
TypeOK ==
    /\ slots \in [0..Capacity - 1 -> Span \cup {NoSpan}]
    /\ writeIndex \in 0..Capacity - 1 /\ readIndex \in 0..Capacity - 1
    /\ count \in 0..Capacity
    /\ droppedCount \in Nat /\ dequeuedCount \in Nat
    /\ exportedCount \in Nat /\ exportFailureCount \in Nat
    /\ lastHttpStatusCode \in HttpCodes
    /\ exclusive \in Backends \cup {Worker, NoOne} /\ sharers \subseteq Readers
    /\ backendPc \in [Backends -> {"idle", "acquire", "check", "count", "release"}]
    /\ span \in [Backends -> Span \cup {NoSpan}]
    /\ offered \in 0..MaxOffered
    /\ workerPc \in {"idle", "acquireTake", "take", "uncount", "holding",
                     "acquireRecord", "record", "recordLast", "releaseRecord"}
    /\ exporting \in BOOLEAN /\ maxCount \in 1..MaxBatch
    /\ batch \in Seq(Span \cup {NoSpan}) /\ httpStatusCode \in HttpCodes
    /\ readerPc \in [Readers -> {"idle", "copyQueue", "copyExport", "release"}]
    /\ status \in [Readers -> [depth : Nat, dropped : Nat, dequeued : Nat,
                               exported : Nat, failures : Nat, http : HttpCodes]]

\* pg_eatrace_queue.c brackets every access to the shared state with the LWLock:
\* whoever is inside a writing section is alone, status readers included.
LockExclusion ==
    /\ exclusive # NoOne => sharers = {}
    /\ \A b \in Backends : BackendInside(b) <=> exclusive = b
    /\ WorkerInside <=> exclusive = Worker
    /\ sharers = {r \in Readers : readerPc[r] # "idle"}

\* Between any two statements of enqueueSpan and dequeueSpanBatch, writeIndex,
\* readIndex and count agree on which slots are in use (a full and an empty ring
\* differ by the count alone), and the worker's batch is no longer than asked for
\* and settled before the next one is taken.
RingConsistent ==
    /\ count + Stored - Taken \in 0..Capacity
    /\ writeIndex = (readIndex + (count + Stored - Taken)) % Capacity
    /\ Len(batch) <= maxCount
    /\ workerPc \in {"idle", "acquireTake", "recordLast", "releaseRecord"} => batch = <<>>
    /\ workerPc = "uncount" => count > 0

\* Every span enqueueSpan was called with is in exactly one place: still with its
\* backend, dropped and counted, in the ring, or handed to the worker.
NothingLost ==
    offered = droppedCount + dequeuedCount + count + Cardinality(Pending)

\* recordExportSuccess adds spans that dequeueSpanBatch has counted already: the
\* exported total and the batch under way never exceed the dequeued total.
ExportedWereDequeued == exportedCount + Len(batch) <= dequeuedCount + Taken

\* No slot is read before it was written or handed out twice: the spans in the
\* worker's batch and in the ring are real spans and all different.
HeldOnce ==
    LET held == batch \o Content(count + Stored - Taken) IN
    /\ \A i \in 1..Len(held) : held[i] \in Span
    /\ \A i, j \in 1..Len(held) : held[i] = held[j] => i = j

\* getQueueStatus copies one consistent snapshot: when the last field is copied
\* the first ones are still what the shared state holds.
StatusIsSnapshot ==
    \A r \in Readers : readerPc[r] = "release" =>
        status[r] = [depth |-> count, dropped |-> droppedCount,
                     dequeued |-> dequeuedCount, exported |-> exportedCount,
                     failures |-> exportFailureCount, http |-> lastHttpStatusCode]

-----------------------------------------------------------------------------
\* The ring implements the queue of SpanQueue: a span joins when it is counted, a
\* batch leaves, as one step, when dequeueSpanBatch gives the lock back, and is
\* settled when its export counter changes.
Dequeuing == workerPc \in {"take", "uncount"}
Abstract == INSTANCE SpanQueue WITH
    queue <- IF Dequeuing THEN batch \o Content(count - Taken) ELSE Content(count),
    inFlight <- IF Dequeuing THEN <<>> ELSE batch,
    dequeuedCount <- IF Dequeuing THEN dequeuedCount + Taken - Len(batch)
                                  ELSE dequeuedCount

\* The code behaves as the first-in first-out, drop-the-newest queue of SpanQueue.
ImplementsQueue == Abstract!Spec

\* enqueueSpan and dequeueSpanBatch release the lock on every path: no process
\* that got it keeps it.
LockReleased ==
    \A p \in Backends \cup {Worker} : exclusive = p ~> exclusive # p

\* A backend that calls enqueueSpan gets back to its query, full ring or not, as
\* long as status readers do not overlap each other without end.
EnqueueReturns ==
    []<>(sharers = {}) =>
        \A b \in Backends : backendPc[b] # "idle" ~> backendPc[b] = "idle"
=============================================================================
