---------------------------- MODULE ExportWorker ----------------------------
(***************************************************************************)
(* The export worker's main loop (src/src/pg_eatrace_worker.c) with what   *)
(* disturbs it: spans that keep arriving, SIGHUP and SIGTERM, which set a  *)
(* flag and the process latch at any moment, an HTTP client that consumes  *)
(* latch wake-ups while it waits on its socket, and errors that end the    *)
(* process.  A dequeue is one step (SpanRing implements SpanQueue) and the *)
(* queue is its length; one POST is a step that ends in one of the ways    *)
(* HttpClient ends.                                                        *)
(*                                                                         *)
(* MaxEdits bounds the edits of the configuration file, MaxBatch the       *)
(* settings of pg_eatrace.max_export_batch.                                *)
(***************************************************************************)
EXTENDS Integers, FiniteSetsExt

CONSTANTS
    Capacity,    \* pg_eatrace.max_spans
    MaxBatch, MaxEdits

ASSUME WorkerAssumption ==
    Capacity \in Nat \ {0} /\ MaxBatch \in Nat \ {0} /\ MaxEdits \in Nat

VARIABLES
    pc,
    latch,            \* MyLatch is set
    shutdownPending,  \* ShutdownRequestPending
    reloadPending,    \* ConfigReloadPending
    active,           \* collector_url and max_export_batch as the worker has them
    allocated,        \* the length of the palloc'd span buffer, 0 without one
    inFlight,         \* spans in that buffer that are being posted
    failures,         \* export failures of the current wake-up, 2 for more
    \* the rest of the system
    queued,           \* spans in the shared queue
    file,             \* the configuration file
    signalled         \* the configuration the postmaster last read and signalled

flags == <<latch, shutdownPending, reloadPending>>
world == <<queued, file, signalled>>
vars == <<pc, flags, active, allocated, inFlight, failures, world>>

Urls == {"empty", "collector"}
Config(urls) == [version : 0..MaxEdits, url : urls, batch : 1..MaxBatch]

Init ==
    /\ pc = "loop"
    /\ latch = FALSE /\ shutdownPending = FALSE /\ reloadPending = FALSE
    /\ active \in {config \in Config(Urls) : config.version = 0}
    /\ allocated = 0 /\ inFlight = 0 /\ failures = 0
    /\ queued = 0
    /\ file = active /\ signalled = active

Running == pc \notin {"stopped", "crashed"}
Goto(here, there) == pc = here /\ pc' = there
More(n) == Min({n + 1, 2})

-----------------------------------------------------------------------------
\* Slip: the check hook lets every value pass.
AcceptedUnchecked(old, new) == new

\* checkCollectorUrl: an invalid URL is rejected, the other settings are taken.
Accepted(old, new) ==
    [new EXCEPT !.url = IF @ = "invalid" THEN old.url ELSE @]

\* workerMain, the top of the loop: a wake-up begins.
LoopExit ==
    /\ Goto("loop", "stopped")
    /\ shutdownPending
    /\ UNCHANGED <<flags, active, allocated, inFlight, failures, world>>

LoopReload ==
    /\ Goto("loop", "readConfig")
    /\ ~shutdownPending /\ reloadPending
    /\ reloadPending' = FALSE
    /\ failures' = 0
    /\ UNCHANGED <<latch, shutdownPending, active, allocated, inFlight, world>>

\* ProcessConfigFile: the file is read, and a signal may come before it returns.
ReadConfig ==
    /\ Goto("readConfig", "configRead")
    /\ active' = Accepted(active, file)
    /\ UNCHANGED <<flags, allocated, inFlight, failures, world>>

\* Slip: the flag is cleared after the file was read.
ConfigReadClearsFlag ==
    /\ Goto("configRead", "drain")
    /\ reloadPending' = FALSE
    /\ UNCHANGED <<latch, shutdownPending, active, allocated, inFlight, failures, world>>

ConfigRead ==
    /\ Goto("configRead", "drain")
    /\ UNCHANGED <<flags, active, allocated, inFlight, failures, world>>

LoopDrain ==
    /\ Goto("loop", "drain")
    /\ ~shutdownPending /\ ~reloadPending
    /\ failures' = 0
    /\ UNCHANGED <<flags, active, allocated, inFlight, world>>

-----------------------------------------------------------------------------
\* drainAndExportBatches without a collector: until the queue is empty.
DrainToLog ==
    /\ Goto("drain", "log")
    /\ active.url = "empty"
    /\ UNCHANGED <<flags, active, allocated, inFlight, failures, world>>

LogSpan ==
    /\ pc = "log"
    /\ IF queued = 0 THEN pc' = "drained" ELSE UNCHANGED pc
    /\ queued' = IF queued = 0 THEN 0 ELSE queued - 1
    /\ UNCHANGED <<flags, active, allocated, inFlight, failures, file, signalled>>

\* drainAndExportBatches with one: a buffer for a whole batch, and then batches
\* of up to that many spans.
DrainToCollector ==
    /\ Goto("drain", "take")
    /\ active.url # "empty"
    /\ allocated' = active.batch
    /\ UNCHANGED <<flags, active, inFlight, failures, world>>

FreeBuffer == allocated' = 0 /\ inFlight' = 0

\* Slip: a batch that is not full is left for later.
TakeNoneBelowBatch ==
    /\ Goto("take", "drained")
    /\ queued < active.batch
    /\ FreeBuffer
    /\ UNCHANGED <<flags, active, failures, world>>

\* exportOneBatch on an empty queue ends the drain.
TakeNone ==
    /\ Goto("take", "drained")
    /\ queued = 0
    /\ FreeBuffer
    /\ UNCHANGED <<flags, active, failures, world>>

\* Slip: a pending reload is served between two batches of a drain.
TakeBatchReloading ==
    LET config == IF reloadPending THEN Accepted(active, file) ELSE active
        taken == Min({queued, config.batch}) IN
    /\ Goto("take", "posting")
    /\ queued > 0
    /\ active' = config /\ reloadPending' = FALSE
    /\ inFlight' = taken
    /\ queued' = queued - taken
    /\ UNCHANGED <<latch, shutdownPending, allocated, failures, file, signalled>>

TakeBatch ==
    LET taken == Min({queued, active.batch}) IN
    /\ Goto("take", "posting")
    /\ queued > 0
    /\ inFlight' = taken
    /\ queued' = queued - taken
    /\ UNCHANGED <<flags, active, allocated, failures, file, signalled>>

\* waitSocketReady: the wake-up is consumed and the wait goes on.
PostConsumesLatch ==
    /\ pc = "posting"
    /\ latch
    /\ latch' = FALSE
    /\ UNCHANGED <<pc, shutdownPending, reloadPending, active, allocated,
                   inFlight, failures, world>>

\* Slip: the loop only looks at drainedAny.
PostAcceptedGoesOn ==
    /\ Goto("posting", "take")
    /\ inFlight' = 0
    /\ UNCHANGED <<flags, active, allocated, failures, world>>

\* httpPostJson returned a 2xx status: go on unless asked to shut down.
PostAccepted ==
    /\ pc = "posting"
    /\ pc' = IF shutdownPending THEN "drained" ELSE "take"
    /\ IF shutdownPending THEN FreeBuffer ELSE inFlight' = 0 /\ UNCHANGED allocated
    /\ UNCHANGED <<flags, active, failures, world>>

\* Slip: the result of exportOneBatch is not looked at.
PostFailedGoesOn ==
    /\ Goto("posting", "take")
    /\ failures' = More(failures)
    /\ inFlight' = 0
    /\ UNCHANGED <<flags, active, allocated, world>>

\* It failed or returned another status: the batch is gone, the drain is over.
PostFailed ==
    /\ Goto("posting", "drained")
    /\ failures' = More(failures)
    /\ FreeBuffer
    /\ UNCHANGED <<flags, active, world>>

-----------------------------------------------------------------------------
\* workerMain, after the drain: stop, skip the sleep, or sleep.
StopAfterDrain ==
    /\ Goto("drained", "stopped")
    /\ shutdownPending
    /\ UNCHANGED <<flags, active, allocated, inFlight, failures, world>>

SkipSleep ==
    /\ Goto("drained", "loop")
    /\ ~shutdownPending /\ reloadPending
    /\ UNCHANGED <<flags, active, allocated, inFlight, failures, world>>

\* Slip: sleep whatever is pending.
SleepAlways ==
    /\ Goto("drained", "waiting")
    /\ ~shutdownPending
    /\ UNCHANGED <<flags, active, allocated, inFlight, failures, world>>

Sleep ==
    /\ Goto("drained", "waiting")
    /\ ~shutdownPending /\ ~reloadPending
    /\ UNCHANGED <<flags, active, allocated, inFlight, failures, world>>

\* WaitLatch returns because the latch is set or because the interval is over.
WakeUp ==
    /\ Goto("waiting", "resetLatch")
    /\ UNCHANGED <<flags, active, allocated, inFlight, failures, world>>

ResetLatch ==
    /\ Goto("resetLatch", "loop")
    /\ latch' = FALSE
    /\ UNCHANGED <<shutdownPending, reloadPending, active, allocated, inFlight,
                   failures, world>>

PostEnds == PostAccepted \/ PostFailed

WorkerStep ==
    \/ LoopExit \/ LoopReload \/ ReadConfig \/ ConfigRead \/ LoopDrain
    \/ DrainToLog \/ LogSpan \/ DrainToCollector \/ TakeNone \/ TakeBatch
    \/ PostEnds
    \/ StopAfterDrain \/ SkipSleep \/ Sleep \/ WakeUp \/ ResetLatch

-----------------------------------------------------------------------------
\* An ERROR ends the process with exit code 1 (out of memory for the batch
\* document, say).  What it had taken from the queue is lost.
Crash ==
    /\ pc \in {"drain", "log", "take", "posting"}
    /\ pc' = "crashed"
    /\ FreeBuffer
    /\ UNCHANGED <<flags, active, failures, world>>

\* The postmaster starts the worker again after bgw_restart_time, with the
\* configuration it has itself.
Restart ==
    /\ Goto("crashed", "loop")
    /\ latch' = FALSE /\ shutdownPending' = FALSE /\ reloadPending' = FALSE
    /\ active' = signalled
    /\ failures' = 0
    /\ UNCHANGED <<allocated, inFlight, world>>

\* A backend's enqueueSpan; on a full queue it changes nothing here.
Enqueue ==
    /\ queued < Capacity
    /\ queued' = queued + 1
    /\ UNCHANGED <<pc, flags, active, allocated, inFlight, failures, file, signalled>>

EditFile ==
    /\ file.version < MaxEdits
    /\ \E url \in Urls \cup {"invalid"}, batch \in 1..MaxBatch :
          file' = [version |-> file.version + 1, url |-> url, batch |-> batch]
    /\ UNCHANGED <<pc, flags, active, allocated, inFlight, failures, queued, signalled>>

\* pg_reload_conf(): the postmaster reads the file and signals the worker, whose
\* handler (SignalHandlerForConfigReload) sets flag and latch.
Reload ==
    /\ signalled' = Accepted(signalled, file)
    /\ IF Running THEN reloadPending' = TRUE /\ latch' = TRUE
                  ELSE UNCHANGED <<reloadPending, latch>>
    /\ UNCHANGED <<pc, shutdownPending, active, allocated, inFlight, failures, queued,
                   file>>

\* SIGTERM: SignalHandlerForShutdownRequest
Terminate ==
    /\ Running
    /\ shutdownPending' = TRUE /\ latch' = TRUE
    /\ UNCHANGED <<pc, reloadPending, active, allocated, inFlight, failures, world>>

Next ==
    \/ WorkerStep \/ PostConsumesLatch
    \/ Crash \/ Restart
    \/ Enqueue \/ EditFile \/ Reload \/ Terminate

Spec == Init /\ [][Next]_vars

\* The worker is scheduled, a POST ends (its waits have deadlines), a crashed
\* worker is restarted.  Nobody is obliged to log, signal, edit or crash.
Fairness == WF_vars(WorkerStep) /\ WF_vars(PostEnds) /\ WF_vars(Restart)

FairSpec == Spec /\ Fairness

-----------------------------------------------------------------------------
\* Every variable stays within its type, and the queue within its capacity.
TypeOK ==
    /\ pc \in {"loop", "readConfig", "configRead", "drain", "log", "take", "posting",
               "drained", "waiting", "resetLatch", "stopped", "crashed"}
    /\ latch \in BOOLEAN /\ shutdownPending \in BOOLEAN /\ reloadPending \in BOOLEAN
    /\ active \in Config(Urls) /\ signalled \in Config(Urls)
    /\ file \in Config(Urls \cup {"invalid"})
    /\ allocated \in 0..MaxBatch /\ inFlight \in 0..MaxBatch
    /\ failures \in 0..2
    /\ queued \in 0..Capacity

\* The HTTP client consumes the wake-ups of signals that arrive during a drain;
\* still the worker never goes to sleep, or stays asleep, over a signal it has
\* not served: the latch that would wake it is set.
NoSleepOnPendingSignal ==
    pc = "waiting" /\ (shutdownPending \/ reloadPending) => latch

\* The batch size may change with every reload; what dequeueSpanBatch is asked for
\* always fits the buffer that was allocated when the drain began.
BatchFitsBuffer ==
    /\ pc \in {"take", "posting"} => active.batch <= allocated
    /\ inFlight <= allocated

\* No reload is lost between the signal, the flag and the file: once the flag is
\* down and the file read, the worker has the configuration that was last
\* signalled, or a later one.
ReloadNotLost ==
    Running /\ ~reloadPending /\ pc # "readConfig" => active.version >= signalled.version

\* drainAndExportBatches: a dead collector costs one timeout per wake-up, not one
\* for every batch of the backlog.
OneFailurePerWakeup == failures <= 1

\* The worker obeys SIGTERM however many spans keep arriving, unless it is logging them:
\* that loop only ends with the queue empty, and a drain to the collector that never
\* fails only then looks at the reload flag.  Once spans stop arriving, it stops there
\* too, and a reload is served, also when it was signalled over and over.
SignalsServed ==
    /\ shutdownPending ~> pc \in {"stopped", "crashed", "log"}
    /\ <>[][queued' <= queued]_queued =>
          /\ shutdownPending ~> pc \in {"stopped", "crashed"}
          /\ reloadPending ~> ~reloadPending \/ pc = "stopped"

\* A full queue does not stay full, whatever the collector answers and however often
\* it fails, unless the worker crashes over and over: every wake-up takes something.
QueueServed ==
    <>[](pc # "crashed") => (queued = Capacity ~> queued < Capacity \/ pc = "stopped")
=============================================================================
