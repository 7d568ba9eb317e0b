-------------------------- MODULE ExportWorkerProofs --------------------------
(***************************************************************************)
(* Proofs about ExportWorker for every queue capacity, every batch size    *)
(* and every number of configuration changes.                              *)
(***************************************************************************)
EXTENDS ExportWorker, TLAPS

\* Outside a request nothing is in flight; before the request of a drain no
\* failure was counted; the postmaster never signals a file of the future.
BufferEmptyBetweenPosts == pc # "posting" => inFlight = 0
NoFailureYet ==
    pc \in {"readConfig", "configRead", "drain", "log", "take", "posting"} => failures = 0
SignalledFromFile == signalled.version <= file.version

\* The inductive invariant: each safety property with what it leans on.
IInv ==
    /\ TypeOK
    /\ NoSleepOnPendingSignal
    /\ BatchFitsBuffer /\ BufferEmptyBetweenPosts
    /\ ReloadNotLost /\ SignalledFromFile
    /\ OneFailurePerWakeup /\ NoFailureYet

-----------------------------------------------------------------------------
\* Min of two numbers is one of them and exceeds neither.
LEMMA MinPair ==
    ASSUME NEW a \in Int, NEW b \in Int
    PROVE  Min({a, b}) \in {a, b} /\ Min({a, b}) <= a /\ Min({a, b}) <= b
<1>1. \E x \in {a, b} : \A y \in {a, b} : x <= y
  BY SMT
<1> QED  BY <1>1 DEF Min

\* checkCollectorUrl keeps the configuration valid and takes the file's version.
LEMMA AcceptedType ==
    ASSUME NEW old \in Config(Urls), NEW new \in Config(Urls \cup {"invalid"})
    PROVE  Accepted(old, new) \in Config(Urls) /\ Accepted(old, new).version = new.version
BY DEF Accepted, Config, Urls

\* One failure is counted as one.
LEMMA MoreThanNone == More(0) = 1
BY MinPair DEF More

-----------------------------------------------------------------------------
\* A worker that has just started satisfies the invariant.
LEMMA InitIInv == Init => IInv
<1> SUFFICES ASSUME Init PROVE IInv
  OBVIOUS
<1> USE WorkerAssumption DEF Init
<1>1. active \in Config(Urls) /\ file \in Config(Urls \cup {"invalid"})
  BY DEF Config
<1>2. TypeOK
  <2>1. latch \in BOOLEAN /\ shutdownPending \in BOOLEAN /\ reloadPending \in BOOLEAN
    BY Zenon
  <2>2. /\ pc = "loop" /\ signalled = active
        /\ allocated = 0 /\ inFlight = 0 /\ failures = 0 /\ queued = 0
    OBVIOUS
  <2> QED  BY <1>1, <2>1, <2>2 DEF TypeOK
<1>3. NoSleepOnPendingSignal /\ BatchFitsBuffer /\ BufferEmptyBetweenPosts
  BY DEF NoSleepOnPendingSignal, BatchFitsBuffer, BufferEmptyBetweenPosts
<1>4. ReloadNotLost /\ SignalledFromFile
  <2>1. active.version \in Nat /\ signalled = active /\ file = active
    BY <1>1 DEF Config
  <2> QED  BY <2>1 DEF ReloadNotLost, SignalledFromFile
<1>5. OneFailurePerWakeup /\ NoFailureYet
  BY DEF OneFailurePerWakeup, NoFailureYet
<1> QED  BY <1>2, <1>3, <1>4, <1>5 DEF IInv

\* Every step keeps the types.
LEMMA StepTypeOK == IInv /\ [Next]_vars => TypeOK'
<1> SUFFICES ASSUME IInv, [Next]_vars PROVE TypeOK'
  OBVIOUS
<1> USE WorkerAssumption DEF IInv, TypeOK, Goto, flags, world
<1>1. CASE LoopExit \/ LoopReload \/ ConfigRead \/ LoopDrain \/ DrainToLog
  <2>1. CASE LoopExit
    BY <2>1 DEF LoopExit
  <2>2. CASE LoopReload
    <3>1. latch' \in BOOLEAN /\ shutdownPending' \in BOOLEAN /\ reloadPending' \in BOOLEAN
      BY <2>2, Zenon DEF LoopReload
    <3>2. /\ pc' = "readConfig" /\ failures' = 0
          /\ UNCHANGED <<active, allocated, inFlight, queued, file, signalled>>
      BY <2>2 DEF LoopReload
    <3> QED  BY <3>1, <3>2
  <2>3. CASE ConfigRead
    BY <2>3 DEF ConfigRead
  <2>4. CASE LoopDrain
    BY <2>4 DEF LoopDrain
  <2>5. CASE DrainToLog
    BY <2>5 DEF DrainToLog
  <2> QED  BY <1>1, <2>1, <2>2, <2>3, <2>4, <2>5
<1>2. CASE ReadConfig
  BY <1>2, AcceptedType DEF ReadConfig
<1>3. CASE LogSpan
  BY <1>3 DEF LogSpan
<1>4. CASE DrainToCollector
  <2>1. active.batch \in 0..MaxBatch
    BY DEF Config
  <2> QED  BY <1>4, <2>1 DEF DrainToCollector
<1>5. CASE TakeNone
  BY <1>5 DEF TakeNone, FreeBuffer
<1>6. CASE TakeBatch
  <2> DEFINE taken == Min({queued, active.batch})
  <2>1. queued \in Int /\ active.batch \in 1..MaxBatch /\ active.batch \in Int
    BY DEF Config
  <2>2. taken \in 0..MaxBatch /\ queued - taken \in 0..Capacity
    <3> HIDE DEF taken
    <3>1. taken \in {queued, active.batch} /\ taken <= queued /\ taken <= active.batch
      BY <2>1, MinPair, Zenon DEF taken
    <3> QED  BY <2>1, <3>1
  <2>3. inFlight' = taken /\ queued' = queued - taken
    BY <1>6 DEF TakeBatch
  <2> HIDE DEF taken
  <2> QED  BY <1>6, <2>2, <2>3 DEF TakeBatch
<1>7. CASE PostAccepted
  BY <1>7 DEF PostAccepted, FreeBuffer
<1>8. CASE PostFailed
  <2>1. failures = 0
    BY <1>8 DEF PostFailed, NoFailureYet
  <2>2. failures' = 1
    BY <1>8, <2>1, MoreThanNone DEF PostFailed
  <2> QED  BY <1>8, <2>2 DEF PostFailed, FreeBuffer
<1>9. CASE StopAfterDrain \/ SkipSleep \/ Sleep \/ WakeUp \/ ResetLatch
  BY <1>9 DEF StopAfterDrain, SkipSleep, Sleep, WakeUp, ResetLatch
<1>10. CASE PostConsumesLatch \/ Terminate \/ Enqueue
  <2>1. CASE PostConsumesLatch
    BY <2>1 DEF PostConsumesLatch
  <2>2. CASE Terminate
    BY <2>2 DEF Terminate
  <2>3. CASE Enqueue
    BY <2>3 DEF Enqueue
  <2> QED  BY <1>10, <2>1, <2>2, <2>3
<1>11. CASE Crash \/ Restart
  <2>1. CASE Crash
    BY <2>1 DEF Crash, FreeBuffer
  <2>2. CASE Restart
    <3>1. latch' \in BOOLEAN /\ shutdownPending' \in BOOLEAN /\ reloadPending' \in BOOLEAN
      BY <2>2, Zenon DEF Restart
    <3>2. /\ pc' = "loop" /\ failures' = 0 /\ active' = signalled
          /\ UNCHANGED <<allocated, inFlight, queued, file, signalled>>
      BY <2>2 DEF Restart
    <3> QED  BY <3>1, <3>2
  <2> QED  BY <1>11, <2>1, <2>2
<1>12. CASE EditFile
  <2>1. file' \in Config(Urls \cup {"invalid"})
    BY <1>12 DEF EditFile, Config
  <2> QED  BY <1>12, <2>1 DEF EditFile
<1>13. CASE Reload
  <2>1. signalled' \in Config(Urls)
    BY <1>13, AcceptedType DEF Reload
  <2> QED  BY <1>13, <2>1 DEF Reload
<1>14. CASE UNCHANGED vars
  BY <1>14 DEF vars
<1> QED
  BY <1>1, <1>2, <1>3, <1>4, <1>5, <1>6, <1>7, <1>8, <1>9, <1>10, <1>11, <1>12, <1>13,
     <1>14
  DEF Next, WorkerStep, PostEnds

-----------------------------------------------------------------------------
\* The worker only goes to sleep with both flags down; a handler that raises one
\* during the sleep sets the latch with it.
LEMMA StepNoSleep == IInv /\ [Next]_vars => NoSleepOnPendingSignal'
<1> SUFFICES ASSUME IInv, [Next]_vars PROVE NoSleepOnPendingSignal'
  OBVIOUS
<1> USE DEF IInv, NoSleepOnPendingSignal, Goto, flags, world
<1>1. CASE WorkerStep
  <2>1. CASE Sleep
    BY <2>1 DEF Sleep
  <2>2. CASE LogSpan
    BY <2>2 DEF LogSpan
  <2>3. CASE PostAccepted
    BY <2>3 DEF PostAccepted
  <2>4. CASE ~(Sleep \/ LogSpan \/ PostAccepted)
    <3>1. pc' # "waiting"
      BY <1>1, <2>4
      DEF WorkerStep, PostEnds, LoopExit, LoopReload, ReadConfig, ConfigRead, LoopDrain,
          DrainToLog, DrainToCollector, TakeNone, TakeBatch, PostFailed,
          StopAfterDrain, SkipSleep, WakeUp, ResetLatch
    <3> QED  BY <3>1
  <2> QED  BY <2>1, <2>2, <2>3, <2>4
<1>2. CASE PostConsumesLatch
  BY <1>2 DEF PostConsumesLatch
<1>3. CASE Crash \/ Restart
  BY <1>3 DEF Crash, Restart
<1>4. CASE Enqueue \/ EditFile
  BY <1>4 DEF Enqueue, EditFile
<1>5. CASE Reload
  <2>1. CASE Running
    BY <1>5, <2>1 DEF Reload
  <2>2. CASE ~Running
    BY <1>5, <2>2 DEF Reload, Running
  <2> QED  BY <2>1, <2>2
<1>6. CASE Terminate
  BY <1>6 DEF Terminate
<1>7. CASE UNCHANGED vars
  BY <1>7 DEF vars
<1> QED  BY <1>1, <1>2, <1>3, <1>4, <1>5, <1>6, <1>7 DEF Next

\* The batch size changes only while no buffer is in use, and a batch holds no more
\* than was asked for.
LEMMA StepBatchFits ==
    IInv /\ [Next]_vars => BatchFitsBuffer' /\ BufferEmptyBetweenPosts'
<1> SUFFICES ASSUME IInv, [Next]_vars
             PROVE  BatchFitsBuffer' /\ BufferEmptyBetweenPosts'
  OBVIOUS
<1> USE DEF IInv, BatchFitsBuffer, BufferEmptyBetweenPosts, Goto, flags, world
<1>1. /\ active.batch \in Nat /\ queued \in Nat /\ inFlight \in Nat /\ allocated \in Nat
      /\ pc # "posting" => inFlight = 0
  BY WorkerAssumption DEF TypeOK, Config
<1>2. CASE LoopExit \/ LoopReload \/ ReadConfig \/ ConfigRead \/ LoopDrain \/ DrainToLog
  BY <1>1, <1>2 DEF LoopExit, LoopReload, ReadConfig, ConfigRead, LoopDrain, DrainToLog
<1>3. CASE LogSpan
  BY <1>1, <1>3 DEF LogSpan
<1>4. CASE DrainToCollector
  BY <1>1, <1>4 DEF DrainToCollector
<1>5. CASE TakeBatch
  <2>1. inFlight' = Min({queued, active.batch})
    BY <1>5 DEF TakeBatch
  <2>2. inFlight' \in {queued, active.batch} /\ inFlight' <= active.batch
    <3>1. queued \in Int /\ active.batch \in Int
      BY <1>1
    <3> QED  BY <2>1, <3>1, MinPair, Zenon
  <2>3. active' = active /\ allocated' = allocated /\ pc' = "posting"
    BY <1>5 DEF TakeBatch
  <2>4. active.batch <= allocated
    BY <1>5 DEF TakeBatch
  <2> QED  BY <1>1, <2>2, <2>3, <2>4
<1>6. CASE TakeNone \/ PostAccepted \/ PostFailed \/ Crash
  BY <1>1, <1>6 DEF TakeNone, PostAccepted, PostFailed, Crash, FreeBuffer
<1>7. CASE StopAfterDrain \/ SkipSleep \/ Sleep \/ WakeUp \/ ResetLatch
  BY <1>1, <1>7 DEF StopAfterDrain, SkipSleep, Sleep, WakeUp, ResetLatch
<1>8. CASE PostConsumesLatch \/ Restart \/ Enqueue \/ EditFile \/ Reload \/ Terminate
  BY <1>1, <1>8 DEF PostConsumesLatch, Restart, Enqueue, EditFile, Reload, Terminate
<1>9. CASE UNCHANGED vars
  BY <1>9 DEF vars
<1> QED
  BY <1>2, <1>3, <1>4, <1>5, <1>6, <1>7, <1>8, <1>9 DEF Next, WorkerStep, PostEnds

\* A reload clears its flag before it reads the file, and the file it reads is at
\* least as new as the one that was signalled.
LEMMA StepReload == IInv /\ [Next]_vars => ReloadNotLost' /\ SignalledFromFile'
<1> SUFFICES ASSUME IInv, [Next]_vars PROVE ReloadNotLost' /\ SignalledFromFile'
  OBVIOUS
<1> USE DEF IInv, ReloadNotLost, SignalledFromFile, Running, Goto, flags, world
<1>1. /\ active.version \in Nat /\ signalled.version \in Nat /\ file.version \in Nat
      /\ signalled \in Config(Urls) /\ active \in Config(Urls)
      /\ file \in Config(Urls \cup {"invalid"})
  BY WorkerAssumption DEF TypeOK, Config
<1>2. CASE LoopExit \/ LoopReload \/ ConfigRead \/ LoopDrain \/ DrainToLog
  BY <1>1, <1>2 DEF LoopExit, LoopReload, ConfigRead, LoopDrain, DrainToLog
<1>3. CASE ReadConfig
  <2>1. active'.version = file.version
    BY <1>1, <1>3, AcceptedType DEF ReadConfig
  <2> QED  BY <1>1, <1>3, <2>1 DEF ReadConfig
<1>4. CASE LogSpan \/ DrainToCollector \/ TakeNone \/ TakeBatch
  BY <1>1, <1>4 DEF LogSpan, DrainToCollector, TakeNone, TakeBatch
<1>5. CASE PostAccepted \/ PostFailed \/ PostConsumesLatch
  BY <1>1, <1>5 DEF PostAccepted, PostFailed, PostConsumesLatch
<1>6. CASE StopAfterDrain \/ SkipSleep \/ Sleep \/ WakeUp \/ ResetLatch
  BY <1>1, <1>6 DEF StopAfterDrain, SkipSleep, Sleep, WakeUp, ResetLatch
<1>7. CASE Crash
  BY <1>1, <1>7 DEF Crash
<1>8. CASE Restart
  BY <1>1, <1>8 DEF Restart
<1>9. CASE Enqueue \/ Terminate
  BY <1>1, <1>9 DEF Enqueue, Terminate
<1>10. CASE EditFile
  <2>1. file'.version = file.version + 1
    BY <1>10 DEF EditFile
  <2> QED  BY <1>1, <1>10, <2>1 DEF EditFile
<1>11. CASE Reload
  <2>1. signalled'.version = file.version
    BY <1>1, <1>11, AcceptedType DEF Reload
  <2>2. file' = file /\ (Running' => reloadPending')
    BY <1>11 DEF Reload
  <2> QED  BY <1>1, <2>1, <2>2
<1>12. CASE UNCHANGED vars
  BY <1>12 DEF vars
<1> QED
  BY <1>2, <1>3, <1>4, <1>5, <1>6, <1>7, <1>8, <1>9, <1>10, <1>11, <1>12
  DEF Next, WorkerStep, PostEnds

\* Every wake-up begins with no failure and the first one ends its drain.
LEMMA StepFailures == IInv /\ [Next]_vars => OneFailurePerWakeup' /\ NoFailureYet'
<1> SUFFICES ASSUME IInv, [Next]_vars PROVE OneFailurePerWakeup' /\ NoFailureYet'
  OBVIOUS
<1> USE DEF IInv, OneFailurePerWakeup, NoFailureYet, Goto, flags, world
<1>1. CASE LoopExit \/ LoopReload \/ ReadConfig \/ ConfigRead \/ LoopDrain \/ DrainToLog
  BY <1>1 DEF LoopExit, LoopReload, ReadConfig, ConfigRead, LoopDrain, DrainToLog
<1>2. CASE LogSpan \/ DrainToCollector \/ TakeNone \/ TakeBatch
  BY <1>2 DEF LogSpan, DrainToCollector, TakeNone, TakeBatch
<1>3. CASE PostAccepted \/ PostConsumesLatch
  BY <1>3 DEF PostAccepted, PostConsumesLatch
<1>4. CASE PostFailed
  <2>1. failures' = 1
    BY <1>4, MoreThanNone DEF PostFailed
  <2> QED  BY <1>4, <2>1 DEF PostFailed
<1>5. CASE StopAfterDrain \/ SkipSleep \/ Sleep \/ WakeUp \/ ResetLatch
  BY <1>5 DEF StopAfterDrain, SkipSleep, Sleep, WakeUp, ResetLatch
<1>6. CASE Crash \/ Restart
  BY <1>6 DEF Crash, Restart
<1>7. CASE Enqueue \/ EditFile \/ Reload \/ Terminate
  BY <1>7 DEF Enqueue, EditFile, Reload, Terminate
<1>8. CASE UNCHANGED vars
  BY <1>8 DEF vars
<1> QED
  BY <1>1, <1>2, <1>3, <1>4, <1>5, <1>6, <1>7, <1>8 DEF Next, WorkerStep, PostEnds

\* The inductive invariant holds in every reachable state.
LEMMA AlwaysIInv == Spec => []IInv
<1>1. IInv /\ [Next]_vars => IInv'
  BY StepTypeOK, StepNoSleep, StepBatchFits, StepReload, StepFailures DEF IInv
<1> QED  BY InitIInv, <1>1, PTL DEF Spec

-----------------------------------------------------------------------------
\* Every variable of the worker loop keeps its type, whatever the configuration
\* file says (pg_eatrace_worker.c:28-42 rejects what it cannot use).
THEOREM WorkerTypeCorrect == Spec => []TypeOK
BY AlwaysIInv, PTL DEF IInv

\* The worker never sleeps over a reload or shutdown request although the HTTP
\* client consumes its wake-ups (pg_eatrace_worker.c:215-224).
THEOREM NoRequestSleptOver == Spec => []NoSleepOnPendingSignal
BY AlwaysIInv, PTL DEF IInv

\* dequeueSpanBatch is never asked for more spans than the buffer of the drain
\* holds, whatever reloads come in between (pg_eatrace_worker.c:169-177).
THEOREM BufferNeverOverrun == Spec => []BatchFitsBuffer
BY AlwaysIInv, PTL DEF IInv

\* A reload that was signalled is pending or applied (pg_eatrace_worker.c:201-204).
THEOREM ReloadsAreKept == Spec => []ReloadNotLost
BY AlwaysIInv, PTL DEF IInv

\* One failed request ends the wake-up (pg_eatrace_worker.c:171-177).
THEOREM FailureEndsDrain == Spec => []OneFailurePerWakeup
BY AlwaysIInv, PTL DEF IInv
=============================================================================
