--------------------------- MODULE SpanRingProofs ---------------------------
(***************************************************************************)
(* Proofs about SpanRing for every number of backends and readers, every   *)
(* ring capacity and every batch size: first that the shared memory stays  *)
(* consistent, then that the ring holds every span once (HeldOnce) and     *)
(* implements the first-in first-out queue of SpanQueue (ImplementsQueue). *)
(***************************************************************************)
EXTENDS SpanRing, SequenceTheorems, FiniteSetTheorems, TLAPS

\* The inductive invariant: the indexes stay in their types only because they
\* agree with the count, and they agree only because writers exclude each other.
IInv == TypeOK /\ LockExclusion /\ RingConsistent

-----------------------------------------------------------------------------
\* Advancing an index that is n slots after r gives the one n + 1 slots after it.
LEMMA AdvanceEnd ==
    ASSUME NEW C \in Nat \ {0}, NEW r \in 0..C - 1, NEW n \in 0..C - 1
    PROVE  (((r + n) % C) + 1) % C = (r + (n + 1)) % C
<1>1. CASE r + n + 1 < C
  <2>1. (r + n) % C = r + n
    BY <1>1, SMT
  <2> QED  BY <2>1, SMT
<1>2. CASE r + n + 1 = C
  <2>1. (r + n) % C = C - 1
    BY <1>2, SMT
  <2>2. (((r + n) % C) + 1) % C = C % C
    BY <2>1, SMT
  <2> QED  BY <1>2, <2>2, SMT
<1>3. CASE r + n + 1 > C
  <2>1. (r + n) % C = r + n - C
    BY <1>3, SMT
  <2>2. r + n - C + 1 \in 0..C - 1
    BY <1>3, SMT
  <2>3. (((r + n) % C) + 1) % C = r + n - C + 1
    BY <2>1, <2>2, SMT
  <2>4. r + (n + 1) \in C..2 * C - 1
    BY <1>3, SMT
  <2>5. (r + (n + 1)) % C = r + (n + 1) - C
    BY <2>4, SMT
  <2> QED  BY <2>3, <2>5, SMT
<1> QED  BY <1>1, <1>2, <1>3, SMT

\* Advancing the read index leaves one slot less before the same write index.
LEMMA AdvanceStart ==
    ASSUME NEW C \in Nat \ {0}, NEW r \in 0..C - 1, NEW n \in 1..C
    PROVE  (r + n) % C = (((r + 1) % C) + (n - 1)) % C
<1>1. CASE r + 1 < C
  <2>1. (r + 1) % C = r + 1
    BY <1>1, SMT
  <2>2. (r + 1) + (n - 1) = r + n
    BY SMT
  <2> QED  BY <2>1, <2>2
<1>2. CASE r + 1 = C
  <2>1. (r + 1) % C = 0
    BY <1>2, SMT
  <2>2. r + n \in C..2 * C - 1 /\ r + n - C = n - 1
    BY <1>2, SMT
  <2>3. (r + n) % C = n - 1
    BY <2>2, SMT
  <2>4. n - 1 \in 0..C - 1
    BY SMT
  <2>5. (0 + (n - 1)) % C = n - 1
    BY <2>4, SMT
  <2> QED  BY <2>1, <2>3, <2>5
<1> QED  BY <1>1, <1>2, SMT

\* An index that is advanced stays in the ring.
LEMMA AdvanceType ==
    ASSUME NEW i \in 0..Capacity - 1
    PROVE  Advance(i) \in 0..Capacity - 1
BY CapacityAssumption, SMT DEF Advance

\* Only the holder of the lock can have stored a span that is not counted yet.
LEMMA StoredByHolder ==
    ASSUME LockExclusion
    PROVE  /\ \A b \in Backends : backendPc[b] = "count" => Stored = 1 /\ exclusive = b
           /\ \A b \in Backends : exclusive = b /\ backendPc[b] # "count" => Stored = 0
           /\ exclusive \notin Backends => Stored = 0
BY DEF LockExclusion, BackendInside, Stored

\* A step that leaves the ring and the statements around it alone keeps it
\* consistent.
LEMMA RingFrame ==
    ASSUME RingConsistent,
           UNCHANGED <<writeIndex, readIndex, count>>,
           \A b \in Backends : backendPc'[b] = "count" <=> backendPc[b] = "count",
           workerPc' = "uncount" <=> workerPc = "uncount",
           Len(batch') <= maxCount',
           workerPc' \in {"idle", "acquireTake", "recordLast", "releaseRecord"} => batch' = <<>>
    PROVE  RingConsistent'
<1>1. Stored' = Stored /\ Taken' = Taken
  BY DEF Stored, Taken
<1> QED  BY <1>1 DEF RingConsistent

-----------------------------------------------------------------------------
\* The zeroed segment and idle processes satisfy the invariant.
LEMMA InitIInv == Init => IInv
<1> SUFFICES ASSUME Init PROVE IInv
  OBVIOUS
<1>1. TypeOK
  <2> USE CapacityAssumption, BoundAssumption DEF Init
  <2>1. /\ slots \in [0..Capacity - 1 -> Span \cup {NoSpan}]
        /\ span \in [Backends -> Span \cup {NoSpan}]
    OBVIOUS
  <2>2. 0 \in 0..Capacity - 1 /\ 0 \in 0..Capacity /\ 1 \in 1..MaxBatch /\ 0 \in 0..MaxOffered
    OBVIOUS
  <2>3. status \in [Readers -> [depth : Nat, dropped : Nat, dequeued : Nat,
                                  exported : Nat, failures : Nat, http : HttpCodes]]
    BY DEF EmptyStatus, HttpCodes
  <2>4. batch \in Seq(Span \cup {NoSpan})
    OBVIOUS
  <2> QED  BY <2>1, <2>2, <2>3, <2>4 DEF TypeOK, HttpCodes
<1>2. LockExclusion
  BY ProcessAssumption DEF Init, LockExclusion, BackendInside, WorkerInside
<1>3. Stored = 0 /\ Taken = 0
  BY DEF Init, Stored, Taken
<1>4. 0 = 0 % Capacity
  BY CapacityAssumption, SMT
<1>5. RingConsistent
  BY <1>3, <1>4, CapacityAssumption DEF Init, RingConsistent
<1> QED  BY <1>1, <1>2, <1>5 DEF IInv

\* The restart of the postmaster leads to the initial state.
LEMMA ReinitIInv == PostmasterReinit => IInv'
<1> SUFFICES ASSUME PostmasterReinit PROVE IInv'
  OBVIOUS
<1>1. TypeOK'
  <2> USE CapacityAssumption, BoundAssumption DEF PostmasterReinit
  <2>1. /\ slots' \in [0..Capacity - 1 -> Span \cup {NoSpan}]
        /\ span' \in [Backends -> Span \cup {NoSpan}]
    OBVIOUS
  <2>2. 0 \in 0..Capacity - 1 /\ 0 \in 0..Capacity /\ 1 \in 1..MaxBatch /\ 0 \in 0..MaxOffered
    OBVIOUS
  <2>3. status' \in [Readers -> [depth : Nat, dropped : Nat, dequeued : Nat,
                                  exported : Nat, failures : Nat, http : HttpCodes]]
    BY DEF EmptyStatus, HttpCodes
  <2>4. batch' \in Seq(Span \cup {NoSpan})
    OBVIOUS
  <2> QED  BY <2>1, <2>2, <2>3, <2>4 DEF TypeOK, HttpCodes
<1>2. LockExclusion'
  BY ProcessAssumption
     DEF PostmasterReinit, LockExclusion, BackendInside, WorkerInside
<1>3. Stored' = 0 /\ Taken' = 0
  BY DEF PostmasterReinit, Stored, Taken
<1>4. 0 = 0 % Capacity
  BY CapacityAssumption, SMT
<1>5. RingConsistent'
  BY <1>3, <1>4, CapacityAssumption DEF PostmasterReinit, RingConsistent
<1> QED  BY <1>1, <1>2, <1>5 DEF IInv

\* enqueueSpan preserves the invariant.
LEMMA EnqueueIInv ==
    ASSUME IInv, NEW b \in Backends, EnqueueCall(b) \/ EnqueueStep(b)
    PROVE  IInv'
<1> USE DEF IInv
<1> USE ProcessAssumption
<1>1. CASE EnqueueCall(b)
  <2> USE <1>1 DEF EnqueueCall, EnqueueGoto, ring, counters, lock, workerVars,
                   readerVars
  <2>1. TypeOK'
    BY BoundAssumption DEF TypeOK, Span
  <2>2. LockExclusion'
    BY DEF TypeOK, LockExclusion, BackendInside, WorkerInside
  <2>3. RingConsistent'
    BY RingFrame DEF TypeOK, RingConsistent
  <2> QED  BY <2>1, <2>2, <2>3
<1>2. CASE EnqueueAcquire(b)
  <2> USE <1>2 DEF EnqueueAcquire, EnqueueGoto, AcquireExclusive, ring, counters,
                   workerVars, readerVars
  <2>1. TypeOK'
    BY DEF TypeOK
  <2>2. LockExclusion'
    BY DEF TypeOK, LockExclusion, BackendInside, WorkerInside
  <2>3. RingConsistent'
    BY RingFrame DEF TypeOK, RingConsistent
  <2> QED  BY <2>1, <2>2, <2>3
<1>3. CASE EnqueueDrop(b)
  <2> USE <1>3 DEF EnqueueDrop, EnqueueGoto, ring, lock, workerVars, readerVars
  <2>1. TypeOK'
    BY DEF TypeOK
  <2>2. LockExclusion'
    BY DEF TypeOK, LockExclusion, BackendInside, WorkerInside
  <2>3. RingConsistent'
    BY RingFrame DEF TypeOK, RingConsistent
  <2> QED  BY <2>1, <2>2, <2>3
<1>4. CASE EnqueueStore(b)
  <2> USE <1>4 DEF EnqueueStore, EnqueueGoto, counters, lock, workerVars, readerVars
  <2>1. TypeOK'
    BY AdvanceType DEF TypeOK
  <2>2. LockExclusion'
    BY DEF TypeOK, LockExclusion, BackendInside, WorkerInside
  <2>3. exclusive = b /\ workerPc # "uncount"
    BY DEF LockExclusion, BackendInside, WorkerInside
  <2>4. Stored = 0 /\ Taken = 0
    BY <2>3, StoredByHolder DEF Taken
  <2>5. Stored' = 1 /\ Taken' = 0
    BY <2>3 DEF TypeOK, Stored, Taken
  <2>6. writeIndex' = (readIndex + (count + 1)) % Capacity
    <3>1. writeIndex = (readIndex + count) % Capacity /\ count \in 0..Capacity - 1
      BY <2>4, CapacityAssumption DEF TypeOK, RingConsistent
    <3> QED  BY <3>1, AdvanceEnd, CapacityAssumption DEF TypeOK, Advance
  <2>7. RingConsistent'
    BY <2>3, <2>5, <2>6, CapacityAssumption DEF TypeOK, RingConsistent
  <2> QED  BY <2>1, <2>2, <2>7
<1>5. CASE EnqueueCount(b)
  <2> USE <1>5 DEF EnqueueCount, EnqueueGoto, counters, lock, workerVars, readerVars
  <2>1. exclusive = b /\ workerPc # "uncount"
    BY DEF LockExclusion, BackendInside, WorkerInside
  <2>2. Stored = 1 /\ Taken = 0
    BY <2>1 DEF Stored, Taken
  <2>3. Stored' = 0 /\ Taken' = 0
    BY <2>1 DEF TypeOK, LockExclusion, BackendInside, Stored, Taken
  <2>4. TypeOK'
    BY <2>2, CapacityAssumption DEF TypeOK, RingConsistent
  <2>5. LockExclusion'
    BY DEF TypeOK, LockExclusion, BackendInside, WorkerInside
  <2>6. RingConsistent'
    BY <2>1, <2>2, <2>3 DEF TypeOK, RingConsistent
  <2> QED  BY <2>4, <2>5, <2>6
<1>6. CASE EnqueueRelease(b)
  <2> USE <1>6 DEF EnqueueRelease, EnqueueGoto, ReleaseExclusive, ring, counters,
                   workerVars, readerVars
  <2>1. TypeOK'
    BY DEF TypeOK
  <2>2. LockExclusion'
    BY DEF TypeOK, LockExclusion, BackendInside, WorkerInside
  <2>3. RingConsistent'
    BY RingFrame DEF TypeOK, RingConsistent
  <2> QED  BY <2>1, <2>2, <2>3
<1> QED  BY <1>1, <1>2, <1>3, <1>4, <1>5, <1>6 DEF EnqueueStep

\* dequeueSpanBatch and what the worker does with its batch preserve the invariant.
LEMMA WorkerIInv ==
    ASSUME IInv,
           \/ \E toCollector \in BOOLEAN, n \in 1..MaxBatch :
                 DequeueCall(toCollector, n)
           \/ WorkerStep
           \/ WorkerDies
    PROVE  IInv'
<1> USE DEF IInv
<1> USE ProcessAssumption
<1>1. CASE \E toCollector \in BOOLEAN, n \in 1..MaxBatch : DequeueCall(toCollector, n)
  <2> USE <1>1 DEF DequeueCall, lock, ring, counters, backendVars, readerVars
  <2>1. TypeOK'
    BY DEF TypeOK
  <2>2. LockExclusion'
    BY DEF TypeOK, LockExclusion, BackendInside, WorkerInside
  <2>3. RingConsistent'
    BY RingFrame DEF TypeOK, RingConsistent
  <2> QED  BY <2>1, <2>2, <2>3
<1>2. CASE DequeueAcquire
  <2> USE <1>2 DEF DequeueAcquire, AcquireExclusive, ring, counters, backendVars, readerVars
  <2>1. TypeOK'
    BY DEF TypeOK
  <2>2. LockExclusion'
    BY DEF TypeOK, LockExclusion, BackendInside, WorkerInside
  <2>3. RingConsistent'
    BY RingFrame DEF TypeOK, RingConsistent
  <2> QED  BY <2>1, <2>2, <2>3
<1>3. CASE DequeueTake
  <2> USE <1>3 DEF DequeueTake, counters, lock, backendVars, readerVars
  <2>1. TypeOK'
    <3>1. readIndex' \in 0..Capacity - 1
      BY AdvanceType DEF TypeOK
    <3>2. slots[readIndex] \in Span \cup {NoSpan}
      BY DEF TypeOK
    <3>3. batch' \in Seq(Span \cup {NoSpan})
      BY <3>2 DEF TypeOK
    <3> QED  BY <3>1, <3>3 DEF TypeOK
  <2>2. LockExclusion'
    BY DEF TypeOK, LockExclusion, BackendInside, WorkerInside
  <2>3. exclusive = Worker /\ Stored = 0 /\ Stored' = 0 /\ Taken = 0 /\ Taken' = 1
    BY StoredByHolder DEF LockExclusion, WorkerInside, Stored, Taken
  <2>4. writeIndex = (readIndex' + (count - 1)) % Capacity
    <3>1. writeIndex = (readIndex + count) % Capacity
      BY <2>3 DEF TypeOK, RingConsistent
    <3>2. count \in 1..Capacity
      BY CapacityAssumption DEF TypeOK
    <3> QED  BY <3>1, <3>2, AdvanceStart, CapacityAssumption DEF TypeOK, Advance
  <2>5. Len(batch') <= maxCount'
    BY DEF TypeOK
  <2>6. count' + Stored' - Taken' = count - 1 /\ count - 1 \in 0..Capacity
    BY <2>3, CapacityAssumption DEF TypeOK
  <2>7. RingConsistent'
    BY <2>4, <2>5, <2>6 DEF TypeOK, RingConsistent
  <2> QED  BY <2>1, <2>2, <2>7
<1>4. CASE DequeueUncount
  <2> USE <1>4 DEF DequeueUncount, lock, backendVars, readerVars
  <2>1. TypeOK'
    <3>1. count - 1 \in 0..Capacity
      BY CapacityAssumption DEF TypeOK, RingConsistent
    <3>2. dequeuedCount + 1 \in Nat
      BY DEF TypeOK
    <3> QED  BY <3>1, <3>2 DEF TypeOK
  <2>2. LockExclusion'
    BY DEF TypeOK, LockExclusion, BackendInside, WorkerInside
  <2>3. exclusive = Worker /\ Stored = 0 /\ Stored' = 0 /\ Taken = 1 /\ Taken' = 0
    BY StoredByHolder DEF LockExclusion, WorkerInside, Stored, Taken
  <2>4. RingConsistent'
    BY <2>3 DEF TypeOK, RingConsistent
  <2> QED  BY <2>1, <2>2, <2>4
<1>5. CASE DequeueRelease
  <2> USE <1>5 DEF DequeueRelease, ReleaseExclusive, ring, counters, backendVars, readerVars
  <2>1. TypeOK'
    BY DEF TypeOK
  <2>2. LockExclusion'
    BY DEF TypeOK, LockExclusion, BackendInside, WorkerInside
  <2>3. RingConsistent'
    BY RingFrame DEF TypeOK, RingConsistent
  <2> QED  BY <2>1, <2>2, <2>3
<1>6. CASE LogSpan
  <2> USE <1>6 DEF LogSpan, lock, ring, counters, backendVars, readerVars
  <2>1. TypeOK'
    BY DEF TypeOK
  <2>2. LockExclusion'
    BY DEF TypeOK, LockExclusion, BackendInside, WorkerInside
  <2>3. RingConsistent'
    BY RingFrame DEF TypeOK, RingConsistent
  <2> QED  BY <2>1, <2>2, <2>3
<1>7. CASE \E code \in HttpCodes : PostAnswered(code)
  <2> USE <1>7 DEF PostAnswered, lock, ring, counters, backendVars, readerVars
  <2>1. TypeOK'
    BY DEF TypeOK
  <2>2. LockExclusion'
    BY DEF TypeOK, LockExclusion, BackendInside, WorkerInside
  <2>3. RingConsistent'
    BY RingFrame DEF TypeOK, RingConsistent
  <2> QED  BY <2>1, <2>2, <2>3
<1>8. CASE WorkerDies
  <2> USE <1>8 DEF WorkerDies, lock, ring, counters, backendVars, readerVars
  <2>1. TypeOK'
    BY DEF TypeOK
  <2>2. LockExclusion'
    BY DEF TypeOK, LockExclusion, BackendInside, WorkerInside
  <2>3. RingConsistent'
    BY RingFrame DEF TypeOK, RingConsistent
  <2> QED  BY <2>1, <2>2, <2>3
<1>9. CASE RecordAcquire
  <2> USE <1>9 DEF RecordAcquire, AcquireExclusive, ring, counters, backendVars, readerVars
  <2>1. TypeOK'
    BY DEF TypeOK
  <2>2. LockExclusion'
    BY DEF TypeOK, LockExclusion, BackendInside, WorkerInside
  <2>3. RingConsistent'
    BY RingFrame DEF TypeOK, RingConsistent
  <2> QED  BY <2>1, <2>2, <2>3
<1>10. CASE RecordExportSuccess
  <2> USE <1>10 DEF RecordExportSuccess, lock, ring, backendVars, readerVars
  <2>1. TypeOK'
    BY DEF TypeOK
  <2>2. LockExclusion'
    BY DEF TypeOK, LockExclusion, BackendInside, WorkerInside
  <2>3. RingConsistent'
    BY RingFrame DEF TypeOK, RingConsistent
  <2> QED  BY <2>1, <2>2, <2>3
<1>11. CASE RecordExportFailure
  <2> USE <1>11 DEF RecordExportFailure, lock, ring, backendVars, readerVars
  <2>1. TypeOK'
    BY DEF TypeOK
  <2>2. LockExclusion'
    BY DEF TypeOK, LockExclusion, BackendInside, WorkerInside
  <2>3. RingConsistent'
    BY RingFrame DEF TypeOK, RingConsistent
  <2> QED  BY <2>1, <2>2, <2>3
<1>12. CASE RecordLastHttpResult
  <2> USE <1>12 DEF RecordLastHttpResult, lock, ring, backendVars, readerVars
  <2>1. TypeOK'
    BY DEF TypeOK
  <2>2. LockExclusion'
    BY DEF TypeOK, LockExclusion, BackendInside, WorkerInside
  <2>3. RingConsistent'
    BY RingFrame DEF TypeOK, RingConsistent
  <2> QED  BY <2>1, <2>2, <2>3
<1>13. CASE RecordRelease
  <2> USE <1>13 DEF RecordRelease, ReleaseExclusive, ring, counters, backendVars, readerVars
  <2>1. TypeOK'
    BY DEF TypeOK
  <2>2. LockExclusion'
    BY DEF TypeOK, LockExclusion, BackendInside, WorkerInside
  <2>3. RingConsistent'
    BY RingFrame DEF TypeOK, RingConsistent
  <2> QED  BY <2>1, <2>2, <2>3
<1> QED  BY <1>1, <1>2, <1>3, <1>4, <1>5, <1>6, <1>7, <1>8, <1>9, <1>10, <1>11, <1>12, <1>13 DEF WorkerStep

\* getQueueStatus preserves the invariant.
LEMMA StatusIInv ==
    ASSUME IInv, NEW r \in Readers, StatusStep(r)
    PROVE  IInv'
<1> USE DEF IInv
<1> USE ProcessAssumption
<1>1. CASE StatusAcquire(r)
  <2> USE <1>1 DEF StatusAcquire, StatusGoto, AcquireShared, EmptyStatus, HttpCodes, ring, counters, backendVars, workerVars
  <2>1. TypeOK'
    BY DEF TypeOK
  <2>2. LockExclusion'
    BY DEF TypeOK, LockExclusion, BackendInside, WorkerInside
  <2>3. RingConsistent'
    BY RingFrame DEF TypeOK, RingConsistent
  <2> QED  BY <2>1, <2>2, <2>3
<1>2. CASE StatusCopyQueue(r)
  <2> USE <1>2 DEF StatusCopyQueue, StatusGoto, lock, ring, counters, backendVars, workerVars
  <2>1. TypeOK'
    <3>1. count \in Nat
      BY CapacityAssumption DEF TypeOK
    <3> QED  BY <3>1 DEF TypeOK
  <2>2. LockExclusion'
    BY DEF TypeOK, LockExclusion, BackendInside, WorkerInside
  <2>3. RingConsistent'
    BY RingFrame DEF TypeOK, RingConsistent
  <2> QED  BY <2>1, <2>2, <2>3
<1>3. CASE StatusCopyExport(r)
  <2> USE <1>3 DEF StatusCopyExport, StatusGoto, lock, ring, counters, backendVars, workerVars
  <2>1. TypeOK'
    BY DEF TypeOK
  <2>2. LockExclusion'
    BY DEF TypeOK, LockExclusion, BackendInside, WorkerInside
  <2>3. RingConsistent'
    BY RingFrame DEF TypeOK, RingConsistent
  <2> QED  BY <2>1, <2>2, <2>3
<1>4. CASE StatusRelease(r)
  <2> USE <1>4 DEF StatusRelease, StatusGoto, ReleaseShared, ring, counters, backendVars, workerVars
  <2>1. TypeOK'
    BY DEF TypeOK
  <2>2. LockExclusion'
    BY DEF TypeOK, LockExclusion, BackendInside, WorkerInside
  <2>3. RingConsistent'
    BY RingFrame DEF TypeOK, RingConsistent
  <2> QED  BY <2>1, <2>2, <2>3
<1> QED  BY <1>1, <1>2, <1>3, <1>4 DEF StatusStep

\* The invariant is inductive.
LEMMA StepIInv == IInv /\ [Next]_vars => IInv'
<1> SUFFICES ASSUME IInv, [Next]_vars PROVE IInv'
  OBVIOUS
<1>1. CASE \E b \in Backends : EnqueueCall(b) \/ EnqueueStep(b)
  BY <1>1, EnqueueIInv
<1>2. CASE \/ \E toCollector \in BOOLEAN, n \in 1..MaxBatch : DequeueCall(toCollector, n)
           \/ WorkerStep
           \/ WorkerDies
  BY <1>2, WorkerIInv
<1>3. CASE \E r \in Readers : StatusStep(r)
  BY <1>3, StatusIInv
<1>4. CASE PostmasterReinit
  BY <1>4, ReinitIInv
<1>5. CASE UNCHANGED vars
  <2> USE <1>5 DEF vars, ring, counters, lock, backendVars, workerVars, readerVars
  <2>1. TypeOK'
    BY DEF IInv, TypeOK
  <2>2. LockExclusion'
    BY DEF IInv, LockExclusion, BackendInside, WorkerInside
  <2>3. RingConsistent'
    BY RingFrame DEF IInv, RingConsistent
  <2> QED  BY <2>1, <2>2, <2>3 DEF IInv
<1> QED  BY <1>1, <1>2, <1>3, <1>4, <1>5 DEF Next

\* The inductive invariant holds in every reachable state.
LEMMA AlwaysIInv == Spec => []IInv
BY InitIInv, StepIInv, PTL DEF Spec

\* Every variable keeps its type; readIndex and writeIndex never leave the ring,
\* whatever max_spans is (pg_eatrace_queue.c:96-98 and 118-120).
THEOREM TypeCorrect == Spec => []TypeOK
BY AlwaysIInv, PTL DEF IInv

\* A process inside a writing section of pg_eatrace_queue.c is alone there.
THEOREM MutualExclusion == Spec => []LockExclusion
BY AlwaysIInv, PTL DEF IInv

\* The indexes and the count agree between any two statements of enqueueSpan and
\* dequeueSpanBatch, for every capacity, batch size and number of backends.
THEOREM RingStaysConsistent == Spec => []RingConsistent
BY AlwaysIInv, PTL DEF IInv

-----------------------------------------------------------------------------
\* The pending backends are among finitely many, so their number is one.
LEMMA PendingFinite == IsFiniteSet(Pending) /\ Cardinality(Pending) \in Nat
BY ProcessAssumption, FS_Subset, FS_CardinalityType DEF Pending

\* A step that moves one backend into or out of the pending ones changes their
\* number by one.
LEMMA PendingGrows ==
    ASSUME NEW b \in Backends, b \notin Pending, Pending' = Pending \cup {b}
    PROVE  Cardinality(Pending') = Cardinality(Pending) + 1
BY PendingFinite, FS_AddElement

\* And one less when it leaves them.
LEMMA PendingShrinks ==
    ASSUME NEW b \in Pending, Pending' = Pending \ {b}
    PROVE  Cardinality(Pending') = Cardinality(Pending) - 1
BY PendingFinite, FS_RemoveElement

\* Each step of the code moves a span from one place to the next, or none.
LEMMA StepNothingLost == IInv /\ NothingLost /\ [Next]_vars => NothingLost'
<1> SUFFICES ASSUME IInv, NothingLost, [Next]_vars PROVE NothingLost'
  OBVIOUS
<1> DEFINE Total == droppedCount + dequeuedCount + count + Cardinality(Pending)
<1>1. offered = Total
  BY DEF NothingLost
<1>2. SUFFICES offered' = Total'
  BY DEF NothingLost
<1>3. /\ droppedCount \in Nat /\ dequeuedCount \in Nat /\ count \in Int
      /\ backendPc \in [Backends -> {"idle", "acquire", "check", "count", "release"}]
  BY CapacityAssumption DEF IInv, TypeOK
<1>4. ASSUME NEW b \in Backends, EnqueueCall(b)
      PROVE  offered' = Total'
  <2>1. b \notin Pending /\ Pending' = Pending \cup {b}
    BY <1>3, <1>4 DEF EnqueueCall, EnqueueGoto, Pending
  <2>2. Cardinality(Pending') = Cardinality(Pending) + 1
    BY <2>1, PendingGrows
  <2> QED  BY <1>1, <1>3, <1>4, <2>2, PendingFinite
              DEF EnqueueCall, ring, counters
<1>5. ASSUME NEW b \in Backends, EnqueueDrop(b) \/ EnqueueCount(b)
      PROVE  offered' = Total'
  <2>1. b \in Pending /\ Pending' = Pending \ {b}
    BY <1>3, <1>5 DEF EnqueueDrop, EnqueueCount, EnqueueGoto, Pending
  <2>2. Cardinality(Pending') = Cardinality(Pending) - 1
    BY <2>1, PendingShrinks
  <2> QED  BY <1>1, <1>3, <1>5, <2>2, PendingFinite
              DEF EnqueueDrop, EnqueueCount, ring, counters
<1>6. ASSUME NEW b \in Backends, EnqueueAcquire(b) \/ EnqueueStore(b) \/ EnqueueRelease(b)
      PROVE  offered' = Total'
  <2>1. Pending' = Pending
    BY <1>3, <1>6 DEF EnqueueAcquire, EnqueueStore, EnqueueRelease, EnqueueGoto, Pending
  <2>2. Cardinality(Pending') = Cardinality(Pending)
    BY <2>1
  <2> QED  BY <1>1, <1>6, <2>2 DEF EnqueueAcquire, EnqueueStore, EnqueueRelease,
                                ring, counters
<1>7. CASE \/ \E toCollector \in BOOLEAN, n \in 1..MaxBatch : DequeueCall(toCollector, n)
           \/ WorkerStep
           \/ WorkerDies
  <2>1. UNCHANGED backendVars
    BY <1>7 DEF DequeueCall, WorkerStep, WorkerDies, DequeueAcquire, DequeueTake,
         DequeueUncount, DequeueRelease, LogSpan, PostAnswered, RecordAcquire,
         RecordExportSuccess, RecordExportFailure, RecordLastHttpResult, RecordRelease
  <2>2. Pending' = Pending
    BY <2>1 DEF Pending, backendVars
  <2>3. \/ UNCHANGED <<droppedCount, dequeuedCount, count>>
        \/ UNCHANGED droppedCount /\ count' = count - 1 /\ dequeuedCount' = dequeuedCount + 1
    BY <1>7 DEF DequeueCall, WorkerStep, WorkerDies, DequeueAcquire, DequeueTake,
         DequeueUncount, DequeueRelease, LogSpan, PostAnswered, RecordAcquire,
         RecordExportSuccess, RecordExportFailure, RecordLastHttpResult, RecordRelease,
         ring, counters
  <2>4. Cardinality(Pending') = Cardinality(Pending) /\ offered' = offered
    BY <2>1, <2>2 DEF backendVars
  <2> QED  BY <1>1, <1>3, <2>3, <2>4, PendingFinite
<1>8. CASE \/ \E r \in Readers : StatusStep(r)
           \/ UNCHANGED vars
  <2>1. UNCHANGED <<ring, counters, backendVars>>
    BY <1>8 DEF StatusStep, StatusAcquire, StatusCopyQueue, StatusCopyExport,
                StatusRelease, vars
  <2>2. Pending' = Pending
    BY <2>1 DEF Pending, backendVars
  <2> QED  BY <1>1, <2>1, <2>2 DEF ring, counters, backendVars
<1>9. CASE PostmasterReinit
  <2>1. Pending' = {}
    BY <1>9 DEF PostmasterReinit, Pending
  <2>2. Cardinality(Pending') = 0
    BY <2>1, FS_EmptySet
  <2> QED  BY <1>9, <2>2 DEF PostmasterReinit
<1> QED  BY <1>4, <1>5, <1>6, <1>7, <1>8, <1>9 DEF Next, EnqueueStep

\* Nothing was offered and nothing is held in the zeroed memory.
LEMMA InitNothingLost == Init => NothingLost
<1> SUFFICES ASSUME Init PROVE NothingLost
  OBVIOUS
<1>1. Pending = {}
  BY DEF Init, Pending
<1>2. Cardinality(Pending) = 0
  BY <1>1, FS_EmptySet
<1> QED  BY <1>2 DEF Init, NothingLost

\* No interleaving of backends, worker and status readers loses a span without
\* counting it, or counts one twice.
THEOREM SpansAreAccountedFor == Spec => []NothingLost
<1>1. IInv /\ NothingLost /\ [Next]_vars => (IInv /\ NothingLost)'
  BY StepIInv, StepNothingLost
<1> QED  BY InitIInv, InitNothingLost, <1>1, PTL DEF Spec

-----------------------------------------------------------------------------
\* A span enters the batch with the step that counts it as taken, and leaves it, at
\* the latest, with the step that counts it as exported.
LEMMA StepExported == IInv /\ ExportedWereDequeued /\ [Next]_vars => ExportedWereDequeued'
<1> SUFFICES ASSUME IInv, ExportedWereDequeued, [Next]_vars PROVE ExportedWereDequeued'
  OBVIOUS
<1>1. /\ exportedCount \in Nat /\ dequeuedCount \in Nat
      /\ batch \in Seq(Span \cup {NoSpan}) /\ Len(batch) \in Nat
      /\ exportedCount + Len(batch) <= dequeuedCount + Taken
  BY DEF IInv, TypeOK, ExportedWereDequeued
<1> USE <1>1 DEF ExportedWereDequeued, Taken
<1>2. CASE \/ \E b \in Backends : EnqueueCall(b) \/ EnqueueStep(b)
           \/ \E r \in Readers : StatusStep(r)
           \/ UNCHANGED vars
  <2>1. UNCHANGED <<exportedCount, dequeuedCount, batch, workerPc>>
    BY <1>2 DEF EnqueueStep, EnqueueCall, EnqueueAcquire, EnqueueDrop, EnqueueStore,
         EnqueueCount, EnqueueRelease, StatusStep, StatusAcquire, StatusCopyQueue,
         StatusCopyExport, StatusRelease, vars, counters, workerVars
  <2> QED  BY <2>1
<1>3. CASE DequeueTake
  <2>1. exportedCount' = exportedCount /\ dequeuedCount' = dequeuedCount
    BY <1>3 DEF DequeueTake, counters
  <2>2. slots[readIndex] \in Span \cup {NoSpan}
    BY DEF IInv, TypeOK
  <2>3. Len(batch') = Len(batch) + 1
    BY <1>3, <2>2 DEF DequeueTake
  <2>4. workerPc = "take" /\ workerPc' = "uncount"
    BY <1>3 DEF DequeueTake
  <2> QED  BY <2>1, <2>3, <2>4
<1>4. CASE DequeueUncount
  BY <1>4 DEF DequeueUncount
<1>5. CASE LogSpan \/ WorkerDies
  <2>1. UNCHANGED <<exportedCount, dequeuedCount>> /\ batch' = <<>>
    BY <1>5 DEF LogSpan, WorkerDies, counters
  <2>2. workerPc = "holding" /\ workerPc' = "idle"
    BY <1>5 DEF LogSpan, WorkerDies
  <2> QED  BY <2>1, <2>2
<1>6. CASE RecordExportSuccess \/ RecordExportFailure
  <2>1. \/ exportedCount' = exportedCount + Len(batch)
        \/ exportedCount' = exportedCount
    BY <1>6 DEF RecordExportSuccess, RecordExportFailure
  <2>2. dequeuedCount' = dequeuedCount /\ Len(batch') = 0
    BY <1>6 DEF RecordExportSuccess, RecordExportFailure
  <2>3. workerPc = "record" /\ workerPc' = "recordLast"
    BY <1>6 DEF RecordExportSuccess, RecordExportFailure
  <2> QED  BY <2>1, <2>2, <2>3
<1>7. CASE \/ \E toCollector \in BOOLEAN, n \in 1..MaxBatch : DequeueCall(toCollector, n)
           \/ DequeueAcquire \/ DequeueRelease
           \/ \E code \in HttpCodes : PostAnswered(code)
           \/ RecordAcquire \/ RecordLastHttpResult \/ RecordRelease
  <2>1. UNCHANGED <<exportedCount, dequeuedCount, batch>>
    BY <1>7 DEF DequeueCall, DequeueAcquire, DequeueRelease, PostAnswered, RecordAcquire,
         RecordLastHttpResult, RecordRelease, counters
  <2>2. workerPc # "uncount" /\ workerPc' # "uncount"
    BY <1>7 DEF DequeueCall, DequeueAcquire, DequeueRelease, PostAnswered, RecordAcquire,
         RecordLastHttpResult, RecordRelease
  <2> QED  BY <2>1, <2>2
<1>8. CASE PostmasterReinit
  BY <1>8 DEF PostmasterReinit
<1> QED
  BY <1>2, <1>3, <1>4, <1>5, <1>6, <1>7, <1>8 DEF Next, WorkerStep

\* The collector has accepted no span that dequeueSpanBatch has not counted.
THEOREM ExportsAreDequeued == Spec => []ExportedWereDequeued
<1>1. Init => ExportedWereDequeued
  BY DEF Init, ExportedWereDequeued, Taken
<1>2. IInv /\ ExportedWereDequeued /\ [Next]_vars => (IInv /\ ExportedWereDequeued)'
  BY StepIInv, StepExported
<1> QED  BY InitIInv, <1>1, <1>2, PTL DEF Spec

-----------------------------------------------------------------------------
\* What a status reader has copied so far is what the shared state holds.
SnapshotSoFar ==
    \A r \in Readers :
        /\ readerPc[r] \in {"copyExport", "release"} =>
              /\ status[r].depth = count
              /\ status[r].dropped = droppedCount
              /\ status[r].dequeued = dequeuedCount
        /\ readerPc[r] = "release" =>
              /\ status[r].exported = exportedCount
              /\ status[r].failures = exportFailureCount
              /\ status[r].http = lastHttpStatusCode

\* Backends and worker change what is copied only while they hold the lock, and
\* then no reader is at it.
LEMMA ReadersExcludeWriters ==
    ASSUME IInv, NEW r \in Readers, readerPc[r] # "idle", [Next]_vars, ~PostmasterReinit
    PROVE  UNCHANGED <<count, counters>>
<1>1. exclusive = NoOne
  BY DEF IInv, LockExclusion
<1>2. ~WorkerInside /\ \A b \in Backends : ~BackendInside(b)
  BY <1>1, ProcessAssumption DEF IInv, LockExclusion
<1>3. ASSUME NEW b \in Backends, EnqueueCall(b) \/ EnqueueStep(b)
      PROVE  UNCHANGED <<count, counters>>
  <2>1. backendPc[b] \notin {"check", "count", "release"}
    BY <1>2 DEF BackendInside
  <2> QED  BY <1>3, <2>1 DEF EnqueueStep, EnqueueCall, EnqueueAcquire, EnqueueDrop,
              EnqueueStore, EnqueueCount, EnqueueRelease, EnqueueGoto, ring
<1>4. CASE \/ \E toCollector \in BOOLEAN, n \in 1..MaxBatch : DequeueCall(toCollector, n)
           \/ WorkerStep \/ WorkerDies
  <2>1. workerPc \notin {"take", "uncount", "record", "recordLast", "releaseRecord"}
    BY <1>2 DEF WorkerInside
  <2> QED  BY <1>4, <2>1 DEF DequeueCall, WorkerStep, WorkerDies, DequeueAcquire,
              DequeueTake, DequeueUncount, DequeueRelease, LogSpan, PostAnswered,
              RecordAcquire, RecordExportSuccess, RecordExportFailure,
              RecordLastHttpResult, RecordRelease, ring
<1>5. CASE \/ \E other \in Readers : StatusStep(other)
           \/ UNCHANGED vars
  BY <1>5 DEF StatusStep, StatusAcquire, StatusCopyQueue, StatusCopyExport,
              StatusRelease, ring, vars
<1> QED  BY <1>3, <1>4, <1>5 DEF Next

LEMMA StepSnapshot == IInv /\ SnapshotSoFar /\ [Next]_vars => SnapshotSoFar'
<1> SUFFICES ASSUME IInv, SnapshotSoFar, [Next]_vars, NEW r \in Readers
             PROVE  /\ readerPc'[r] \in {"copyExport", "release"} =>
                          /\ status'[r].depth = count'
                          /\ status'[r].dropped = droppedCount'
                          /\ status'[r].dequeued = dequeuedCount'
                    /\ readerPc'[r] = "release" =>
                          /\ status'[r].exported = exportedCount'
                          /\ status'[r].failures = exportFailureCount'
                          /\ status'[r].http = lastHttpStatusCode'
  BY DEF SnapshotSoFar
<1>1. /\ readerPc \in [Readers -> {"idle", "copyQueue", "copyExport", "release"}]
      /\ status \in [Readers -> [depth : Nat, dropped : Nat, dequeued : Nat,
                                 exported : Nat, failures : Nat, http : HttpCodes]]
  BY DEF IInv, TypeOK
<1>2. CASE PostmasterReinit
  <2>1. readerPc'[r] = "idle"
    BY <1>2 DEF PostmasterReinit
  <2> QED  BY <2>1
<1>3. CASE StatusAcquire(r)
  <2>1. readerPc'[r] = "copyQueue"
    BY <1>1, <1>3 DEF StatusAcquire, StatusGoto
  <2> QED  BY <2>1
<1>4. CASE StatusCopyQueue(r)
  <2>1. readerPc'[r] = "copyExport"
    BY <1>1, <1>4 DEF StatusCopyQueue, StatusGoto
  <2>2. UNCHANGED <<count, droppedCount, dequeuedCount>>
    BY <1>4 DEF StatusCopyQueue, ring, counters
  <2>3. /\ status'[r].depth = count /\ status'[r].dropped = droppedCount
        /\ status'[r].dequeued = dequeuedCount
    BY <1>1, <1>4 DEF StatusCopyQueue
  <2> QED  BY <2>1, <2>2, <2>3
<1>5. CASE StatusCopyExport(r)
  <2>1. readerPc[r] = "copyExport" /\ readerPc'[r] = "release"
    BY <1>1, <1>5 DEF StatusCopyExport, StatusGoto
  <2>2. UNCHANGED <<count, counters>>
    BY <1>5 DEF StatusCopyExport, ring
  <2>3. status'[r] = [status[r] EXCEPT !.exported = exportedCount,
                                       !.failures = exportFailureCount,
                                       !.http = lastHttpStatusCode]
    BY <1>1, <1>5 DEF StatusCopyExport
  <2>4. /\ status'[r].depth = status[r].depth
        /\ status'[r].dropped = status[r].dropped
        /\ status'[r].dequeued = status[r].dequeued
        /\ status'[r].exported = exportedCount
        /\ status'[r].failures = exportFailureCount
        /\ status'[r].http = lastHttpStatusCode
    BY <1>1, <2>3
  <2> QED  BY <2>1, <2>2, <2>4 DEF SnapshotSoFar, counters
<1>6. CASE StatusRelease(r)
  <2>1. readerPc'[r] = "idle"
    BY <1>1, <1>6 DEF StatusRelease, StatusGoto
  <2> QED  BY <2>1
<1>7. CASE ~PostmasterReinit /\ ~StatusStep(r)
  <2>1. readerPc'[r] = readerPc[r] /\ status'[r] = status[r]
    <3>1. ASSUME NEW other \in Readers, other # r, StatusStep(other)
          PROVE  readerPc'[r] = readerPc[r] /\ status'[r] = status[r]
      BY <1>1, <3>1 DEF StatusStep, StatusAcquire, StatusCopyQueue, StatusCopyExport,
           StatusRelease, StatusGoto
    <3>2. CASE ~\E other \in Readers : StatusStep(other)
      <4>1. UNCHANGED readerVars
        BY <1>7, <3>2 DEF Next, EnqueueStep, EnqueueCall, EnqueueAcquire, EnqueueDrop,
             EnqueueStore, EnqueueCount, EnqueueRelease, DequeueCall, WorkerStep,
             WorkerDies, DequeueAcquire, DequeueTake, DequeueUncount, DequeueRelease,
             LogSpan, PostAnswered, RecordAcquire, RecordExportSuccess,
             RecordExportFailure, RecordLastHttpResult, RecordRelease, vars
      <4> QED  BY <4>1 DEF readerVars
    <3> QED  BY <1>7, <3>1, <3>2
  <2>2. readerPc[r] # "idle" => UNCHANGED <<count, counters>>
    BY <1>7, ReadersExcludeWriters
  <2> QED  BY <2>1, <2>2 DEF SnapshotSoFar, counters
<1> QED  BY <1>2, <1>3, <1>4, <1>5, <1>6, <1>7 DEF StatusStep

\* pg_eatrace_status() never shows a mixture of two moments
\* (pg_eatrace_queue.c:133-159).
THEOREM StatusIsOneMoment == Spec => []StatusIsSnapshot
<1>1. Init => SnapshotSoFar
  BY DEF Init, SnapshotSoFar
<1>2. IInv /\ SnapshotSoFar /\ [Next]_vars => (IInv /\ SnapshotSoFar)'
  BY StepIInv, StepSnapshot
<1>3. IInv /\ SnapshotSoFar => StatusIsSnapshot
  <2> SUFFICES ASSUME IInv, SnapshotSoFar, NEW r \in Readers, readerPc[r] = "release"
               PROVE  status[r] = [depth |-> count, dropped |-> droppedCount,
                                   dequeued |-> dequeuedCount, exported |-> exportedCount,
                                   failures |-> exportFailureCount,
                                   http |-> lastHttpStatusCode]
    BY DEF StatusIsSnapshot
  <2>1. status[r] \in [depth : Nat, dropped : Nat, dequeued : Nat, exported : Nat,
                       failures : Nat, http : HttpCodes]
    BY DEF IInv, TypeOK
  <2> QED  BY <2>1 DEF SnapshotSoFar
<1> QED  BY InitIInv, <1>1, <1>2, <1>3, PTL DEF Spec

-----------------------------------------------------------------------------
\* The slots in use, and the span k places behind the oldest one.
InUse == count + Stored - Taken
At(k) == slots[(readIndex + k - 1) % Capacity]

\* Backends that hold a span which is neither stored nor dropped yet.
Offering(b) == backendPc[b] \in {"acquire", "check"}

\* Where spans are, and that no two of these places hold the same one: HeldOnce
\* is inductive only together with the spans that are about to be stored.
BatchDistinct ==
    \A i \in 1..Len(batch) :
        /\ batch[i] \in 1..offered
        /\ \A j \in 1..Len(batch) : batch[i] = batch[j] => i = j

RingDistinct ==
    \A k \in 1..InUse :
        /\ At(k) \in 1..offered
        /\ \A j \in 1..InUse : At(k) = At(j) => k = j
        /\ \A i \in 1..Len(batch) : batch[i] # At(k)

OfferDistinct ==
    \A b \in Backends : Offering(b) =>
        /\ span[b] \in 1..offered
        /\ \A i \in 1..Len(batch) : batch[i] # span[b]
        /\ \A k \in 1..InUse : At(k) # span[b]
        /\ \A other \in Backends : Offering(other) /\ span[other] = span[b] => other = b

\* The span that is stored and not counted yet is the newest one in the ring.
LastStored == \A b \in Backends : backendPc[b] = "count" => At(count + 1) = span[b]

\* A batch that is held is not empty; while it is taken, it and what is left in
\* the ring were in the ring together.
BatchUnderWay ==
    /\ workerPc \in {"holding", "acquireRecord", "record"} => batch # <<>>
    /\ Dequeuing => Len(batch) + count - Taken <= Capacity

Places == BatchDistinct /\ RingDistinct /\ OfferDistinct /\ LastStored
QInv == IInv /\ Places /\ BatchUnderWay

-----------------------------------------------------------------------------
\* Fewer than a ring's worth of slots that follow each other are all different.
LEMMA SlotsDiffer ==
    ASSUME NEW C \in Nat \ {0}, NEW r \in 0..C - 1, NEW i \in 0..C - 1, NEW j \in 0..C - 1,
           i # j
    PROVE  (r + i) % C # (r + j) % C
<1>1. ASSUME NEW n \in 0..C - 1
      PROVE  (r + n) % C = IF r + n < C THEN r + n ELSE r + n - C
  <2>1. CASE r + n < C
    BY <2>1, SMT
  <2>2. CASE r + n >= C
    BY <2>2, SMT
  <2> QED  BY <2>1, <2>2, SMT
<1>2. (r + i) % C = IF r + i < C THEN r + i ELSE r + i - C
  BY <1>1
<1>3. (r + j) % C = IF r + j < C THEN r + j ELSE r + j - C
  BY <1>1
<1> HIDE <1>1
<1>4. (IF r + i < C THEN r + i ELSE r + i - C) # (IF r + j < C THEN r + j ELSE r + j - C)
  BY SMT
<1> QED  BY <1>2, <1>3, <1>4

\* Storing behind the n slots in use leaves these alone.
LEMMA StoreAt ==
    ASSUME TypeOK, NEW n \in 0..Capacity - 1, NEW s,
           readIndex' = readIndex,
           slots' = [slots EXCEPT ![(readIndex + n) % Capacity] = s]
    PROVE  /\ \A k \in 1..n : At(k)' = At(k)
           /\ At(n + 1)' = s
<1>1. /\ readIndex \in 0..Capacity - 1
      /\ DOMAIN slots = 0..Capacity - 1
  BY DEF TypeOK
<1>2. ASSUME NEW k \in 1..n
      PROVE  At(k)' = At(k)
  <2>1. (readIndex + (k - 1)) % Capacity # (readIndex + n) % Capacity
    <3>1. k - 1 \in 0..Capacity - 1 /\ k - 1 # n
      BY CapacityAssumption, SMT
    <3> QED  BY <1>1, <3>1, SlotsDiffer, CapacityAssumption
  <2>2. readIndex + k - 1 = readIndex + (k - 1)
    BY <1>1, SMT
  <2>3. (readIndex + k - 1) % Capacity # (readIndex + n) % Capacity
    BY <2>1, <2>2
  <2>4. (readIndex + k - 1) % Capacity \in DOMAIN slots
    BY <1>1, CapacityAssumption, SMT
  <2>5. slots'[(readIndex + k - 1) % Capacity] = slots[(readIndex + k - 1) % Capacity]
    BY <2>3, <2>4
  <2> QED  BY <2>5 DEF At
<1>3. At(n + 1)' = s
  <2>1. readIndex + (n + 1) - 1 = readIndex + n
    BY <1>1, SMT
  <2>2. (readIndex + n) % Capacity \in DOMAIN slots
    BY <1>1, CapacityAssumption, SMT
  <2> QED  BY <2>1, <2>2 DEF At
<1> QED  BY <1>2, <1>3

\* Advancing the read index moves every span one place forward.
LEMMA TakeAt ==
    ASSUME TypeOK, slots' = slots, readIndex' = Advance(readIndex),
           NEW k \in 1..Capacity
    PROVE  At(k)' = At(k + 1)
<1>1. readIndex \in 0..Capacity - 1
  BY DEF TypeOK
<1>2. (readIndex + k) % Capacity = (Advance(readIndex) + (k - 1)) % Capacity
  BY <1>1, AdvanceStart, CapacityAssumption DEF Advance
<1>3. readIndex + (k + 1) - 1 = readIndex + k
  BY <1>1, SMT
<1>4. readIndex' + k - 1 = Advance(readIndex) + (k - 1)
  <2>1. Advance(readIndex) \in 0..Capacity - 1
    BY <1>1, AdvanceType
  <2> QED  BY <2>1, SMT
<1> QED  BY <1>2, <1>3, <1>4 DEF At

-----------------------------------------------------------------------------
\* No span is anywhere in the zeroed memory.
LEMMA InitQInv == Init => QInv
<1> SUFFICES ASSUME Init PROVE QInv
  OBVIOUS
<1>1. IInv
  BY InitIInv
<1>2. InUse = 0 /\ Len(batch) = 0
  BY DEF Init, InUse, Stored, Taken
<1>3. BatchDistinct /\ RingDistinct
  BY <1>2 DEF BatchDistinct, RingDistinct
<1>4. OfferDistinct /\ LastStored
  BY DEF Init, OfferDistinct, Offering, LastStored
<1>5. BatchUnderWay
  BY DEF Init, BatchUnderWay, Dequeuing
<1> QED  BY <1>1, <1>3, <1>4, <1>5 DEF QInv, Places

LEMMA ReinitQInv == PostmasterReinit => QInv'
<1> SUFFICES ASSUME PostmasterReinit PROVE QInv'
  OBVIOUS
<1>1. IInv'
  BY ReinitIInv
<1>2. InUse' = 0 /\ Len(batch') = 0
  BY DEF PostmasterReinit, InUse, Stored, Taken
<1>3. BatchDistinct' /\ RingDistinct'
  BY <1>2 DEF BatchDistinct, RingDistinct
<1>4. OfferDistinct' /\ LastStored'
  BY DEF PostmasterReinit, OfferDistinct, Offering, LastStored
<1>5. BatchUnderWay'
  BY DEF PostmasterReinit, BatchUnderWay, Dequeuing
<1> QED  BY <1>1, <1>3, <1>4, <1>5 DEF QInv, Places

\* A step that moves no span, lets backends only give theirs up, and at most gives
\* the batch up.
LEMMA PlacesFrame ==
    ASSUME Places,
           UNCHANGED <<slots, readIndex, count, offered>>,
           batch' = batch \/ batch' = <<>>,
           InUse' = InUse,
           \A b \in Backends : /\ Offering(b)' => Offering(b)
                               /\ backendPc'[b] = "count" => backendPc[b] = "count"
                               /\ span'[b] = span[b]
    PROVE  Places'
<1>1. \A k : At(k)' = At(k)
  BY DEF At
<1>2. Len(batch') = 0 \/ batch' = batch
  OBVIOUS
<1>3. BatchDistinct'
  BY <1>2 DEF Places, BatchDistinct
<1>4. RingDistinct'
  BY <1>1, <1>2 DEF Places, RingDistinct
<1>5. OfferDistinct'
  BY <1>1, <1>2 DEF Places, OfferDistinct
<1>6. LastStored'
  BY <1>1 DEF Places, LastStored
<1> QED  BY <1>3, <1>4, <1>5, <1>6 DEF Places

\* The part of the invariant the lock is for: whoever is inside enqueueSpan finds
\* neither a span half stored by another backend nor one half taken by the worker.
LEMMA BackendAlone ==
    ASSUME IInv, NEW b \in Backends, BackendInside(b)
    PROVE  /\ exclusive = b /\ ~WorkerInside
           /\ Taken = 0
           /\ Stored = IF backendPc[b] = "count" THEN 1 ELSE 0
           /\ \A other \in Backends : BackendInside(other) => other = b
<1>1. exclusive = b /\ exclusive # Worker
  BY ProcessAssumption DEF IInv, LockExclusion
<1>2. ~WorkerInside
  BY <1>1 DEF IInv, LockExclusion
<1>3. Taken = 0
  BY <1>2 DEF WorkerInside, Taken
<1>4. \A other \in Backends : BackendInside(other) => other = b
  BY <1>1 DEF IInv, LockExclusion
<1>5. Stored = IF backendPc[b] = "count" THEN 1 ELSE 0
  BY <1>4 DEF BackendInside, Stored
<1> QED  BY <1>1, <1>2, <1>3, <1>4, <1>5

LEMMA WorkerAlone ==
    ASSUME IInv, WorkerInside
    PROVE  Stored = 0 /\ \A b \in Backends : ~BackendInside(b)
<1>1. exclusive = Worker
  BY DEF IInv, LockExclusion
<1>2. \A b \in Backends : ~BackendInside(b)
  BY <1>1, ProcessAssumption DEF IInv, LockExclusion
<1> QED  BY <1>2 DEF BackendInside, Stored

\* The numbers of spans are natural numbers, those in the ring at most Capacity.
LEMMA InUseType ==
    ASSUME IInv
    PROVE  /\ InUse \in 0..Capacity /\ count \in 0..Capacity /\ offered \in Nat
           /\ Stored \in {0, 1} /\ Taken \in {0, 1}
           /\ Len(batch) \in Nat
BY BoundAssumption DEF IInv, TypeOK, RingConsistent, InUse, Stored, Taken

\* enqueueSpan moves the span of its caller from the caller to a slot that no span
\* in use occupies.
LEMMA EnqueuePlaces ==
    ASSUME QInv, NEW b \in Backends, EnqueueCall(b) \/ EnqueueStep(b)
    PROVE  Places'
<1> USE DEF QInv
<1>1. /\ backendPc \in [Backends -> {"idle", "acquire", "check", "count", "release"}]
      /\ span \in [Backends -> Span \cup {NoSpan}]
  BY DEF IInv, TypeOK
<1>2. CASE EnqueueCall(b)
  <2> USE <1>1, <1>2 DEF EnqueueCall, EnqueueGoto
  <2>1. UNCHANGED <<slots, readIndex, count, batch, workerPc>>
    BY DEF ring, workerVars
  <2>2. /\ offered \in Nat /\ offered' = offered + 1 /\ span'[b] = offered + 1
        /\ \A x \in 1..offered : x \in 1..offered' /\ x # offered + 1
        /\ offered + 1 \in 1..offered'
    BY InUseType
  <2>3. InUse' = InUse /\ \A k : At(k)' = At(k)
    <3>1. Stored' = Stored /\ Taken' = Taken
      BY <2>1 DEF Stored, Taken
    <3> QED  BY <2>1, <3>1 DEF InUse, At
  <2>4. \A other \in Backends : other # b =>
           backendPc'[other] = backendPc[other] /\ span'[other] = span[other]
    OBVIOUS
  <2>5. BatchDistinct'
    BY <2>1, <2>2 DEF Places, BatchDistinct
  <2>6. RingDistinct'
    BY <2>1, <2>2, <2>3 DEF Places, RingDistinct
  <2>7. OfferDistinct'
    <3>1. SUFFICES ASSUME NEW o \in Backends, Offering(o)'
                   PROVE  /\ span'[o] \in 1..offered'
                          /\ \A i \in 1..Len(batch) : batch[i] # span'[o]
                          /\ \A k \in 1..InUse : At(k) # span'[o]
                          /\ \A other \in Backends :
                                Offering(other)' /\ span'[other] = span'[o] => other = o
      BY <2>1, <2>3 DEF OfferDistinct
    <3>2. CASE o = b
      <4>1. \A other \in Backends : other # b /\ Offering(other)' => span'[other] \in 1..offered
        BY <2>4 DEF Places, OfferDistinct, Offering
      <4>2. \A i \in 1..Len(batch) : batch[i] # span'[b]
        BY <2>2 DEF Places, BatchDistinct
      <4>3. \A k \in 1..InUse : At(k) # span'[b]
        BY <2>2 DEF Places, RingDistinct
      <4> QED  BY <2>2, <3>2, <4>1, <4>2, <4>3
    <3>3. CASE o # b
      <4>1. Offering(o) /\ span'[o] = span[o] /\ span[o] \in 1..offered
        BY <2>4, <3>1, <3>3 DEF Places, OfferDistinct, Offering
      <4>2. \A other \in Backends : Offering(other)' /\ span'[other] = span[o] => other = o
        <5>1. span'[b] # span[o]
          BY <2>2, <4>1
        <5>2. \A other \in Backends :
                 other # b /\ Offering(other)' /\ span'[other] = span[o] => other = o
          BY <2>4, <4>1 DEF Places, OfferDistinct, Offering
        <5> QED  BY <5>1, <5>2
      <4> QED  BY <2>2, <4>1, <4>2 DEF Places, OfferDistinct
    <3> QED  BY <3>2, <3>3
  <2>8. LastStored'
    BY <2>1, <2>3, <2>4 DEF Places, LastStored
  <2> QED  BY <2>5, <2>6, <2>7, <2>8 DEF Places
<1>3. CASE EnqueueAcquire(b) \/ EnqueueRelease(b)
  <2>1. UNCHANGED <<slots, readIndex, count, offered, batch, span, workerPc>>
    BY <1>3 DEF EnqueueAcquire, EnqueueRelease, ring, workerVars
  <2>2. \A o \in Backends : /\ Offering(o)' => Offering(o)
                            /\ backendPc'[o] = "count" <=> backendPc[o] = "count"
    BY <1>1, <1>3 DEF EnqueueAcquire, EnqueueRelease, EnqueueGoto, Offering
  <2>3. InUse' = InUse
    BY <2>1, <2>2 DEF InUse, Stored, Taken
  <2> QED  BY <2>1, <2>2, <2>3, PlacesFrame
<1>4. CASE EnqueueDrop(b)
  <2>1. UNCHANGED <<slots, readIndex, count, offered, batch, span, workerPc>>
    BY <1>4 DEF EnqueueDrop, ring, workerVars
  <2>2. \A o \in Backends : /\ Offering(o)' => Offering(o)
                            /\ backendPc'[o] = "count" <=> backendPc[o] = "count"
    BY <1>1, <1>4 DEF EnqueueDrop, EnqueueGoto, Offering
  <2>3. InUse' = InUse
    BY <2>1, <2>2 DEF InUse, Stored, Taken
  <2> QED  BY <2>1, <2>2, <2>3, PlacesFrame
<1>5. CASE EnqueueStore(b)
  <2> USE <1>5 DEF EnqueueStore, EnqueueGoto
  <2>1. UNCHANGED <<readIndex, count, offered, batch, span, workerPc>>
    BY DEF workerVars
  <2>2. BackendInside(b) /\ backendPc[b] = "check" /\ backendPc'[b] = "count"
    BY <1>1 DEF BackendInside
  <2>3. \A o \in Backends : o # b => backendPc'[o] = backendPc[o] /\ backendPc[o] # "count"
    BY <1>1, <2>2, BackendAlone DEF BackendInside
  <2>4. InUse = count /\ InUse' = count + 1 /\ count \in 0..Capacity - 1
    <3>1. Stored = 0 /\ Taken = 0 /\ count \in 0..Capacity - 1
      BY <2>2, BackendAlone, InUseType, CapacityAssumption
    <3>2. Stored' = 1 /\ Taken' = 0
      BY <2>1, <2>2, <3>1 DEF Stored, Taken
    <3> QED  BY <2>1, <3>1, <3>2 DEF InUse
  <2>5. (\A k \in 1..count : At(k)' = At(k)) /\ At(count + 1)' = span[b]
    <3>1. writeIndex = (readIndex + count) % Capacity
      BY <2>4 DEF IInv, RingConsistent, InUse
    <3> QED  BY <2>1, <2>4, <3>1, StoreAt DEF IInv
  <2>6. /\ span[b] \in 1..offered
        /\ \A i \in 1..Len(batch) : batch[i] # span[b]
        /\ \A k \in 1..count : At(k) # span[b]
        /\ \A o \in Backends : o # b /\ Offering(o) => span[o] # span[b]
    BY <2>2, <2>4 DEF Places, OfferDistinct, Offering
  <2>7. \A k \in 1..InUse' : k \in 1..count \/ k = count + 1
    BY <2>4
  <2>8. BatchDistinct'
    BY <2>1 DEF Places, BatchDistinct
  <2>9. RingDistinct'
    <3>1. SUFFICES ASSUME NEW k \in 1..InUse'
                   PROVE  /\ At(k)' \in 1..offered
                          /\ \A j \in 1..InUse' : At(k)' = At(j)' => k = j
                          /\ \A i \in 1..Len(batch) : batch[i] # At(k)'
      BY <2>1 DEF RingDistinct
    <3>2. CASE k = count + 1
      <4>1. \A j \in 1..count : At(j)' # span[b]
        BY <2>5, <2>6
      <4> QED  BY <2>5, <2>6, <2>7, <3>2, <4>1
    <3>3. CASE k \in 1..count
      <4>1. At(k)' = At(k) /\ At(k) # span[b]
        BY <2>5, <2>6, <3>3
      <4>2. /\ At(k) \in 1..offered
            /\ \A j \in 1..count : At(k) = At(j) => k = j
            /\ \A i \in 1..Len(batch) : batch[i] # At(k)
        BY <2>4, <3>3 DEF Places, RingDistinct
      <4> QED  BY <2>5, <2>7, <4>1, <4>2
    <3> QED  BY <2>7, <3>2, <3>3
  <2>10. OfferDistinct'
    <3>1. SUFFICES ASSUME NEW o \in Backends, Offering(o)'
                   PROVE  /\ span[o] \in 1..offered
                          /\ \A i \in 1..Len(batch) : batch[i] # span[o]
                          /\ \A k \in 1..InUse' : At(k)' # span[o]
                          /\ \A other \in Backends :
                                Offering(other)' /\ span[other] = span[o] => other = o
      BY <2>1 DEF OfferDistinct
    <3>2. o # b /\ Offering(o) /\ \A other \in Backends : Offering(other)' => Offering(other)
      BY <2>2, <2>3, <3>1 DEF Offering
    <3>3. /\ span[o] \in 1..offered
          /\ \A i \in 1..Len(batch) : batch[i] # span[o]
          /\ \A k \in 1..count : At(k) # span[o]
          /\ \A other \in Backends : Offering(other) /\ span[other] = span[o] => other = o
      BY <2>4, <3>2 DEF Places, OfferDistinct
    <3>4. \A k \in 1..InUse' : At(k)' # span[o]
      BY <2>5, <2>6, <2>7, <3>2, <3>3
    <3> QED  BY <3>2, <3>3, <3>4
  <2>11. LastStored'
    BY <2>1, <2>2, <2>3, <2>5 DEF LastStored
  <2> QED  BY <2>8, <2>9, <2>10, <2>11 DEF Places
<1>6. CASE EnqueueCount(b)
  <2> USE <1>6 DEF EnqueueCount, EnqueueGoto
  <2>1. UNCHANGED <<slots, readIndex, offered, batch, span, workerPc>> /\ count' = count + 1
    BY DEF workerVars
  <2>2. BackendInside(b) /\ backendPc[b] = "count" /\ backendPc'[b] = "release"
    BY <1>1 DEF BackendInside
  <2>3. \A o \in Backends : o # b => backendPc'[o] = backendPc[o] /\ backendPc[o] # "count"
    BY <1>1, <2>2, BackendAlone DEF BackendInside
  <2>4. InUse' = InUse
    <3>1. Stored = 1 /\ Taken = 0
      BY <2>2, BackendAlone
    <3>2. Stored' = 0 /\ Taken' = 0
      BY <2>1, <2>2, <2>3, <3>1 DEF Stored, Taken
    <3> QED  BY <2>1, <3>1, <3>2, InUseType DEF InUse
  <2>5. \A k : At(k)' = At(k)
    BY <2>1 DEF At
  <2>6. \A o \in Backends : Offering(o)' => Offering(o)
    BY <2>2, <2>3 DEF Offering
  <2>7. BatchDistinct' /\ RingDistinct'
    BY <2>1, <2>4, <2>5 DEF Places, BatchDistinct, RingDistinct
  <2>8. OfferDistinct'
    BY <2>1, <2>4, <2>5, <2>6 DEF Places, OfferDistinct
  <2>9. LastStored'
    BY <2>2, <2>3 DEF LastStored
  <2> QED  BY <2>7, <2>8, <2>9 DEF Places
<1> QED  BY <1>2, <1>3, <1>4, <1>5, <1>6 DEF EnqueueStep

\* dequeueSpanBatch moves the oldest span from its slot to the batch.
LEMMA TakePlaces ==
    ASSUME QInv, DequeueTake
    PROVE  Places'
<1> USE DEF QInv, DequeueTake
<1>1. UNCHANGED <<slots, count, offered, span, backendPc>>
  BY DEF backendVars
<1>2. WorkerInside
  BY DEF WorkerInside
<1>3. InUse = count /\ InUse' = count - 1 /\ count \in 1..Capacity
  <2>1. Stored = 0 /\ Taken = 0
    BY <1>2, WorkerAlone DEF Taken
  <2>2. Stored' = 0 /\ Taken' = 1
    BY <1>1, <2>1 DEF Stored, Taken
  <2> QED  BY <1>1, <2>1, <2>2, InUseType, CapacityAssumption DEF InUse
<1>4. \A k \in 1..InUse' : At(k)' = At(k + 1) /\ k + 1 \in 1..count /\ k + 1 # 1
  BY <1>1, <1>3, TakeAt, CapacityAssumption DEF IInv
<1>5. At(1) = slots[readIndex]
  <2>1. readIndex \in 0..Capacity - 1
    BY DEF IInv, TypeOK
  <2>2. readIndex + 1 - 1 = readIndex /\ readIndex % Capacity = readIndex
    BY <2>1, CapacityAssumption, SMT
  <2> QED  BY <2>2 DEF At
<1>6. /\ Len(batch') = Len(batch) + 1 /\ Len(batch) \in Nat
      /\ \A i \in 1..Len(batch) : batch'[i] = batch[i]
      /\ batch'[Len(batch) + 1] = At(1)
  <2>1. batch \in Seq(Span \cup {NoSpan}) /\ slots[readIndex] \in Span \cup {NoSpan}
    BY DEF IInv, TypeOK
  <2>2. batch' = Append(batch, slots[readIndex])
    OBVIOUS
  <2> QED  BY <1>5, <2>1, <2>2, AppendProperties, LenProperties
<1>7. \A i \in 1..Len(batch') : i \in 1..Len(batch) \/ i = Len(batch) + 1
  BY <1>6
<1>8. /\ At(1) \in 1..offered
      /\ \A i \in 1..Len(batch) : batch[i] # At(1)
      /\ \A k \in 1..InUse' : At(k)' # At(1)
  <2>1. 1 \in 1..InUse
    BY <1>3, SMT
  <2>2. \A k \in 1..InUse : At(1) = At(k) => 1 = k
    BY <2>1 DEF Places, RingDistinct
  <2> QED  BY <1>3, <1>4, <2>1, <2>2 DEF Places, RingDistinct
<1>9. BatchDistinct'
  <2>1. \A i \in 1..Len(batch) :
           /\ batch[i] \in 1..offered
           /\ \A j \in 1..Len(batch) : batch[i] = batch[j] => i = j
    BY DEF Places, BatchDistinct
  <2>2. \A i \in 1..Len(batch') : batch'[i] \in 1..offered'
    BY <1>1, <1>6, <1>7, <1>8, <2>1
  <2>3. \A i \in 1..Len(batch'), j \in 1..Len(batch') : batch'[i] = batch'[j] => i = j
    BY <1>6, <1>7, <1>8, <2>1
  <2> QED  BY <2>2, <2>3 DEF BatchDistinct
<1>10. RingDistinct'
  <2>1. SUFFICES ASSUME NEW k \in 1..InUse'
                 PROVE  /\ At(k)' \in 1..offered
                        /\ \A j \in 1..InUse' : At(k)' = At(j)' => k = j
                        /\ \A i \in 1..Len(batch') : batch'[i] # At(k)'
    BY <1>1 DEF RingDistinct
  <2>2. /\ At(k + 1) \in 1..offered
        /\ \A j \in 1..InUse : At(k + 1) = At(j) => k + 1 = j
        /\ \A i \in 1..Len(batch) : batch[i] # At(k + 1)
    BY <1>3, <1>4 DEF Places, RingDistinct
  <2>3. \A j \in 1..InUse' : At(k)' = At(j)' => k = j
    <3>1. SUFFICES ASSUME NEW j \in 1..InUse', At(k)' = At(j)'
                   PROVE  k = j
      OBVIOUS
    <3>2. k + 1 = j + 1
      BY <1>3, <1>4, <2>2, <3>1
    <3> QED  BY <1>3, <3>2
  <2>4. \A i \in 1..Len(batch') : batch'[i] # At(k)'
    BY <1>4, <1>6, <1>7, <1>8, <2>2
  <2> QED  BY <1>4, <2>2, <2>3, <2>4
<1>11. OfferDistinct'
  <2>1. SUFFICES ASSUME NEW o \in Backends, Offering(o)
                 PROVE  /\ span[o] \in 1..offered
                        /\ \A i \in 1..Len(batch') : batch'[i] # span[o]
                        /\ \A k \in 1..InUse' : At(k)' # span[o]
                        /\ \A other \in Backends :
                              Offering(other) /\ span[other] = span[o] => other = o
    BY <1>1 DEF OfferDistinct, Offering
  <2>2. /\ span[o] \in 1..offered
        /\ \A i \in 1..Len(batch) : batch[i] # span[o]
        /\ \A k \in 1..count : At(k) # span[o]
        /\ \A other \in Backends : Offering(other) /\ span[other] = span[o] => other = o
    BY <1>3, <2>1 DEF Places, OfferDistinct
  <2>3. \A i \in 1..Len(batch') : batch'[i] # span[o]
    BY <1>3, <1>6, <1>7, <2>2
  <2>4. \A k \in 1..InUse' : At(k)' # span[o]
    BY <1>4, <2>2
  <2> QED  BY <2>2, <2>3, <2>4
<1>12. LastStored'
  BY <1>1, <1>2, WorkerAlone DEF LastStored, BackendInside
<1> QED  BY <1>9, <1>10, <1>11, <1>12 DEF Places

\* Everything else the worker does moves no span, or lets the batch go.
LEMMA WorkerPlaces ==
    ASSUME QInv,
           \/ \E toCollector \in BOOLEAN, n \in 1..MaxBatch :
                 DequeueCall(toCollector, n)
           \/ WorkerStep
           \/ WorkerDies
    PROVE  Places'
<1> USE DEF QInv
<1>1. CASE DequeueTake
  BY <1>1, TakePlaces
<1>2. CASE DequeueUncount
  <2> USE <1>2 DEF DequeueUncount
  <2>1. UNCHANGED <<slots, readIndex, offered, batch, span, backendPc>> /\ count' = count - 1
    BY DEF backendVars
  <2>2. Stored = 0 /\ Taken = 1 /\ \A b \in Backends : backendPc[b] # "count"
    BY WorkerAlone DEF WorkerInside, BackendInside, Taken
  <2>3. InUse' = InUse
    <3>1. Stored' = 0 /\ Taken' = 0
      BY <2>1, <2>2 DEF Stored, Taken
    <3> QED  BY <2>1, <2>2, <3>1, InUseType DEF InUse
  <2>4. \A k : At(k)' = At(k)
    BY <2>1 DEF At
  <2>5. BatchDistinct' /\ RingDistinct'
    BY <2>1, <2>3, <2>4 DEF Places, BatchDistinct, RingDistinct
  <2>6. OfferDistinct'
    BY <2>1, <2>3, <2>4 DEF Places, OfferDistinct, Offering
  <2>7. LastStored'
    BY <2>1, <2>2 DEF LastStored
  <2> QED  BY <2>5, <2>6, <2>7 DEF Places
<1>3. CASE ~DequeueTake /\ ~DequeueUncount
  <2>1. /\ UNCHANGED <<ring, backendVars>>
        /\ batch' = batch \/ batch' = <<>>
        /\ workerPc # "uncount" /\ workerPc' # "uncount"
    BY <1>3 DEF DequeueCall, WorkerStep, WorkerDies, DequeueAcquire, DequeueRelease,
         LogSpan, PostAnswered, RecordAcquire, RecordExportSuccess,
         RecordExportFailure, RecordLastHttpResult, RecordRelease
  <2>2. UNCHANGED <<slots, readIndex, count, offered, span, backendPc>>
    BY <2>1 DEF ring, backendVars
  <2>3. InUse' = InUse
    BY <2>1, <2>2 DEF InUse, Stored, Taken
  <2>4. \A b \in Backends : Offering(b)' => Offering(b)
    BY <2>2 DEF Offering
  <2> QED  BY <2>1, <2>2, <2>3, <2>4, PlacesFrame
<1> QED  BY <1>1, <1>2, <1>3

\* The worker's steps keep its batch as large as what left the ring, and let go of
\* it only when it is settled.
LEMMA StepBatchUnderWay ==
    ASSUME QInv, [Next]_vars
    PROVE  BatchUnderWay'
<1> USE DEF QInv
<1>1. /\ Len(batch) \in Nat /\ batch \in Seq(Span \cup {NoSpan}) /\ count \in 0..Capacity
  BY InUseType DEF IInv, TypeOK
<1> USE <1>1 DEF BatchUnderWay, Dequeuing, Taken
<1>2. CASE \/ \E b \in Backends : EnqueueCall(b) \/ EnqueueStep(b)
           \/ \E r \in Readers : StatusStep(r)
           \/ UNCHANGED vars
  <2>1. UNCHANGED <<workerPc, batch>>
    BY <1>2 DEF EnqueueStep, EnqueueCall, EnqueueAcquire, EnqueueDrop, EnqueueStore,
         EnqueueCount, EnqueueRelease, StatusStep, StatusAcquire, StatusCopyQueue,
         StatusCopyExport, StatusRelease, vars, workerVars
  <2>2. Dequeuing => count' = count
    <3>1. SUFFICES ASSUME Dequeuing PROVE count' = count
      OBVIOUS
    <3>2. \A b \in Backends : backendPc[b] # "count"
      BY <3>1, WorkerAlone DEF Dequeuing, WorkerInside, BackendInside
    <3> QED  BY <1>2, <3>2 DEF EnqueueStep, EnqueueCall, EnqueueAcquire, EnqueueDrop,
                EnqueueStore, EnqueueCount, EnqueueRelease, EnqueueGoto, StatusStep,
                StatusAcquire, StatusCopyQueue, StatusCopyExport, StatusRelease, vars, ring
  <2> QED  BY <2>1, <2>2
<1>3. CASE DequeueAcquire
  <2>1. batch = <<>> /\ batch' = <<>> /\ count' = count /\ workerPc' = "take"
    BY <1>3 DEF DequeueAcquire, ring, IInv, RingConsistent
  <2> QED  BY <2>1
<1>4. CASE DequeueTake
  <2>1. slots[readIndex] \in Span \cup {NoSpan}
    BY DEF IInv, TypeOK
  <2>2. Len(batch') = Len(batch) + 1
    BY <1>4, <2>1 DEF DequeueTake
  <2> QED  BY <1>4, <2>2 DEF DequeueTake
<1>5. CASE DequeueUncount
  BY <1>5 DEF DequeueUncount
<1>6. CASE DequeueRelease
  BY <1>6 DEF DequeueRelease
<1>7. CASE \/ \E toCollector \in BOOLEAN, n \in 1..MaxBatch : DequeueCall(toCollector, n)
           \/ LogSpan \/ WorkerDies \/ RecordExportSuccess \/ RecordExportFailure
           \/ RecordLastHttpResult \/ RecordRelease
  <2>1. workerPc' \in {"acquireTake", "idle", "recordLast", "releaseRecord"}
    BY <1>7 DEF DequeueCall, LogSpan, WorkerDies, RecordExportSuccess,
         RecordExportFailure, RecordLastHttpResult, RecordRelease
  <2> QED  BY <2>1
<1>8. CASE (\E code \in HttpCodes : PostAnswered(code)) \/ RecordAcquire
  <2>1. batch' = batch /\ workerPc \in {"holding", "acquireRecord"}
        /\ workerPc' \in {"acquireRecord", "record"}
    BY <1>8 DEF PostAnswered, RecordAcquire
  <2> QED  BY <2>1
<1>9. CASE PostmasterReinit
  BY <1>9, ReinitQInv
<1> QED  BY <1>2, <1>3, <1>4, <1>5, <1>6, <1>7, <1>8, <1>9 DEF Next, WorkerStep

\* Where the spans are is inductive.
LEMMA StepQInv == QInv /\ [Next]_vars => QInv'
<1> SUFFICES ASSUME QInv, [Next]_vars PROVE QInv'
  OBVIOUS
<1>1. IInv' /\ BatchUnderWay'
  BY StepIInv, StepBatchUnderWay DEF QInv
<1>2. CASE \E b \in Backends : EnqueueCall(b) \/ EnqueueStep(b)
  BY <1>1, <1>2, EnqueuePlaces DEF QInv
<1>3. CASE \/ \E toCollector \in BOOLEAN, n \in 1..MaxBatch : DequeueCall(toCollector, n)
           \/ WorkerStep
           \/ WorkerDies
  BY <1>1, <1>3, WorkerPlaces DEF QInv
<1>4. CASE (\E r \in Readers : StatusStep(r)) \/ UNCHANGED vars
  <2>1. UNCHANGED <<ring, backendVars, workerVars>>
    BY <1>4 DEF StatusStep, StatusAcquire, StatusCopyQueue, StatusCopyExport,
         StatusRelease, vars
  <2>2. UNCHANGED <<slots, readIndex, count, offered, span, backendPc, batch, workerPc>>
    BY <2>1 DEF ring, backendVars, workerVars
  <2>3. InUse' = InUse
    BY <2>2 DEF InUse, Stored, Taken
  <2>4. \A b \in Backends : Offering(b)' => Offering(b)
    BY <2>2 DEF Offering
  <2> QED  BY <1>1, <2>2, <2>3, <2>4, PlacesFrame DEF QInv
<1>5. CASE PostmasterReinit
  BY <1>5, ReinitQInv
<1> QED  BY <1>2, <1>3, <1>4, <1>5 DEF Next

LEMMA AlwaysQInv == Spec => []QInv
BY InitQInv, StepQInv, PTL DEF Spec

-----------------------------------------------------------------------------
\* Content(n) is the sequence of the n oldest spans in the ring.
LEMMA ContentSeq ==
    ASSUME IInv, NEW n \in 0..Capacity
    PROVE  /\ Content(n) \in Seq(Span \cup {NoSpan})
           /\ Len(Content(n)) = n
           /\ \A k \in 1..n : Content(n)[k] = At(k)
<1>1. \A k \in 1..n : (readIndex + k - 1) % Capacity \in 0..Capacity - 1
  BY CapacityAssumption, SMT DEF IInv, TypeOK
<1>2. \A k \in 1..n : slots[(readIndex + k - 1) % Capacity] \in Span \cup {NoSpan}
  BY <1>1 DEF IInv, TypeOK
<1>3. Content(n) \in [1..n -> Span \cup {NoSpan}]
  BY <1>2 DEF Content
<1>4. n \in Nat
  BY CapacityAssumption
<1>5. Content(n) \in Seq(Span \cup {NoSpan})
  BY <1>3, <1>4, SeqDef
<1>6. Len(Content(n)) = n
  BY <1>3, <1>4, <1>5, LenProperties, SMT
<1>7. \A k \in 1..n : Content(n)[k] = At(k)
  BY DEF Content, At
<1> QED  BY <1>5, <1>6, <1>7

\* No span is lost to another one, handed out twice or read from a slot that was
\* never written (pg_eatrace_queue.c:87-99 and 114-122).
THEOREM SpansHeldOnce == Spec => []HeldOnce
<1>1. QInv => HeldOnce
  <2> SUFFICES ASSUME QInv PROVE HeldOnce
    OBVIOUS
  <2> USE DEF QInv
  <2> DEFINE content == Content(InUse)
             held == batch \o content
  <2>1. /\ batch \in Seq(Span \cup {NoSpan}) /\ content \in Seq(Span \cup {NoSpan})
        /\ Len(content) = InUse /\ \A k \in 1..InUse : content[k] = At(k)
        /\ Len(batch) \in Nat /\ InUse \in Nat
    <3>1. InUse \in 0..Capacity /\ Len(batch) \in Nat /\ batch \in Seq(Span \cup {NoSpan})
      BY InUseType DEF IInv, TypeOK
    <3>2. /\ content \in Seq(Span \cup {NoSpan})
          /\ Len(content) = InUse /\ \A k \in 1..InUse : content[k] = At(k)
      BY <3>1, ContentSeq, Zenon
    <3>3. InUse \in Nat
      BY <3>1, CapacityAssumption
    <3> QED  BY <3>1, <3>2, <3>3
  <2>2. /\ Len(held) = Len(batch) + InUse
        /\ \A i \in 1..Len(batch) + InUse :
              held[i] = IF i <= Len(batch) THEN batch[i] ELSE content[i - Len(batch)]
    BY <2>1, ConcatProperties
  <2>3. \A i \in 1..Len(held) :
           \/ i \in 1..Len(batch) /\ held[i] = batch[i]
           \/ i - Len(batch) \in 1..InUse /\ held[i] = At(i - Len(batch))
    BY <2>1, <2>2
  <2> HIDE DEF held, content
  <2>4. 1..offered \subseteq Span
    BY BoundAssumption DEF IInv, TypeOK, Span
  <2>5. \A i \in 1..Len(held) : held[i] \in Span
    BY <2>3, <2>4 DEF Places, BatchDistinct, RingDistinct
  <2>6. \A i, j \in 1..Len(held) : held[i] = held[j] => i = j
    <3>1. SUFFICES ASSUME NEW i \in 1..Len(held), NEW j \in 1..Len(held), held[i] = held[j]
                   PROVE  i = j
      OBVIOUS
    <3>2. CASE i \in 1..Len(batch) /\ held[i] = batch[i]
      BY <2>3, <3>1, <3>2 DEF Places, BatchDistinct, RingDistinct
    <3>3. CASE i - Len(batch) \in 1..InUse /\ held[i] = At(i - Len(batch))
      <4>1. CASE j \in 1..Len(batch) /\ held[j] = batch[j]
        BY <3>1, <3>3, <4>1 DEF Places, RingDistinct
      <4>2. CASE j - Len(batch) \in 1..InUse /\ held[j] = At(j - Len(batch))
        <5>1. i - Len(batch) = j - Len(batch)
          BY <3>1, <3>3, <4>2 DEF Places, RingDistinct
        <5> QED  BY <2>1, <2>2, <5>1
      <4> QED  BY <2>3, <4>1, <4>2
    <3> QED  BY <2>3, <3>2, <3>3
  <2> QED  BY <2>5, <2>6 DEF HeldOnce, held, content, InUse
<1> QED  BY AlwaysQInv, <1>1, PTL

-----------------------------------------------------------------------------
\* The refinement mapping of SpanRing!Abstract, one state function for each of the
\* abstract variables that is not a variable of the ring.
QueueBar == IF Dequeuing THEN batch \o Content(count - Taken) ELSE Content(count)
InFlightBar == IF Dequeuing THEN <<>> ELSE batch
DequeuedBar == IF Dequeuing THEN dequeuedCount + Taken - Len(batch) ELSE dequeuedCount
barVars == <<QueueBar, InFlightBar, droppedCount, DequeuedBar, exportedCount,
             exportFailureCount>>

\* The abstract queue is a sequence of spans, as long as the spans that wait or
\* are being taken.
LEMMA QueueBarSeq ==
    ASSUME QInv
    PROVE  /\ QueueBar \in Seq(Span \cup {NoSpan})
           /\ ~Dequeuing => Len(QueueBar) = count
           /\ Dequeuing => Len(QueueBar) = Len(batch) + (count - Taken)
           /\ Len(QueueBar) <= Capacity
<1> USE DEF QInv
<1>1. count \in 0..Capacity /\ Taken \in {0, 1} /\ batch \in Seq(Span \cup {NoSpan})
  BY InUseType DEF IInv, TypeOK
<1>2. CASE ~Dequeuing
  <2>1. QueueBar = Content(count)
    BY <1>2 DEF QueueBar
  <2>2. Content(count) \in Seq(Span \cup {NoSpan}) /\ Len(Content(count)) = count
    BY <1>1, ContentSeq
  <2> QED  BY <1>1, <1>2, <2>1, <2>2, CapacityAssumption
<1>3. CASE Dequeuing
  <2>1. QueueBar = batch \o Content(count - Taken)
    BY <1>3 DEF QueueBar
  <2>2. count - Taken \in 0..Capacity
    BY <1>1, CapacityAssumption DEF IInv, RingConsistent, Taken
  <2>3. /\ Content(count - Taken) \in Seq(Span \cup {NoSpan})
        /\ Len(Content(count - Taken)) = count - Taken
    BY <2>2, ContentSeq
  <2>4. /\ batch \o Content(count - Taken) \in Seq(Span \cup {NoSpan})
        /\ Len(batch \o Content(count - Taken)) = Len(batch) + (count - Taken)
    BY <1>1, <2>3, ConcatProperties
  <2>5. Len(batch) + (count - Taken) <= Capacity
    BY <1>1, <1>3, CapacityAssumption DEF BatchUnderWay
  <2> QED  BY <1>3, <2>1, <2>4, <2>5
<1> QED  BY <1>2, <1>3

\* Steps that leave the contents of the ring alone, and what is taken out of it.
LEMMA QueueBarFrame ==
    ASSUME UNCHANGED <<slots, readIndex, count, batch, workerPc>>
    PROVE  QueueBar' = QueueBar
<1>1. Taken' = Taken /\ Dequeuing' = Dequeuing
  BY DEF Taken, Dequeuing
<1>2. Content(count)' = Content(count) /\ Content(count - Taken)' = Content(count - Taken)
  BY <1>1 DEF Content
<1> QED  BY <1>1, <1>2 DEF QueueBar

\* The abstract variables keep their values.
LEMMA Stutter ==
    ASSUME UNCHANGED <<slots, readIndex, count, batch, workerPc>>,
           UNCHANGED <<droppedCount, dequeuedCount, exportedCount, exportFailureCount>>
    PROVE  UNCHANGED barVars
<1>1. Taken' = Taken /\ Dequeuing' = Dequeuing
  BY DEF Taken, Dequeuing
<1> QED  BY <1>1, QueueBarFrame DEF barVars, InFlightBar, DequeuedBar

\* In terms of the mapping, what a step of the abstract queue is.
LEMMA AbstractStep ==
    ASSUME \/ UNCHANGED barVars
           \/ \E s \in Span : Abstract!Accept(s)
           \/ Abstract!DropNewest
           \/ \E n \in 1..Capacity : Abstract!DequeueBatch(n)
           \/ Abstract!RecordSuccess \/ Abstract!RecordFailure \/ Abstract!Discard
           \/ Abstract!Reinitialise
    PROVE  Abstract!Next \/ UNCHANGED Abstract!queueVars
BY DEF Abstract!Next, Abstract!queueVars, barVars, QueueBar, InFlightBar, DequeuedBar

\* The span that is counted is the one its backend was called with, and it joins at
\* the tail.
LEMMA CountAccepts ==
    ASSUME QInv, NEW b \in Backends, EnqueueCount(b)
    PROVE  span[b] \in Span /\ Abstract!Accept(span[b])
<1> USE DEF QInv
<1>1. /\ backendPc[b] = "count" /\ count' = count + 1
      /\ UNCHANGED <<slots, readIndex, batch, workerPc>>
      /\ UNCHANGED <<droppedCount, dequeuedCount, exportedCount, exportFailureCount>>
  BY DEF EnqueueCount, EnqueueGoto, counters, workerVars
<1>2. ~Dequeuing /\ ~Dequeuing'
  BY <1>1, BackendAlone DEF BackendInside, WorkerInside, Dequeuing
<1>3. count \in 0..Capacity - 1 /\ Stored = 1 /\ Taken = 0
  <2>1. Stored = 1 /\ Taken = 0
    BY <1>1, BackendAlone DEF BackendInside
  <2> QED  BY <2>1, InUseType, CapacityAssumption DEF InUse
<1>4. At(count + 1) = span[b] /\ span[b] \in Span
  <2>1. InUse = count + 1 /\ count + 1 \in 1..InUse
    BY <1>3, InUseType DEF InUse
  <2>2. At(count + 1) = span[b] /\ At(count + 1) \in 1..offered
    BY <1>1, <2>1 DEF Places, LastStored, RingDistinct
  <2>3. 1..offered \subseteq Span
    BY BoundAssumption DEF IInv, TypeOK, Span
  <2> QED  BY <2>2, <2>3
<1>5. Content(count + 1) = Append(Content(count), span[b])
  <2>1. count \in 0..Capacity /\ count + 1 \in 0..Capacity /\ count \in Nat
    BY <1>3, CapacityAssumption
  <2>2. /\ Content(count) \in Seq(Span \cup {NoSpan}) /\ Len(Content(count)) = count
        /\ \A k \in 1..count : Content(count)[k] = At(k)
    BY <2>1, ContentSeq
  <2>3. /\ Content(count + 1) \in Seq(Span \cup {NoSpan})
        /\ Len(Content(count + 1)) = count + 1
        /\ \A k \in 1..count + 1 : Content(count + 1)[k] = At(k)
    BY <2>1, ContentSeq
  <2> DEFINE longer == Append(Content(count), span[b])
  <2>4. /\ longer \in Seq(Span \cup {NoSpan}) /\ Len(longer) = count + 1
        /\ \A k \in 1..count : longer[k] = Content(count)[k]
        /\ longer[count + 1] = span[b]
    <3>1. span[b] \in Span \cup {NoSpan}
      BY <1>4
    <3> QED  BY <2>2, <3>1, AppendProperties
  <2> HIDE DEF longer
  <2>5. \A k \in 1..count + 1 : Content(count + 1)[k] = longer[k]
    BY <1>4, <2>1, <2>2, <2>3, <2>4
  <2>6. Content(count + 1) = longer
    BY <2>3, <2>4, <2>5, SeqEqual
  <2> QED  BY <2>6 DEF longer
<1>6. QueueBar = Content(count) /\ QueueBar' = Content(count + 1)
  BY <1>1, <1>2 DEF QueueBar, Content
<1>7. Len(QueueBar) < Capacity
  BY <1>2, <1>3, QueueBarSeq, CapacityAssumption
<1>8. InFlightBar' = InFlightBar /\ DequeuedBar' = DequeuedBar
  BY <1>1, <1>2 DEF InFlightBar, DequeuedBar
<1>9. QueueBar' = Append(QueueBar, span[b])
  BY <1>5, <1>6
<1> QED  BY <1>1, <1>4, <1>7, <1>8, <1>9
         DEF Abstract!Accept, QueueBar, InFlightBar, DequeuedBar

\* A span is dropped only when the abstract queue is full too.
LEMMA DropDropsNewest ==
    ASSUME QInv, NEW b \in Backends, EnqueueDrop(b)
    PROVE  Abstract!DropNewest
<1> USE DEF QInv
<1>1. /\ backendPc[b] = "check" /\ count >= Capacity /\ droppedCount' = droppedCount + 1
      /\ UNCHANGED <<slots, readIndex, count, batch, workerPc>>
      /\ UNCHANGED <<dequeuedCount, exportedCount, exportFailureCount>>
  BY DEF EnqueueDrop, EnqueueGoto, ring, workerVars
<1>2. ~Dequeuing /\ ~Dequeuing'
  BY <1>1, BackendAlone DEF BackendInside, WorkerInside, Dequeuing
<1>3. Len(QueueBar) = Capacity
  BY <1>1, <1>2, QueueBarSeq, InUseType, CapacityAssumption
<1>4. QueueBar' = QueueBar /\ InFlightBar' = InFlightBar /\ DequeuedBar' = DequeuedBar
  BY <1>1, <1>2, QueueBarFrame DEF InFlightBar, DequeuedBar
<1> QED  BY <1>1, <1>3, <1>4
         DEF Abstract!DropNewest, QueueBar, InFlightBar, DequeuedBar

\* Storing a span that is not counted yet changes no slot the abstract queue
\* consists of.
LEMMA StoreStutters ==
    ASSUME QInv, NEW b \in Backends, EnqueueStore(b)
    PROVE  UNCHANGED barVars
<1> USE DEF QInv
<1>1. /\ backendPc[b] = "check" /\ count < Capacity
      /\ slots' = [slots EXCEPT ![writeIndex] = span[b]]
      /\ UNCHANGED <<readIndex, count, batch, workerPc>>
      /\ UNCHANGED <<droppedCount, dequeuedCount, exportedCount, exportFailureCount>>
  BY DEF EnqueueStore, EnqueueGoto, counters, workerVars
<1>2. ~Dequeuing /\ ~Dequeuing'
  BY <1>1, BackendAlone DEF BackendInside, WorkerInside, Dequeuing
<1>3. count \in 0..Capacity - 1 /\ Stored = 0 /\ Taken = 0
  <2>1. Stored = 0 /\ Taken = 0
    BY <1>1, BackendAlone DEF BackendInside
  <2> QED  BY <1>1, <2>1, InUseType, CapacityAssumption
<1>4. \A k \in 1..count : At(k)' = At(k)
  <2>1. writeIndex = (readIndex + count) % Capacity
    BY <1>3 DEF IInv, RingConsistent
  <2> QED  BY <1>1, <1>3, <2>1, StoreAt DEF IInv
<1>5. Content(count)' = Content(count)
  <2>1. Content(count) = [k \in 1..count |-> At(k)]
    BY DEF Content, At
  <2>2. Content(count)' = [k \in 1..count |-> At(k)']
    BY <1>1 DEF Content, At
  <2> QED  BY <1>4, <2>1, <2>2
<1>6. QueueBar' = QueueBar
  BY <1>1, <1>2, <1>5 DEF QueueBar
<1> QED  BY <1>1, <1>2, <1>6 DEF barVars, InFlightBar, DequeuedBar

\* Taking a span moves it from the front of the ring to the end of the batch: the
\* sequence of the two stays as it is.
LEMMA TakeStutters ==
    ASSUME QInv, DequeueTake
    PROVE  UNCHANGED barVars
<1> USE DEF QInv
<1>1. /\ workerPc = "take" /\ workerPc' = "uncount" /\ count > 0
      /\ batch' = Append(batch, slots[readIndex])
      /\ readIndex' = Advance(readIndex)
      /\ UNCHANGED <<slots, count>>
      /\ UNCHANGED <<droppedCount, dequeuedCount, exportedCount, exportFailureCount>>
  BY DEF DequeueTake, counters
<1>2. Dequeuing /\ Dequeuing' /\ Taken = 0 /\ Taken' = 1
  BY <1>1 DEF Dequeuing, Taken
<1>3. /\ count \in 1..Capacity /\ count - 1 \in 0..Capacity /\ count \in 0..Capacity
      /\ readIndex \in 0..Capacity - 1 /\ dequeuedCount \in Nat
  BY <1>1, InUseType, CapacityAssumption DEF IInv, TypeOK
<1>4. At(1) = slots[readIndex]
  <2>1. readIndex + 1 - 1 = readIndex /\ readIndex % Capacity = readIndex
    BY <1>3, CapacityAssumption, SMT
  <2> QED  BY <2>1 DEF At
<1>5. /\ batch \in Seq(Span \cup {NoSpan}) /\ slots[readIndex] \in Span \cup {NoSpan}
      /\ Len(batch) \in Nat
  <2>1. slots[readIndex] \in Span \cup {NoSpan}
    BY <1>3 DEF IInv, TypeOK
  <2>2. batch \in Seq(Span \cup {NoSpan})
    BY DEF IInv, TypeOK
  <2> QED  BY <2>1, <2>2, InUseType
<1>6. /\ batch' \in Seq(Span \cup {NoSpan}) /\ Len(batch') = Len(batch) + 1
      /\ \A i \in 1..Len(batch) : batch'[i] = batch[i]
      /\ batch'[Len(batch) + 1] = At(1)
  BY <1>1, <1>4, <1>5, AppendProperties
<1> DEFINE rest == Content(count - 1)'
<1>7. /\ Content(count) \in Seq(Span \cup {NoSpan}) /\ Len(Content(count)) = count
      /\ \A k \in 1..count : Content(count)[k] = At(k)
  BY <1>3, ContentSeq
<1>8. /\ rest \in Seq(Span \cup {NoSpan}) /\ Len(rest) = count - 1
      /\ \A k \in 1..count - 1 : rest[k] = At(k + 1)
  <2>1. rest = [k \in 1..count - 1 |-> At(k)']
    BY <1>1 DEF Content, At
  <2>2. \A k \in 1..count - 1 : At(k)' = At(k + 1)
    BY <1>1, <1>3, TakeAt, CapacityAssumption DEF IInv
  <2>3. \A k \in 1..count - 1 : rest[k] = At(k + 1)
    BY <2>1, <2>2
  <2>4. \A k \in 1..count - 1 : k + 1 \in 1..count
    BY <1>3, CapacityAssumption
  <2>5. \A k \in 1..count : At(k) \in Span \cup {NoSpan}
    BY <1>7, ElementOfSeq
  <2>6. \A k \in 1..count - 1 : rest[k] \in Span \cup {NoSpan}
    BY <2>3, <2>4, <2>5
  <2> HIDE DEF rest
  <2>7. rest \in [1..count - 1 -> Span \cup {NoSpan}]
    BY <2>1, <2>6
  <2>8. count - 1 \in Nat
    BY <1>3
  <2>9. rest \in Seq(Span \cup {NoSpan})
    BY <2>7, <2>8, SeqDef
  <2>10. Len(rest) = count - 1
    BY <2>7, <2>8, <2>9, LenProperties, SMT
  <2> QED  BY <2>3, <2>9, <2>10
<1>9. QueueBar = batch \o Content(count) /\ QueueBar' = batch' \o rest
  <2>1. count - Taken = count
    BY <1>2, <1>3
  <2>2. (count - Taken)' = count - 1
    BY <1>1, <1>2
  <2>3. QueueBar = batch \o Content(count - Taken)
    BY <1>2 DEF QueueBar
  <2>4. QueueBar' = batch' \o Content(count - Taken)'
    BY <1>2 DEF QueueBar
  <2>5. Content(count - Taken)' = rest
    BY <1>1, <2>2 DEF Content
  <2> QED  BY <2>1, <2>3, <2>4, <2>5
<1> HIDE DEF rest
<1>10. batch' \o rest = batch \o Content(count)
  <2>1. /\ batch \o Content(count) \in Seq(Span \cup {NoSpan})
        /\ Len(batch \o Content(count)) = Len(batch) + count
        /\ \A i \in 1..Len(batch) + count : (batch \o Content(count))[i] =
              IF i <= Len(batch) THEN batch[i] ELSE Content(count)[i - Len(batch)]
    BY <1>5, <1>7, ConcatProperties
  <2>2. /\ batch' \o rest \in Seq(Span \cup {NoSpan})
        /\ Len(batch' \o rest) = Len(batch) + 1 + (count - 1)
        /\ \A i \in 1..Len(batch) + 1 + (count - 1) : (batch' \o rest)[i] =
              IF i <= Len(batch) + 1 THEN batch'[i] ELSE rest[i - (Len(batch) + 1)]
    <3>1. /\ batch' \o rest \in Seq(Span \cup {NoSpan})
          /\ Len(batch' \o rest) = Len(batch') + Len(rest)
          /\ \A i \in 1..Len(batch') + Len(rest) : (batch' \o rest)[i] =
                IF i <= Len(batch') THEN batch'[i] ELSE rest[i - Len(batch')]
      BY <1>6, <1>8, ConcatProperties, Zenon
    <3>2. Len(batch') = Len(batch) + 1 /\ Len(rest) = count - 1
      BY <1>6, <1>8
    <3> QED  BY <3>1, <3>2, Zenon
  <2>3. ASSUME NEW i \in 1..Len(batch) + count
        PROVE  (batch' \o rest)[i] = (batch \o Content(count))[i]
    <3>1. i \in 1..Len(batch) + 1 + (count - 1)
      BY <1>3, <1>5
    <3>2. CASE i <= Len(batch)
      BY <1>5, <1>6, <2>1, <2>2, <3>1, <3>2
    <3>3. CASE i = Len(batch) + 1
      <4>1. (batch' \o rest)[i] = At(1)
        BY <1>5, <1>6, <2>2, <3>1, <3>3
      <4>2. (batch \o Content(count))[i] = Content(count)[1]
        BY <1>5, <2>1, <3>3
      <4>3. Content(count)[1] = At(1)
        BY <1>3, <1>7
      <4> QED  BY <4>1, <4>2, <4>3
    <3>4. CASE i > Len(batch) + 1
      <4> DEFINE k == i - (Len(batch) + 1)
      <4>1. k \in 1..count - 1 /\ k + 1 \in 1..count /\ i - Len(batch) = k + 1
        BY <1>3, <1>5, <3>4
      <4>2. (batch' \o rest)[i] = rest[k]
        BY <1>5, <2>2, <3>1, <3>4
      <4>3. (batch \o Content(count))[i] = Content(count)[k + 1]
        BY <1>5, <2>1, <3>4, <4>1
      <4> HIDE DEF k
      <4> QED  BY <1>7, <1>8, <4>1, <4>2, <4>3
    <3>5. i <= Len(batch) \/ i = Len(batch) + 1 \/ i > Len(batch) + 1
      <4>1. i \in Int /\ Len(batch) \in Int
        BY <1>3, <1>5
      <4> QED  BY <4>1
    <3> QED  BY <3>2, <3>3, <3>4, <3>5
  <2>4. Len(batch) + 1 + (count - 1) = Len(batch) + count
    BY <1>3, <1>5
  <2> QED  BY <2>1, <2>2, <2>3, <2>4, SeqEqual
<1>11. QueueBar' = QueueBar
  BY <1>9, <1>10
<1>12. InFlightBar' = InFlightBar
  BY <1>2 DEF InFlightBar
<1>13. DequeuedBar' = DequeuedBar
  BY <1>1, <1>2, <1>3, <1>5, <1>6 DEF DequeuedBar
<1> QED  BY <1>1, <1>11, <1>12, <1>13 DEF barVars

\* Counting it as taken moves nothing.
LEMMA UncountStutters ==
    ASSUME QInv, DequeueUncount
    PROVE  UNCHANGED barVars
<1> USE DEF QInv
<1>1. /\ workerPc = "uncount" /\ workerPc' = "take"
      /\ count' = count - 1 /\ dequeuedCount' = dequeuedCount + 1
      /\ UNCHANGED <<slots, readIndex, batch>>
      /\ UNCHANGED <<droppedCount, exportedCount, exportFailureCount>>
  BY DEF DequeueUncount
<1>2. Dequeuing /\ Dequeuing' /\ Taken = 1 /\ Taken' = 0
  BY <1>1 DEF Dequeuing, Taken
<1>3. count \in 0..Capacity /\ dequeuedCount \in Nat /\ Len(batch) \in Nat
  BY InUseType DEF IInv, TypeOK
<1>4. (count - Taken)' = count - Taken
  BY <1>1, <1>2, <1>3
<1>5. Content(count - Taken)' = Content(count - Taken)
  BY <1>1, <1>4 DEF Content
<1>6. QueueBar' = QueueBar
  BY <1>1, <1>2, <1>5 DEF QueueBar
<1>7. InFlightBar' = InFlightBar /\ DequeuedBar' = DequeuedBar
  BY <1>1, <1>2, <1>3 DEF InFlightBar, DequeuedBar
<1> QED  BY <1>1, <1>6, <1>7 DEF barVars

\* Nothing is taken yet when the worker gets the lock.
LEMMA AcquireStutters ==
    ASSUME QInv, DequeueAcquire
    PROVE  UNCHANGED barVars
<1> USE DEF QInv
<1>1. /\ workerPc = "acquireTake" /\ workerPc' = "take" /\ batch = <<>>
      /\ UNCHANGED <<slots, readIndex, count, batch>>
      /\ UNCHANGED <<droppedCount, dequeuedCount, exportedCount, exportFailureCount>>
  BY DEF DequeueAcquire, ring, counters, IInv, RingConsistent
<1>2. ~Dequeuing /\ Dequeuing' /\ Taken' = 0
  BY <1>1 DEF Dequeuing, Taken
<1>3. count \in 0..Capacity /\ dequeuedCount \in Nat
  BY InUseType DEF IInv, TypeOK
<1>4. Content(count) \in Seq(Span \cup {NoSpan})
  BY <1>3, ContentSeq
<1>5. Content(count - Taken)' = Content(count)
  <2>1. (count - Taken)' = count
    BY <1>1, <1>2, <1>3
  <2> QED  BY <1>1, <2>1 DEF Content
<1>6. <<>> \o Content(count) = Content(count)
  BY <1>4, ConcatEmptySeq
<1>7. QueueBar = Content(count) /\ QueueBar' = batch' \o Content(count - Taken)'
  BY <1>2 DEF QueueBar
<1>8. QueueBar' = QueueBar
  BY <1>1, <1>5, <1>6, <1>7
<1>9. InFlightBar' = InFlightBar /\ DequeuedBar' = DequeuedBar
  BY <1>1, <1>2, <1>3 DEF InFlightBar, DequeuedBar
<1> QED  BY <1>1, <1>8, <1>9 DEF barVars

\* A prefix of a sequence and what follows it.
LEMMA SplitConcat ==
    ASSUME NEW S, NEW s \in Seq(S), NEW t \in Seq(S), s # <<>>
    PROVE  /\ SubSeq(s \o t, 1, Len(s)) = s
           /\ SubSeq(s \o t, Len(s) + 1, Len(s) + Len(t)) = t
<1>1. Len(s) \in Nat \ {0} /\ Len(t) \in Nat
  BY EmptySeq, LenProperties
<1>2. SubSeq(s \o t, 1, Len(s)) = SubSeq(s, 1, Len(s))
  <2>1. 1 \in 1..Len(s) /\ Len(s) \in 1..Len(s)
    BY <1>1
  <2> QED  BY <2>1, SubSeqOfConcat1
<1>3. SubSeq(s \o t, Len(s) + 1, Len(s) + Len(t)) = t
  <2>1. CASE t = <<>>
    <3>1. Len(t) = 0
      BY <2>1
    <3>2. Len(s) + Len(t) < Len(s) + 1 /\ Len(s) + 1 \in Int /\ Len(s) + Len(t) \in Int
      BY <1>1, <3>1
    <3> QED  BY <2>1, <3>2, SubSeqEmpty
  <2>2. CASE t # <<>>
    <3>1. Len(t) \in Nat \ {0}
      BY <2>2, EmptySeq
    <3>2. /\ Len(s) + 1 \in Len(s) + 1..Len(s) + Len(t)
          /\ Len(s) + Len(t) \in Len(s) + 1..Len(s) + Len(t)
          /\ Len(s) + 1 - Len(s) = 1 /\ Len(s) + Len(t) - Len(s) = Len(t)
      BY <1>1, <3>1
    <3>3. SubSeq(s \o t, Len(s) + 1, Len(s) + Len(t)) = SubSeq(t, 1, Len(t))
      BY <3>2, SubSeqOfConcat2
    <3> QED  BY <3>3, SubSeqFull
  <2> QED  BY <2>1, <2>2
<1> QED  BY <1>2, <1>3, SubSeqFull

\* Giving the lock back is the moment the batch leaves the abstract queue; an empty
\* batch leaves nothing.
LEMMA ReleaseDequeues ==
    ASSUME QInv, DequeueRelease
    PROVE  UNCHANGED barVars \/ \E n \in 1..Capacity : Abstract!DequeueBatch(n)
<1> USE DEF QInv
<1>1. /\ workerPc = "take" /\ workerPc' = IF batch = <<>> THEN "idle" ELSE "holding"
      /\ UNCHANGED <<slots, readIndex, count, batch>>
      /\ UNCHANGED <<droppedCount, dequeuedCount, exportedCount, exportFailureCount>>
  BY DEF DequeueRelease, ring, counters
<1>2. Dequeuing /\ ~Dequeuing' /\ Taken = 0
  BY <1>1 DEF Dequeuing, Taken
<1>3. /\ count \in 0..Capacity /\ dequeuedCount \in Nat /\ count - Taken = count
      /\ batch \in Seq(Span \cup {NoSpan}) /\ Len(batch) \in Nat
  BY <1>2, InUseType DEF IInv, TypeOK
<1>4. Content(count) \in Seq(Span \cup {NoSpan}) /\ Len(Content(count)) = count
  BY <1>3, ContentSeq
<1>5. QueueBar = batch \o Content(count) /\ InFlightBar = <<>>
  BY <1>2, <1>3 DEF QueueBar, InFlightBar
<1>6. QueueBar' = Content(count) /\ InFlightBar' = batch
  BY <1>1, <1>2 DEF QueueBar, InFlightBar, Content
<1>7. DequeuedBar = dequeuedCount - Len(batch) /\ DequeuedBar' = dequeuedCount
  BY <1>1, <1>2, <1>3 DEF DequeuedBar
<1>8. CASE batch = <<>>
  <2>1. QueueBar' = QueueBar
    BY <1>4, <1>5, <1>6, <1>8, ConcatEmptySeq
  <2>2. Len(batch) = 0
    BY <1>8
  <2>3. DequeuedBar' = DequeuedBar
    BY <1>3, <1>7, <2>2
  <2> QED  BY <1>1, <1>5, <1>6, <1>8, <2>1, <2>3 DEF barVars
<1>9. CASE batch # <<>>
  <2>1. Len(batch) \in 1..Capacity
    <3>1. Len(batch) + count - Taken <= Capacity
      BY <1>2 DEF BatchUnderWay
    <3>2. Len(batch) \in Nat \ {0}
      BY <1>3, <1>9, EmptySeq
    <3> QED  BY <1>2, <1>3, <3>1, <3>2, CapacityAssumption
  <2>2. Len(QueueBar) = Len(batch) + count
    BY <1>2, <1>3, QueueBarSeq
  <2>3. (IF Len(batch) < Len(QueueBar) THEN Len(batch) ELSE Len(QueueBar)) = Len(batch)
    BY <1>3, <2>2
  <2>4. /\ SubSeq(QueueBar, 1, Len(batch)) = batch
        /\ SubSeq(QueueBar, Len(batch) + 1, Len(QueueBar)) = Content(count)
    BY <1>3, <1>4, <1>5, <1>9, <2>2, SplitConcat
  <2>5. DequeuedBar' = DequeuedBar + Len(batch)
    BY <1>3, <1>7
  <2>6. Abstract!DequeueBatch(Len(batch))
    <3>1. Len(batch) > 0
      BY <2>1
    <3>2. /\ InFlightBar' = SubSeq(QueueBar, 1, Len(batch))
          /\ QueueBar' = SubSeq(QueueBar, Len(batch) + 1, Len(QueueBar))
      BY <1>6, <2>4
    <3> QED  BY <1>1, <2>3, <2>5, <3>1, <3>2
             DEF Abstract!DequeueBatch, QueueBar, InFlightBar, DequeuedBar
  <2> QED  BY <2>1, <2>6
<1> QED  BY <1>8, <1>9

\* The batch is settled once: exported, failed, logged or lost with the worker.
LEMMA SettleIsAbstract ==
    ASSUME QInv
    PROVE  /\ RecordExportSuccess => Abstract!RecordSuccess
           /\ RecordExportFailure => Abstract!RecordFailure
           /\ LogSpan \/ WorkerDies => Abstract!Discard
<1> USE DEF QInv
<1>1. ASSUME RecordExportSuccess \/ RecordExportFailure \/ LogSpan \/ WorkerDies
      PROVE  /\ InFlightBar # <<>> /\ InFlightBar = batch /\ InFlightBar' = <<>>
             /\ QueueBar' = QueueBar
             /\ droppedCount' = droppedCount /\ DequeuedBar' = DequeuedBar
  <2>1. /\ workerPc \in {"holding", "record"} /\ workerPc' \in {"recordLast", "idle"}
        /\ batch' = <<>>
        /\ UNCHANGED <<slots, readIndex, count, droppedCount, dequeuedCount>>
    BY <1>1 DEF RecordExportSuccess, RecordExportFailure, LogSpan, WorkerDies, ring, counters
  <2>2. ~Dequeuing /\ ~Dequeuing'
    BY <2>1 DEF Dequeuing
  <2>3. batch # <<>>
    BY <2>1 DEF BatchUnderWay
  <2>4. QueueBar' = QueueBar
    BY <2>1, <2>2 DEF QueueBar, Content
  <2> QED  BY <2>1, <2>2, <2>3, <2>4 DEF InFlightBar, DequeuedBar
<1>2. ASSUME RecordExportSuccess PROVE Abstract!RecordSuccess
  <2>1. exportedCount' = exportedCount + Len(InFlightBar)
        /\ exportFailureCount' = exportFailureCount
    BY <1>1, <1>2 DEF RecordExportSuccess
  <2> QED  BY <1>1, <1>2, <2>1
           DEF Abstract!RecordSuccess, QueueBar, InFlightBar, DequeuedBar
<1>3. ASSUME RecordExportFailure PROVE Abstract!RecordFailure
  <2>1. exportFailureCount' = exportFailureCount + 1 /\ exportedCount' = exportedCount
    BY <1>3 DEF RecordExportFailure
  <2> QED  BY <1>1, <1>3, <2>1
           DEF Abstract!RecordFailure, QueueBar, InFlightBar, DequeuedBar
<1>4. ASSUME LogSpan \/ WorkerDies PROVE Abstract!Discard
  <2>1. UNCHANGED <<exportedCount, exportFailureCount>>
    BY <1>4 DEF LogSpan, WorkerDies, counters
  <2> QED  BY <1>1, <1>4, <2>1
           DEF Abstract!Discard, QueueBar, InFlightBar, DequeuedBar
<1> QED  BY <1>2, <1>3, <1>4

\* Zeroed memory is an empty queue, at the start and after a crash.
LEMMA EmptyIsAbstract ==
    /\ Init => Abstract!Init
    /\ PostmasterReinit => Abstract!Reinitialise
<1>1. ASSUME Init PROVE Abstract!Init
  <2>1. ~Dequeuing /\ count = 0 /\ batch = <<>>
    BY <1>1 DEF Init, Dequeuing
  <2>2. Content(0) = <<>>
    BY DEF Content
  <2>3. QueueBar = <<>> /\ InFlightBar = <<>> /\ DequeuedBar = 0
    BY <1>1, <2>1, <2>2 DEF Init, QueueBar, InFlightBar, DequeuedBar
  <2> QED  BY <1>1, <2>3 DEF Init, Abstract!Init, QueueBar, InFlightBar, DequeuedBar
<1>2. ASSUME PostmasterReinit PROVE Abstract!Reinitialise
  <2>1. ~Dequeuing' /\ count' = 0 /\ batch' = <<>>
    BY <1>2 DEF PostmasterReinit, Dequeuing
  <2>2. Content(count)' = <<>>
    BY <2>1 DEF Content
  <2>3. QueueBar' = <<>> /\ InFlightBar' = <<>> /\ DequeuedBar' = 0
    BY <1>2, <2>1, <2>2 DEF PostmasterReinit, QueueBar, InFlightBar, DequeuedBar
  <2> QED  BY <1>2, <2>3
           DEF PostmasterReinit, Abstract!Reinitialise, QueueBar, InFlightBar, DequeuedBar
<1> QED  BY <1>1, <1>2

\* Every step of the ring is a step of the abstract queue or leaves it alone.
LEMMA StepIsAbstract ==
    ASSUME QInv, [Next]_vars
    PROVE  Abstract!Next \/ UNCHANGED Abstract!queueVars
<1>1. ASSUME NEW b \in Backends, EnqueueCall(b) \/ EnqueueAcquire(b) \/ EnqueueRelease(b)
      PROVE  UNCHANGED barVars
  <2>1. UNCHANGED <<slots, readIndex, count, batch, workerPc, droppedCount, dequeuedCount,
                    exportedCount, exportFailureCount>>
    BY <1>1 DEF EnqueueCall, EnqueueAcquire, EnqueueRelease, ring, counters, workerVars
  <2> QED  BY <2>1, Stutter
<1>2. CASE \E b \in Backends : EnqueueCall(b) \/ EnqueueStep(b)
  BY <1>1, <1>2, CountAccepts, DropDropsNewest, StoreStutters, AbstractStep DEF EnqueueStep
<1>3. ASSUME \/ \E toCollector \in BOOLEAN, n \in 1..MaxBatch : DequeueCall(toCollector, n)
             \/ \E code \in HttpCodes : PostAnswered(code)
             \/ RecordAcquire \/ RecordLastHttpResult \/ RecordRelease
      PROVE  UNCHANGED barVars
  <2>1. /\ UNCHANGED <<slots, readIndex, count, batch, droppedCount, dequeuedCount,
                       exportedCount, exportFailureCount>>
        /\ workerPc \notin {"take", "uncount"} /\ workerPc' \notin {"take", "uncount"}
    BY <1>3 DEF DequeueCall, PostAnswered, RecordAcquire, RecordLastHttpResult,
         RecordRelease, ring, counters
  <2>2. ~Dequeuing /\ ~Dequeuing'
    BY <2>1 DEF Dequeuing
  <2> QED  BY <2>1, <2>2 DEF barVars, QueueBar, InFlightBar, DequeuedBar, Content
<1>4. CASE \/ \E toCollector \in BOOLEAN, n \in 1..MaxBatch : DequeueCall(toCollector, n)
           \/ WorkerStep
           \/ WorkerDies
  BY <1>3, <1>4, AcquireStutters, TakeStutters, UncountStutters, ReleaseDequeues,
     SettleIsAbstract, AbstractStep DEF WorkerStep
<1>5. CASE (\E r \in Readers : StatusStep(r)) \/ UNCHANGED vars
  <2>1. UNCHANGED <<slots, readIndex, count, batch, workerPc, droppedCount, dequeuedCount,
                    exportedCount, exportFailureCount>>
    BY <1>5 DEF StatusStep, StatusAcquire, StatusCopyQueue, StatusCopyExport,
         StatusRelease, vars, ring, counters, workerVars
  <2> QED  BY <2>1, Stutter, AbstractStep
<1>6. CASE PostmasterReinit
  BY <1>6, EmptyIsAbstract, AbstractStep
<1> QED  BY <1>2, <1>4, <1>5, <1>6 DEF Next

\* The statements of pg_eatrace_queue.c, in whatever order the processes execute
\* them, are the first-in first-out, drop-the-newest queue of SpanQueue.
THEOREM RingImplementsQueue == Spec => ImplementsQueue
<1>1. Init => Abstract!Init
  BY EmptyIsAbstract
<1>2. QInv /\ [Next]_vars => [Abstract!Next]_Abstract!queueVars
  BY StepIsAbstract
<1> QED  BY AlwaysQInv, <1>1, <1>2, PTL DEF Spec, ImplementsQueue, Abstract!Spec
=============================================================================
