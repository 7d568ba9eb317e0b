----------------------- MODULE BackendHooksStackProofs -----------------------
(***************************************************************************)
(* Proofs about the stack of active spans.  In an environment where        *)
(* executors are started, run and ended with nothing in between ("suspend" *)
(* is not allowed) and no procedure commits ("commit" is not allowed) the  *)
(* stack mirrors the calls in progress, every statement that has to be     *)
(* traced is, and in the context that is its own if addresses of plans are *)
(* not recycled either.  Whatever commits and is recycled, as long as no   *)
(* executor is suspended, no span is an orphan.                            *)
(***************************************************************************)
EXTENDS BackendHooksProofs

\* Executors that wait to be run or ended, and how many traced statements there are.
Waiting == {q \in Idle : queryStates[q].id # 0}
Started == Cardinality(Executing) + (IF Waiting = {} THEN 0 ELSE 1)

\* The index of the d-th frame; -1 when the stack cannot hold that many.
Index(d) == IF d <= MaxActiveSpans THEN d - 1 ELSE -1

\* No two executors wait, and none does while an error is propagated.
OneIdle == (\A q, r \in Idle : q = r) /\ (error => Idle = {})

\* Every call and every query state remembers the index of its own frame.
StateIndexes ==
    /\ \A q \in QueryDescs : queryStates[q].id = 0 => queryStates[q].index = -1
    /\ \A q \in Waiting : queryStates[q].index = Index(Started)
CallIndexes ==
    \A i \in 1..Len(calls) :
        /\ calls[i].kind = "run" =>
             /\ calls[i].id = queryStates[calls[i].query].id
             /\ i \in Executing => queryStates[calls[i].query].index = Index(Depth(i))
        /\ calls[i].kind = "utility" =>
             calls[i].index = IF i \in Executing THEN Index(Depth(i)) ELSE -1

\* Every frame is that of the statement as deep as the frame is high.
StackHeight == Len(stack) = Fitting(Started)
CallFrames ==
    \A i \in Executing : Depth(i) <= MaxActiveSpans => stack[Depth(i)].span = calls[i].id
WaitingFrames ==
    \A q \in Waiting : Started <= MaxActiveSpans => stack[Started].span = queryStates[q].id

Mirror ==
    /\ OneIdle /\ StateIndexes /\ CallIndexes
    /\ StackHeight /\ CallFrames /\ WaitingFrames
MInv == HInv /\ Mirror

\* What the stack needs.
OrderlyEnvironment == {"suspend", "commit"} \cap Environment = {}

-----------------------------------------------------------------------------
LEMMA MaxType == MaxActiveSpans \in Nat
BY HooksAssumption

\* Pushing and popping, on a stack as high as d statements need.
LEMMA PushFrame ==
    ASSUME TypeOK, NEW d \in Nat, Len(stack) = Fitting(d),
           NEW context \in ContextType, NEW id \in Nat
    PROVE  /\ PushIndex = Index(d + 1)
           /\ Len(Pushed(context, id)) = Fitting(d + 1)
           /\ d + 1 <= MaxActiveSpans => Pushed(context, id)[d + 1].span = id
           /\ \A k \in 1..d : k <= MaxActiveSpans => Pushed(context, id)[k] = stack[k]
<1>1. CASE d < MaxActiveSpans
  <2>1. Len(stack) = d /\ Len(stack) < MaxActiveSpans
    BY <1>1 DEF Fitting
  <2>2. /\ PushIndex = d /\ Len(Pushed(context, id)) = d + 1
        /\ Pushed(context, id)[d + 1].span = id
        /\ \A k \in 1..d : Pushed(context, id)[k] = stack[k]
    BY <2>1, PushedStack
  <2> QED  BY <1>1, <2>2, MaxType DEF Fitting, Index
<1>2. CASE ~(d < MaxActiveSpans)
  <2>1. Len(stack) = MaxActiveSpans
    BY <1>2, MaxType DEF Fitting
  <2>2. PushIndex = -1 /\ Pushed(context, id) = stack
    BY <2>1, MaxType, PushedStack
  <2> QED  BY <1>2, <2>1, <2>2, MaxType DEF Fitting, Index
<1> QED  BY <1>1, <1>2

LEMMA PopFrame ==
    ASSUME TypeOK, NEW d \in Nat \ {0}, Len(stack) = Fitting(d)
    PROVE  /\ Len(PoppedTo(Index(d))) = Fitting(d - 1)
           /\ \A k \in 1..d - 1 : k <= MaxActiveSpans => PoppedTo(Index(d))[k] = stack[k]
<1>1. Index(d) \in Int
  BY DEF Index
<1>2. /\ Len(PoppedTo(Index(d))) =
           IF Index(d) >= 0 /\ Len(stack) > Index(d) THEN Index(d) ELSE Len(stack)
      /\ \A k \in 1..Len(PoppedTo(Index(d))) : PoppedTo(Index(d))[k] = stack[k]
  BY <1>1, PoppedStack
<1>3. CASE d <= MaxActiveSpans
  <2>1. Len(stack) = d /\ Index(d) = d - 1
    BY <1>3, MaxType DEF Fitting, Index
  <2>2. Len(PoppedTo(Index(d))) = d - 1
    BY <1>2, <2>1
  <2>3. Fitting(d - 1) = d - 1
    BY <1>3, MaxType DEF Fitting
  <2> QED  BY <1>2, <2>2, <2>3
<1>4. CASE ~(d <= MaxActiveSpans)
  <2>1. Len(stack) = MaxActiveSpans /\ Index(d) = -1 /\ Fitting(d - 1) = MaxActiveSpans
    BY <1>4, MaxType DEF Fitting, Index
  <2>2. Len(PoppedTo(Index(d))) = MaxActiveSpans
    BY <1>2, <2>1
  <2> QED  BY <1>2, <2>1, <2>2, MaxType
<1> QED  BY <1>3, <1>4

-----------------------------------------------------------------------------
\* Idle executors.
LEMMA IdleEnter ==
    ASSUME HInv, NEW call, Enter(call), open' = open
    PROVE  Idle' = {q \in Idle : q # call.query}
<1>1. \A q \in QueryDescs :
         (\A i \in 1..Len(calls') : calls'[i].query # q)
           <=> (\A i \in 1..Len(calls) : calls[i].query # q) /\ call.query # q
  BY EnterCalls, CallsType DEF HInv
<1> QED  BY <1>1 DEF Idle

LEMMA IdleLeave ==
    ASSUME HInv, calls # <<>>, Leave, open' = open
    PROVE  /\ Top.kind = "run" => Idle' = Idle \cup {Top.query}
           /\ Top.kind # "run" => Idle' = Idle
<1>1. /\ Top = calls[Len(calls)] /\ Len(calls) \in 1..Len(calls)
      /\ Len(calls') = Len(calls) - 1
      /\ \A i \in 1..Len(calls) - 1 : calls'[i] = calls[i]
  BY TopType, LeaveCalls DEF Top, HInv
<1>2. \A i \in 1..Len(calls) : i \in 1..Len(calls) - 1 \/ i = Len(calls)
  BY <1>1
<1>3. CASE Top.kind = "run"
  <2>1. /\ Top.query \in QueryDescs /\ open[Top.query] # NoQuery
        /\ \A i \in 1..Len(calls) - 1 : calls[i].query # Top.query
    BY <1>1, <1>3 DEF HInv, Linked, RunsOpen
  <2>2. ASSUME NEW q \in QueryDescs
        PROVE  (\A i \in 1..Len(calls') : calls'[i].query # q)
                 <=> q = Top.query \/ \A i \in 1..Len(calls) : calls[i].query # q
    <3>1. (\A i \in 1..Len(calls') : calls'[i].query # q)
            <=> \A i \in 1..Len(calls) - 1 : calls[i].query # q
      BY <1>1
    <3>2. (\A i \in 1..Len(calls) : calls[i].query # q)
            <=> (\A i \in 1..Len(calls) - 1 : calls[i].query # q) /\ Top.query # q
      BY <1>1, <1>2
    <3> QED  BY <2>1, <3>1, <3>2
  <2> QED  BY <1>3, <2>1, <2>2 DEF Idle
<1>4. CASE Top.kind # "run"
  <2>1. Top.query = "none"
    BY <1>1, <1>4 DEF HInv, Linked, RunsOpen
  <2> QED  BY <1>1, <1>2, <1>4, <2>1, AddressAssumption DEF Idle
<1> QED  BY <1>3, <1>4

LEMMA IdleStart ==
    ASSUME HInv, NEW q \in QueryDescs, open[q] = NoQuery, calls' = calls,
           NEW execution, execution # NoQuery, open' = [open EXCEPT ![q] = execution]
    PROVE  Idle' = Idle \cup {q}
<1>1. \A i \in 1..Len(calls) : calls[i].query # q
  BY RunningIsOpen DEF HInv, Linked
<1>2. \A r \in QueryDescs : open'[r] = IF r = q THEN execution ELSE open[r]
  BY Types DEF HInv
<1> QED  BY <1>1, <1>2 DEF Idle

LEMMA IdleClose ==
    ASSUME HInv, NEW q \in QueryDescs, Close({q}),
           \/ calls' = calls
           \/ calls # <<>> /\ Leave /\ Top.kind = "run" /\ Top.query = q
    PROVE  Idle' = Idle \ {q}
<1>1. \A r \in QueryDescs : open'[r] = IF r = q THEN NoQuery ELSE open[r]
  BY DEF Close
<1>2. CASE calls' = calls
  BY <1>1, <1>2 DEF Idle
<1>3. CASE calls # <<>> /\ Leave /\ Top.kind = "run" /\ Top.query = q
  <2>1. /\ Top = calls[Len(calls)] /\ Len(calls) \in 1..Len(calls)
        /\ Len(calls') = Len(calls) - 1
        /\ \A i \in 1..Len(calls) - 1 : calls'[i] = calls[i]
    BY <1>3, TopType, LeaveCalls DEF Top, HInv
  <2>2. \A i \in 1..Len(calls) : i \in 1..Len(calls) - 1 \/ i = Len(calls)
    BY <2>1
  <2> QED  BY <1>1, <1>3, <2>1, <2>2 DEF Idle
<1> QED  BY <1>2, <1>3

\* What a call in progress is when the step leaves it alone.
LEMMA KeptExecuting ==
    ASSUME TypeOK, calls' = calls \/ (calls # <<>> /\ Leave)
    PROVE  /\ \A i \in 1..Len(calls') :
                 i \in 1..Len(calls) /\ calls'[i] = calls[i] /\ (i \in Executing' => i \in Executing)
           /\ \A i \in Executing' : i \in 1..Len(calls') /\ i \in Executing /\ Depth(i)' = Depth(i)
<1>1. \A i \in 1..Len(calls') : i \in 1..Len(calls) /\ calls'[i] = calls[i]
  BY KeptCalls
<1>2. \A i \in Executing' : i \in 1..Len(calls') /\ i \in Executing
  BY <1>1 DEF Executing
<1>3. \A i \in Executing' : Depth(i)' = Depth(i)
  <2>1. CASE calls' = calls
    BY <2>1, SameDepths
  <2>2. CASE calls # <<>> /\ Leave
    BY <2>2, LeaveDepths
  <2> QED  BY <2>1, <2>2
<1> QED  BY <1>1, <1>2, <1>3

LEMMA FramesKept ==
    ASSUME HInv, Mirror, calls' = calls \/ (calls # <<>> /\ Leave),
           \A i \in 1..Len(calls') : calls[i].kind = "run" =>
               queryStates'[calls[i].query] = queryStates[calls[i].query],
           \A i \in Executing' : Depth(i) <= MaxActiveSpans =>
               stack'[Depth(i)] = stack[Depth(i)]
    PROVE  CallIndexes' /\ CallFrames'
<1>1. /\ \A i \in 1..Len(calls') :
            i \in 1..Len(calls) /\ calls'[i] = calls[i] /\ (i \in Executing' <=> i \in Executing)
      /\ \A i \in Executing' : i \in 1..Len(calls') /\ i \in Executing /\ Depth(i)' = Depth(i)
  BY KeptExecuting DEF HInv, Executing
<1>2. CallIndexes'
  BY <1>1 DEF Mirror, CallIndexes
<1>3. CallFrames'
  BY <1>1 DEF Mirror, CallFrames
<1> QED  BY <1>2, <1>3

LEMMA FramesEntered ==
    ASSUME HInv, Mirror, NEW call, Enter(call), queryStates' = queryStates,
           call.kind = "run" =>
              /\ call.id = queryStates[call.query].id
              /\ Executes(call) => queryStates[call.query].index = Index(Cardinality(Executing) + 1),
           call.kind = "utility" =>
              call.index = IF Executes(call) THEN Index(Cardinality(Executing) + 1) ELSE -1,
           \A k \in 1..Cardinality(Executing) : k <= MaxActiveSpans => stack'[k] = stack[k],
           Executes(call) /\ Cardinality(Executing) + 1 <= MaxActiveSpans =>
              stack'[Cardinality(Executing) + 1].span = call.id
    PROVE  CallIndexes' /\ CallFrames'
<1>0. PICK n : n = Len(calls) + 1
  OBVIOUS
<1>1. /\ \A i \in 1..Len(calls') : i = n \/ (i \in 1..Len(calls) /\ calls'[i] = calls[i])
      /\ calls'[n] = call /\ n \notin 1..Len(calls)
  BY <1>0, EnterCalls, CallsType DEF HInv
<1>2. /\ Executing' = IF Executes(call) THEN Executing \cup {n} ELSE Executing
      /\ \A i \in Executing : Depth(i)' = Depth(i)
      /\ Executes(call) => Depth(n)' = Cardinality(Executing) + 1
  BY <1>0, EnterDepths DEF HInv
<1>3. \A i \in Executing : i \in 1..Len(calls) /\ Depth(i) \in 1..Cardinality(Executing)
  BY ExecutingFinite DEF HInv, Executing
<1>4. ASSUME NEW i \in 1..Len(calls')
      PROVE  /\ calls'[i].kind = "run" =>
                  /\ calls'[i].id = queryStates'[calls'[i].query].id
                  /\ i \in Executing' => queryStates'[calls'[i].query].index = Index(Depth(i)')
             /\ calls'[i].kind = "utility" =>
                  calls'[i].index = IF i \in Executing' THEN Index(Depth(i)') ELSE -1
  <2>1. CASE i = n
    BY <1>1, <1>2, <1>3, <2>1
  <2>2. CASE i \in 1..Len(calls) /\ calls'[i] = calls[i]
    BY <1>1, <1>2, <2>2 DEF Mirror, CallIndexes
  <2> QED  BY <1>1, <2>1, <2>2
<1>5. CallIndexes'
  BY <1>4 DEF CallIndexes, Index
<1>6. ASSUME NEW i \in Executing', Depth(i)' <= MaxActiveSpans
      PROVE  stack'[Depth(i)'].span = calls'[i].id
  <2>1. CASE i \in Executing
    <3>1. /\ Depth(i)' = Depth(i) /\ i \in 1..Len(calls)
          /\ Depth(i) \in 1..Cardinality(Executing)
      BY <1>2, <1>3, <2>1
    <3>2. stack[Depth(i)].span = calls[i].id
      BY <1>6, <2>1, <3>1 DEF Mirror, CallFrames
    <3>3. calls'[i] = calls[i]
      BY <3>1, EnterCalls DEF HInv
    <3>4. stack'[Depth(i)] = stack[Depth(i)]
      BY <1>6, <3>1
    <3> QED  BY <3>1, <3>2, <3>3, <3>4
  <2>2. CASE i = n /\ Executes(call)
    BY <1>1, <1>2, <1>6, <2>2
  <2> QED  BY <1>2, <2>1, <2>2
<1>7. CallFrames'
  BY <1>6 DEF CallFrames
<1> QED  BY <1>5, <1>7

\* What is left to show after a step, by whether an executor waits.
LEMMA NothingWaits ==
    ASSUME Idle' = {}, Len(stack') = Fitting(Cardinality(Executing)'), TypeOK',
           \A q \in QueryDescs : queryStates'[q].id = 0 => queryStates'[q].index = -1
    PROVE  OneIdle' /\ StateIndexes' /\ StackHeight' /\ WaitingFrames'
<1>1. Waiting' = {}
  BY DEF Waiting
<1>2. IsFiniteSet(Executing)' /\ Cardinality(Executing)' \in Nat
  <2>1. IsFiniteSet(1..Len(calls'))
    <3>1. Len(calls') \in Nat
      BY LenProperties DEF TypeOK
    <3> QED  BY <3>1, FS_Interval
  <2> QED  BY <2>1, FS_Subset, FS_CardinalityType DEF Executing
<1>3. Started' = Cardinality(Executing)'
  BY <1>1, <1>2 DEF Started
<1> QED  BY <1>1, <1>3 DEF OneIdle, StateIndexes, StackHeight, WaitingFrames, Fitting

LEMMA OneWaits ==
    ASSUME NEW q \in QueryDescs, Idle' = {q}, ~error', NEW n \in Nat, n = Cardinality(Executing)',
           Len(stack') = Fitting(IF queryStates'[q].id = 0 THEN n ELSE n + 1),
           \A r \in QueryDescs : queryStates'[r].id = 0 => queryStates'[r].index = -1,
           queryStates'[q].id # 0 =>
              /\ queryStates'[q].index = Index(n + 1)
              /\ n + 1 <= MaxActiveSpans => stack'[n + 1].span = queryStates'[q].id
    PROVE  OneIdle' /\ StateIndexes' /\ StackHeight' /\ WaitingFrames'
<1>1. Waiting' = IF queryStates'[q].id = 0 THEN {} ELSE {q}
  BY DEF Waiting
<1>2. Started' = IF queryStates'[q].id = 0 THEN n ELSE n + 1
  BY <1>1 DEF Started
<1>3. OneIdle' /\ StackHeight'
  BY <1>2 DEF OneIdle, StackHeight, Fitting
<1>4. StateIndexes' /\ WaitingFrames'
  BY <1>1, <1>2 DEF StateIndexes, WaitingFrames, Index
<1> QED  BY <1>3, <1>4

\* And before a step.
LEMMA NothingWaited ==
    ASSUME HInv, Mirror, Idle = {}
    PROVE  Len(stack) = Fitting(Cardinality(Executing))
<1>1. Started = Cardinality(Executing)
  BY ExecutingFinite DEF Started, Waiting, HInv
<1> QED  BY <1>1 DEF Mirror, StackHeight

LEMMA OneWaited ==
    ASSUME HInv, Mirror, NEW q \in Idle
    PROVE  /\ Idle = {q} /\ ~error
           /\ queryStates[q].id = 0 => Len(stack) = Fitting(Cardinality(Executing))
           /\ queryStates[q].id # 0 =>
                /\ Len(stack) = Fitting(Cardinality(Executing) + 1)
                /\ queryStates[q].index = Index(Cardinality(Executing) + 1)
                /\ Cardinality(Executing) + 1 <= MaxActiveSpans =>
                     stack[Cardinality(Executing) + 1].span = queryStates[q].id
<1>1. Idle = {q} /\ ~error
  BY DEF Mirror, OneIdle
<1>2. Waiting = IF queryStates[q].id = 0 THEN {} ELSE {q}
  BY <1>1 DEF Waiting
<1>3. Started = IF queryStates[q].id = 0 THEN Cardinality(Executing) ELSE Cardinality(Executing) + 1
  BY <1>2, ExecutingFinite DEF Started, HInv
<1> QED  BY <1>1, <1>2, <1>3 DEF Mirror, StateIndexes, StackHeight, WaitingFrames

-----------------------------------------------------------------------------
\* The stack keeps mirroring the calls, action by action.
LEMMA NobodyWaits ==
    ASSUME MInv, OrderlyEnvironment, Orderly \/ error
    PROVE  /\ Idle = {} /\ Len(stack) = Fitting(Cardinality(Executing))
           /\ Cardinality(Executing) \in Nat
           /\ \A q \in QueryDescs : queryStates[q].id = 0 => queryStates[q].index = -1
<1>1. Idle = {}
  BY DEF OrderlyEnvironment, Orderly, MInv, Mirror, OneIdle
<1> QED  BY <1>1, NothingWaited, ExecutingFinite DEF MInv, HInv, Mirror, StateIndexes

LEMMA CallMirror ==
    ASSUME MInv, OrderlyEnvironment, TypeOK',
           NEW text \in Texts, PlannerCall(text) \/ UtilityCall(text)
    PROVE  Mirror'
<1> DEFINE N == Cardinality(Executing)
<1>0. PICK n : n = Len(calls) + 1
  OBVIOUS
<1>1. /\ Idle = {} /\ Len(stack) = Fitting(N) /\ N \in Nat
      /\ \A q \in QueryDescs : queryStates[q].id = 0 => queryStates[q].index = -1
  BY NobodyWaits DEF PlannerCall, UtilityCall, MayCall, MayStart
<1>2. open' = open /\ queryStates' = queryStates
  BY DEF PlannerCall, UtilityCall
<1>3. ASSUME NEW call, Enter(call), ~Executes(call), stack' = stack, call.kind # "run",
             call.kind = "utility" => call.index = -1
      PROVE  Mirror'
  <2>1. Idle' = {}
    BY <1>1, <1>2, <1>3, IdleEnter DEF MInv
  <2>2. Cardinality(Executing)' = N
    BY <1>0, <1>3, EnterDepths DEF MInv, HInv
  <2>3. OneIdle' /\ StateIndexes' /\ StackHeight' /\ WaitingFrames'
    BY <1>1, <1>2, <1>3, <2>1, <2>2, NothingWaits
  <2>4. CallIndexes' /\ CallFrames'
    BY <1>2, <1>3, FramesEntered DEF MInv
  <2> QED  BY <2>3, <2>4 DEF Mirror
<1>4. CASE PlannerCall(text)
  <2>1. PICK call : Enter(call) /\ call.kind = "plan"
    BY <1>4 DEF PlannerCall, Call
  <2> QED  BY <1>3, <1>4, <2>1 DEF PlannerCall, Executes
<1>5. CASE UtilityCall(text) /\ FindTraceContext(text) = NoContext
  <2>1. PICK call : Enter(call) /\ call.kind = "utility" /\ call.id = 0 /\ call.index = -1
    BY <1>5 DEF UtilityCall, Call
  <2> QED  BY <1>3, <1>5, <2>1 DEF UtilityCall, Executes
<1>6. CASE UtilityCall(text) /\ FindTraceContext(text) # NoContext
  <2> DEFINE context == FindTraceContext(text)
             call == Call("utility", "none", text, context, NewId, PushIndex, Cause)
  <2>1. Enter(call) /\ stack' = Pushed(context, NewId)
    BY <1>6 DEF UtilityCall
  <2>2. NewId \in Nat /\ NewId > 0 /\ context \in ContextType
    BY NewIdType, SmallValues, FoundContext DEF MInv, HInv
  <2>3. call.kind = "utility" /\ call.id = NewId /\ call.index = PushIndex /\ call.query = "none"
    BY DEF Call
  <2>4. Executes(call)
    BY <2>2, <2>3 DEF Executes
  <2> HIDE DEF call, context
  <2>5. /\ PushIndex = Index(N + 1) /\ Len(stack') = Fitting(N + 1)
        /\ N + 1 <= MaxActiveSpans => stack'[N + 1].span = NewId
        /\ \A k \in 1..N : k <= MaxActiveSpans => stack'[k] = stack[k]
    BY <1>1, <2>1, <2>2, PushFrame DEF MInv, HInv
  <2>6. Idle' = {}
    BY <1>1, <1>2, <2>1, IdleEnter DEF MInv
  <2>7. Cardinality(Executing)' = N + 1
    BY <1>0, <2>1, <2>4, EnterDepths DEF MInv, HInv
  <2>8. OneIdle' /\ StateIndexes' /\ StackHeight' /\ WaitingFrames'
    BY <1>1, <1>2, <2>5, <2>6, <2>7, NothingWaits
  <2>9. CallIndexes' /\ CallFrames'
    BY <1>2, <2>1, <2>3, <2>4, <2>5, FramesEntered DEF MInv
  <2> QED  BY <2>8, <2>9 DEF Mirror
<1> QED  BY <1>4, <1>5, <1>6

\* The planner calls are not on the stack.
LEMMA PlanMirror ==
    ASSUME MInv, OrderlyEnvironment, TypeOK',
           \/ PlannerError
           \/ \E returned, kept \in PlannedStmts : PlannerReturn(returned, kept)
    PROVE  Mirror'
<1>1. /\ calls # <<>> /\ Leave /\ Top.kind = "plan" /\ (Orderly \/ error)
      /\ open' = open /\ queryStates' = queryStates /\ stack' = stack
  BY DEF PlannerError, PlannerReturn
<1>2. /\ Idle = {} /\ Len(stack) = Fitting(Cardinality(Executing))
      /\ \A q \in QueryDescs : queryStates[q].id = 0 => queryStates[q].index = -1
  BY <1>1, NobodyWaits
<1>3. Idle' = {}
  BY <1>1, <1>2, IdleLeave DEF MInv
<1>4. Cardinality(Executing)' = Cardinality(Executing)
  BY <1>1, LeaveDepths DEF MInv, HInv, Executes
<1>5. OneIdle' /\ StateIndexes' /\ StackHeight' /\ WaitingFrames'
  BY <1>1, <1>2, <1>3, <1>4, NothingWaits
<1>6. CallIndexes' /\ CallFrames'
  BY <1>1, FramesKept DEF MInv
<1> QED  BY <1>5, <1>6 DEF Mirror

LEMMA UtilityReturnMirror ==
    ASSUME MInv, OrderlyEnvironment, TypeOK', UtilityReturn
    PROVE  Mirror'
<1> DEFINE N == Cardinality(Executing)
<1>1. /\ calls # <<>> /\ Leave /\ Top.kind = "utility" /\ Orderly
      /\ open' = open /\ queryStates' = queryStates /\ stack' = PoppedTo(Top.index)
  BY DEF UtilityReturn
<1>2. /\ Idle = {} /\ Len(stack) = Fitting(N) /\ N \in Nat
      /\ \A q \in QueryDescs : queryStates[q].id = 0 => queryStates[q].index = -1
  BY <1>1, NobodyWaits
<1>3. Idle' = {}
  BY <1>1, <1>2, IdleLeave DEF MInv
<1>4. Top = calls[Len(calls)] /\ Len(calls) \in 1..Len(calls) /\ Top.index \in Int
  BY <1>1, TopType DEF Top, MInv, HInv, CallType
<1>5. /\ Cardinality(Executing)' = IF Executes(Top) THEN N - 1 ELSE N
      /\ Executes(Top) <=> Len(calls) \in Executing
      /\ Executes(Top) => Depth(Len(calls)) = N
      /\ \A i \in Executing' : i \in Executing
      /\ \A i \in Executing' : Executes(Top) => Depth(i) < N
  BY <1>1, LeaveDepths DEF MInv, HInv
<1>6. Top.index = IF Executes(Top) THEN Index(N) ELSE -1
  BY <1>1, <1>4, <1>5 DEF MInv, Mirror, CallIndexes
<1>7. \A i \in Executing' : Depth(i) \in Nat \ {0}
  BY <1>5, ExecutingFinite DEF MInv, HInv
<1>8. /\ Len(stack') = Fitting(Cardinality(Executing)')
      /\ \A i \in Executing' : Depth(i) <= MaxActiveSpans => stack'[Depth(i)] = stack[Depth(i)]
  <2>1. CASE Executes(Top)
    <3>1. N \in Nat \ {0}
      BY <1>2, <1>5, <2>1, ExecutingFinite DEF MInv, HInv
    <3>2. /\ Len(stack') = Fitting(N - 1)
          /\ \A k \in 1..N - 1 : k <= MaxActiveSpans => stack'[k] = stack[k]
      BY <1>1, <1>2, <1>6, <2>1, <3>1, PopFrame DEF MInv, HInv
    <3>3. \A i \in Executing' : Depth(i) \in 1..N - 1
      BY <1>2, <1>5, <1>7, <2>1
    <3> QED  BY <1>5, <2>1, <3>2, <3>3
  <2>2. CASE ~Executes(Top)
    <3>1. stack' = stack
      BY <1>1, <1>6, <2>2 DEF PoppedTo
    <3> QED  BY <1>2, <1>5, <2>2, <3>1
  <2> QED  BY <2>1, <2>2
<1>9. OneIdle' /\ StateIndexes' /\ StackHeight' /\ WaitingFrames'
  BY <1>1, <1>2, <1>3, <1>8, NothingWaits
<1>10. CallIndexes' /\ CallFrames'
  BY <1>1, <1>8, FramesKept DEF MInv
<1> QED  BY <1>9, <1>10 DEF Mirror

LEMMA ExecutorStartMirror ==
    ASSUME MInv, OrderlyEnvironment, TypeOK', NEW q \in QueryDescs, NEW p \in PlannedStmts,
           ExecutorStart(q, p)
    PROVE  Mirror'
<1> DEFINE N == Cardinality(Executing)
           state == StartState(p)
<1>1. /\ ~error /\ Orderly /\ open[q] = NoQuery /\ error' = error /\ calls' = calls
      /\ open' = [open EXCEPT ![q] = [plan |-> p, cause |-> Cause]]
      /\ queryStates' = [queryStates EXCEPT ![q] = state]
      /\ stack' = IF state.id # 0 THEN Pushed(state.context, state.id) ELSE stack
  BY DEF ExecutorStart, MayExecute, MayStart
<1>2. /\ Idle = {} /\ Len(stack) = Fitting(N) /\ N \in Nat
      /\ \A r \in QueryDescs : queryStates[r].id = 0 => queryStates[r].index = -1
  BY <1>1, NobodyWaits
<1>3. Idle' = {q}
  <2>1. [plan |-> p, cause |-> Cause] # NoQuery
    BY AddressAssumption DEF NoQuery
  <2> QED  BY <1>1, <1>2, <2>1, IdleStart DEF MInv
<1>4. state.id \in Nat /\ state.context \in ContextType
  BY StartedState DEF MInv, HInv, QueryStateType
<1>5. /\ state.id = 0 => state.index = -1
      /\ state.id # 0 => state.index = PushIndex
  BY NewIdType DEF MInv, HInv, StartState, NoQueryState, Adopts
<1>6. \A r \in QueryDescs : queryStates'[r] = IF r = q THEN state ELSE queryStates[r]
  BY <1>1, Types DEF MInv, HInv
<1> HIDE DEF state
<1>7. /\ Cardinality(Executing)' = N
      /\ \A i \in Executing' : Depth(i) \in 1..N
  BY <1>1, SameDepths, ExecutingFinite DEF MInv, HInv
<1>8. /\ \A k \in 1..N : k <= MaxActiveSpans => stack'[k] = stack[k]
      /\ Len(stack') = Fitting(IF state.id = 0 THEN N ELSE N + 1)
      /\ state.id # 0 => /\ state.index = Index(N + 1)
                         /\ N + 1 <= MaxActiveSpans => stack'[N + 1].span = state.id
  <2>1. CASE state.id = 0
    BY <1>1, <1>2, <2>1
  <2>2. CASE state.id # 0
    BY <1>1, <1>2, <1>4, <1>5, <2>2, PushFrame DEF MInv, HInv
  <2> QED  BY <2>1, <2>2
<1>9. OneIdle' /\ StateIndexes' /\ StackHeight' /\ WaitingFrames'
  BY <1>1, <1>2, <1>3, <1>5, <1>6, <1>7, <1>8, OneWaits
<1>10. CallIndexes' /\ CallFrames'
  <2>1. ASSUME NEW i \in 1..Len(calls'), calls[i].kind = "run"
        PROVE  queryStates'[calls[i].query] = queryStates[calls[i].query]
    BY <1>1, <1>6, <2>1 DEF MInv, HInv, Linked, RunsOpen
  <2> QED  BY <1>1, <1>7, <1>8, <2>1, FramesKept DEF MInv
<1> QED  BY <1>9, <1>10 DEF Mirror

LEMMA ExecutorStartErrorMirror ==
    ASSUME MInv, OrderlyEnvironment, TypeOK', NEW q \in QueryDescs, NEW p \in PlannedStmts,
           ExecutorStartError(q, p)
    PROVE  Mirror'
<1>1. /\ Orderly /\ open[q] = NoQuery /\ calls' = calls /\ open' = open /\ stack' = stack
      /\ queryStates' = [queryStates EXCEPT ![q] = NoQueryState]
  BY DEF ExecutorStartError, MayExecute, MayStart
<1>2. /\ Idle = {} /\ Len(stack) = Fitting(Cardinality(Executing))
      /\ \A r \in QueryDescs : queryStates[r].id = 0 => queryStates[r].index = -1
  BY <1>1, NobodyWaits
<1>3. \A r \in QueryDescs : queryStates'[r] = IF r = q THEN NoQueryState ELSE queryStates[r]
  BY <1>1, Types DEF MInv, HInv
<1>4. Idle' = {} /\ Cardinality(Executing)' = Cardinality(Executing)
  BY <1>1, <1>2, SameDepths DEF Idle
<1>5. OneIdle' /\ StateIndexes' /\ StackHeight' /\ WaitingFrames'
  BY <1>1, <1>2, <1>3, <1>4, NothingWaits DEF NoQueryState
<1>6. CallIndexes' /\ CallFrames'
  <2>1. ASSUME NEW i \in 1..Len(calls'), calls[i].kind = "run"
        PROVE  queryStates'[calls[i].query] = queryStates[calls[i].query]
    BY <1>1, <1>3, <2>1 DEF MInv, HInv, Linked, RunsOpen
  <2> QED  BY <1>1, <2>1, FramesKept DEF MInv
<1> QED  BY <1>5, <1>6 DEF Mirror

LEMMA ExecutorCallMirror ==
    ASSUME MInv, TypeOK', NEW q \in QueryDescs, ExecutorCall(q)
    PROVE  Mirror'
<1> DEFINE N == Cardinality(Executing)
           call == Call("run", q, NoText, NoContext, queryStates[q].id, -1, 0)
<1>0. PICK n : n = Len(calls) + 1
  OBVIOUS
<1>1. /\ q \in Idle /\ open' = open /\ queryStates' = queryStates /\ stack' = stack
      /\ Enter(call)
  BY DEF ExecutorCall
<1>2. call.kind = "run" /\ call.query = q /\ call.id = queryStates[q].id
  BY DEF Call
<1> HIDE DEF call
<1>3. N \in Nat
  BY ExecutingFinite DEF MInv, HInv
<1>4. Executes(call) <=> queryStates[q].id # 0
  BY <1>2 DEF Executes
<1>5. /\ Idle = {q}
      /\ Len(stack) = Fitting(IF Executes(call) THEN N + 1 ELSE N)
      /\ Executes(call) =>
           /\ queryStates[q].index = Index(N + 1)
           /\ N + 1 <= MaxActiveSpans => stack[N + 1].span = call.id
  BY <1>1, <1>2, <1>4, OneWaited DEF MInv
<1>6. Idle' = {}
  BY <1>1, <1>2, <1>5, IdleEnter DEF MInv
<1>7. Cardinality(Executing)' = IF Executes(call) THEN N + 1 ELSE N
  BY <1>0, <1>1, EnterDepths DEF MInv, HInv
<1>8. OneIdle' /\ StateIndexes' /\ StackHeight' /\ WaitingFrames'
  BY <1>1, <1>5, <1>6, <1>7, NothingWaits DEF MInv, Mirror, StateIndexes
<1>9. CallIndexes' /\ CallFrames'
  BY <1>1, <1>2, <1>5, FramesEntered DEF MInv
<1> QED  BY <1>8, <1>9 DEF Mirror

\* The innermost call, when it runs an executor.
LEMMA TopRuns ==
    ASSUME MInv, calls # <<>>, Top.kind = "run"
    PROVE  /\ Top.query \in QueryDescs
           /\ Executes(Top) <=> queryStates[Top.query].id # 0
           /\ Top.id = queryStates[Top.query].id
           /\ queryStates[Top.query].index =
                IF Executes(Top) THEN Index(Cardinality(Executing)) ELSE -1
           /\ Executes(Top) /\ Cardinality(Executing) <= MaxActiveSpans =>
                stack[Cardinality(Executing)].span = Top.id
<1>1. Top = calls[Len(calls)] /\ Len(calls) \in 1..Len(calls)
  BY TopType DEF Top, MInv, HInv
<1>2. Executes(Top) <=> Len(calls) \in Executing
  BY <1>1 DEF Executing, Executes
<1>3. Executes(Top) => Depth(Len(calls)) = Cardinality(Executing)
  <2>1. {j \in Executing : j <= Len(calls)} = Executing
    BY <1>1, CallsType DEF Executing, MInv, HInv
  <2> QED  BY <2>1 DEF Depth
<1>4. Top.query \in QueryDescs /\ Top.id = queryStates[Top.query].id
  BY <1>1 DEF MInv, HInv, Linked, RunsOpen, Mirror, CallIndexes
<1>5. Executes(Top) <=> queryStates[Top.query].id # 0
  BY <1>4 DEF Executes
<1>6. queryStates[Top.query].index =
        IF Executes(Top) THEN Index(Cardinality(Executing)) ELSE -1
  BY <1>1, <1>2, <1>3, <1>4, <1>5 DEF MInv, Mirror, CallIndexes, StateIndexes
<1>7. Executes(Top) /\ Cardinality(Executing) <= MaxActiveSpans =>
        stack[Cardinality(Executing)].span = Top.id
  BY <1>1, <1>2, <1>3 DEF MInv, Mirror, CallFrames
<1> QED  BY <1>4, <1>5, <1>6, <1>7

LEMMA ExecutorReturnMirror ==
    ASSUME MInv, OrderlyEnvironment, TypeOK', ExecutorReturn
    PROVE  Mirror'
<1> DEFINE N == Cardinality(Executing)
           q == Top.query
<1>1. /\ ~error /\ error' = error /\ Orderly /\ calls # <<>> /\ Top.kind = "run" /\ Leave
      /\ open' = open /\ queryStates' = queryStates /\ stack' = stack
  BY DEF ExecutorReturn
<1>2. /\ Idle = {} /\ Len(stack) = Fitting(N) /\ N \in Nat
      /\ \A r \in QueryDescs : queryStates[r].id = 0 => queryStates[r].index = -1
  BY <1>1, NobodyWaits
<1>3. /\ q \in QueryDescs /\ (Executes(Top) <=> queryStates[q].id # 0)
      /\ queryStates[q].index = IF Executes(Top) THEN Index(N) ELSE -1
      /\ Executes(Top) /\ N <= MaxActiveSpans => stack[N].span = queryStates[q].id
  BY <1>1, TopRuns
<1>4. Idle' = {q}
  BY <1>1, <1>2, IdleLeave DEF MInv
<1>5. /\ Cardinality(Executing)' = IF Executes(Top) THEN N - 1 ELSE N
      /\ Executes(Top) => N \in Nat \ {0}
  BY <1>1, <1>2, LeaveDepths, ExecutingFinite DEF MInv, HInv
<1> HIDE DEF q
<1>6. PICK n \in Nat : n = Cardinality(Executing)' /\ (Executes(Top) => n + 1 = N)
                        /\ (~Executes(Top) => n = N)
  BY <1>2, <1>5
<1>7. OneIdle' /\ StateIndexes' /\ StackHeight' /\ WaitingFrames'
  BY <1>1, <1>2, <1>3, <1>4, <1>6, OneWaits
<1>8. CallIndexes' /\ CallFrames'
  BY <1>1, FramesKept DEF MInv
<1> QED  BY <1>7, <1>8 DEF Mirror

LEMMA EndMirror ==
    ASSUME MInv, TypeOK', ExecutorError \/ \E q \in QueryDescs : ExecutorEnd(q)
    PROVE  Mirror'
<1> DEFINE N == Cardinality(Executing)
<1>1. PICK q \in QueryDescs :
        /\ open[q] # NoQuery /\ DeleteTraceStates(q) /\ Close({q})
        /\ \/ /\ ExecutorError /\ calls # <<>> /\ Leave /\ error
              /\ Top.kind = "run" /\ q = Top.query
           \/ ExecutorEnd(q) /\ calls' = calls /\ q \in Idle /\ ~error
  BY Ended DEF MInv
<1>2. Idle' = {}
  <2>1. Idle' = Idle \ {q}
    BY <1>1, IdleClose DEF MInv
  <2>2. Idle \subseteq {q}
    BY <1>1 DEF MInv, Mirror, OneIdle
  <2> QED  BY <2>1, <2>2
<1>3. /\ \A r \in QueryDescs : queryStates'[r] = IF r = q THEN NoQueryState ELSE queryStates[r]
      /\ stack' = PoppedTo(queryStates[q].index)
  BY <1>1, Deleted DEF MInv, HInv, Linked, DeleteTraceStates
<1>4. \A r \in QueryDescs : queryStates'[r].id = 0 => queryStates'[r].index = -1
  BY <1>3 DEF NoQueryState, MInv, Mirror, StateIndexes
<1>5. N \in Nat /\ \A i \in Executing : Depth(i) \in 1..N
  BY ExecutingFinite DEF MInv, HInv
\* How many executing calls are left below the frame of q, if it has one.
<1>6. /\ Cardinality(Executing)' \in Nat
      /\ \A i \in Executing' : i \in Executing /\ Depth(i) \in 1..Cardinality(Executing)'
      /\ queryStates[q].id = 0 =>
           /\ Len(stack) = Fitting(Cardinality(Executing)')
           /\ queryStates[q].index = -1
      /\ queryStates[q].id # 0 =>
           /\ Len(stack) = Fitting(Cardinality(Executing)' + 1)
           /\ queryStates[q].index = Index(Cardinality(Executing)' + 1)
  <2>1. CASE ExecutorError /\ calls # <<>> /\ Leave /\ error /\ Top.kind = "run" /\ q = Top.query
    <3>1. Len(stack) = Fitting(N)
      BY <2>1, NothingWaited DEF MInv, Mirror, OneIdle
    <3>2. /\ Executes(Top) <=> queryStates[q].id # 0
          /\ queryStates[q].index = IF Executes(Top) THEN Index(N) ELSE -1
      BY <2>1, TopRuns
    <3>3. /\ Cardinality(Executing)' = IF Executes(Top) THEN N - 1 ELSE N
          /\ \A i \in Executing' : i \in Executing /\ (Executes(Top) => Depth(i) < N)
          /\ Executes(Top) => Len(calls) \in Executing
      BY <2>1, LeaveDepths DEF MInv, HInv
    <3>4. PICK n \in Nat : n = Cardinality(Executing)' /\ (Executes(Top) => n + 1 = N)
                            /\ (~Executes(Top) => n = N)
      BY <1>5, <3>3
    <3>5. \A i \in Executing' : i \in Executing /\ Depth(i) \in 1..n
      BY <1>5, <3>3, <3>4
    <3> QED  BY <3>1, <3>2, <3>4, <3>5
  <2>2. CASE calls' = calls /\ q \in Idle
    <3>1. Executing' = Executing /\ Cardinality(Executing)' = N
      BY <2>2, SameDepths
    <3>2. /\ queryStates[q].id = 0 => Len(stack) = Fitting(N) /\ queryStates[q].index = -1
          /\ queryStates[q].id # 0 => /\ Len(stack) = Fitting(N + 1)
                                      /\ queryStates[q].index = Index(N + 1)
      BY <2>2, OneWaited DEF MInv, Mirror, StateIndexes
    <3> QED  BY <1>5, <3>1, <3>2
  <2> QED  BY <1>1, <2>1, <2>2
<1>7. PICK n \in Nat : n = Cardinality(Executing)'
  BY <1>6
<1>8. /\ Len(stack') = Fitting(n)
      /\ \A k \in 1..n : k <= MaxActiveSpans => stack'[k] = stack[k]
  <2>1. CASE queryStates[q].id = 0
    <3>1. stack' = stack
      BY <1>3, <1>6, <2>1 DEF PoppedTo
    <3> QED  BY <1>6, <1>7, <2>1, <3>1
  <2>2. CASE queryStates[q].id # 0
    <3>1. PICK d \in Nat \ {0} : d = n + 1
      OBVIOUS
    <3>2. Len(stack) = Fitting(d) /\ queryStates[q].index = Index(d) /\ d - 1 = n
      BY <1>6, <1>7, <2>2, <3>1
    <3>3. /\ Len(PoppedTo(Index(d))) = Fitting(d - 1)
          /\ \A k \in 1..d - 1 : k <= MaxActiveSpans => PoppedTo(Index(d))[k] = stack[k]
      BY <3>2, PopFrame DEF MInv, HInv
    <3>4. stack' = PoppedTo(Index(d))
      BY <1>3, <3>2
    <3> QED  BY <3>2, <3>3, <3>4
  <2> QED  BY <2>1, <2>2
<1>9. OneIdle' /\ StateIndexes' /\ StackHeight' /\ WaitingFrames'
  BY <1>2, <1>4, <1>7, <1>8, NothingWaits
<1>10. CallIndexes' /\ CallFrames'
  <2>1. ASSUME NEW i \in 1..Len(calls'), calls[i].kind = "run"
        PROVE  queryStates'[calls[i].query] = queryStates[calls[i].query]
    <3>1. i \in 1..Len(calls) /\ calls[i].query \in QueryDescs
      BY <1>1, <2>1, KeptCalls DEF MInv, HInv, Linked, RunsOpen
    <3>2. calls[i].query # q
      <4>1. CASE calls' = calls /\ q \in Idle
        BY <3>1, <4>1 DEF Idle
      <4>2. CASE calls # <<>> /\ Leave /\ Top.kind = "run" /\ q = Top.query
        <5>1. Top = calls[Len(calls)] /\ Len(calls) \in 1..Len(calls) /\ i # Len(calls)
          BY <4>2, TopType, LeaveCalls DEF Top, MInv, HInv
        <5> QED  BY <2>1, <3>1, <4>2, <5>1 DEF MInv, HInv, Linked, RunsOpen
      <4> QED  BY <1>1, <4>1, <4>2
    <3> QED  BY <1>3, <3>1, <3>2
  <2>2. \A i \in Executing' : Depth(i) <= MaxActiveSpans => stack'[Depth(i)] = stack[Depth(i)]
    BY <1>6, <1>7, <1>8
  <2> QED  BY <1>1, <2>1, <2>2, FramesKept DEF MInv
<1> QED  BY <1>9, <1>10 DEF Mirror

\* The end of a transaction starts anew.
LEMMA XactEndMirror ==
    ASSUME MInv, OrderlyEnvironment, TypeOK', Commit \/ Abort
    PROVE  Mirror'
<1>1. /\ calls = <<>> /\ calls' = calls /\ stack' = <<>>
      /\ queryStates' = [q \in QueryDescs |-> NoQueryState]
      /\ \A q \in QueryDescs : open'[q] = NoQuery
  BY DEF Commit, Abort, XactEndCallback, OrderlyEnvironment
<1>2. Idle' = {} /\ Len(calls') = 0 /\ Len(stack') = 0
  BY <1>1, EmptySeq DEF Idle
<1>3. Executing' = {} /\ Cardinality(Executing)' = 0
  BY <1>2, FS_EmptySet DEF Executing
<1>4. Len(stack') = Fitting(0)
  BY <1>2, MaxType DEF Fitting
<1>5. OneIdle' /\ StateIndexes' /\ StackHeight' /\ WaitingFrames'
  BY <1>1, <1>2, <1>3, <1>4, NothingWaits DEF NoQueryState
<1>6. CallIndexes' /\ CallFrames'
  BY <1>2, <1>3 DEF CallIndexes, CallFrames
<1> QED  BY <1>5, <1>6 DEF Mirror

\* Errors, and the steps that change nothing the stack depends on.
LEMMA ErrorMirror ==
    ASSUME MInv, OrderlyEnvironment, TypeOK',
           RaiseError \/ \E freed \in SUBSET Idle : CatchError(freed)
    PROVE  Mirror'
<1>1. /\ (Orderly \/ error) /\ calls' = calls /\ stack' = stack /\ queryStates' = queryStates
      /\ Idle = {} => \A q \in QueryDescs : open'[q] = NoQuery <=> open[q] = NoQuery
  <2>1. CASE RaiseError
    BY <2>1 DEF RaiseError, MayStart
  <2>2. ASSUME NEW freed \in SUBSET Idle, CatchError(freed)
        PROVE  /\ (Orderly \/ error) /\ calls' = calls /\ stack' = stack
               /\ queryStates' = queryStates
               /\ Idle = {} => \A q \in QueryDescs : open'[q] = NoQuery <=> open[q] = NoQuery
    <3>1. Close(freed) /\ error /\ calls' = calls /\ stack' = stack /\ queryStates' = queryStates
      BY <2>2 DEF CatchError
    <3>2. Idle = {} => \A q \in QueryDescs : open'[q] = open[q]
      BY <3>1 DEF Close
    <3> QED  BY <3>1, <3>2
  <2> QED  BY <2>1, <2>2
<1>2. /\ Idle = {} /\ Len(stack) = Fitting(Cardinality(Executing))
      /\ \A q \in QueryDescs : queryStates[q].id = 0 => queryStates[q].index = -1
  BY <1>1, NobodyWaits
<1>3. Idle' = {} /\ Cardinality(Executing)' = Cardinality(Executing)
  BY <1>1, <1>2, SameDepths DEF Idle
<1>4. OneIdle' /\ StateIndexes' /\ StackHeight' /\ WaitingFrames'
  BY <1>1, <1>2, <1>3, NothingWaits
<1>5. CallIndexes' /\ CallFrames'
  BY <1>1, FramesKept DEF MInv
<1> QED  BY <1>4, <1>5 DEF Mirror

LEMMA IdleSteps ==
    ASSUME MInv, calls' = calls, open' = open, queryStates' = queryStates, stack' = stack,
           error' = error
    PROVE  Mirror'
<1>1. Executing' = Executing /\ \A i : Depth(i)' = Depth(i)
  BY SameDepths
<1>2. Idle' = Idle
  BY DEF Idle
<1>3. Waiting' = Waiting /\ Started' = Started
  BY <1>1, <1>2 DEF Waiting, Started
<1>4. OneIdle' /\ StateIndexes' /\ StackHeight' /\ WaitingFrames'
  BY <1>2, <1>3 DEF MInv, Mirror, OneIdle, StateIndexes, StackHeight, WaitingFrames,
                    Index, Fitting
<1>5. CallIndexes' /\ CallFrames'
  BY <1>1, FramesKept DEF MInv
<1> QED  BY <1>4, <1>5 DEF Mirror

LEMMA StepMirror ==
    ASSUME MInv, OrderlyEnvironment, [Next]_vars
    PROVE  Mirror'
<1>1. TypeOK'
  BY StepTypeOK DEF MInv
<1>2. CASE \/ \E p \in PlannedStmts : FreePlan(p)
           \/ \E m \in Modes : SetMode(m)
           \/ UNCHANGED vars
  BY <1>2, IdleSteps DEF FreePlan, SetMode, vars
<1>3. CASE Next
  BY <1>1, <1>2, <1>3, CallMirror, PlanMirror, UtilityReturnMirror, ExecutorStartMirror,
     ExecutorStartErrorMirror, ExecutorCallMirror, ExecutorReturnMirror, EndMirror,
     XactEndMirror, ErrorMirror DEF Next
<1> QED  BY <1>2, <1>3

LEMMA InitMirror ==
    ASSUME Init
    PROVE  Mirror
<1>1. calls = <<>> /\ stack = <<>> /\ queryStates = [q \in QueryDescs |-> NoQueryState]
        /\ open = [q \in QueryDescs |-> NoQuery] /\ error = FALSE
  BY DEF Init
<1>2. Idle = {} /\ Waiting = {} /\ Executing = {} /\ Started = 0
  BY <1>1, FS_EmptySet, EmptySeq DEF Idle, Waiting, Executing, Started
<1> QED  BY <1>1, <1>2, EmptySeq, MaxType
            DEF Mirror, OneIdle, StateIndexes, CallIndexes, StackHeight, CallFrames,
                WaitingFrames, Fitting, NoQueryState

LEMMA AlwaysMInv ==
    ASSUME OrderlyEnvironment
    PROVE  Spec => []MInv
<1>1. Init => MInv
  BY InitHInv, InitMirror DEF MInv
<1>2. MInv /\ [Next]_vars => MInv'
  BY StepHInv, StepMirror DEF MInv
<1> QED  BY <1>1, <1>2, PTL DEF Spec

\* activeSpanStack mirrors the traced statements in progress, in the order they were
\* started and as many as fit: every push has its pop on every way out of a hook.
THEOREM StackMirrors ==
    ASSUME {"suspend", "commit"} \cap Environment = {}
    PROVE  Spec => []StackMirrorsCalls
<1>1. MInv => StackMirrorsCalls
  <2> SUFFICES ASSUME MInv
               PROVE  StackMirrorsCalls
    OBVIOUS
  <2>1. Cardinality(Waiting) = IF Waiting = {} THEN 0 ELSE 1
    <3>1. CASE Waiting = {}
      BY <3>1, FS_EmptySet
    <3>2. CASE Waiting # {}
      <4>1. PICK q \in Waiting : TRUE
        BY <3>2
      <4>2. Waiting = {q}
        BY <4>1 DEF Waiting, MInv, Mirror, OneIdle
      <4> QED  BY <3>2, <4>2, FS_Singleton
    <3> QED  BY <3>1, <3>2
  <2>2. Started = Cardinality(Executing) + Cardinality(Waiting)
    BY <2>1 DEF Started
  <2> QED  BY <2>2 DEF MInv, Mirror, StackHeight, CallFrames, WaitingFrames,
                       StackMirrorsCalls, Waiting
<1>2. OrderlyEnvironment
  BY DEF OrderlyEnvironment
<1> QED  BY <1>1, <1>2, AlwaysMInv, PTL

-----------------------------------------------------------------------------
\* What a statement without a traceparent inherits is what caused it.
LEMMA CauseIsTop ==
    ASSUME MInv, OrderlyEnvironment, Orderly \/ error
    PROVE  /\ stack = <<>> <=> Cause = 0
           /\ stack # <<>> => Cause = stack[Len(stack)].span
           /\ Executing = {} => stack = <<>>
<1>1. Len(stack) = Fitting(Cardinality(Executing)) /\ stack \in Seq(FrameType)
  BY NobodyWaits, Types DEF MInv, HInv
<1>2. CASE Fitting(Cardinality(Executing)) = 0
  <2>1. stack = <<>> /\ Cause = 0
    BY <1>1, <1>2, EmptySeq, CauseIsExecuting DEF MInv, HInv
  <2> QED  BY <2>1
<1>3. CASE Fitting(Cardinality(Executing)) # 0
  <2>1. PICK i \in Executing : Depth(i) = Fitting(Cardinality(Executing)) /\ Cause = calls[i].id
    BY <1>3, CauseIsExecuting DEF MInv, HInv
  <2>2. calls[i].id # 0 /\ Executing # {}
    BY <2>1 DEF Executing
  <2>3. Depth(i) = Len(stack) /\ Depth(i) <= MaxActiveSpans
    BY <1>1, <2>1, Types DEF MInv, HInv
  <2>4. stack[Len(stack)].span = calls[i].id
    BY <2>1, <2>3 DEF MInv, Mirror, CallFrames
  <2>5. stack # <<>>
    BY <1>1, <1>3, EmptySeq
  <2> QED  BY <2>1, <2>2, <2>4, <2>5
<1> QED  BY <1>2, <1>3

\* Only executorStartHook opens a query.
LEMMA OpenedBy ==
    ASSUME TypeOK, [Next]_vars, NEW q \in QueryDescs, open[q] = NoQuery, open'[q] # NoQuery
    PROVE  \E p \in PlannedStmts : ExecutorStart(q, p)
<1>1. \A queries : Close(queries) => open'[q] = NoQuery
  BY DEF Close
<1>2. open' # open
  OBVIOUS
<1>3. ASSUME NEW r \in QueryDescs, NEW p \in PlannedStmts, ExecutorStart(r, p), r # q
      PROVE  FALSE
  BY <1>3, Types DEF ExecutorStart
<1> QED  BY <1>1, <1>2, <1>3
         DEF Next, vars, PlannerCall, UtilityCall, PlannerReturn, PlannerError,
             ExecutorStartError, ExecutorCall, ExecutorEnd, ExecutorReturn, ExecutorError,
             UtilityReturn, Commit, Abort, RaiseError, CatchError, FreePlan, SetMode

LEMMA StepEligibleIsTraced ==
    ASSUME MInv, OrderlyEnvironment, [Next]_vars, NEW q \in QueryDescs,
           open[q] = NoQuery, open'[q] # NoQuery,
           LET text == plans[open'[q].plan].text IN
           \/ mode = "all" /\ IF text.trace = 0 THEN Cause # 0 ELSE text.sampled
           \/ mode = "top-level" /\ text.trace # 0 /\ text.sampled /\ Executing = {}
    PROVE  queryStates'[q].id # 0
<1>1. PICK p \in PlannedStmts : ExecutorStart(q, p)
  BY OpenedBy DEF MInv, HInv
<1>2. /\ Orderly /\ queryStates' = [queryStates EXCEPT ![q] = StartState(p)]
      /\ open' = [open EXCEPT ![q] = [plan |-> p, cause |-> Cause]]
  BY <1>1 DEF ExecutorStart, MayExecute, MayStart
<1>3. queryStates'[q] = StartState(p) /\ open'[q].plan = p
  BY <1>2, Types DEF MInv, HInv
<1> DEFINE text == plans[p].text
<1>4. text \in TextType
  BY Types DEF PlanType, MInv, HInv
<1>5. \/ mode = "all" /\ IF text.trace = 0 THEN Cause # 0 ELSE text.sampled
      \/ mode = "top-level" /\ text.trace # 0 /\ text.sampled /\ Executing = {}
  BY <1>3
<1> HIDE DEF text
<1>6. /\ stack = <<>> <=> Cause = 0
      /\ stack # <<>> => Cause = stack[Len(stack)].span
      /\ Executing = {} => stack = <<>>
  BY <1>2, CauseIsTop
<1>7. FindTraceContext(text) # NoContext
  <2>1. CASE text.trace = 0
    BY <1>5, <1>6, <2>1 DEF FindTraceContext, NoContext
  <2>2. CASE text.trace # 0
    BY <1>5, <1>6, <2>2 DEF FindTraceContext, NoContext
  <2> QED  BY <2>1, <2>2
<1>8. StartState(p).id # 0
  BY <1>7, NewIdType DEF StartState, Adopts, text, MInv, HInv
<1> QED  BY <1>3, <1>8

\* executorStartHook traces every statement span_generation asks for, however deep it
\* is nested and whatever the statements before it did.
THEOREM EligibleTraced ==
    ASSUME {"suspend", "commit"} \cap Environment = {}
    PROVE  Spec => EligibleIsTraced
<1> DEFINE Traced ==
        \A q \in QueryDescs :
           LET text == plans[open'[q].plan].text IN
           /\ open[q] = NoQuery /\ open'[q] # NoQuery
           /\ \/ mode = "all" /\ IF text.trace = 0 THEN Cause # 0 ELSE text.sampled
              \/ mode = "top-level" /\ text.trace # 0 /\ text.sampled /\ Executing = {}
           => queryStates'[q].id # 0
<1>1. OrderlyEnvironment
  BY DEF OrderlyEnvironment
<1>2. MInv /\ [Next]_vars => Traced
  BY <1>1, StepEligibleIsTraced
<1>3. EligibleIsTraced <=> [][Traced]_vars
  BY DEF EligibleIsTraced
<1> HIDE DEF Traced
<1> QED  BY <1>1, <1>2, <1>3, AlwaysMInv, PTL DEF Spec

-----------------------------------------------------------------------------
\* Contexts and the texts they belong to, when in addition no plan gets the address
\* of a freed one that still keys a planner state: a context is a statement's own
\* while a call holds it, while the planner state of its plan does, and while the
\* state of its execution does.
Own(text, context, cause) ==
    IF text.trace # 0
    THEN text.sampled /\ context = [trace |-> text.trace, parent |-> -text.trace]
    ELSE cause # 0 /\ context.parent = cause

CallsOwned ==
    \A i \in 1..Len(calls) : Holding(i) =>
        Own(calls[i].text, calls[i].context, calls[i].cause)
PlannersOwned ==
    \A p \in PlannedStmts : plannerStates[p].id # 0 /\ plans[p] # NoPlan =>
        /\ plans[p].kind = "one-shot"
        /\ Own(plans[p].text, plannerStates[p].context, plans[p].cause)
QueriesOwned ==
    \A q \in QueryDescs : open[q] # NoQuery /\ queryStates[q].id # 0 =>
        Own(plans[open[q].plan].text, queryStates[q].context, open[q].cause)
Owned == CallsOwned /\ PlannersOwned /\ QueriesOwned

LEMMA FoundOwn ==
    ASSUME MInv, OrderlyEnvironment, Orderly, NEW text \in TextType,
           FindTraceContext(text) # NoContext
    PROVE  Own(text, FindTraceContext(text), Cause)
BY CauseIsTop, FoundContext DEF Own, MInv, HInv

LEMMA OwnedKept ==
    ASSUME Owned,
           \A i \in 1..Len(calls') :
              \/ i \in 1..Len(calls) /\ calls'[i] = calls[i]
              \/ calls'[i].kind = "run" \/ calls'[i].id = 0
              \/ Own(calls'[i].text, calls'[i].context, calls'[i].cause),
           \A p \in PlannedStmts :
              \/ plannerStates'[p].id = 0 \/ plans'[p] = NoPlan
              \/ plannerStates'[p] = plannerStates[p] /\ plans'[p] = plans[p]
              \/ /\ plans'[p].kind = "one-shot"
                 /\ Own(plans'[p].text, plannerStates'[p].context, plans'[p].cause),
           \A q \in QueryDescs :
              \/ open'[q] = NoQuery \/ queryStates'[q].id = 0
              \/ /\ open'[q] = open[q] /\ queryStates'[q] = queryStates[q]
                 /\ plans'[open[q].plan] = plans[open[q].plan]
              \/ Own(plans'[open'[q].plan].text, queryStates'[q].context, open'[q].cause)
    PROVE  Owned'
<1>1. CallsOwned'
  BY DEF Owned, CallsOwned, Holding, Own
<1>2. PlannersOwned'
  BY DEF Owned, PlannersOwned, Own
<1>3. QueriesOwned'
  BY DEF Owned, QueriesOwned, Own
<1> QED  BY <1>1, <1>2, <1>3 DEF Owned

LEMMA CallOwned ==
    ASSUME MInv, Owned, OrderlyEnvironment, NEW text \in Texts,
           PlannerCall(text) \/ UtilityCall(text)
    PROVE  Owned'
<1>1. /\ open' = open /\ queryStates' = queryStates /\ plannerStates' = plannerStates
      /\ plans' = plans /\ Orderly
  BY DEF PlannerCall, UtilityCall, MayCall, MayStart
<1>2. PICK call : /\ Enter(call)
                  /\ call.id = 0 \/ Own(call.text, call.context, call.cause)
  <2>1. FindTraceContext(text) # NoContext => Own(text, FindTraceContext(text), Cause)
    BY <1>1, FoundOwn, SmallValues
  <2> QED  BY <2>1 DEF PlannerCall, UtilityCall, Call
<1>3. \A i \in 1..Len(calls') : \/ i \in 1..Len(calls) /\ calls'[i] = calls[i]
                                \/ calls'[i] = call
  BY <1>2, EnterCalls, CallsType DEF MInv, HInv
<1> QED  BY <1>1, <1>2, <1>3, OwnedKept

LEMMA PlannerReturnOwned ==
    ASSUME HInv, Owned, "recycle" \notin Environment, NEW returned \in PlannedStmts,
           NEW kept \in PlannedStmts, PlannerReturn(returned, kept)
    PROVE  Owned'
<1>1. /\ calls # <<>> /\ Leave /\ Top.kind = "plan"
      /\ open' = open /\ queryStates' = queryStates
      /\ plans[returned] = NoPlan /\ plannerStates[returned] = NoPlannerState
      /\ plans[kept] = NoPlan /\ plannerStates[kept] = NoPlannerState
  BY DEF PlannerReturn, Allocatable
<1>2. Top = calls[Len(calls)] /\ Len(calls) \in 1..Len(calls)
  BY <1>1, TopType DEF Top, HInv
<1>3. Top.id # 0 => Own(Top.text, Top.context, Top.cause)
  BY <1>1, <1>2 DEF Owned, CallsOwned, Holding
<1>4. ASSUME NEW p \in PlannedStmts
      PROVE  /\ plans'[p] = IF p # kept THEN plans[p]
                            ELSE IF returned = kept
                            THEN [text |-> Top.text, cause |-> Top.cause, kind |-> "one-shot"]
                            ELSE [text |-> Top.text, cause |-> 0, kind |-> "cached"]
             /\ plannerStates'[p] =
                  IF Top.id # 0 /\ p = returned
                  THEN [context |-> Top.context, id |-> Top.id, hasSpan |-> TRUE]
                  ELSE plannerStates[p]
  BY Types DEF PlannerReturn, HInv
<1>5. ASSUME NEW p \in PlannedStmts
      PROVE  \/ plannerStates'[p].id = 0 \/ plans'[p] = NoPlan
             \/ plannerStates'[p] = plannerStates[p] /\ plans'[p] = plans[p]
             \/ /\ plans'[p].kind = "one-shot"
                /\ Own(plans'[p].text, plannerStates'[p].context, plans'[p].cause)
  <2>1. CASE Top.id # 0 /\ p = returned /\ returned = kept
    BY <1>3, <1>4, <2>1
  <2>2. CASE p = returned /\ returned # kept
    BY <1>1, <1>4, <2>2
  <2>3. CASE p \in {returned, kept} /\ ~(Top.id # 0 /\ p = returned)
    BY <1>1, <1>4, <2>3 DEF NoPlannerState
  <2>4. CASE p \notin {returned, kept}
    BY <1>4, <2>4
  <2> QED  BY <2>1, <2>2, <2>3, <2>4
<1>6. \A q \in QueryDescs : open[q] # NoQuery => plans'[open[q].plan] = plans[open[q].plan]
  BY <1>1, <1>4 DEF HInv, Linked, OpenHasPlan
<1> QED  BY <1>1, <1>5, <1>6, KeptCalls, OwnedKept DEF HInv

\* The context executorStartHook finds, in the planner state or the text.
LEMMA StartOwn ==
    ASSUME MInv, Owned, OrderlyEnvironment, NEW q \in QueryDescs, NEW p \in PlannedStmts,
           MayExecute(q, p), StartState(p).id # 0
    PROVE  Own(plans[p].text, StartState(p).context, Cause)
<1>1. /\ Orderly /\ plans[p] # NoPlan
      /\ plans[p].kind = "one-shot" => plans[p].cause = Cause
  BY DEF MayExecute, MayStart
<1>2. CASE Adopts(p)
  <2>1. plannerStates[p].id # 0 /\ StartState(p).context = plannerStates[p].context
    BY <1>2 DEF Adopts, StartState
  <2> QED  BY <1>1, <2>1 DEF Owned, PlannersOwned
<1>3. CASE ~Adopts(p)
  <2>1. plans[p].text \in TextType
    BY Types DEF PlanType, MInv, HInv
  <2>2. FindTraceContext(plans[p].text) # NoContext =>
           Own(plans[p].text, FindTraceContext(plans[p].text), Cause)
    BY <1>1, <2>1, FoundOwn
  <2> QED  BY <1>3, <2>2 DEF StartState, NoQueryState
<1> QED  BY <1>2, <1>3

LEMMA ExecutorStartOwned ==
    ASSUME MInv, Owned, OrderlyEnvironment, NEW q \in QueryDescs, NEW p \in PlannedStmts,
           ExecutorStart(q, p)
    PROVE  Owned'
<1>1. /\ calls' = calls /\ plans' = plans
      /\ open' = [open EXCEPT ![q] = [plan |-> p, cause |-> Cause]]
      /\ queryStates' = [queryStates EXCEPT ![q] = StartState(p)]
      /\ \A o \in PlannedStmts : \/ plannerStates'[o] = plannerStates[o]
                                 \/ plannerStates'[o] = NoPlannerState
  BY Types DEF ExecutorStart, MInv, HInv
<1>2. StartState(p).id # 0 => Own(plans[p].text, StartState(p).context, Cause)
  BY StartOwn DEF ExecutorStart
<1>3. \A r \in QueryDescs :
         /\ open'[r] = IF r = q THEN [plan |-> p, cause |-> Cause] ELSE open[r]
         /\ queryStates'[r] = IF r = q THEN StartState(p) ELSE queryStates[r]
  BY <1>1, Types DEF MInv, HInv
<1>4. \A o \in PlannedStmts : \/ plannerStates'[o].id = 0
                              \/ plannerStates'[o] = plannerStates[o] /\ plans'[o] = plans[o]
  BY <1>1 DEF NoPlannerState
<1>5. ASSUME NEW r \in QueryDescs
      PROVE  \/ open'[r] = NoQuery \/ queryStates'[r].id = 0
             \/ /\ open'[r] = open[r] /\ queryStates'[r] = queryStates[r]
                /\ plans'[open[r].plan] = plans[open[r].plan]
             \/ Own(plans'[open'[r].plan].text, queryStates'[r].context, open'[r].cause)
  <2>1. CASE r = q
    BY <1>1, <1>2, <1>3, <2>1
  <2>2. CASE r # q
    BY <1>1, <1>3, <2>2
  <2> QED  BY <2>1, <2>2
<1> QED  BY <1>1, <1>4, <1>5, OwnedKept

LEMMA ExecutorStartErrorOwned ==
    ASSUME HInv, Owned, NEW q \in QueryDescs, NEW p \in PlannedStmts, ExecutorStartError(q, p)
    PROVE  Owned'
<1>1. /\ calls' = calls /\ open' = open
      /\ queryStates' = [queryStates EXCEPT ![q] = NoQueryState]
      /\ plannerStates' = [plannerStates EXCEPT ![p] = NoPlannerState]
      /\ plans' = IF plans[p].kind = "one-shot" THEN [plans EXCEPT ![p] = NoPlan] ELSE plans
      /\ plans[p].kind = "one-shot" => \A other \in QueryDescs : open[other].plan # p
  BY DEF ExecutorStartError, MayExecute
<1>2. \A o \in PlannedStmts : \/ plannerStates'[o].id = 0
                              \/ plannerStates'[o] = plannerStates[o] /\ plans'[o] = plans[o]
  BY <1>1, Types DEF NoPlannerState, HInv
<1>3. ASSUME NEW r \in QueryDescs
      PROVE  \/ open'[r] = NoQuery \/ queryStates'[r].id = 0
             \/ /\ open'[r] = open[r] /\ queryStates'[r] = queryStates[r]
                /\ plans'[open[r].plan] = plans[open[r].plan]
  <2>1. \/ queryStates'[r].id = 0
        \/ queryStates'[r] = queryStates[r]
    BY <1>1, Types DEF NoQueryState, HInv
  <2>2. plans'[open[r].plan] = plans[open[r].plan] \/ open[r] = NoQuery
    BY <1>1, Types DEF HInv, Linked, OpenHasPlan
  <2> QED  BY <1>1, <2>1, <2>2
<1> QED  BY <1>1, <1>2, <1>3, OwnedKept

LEMMA EndOwned ==
    ASSUME HInv, Owned, ExecutorError \/ \E q \in QueryDescs : ExecutorEnd(q)
    PROVE  Owned'
<1>1. PICK q \in QueryDescs :
        /\ open[q] # NoQuery /\ DeleteTraceStates(q) /\ Close({q})
        /\ calls' = calls \/ (calls # <<>> /\ Leave)
  BY Ended
<1>2. /\ \A r \in QueryDescs :
            queryStates'[r] = IF r = q THEN NoQueryState ELSE queryStates[r]
      /\ \A p \in PlannedStmts : \/ plannerStates'[p] = NoPlannerState
                                 \/ plannerStates'[p] = plannerStates[p]
  BY <1>1, Deleted DEF HInv, Linked
<1>3. \A p \in PlannedStmts : plans'[p] = NoPlan \/ plans'[p] = plans[p]
  BY <1>1 DEF Close
<1>4. \A r \in QueryDescs : open'[r] # NoQuery =>
         open'[r] = open[r] /\ plans'[open[r].plan] = plans[open[r].plan]
  BY <1>1, CloseLinks DEF HInv, Linked
<1>5. \A r \in QueryDescs :
         \/ open'[r] = NoQuery \/ queryStates'[r].id = 0
         \/ /\ open'[r] = open[r] /\ queryStates'[r] = queryStates[r]
            /\ plans'[open[r].plan] = plans[open[r].plan]
  BY <1>2, <1>4 DEF NoQueryState
<1> QED  BY <1>1, <1>2, <1>3, <1>5, KeptCalls, OwnedKept DEF NoPlannerState, HInv

LEMMA StepOwned ==
    ASSUME MInv, Owned, OrderlyEnvironment, "recycle" \notin Environment, [Next]_vars
    PROVE  Owned'
<1> USE DEF MInv, HInv, Linked
<1>1. CASE PlannerError \/ ExecutorReturn \/ UtilityReturn
  <2>1. /\ calls # <<>> /\ Leave /\ open' = open /\ queryStates' = queryStates
        /\ plannerStates' = plannerStates /\ plans' = plans
    BY <1>1 DEF PlannerError, ExecutorReturn, UtilityReturn
  <2> QED  BY <2>1, KeptCalls, OwnedKept
<1>2. ASSUME NEW q \in QueryDescs, ExecutorCall(q)
      PROVE  Owned'
  <2>1. PICK call : Enter(call) /\ call.kind = "run"
    BY <1>2 DEF ExecutorCall, Call
  <2>2. /\ open' = open /\ queryStates' = queryStates /\ plannerStates' = plannerStates
        /\ plans' = plans
    BY <1>2 DEF ExecutorCall
  <2>3. \A i \in 1..Len(calls') : \/ i \in 1..Len(calls) /\ calls'[i] = calls[i]
                                  \/ calls'[i] = call
    BY <2>1, EnterCalls, CallsType
  <2> QED  BY <2>1, <2>2, <2>3, OwnedKept
<1>3. CASE Commit \/ Abort
  <2>1. /\ \A q \in QueryDescs : queryStates'[q].id = 0
        /\ \A p \in PlannedStmts : plannerStates'[p].id = 0
        /\ calls' = calls
    BY <1>3 DEF Commit, Abort, XactEndCallback, NoQueryState, NoPlannerState
  <2> QED  BY <2>1, OwnedKept
<1>4. ASSUME NEW freed \in SUBSET Idle, CatchError(freed)
      PROVE  Owned'
  <2>1. /\ Close(freed) /\ freed \in SUBSET QueryDescs /\ calls' = calls
        /\ queryStates' = queryStates /\ plannerStates' = plannerStates
    BY <1>4 DEF CatchError, Idle
  <2>2. \A p \in PlannedStmts : plans'[p] = NoPlan \/ plans'[p] = plans[p]
    BY <2>1 DEF Close
  <2>3. \A r \in QueryDescs : open'[r] # NoQuery =>
           open'[r] = open[r] /\ plans'[open[r].plan] = plans[open[r].plan]
    BY <2>1, CloseLinks
  <2> QED  BY <2>1, <2>2, <2>3, OwnedKept
<1>5. ASSUME NEW p \in PlannedStmts, FreePlan(p)
      PROVE  Owned'
  <2>1. /\ calls' = calls /\ open' = open /\ queryStates' = queryStates
        /\ plannerStates' = plannerStates /\ plans' = [plans EXCEPT ![p] = NoPlan]
        /\ \A q \in QueryDescs : open[q].plan # p
    BY <1>5 DEF FreePlan
  <2>2. \A o \in PlannedStmts : plans'[o] = NoPlan \/ plans'[o] = plans[o]
    BY <2>1, Types
  <2>3. \A q \in QueryDescs : open[q] # NoQuery => plans'[open[q].plan] = plans[open[q].plan]
    BY <2>1, Types DEF OpenHasPlan
  <2> QED  BY <2>1, <2>2, <2>3, OwnedKept
<1>6. CASE RaiseError \/ (\E m \in Modes : SetMode(m)) \/ UNCHANGED vars
  <2>1. /\ calls' = calls /\ open' = open /\ queryStates' = queryStates
        /\ plannerStates' = plannerStates /\ plans' = plans
    BY <1>6 DEF RaiseError, SetMode, vars
  <2> QED  BY <2>1, OwnedKept
<1> QED  BY <1>1, <1>2, <1>3, <1>4, <1>5, <1>6, CallOwned, PlannerReturnOwned,
            ExecutorStartOwned, ExecutorStartErrorOwned, EndOwned DEF Next

LEMMA ReportsOwn ==
    ASSUME NEW id, NEW context, NEW text, NEW cause,
           MayReport(id, context, text, cause), id # 0 => Own(text, context, cause)
    PROVE  ContextIsOwn'
<1>1. CASE id = 0
  BY <1>1, EmptySeq DEF MayReport, Silent, ContextIsOwn, Statements
<1>2. CASE id # 0
  BY <1>2 DEF MayReport, Reports, Own, ContextIsOwn
<1> QED  BY <1>1, <1>2

LEMMA StepContextIsOwn ==
    ASSUME MInv, PlannerLinks, Owned, ContextIsOwn, OrderlyEnvironment, [Next]_vars
    PROVE  ContextIsOwn'
<1> USE DEF MInv, HInv
<1>1. CASE UNCHANGED vars
  BY <1>1 DEF vars, ContextIsOwn, Statements
<1>2. CASE PlannerError \/ UtilityReturn
  <2>1. Top.id # 0 => Own(Top.text, Top.context, Top.cause)
    BY <1>2, TopType DEF PlannerError, UtilityReturn, Top, Owned, CallsOwned, Holding
  <2> QED  BY <1>2, <2>1, CallReports, ReportsOwn
<1>3. CASE ExecutorError \/ \E q \in QueryDescs : ExecutorEnd(q)
  <2>1. PICK q \in QueryDescs : open[q] # NoQuery /\ (EmitQuery(q, FALSE) \/ EmitQuery(q, TRUE))
    BY <1>3, Ended
  <2>2. queryStates[q].id # 0 =>
           Own(plans[open[q].plan].text, queryStates[q].context, open[q].cause)
    BY <2>1 DEF Owned, QueriesOwned
  <2> QED  BY <2>1, <2>2, EndReports, ReportsOwn
<1>4. ASSUME NEW q \in QueryDescs, NEW p \in PlannedStmts, ExecutorStartError(q, p)
      PROVE  ContextIsOwn'
  <2>1. StartState(p).id # 0 => Own(plans[p].text, StartState(p).context, Cause)
    BY <1>4, StartOwn DEF ExecutorStartError
  <2> QED  BY <1>4, <2>1, StartErrorReports, ReportsOwn
<1>5. ASSUME Silent
      PROVE  ContextIsOwn'
  BY <1>5, EmptySeq DEF Silent, ContextIsOwn, Statements
<1> QED  BY <1>1, <1>2, <1>3, <1>4, <1>5, QuietSteps DEF Next

\* findTraceContextForStatement and the planner state give every statement its own
\* context: that of its traceparent, or of the statement that caused it and of no other.
THEOREM ContextsAreOwn ==
    ASSUME {"suspend", "recycle", "commit"} \cap Environment = {}
    PROVE  Spec => []ContextIsOwn
<1>1. OrderlyEnvironment /\ "recycle" \notin Environment
  BY DEF OrderlyEnvironment
<1>2. Init => Owned /\ ContextIsOwn
  <2> SUFFICES ASSUME Init
               PROVE  Owned /\ ContextIsOwn
    OBVIOUS
  <2>1. calls = <<>> /\ emitted = <<>>
    BY DEF Init
  <2>2. /\ \A p \in PlannedStmts : plannerStates[p].id = 0
        /\ \A q \in QueryDescs : queryStates[q].id = 0
    BY DEF Init, NoPlannerState, NoQueryState
  <2> QED  BY <2>1, <2>2, EmptySeq DEF Owned, CallsOwned, PlannersOwned, QueriesOwned,
                                       ContextIsOwn, Statements
<1>3. MInv /\ Owned /\ [Next]_vars => Owned'
  BY <1>1, StepOwned
<1>4. MInv /\ PInv /\ Owned /\ ContextIsOwn /\ [Next]_vars => ContextIsOwn'
  BY <1>1, StepContextIsOwn DEF PInv
<1> QED  BY <1>1, <1>2, <1>3, <1>4, AlwaysMInv, AlwaysPInv, PTL DEF Spec

-----------------------------------------------------------------------------
\* Parents.  Known are the statements whose span is in the export or will be: those
\* that are reported or in progress.  Contexts are all the contexts that are held.
InProgress ==
    ({calls[i].id : i \in {j \in 1..Len(calls) : calls[j].kind = "utility"}}
       \cup {queryStates[q].id : q \in {r \in QueryDescs : open[r] # NoQuery}}) \ {0}
Known == reported \cup InProgress

Contexts ==
    {calls[i].context : i \in {j \in 1..Len(calls) : Holding(j)}}
      \cup {plannerStates[p].context : p \in {o \in PlannedStmts : plannerStates[o].id # 0}}
      \cup {queryStates[q].context : q \in {r \in QueryDescs : queryStates[r].id # 0}}

NoneLost ==
    /\ parents \subseteq Known
    /\ \A context \in Contexts : context.parent < 0 \/ context.parent \in Known

\* A context a step may add.
Found(context) ==
    Orderly /\ \E text \in TextType : context = FindTraceContext(text) /\ context # NoContext

\* Every frame is that of a statement in progress, which remembers its index.
HeldByCall(k) ==
    \E i \in 1..Len(calls) :
        calls[i].kind = "utility" /\ calls[i].id = stack[k].span /\ calls[i].index = k - 1
HeldByQuery(k) ==
    \E q \in QueryDescs :
        /\ open[q] # NoQuery
        /\ queryStates[q].id = stack[k].span /\ queryStates[q].index = k - 1
FramesHeld ==
    \A k \in 1..Len(stack) : stack[k].span # 0 /\ (HeldByCall(k) \/ HeldByQuery(k))

LInv == HInv /\ OneIdle /\ FramesHeld

LEMMA FoundKnown ==
    ASSUME LInv, NEW context, Found(context)
    PROVE  context.parent < 0 \/ context.parent \in Known
<1>1. PICK text \in TextType : context = FindTraceContext(text) /\ context # NoContext
  BY DEF Found
<1>2. CASE text.trace # 0
  BY <1>1, <1>2, FoundContext DEF LInv, HInv, TextType
<1>3. CASE text.trace = 0
  <2>1. Len(stack) \in 1..Len(stack) /\ context.parent = stack[Len(stack)].span
    BY <1>1, <1>3, FoundContext DEF LInv, HInv
  <2> QED  BY <2>1 DEF LInv, FramesHeld, HeldByCall, HeldByQuery, InProgress, Known
<1> QED  BY <1>2, <1>3

\* An executor at most waits, and none while an error is propagated.
LEMMA StepOneIdle ==
    ASSUME HInv, OneIdle, "suspend" \notin Environment, [Next]_vars
    PROVE  OneIdle'
<1> USE DEF HInv
<1>0. Orderly \/ error => Idle = {}
  BY DEF Orderly, OneIdle
<1>1. ASSUME Idle' \subseteq Idle, error' = error \/ Idle = {}
      PROVE  OneIdle'
  BY <1>1 DEF OneIdle
<1>2. ASSUME open' = open, calls' = calls, error' = error \/ Idle = {}
      PROVE  OneIdle'
  BY <1>1, <1>2 DEF Idle
<1>3. ASSUME NEW text \in Texts, PlannerCall(text) \/ UtilityCall(text)
      PROVE  OneIdle'
  <2>1. open' = open /\ error' = error /\ \E call : Enter(call)
    BY <1>3 DEF PlannerCall, UtilityCall
  <2> QED  BY <1>1, <2>1, IdleEnter
<1>4. ASSUME NEW q \in QueryDescs, ExecutorCall(q)
      PROVE  OneIdle'
  <2>1. open' = open /\ error' = error /\ \E call : Enter(call)
    BY <1>4 DEF ExecutorCall
  <2> QED  BY <1>1, <2>1, IdleEnter
<1>5. CASE \/ PlannerError \/ UtilityReturn
           \/ \E returned, kept \in PlannedStmts : PlannerReturn(returned, kept)
  <2>1. open' = open /\ error' = error /\ calls # <<>> /\ Leave /\ Top.kind # "run"
    BY <1>5 DEF PlannerError, UtilityReturn, PlannerReturn
  <2> QED  BY <1>1, <2>1, IdleLeave
<1>6. CASE ExecutorReturn
  <2>1. /\ open' = open /\ error' = error /\ ~error /\ calls # <<>> /\ Leave
        /\ Top.kind = "run" /\ Idle = {}
    BY <1>0, <1>6 DEF ExecutorReturn
  <2>2. Idle' = {Top.query}
    BY <2>1, IdleLeave
  <2> QED  BY <2>1, <2>2 DEF OneIdle
<1>7. ASSUME NEW q \in QueryDescs, NEW p \in PlannedStmts, ExecutorStart(q, p)
      PROVE  OneIdle'
  <2>1. /\ Idle = {} /\ ~error /\ error' = error /\ open[q] = NoQuery /\ calls' = calls
        /\ open' = [open EXCEPT ![q] = [plan |-> p, cause |-> Cause]]
    BY <1>0, <1>7 DEF ExecutorStart, MayExecute, MayStart
  <2>2. [plan |-> p, cause |-> Cause] # NoQuery
    BY AddressAssumption DEF NoQuery
  <2>3. Idle' = {q}
    BY <2>1, <2>2, IdleStart
  <2> QED  BY <2>1, <2>3 DEF OneIdle
<1>8. CASE ExecutorError \/ \E q \in QueryDescs : ExecutorEnd(q)
  <2>1. PICK q \in QueryDescs :
          /\ Close({q}) /\ error' = error
          /\ \/ calls' = calls
             \/ calls # <<>> /\ Leave /\ Top.kind = "run" /\ Top.query = q
    BY <1>8, Ended
  <2> QED  BY <1>1, <2>1, IdleClose
<1>9. CASE Commit \/ Abort
  <2>1. Idle' = {}
    BY <1>9 DEF Commit, Abort, Idle
  <2> QED  BY <2>1 DEF OneIdle
<1>10. ASSUME NEW freed \in SUBSET Idle, CatchError(freed)
       PROVE  OneIdle'
  <2>1. calls' = calls /\ Close(freed) /\ Idle = {}
    BY <1>0, <1>10 DEF CatchError
  <2>2. \A r \in QueryDescs : open'[r] # NoQuery => open[r] # NoQuery
    BY <2>1 DEF Close
  <2> QED  BY <1>1, <2>1, <2>2 DEF Idle
<1>11. CASE \/ RaiseError
            \/ \E q \in QueryDescs, p \in PlannedStmts : ExecutorStartError(q, p)
            \/ \E p \in PlannedStmts : FreePlan(p)
            \/ \E m \in Modes : SetMode(m)
            \/ UNCHANGED vars
  <2>1. open' = open /\ calls' = calls /\ (error' = error \/ Idle = {})
    BY <1>0, <1>11 DEF RaiseError, ExecutorStartError, MayExecute, MayStart, FreePlan,
                       SetMode, vars
  <2> QED  BY <1>2, <2>1
<1> QED  BY <1>3, <1>4, <1>5, <1>6, <1>7, <1>8, <1>9, <1>10, <1>11 DEF Next

\* A statement that ends takes its frame along: the frames below have other indexes.
\* The frames that a pop leaves are those below its index.
LEMMA PoppedBelowIndex ==
    ASSUME TypeOK, NEW index \in Int, stack' = PoppedTo(index)
    PROVE  \A k \in 1..Len(stack') :
              k \in 1..Len(stack) /\ stack'[k] = stack[k] /\ index # k - 1
<1>1. /\ Len(stack) \in Nat
      /\ Len(stack') = IF index >= 0 /\ Len(stack) > index THEN index ELSE Len(stack)
  BY PoppedStack, Types
<1>2. SUFFICES ASSUME NEW k \in 1..Len(stack')
               PROVE  index # k - 1
  BY PoppedFrames
<1> QED  BY <1>1, <1>2

LEMMA StepFramesHeld ==
    ASSUME LInv, "suspend" \notin Environment, [Next]_vars
    PROVE  FramesHeld'
<1> USE DEF LInv, HInv
<1>1. ASSUME \A k \in 1..Len(stack') :
                /\ k \in 1..Len(stack) /\ stack'[k] = stack[k]
                /\ \A i \in 1..Len(calls) :
                      calls[i].kind = "utility" /\ calls[i].index = k - 1 =>
                         i \in 1..Len(calls') /\ calls'[i] = calls[i]
                /\ \A q \in QueryDescs :
                      open[q] # NoQuery /\ queryStates[q].index = k - 1 =>
                         open'[q] # NoQuery /\ queryStates'[q] = queryStates[q]
      PROVE  FramesHeld'
  <2> SUFFICES ASSUME NEW k \in 1..Len(stack')
               PROVE  stack'[k].span # 0 /\ (HeldByCall(k)' \/ HeldByQuery(k)')
    BY DEF FramesHeld
  <2>1. k \in 1..Len(stack) /\ stack'[k] = stack[k] /\ stack[k].span # 0
    BY <1>1 DEF FramesHeld
  <2>2. CASE HeldByCall(k)
    BY <1>1, <2>1, <2>2 DEF HeldByCall
  <2>3. CASE HeldByQuery(k)
    BY <1>1, <2>1, <2>3 DEF HeldByQuery
  <2> QED  BY <2>1, <2>2, <2>3 DEF FramesHeld
<1>2. ASSUME stack' = stack, open' = open, queryStates' = queryStates, calls' = calls
      PROVE  FramesHeld'
  BY <1>1, <1>2
<1>3. ASSUME stack' = stack, open' = open, queryStates' = queryStates,
             NEW call, Enter(call)
      PROVE  FramesHeld'
  BY <1>1, <1>3, EnterCalls, CallsType
<1>4. ASSUME stack' = stack, open' = open, queryStates' = queryStates,
             calls # <<>>, Leave, Top.kind # "utility"
      PROVE  FramesHeld'
  <2>1. /\ Top = calls[Len(calls)]
        /\ \A i \in 1..Len(calls) : i # Len(calls) => i \in 1..Len(calls') /\ calls'[i] = calls[i]
    BY <1>4, LeaveCalls DEF Top
  <2> QED  BY <1>1, <1>4, <2>1
<1>5. ASSUME NEW text \in Texts, UtilityCall(text), FindTraceContext(text) # NoContext
      PROVE  FramesHeld'
  <2> DEFINE context == FindTraceContext(text)
             call == Call("utility", "none", text, context, NewId, PushIndex, Cause)
  <2>1. /\ Enter(call) /\ stack' = Pushed(context, NewId)
        /\ open' = open /\ queryStates' = queryStates
    BY <1>5 DEF UtilityCall
  <2>2. /\ call.kind = "utility" /\ call.id = NewId /\ call.index = PushIndex
        /\ NewId \in Nat /\ NewId > 0 /\ context \in ContextType
    BY NewIdType, SmallValues, FoundContext DEF Call
  <2> HIDE DEF call, context
  <2>3. /\ calls'[Len(calls')] = call /\ Len(calls') \in 1..Len(calls')
        /\ \A i \in 1..Len(calls) : i \in 1..Len(calls') /\ calls'[i] = calls[i]
    BY <2>1, EnterCalls, CallsType
  <2>4. CASE Len(stack) < MaxActiveSpans
    <3>1. /\ PushIndex = Len(stack) /\ Len(stack') = Len(stack) + 1
          /\ stack'[Len(stack) + 1].span = NewId
          /\ \A k \in 1..Len(stack) : stack'[k] = stack[k]
      BY <2>1, <2>2, <2>4, PushedStack
    <3> SUFFICES ASSUME NEW k \in 1..Len(stack')
                 PROVE  stack'[k].span # 0 /\ (HeldByCall(k)' \/ HeldByQuery(k)')
      BY DEF FramesHeld
    <3>2. CASE k = Len(stack) + 1
      <4>1. stack'[k].span = NewId /\ NewId # 0 /\ PushIndex = k - 1
        BY <2>2, <3>1, <3>2, Types
      <4>2. PICK i \in 1..Len(calls') : calls'[i] = call
        BY <2>3
      <4>3. calls'[i].kind = "utility" /\ calls'[i].id = stack'[k].span /\ calls'[i].index = k - 1
        BY <2>2, <4>1, <4>2
      <4> QED  BY <4>1, <4>3 DEF HeldByCall
    <3>3. CASE k \in 1..Len(stack)
      <4>1. stack[k].span # 0 /\ (HeldByCall(k) \/ HeldByQuery(k)) /\ stack'[k] = stack[k]
        BY <3>1, <3>3 DEF FramesHeld
      <4>2. HeldByCall(k) => HeldByCall(k)'
        BY <2>3, <4>1 DEF HeldByCall
      <4>3. HeldByQuery(k) => HeldByQuery(k)'
        BY <2>1, <4>1 DEF HeldByQuery
      <4> QED  BY <4>1, <4>2, <4>3
    <3> QED  BY <3>1, <3>2, <3>3, Types
  <2>5. CASE ~(Len(stack) < MaxActiveSpans)
    <3>1. stack' = stack
      BY <2>1, <2>2, <2>5, PushedStack
    <3> QED  BY <1>3, <2>1, <3>1
  <2> QED  BY <2>4, <2>5
<1>6. ASSUME NEW text \in Texts,
             PlannerCall(text) \/ (UtilityCall(text) /\ FindTraceContext(text) = NoContext)
      PROVE  FramesHeld'
  <2>1. /\ stack' = stack /\ open' = open /\ queryStates' = queryStates
        /\ \E call : Enter(call)
    BY <1>6 DEF PlannerCall, UtilityCall
  <2> QED  BY <1>3, <2>1
<1>7. ASSUME NEW q \in QueryDescs, ExecutorCall(q)
      PROVE  FramesHeld'
  <2>1. /\ stack' = stack /\ open' = open /\ queryStates' = queryStates
        /\ \E call : Enter(call)
    BY <1>7 DEF ExecutorCall
  <2> QED  BY <1>3, <2>1
<1>8. CASE \/ PlannerError \/ ExecutorReturn
           \/ \E returned, kept \in PlannedStmts : PlannerReturn(returned, kept)
  <2>1. /\ stack' = stack /\ open' = open /\ queryStates' = queryStates /\ calls # <<>>
        /\ Leave /\ Top.kind # "utility"
    BY <1>8 DEF PlannerError, ExecutorReturn, PlannerReturn
  <2> QED  BY <1>4, <2>1
<1>9. CASE UtilityReturn
  <2>1. /\ stack' = PoppedTo(Top.index) /\ open' = open /\ queryStates' = queryStates
        /\ calls # <<>> /\ Leave
    BY <1>9 DEF UtilityReturn
  <2>2. /\ Top = calls[Len(calls)] /\ Top.index \in Int
        /\ \A i \in 1..Len(calls) : i # Len(calls) => i \in 1..Len(calls') /\ calls'[i] = calls[i]
    BY <2>1, LeaveCalls, TopType DEF Top, CallType
  <2>3. \A k \in 1..Len(stack') :
           k \in 1..Len(stack) /\ stack'[k] = stack[k] /\ Top.index # k - 1
    BY <2>1, <2>2, PoppedBelowIndex
  <2> QED  BY <1>1, <2>1, <2>2, <2>3
<1>10. ASSUME NEW q \in QueryDescs, NEW p \in PlannedStmts, ExecutorStart(q, p)
       PROVE  FramesHeld'
  <2> DEFINE state == StartState(p)
  <2>1. /\ open[q] = NoQuery /\ calls' = calls
        /\ stack' = IF state.id # 0 THEN Pushed(state.context, state.id) ELSE stack
        /\ \A r \in QueryDescs :
              /\ queryStates'[r] = IF r = q THEN state ELSE queryStates[r]
              /\ open'[r] = IF r = q THEN [plan |-> p, cause |-> Cause] ELSE open[r]
    BY <1>10, Types DEF ExecutorStart, MayExecute
  <2>2. /\ state.id \in Nat /\ state.context \in ContextType
        /\ state.id # 0 => state.index = PushIndex
    BY StartedState DEF QueryStateType, StartState, NoQueryState
  <2>3. open'[q] # NoQuery
    BY <2>1, AddressAssumption DEF NoQuery
  <2> HIDE DEF state
  <2>4. CASE state.id # 0 /\ Len(stack) < MaxActiveSpans
    <3>1. /\ PushIndex = Len(stack) /\ Len(stack') = Len(stack) + 1
          /\ stack'[Len(stack) + 1].span = state.id
          /\ \A k \in 1..Len(stack) : stack'[k] = stack[k]
      BY <2>1, <2>2, <2>4, PushedStack
    <3> SUFFICES ASSUME NEW k \in 1..Len(stack')
                 PROVE  stack'[k].span # 0 /\ (HeldByCall(k)' \/ HeldByQuery(k)')
      BY DEF FramesHeld
    <3>2. CASE k = Len(stack) + 1
      BY <2>1, <2>2, <2>3, <2>4, <3>1, <3>2, Types DEF HeldByQuery
    <3>3. CASE k \in 1..Len(stack)
      <4>1. stack[k].span # 0 /\ (HeldByCall(k) \/ HeldByQuery(k)) /\ stack'[k] = stack[k]
        BY <3>1, <3>3 DEF FramesHeld
      <4>2. HeldByCall(k) => HeldByCall(k)'
        BY <2>1, <4>1 DEF HeldByCall
      <4>3. HeldByQuery(k) => HeldByQuery(k)'
        BY <2>1, <4>1 DEF HeldByQuery
      <4> QED  BY <4>1, <4>2, <4>3
    <3> QED  BY <3>1, <3>2, <3>3, Types
  <2>5. CASE ~(state.id # 0 /\ Len(stack) < MaxActiveSpans)
    <3>1. stack' = stack
      BY <2>1, <2>2, <2>5, PushedStack
    <3> QED  BY <1>1, <2>1, <3>1
  <2> QED  BY <2>4, <2>5
<1>11. ASSUME NEW q \in QueryDescs, NEW p \in PlannedStmts, ExecutorStartError(q, p)
       PROVE  FramesHeld'
  <2>1. /\ open[q] = NoQuery /\ calls' = calls /\ stack' = stack /\ open' = open
        /\ \A r \in QueryDescs : r # q => queryStates'[r] = queryStates[r]
    BY <1>11, Types DEF ExecutorStartError, MayExecute
  <2> QED  BY <1>1, <2>1
<1>12. CASE ExecutorError \/ \E q \in QueryDescs : ExecutorEnd(q)
  <2>1. PICK q \in QueryDescs :
          /\ open[q] # NoQuery /\ DeleteTraceStates(q) /\ Close({q})
          /\ calls' = calls \/ (calls # <<>> /\ Leave /\ Top.kind = "run")
    BY <1>12, Ended
  <2>2. \A r \in QueryDescs : r # q => queryStates'[r] = queryStates[r] /\ open'[r] = open[r]
    BY <2>1, Deleted DEF Close, Linked
  <2>3. \A i \in 1..Len(calls) : calls[i].kind = "utility" =>
           i \in 1..Len(calls') /\ calls'[i] = calls[i]
    <3>1. CASE calls' = calls
      BY <3>1
    <3>2. CASE calls # <<>> /\ Leave /\ Top.kind = "run"
      BY <3>2, LeaveCalls DEF Top
    <3> QED  BY <2>1, <3>1, <3>2
  <2>4. queryStates[q].index \in Int /\ stack' = PoppedTo(queryStates[q].index)
    BY <2>1, Types DEF DeleteTraceStates, QueryStateType
  <2>5. \A k \in 1..Len(stack') :
           k \in 1..Len(stack) /\ stack'[k] = stack[k] /\ queryStates[q].index # k - 1
    BY <2>4, PoppedBelowIndex
  <2> QED  BY <1>1, <2>2, <2>3, <2>5
<1>13. CASE Commit \/ Abort
  <2>1. stack' = <<>>
    BY <1>13 DEF Commit, Abort, XactEndCallback
  <2> QED  BY <2>1, EmptySeq DEF FramesHeld
<1>14. ASSUME NEW freed \in SUBSET Idle, CatchError(freed)
       PROVE  FramesHeld'
  <2>1. /\ freed = {} /\ Close(freed) /\ calls' = calls /\ queryStates' = queryStates
        /\ stack' = stack
    BY <1>14 DEF CatchError, OneIdle
  <2>2. \A r \in QueryDescs : open'[r] = open[r]
    BY <2>1 DEF Close
  <2> QED  BY <1>1, <2>1, <2>2
<1>15. CASE \/ RaiseError \/ UNCHANGED vars
            \/ \E p \in PlannedStmts : FreePlan(p)
            \/ \E m \in Modes : SetMode(m)
  <2>1. open' = open /\ queryStates' = queryStates /\ calls' = calls /\ stack' = stack
    BY <1>15 DEF RaiseError, FreePlan, SetMode, vars
  <2> QED  BY <1>2, <2>1
<1> QED  BY <1>5, <1>6, <1>7, <1>8, <1>9, <1>10, <1>11, <1>12, <1>13, <1>14, <1>15 DEF Next

LEMMA AlwaysLInv ==
    ASSUME "suspend" \notin Environment
    PROVE  Spec => []LInv
<1>1. Init => LInv
  <2> SUFFICES ASSUME Init
               PROVE  LInv
    OBVIOUS
  <2>1. stack = <<>> /\ \A q \in QueryDescs : open[q] = NoQuery
    BY DEF Init
  <2>2. OneIdle /\ FramesHeld
    BY <2>1, EmptySeq DEF OneIdle, Idle, FramesHeld
  <2> QED  BY <2>2, InitHInv DEF LInv
<1>2. LInv /\ [Next]_vars => LInv'
  BY StepHInv, StepOneIdle, StepFramesHeld DEF LInv
<1> QED  BY <1>1, <1>2, PTL DEF Spec

\* What is known stays known: a statement ends with its span.
LEMMA KnownGrows ==
    ASSUME LInv, PlannerLinks, "suspend" \notin Environment, [Next]_vars
    PROVE  Known \subseteq Known'
<1> USE DEF LInv, HInv
<1>0. reported \subseteq reported'
  BY DEF Next, vars, history, PlannerCall, UtilityCall, PlannerReturn, PlannerError,
         ExecutorStart, ExecutorStartError, ExecutorCall, ExecutorEnd, ExecutorReturn,
         ExecutorError, UtilityReturn, Commit, Abort, RaiseError, CatchError, FreePlan,
         SetMode, EmitQuery, Emit
<1>1. ASSUME \A i \in 1..Len(calls) : calls[i].kind = "utility" =>
                \/ i \in 1..Len(calls') /\ calls'[i] = calls[i]
                \/ calls[i].id = 0 \/ calls[i].id \in reported',
             \A q \in QueryDescs : open[q] # NoQuery =>
                \/ open'[q] # NoQuery /\ queryStates'[q].id = queryStates[q].id
                \/ queryStates[q].id = 0 \/ queryStates[q].id \in reported'
      PROVE  Known \subseteq Known'
  <2> SUFFICES ASSUME NEW id \in InProgress
               PROVE  id \in reported' \cup InProgress'
    BY <1>0 DEF Known
  <2>1. CASE \E i \in 1..Len(calls) : calls[i].kind = "utility" /\ id = calls[i].id
    <3>1. PICK i \in 1..Len(calls) : calls[i].kind = "utility" /\ id = calls[i].id
      BY <2>1
    <3>2. id # 0
      BY DEF InProgress
    <3>3. CASE i \in 1..Len(calls') /\ calls'[i] = calls[i]
      BY <3>1, <3>2, <3>3 DEF InProgress
    <3> QED  BY <1>1, <3>1, <3>2, <3>3
  <2>2. CASE \E q \in QueryDescs : open[q] # NoQuery /\ id = queryStates[q].id
    <3>1. PICK q \in QueryDescs : open[q] # NoQuery /\ id = queryStates[q].id
      BY <2>2
    <3>2. id # 0
      BY DEF InProgress
    <3>3. CASE open'[q] # NoQuery /\ queryStates'[q].id = queryStates[q].id
      BY <3>1, <3>2, <3>3 DEF InProgress
    <3> QED  BY <1>1, <3>1, <3>2, <3>3
  <2> QED  BY <2>1, <2>2 DEF InProgress
<1>2. ASSUME open' = open, queryStates' = queryStates, NEW call, Enter(call)
      PROVE  Known \subseteq Known'
  BY <1>1, <1>2, EnterCalls, CallsType
<1>3. ASSUME open' = open, queryStates' = queryStates, calls' = calls
      PROVE  Known \subseteq Known'
  BY <1>1, <1>3
<1>4. ASSUME open' = open, queryStates' = queryStates, calls # <<>>, Leave,
             Top.kind # "utility"
      PROVE  Known \subseteq Known'
  <2>1. /\ Top = calls[Len(calls)] /\ Len(calls') = Len(calls) - 1
        /\ \A i \in 1..Len(calls) : i # Len(calls) => i \in 1..Len(calls') /\ calls'[i] = calls[i]
    BY <1>4, LeaveCalls DEF Top
  <2> QED  BY <1>1, <1>4, <2>1
<1>5. CASE UtilityReturn
  <2>1. /\ calls # <<>> /\ Leave /\ open' = open /\ queryStates' = queryStates
    BY <1>5 DEF UtilityReturn
  <2>2. /\ Top = calls[Len(calls)]
        /\ \A i \in 1..Len(calls) : i # Len(calls) => i \in 1..Len(calls') /\ calls'[i] = calls[i]
    BY <2>1, LeaveCalls DEF Top
  <2>3. Top.id = 0 \/ Top.id \in reported'
    BY <1>5, CallReports DEF MayReport, Reports
  <2> QED  BY <1>1, <2>1, <2>2, <2>3
<1>6. CASE ExecutorError \/ \E q \in QueryDescs : ExecutorEnd(q)
  <2>1. PICK q \in QueryDescs :
          /\ open[q] # NoQuery /\ DeleteTraceStates(q) /\ Close({q})
          /\ EmitQuery(q, FALSE) \/ EmitQuery(q, TRUE)
          /\ calls' = calls \/ (calls # <<>> /\ Leave /\ Top.kind = "run")
    BY <1>6, Ended
  <2>2. queryStates[q].id = 0 \/ queryStates[q].id \in reported'
    BY <2>1, EndReports DEF MayReport, Reports
  <2>3. \A r \in QueryDescs : r # q => queryStates'[r] = queryStates[r] /\ open'[r] = open[r]
    BY <2>1, Deleted DEF Close, Linked
  <2>4. \A i \in 1..Len(calls) : calls[i].kind = "utility" =>
           i \in 1..Len(calls') /\ calls'[i] = calls[i]
    <3>1. CASE calls' = calls
      BY <3>1
    <3>2. CASE calls # <<>> /\ Leave /\ Top.kind = "run"
      BY <3>2, LeaveCalls DEF Top
    <3> QED  BY <2>1, <3>1, <3>2
  <2> QED  BY <1>1, <2>2, <2>3, <2>4
<1>7. ASSUME NEW q \in QueryDescs, NEW p \in PlannedStmts,
             ExecutorStart(q, p) \/ ExecutorStartError(q, p)
      PROVE  Known \subseteq Known'
  <2>1. /\ open[q] = NoQuery /\ calls' = calls
        /\ \A r \in QueryDescs : r # q => queryStates'[r] = queryStates[r] /\ open'[r] = open[r]
    BY <1>7, Types DEF ExecutorStart, ExecutorStartError, MayExecute
  <2> QED  BY <1>1, <2>1
\* A transaction ends with no executor open.
<1>8. CASE Commit \/ Abort
  <2>1. calls' = calls /\ \A q \in QueryDescs : open[q] = NoQuery
    <3>1. CASE Commit
      BY <3>1 DEF Commit
    <3>2. CASE Abort
      <4>1. calls = <<>> /\ Idle = {} /\ calls' = calls
        BY <3>2 DEF Abort, Orderly
      <4> QED  BY <4>1, EmptySeq DEF Idle
    <3> QED  BY <1>8, <3>1, <3>2
  <2> QED  BY <1>1, <2>1
\* Nothing waits while an error is propagated, so that catching it frees nothing.
<1>9. ASSUME NEW freed \in SUBSET Idle, CatchError(freed)
      PROVE  Known \subseteq Known'
  <2>1. freed = {} /\ Close(freed) /\ calls' = calls /\ queryStates' = queryStates
    BY <1>9 DEF CatchError, OneIdle
  <2>2. \A r \in QueryDescs : open'[r] = open[r]
    BY <2>1 DEF Close
  <2> QED  BY <1>1, <2>1, <2>2
<1>10. ASSUME NEW text \in Texts, PlannerCall(text) \/ UtilityCall(text)
       PROVE  Known \subseteq Known'
  <2>1. open' = open /\ queryStates' = queryStates /\ \E call : Enter(call)
    BY <1>10 DEF PlannerCall, UtilityCall
  <2> QED  BY <1>2, <2>1
<1>11. ASSUME NEW q \in QueryDescs, ExecutorCall(q)
       PROVE  Known \subseteq Known'
  <2>1. open' = open /\ queryStates' = queryStates /\ \E call : Enter(call)
    BY <1>11 DEF ExecutorCall
  <2> QED  BY <1>2, <2>1
<1>12. CASE \/ PlannerError \/ ExecutorReturn
            \/ \E returned, kept \in PlannedStmts : PlannerReturn(returned, kept)
  <2>1. /\ open' = open /\ queryStates' = queryStates /\ calls # <<>> /\ Leave
        /\ Top.kind # "utility"
    BY <1>12 DEF PlannerError, ExecutorReturn, PlannerReturn
  <2> QED  BY <1>4, <2>1
<1>13. CASE \/ RaiseError \/ UNCHANGED vars
            \/ \E p \in PlannedStmts : FreePlan(p)
            \/ \E m \in Modes : SetMode(m)
  <2>1. open' = open /\ queryStates' = queryStates /\ calls' = calls
    BY <1>13 DEF RaiseError, FreePlan, SetMode, vars
  <2> QED  BY <1>3, <2>1
<1> QED  BY <1>5, <1>6, <1>7, <1>8, <1>9, <1>10, <1>11, <1>12, <1>13 DEF Next

\* Every context held after a step was held before or is found by it.
LEMMA StepContexts ==
    ASSUME HInv, [Next]_vars
    PROVE  \A context \in Contexts' : context \in Contexts \/ Found(context)
<1> USE DEF HInv
<1> DEFINE Fresh(context) == context \in Contexts \/ Found(context)
<1>0. /\ \A i \in 1..Len(calls) : Holding(i) => Fresh(calls[i].context)
      /\ \A p \in PlannedStmts : plannerStates[p].id # 0 => Fresh(plannerStates[p].context)
      /\ \A q \in QueryDescs : queryStates[q].id # 0 => Fresh(queryStates[q].context)
  BY DEF Contexts
<1> SUFFICES \A context \in Contexts' : Fresh(context)
  OBVIOUS
<1> HIDE DEF Fresh
<1>1. ASSUME \A i \in 1..Len(calls') :
                \/ i \in 1..Len(calls) /\ calls'[i] = calls[i]
                \/ calls'[i].kind = "run" \/ calls'[i].id = 0 \/ Fresh(calls'[i].context),
             \A p \in PlannedStmts :
                \/ plannerStates'[p] = plannerStates[p] \/ plannerStates'[p].id = 0
                \/ Fresh(plannerStates'[p].context),
             \A q \in QueryDescs :
                \/ queryStates'[q] = queryStates[q] \/ queryStates'[q].id = 0
                \/ Fresh(queryStates'[q].context)
      PROVE  \A context \in Contexts' : Fresh(context)
  <2>1. \A i \in 1..Len(calls') : calls'[i].kind # "run" /\ calls'[i].id # 0 =>
           Fresh(calls'[i].context)
    BY <1>0, <1>1 DEF Holding
  <2>2. \A p \in PlannedStmts : plannerStates'[p].id # 0 => Fresh(plannerStates'[p].context)
    BY <1>0, <1>1
  <2>3. \A q \in QueryDescs : queryStates'[q].id # 0 => Fresh(queryStates'[q].context)
    BY <1>0, <1>1
  <2> SUFFICES ASSUME NEW context \in Contexts'
               PROVE  Fresh(context)
    OBVIOUS
  <2>4. \/ \E i \in 1..Len(calls') : /\ calls'[i].kind # "run" /\ calls'[i].id # 0
                                     /\ context = calls'[i].context
        \/ \E p \in PlannedStmts : plannerStates'[p].id # 0 /\ context = plannerStates'[p].context
        \/ \E q \in QueryDescs : queryStates'[q].id # 0 /\ context = queryStates'[q].context
    BY DEF Contexts, Holding
  <2> QED  BY <2>1, <2>2, <2>3, <2>4
<1>2. ASSUME NEW text \in Texts, PlannerCall(text) \/ UtilityCall(text)
      PROVE  \A context \in Contexts' : Fresh(context)
  <2>1. queryStates' = queryStates /\ plannerStates' = plannerStates /\ Orderly
    BY <1>2 DEF PlannerCall, UtilityCall, MayCall, MayStart
  <2>2. FindTraceContext(text) # NoContext => Fresh(FindTraceContext(text))
    BY <2>1, SmallValues DEF Fresh, Found
  <2>3. PICK call : Enter(call) /\ (call.id = 0 \/ Fresh(call.context))
    BY <1>2, <2>2 DEF PlannerCall, UtilityCall, Call
  <2>4. \A i \in 1..Len(calls') : \/ i \in 1..Len(calls) /\ calls'[i] = calls[i]
                                  \/ calls'[i] = call
    BY <2>3, EnterCalls, CallsType
  <2> QED  BY <1>1, <2>1, <2>3, <2>4
<1>3. ASSUME NEW returned \in PlannedStmts, NEW kept \in PlannedStmts,
             PlannerReturn(returned, kept)
      PROVE  \A context \in Contexts' : Fresh(context)
  <2>1. /\ calls # <<>> /\ Leave /\ Top.kind = "plan" /\ queryStates' = queryStates
        /\ Top = calls[Len(calls)] /\ Len(calls) \in 1..Len(calls)
    BY <1>3, TopType DEF PlannerReturn, Top
  <2>2. Top.id # 0 => Fresh(Top.context)
    BY <1>0, <2>1 DEF Holding
  <2>3. \A p \in PlannedStmts :
           \/ plannerStates'[p] = plannerStates[p]
           \/ Top.id # 0 /\ plannerStates'[p].context = Top.context
    BY <1>3, Types DEF PlannerReturn
  <2> QED  BY <1>1, <2>1, <2>2, <2>3, KeptCalls
<1>4. ASSUME NEW q \in QueryDescs, NEW p \in PlannedStmts, ExecutorStart(q, p)
      PROVE  \A context \in Contexts' : Fresh(context)
  <2>1. /\ Orderly /\ calls' = calls
        /\ \A o \in PlannedStmts : \/ plannerStates'[o] = plannerStates[o]
                                   \/ plannerStates'[o] = NoPlannerState
        /\ \A r \in QueryDescs : queryStates'[r] = queryStates[r]
                                   \/ queryStates'[r] = StartState(p)
    BY <1>4, Types DEF ExecutorStart, MayExecute, MayStart
  <2>2. StartState(p).id = 0 \/ Fresh(StartState(p).context)
    <3>1. CASE Adopts(p)
      BY <1>0, <3>1 DEF StartState, Adopts
    <3>2. CASE ~Adopts(p)
      <4>1. plans[p].text \in TextType
        BY Types DEF PlanType
      <4>2. FindTraceContext(plans[p].text) # NoContext =>
               Fresh(FindTraceContext(plans[p].text))
        BY <2>1, <4>1 DEF Fresh, Found
      <4> QED  BY <3>2, <4>2 DEF StartState, NoQueryState
    <3> QED  BY <3>1, <3>2
  <2> QED  BY <1>1, <2>1, <2>2 DEF NoPlannerState
<1>5. ASSUME NEW q \in QueryDescs, ExecutorCall(q)
      PROVE  \A context \in Contexts' : Fresh(context)
  <2>1. PICK call : Enter(call) /\ call.kind = "run"
    BY <1>5 DEF ExecutorCall, Call
  <2>2. \A i \in 1..Len(calls') : \/ i \in 1..Len(calls) /\ calls'[i] = calls[i]
                                  \/ calls'[i] = call
    BY <2>1, EnterCalls, CallsType
  <2> QED  BY <1>1, <1>5, <2>1, <2>2 DEF ExecutorCall
\* The other steps hold no context they did not hold.
<1>6. ASSUME calls' = calls \/ (calls # <<>> /\ Leave),
             \A p \in PlannedStmts : plannerStates'[p] = plannerStates[p]
                                       \/ plannerStates'[p] = NoPlannerState,
             \A q \in QueryDescs : queryStates'[q] = queryStates[q]
                                       \/ queryStates'[q] = NoQueryState
      PROVE  \A context \in Contexts' : Fresh(context)
  BY <1>1, <1>6, KeptCalls DEF NoPlannerState, NoQueryState
<1>7. CASE \/ ExecutorError \/ \E q \in QueryDescs : ExecutorEnd(q)
  <2>1. PICK q \in QueryDescs : /\ open[q] # NoQuery /\ DeleteTraceStates(q)
                                /\ calls' = calls \/ (calls # <<>> /\ Leave)
    BY <1>7, Ended
  <2> QED  BY <1>6, <2>1, Deleted DEF Linked
<1>8. CASE \/ PlannerError \/ ExecutorReturn \/ UtilityReturn \/ Commit \/ Abort \/ RaiseError
           \/ \E q \in QueryDescs, p \in PlannedStmts : ExecutorStartError(q, p)
           \/ \E freed \in SUBSET Idle : CatchError(freed)
           \/ \E p \in PlannedStmts : FreePlan(p)
           \/ \E m \in Modes : SetMode(m)
           \/ UNCHANGED vars
  <2> DEFINE Kept ==
        /\ calls' = calls \/ (calls # <<>> /\ Leave)
        /\ \A p \in PlannedStmts : plannerStates'[p] = plannerStates[p]
                                     \/ plannerStates'[p] = NoPlannerState
        /\ \A q \in QueryDescs : queryStates'[q] = queryStates[q]
                                     \/ queryStates'[q] = NoQueryState
  <2>1. CASE Commit \/ Abort
    <3>1. Kept
      BY <2>1 DEF Commit, Abort, XactEndCallback
    <3> QED  BY <1>6, <3>1
  <2>2. ASSUME NEW q \in QueryDescs, NEW p \in PlannedStmts, ExecutorStartError(q, p)
        PROVE  \A context \in Contexts' : Fresh(context)
    <3>1. Kept
      BY <2>2, Types DEF ExecutorStartError
    <3> QED  BY <1>6, <3>1
  <2>3. CASE ~(Commit \/ Abort) /\ ~ \E q \in QueryDescs, p \in PlannedStmts : ExecutorStartError(q, p)
    <3>1. Kept
      BY <1>8, <2>3 DEF PlannerError, ExecutorReturn, UtilityReturn, RaiseError, CatchError,
                        FreePlan, SetMode, vars
    <3> QED  BY <1>6, <3>1
  <2> QED  BY <2>1, <2>2, <2>3
<1> QED  BY <1>2, <1>3, <1>4, <1>5, <1>7, <1>8 DEF Next

LEMMA ReportsKnown ==
    ASSUME NoneLost, Known \subseteq Known', NEW id, NEW context, NEW text, NEW cause,
           MayReport(id, context, text, cause),
           id # 0 => context.parent < 0 \/ context.parent \in Known
    PROVE  parents' \subseteq Known'
<1>1. CASE id = 0
  BY <1>1 DEF MayReport, Silent, NoneLost
<1>2. CASE id # 0
  <2>1. /\ id \in Known'
        /\ parents' \subseteq parents \cup {id} \cup ({context.parent} \cap Nat)
    BY <1>2 DEF MayReport, Reports, Known
  <2>2. {context.parent} \cap Nat \subseteq Known
    BY <1>2
  <2> QED  BY <2>1, <2>2 DEF NoneLost
<1> QED  BY <1>1, <1>2

LEMMA StepNoneLost ==
    ASSUME LInv, PlannerLinks, NoneLost, "suspend" \notin Environment, [Next]_vars
    PROVE  NoneLost'
<1> USE DEF LInv, HInv
<1>1. Known \subseteq Known'
  BY KnownGrows
<1>2. \A context \in Contexts : context.parent < 0 \/ context.parent \in Known
  BY DEF NoneLost
<1>3. \A context \in Contexts' : context.parent < 0 \/ context.parent \in Known'
  BY <1>1, <1>2, StepContexts, FoundKnown
<1> SUFFICES parents' \subseteq Known'
  BY <1>3 DEF NoneLost
<1>4. CASE UNCHANGED vars
  BY <1>1, <1>4 DEF vars, history, NoneLost
<1>5. CASE PlannerError \/ UtilityReturn
  <2>1. Top.id # 0 => Top.context \in Contexts
    <3>1. Top = calls[Len(calls)] /\ Len(calls) \in 1..Len(calls) /\ Top.kind # "run"
      BY <1>5, TopType DEF PlannerError, UtilityReturn, Top
    <3> QED  BY <3>1 DEF Contexts, Holding
  <2> QED  BY <1>1, <1>2, <1>5, <2>1, CallReports, ReportsKnown
<1>6. CASE ExecutorError \/ \E q \in QueryDescs : ExecutorEnd(q)
  <2>1. PICK q \in QueryDescs : open[q] # NoQuery /\ (EmitQuery(q, FALSE) \/ EmitQuery(q, TRUE))
    BY <1>6, Ended
  <2>2. queryStates[q].id # 0 => queryStates[q].context \in Contexts
    BY DEF Contexts
  <2> QED  BY <1>1, <1>2, <2>1, <2>2, EndReports, ReportsKnown
<1>7. ASSUME NEW q \in QueryDescs, NEW p \in PlannedStmts, ExecutorStartError(q, p)
      PROVE  parents' \subseteq Known'
  <2>1. StartState(p).id # 0 =>
           StartState(p).context \in Contexts \/ Found(StartState(p).context)
    <3>1. CASE Adopts(p)
      BY <3>1 DEF StartState, Adopts, Contexts
    <3>2. CASE ~Adopts(p)
      <4>1. plans[p].text \in TextType /\ Orderly
        BY <1>7, Types DEF PlanType, ExecutorStartError, MayExecute, MayStart
      <4> QED  BY <3>2, <4>1 DEF StartState, NoQueryState, Found
    <3> QED  BY <3>1, <3>2
  <2> QED  BY <1>1, <1>2, <1>7, <2>1, FoundKnown, StartErrorReports, ReportsKnown
<1>8. ASSUME Silent
      PROVE  parents' \subseteq Known'
  BY <1>1, <1>8 DEF Silent, NoneLost
<1> QED  BY <1>4, <1>5, <1>6, <1>7, <1>8, QuietSteps DEF Next

\* emitFailedQuerySpan, emitSuccessfulQuerySpan and the utility hook report every
\* statement another span has as parent: once the backend is back at the top level,
\* no span it sent points to a span it did not send.
THEOREM NoSpanIsOrphan ==
    ASSUME "suspend" \notin Environment
    PROVE  Spec => []NoOrphans
<1>1. Init => NoneLost
  <2> SUFFICES ASSUME Init
               PROVE  NoneLost
    OBVIOUS
  <2>1. calls = <<>> /\ parents = {}
    BY DEF Init
  <2>2. /\ \A p \in PlannedStmts : plannerStates[p].id = 0
        /\ \A q \in QueryDescs : queryStates[q].id = 0
    BY DEF Init, NoPlannerState, NoQueryState
  <2> QED  BY <2>1, <2>2, EmptySeq DEF NoneLost, Contexts
<1>2. LInv /\ PInv /\ NoneLost /\ [Next]_vars => NoneLost'
  BY StepNoneLost DEF PInv
<1>3. NoneLost => NoOrphans
  <2>1. calls = <<>> /\ (\A q \in QueryDescs : open[q] = NoQuery) => InProgress = {}
    BY EmptySeq DEF InProgress
  <2> QED  BY <2>1 DEF NoneLost, NoOrphans, Known
<1> QED  BY <1>1, <1>2, <1>3, AlwaysLInv, AlwaysPInv, PTL DEF Spec
=============================================================================
