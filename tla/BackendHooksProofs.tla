------------------------- MODULE BackendHooksProofs -------------------------
(***************************************************************************)
(* Proofs about the hooks of one backend, for every set of addresses, query *)
(* texts and modes, every size of the stack of active spans, every nesting *)
(* of hook calls and every number of span ids.                             *)
(***************************************************************************)
EXTENDS BackendHooks, FiniteSetTheorems, SequenceTheorems, TLAPS

CallType == [kind : {"plan", "run", "utility"}, query : QueryDescs \cup {"none"},
             text : TextType, context : ContextType, id : Nat, index : Int, cause : Nat]

\* What is linked to what: the plan of an open query exists; a one-shot plan is open
\* once; the query of an executor call is open, and in no other call.
OpenHasPlan ==
    \A q \in QueryDescs : open[q] # NoQuery =>
        open[q].plan \in PlannedStmts /\ plans[open[q].plan] # NoPlan

OneShotOnce ==
    \A q, r \in QueryDescs :
        /\ open[q] # NoQuery /\ open[r].plan = open[q].plan
        /\ plans[open[q].plan].kind = "one-shot"
        => q = r

RunsOpen ==
    \A i \in 1..Len(calls) :
        IF calls[i].kind = "run"
        THEN /\ calls[i].query \in QueryDescs
             /\ open[calls[i].query] # NoQuery
             /\ \A j \in 1..Len(calls) : calls[j].query = calls[i].query => j = i
        ELSE calls[i].query = "none"

\* Depth counts the executing calls without a gap.
Depths == \A d \in 1..Cardinality(Executing) : \E i \in Executing : Depth(i) = d

Linked == OpenHasPlan /\ OneShotOnce /\ RunsOpen
HInv == TypeOK /\ Depths /\ Linked

-----------------------------------------------------------------------------
\* Calls that are entered and left.
LEMMA CallsType ==
    ASSUME TypeOK
    PROVE  /\ calls \in Seq(CallType)
           /\ Len(calls) \in Nat
           /\ \A i \in 1..Len(calls) : calls[i] \in CallType
<1>1. calls \in Seq(CallType)
  BY DEF TypeOK, CallType
<1> QED  BY <1>1, LenProperties, ElementOfSeq

LEMMA EnterCalls ==
    ASSUME TypeOK, NEW call, Enter(call)
    PROVE  /\ Len(calls') = Len(calls) + 1
           /\ calls'[Len(calls) + 1] = call
           /\ \A i \in 1..Len(calls) : calls'[i] = calls[i]
<1>1. calls \in Seq(CallType \cup {call})
  BY CallsType, SMT
<1> QED  BY <1>1, AppendProperties DEF Enter

LEMMA LeaveCalls ==
    ASSUME TypeOK, calls # <<>>, Leave
    PROVE  /\ Len(calls) \in Nat \ {0}
           /\ Len(calls') = Len(calls) - 1
           /\ calls' \in Seq(CallType)
           /\ \A i \in 1..Len(calls) - 1 : calls'[i] = calls[i]
<1>1. calls \in Seq(CallType) /\ Len(calls) \in Nat
  BY CallsType
<1>2. Len(calls) # 0
  BY <1>1, EmptySeq
<1>3. \A i \in 1..Len(calls) - 1 : calls[i] \in CallType
  BY CallsType
<1>4. Len(calls) - 1 \in Int /\ Len(calls) - 1 \in Nat /\ 1 \in Int
  BY <1>1, <1>2
<1>5. /\ calls' \in Seq(CallType)
      /\ Len(calls') = IF 1 <= Len(calls) - 1 THEN (Len(calls) - 1) - 1 + 1 ELSE 0
      /\ \A i \in 1..(Len(calls) - 1) - 1 + 1 : calls'[i] = calls[1 + i - 1]
  BY <1>3, <1>4, SubSeqProperties DEF Leave
<1>6. /\ Len(calls') = Len(calls) - 1
      /\ \A i \in 1..Len(calls) - 1 : calls'[i] = calls[i]
  <2>1. Len(calls') = Len(calls) - 1
    <3>1. PICK n \in Nat \ {0} : n = Len(calls)
      BY <1>1, <1>2
    <3>2. Len(calls') = IF 1 <= n - 1 THEN (n - 1) - 1 + 1 ELSE 0
      BY <1>5, <3>1, Zenon
    <3>3. (IF 1 <= n - 1 THEN (n - 1) - 1 + 1 ELSE 0) = n - 1
      OBVIOUS
    <3> QED  BY <3>1, <3>2, <3>3, Zenon
  <2>2. ASSUME NEW i \in 1..Len(calls) - 1
        PROVE  calls'[i] = calls[i]
    <3>1. i \in 1..(Len(calls) - 1) - 1 + 1 /\ 1 + i - 1 = i
      BY <1>1
    <3>2. calls'[i] = calls[1 + i - 1]
      BY <1>5, <3>1
    <3> QED  BY <3>1, <3>2, Zenon
  <2> QED  BY <2>1, <2>2
<1> QED  BY <1>1, <1>2, <1>5, <1>6

\* Every step enters a call, leaves the innermost one, or lets the calls be.
LEMMA StepCalls ==
    ASSUME [Next]_vars
    PROVE  \/ UNCHANGED calls
           \/ \E call : Enter(call)
           \/ calls # <<>> /\ Leave
BY DEF Next, vars, PlannerCall, PlannerReturn, PlannerError, ExecutorStart,
       ExecutorStartError, ExecutorCall, ExecutorReturn, ExecutorError, ExecutorEnd,
       UtilityCall, UtilityReturn, Commit, Abort, RaiseError, CatchError, FreePlan, SetMode

-----------------------------------------------------------------------------
\* Executing and Depth.
Executes(call) == call.kind # "plan" /\ call.id # 0

LEMMA ExecutingFinite ==
    ASSUME TypeOK
    PROVE  /\ IsFiniteSet(Executing) /\ Cardinality(Executing) \in Nat
           /\ \A i : Depth(i) \in Nat /\ Depth(i) <= Cardinality(Executing)
           /\ \A i \in Executing : Depth(i) > 0
<1>1. IsFiniteSet(1..Len(calls))
  BY CallsType, FS_Interval
<1>2. IsFiniteSet(Executing) /\ Cardinality(Executing) \in Nat
  BY <1>1, FS_Subset, FS_CardinalityType DEF Executing
<1>3. ASSUME NEW i
      PROVE  IsFiniteSet({j \in Executing : j <= i}) /\ Depth(i) \in Nat
               /\ Depth(i) <= Cardinality(Executing)
  BY <1>2, FS_Subset, FS_CardinalityType DEF Depth
<1>4. ASSUME NEW i \in Executing
      PROVE  Depth(i) > 0
  <2>1. i \in {j \in Executing : j <= i}
    BY CallsType DEF Executing
  <2> QED  BY <1>3, <2>1, FS_EmptySet, SMT DEF Depth
<1> QED  BY <1>2, <1>3, <1>4

LEMMA SameDepths ==
    ASSUME UNCHANGED calls
    PROVE  Executing' = Executing /\ \A i : Depth(i)' = Depth(i)
<1>1. Executing' = Executing
  BY DEF Executing
<1> QED  BY <1>1 DEF Depth

LEMMA EnterDepths ==
    ASSUME TypeOK, NEW call, Enter(call), NEW n, n = Len(calls) + 1
    PROVE  /\ Executing' = IF Executes(call) THEN Executing \cup {n} ELSE Executing
           /\ Cardinality(Executing)' =
                IF Executes(call) THEN Cardinality(Executing) + 1 ELSE Cardinality(Executing)
           /\ \A i \in Executing : Depth(i)' = Depth(i)
           /\ Executes(call) => Depth(n)' = Cardinality(Executing) + 1
<1>1. n \in Nat /\ n \notin Executing
  BY CallsType DEF Executing
<1>2. Executing' = IF Executes(call) THEN Executing \cup {n} ELSE Executing
  BY EnterCalls, CallsType DEF Executing, Executes
<1>3. Cardinality(Executing \cup {n}) = Cardinality(Executing) + 1
  BY <1>1, ExecutingFinite, FS_AddElement
<1>4. ASSUME NEW i \in Executing
      PROVE  Depth(i)' = Depth(i)
  <2>1. {j \in Executing' : j <= i} = {j \in Executing : j <= i}
    BY <1>2, CallsType DEF Executing
  <2> QED  BY <2>1 DEF Depth
<1>5. ASSUME Executes(call)
      PROVE  Depth(n)' = Cardinality(Executing) + 1
  <2>1. {j \in Executing' : j <= n} = Executing'
    BY <1>2, <1>5, CallsType DEF Executing
  <2>2. Depth(n)' = Cardinality(Executing')
    BY <2>1 DEF Depth
  <2> QED  BY <2>2, <1>2, <1>3, <1>5
<1> QED  BY <1>2, <1>3, <1>4, <1>5

LEMMA LeaveDepths ==
    ASSUME TypeOK, calls # <<>>, Leave
    PROVE  /\ Executing' = Executing \ {Len(calls)}
           /\ Cardinality(Executing)' =
                IF Executes(Top) THEN Cardinality(Executing) - 1 ELSE Cardinality(Executing)
           /\ Executes(Top) <=> Len(calls) \in Executing
           /\ Executes(Top) => Depth(Len(calls)) = Cardinality(Executing)
           /\ \A i \in Executing' : Depth(i)' = Depth(i)
           /\ \A i \in Executing' : Executes(Top) => Depth(i) < Cardinality(Executing)
<1>1. Executing' = Executing \ {Len(calls)}
  BY LeaveCalls, CallsType DEF Executing
<1>2. Executes(Top) <=> Len(calls) \in Executing
  BY LeaveCalls DEF Executing, Executes, Top
<1>3. Cardinality(Executing') =
        IF Executes(Top) THEN Cardinality(Executing) - 1 ELSE Cardinality(Executing)
  <2>1. /\ Len(calls) \in Executing =>
             Cardinality(Executing \ {Len(calls)}) = Cardinality(Executing) - 1
        /\ Len(calls) \notin Executing =>
             Cardinality(Executing \ {Len(calls)}) = Cardinality(Executing)
    BY ExecutingFinite, FS_RemoveElement
  <2> QED  BY <1>1, <1>2, <2>1, ExecutingFinite
<1>4. Executes(Top) => Depth(Len(calls)) = Cardinality(Executing)
  <2>1. {j \in Executing : j <= Len(calls)} = Executing
    BY CallsType DEF Executing
  <2> QED  BY <2>1 DEF Depth
<1>5. ASSUME NEW i \in Executing'
      PROVE  /\ Depth(i)' = Depth(i)
             /\ Executes(Top) => Depth(i) < Cardinality(Executing)
  <2>1. {j \in Executing' : j <= i} = {j \in Executing : j <= i}
    BY <1>1, <1>5, CallsType DEF Executing
  <2>2. Depth(i)' = Depth(i)
    BY <2>1 DEF Depth
  <2>3. IsFiniteSet(Executing')
    BY <1>1, ExecutingFinite, FS_RemoveElement
  <2>4. Depth(i)' <= Cardinality(Executing')
    BY <2>3, FS_Subset, FS_CardinalityType DEF Depth
  <2> QED  BY <2>2, <2>4, <1>3, ExecutingFinite
<1> QED  BY <1>1, <1>2, <1>3, <1>4, <1>5

LEMMA StepDepths ==
    ASSUME TypeOK, Depths, [Next]_vars
    PROVE  Depths'
<1>1. CASE UNCHANGED calls
  BY <1>1, SameDepths DEF Depths
<1>2. ASSUME NEW call, Enter(call)
      PROVE  Depths'
  <2> SUFFICES ASSUME NEW d \in 1..Cardinality(Executing)'
               PROVE  \E i \in Executing' : Depth(i)' = d
    BY DEF Depths
  <2>0. PICK n : n = Len(calls) + 1
    OBVIOUS
  <2>1. CASE d \in 1..Cardinality(Executing)
    <3>1. PICK i \in Executing : Depth(i) = d
      BY <2>1 DEF Depths
    <3> QED  BY <1>2, <2>0, <3>1, EnterDepths
  <2>2. CASE d \notin 1..Cardinality(Executing)
    <3>1. Executes(call) /\ d = Cardinality(Executing) + 1
      BY <1>2, <2>0, <2>2, EnterDepths, ExecutingFinite
    <3> QED  BY <2>0, <3>1, <1>2, EnterDepths
  <2> QED  BY <2>1, <2>2
<1>3. CASE calls # <<>> /\ Leave
  <2> SUFFICES ASSUME NEW d \in 1..Cardinality(Executing)'
               PROVE  \E i \in Executing' : Depth(i)' = d
    BY DEF Depths
  <2>1. d \in 1..Cardinality(Executing)
    BY <1>3, LeaveDepths, ExecutingFinite
  <2>2. PICK i \in Executing : Depth(i) = d
    BY <2>1 DEF Depths
  <2>3. i # Len(calls)
    BY <1>3, <2>2, LeaveDepths, ExecutingFinite
  <2> QED  BY <1>3, <2>2, <2>3, LeaveDepths
<1> QED  BY <1>1, <1>2, <1>3, StepCalls

\* What Cause is: the id of an executing call, or none.
LEMMA CauseIsExecuting ==
    ASSUME TypeOK, Depths
    PROVE  /\ Cause \in Nat
           /\ Fitting(Cardinality(Executing)) \in 0..Cardinality(Executing)
           /\ Fitting(Cardinality(Executing)) = 0 => Cause = 0
           /\ Fitting(Cardinality(Executing)) # 0 =>
                \E i \in Executing : /\ Depth(i) = Fitting(Cardinality(Executing))
                                     /\ Cause = calls[i].id
<1> DEFINE depth == Fitting(Cardinality(Executing))
<1>1. depth \in 0..Cardinality(Executing)
  BY ExecutingFinite, HooksAssumption DEF Fitting
<1>2. depth = 0 => Cause = 0
  BY DEF Cause
<1>3. ASSUME depth # 0
      PROVE  \E i \in Executing : Depth(i) = depth /\ Cause = calls[i].id
  <2>1. \E i \in Executing : Depth(i) = depth
    BY <1>1, <1>3 DEF Depths
  <2> QED  BY <1>3, <2>1 DEF Cause
<1>4. \A i \in Executing : calls[i].id \in Nat
  BY CallsType DEF Executing, CallType
<1> QED  BY <1>1, <1>2, <1>3, <1>4

-----------------------------------------------------------------------------
\* The operators of the model.
SpanType == [kind : {"query", "planner", "node", "utility"}, id : Nat,
             context : ContextType, text : TextType, cause : Nat]
FrameType == [trace : Nat, span : Nat]
QueryStateType == [context : ContextType, id : Nat, index : Int]
PlannerStateType == [context : ContextType, id : Nat, hasSpan : BOOLEAN]
PlanType == [text : TextType, cause : Nat, kind : {"none", "one-shot", "cached"}]

LEMMA Types ==
    ASSUME TypeOK
    PROVE  /\ stack \in Seq(FrameType) /\ Len(stack) \in Nat /\ Len(stack) <= MaxActiveSpans
           /\ queryStates \in [QueryDescs -> QueryStateType]
           /\ plannerStates \in [PlannedStmts -> PlannerStateType]
           /\ emitted \in Seq(SpanType)
           /\ open \in [QueryDescs -> [plan : PlannedStmts \cup {"none"}, cause : Nat]]
           /\ plans \in [PlannedStmts -> PlanType]
           /\ bornIn \in Seq(Nat) /\ Len(bornIn) \in Nat
           /\ mode \in Modes /\ error \in BOOLEAN /\ xact \in Nat
           /\ reported \subseteq Nat /\ parents \subseteq Nat /\ reportedTwice \in BOOLEAN
<1>1. stack \in Seq(FrameType) /\ bornIn \in Seq(Nat)
  BY DEF TypeOK, FrameType
<1>2. Len(stack) \in Nat /\ Len(bornIn) \in Nat
  BY <1>1, LenProperties
<1> QED  BY <1>1, <1>2 DEF TypeOK, QueryStateType, PlannerStateType, SpanType, PlanType

LEMMA SmallValues ==
    /\ NoText \in TextType /\ NoContext \in ContextType
    /\ NoQueryState \in QueryStateType /\ NoPlannerState \in PlannerStateType
    /\ NoPlan \in PlanType
    /\ NoQuery \in [plan : PlannedStmts \cup {"none"}, cause : Nat]
    /\ Texts \subseteq TextType
BY HooksAssumption DEF NoText, TextType, NoContext, ContextType, NoQueryState, QueryStateType,
   NoPlannerState, PlannerStateType, NoPlan, PlanType, NoQuery

\* The context of a statement: that of its caller, or that of the active span.
LEMMA FoundContext ==
    ASSUME TypeOK, NEW text \in TextType
    PROVE  /\ FindTraceContext(text) \in ContextType
           /\ FindTraceContext(text) # NoContext =>
                IF text.trace # 0
                THEN /\ text.sampled
                     /\ FindTraceContext(text) =
                          [trace |-> text.trace, parent |-> -text.trace]
                ELSE /\ stack # <<>> /\ Len(stack) \in 1..Len(stack)
                     /\ FindTraceContext(text).parent = stack[Len(stack)].span
<1>1. stack # <<>> => Len(stack) \in 1..Len(stack) /\ stack[Len(stack)] \in FrameType
  BY Types, EmptySeq, ElementOfSeq
<1> QED  BY <1>1, SmallValues DEF FindTraceContext, TextType, ContextType, FrameType

LEMMA FoundParent ==
    ASSUME TypeOK, NEW text \in TextType, FindTraceContext(text).parent > 0
    PROVE  /\ text.trace = 0 /\ stack # <<>> /\ Len(stack) \in 1..Len(stack)
           /\ FindTraceContext(text).parent = stack[Len(stack)].span
BY FoundContext DEF NoContext, TextType

LEMMA PushedStack ==
    ASSUME TypeOK, NEW context \in ContextType, NEW id \in Nat
    PROVE  /\ PushIndex \in Int
           /\ Pushed(context, id) \in Seq(FrameType)
           /\ Len(Pushed(context, id)) <= MaxActiveSpans
           /\ IF Len(stack) < MaxActiveSpans
              THEN /\ PushIndex = Len(stack)
                   /\ Len(Pushed(context, id)) = Len(stack) + 1
                   /\ Pushed(context, id)[Len(stack) + 1].span = id
              ELSE PushIndex = -1 /\ Pushed(context, id) = stack
           /\ \A k \in 1..Len(stack) : Pushed(context, id)[k] = stack[k]
<1>1. [trace |-> context.trace, span |-> id] \in FrameType
  BY DEF ContextType, FrameType
<1>2. CASE Len(stack) < MaxActiveSpans
  BY <1>1, <1>2, Types, AppendProperties, HooksAssumption DEF PushIndex, Pushed
<1>3. CASE ~(Len(stack) < MaxActiveSpans)
  BY <1>3, Types DEF PushIndex, Pushed
<1> QED  BY <1>2, <1>3

LEMMA PoppedStack ==
    ASSUME TypeOK, NEW index \in Int
    PROVE  /\ PoppedTo(index) \in Seq(FrameType)
           /\ Len(PoppedTo(index)) \in Nat /\ Len(PoppedTo(index)) <= MaxActiveSpans
           /\ Len(PoppedTo(index)) =
                IF index >= 0 /\ Len(stack) > index THEN index ELSE Len(stack)
           /\ \A k \in 1..Len(PoppedTo(index)) : k \in 1..Len(stack)
                                                   /\ PoppedTo(index)[k] = stack[k]
<1>1. CASE index >= 0 /\ Len(stack) > index
  <2>1. \A k \in 1..index : stack[k] \in FrameType
    BY <1>1, Types, ElementOfSeq
  <2>2. PICK n \in Nat : n = index
    BY <1>1
  <2>3. /\ SubSeq(stack, 1, n) \in Seq(FrameType)
        /\ Len(SubSeq(stack, 1, n)) = IF 1 <= n THEN n - 1 + 1 ELSE 0
        /\ \A k \in 1..n - 1 + 1 : SubSeq(stack, 1, n)[k] = stack[1 + k - 1]
    BY <2>1, <2>2, SubSeqProperties
  <2>4. Len(SubSeq(stack, 1, n)) = n
    BY <2>3
  <2>5. ASSUME NEW k \in 1..n
        PROVE  SubSeq(stack, 1, n)[k] = stack[k]
    <3>1. k \in 1..n - 1 + 1 /\ 1 + k - 1 = k
      OBVIOUS
    <3>2. SubSeq(stack, 1, n)[k] = stack[1 + k - 1]
      BY <2>3, <3>1
    <3> QED  BY <3>1, <3>2, Zenon
  <2>6. PoppedTo(index) = SubSeq(stack, 1, n)
    BY <1>1, <2>2 DEF PoppedTo
  <2> QED  BY <1>1, <2>2, <2>3, <2>4, <2>5, <2>6, Types, HooksAssumption
<1>2. CASE ~(index >= 0 /\ Len(stack) > index)
  BY <1>2, Types DEF PoppedTo
<1> QED  BY <1>1, <1>2

LEMMA StartedState ==
    ASSUME TypeOK, NEW p \in PlannedStmts
    PROVE  StartState(p) \in QueryStateType
<1>1. plannerStates[p] \in PlannerStateType /\ plans[p].text \in TextType
  BY Types DEF PlanType
<1>2. FindTraceContext(plans[p].text) \in ContextType
  BY <1>1, FoundContext
<1>3. PushIndex \in Int /\ NewId \in Nat
  BY Types DEF PushIndex, NewId
<1> QED  BY <1>1, <1>2, <1>3, SmallValues DEF StartState, QueryStateType, PlannerStateType

\* The spans of a query: its own comes first, a planner span only second.
LEMMA SpansOfQuery ==
    ASSUME NEW state \in QueryStateType, NEW planner \in PlannerStateType,
           NEW text \in TextType, NEW cause \in Nat, NEW succeeded \in BOOLEAN
    PROVE  LET spans == QuerySpans(state, planner, text, cause, succeeded) IN
           /\ spans \in Seq(SpanType)
           /\ state.id = 0 => spans = <<>>
           /\ state.id # 0 =>
                /\ Len(spans) >= 1
                /\ spans[1] = SpanOf("query", state.id, state.context, text, cause)
                /\ \A i \in 1..Len(spans) : i # 1 =>
                     \/ /\ i = 2 /\ planner.hasSpan
                        /\ spans[i] = ChildSpan("planner", planner.id, planner.context)
                     \/ spans[i] = ChildSpan("node", state.id, state.context)
<1> DEFINE a == SpanOf("query", state.id, state.context, text, cause)
           b == ChildSpan("planner", planner.id, planner.context)
           c == ChildSpan("node", state.id, state.context)
           s == IF planner.hasSpan THEN <<b>> ELSE <<>>
           t == IF succeeded THEN <<c>> ELSE <<>>
<1>1. a \in SpanType /\ b \in SpanType /\ c \in SpanType
  BY SmallValues DEF SpanType, SpanOf, ChildSpan, QueryStateType, PlannerStateType, ContextType
<1>2. <<a>> \in Seq(SpanType) /\ s \in Seq(SpanType) /\ t \in Seq(SpanType)
  BY <1>1
<1>3. /\ Len(<<a>>) = 1 /\ <<a>>[1] = a
      /\ Len(s) = IF planner.hasSpan THEN 1 ELSE 0
      /\ \A i \in 1..Len(s) : i = 1 /\ planner.hasSpan /\ s[i] = b
      /\ Len(t) = IF succeeded THEN 1 ELSE 0
      /\ \A i \in 1..Len(t) : i = 1 /\ t[i] = c
  OBVIOUS
<1> HIDE DEF a, b, c, s, t
<1>4. /\ <<a>> \o s \in Seq(SpanType)
      /\ Len(<<a>> \o s) = 1 + Len(s)
      /\ \A i \in 1..1 + Len(s) :
            (<<a>> \o s)[i] = IF i <= 1 THEN <<a>>[i] ELSE s[i - 1]
  BY <1>2, <1>3, ConcatProperties
<1>5. /\ (<<a>> \o s) \o t \in Seq(SpanType)
      /\ Len((<<a>> \o s) \o t) = 1 + Len(s) + Len(t)
      /\ \A i \in 1..1 + Len(s) + Len(t) :
            ((<<a>> \o s) \o t)[i] = IF i <= 1 + Len(s) THEN (<<a>> \o s)[i]
                                                        ELSE t[i - (1 + Len(s))]
  BY <1>2, <1>4, ConcatProperties
<1>6. Len(s) \in Nat /\ Len(t) \in Nat
  BY <1>2, LenProperties
<1>7. ASSUME NEW i \in 1..1 + Len(s) + Len(t), i # 1
      PROVE  \/ i = 2 /\ planner.hasSpan /\ ((<<a>> \o s) \o t)[i] = b
             \/ ((<<a>> \o s) \o t)[i] = c
  <2>1. CASE i <= 1 + Len(s)
    <3>1. i - 1 \in 1..Len(s) /\ i \in 1..1 + Len(s)
      BY <1>6, <1>7, <2>1
    <3>2. ((<<a>> \o s) \o t)[i] = s[i - 1]
      BY <1>4, <1>5, <1>7, <2>1, <3>1
    <3> QED  BY <1>3, <3>1, <3>2
  <2>2. CASE ~(i <= 1 + Len(s))
    <3>1. i - (1 + Len(s)) \in 1..Len(t)
      BY <1>6, <1>7, <2>2
    <3>2. ((<<a>> \o s) \o t)[i] = t[i - (1 + Len(s))]
      BY <1>5, <2>2
    <3> QED  BY <1>3, <3>1, <3>2
  <2> QED  BY <2>1, <2>2
<1>8. ((<<a>> \o s) \o t)[1] = a
  BY <1>3, <1>4, <1>5, <1>6
<1>9. QuerySpans(state, planner, text, cause, succeeded) =
        IF state.id = 0 THEN <<>> ELSE (<<a>> \o s) \o t
  BY DEF QuerySpans, a, b, c, s, t
<1>10. CASE state.id = 0
  BY <1>9, <1>10, EmptySeq
<1>11. CASE state.id # 0
  <2>1. Len((<<a>> \o s) \o t) >= 1
    BY <1>5, <1>6
  <2> QED  BY <1>5, <1>7, <1>8, <1>9, <1>11, <2>1 DEF a, b, c
<1> QED  BY <1>10, <1>11

-----------------------------------------------------------------------------
\* Type correctness, piece by piece.
EmittedType ==
    /\ emitted \in Seq(SpanType)
    /\ reported \subseteq Nat /\ parents \subseteq Nat /\ reportedTwice \in BOOLEAN
TracedType ==
    /\ stack \in Seq(FrameType) /\ Len(stack) <= MaxActiveSpans
    /\ queryStates \in [QueryDescs -> QueryStateType]
    /\ plannerStates \in [PlannedStmts -> PlannerStateType]
WorkType ==
    /\ open \in [QueryDescs -> [plan : PlannedStmts \cup {"none"}, cause : Nat]]
    /\ plans \in [PlannedStmts -> PlanType]
OtherType == mode \in Modes /\ error \in BOOLEAN /\ xact \in Nat

LEMMA TypeParts ==
    /\ EmittedType' /\ TracedType' /\ WorkType' /\ OtherType'
    /\ calls' \in Seq(CallType) /\ bornIn' \in Seq(Nat)
    => TypeOK'
BY DEF TypeOK, EmittedType, SpanType, TracedType, FrameType, QueryStateType,
       PlannerStateType, WorkType, PlanType, OtherType, CallType

LEMMA EmitNothing ==
    ASSUME TypeOK, Emit(<<>>)
    PROVE  /\ emitted' = <<>> /\ reported' = reported /\ parents' = parents
           /\ reportedTwice' = reportedTwice
BY Types, EmptySeq, SMT DEF Emit, Statements

LEMMA EmitType ==
    ASSUME TypeOK, NEW spans \in Seq(SpanType), Emit(spans)
    PROVE  EmittedType'
<1>1. \A i \in 1..Len(spans) : spans[i] \in SpanType
  BY ElementOfSeq
<1>2. {spans[i].id : i \in Statements(spans)} \subseteq Nat
  BY <1>1 DEF Statements, SpanType
<1> QED  BY <1>2, Types DEF Emit, EmittedType

LEMMA EnterType ==
    ASSUME TypeOK, NEW call \in CallType, Enter(call)
    PROVE  calls' \in Seq(CallType)
BY CallsType, AppendProperties DEF Enter

LEMMA NewIdType ==
    ASSUME TypeOK
    PROVE  /\ NewId \in Nat /\ NewId > 0
           /\ GenerateSpanId =>
                /\ bornIn' \in Seq(Nat) /\ Len(bornIn') = NewId
                /\ bornIn'[NewId] = xact
                /\ \A k \in 1..Len(bornIn) : bornIn'[k] = bornIn[k]
<1>1. NewId \in Nat /\ NewId > 0
  BY Types DEF NewId
<1>2. GenerateSpanId =>
         /\ bornIn' \in Seq(Nat) /\ Len(bornIn') = NewId
         /\ bornIn'[NewId] = xact
         /\ \A k \in 1..Len(bornIn) : bornIn'[k] = bornIn[k]
  BY Types, AppendProperties DEF GenerateSpanId, NewId
<1> QED  BY <1>1, <1>2

LEMMA TopType ==
    ASSUME TypeOK, calls # <<>>
    PROVE  Top \in CallType /\ Len(calls) \in 1..Len(calls)
BY CallsType, EmptySeq DEF Top

LEMMA PlanOfOpen ==
    ASSUME TypeOK, OpenHasPlan, NEW q \in QueryDescs, open[q] # NoQuery
    PROVE  /\ open[q].plan \in PlannedStmts /\ open[q].cause \in Nat
           /\ plans[open[q].plan] \in PlanType
           /\ plannerStates[open[q].plan] \in PlannerStateType
BY Types DEF OpenHasPlan

LEMMA EmitQueryType ==
    ASSUME TypeOK, OpenHasPlan, NEW q \in QueryDescs, open[q] # NoQuery,
           NEW succeeded \in BOOLEAN, EmitQuery(q, succeeded)
    PROVE  EmittedType'
<1> DEFINE p == open[q].plan
           spans == QuerySpans(queryStates[q], plannerStates[p], plans[p].text,
                               open[q].cause, succeeded)
<1>1. spans \in Seq(SpanType)
  <2>1. queryStates[q] \in QueryStateType /\ plans[p].text \in TextType
    BY PlanOfOpen, Types DEF PlanType
  <2> QED  BY <2>1, PlanOfOpen, SpansOfQuery
<1> QED  BY <1>1, EmitType DEF EmitQuery

LEMMA DeleteType ==
    ASSUME TypeOK, NEW q \in QueryDescs, DeleteTraceStates(q)
    PROVE  TracedType'
<1>1. queryStates[q].index \in Int
  BY Types DEF QueryStateType
<1>2. stack' \in Seq(FrameType) /\ Len(stack') <= MaxActiveSpans
  BY <1>1, PoppedStack, Types, HooksAssumption DEF DeleteTraceStates
<1> QED  BY <1>2, Types, SmallValues DEF DeleteTraceStates, TracedType

LEMMA CloseType ==
    ASSUME TypeOK, NEW queries, Close(queries)
    PROVE  WorkType'
BY Types, SmallValues DEF Close, WorkType

LEMMA PopType ==
    ASSUME TypeOK, NEW index \in Int, stack' = PoppedTo(index),
           UNCHANGED <<queryStates, plannerStates>>
    PROVE  TracedType'
BY PoppedStack, Types, HooksAssumption DEF TracedType

LEMMA XactEndType ==
    ASSUME TypeOK, XactEndCallback
    PROVE  TracedType' /\ xact' \in Nat
BY Types, SmallValues, EmptySeq, HooksAssumption DEF XactEndCallback, TracedType

LEMMA PlannerCallType ==
    ASSUME TypeOK, Depths, NEW text \in Texts, PlannerCall(text)
    PROVE  TypeOK'
<1>1. text \in TextType /\ FindTraceContext(text) \in ContextType /\ Cause \in Nat
  BY SmallValues, FoundContext, CauseIsExecuting
<1>2. EmittedType'
  BY EmitNothing, Types DEF PlannerCall, EmittedType
<1>3. calls' \in Seq(CallType) /\ bornIn' \in Seq(Nat)
  <2>1. /\ Call("plan", "none", text, NoContext, 0, -1, Cause) \in CallType
        /\ Call("plan", "none", text, FindTraceContext(text), NewId, -1, Cause) \in CallType
    BY <1>1, NewIdType, SmallValues DEF Call, CallType
  <2> QED  BY <2>1, EnterType, NewIdType, Types DEF PlannerCall
<1> QED  BY <1>2, <1>3, Types, CallsType, TypeParts
            DEF PlannerCall, TracedType, WorkType, OtherType

LEMMA PlannerReturnType ==
    ASSUME TypeOK, NEW returned \in PlannedStmts, NEW kept \in PlannedStmts,
           PlannerReturn(returned, kept)
    PROVE  TypeOK'
<1>1. Top \in CallType /\ calls' \in Seq(CallType)
  BY TopType, LeaveCalls DEF PlannerReturn
<1>2. EmittedType'
  BY EmitNothing, Types DEF PlannerReturn, EmittedType
<1>3. TracedType'
  BY <1>1, Types DEF PlannerReturn, TracedType, PlannerStateType, CallType
<1>4. WorkType'
  BY <1>1, Types DEF PlannerReturn, WorkType, PlanType, CallType
<1> QED  BY <1>1, <1>2, <1>3, <1>4, Types, CallsType, TypeParts DEF PlannerReturn, OtherType

LEMMA PlannerErrorType ==
    ASSUME TypeOK, PlannerError
    PROVE  TypeOK'
<1>1. Top \in CallType /\ calls' \in Seq(CallType)
  BY TopType, LeaveCalls DEF PlannerError
<1>2. /\ SpanOf("query", Top.id, Top.context, Top.text, Top.cause) \in SpanType
      /\ ChildSpan("planner", Top.id, Top.context) \in SpanType
  BY <1>1, SmallValues DEF SpanOf, ChildSpan, SpanType, CallType, ContextType
<1>3. EmittedType'
  <2> DEFINE spans ==
        IF Top.id = 0 THEN <<>>
        ELSE <<SpanOf("query", Top.id, Top.context, Top.text, Top.cause),
               ChildSpan("planner", Top.id, Top.context)>>
  <2>1. spans \in Seq(SpanType)
    BY <1>2, EmptySeq
  <2>2. Emit(spans)
    BY DEF PlannerError
  <2> QED  BY <2>1, <2>2, EmitType
<1> QED  BY <1>1, <1>3, Types, CallsType, TypeParts DEF PlannerError, TracedType, WorkType, OtherType

LEMMA ExecutorStartType ==
    ASSUME TypeOK, Depths, NEW q \in QueryDescs, NEW p \in PlannedStmts, ExecutorStart(q, p)
    PROVE  TypeOK'
<1>1. StartState(p) \in QueryStateType /\ Cause \in Nat
  BY StartedState, CauseIsExecuting
<1>2. EmittedType'
  BY EmitNothing, Types DEF ExecutorStart, EmittedType
<1>3. bornIn' \in Seq(Nat)
  BY NewIdType, Types DEF ExecutorStart, MayExecute
<1>4. stack' \in Seq(FrameType) /\ Len(stack') <= MaxActiveSpans
  <2>1. /\ Pushed(StartState(p).context, StartState(p).id) \in Seq(FrameType)
        /\ Len(Pushed(StartState(p).context, StartState(p).id)) <= MaxActiveSpans
    BY <1>1, PushedStack, Types, HooksAssumption DEF QueryStateType
  <2> QED  BY <2>1, Types DEF ExecutorStart
<1>5. TracedType' /\ WorkType'
  BY <1>1, <1>4, Types, SmallValues DEF ExecutorStart, TracedType, WorkType
<1> QED  BY <1>2, <1>3, <1>5, Types, CallsType, TypeParts DEF ExecutorStart, OtherType

LEMMA ExecutorStartErrorType ==
    ASSUME TypeOK, Depths, NEW q \in QueryDescs, NEW p \in PlannedStmts,
           ExecutorStartError(q, p)
    PROVE  TypeOK'
<1>1. StartState(p) \in QueryStateType /\ Cause \in Nat
  BY StartedState, CauseIsExecuting
<1>2. EmittedType'
  <2>1. plannerStates[p] \in PlannerStateType /\ plans[p].text \in TextType
    BY Types DEF PlanType
  <2>2. QuerySpans(StartState(p), plannerStates[p], plans[p].text, Cause, FALSE)
          \in Seq(SpanType)
    BY <1>1, <2>1, SpansOfQuery
  <2> QED  BY <2>2, EmitType DEF ExecutorStartError
<1>3. bornIn' \in Seq(Nat)
  BY NewIdType, Types DEF ExecutorStartError, MayExecute
<1>4. TracedType' /\ WorkType' /\ OtherType'
  BY Types, SmallValues DEF ExecutorStartError, TracedType, WorkType, OtherType
<1> QED  BY <1>2, <1>3, <1>4, Types, CallsType, TypeParts DEF ExecutorStartError

LEMMA ExecutorErrorType ==
    ASSUME TypeOK, OpenHasPlan, RunsOpen, ExecutorError
    PROVE  TypeOK'
<1>1. Top.query \in QueryDescs /\ open[Top.query] # NoQuery
  BY TopType DEF ExecutorError, RunsOpen, Top
<1>2. EmittedType'
  BY <1>1, EmitQueryType DEF ExecutorError
<1>3. TracedType' /\ WorkType'
  BY <1>1, DeleteType, CloseType DEF ExecutorError
<1>4. calls' \in Seq(CallType)
  BY LeaveCalls DEF ExecutorError
<1> QED  BY <1>2, <1>3, <1>4, Types, CallsType, TypeParts DEF ExecutorError, OtherType

LEMMA ExecutorEndType ==
    ASSUME TypeOK, OpenHasPlan, NEW q \in QueryDescs, ExecutorEnd(q)
    PROVE  TypeOK'
<1>1. open[q] # NoQuery
  BY DEF ExecutorEnd, Idle
<1>2. EmittedType'
  BY <1>1, EmitQueryType DEF ExecutorEnd
<1>3. TracedType' /\ WorkType'
  BY DeleteType, CloseType DEF ExecutorEnd
<1> QED  BY <1>2, <1>3, Types, CallsType, TypeParts DEF ExecutorEnd, OtherType

LEMMA UtilityCallType ==
    ASSUME TypeOK, Depths, NEW text \in Texts, UtilityCall(text)
    PROVE  TypeOK'
<1> DEFINE context == FindTraceContext(text)
<1>1. text \in TextType /\ context \in ContextType /\ Cause \in Nat /\ NewId \in Nat
  BY SmallValues, FoundContext, CauseIsExecuting, NewIdType
<1>2. EmittedType'
  BY EmitNothing, Types DEF UtilityCall, EmittedType
<1>3. calls' \in Seq(CallType) /\ bornIn' \in Seq(Nat)
  <2>1. /\ Call("utility", "none", NoText, NoContext, 0, -1, 0) \in CallType
        /\ Call("utility", "none", text, context, NewId, PushIndex, Cause) \in CallType
    BY <1>1, PushedStack, SmallValues DEF Call, CallType
  <2> QED  BY <2>1, EnterType, NewIdType, Types DEF UtilityCall
<1>4. TracedType'
  <2>1. /\ Pushed(context, NewId) \in Seq(FrameType)
        /\ Len(Pushed(context, NewId)) <= MaxActiveSpans
    BY <1>1, PushedStack, Types, HooksAssumption
  <2> QED  BY <2>1, Types DEF UtilityCall, TracedType
<1> QED  BY <1>2, <1>3, <1>4, Types, CallsType, TypeParts DEF UtilityCall, WorkType, OtherType

LEMMA UtilityReturnType ==
    ASSUME TypeOK, UtilityReturn
    PROVE  TypeOK'
<1>1. Top \in CallType /\ calls' \in Seq(CallType)
  BY TopType, LeaveCalls DEF UtilityReturn
<1>2. SpanOf("utility", Top.id, Top.context, Top.text, Top.cause) \in SpanType
  BY <1>1 DEF SpanOf, SpanType, CallType
<1>3. EmittedType'
  <2> DEFINE spans ==
        IF Top.id = 0 THEN <<>>
        ELSE <<SpanOf("utility", Top.id, Top.context, Top.text, Top.cause)>>
  <2>1. spans \in Seq(SpanType)
    BY <1>2, EmptySeq
  <2>2. Emit(spans)
    BY DEF UtilityReturn
  <2> QED  BY <2>1, <2>2, EmitType
<1>4. TracedType'
  BY <1>1, PopType DEF UtilityReturn, CallType
<1> QED  BY <1>1, <1>3, <1>4, Types, CallsType, TypeParts DEF UtilityReturn, WorkType, OtherType

\* ExecutorCall and ExecutorReturn change the calls only.
LEMMA ExecutorCallType ==
    ASSUME TypeOK, \/ \E q \in QueryDescs : ExecutorCall(q)
                   \/ ExecutorReturn
    PROVE  TypeOK'
<1>1. EmittedType'
  <2>1. Emit(<<>>)
    BY DEF ExecutorCall, ExecutorReturn
  <2> QED  BY <2>1, EmitNothing, Types, EmptySeq DEF EmittedType
<1>2. ASSUME NEW q \in QueryDescs, ExecutorCall(q)
      PROVE  calls' \in Seq(CallType)
  <2>1. Call("run", q, NoText, NoContext, queryStates[q].id, -1, 0) \in CallType
    BY Types, SmallValues DEF Call, CallType, QueryStateType
  <2> QED  BY <1>2, <2>1, EnterType DEF ExecutorCall
<1>3. CASE ExecutorReturn
  <2>1. calls' \in Seq(CallType)
    BY <1>3, LeaveCalls DEF ExecutorReturn
  <2> QED  BY <1>1, <1>3, <2>1, Types, CallsType, TypeParts
              DEF ExecutorReturn, TracedType, WorkType, OtherType
<1> QED  BY <1>1, <1>2, <1>3, Types, CallsType, TypeParts DEF ExecutorCall, TracedType, WorkType, OtherType

\* The rest emits nothing and leaves the calls alone.
LEMMA QuietType ==
    ASSUME TypeOK,
           \/ Commit \/ Abort
           \/ RaiseError \/ \E freed \in SUBSET Idle : CatchError(freed)
           \/ \E p \in PlannedStmts : FreePlan(p)
           \/ \E m \in Modes : SetMode(m)
    PROVE  TypeOK'
<1>1. EmittedType'
  <2>1. Emit(<<>>)
    BY DEF Commit, Abort, RaiseError, CatchError, FreePlan, SetMode
  <2> QED  BY <2>1, EmitNothing, Types, EmptySeq DEF EmittedType
<1>2. CASE Commit \/ Abort
  <2>1. TracedType' /\ xact' \in Nat
    BY <1>2, XactEndType DEF Commit, Abort
  <2>2. WorkType'
    BY <1>2, Types, SmallValues DEF Commit, Abort, ReleasePlans, WorkType
  <2> QED  BY <1>1, <1>2, <2>1, <2>2, Types, CallsType, TypeParts DEF Commit, Abort, OtherType
<1>3. CASE RaiseError \/ \E m \in Modes : SetMode(m)
  BY <1>1, <1>3, Types, CallsType, TypeParts DEF RaiseError, SetMode, TracedType, WorkType, OtherType
<1>4. ASSUME NEW freed \in SUBSET Idle, CatchError(freed)
      PROVE  TypeOK'
  BY <1>1, <1>4, CloseType, Types, CallsType, TypeParts DEF CatchError, TracedType, OtherType
<1>5. ASSUME NEW p \in PlannedStmts, FreePlan(p)
      PROVE  TypeOK'
  <2>1. WorkType'
    BY <1>5, Types, SmallValues DEF FreePlan, WorkType
  <2> QED  BY <1>1, <1>5, <2>1, Types, CallsType, TypeParts DEF FreePlan, TracedType, OtherType
<1> QED  BY <1>2, <1>3, <1>4, <1>5

LEMMA StepTypeOK ==
    ASSUME HInv, [Next]_vars
    PROVE  TypeOK'
<1> USE DEF HInv, Linked
<1>1. CASE UNCHANGED vars
  BY <1>1 DEF vars, history, TypeOK
<1>2. CASE Next
  BY <1>2, PlannerCallType, UtilityCallType, PlannerReturnType, PlannerErrorType,
     ExecutorStartType, ExecutorStartErrorType, ExecutorCallType, ExecutorEndType,
     ExecutorErrorType, UtilityReturnType, QuietType DEF Next
<1> QED  BY <1>1, <1>2

-----------------------------------------------------------------------------
\* The links are kept.
LEMMA KeptCalls ==
    ASSUME TypeOK, calls' = calls \/ (calls # <<>> /\ Leave)
    PROVE  /\ Len(calls') \in Nat /\ Len(calls') <= Len(calls)
           /\ \A i \in 1..Len(calls') : i \in 1..Len(calls) /\ calls'[i] = calls[i]
<1>1. CASE UNCHANGED calls
  BY <1>1, CallsType
<1>2. CASE calls # <<>> /\ Leave
  BY <1>2, LeaveCalls
<1> QED  BY <1>1, <1>2

LEMMA RunsKept ==
    ASSUME TypeOK, RunsOpen, calls' = calls \/ (calls # <<>> /\ Leave),
           \A i \in 1..Len(calls') : calls[i].kind = "run" => open'[calls[i].query] # NoQuery
    PROVE  RunsOpen'
BY KeptCalls DEF RunsOpen

\* Only an open executor is running.
LEMMA RunningIsOpen ==
    ASSUME RunsOpen, NEW i \in 1..Len(calls), calls[i].query \in QueryDescs
    PROVE  calls[i].kind = "run" /\ open[calls[i].query] # NoQuery
BY AddressAssumption DEF RunsOpen

LEMMA RunsEntered ==
    ASSUME TypeOK, RunsOpen, NEW call, Enter(call), UNCHANGED open,
           \/ call.kind # "run" /\ call.query = "none"
           \/ call.kind = "run" /\ call.query \in Idle
    PROVE  RunsOpen'
<1>1. CASE call.kind # "run" /\ call.query = "none"
  BY <1>1, EnterCalls, CallsType, AddressAssumption DEF RunsOpen
<1>2. CASE call.kind = "run" /\ call.query \in Idle
  BY <1>2, EnterCalls, CallsType, AddressAssumption DEF RunsOpen, Idle
<1> QED  BY <1>1, <1>2

LEMMA CloseLinks ==
    ASSUME TypeOK, OpenHasPlan, OneShotOnce,
           NEW queries \in SUBSET QueryDescs, Close(queries)
    PROVE  /\ OpenHasPlan' /\ OneShotOnce'
           /\ \A q \in QueryDescs : open'[q] # NoQuery <=> open[q] # NoQuery /\ q \notin queries
           /\ \A q \in QueryDescs : open'[q] # NoQuery =>
                /\ open'[q] = open[q]
                /\ plans'[open[q].plan] = plans[open[q].plan]
<1>1. \A q \in QueryDescs : open'[q] = IF q \in queries THEN NoQuery ELSE open[q]
  BY DEF Close
<1>2. ASSUME NEW q \in QueryDescs, open'[q] # NoQuery
      PROVE  /\ open[q] # NoQuery /\ q \notin queries /\ open'[q] = open[q]
             /\ open[q].plan \in PlannedStmts /\ plans[open[q].plan] # NoPlan
             /\ plans'[open[q].plan] = plans[open[q].plan]
  <2>1. open[q] # NoQuery /\ q \notin queries /\ open'[q] = open[q]
    BY <1>1, <1>2
  <2>2. open[q].plan \in PlannedStmts /\ plans[open[q].plan] # NoPlan
    BY <2>1 DEF OpenHasPlan
  <2>3. plans[open[q].plan].kind = "one-shot" =>
           ~ \E r \in queries : open[r].plan = open[q].plan
    <3> SUFFICES ASSUME NEW r \in queries, open[r].plan = open[q].plan,
                        plans[open[q].plan].kind = "one-shot"
                 PROVE  FALSE
      OBVIOUS
    <3>1. r \in QueryDescs => r = q
      BY <2>1 DEF OneShotOnce
    <3> QED  BY <2>1, <3>1
  <2> QED  BY <2>1, <2>2, <2>3 DEF Close
<1>3. OpenHasPlan'
  BY <1>2 DEF OpenHasPlan
<1>4. OneShotOnce'
  <2> SUFFICES ASSUME NEW q \in QueryDescs, NEW r \in QueryDescs, open'[q] # NoQuery,
                      open'[r].plan = open'[q].plan,
                      plans'[open'[q].plan].kind = "one-shot"
               PROVE  q = r
    BY DEF OneShotOnce
  <2>1. open'[r] # NoQuery
    BY <1>2, AddressAssumption DEF NoQuery
  <2> QED  BY <1>2, <2>1 DEF OneShotOnce
<1> QED  BY <1>1, <1>2, <1>3, <1>4

LEMMA PlansKept ==
    ASSUME OpenHasPlan, OneShotOnce, UNCHANGED open,
           \A q \in QueryDescs : open[q] # NoQuery => plans'[open[q].plan] = plans[open[q].plan]
    PROVE  OpenHasPlan' /\ OneShotOnce'
BY DEF OpenHasPlan, OneShotOnce

LEMMA StepLinked ==
    ASSUME HInv, [Next]_vars
    PROVE  Linked'
<1> USE DEF HInv, Linked
<1>1. ASSUME open' = open, plans' = plans
      PROVE  OpenHasPlan' /\ OneShotOnce'
  BY <1>1, PlansKept
<1>2. ASSUME open' = open, calls' = calls \/ (calls # <<>> /\ Leave)
      PROVE  RunsOpen'
  BY <1>2, RunsKept, KeptCalls DEF RunsOpen
<1>3. ASSUME NEW text \in Texts, PlannerCall(text) \/ UtilityCall(text)
      PROVE  Linked'
  <2>1. PICK call : Enter(call) /\ call.kind # "run" /\ call.query = "none"
    BY <1>3 DEF PlannerCall, UtilityCall, Call
  <2> QED  BY <1>1, <1>3, <2>1, RunsEntered DEF PlannerCall, UtilityCall
<1>4. ASSUME NEW returned \in PlannedStmts, NEW kept \in PlannedStmts,
             PlannerReturn(returned, kept)
      PROVE  Linked'
  <2>1. RunsOpen'
    BY <1>2, <1>4 DEF PlannerReturn
  <2>2. ASSUME NEW q \in QueryDescs, open[q] # NoQuery
        PROVE  plans'[open[q].plan] = plans[open[q].plan]
    BY <1>4, <2>2, Types DEF OpenHasPlan, PlannerReturn, Allocatable
  <2> QED  BY <1>4, <2>1, <2>2, PlansKept DEF PlannerReturn
<1>5. CASE PlannerError \/ ExecutorReturn \/ UtilityReturn
  BY <1>1, <1>2, <1>5 DEF PlannerError, ExecutorReturn, UtilityReturn
<1>6. ASSUME NEW q \in QueryDescs, NEW p \in PlannedStmts, ExecutorStart(q, p)
      PROVE  Linked'
  <2>1. /\ open' = [open EXCEPT ![q] = [plan |-> p, cause |-> Cause]]
        /\ UNCHANGED <<calls, plans>> /\ plans[p] # NoPlan /\ open[q] = NoQuery
        /\ plans[p].kind = "one-shot" => \A other \in QueryDescs : open[other].plan # p
    BY <1>6 DEF ExecutorStart, MayExecute
  <2>2. \A r \in QueryDescs :
           open'[r] = IF r = q THEN [plan |-> p, cause |-> Cause] ELSE open[r]
    BY <2>1, Types
  <2>3. open'[q] # NoQuery
    BY <2>2, AddressAssumption DEF NoQuery
  <2>4. OpenHasPlan'
    BY <2>1, <2>2 DEF OpenHasPlan
  <2>5. OneShotOnce'
    BY <2>1, <2>2 DEF OneShotOnce, OpenHasPlan
  <2>6. RunsOpen'
    BY <2>1, <2>2, <2>3, RunsKept, KeptCalls DEF RunsOpen
  <2> QED  BY <2>4, <2>5, <2>6
<1>7. ASSUME NEW q \in QueryDescs, NEW p \in PlannedStmts, ExecutorStartError(q, p)
      PROVE  Linked'
  <2>1. /\ calls' = calls /\ open' = open
        /\ plans' = IF plans[p].kind = "one-shot" THEN [plans EXCEPT ![p] = NoPlan] ELSE plans
        /\ plans[p].kind = "one-shot" => \A other \in QueryDescs : open[other].plan # p
    BY <1>7 DEF ExecutorStartError, MayExecute
  <2>2. ASSUME NEW r \in QueryDescs, open[r] # NoQuery
        PROVE  plans'[open[r].plan] = plans[open[r].plan]
    BY <2>1, <2>2, Types
  <2>3. RunsOpen'
    BY <1>2, <2>1
  <2>4. OpenHasPlan' /\ OneShotOnce'
    BY <2>1, <2>2, PlansKept
  <2> QED  BY <2>3, <2>4
<1>8. ASSUME NEW q \in QueryDescs, ExecutorCall(q)
      PROVE  Linked'
  <2>1. PICK call : Enter(call) /\ call.kind = "run" /\ call.query = q
    BY <1>8 DEF ExecutorCall, Call
  <2> QED  BY <1>1, <1>8, <2>1, RunsEntered DEF ExecutorCall
<1>9. ASSUME NEW q \in QueryDescs, ExecutorEnd(q)
      PROVE  Linked'
  <2>1. Close({q}) /\ q \in Idle /\ UNCHANGED calls
    BY <1>9 DEF ExecutorEnd
  <2>2. OpenHasPlan' /\ OneShotOnce'
    BY <2>1, CloseLinks
  <2>3. \A i \in 1..Len(calls) : calls[i].query # q
    BY <2>1 DEF Idle
  <2> QED  BY <2>1, <2>2, <2>3, CloseLinks, RunsKept, KeptCalls DEF RunsOpen
<1>10. CASE ExecutorError
  <2>1. /\ Close({Top.query}) /\ calls # <<>> /\ Leave /\ Top.kind = "run"
        /\ Top = calls[Len(calls)] /\ Len(calls) \in 1..Len(calls)
    BY <1>10, TopType DEF ExecutorError, Top
  <2>2. Top.query \in QueryDescs
    BY <2>1 DEF RunsOpen
  <2>3. OpenHasPlan' /\ OneShotOnce'
    BY <2>1, <2>2, CloseLinks
  <2>4. ASSUME NEW i \in 1..Len(calls'), calls[i].kind = "run"
        PROVE  open'[calls[i].query] # NoQuery
    <3>1. i \in 1..Len(calls) /\ i # Len(calls)
      BY <2>1, LeaveCalls
    <3>2. calls[i].query \in QueryDescs /\ open[calls[i].query] # NoQuery
      BY <2>4, <3>1 DEF RunsOpen
    <3>3. calls[i].query # Top.query
      BY <2>1, <3>1 DEF RunsOpen
    <3> QED  BY <2>1, <2>2, <3>2, <3>3, CloseLinks
  <2> QED  BY <2>1, <2>3, <2>4, RunsKept
<1>11. CASE Commit \/ Abort
  <2>1. /\ UNCHANGED calls
        /\ open' = [q \in QueryDescs |-> NoQuery]
        /\ \A i \in 1..Len(calls) : calls[i].kind # "run"
    <3>1. CASE Commit
      <4>1. open = [q \in QueryDescs |-> NoQuery]
        BY <3>1, Types DEF Commit
      <4> QED  BY <3>1, <4>1 DEF Commit, RunsOpen
    <3>2. CASE Abort
      BY <3>2, EmptySeq, SMT DEF Abort
    <3> QED  BY <1>11, <3>1, <3>2
  <2>2. OpenHasPlan' /\ OneShotOnce'
    BY <2>1 DEF OpenHasPlan, OneShotOnce
  <2> QED  BY <2>1, <2>2 DEF RunsOpen
<1>12. ASSUME NEW freed \in SUBSET Idle, CatchError(freed)
       PROVE  Linked'
  <2>1. Close(freed) /\ calls' = calls /\ freed \in SUBSET QueryDescs
    BY <1>12 DEF CatchError, Idle
  <2>2. OpenHasPlan' /\ OneShotOnce'
    BY <2>1, CloseLinks
  <2>3. ASSUME NEW i \in 1..Len(calls'), calls[i].kind = "run"
        PROVE  open'[calls[i].query] # NoQuery
    <3>1. i \in 1..Len(calls)
      BY <2>1
    <3>2. calls[i].query \in QueryDescs /\ open[calls[i].query] # NoQuery
      BY <2>3, <3>1 DEF RunsOpen
    <3>3. calls[i].query \notin freed
      BY <3>1 DEF Idle
    <3> QED  BY <2>1, <3>2, <3>3, CloseLinks
  <2>4. RunsOpen'
    BY <2>1, <2>3, RunsKept
  <2> QED  BY <2>2, <2>4
<1>13. ASSUME NEW p \in PlannedStmts, FreePlan(p)
       PROVE  Linked'
  <2>1. ASSUME NEW q \in QueryDescs, open[q] # NoQuery
        PROVE  plans'[open[q].plan] = plans[open[q].plan]
    BY <1>13, <2>1, Types DEF FreePlan
  <2>2. calls' = calls /\ open' = open
    BY <1>13 DEF FreePlan
  <2>3. RunsOpen'
    BY <1>2, <2>2
  <2>4. OpenHasPlan' /\ OneShotOnce'
    BY <2>1, <2>2, PlansKept
  <2> QED  BY <2>3, <2>4
<1>14. CASE RaiseError \/ (\E m \in Modes : SetMode(m)) \/ UNCHANGED vars
  <2>1. calls' = calls /\ open' = open /\ plans' = plans
    BY <1>14 DEF RaiseError, SetMode, vars
  <2>2. RunsOpen'
    BY <1>2, <2>1
  <2> QED  BY <1>1, <2>1, <2>2
<1> QED  BY <1>3, <1>4, <1>5, <1>6, <1>7, <1>8, <1>9, <1>10, <1>11, <1>12, <1>13, <1>14
            DEF Next

LEMMA InitHInv == Init => HInv
<1> SUFFICES ASSUME Init
             PROVE  HInv
  OBVIOUS
<1>1. Executing = {} /\ Cardinality(Executing) = 0
  BY FS_EmptySet DEF Init, Executing
<1>2. TypeOK
  <2>1. mode \in Modes /\ stack = <<>> /\ emitted = <<>> /\ calls = <<>> /\ bornIn = <<>>
    BY DEF Init
  <2>2. EmittedType /\ TracedType
    <3>1. <<>> \in Seq(SpanType) /\ <<>> \in Seq(FrameType) /\ Len(<<>>) <= MaxActiveSpans
      BY HooksAssumption
    <3>2. EmittedType
      BY <2>1, <3>1 DEF Init, EmittedType
    <3>3. TracedType
      BY <2>1, <3>1, SmallValues DEF Init, TracedType
    <3> QED  BY <3>2, <3>3
  <2>3. WorkType /\ OtherType
    BY <2>1, SmallValues DEF Init, WorkType, OtherType
  <2> QED  BY <2>1, <2>2, <2>3, EmptySeq
           DEF TypeOK, EmittedType, SpanType, TracedType, FrameType, QueryStateType,
               PlannerStateType, WorkType, PlanType, OtherType
<1> QED  BY <1>1, <1>2
            DEF Init, HInv, Depths, Linked, OpenHasPlan, OneShotOnce, RunsOpen

LEMMA StepHInv ==
    ASSUME HInv, [Next]_vars
    PROVE  HInv'
BY StepTypeOK, StepDepths, StepLinked DEF HInv

LEMMA AlwaysHInv == Spec => []HInv
BY InitHInv, StepHInv, PTL DEF Spec

\* Every variable stays within its type, whatever PostgreSQL does; the stack of active
\* spans (pushActiveSpan) never outgrows its array.
THEOREM TypeCorrect == Spec => []TypeOK
<1>1. HInv => TypeOK
  BY DEF HInv
<1> QED  BY <1>1, AlwaysHInv, PTL

-----------------------------------------------------------------------------
\* Planner spans.  A planner state with a span has the id of a statement; an open
\* query and the planner state of its plan, when both are there, are of one statement.
SpanHasId == \A p \in PlannedStmts : plannerStates[p].hasSpan => plannerStates[p].id # 0

PlannerOfQuery ==
    \A q \in QueryDescs :
        /\ open[q] # NoQuery /\ queryStates[q].id # 0
        /\ plannerStates[open[q].plan].hasSpan
        => /\ plannerStates[open[q].plan].id = queryStates[q].id
           /\ plannerStates[open[q].plan].context = queryStates[q].context

PlannerLinks == SpanHasId /\ PlannerOfQuery

\* A step that changes neither the trace states nor what is open keeps the links;
\* so does one that clears trace states or closes queries.
LEMMA LinksKept ==
    ASSUME PlannerLinks, OpenHasPlan,
           \A p \in PlannedStmts : \/ plannerStates'[p] = plannerStates[p]
                                   \/ plannerStates'[p] = NoPlannerState,
           \A q \in QueryDescs : open'[q] # NoQuery =>
              /\ open'[q] = open[q]
              /\ queryStates'[q] = queryStates[q] \/ queryStates'[q] = NoQueryState
    PROVE  PlannerLinks'
<1>1. SpanHasId'
  BY DEF PlannerLinks, SpanHasId, NoPlannerState
<1>2. PlannerOfQuery'
  <2> SUFFICES ASSUME NEW q \in QueryDescs, open'[q] # NoQuery, queryStates'[q].id # 0,
                      plannerStates'[open'[q].plan].hasSpan
               PROVE  /\ plannerStates'[open'[q].plan].id = queryStates'[q].id
                      /\ plannerStates'[open'[q].plan].context = queryStates'[q].context
    BY DEF PlannerOfQuery
  <2>1. open'[q] = open[q] /\ open[q] # NoQuery /\ open[q].plan \in PlannedStmts
    BY DEF OpenHasPlan
  <2>2. queryStates'[q] = queryStates[q]
    BY DEF NoQueryState
  <2>3. plannerStates'[open[q].plan] = plannerStates[open[q].plan]
    BY <2>1 DEF NoPlannerState
  <2> QED  BY <2>1, <2>2, <2>3 DEF PlannerLinks, PlannerOfQuery
<1> QED  BY <1>1, <1>2 DEF PlannerLinks

\* What the end of an executor, its error and the end of a transaction clear.
LEMMA Deleted ==
    ASSUME TypeOK, OpenHasPlan, NEW q \in QueryDescs, open[q] # NoQuery,
           DeleteTraceStates(q)
    PROVE  /\ \A r \in QueryDescs :
                 queryStates'[r] = IF r = q THEN NoQueryState ELSE queryStates[r]
           /\ \A p \in PlannedStmts :
                 plannerStates'[p] = IF p = open[q].plan THEN NoPlannerState
                                     ELSE plannerStates[p]
BY Types DEF OpenHasPlan, DeleteTraceStates

LEMMA Ended ==
    ASSUME HInv, \/ ExecutorError \/ \E q \in QueryDescs : ExecutorEnd(q)
    PROVE  \E q \in QueryDescs :
              /\ open[q] # NoQuery /\ DeleteTraceStates(q) /\ Close({q})
              /\ EmitQuery(q, FALSE) \/ EmitQuery(q, TRUE)
              /\ \/ /\ ExecutorError /\ calls # <<>> /\ Leave /\ error
                    /\ Top.kind = "run" /\ q = Top.query
                 \/ ExecutorEnd(q) /\ calls' = calls /\ q \in Idle /\ ~error
              /\ mode' = mode /\ error' = error /\ xact' = xact /\ bornIn' = bornIn
<1>1. CASE ExecutorError
  <2>1. Top.query \in QueryDescs /\ open[Top.query] # NoQuery
    BY <1>1, TopType DEF HInv, Linked, RunsOpen, ExecutorError, Top
  <2> QED  BY <1>1, <2>1 DEF ExecutorError
<1>2. ASSUME NEW q \in QueryDescs, ExecutorEnd(q)
      PROVE  /\ open[q] # NoQuery /\ DeleteTraceStates(q) /\ Close({q})
             /\ EmitQuery(q, TRUE) /\ calls' = calls /\ q \in Idle /\ ~error
             /\ mode' = mode /\ error' = error /\ xact' = xact /\ bornIn' = bornIn
  BY <1>2 DEF ExecutorEnd, Idle
<1> QED  BY <1>1, <1>2

LEMMA EndedLinks ==
    ASSUME HInv, PlannerLinks, NEW q \in QueryDescs, open[q] # NoQuery,
           DeleteTraceStates(q), Close({q})
    PROVE  PlannerLinks'
<1>1. \A r \in QueryDescs : open'[r] # NoQuery => open'[r] = open[r] /\ r # q
  BY CloseLinks DEF HInv, Linked
<1> QED  BY <1>1, Deleted, LinksKept DEF HInv, Linked

\* Steps that leave trace states and open queries alone.
LEMMA UntouchedLinks ==
    ASSUME HInv, PlannerLinks, open' = open, queryStates' = queryStates,
           plannerStates' = plannerStates
    PROVE  PlannerLinks'
BY DEF PlannerLinks, SpanHasId, PlannerOfQuery

LEMMA StepPlannerLinks ==
    ASSUME HInv, PlannerLinks, [Next]_vars
    PROVE  PlannerLinks'
<1> USE DEF HInv, Linked
<1>1. CASE \/ \E text \in Texts : PlannerCall(text) \/ UtilityCall(text)
           \/ PlannerError \/ ExecutorReturn \/ UtilityReturn \/ RaiseError
           \/ \E q \in QueryDescs : ExecutorCall(q)
           \/ \E p \in PlannedStmts : FreePlan(p)
           \/ \E m \in Modes : SetMode(m)
           \/ UNCHANGED vars
  <2>1. open' = open /\ queryStates' = queryStates /\ plannerStates' = plannerStates
    BY <1>1 DEF PlannerCall, UtilityCall, PlannerError, ExecutorReturn, UtilityReturn,
                RaiseError, ExecutorCall, FreePlan, SetMode, vars
  <2> QED  BY <2>1, UntouchedLinks
<1>2. ASSUME NEW returned \in PlannedStmts, NEW kept \in PlannedStmts,
             PlannerReturn(returned, kept)
      PROVE  PlannerLinks'
  <2>1. /\ plans[returned] = NoPlan /\ open' = open /\ queryStates' = queryStates
        /\ plannerStates' =
             IF Top.id = 0 THEN plannerStates
             ELSE [plannerStates EXCEPT ![returned] =
                     [context |-> Top.context, id |-> Top.id, hasSpan |-> TRUE]]
    BY <1>2 DEF PlannerReturn, Allocatable
  <2>2. SpanHasId'
    BY <2>1, Types DEF PlannerLinks, SpanHasId
  <2>3. \A q \in QueryDescs : open[q] # NoQuery =>
           plannerStates'[open[q].plan] = plannerStates[open[q].plan]
    BY <2>1, Types DEF OpenHasPlan
  <2> QED  BY <2>1, <2>2, <2>3 DEF PlannerLinks, PlannerOfQuery
<1>3. ASSUME NEW q \in QueryDescs, NEW p \in PlannedStmts, ExecutorStart(q, p)
      PROVE  PlannerLinks'
  <2>1. /\ \A r \in QueryDescs :
              /\ queryStates'[r] = IF r = q THEN StartState(p) ELSE queryStates[r]
              /\ open'[r] = IF r = q THEN [plan |-> p, cause |-> Cause] ELSE open[r]
        /\ \A o \in PlannedStmts :
              plannerStates'[o] = IF o = p /\ StartState(p).id = 0 THEN NoPlannerState
                                  ELSE plannerStates[o]
    BY <1>3, Types DEF ExecutorStart
  <2>2. SpanHasId'
    BY <2>1 DEF PlannerLinks, SpanHasId, NoPlannerState
  <2>3. StartState(p).id # 0 /\ plannerStates[p].hasSpan =>
          StartState(p).id = plannerStates[p].id
            /\ StartState(p).context = plannerStates[p].context
    <3>1. ASSUME plannerStates[p].hasSpan, StartState(p).id # 0
          PROVE  Adopts(p)
      BY <3>1 DEF PlannerLinks, SpanHasId, StartState, Adopts, FindTraceContext, NoQueryState
    <3> QED  BY <3>1 DEF StartState
  <2>4. PlannerOfQuery'
    <3> SUFFICES ASSUME NEW r \in QueryDescs, open'[r] # NoQuery, queryStates'[r].id # 0,
                        plannerStates'[open'[r].plan].hasSpan
                 PROVE  /\ plannerStates'[open'[r].plan].id = queryStates'[r].id
                        /\ plannerStates'[open'[r].plan].context = queryStates'[r].context
      BY DEF PlannerOfQuery
    <3>1. CASE r = q
      BY <2>1, <2>3, <3>1 DEF NoPlannerState
    <3>2. CASE r # q
      BY <2>1, <3>2 DEF NoPlannerState, OpenHasPlan, PlannerLinks, PlannerOfQuery
    <3> QED  BY <3>1, <3>2
  <2> QED  BY <2>2, <2>4 DEF PlannerLinks
<1>4. ASSUME NEW q \in QueryDescs, NEW p \in PlannedStmts, ExecutorStartError(q, p)
      PROVE  PlannerLinks'
  <2>1. /\ \A r \in QueryDescs : queryStates'[r] = queryStates[r] \/ queryStates'[r] = NoQueryState
        /\ open' = open
        /\ \A o \in PlannedStmts :
              plannerStates'[o] = plannerStates[o] \/ plannerStates'[o] = NoPlannerState
    BY <1>4, Types DEF ExecutorStartError
  <2> QED  BY <2>1, LinksKept
<1>5. CASE ExecutorError \/ \E q \in QueryDescs : ExecutorEnd(q)
  BY <1>5, Ended, EndedLinks
<1>6. CASE Commit \/ Abort
  <2>1. /\ \A q \in QueryDescs : open'[q] = NoQuery
        /\ \A p \in PlannedStmts : plannerStates'[p] = NoPlannerState
    BY <1>6 DEF Commit, Abort, XactEndCallback
  <2> QED  BY <2>1, LinksKept
<1>7. ASSUME NEW freed \in SUBSET Idle, CatchError(freed)
      PROVE  PlannerLinks'
  <2>1. \A r \in QueryDescs : open'[r] # NoQuery => open'[r] = open[r]
    BY <1>7, CloseLinks DEF CatchError, Idle
  <2>2. queryStates' = queryStates /\ plannerStates' = plannerStates
    BY <1>7 DEF CatchError
  <2> QED  BY <2>1, <2>2, LinksKept
<1> QED  BY <1>1, <1>2, <1>3, <1>4, <1>5, <1>6, <1>7 DEF Next

-----------------------------------------------------------------------------
\* What a step emits: nothing, or the span of one statement and, after it, spans
\* of which it is the parent.
Silent ==
    /\ emitted' = <<>> /\ reported' = reported /\ parents' = parents
    /\ reportedTwice' = reportedTwice

Reports(id, context, text, cause) ==
    /\ id # 0 /\ Statements(emitted)' = {1}
    /\ emitted'[1].id = id /\ emitted'[1].context = context
    /\ emitted'[1].text = text /\ emitted'[1].cause = cause
    /\ reported' = reported \cup {id}
    /\ reportedTwice' = (reportedTwice \/ id \in reported)
    /\ parents' \subseteq parents \cup {id} \cup ({context.parent} \cap Nat)
    /\ PlannerSpanHasParent'

MayReport(id, context, text, cause) ==
    /\ id = 0 => Silent
    /\ id # 0 => Reports(id, context, text, cause)

LEMMA ReportSpans ==
    ASSUME TypeOK, NEW kind \in {"query", "utility"}, NEW id \in Nat \ {0},
           NEW context \in ContextType, NEW text \in TextType, NEW cause \in Nat,
           NEW spans \in Seq(SpanType), Len(spans) >= 1, Emit(spans),
           spans[1] = SpanOf(kind, id, context, text, cause),
           \A i \in 1..Len(spans) : i # 1 =>
              \/ /\ i = 2 /\ kind = "query"
                 /\ spans[i] = ChildSpan("planner", id, context)
              \/ spans[i] = ChildSpan("node", id, context)
    PROVE  Reports(id, context, text, cause)
<1>1. Len(spans) \in Nat /\ 1 \in 1..Len(spans)
  BY LenProperties
<1>2. Statements(spans) = {1}
  BY <1>1 DEF Statements, SpanOf, ChildSpan
<1>3. {spans[i].id : i \in Statements(spans)} = {id}
  BY <1>2 DEF SpanOf
<1>4. emitted' = spans /\ reported' = reported \cup {id}
        /\ reportedTwice' = (reportedTwice \/ id \in reported)
  BY <1>3 DEF Emit
<1>5. \A i \in 1..Len(spans) : spans[i].context.parent \in {id, context.parent}
  BY DEF SpanOf, ChildSpan
<1>6. parents' \subseteq parents \cup {id} \cup ({context.parent} \cap Nat)
  BY <1>5 DEF Emit
<1>7. PlannerSpanHasParent'
  <2>1. ASSUME NEW i \in 1..Len(spans), spans[i].kind = "planner"
        PROVE  /\ i > 1 /\ spans[i - 1].kind = "query"
               /\ spans[i].context = [trace |-> spans[i - 1].context.trace,
                                      parent |-> spans[i - 1].id]
    <3>1. i # 1
      BY <2>1 DEF SpanOf
    <3>2. i = 2 /\ kind = "query" /\ spans[i] = ChildSpan("planner", id, context)
      BY <2>1, <3>1 DEF SpanOf, ChildSpan
    <3> QED  BY <3>2 DEF SpanOf, ChildSpan
  <2> QED  BY <1>4, <2>1 DEF PlannerSpanHasParent
<1>8. /\ Statements(emitted)' = {1}
      /\ emitted'[1].id = id /\ emitted'[1].context = context
      /\ emitted'[1].text = text /\ emitted'[1].cause = cause
  <2>1. Statements(emitted)' = Statements(spans)
    BY <1>4 DEF Statements
  <2> QED  BY <1>2, <1>4, <2>1 DEF SpanOf
<1> QED  BY <1>4, <1>6, <1>7, <1>8 DEF Reports

LEMMA ReportQuerySpans ==
    ASSUME TypeOK, NEW state \in QueryStateType, NEW planner \in PlannerStateType,
           NEW text \in TextType, NEW cause \in Nat, NEW succeeded \in BOOLEAN,
           planner.hasSpan /\ state.id # 0 =>
              planner.id = state.id /\ planner.context = state.context,
           Emit(QuerySpans(state, planner, text, cause, succeeded))
    PROVE  MayReport(state.id, state.context, text, cause)
<1> DEFINE spans == QuerySpans(state, planner, text, cause, succeeded)
<1>1. /\ spans \in Seq(SpanType)
      /\ state.id = 0 => spans = <<>>
      /\ state.id # 0 =>
           /\ Len(spans) >= 1
           /\ spans[1] = SpanOf("query", state.id, state.context, text, cause)
           /\ \A i \in 1..Len(spans) : i # 1 =>
                \/ /\ i = 2 /\ planner.hasSpan
                   /\ spans[i] = ChildSpan("planner", planner.id, planner.context)
                \/ spans[i] = ChildSpan("node", state.id, state.context)
  BY SpansOfQuery
<1>2. Emit(spans)
  OBVIOUS
<1> HIDE DEF spans
<1>3. CASE state.id = 0
  <2>1. /\ emitted' = <<>> /\ reported' = reported /\ parents' = parents
        /\ reportedTwice' = reportedTwice
    BY <1>1, <1>2, <1>3, Types, EmptySeq, SMT DEF Emit, Statements
  <2> QED  BY <1>3, <2>1 DEF MayReport, Silent
<1>4. CASE state.id # 0
  <2>1. state.id \in Nat \ {0} /\ state.context \in ContextType
    BY <1>4 DEF QueryStateType
  <2>2. \A i \in 1..Len(spans) : i # 1 =>
           \/ /\ i = 2 /\ "query" = "query"
              /\ spans[i] = ChildSpan("planner", state.id, state.context)
           \/ spans[i] = ChildSpan("node", state.id, state.context)
    BY <1>1, <1>4
  <2>3. Reports(state.id, state.context, text, cause)
    BY <1>1, <1>2, <1>4, <2>1, <2>2, ReportSpans
  <2> QED  BY <1>4, <2>3 DEF MayReport
<1> QED  BY <1>3, <1>4

LEMMA EndReports ==
    ASSUME HInv, PlannerLinks, NEW q \in QueryDescs, open[q] # NoQuery,
           EmitQuery(q, FALSE) \/ EmitQuery(q, TRUE)
    PROVE  MayReport(queryStates[q].id, queryStates[q].context,
                     plans[open[q].plan].text, open[q].cause)
<1>1. /\ queryStates[q] \in QueryStateType /\ open[q].cause \in Nat
      /\ plannerStates[open[q].plan] \in PlannerStateType
      /\ plans[open[q].plan].text \in TextType
  BY Types, PlanOfOpen DEF HInv, Linked, PlanType
<1>2. plannerStates[open[q].plan].hasSpan /\ queryStates[q].id # 0 =>
         /\ plannerStates[open[q].plan].id = queryStates[q].id
         /\ plannerStates[open[q].plan].context = queryStates[q].context
  BY DEF PlannerLinks, PlannerOfQuery
<1>3. ASSUME EmitQuery(q, FALSE)
      PROVE  MayReport(queryStates[q].id, queryStates[q].context,
                       plans[open[q].plan].text, open[q].cause)
  BY <1>1, <1>2, <1>3, ReportQuerySpans DEF EmitQuery, HInv
<1>4. ASSUME EmitQuery(q, TRUE)
      PROVE  MayReport(queryStates[q].id, queryStates[q].context,
                       plans[open[q].plan].text, open[q].cause)
  BY <1>1, <1>2, <1>4, ReportQuerySpans DEF EmitQuery, HInv
<1> QED  BY <1>3, <1>4

LEMMA StartErrorReports ==
    ASSUME HInv, PlannerLinks, NEW q \in QueryDescs, NEW p \in PlannedStmts,
           ExecutorStartError(q, p)
    PROVE  MayReport(StartState(p).id, StartState(p).context, plans[p].text, Cause)
<1>1. /\ StartState(p) \in QueryStateType /\ Cause \in Nat
      /\ plannerStates[p] \in PlannerStateType /\ plans[p].text \in TextType
  BY Types, StartedState, CauseIsExecuting DEF HInv, PlanType
<1>2. plannerStates[p].hasSpan /\ StartState(p).id # 0 =>
         /\ plannerStates[p].id = StartState(p).id
         /\ plannerStates[p].context = StartState(p).context
  <2>1. ASSUME plannerStates[p].hasSpan, StartState(p).id # 0
        PROVE  Adopts(p)
    BY <2>1 DEF PlannerLinks, SpanHasId, StartState, Adopts, FindTraceContext, NoQueryState
  <2> QED  BY <2>1 DEF StartState
<1>3. Emit(QuerySpans(StartState(p), plannerStates[p], plans[p].text, Cause, FALSE))
  BY DEF ExecutorStartError
<1> QED  BY <1>1, <1>2, <1>3, ReportQuerySpans DEF HInv

LEMMA CallReports ==
    ASSUME HInv, PlannerError \/ UtilityReturn
    PROVE  MayReport(Top.id, Top.context, Top.text, Top.cause)
<1>1. Top \in CallType
  BY TopType DEF HInv, PlannerError, UtilityReturn
<1>2. /\ Top.id \in Nat /\ Top.context \in ContextType /\ Top.text \in TextType
      /\ Top.cause \in Nat
  BY <1>1 DEF CallType
<1>3. CASE Top.id = 0
  <2>1. Emit(<<>>)
    BY <1>3 DEF PlannerError, UtilityReturn, Emit
  <2>2. Silent
    BY <2>1, EmitNothing DEF Silent, HInv
  <2> QED  BY <1>3, <2>2 DEF MayReport
<1>4. CASE Top.id # 0 /\ PlannerError
  <2> DEFINE spans == <<SpanOf("query", Top.id, Top.context, Top.text, Top.cause),
                        ChildSpan("planner", Top.id, Top.context)>>
  <2>1. spans \in Seq(SpanType) /\ Len(spans) = 2
    BY <1>2, SmallValues DEF SpanOf, ChildSpan, SpanType, ContextType
  <2>2. spans[1] = SpanOf("query", Top.id, Top.context, Top.text, Top.cause)
          /\ spans[2] = ChildSpan("planner", Top.id, Top.context)
    OBVIOUS
  <2>3. Emit(spans)
    BY <1>4 DEF PlannerError, Emit
  <2> HIDE DEF spans
  <2>4. Reports(Top.id, Top.context, Top.text, Top.cause)
    BY <1>2, <1>4, <2>1, <2>2, <2>3, ReportSpans DEF HInv
  <2> QED  BY <1>4, <2>4 DEF MayReport
<1>5. CASE Top.id # 0 /\ UtilityReturn
  <2> DEFINE spans == <<SpanOf("utility", Top.id, Top.context, Top.text, Top.cause)>>
  <2>1. spans \in Seq(SpanType) /\ Len(spans) = 1
    BY <1>2 DEF SpanOf, SpanType
  <2>2. spans[1] = SpanOf("utility", Top.id, Top.context, Top.text, Top.cause)
    OBVIOUS
  <2>3. Emit(spans)
    BY <1>5 DEF UtilityReturn, Emit
  <2> HIDE DEF spans
  <2>4. /\ Len(spans) >= 1 /\ Top.id \in Nat \ {0}
        /\ \A i \in 1..Len(spans) : i # 1 =>
              \/ /\ i = 2 /\ "utility" = "query"
                 /\ spans[i] = ChildSpan("planner", Top.id, Top.context)
              \/ spans[i] = ChildSpan("node", Top.id, Top.context)
    BY <1>2, <1>5, <2>1
  <2>5. Reports(Top.id, Top.context, Top.text, Top.cause)
    BY <1>2, <2>1, <2>2, <2>3, <2>4, ReportSpans DEF HInv
  <2> QED  BY <1>5, <2>5 DEF MayReport
<1> QED  BY <1>3, <1>4, <1>5

\* All the other steps emit nothing.
LEMMA QuietSteps ==
    ASSUME HInv, \/ \E text \in Texts : PlannerCall(text) \/ UtilityCall(text)
                 \/ \E returned, kept \in PlannedStmts : PlannerReturn(returned, kept)
                 \/ \E q \in QueryDescs, p \in PlannedStmts : ExecutorStart(q, p)
                 \/ \E q \in QueryDescs : ExecutorCall(q)
                 \/ ExecutorReturn \/ Commit \/ Abort \/ RaiseError
                 \/ \E freed \in SUBSET Idle : CatchError(freed)
                 \/ \E p \in PlannedStmts : FreePlan(p)
                 \/ \E m \in Modes : SetMode(m)
    PROVE  Silent
<1>1. Emit(<<>>)
  BY DEF PlannerCall, UtilityCall, PlannerReturn, ExecutorStart, ExecutorCall,
         ExecutorReturn, Commit, Abort, RaiseError, CatchError, FreePlan, SetMode
<1> QED  BY <1>1, EmitNothing DEF Silent, HInv

LEMMA ReportsParented ==
    ASSUME TypeOK, NEW id, NEW context, NEW text, NEW cause,
           MayReport(id, context, text, cause)
    PROVE  PlannerSpanHasParent'
<1>1. ASSUME Silent
      PROVE  PlannerSpanHasParent'
  BY <1>1, EmptySeq DEF Silent, PlannerSpanHasParent
<1> QED  BY <1>1 DEF MayReport, Reports

LEMMA StepPlannerSpanHasParent ==
    ASSUME HInv, PlannerLinks, PlannerSpanHasParent, [Next]_vars
    PROVE  PlannerSpanHasParent'
<1>1. CASE UNCHANGED vars
  BY <1>1 DEF vars, PlannerSpanHasParent
<1>2. CASE PlannerError \/ UtilityReturn
  BY <1>2, CallReports, ReportsParented DEF HInv
<1>3. CASE ExecutorError \/ \E q \in QueryDescs : ExecutorEnd(q)
  BY <1>3, Ended, EndReports, ReportsParented DEF HInv
<1>4. ASSUME NEW q \in QueryDescs, NEW p \in PlannedStmts, ExecutorStartError(q, p)
      PROVE  PlannerSpanHasParent'
  BY <1>4, StartErrorReports, ReportsParented DEF HInv
<1>5. ASSUME Silent
      PROVE  PlannerSpanHasParent'
  BY <1>5, EmptySeq DEF Silent, PlannerSpanHasParent
<1> QED  BY <1>1, <1>2, <1>3, <1>4, <1>5, QuietSteps DEF Next

PInv == HInv /\ PlannerLinks

LEMMA AlwaysPInv == Spec => []PInv
<1>1. Init => PInv
  BY InitHInv DEF Init, PInv, PlannerLinks, SpanHasId, PlannerOfQuery, NoPlannerState
<1>2. PInv /\ [Next]_vars => PInv'
  BY StepHInv, StepPlannerLinks DEF PInv
<1> QED  BY <1>1, <1>2, PTL DEF Spec

\* flushStoredPlannerSpan: whatever PostgreSQL does, a planner span follows the query
\* span that is its parent.
THEOREM PlannerSpansHaveParents == Spec => []PlannerSpanHasParent
<1>1. Init => PlannerSpanHasParent
  BY EmptySeq DEF Init, PlannerSpanHasParent
<1>2. PInv /\ PlannerSpanHasParent /\ [Next]_vars => PlannerSpanHasParent'
  BY StepPlannerSpanHasParent DEF PInv
<1> QED  BY <1>1, <1>2, AlwaysPInv, PTL DEF Spec

-----------------------------------------------------------------------------
\* Births: in which transaction a span id was generated.  Frames, planner states and
\* planner calls are of this transaction; whoever has a parent among the spans of
\* this backend is of the parent's transaction.
BornNow(id) == id \in 1..Len(bornIn) /\ bornIn[id] = xact

SameBirth(id, context) ==
    /\ id \in 1..Len(bornIn)
    /\ context.parent > 0 =>
           context.parent \in 1..Len(bornIn) /\ bornIn[context.parent] = bornIn[id]

FramesBorn == \A k \in 1..Len(stack) : BornNow(stack[k].span)
PlannersBorn ==
    \A p \in PlannedStmts : plannerStates[p].id # 0 =>
        /\ BornNow(plannerStates[p].id)
        /\ SameBirth(plannerStates[p].id, plannerStates[p].context)
QueriesBorn ==
    \A q \in QueryDescs : queryStates[q].id # 0 =>
        SameBirth(queryStates[q].id, queryStates[q].context)
CallsBorn ==
    \A i \in 1..Len(calls) : calls[i].kind # "run" /\ calls[i].id # 0 =>
        /\ SameBirth(calls[i].id, calls[i].context)
        /\ calls[i].kind = "plan" => BornNow(calls[i].id)

Births == FramesBorn /\ PlannersBorn /\ QueriesBorn /\ CallsBorn

\* The same after a step.
BornAfter(id) == id \in 1..Len(bornIn') /\ bornIn'[id] = xact'
SameBirthAfter(id, context) ==
    /\ id \in 1..Len(bornIn')
    /\ context.parent > 0 =>
           context.parent \in 1..Len(bornIn') /\ bornIn'[context.parent] = bornIn'[id]

LEMMA BirthsGrow ==
    ASSUME TypeOK, bornIn' = bornIn \/ GenerateSpanId
    PROVE  /\ \A id : SameBirth(id, NoContext) => id \in Nat \ {0}
           /\ \A id, context : SameBirth(id, context) => SameBirthAfter(id, context)
           /\ \A id : BornNow(id) /\ xact' = xact => BornAfter(id)
<1>1. /\ Len(bornIn) \in Nat /\ Len(bornIn') \in Nat /\ Len(bornIn) <= Len(bornIn')
      /\ \A k \in 1..Len(bornIn) : k \in 1..Len(bornIn') /\ bornIn'[k] = bornIn[k]
  <2>1. CASE bornIn' = bornIn
    BY <2>1, Types
  <2>2. CASE GenerateSpanId
    BY <2>2, Types, NewIdType DEF NewId
  <2> QED  BY <2>1, <2>2
<1> QED  BY <1>1 DEF SameBirth, SameBirthAfter, BornNow, BornAfter

LEMMA BirthsKept ==
    ASSUME TypeOK, Births, bornIn' = bornIn \/ GenerateSpanId, xact' = xact,
           \A k \in 1..Len(stack') : \/ k \in 1..Len(stack) /\ stack'[k] = stack[k]
                                     \/ BornAfter(stack'[k].span),
           \A p \in PlannedStmts :
              \/ plannerStates'[p] = plannerStates[p] \/ plannerStates'[p].id = 0
              \/ /\ BornAfter(plannerStates'[p].id)
                 /\ SameBirthAfter(plannerStates'[p].id, plannerStates'[p].context),
           \A q \in QueryDescs :
              \/ queryStates'[q] = queryStates[q] \/ queryStates'[q].id = 0
              \/ SameBirthAfter(queryStates'[q].id, queryStates'[q].context),
           \A i \in 1..Len(calls') :
              \/ i \in 1..Len(calls) /\ calls'[i] = calls[i]
              \/ calls'[i].kind = "run" \/ calls'[i].id = 0
              \/ /\ BornAfter(calls'[i].id)
                 /\ SameBirthAfter(calls'[i].id, calls'[i].context)
    PROVE  Births'
<1>1. FramesBorn'
  <2>1. \A k \in 1..Len(stack') : BornAfter(stack'[k].span)
    BY BirthsGrow DEF Births, FramesBorn
  <2> QED  BY <2>1 DEF FramesBorn, BornNow, BornAfter
<1>2. PlannersBorn'
  <2>1. \A p \in PlannedStmts : plannerStates'[p].id # 0 =>
           /\ BornAfter(plannerStates'[p].id)
           /\ SameBirthAfter(plannerStates'[p].id, plannerStates'[p].context)
    BY BirthsGrow DEF Births, PlannersBorn
  <2> QED  BY <2>1 DEF PlannersBorn, BornNow, BornAfter, SameBirth, SameBirthAfter
<1>3. QueriesBorn'
  <2>1. \A q \in QueryDescs : queryStates'[q].id # 0 =>
           SameBirthAfter(queryStates'[q].id, queryStates'[q].context)
    BY BirthsGrow DEF Births, QueriesBorn
  <2> QED  BY <2>1 DEF QueriesBorn, SameBirth, SameBirthAfter
<1>4. CallsBorn'
  <2>1. \A i \in 1..Len(calls') : calls'[i].kind # "run" /\ calls'[i].id # 0 =>
           /\ SameBirthAfter(calls'[i].id, calls'[i].context)
           /\ calls'[i].kind = "plan" => BornAfter(calls'[i].id)
    BY BirthsGrow DEF Births, CallsBorn
  <2> QED  BY <2>1 DEF CallsBorn, BornNow, BornAfter, SameBirth, SameBirthAfter
<1> QED  BY <1>1, <1>2, <1>3, <1>4 DEF Births

LEMMA NewIdBirth ==
    ASSUME TypeOK, Births, NEW text \in TextType, GenerateSpanId, xact' = xact
    PROVE  BornAfter(NewId) /\ SameBirthAfter(NewId, FindTraceContext(text))
<1>1. BornAfter(NewId)
  BY NewIdType DEF BornAfter
<1>2. ASSUME FindTraceContext(text).parent > 0
      PROVE  BornAfter(FindTraceContext(text).parent)
  <2>1. /\ Len(stack) \in 1..Len(stack)
        /\ FindTraceContext(text).parent = stack[Len(stack)].span
    BY <1>2, FoundParent
  <2> QED  BY <2>1, BirthsGrow DEF Births, FramesBorn
<1> QED  BY <1>1, <1>2 DEF BornAfter, SameBirthAfter

LEMMA StartBirth ==
    ASSUME TypeOK, Births, NEW q \in QueryDescs, NEW p \in PlannedStmts,
           MayExecute(q, p), xact' = xact, StartState(p).id # 0
    PROVE  /\ BornAfter(StartState(p).id)
           /\ SameBirthAfter(StartState(p).id, StartState(p).context)
<1>1. bornIn' = bornIn \/ GenerateSpanId
  BY DEF MayExecute
<1>2. CASE Adopts(p)
  <2>1. /\ plannerStates[p].id # 0 /\ StartState(p).id = plannerStates[p].id
        /\ StartState(p).context = plannerStates[p].context
    BY <1>2 DEF Adopts, StartState
  <2>2. /\ BornNow(plannerStates[p].id)
        /\ SameBirth(plannerStates[p].id, plannerStates[p].context)
    BY <2>1 DEF Births, PlannersBorn
  <2> QED  BY <1>1, <2>1, <2>2, BirthsGrow
<1>3. CASE ~Adopts(p)
  <2>1. /\ StartState(p).id = NewId /\ GenerateSpanId
        /\ StartState(p).context = FindTraceContext(plans[p].text)
    BY <1>3 DEF MayExecute, StartState, NoQueryState
  <2>2. plans[p].text \in TextType
    BY Types DEF PlanType
  <2> QED  BY <2>1, <2>2, NewIdBirth
<1> QED  BY <1>2, <1>3

LEMMA PushedFrames ==
    ASSUME TypeOK, NEW context \in ContextType, NEW id \in Nat, stack' = Pushed(context, id)
    PROVE  \A k \in 1..Len(stack') : \/ k \in 1..Len(stack) /\ stack'[k] = stack[k]
                                     \/ stack'[k].span = id
<1>1. Len(stack') = Len(stack) + 1 \/ Len(stack') = Len(stack)
  BY PushedStack
<1>2. Len(stack') = Len(stack) + 1 => stack'[Len(stack) + 1].span = id
  BY PushedStack, Types
<1>3. \A k \in 1..Len(stack) : stack'[k] = stack[k]
  BY PushedStack
<1> QED  BY <1>1, <1>2, <1>3, Types

LEMMA PoppedFrames ==
    ASSUME TypeOK, NEW index \in Int, stack' = PoppedTo(index)
    PROVE  \A k \in 1..Len(stack') : k \in 1..Len(stack) /\ stack'[k] = stack[k]
BY PoppedStack

LEMMA StepBirths ==
    ASSUME HInv, Births, [Next]_vars
    PROVE  Births'
<1> USE DEF HInv, Linked
<1>1. ASSUME bornIn' = bornIn, xact' = xact, stack' = stack, queryStates' = queryStates,
             plannerStates' = plannerStates, calls' = calls \/ (calls # <<>> /\ Leave)
      PROVE  Births'
  BY <1>1, KeptCalls, BirthsKept
<1>2. CASE \/ PlannerError \/ ExecutorReturn \/ RaiseError
           \/ \E freed \in SUBSET Idle : CatchError(freed)
           \/ \E p \in PlannedStmts : FreePlan(p)
           \/ \E m \in Modes : SetMode(m)
           \/ UNCHANGED vars
  <2>1. /\ bornIn' = bornIn /\ xact' = xact /\ stack' = stack /\ queryStates' = queryStates
        /\ plannerStates' = plannerStates
    BY <1>2 DEF PlannerError, ExecutorReturn, RaiseError, CatchError, FreePlan, SetMode, vars
  <2>2. calls' = calls \/ (calls # <<>> /\ Leave)
    BY <1>2 DEF PlannerError, ExecutorReturn, RaiseError, CatchError, FreePlan, SetMode, vars
  <2> QED  BY <1>1, <2>1, <2>2
<1>3. ASSUME NEW q \in QueryDescs, ExecutorCall(q)
      PROVE  Births'
  <2>1. PICK call : Enter(call) /\ call.kind = "run"
    BY <1>3 DEF ExecutorCall, Call
  <2>2. /\ bornIn' = bornIn /\ xact' = xact /\ stack' = stack /\ queryStates' = queryStates
        /\ plannerStates' = plannerStates
    BY <1>3 DEF ExecutorCall
  <2>3. \A i \in 1..Len(calls') : \/ i \in 1..Len(calls) /\ calls'[i] = calls[i]
                                  \/ calls'[i].kind = "run"
    BY <2>1, EnterCalls, CallsType
  <2> QED  BY <2>2, <2>3, BirthsKept
<1>4. ASSUME NEW text \in Texts, PlannerCall(text) \/ UtilityCall(text)
      PROVE  Births'
  <2> DEFINE context == FindTraceContext(text)
  <2>1. PICK call :
          /\ Enter(call)
          /\ \/ call.id = 0 /\ bornIn' = bornIn /\ stack' = stack
             \/ /\ call.id = NewId /\ call.context = context /\ GenerateSpanId
                /\ stack' = stack \/ stack' = Pushed(context, NewId)
    BY <1>4 DEF PlannerCall, UtilityCall, Call
  <2>2. text \in TextType /\ context \in ContextType /\ NewId \in Nat
    BY SmallValues, FoundContext, NewIdType
  <2>3. /\ xact' = xact /\ queryStates' = queryStates /\ plannerStates' = plannerStates
        /\ bornIn' = bornIn \/ GenerateSpanId
    BY <1>4, <2>1 DEF PlannerCall, UtilityCall
  <2>4. \/ call.id = 0
        \/ BornAfter(call.id) /\ SameBirthAfter(call.id, call.context)
    BY <2>1, <2>2, <2>3, NewIdBirth
  <2>5. \A i \in 1..Len(calls') :
           \/ i \in 1..Len(calls) /\ calls'[i] = calls[i]
           \/ calls'[i].id = 0
           \/ BornAfter(calls'[i].id) /\ SameBirthAfter(calls'[i].id, calls'[i].context)
    BY <2>1, <2>4, EnterCalls, CallsType
  <2>6. \A k \in 1..Len(stack') : \/ k \in 1..Len(stack) /\ stack'[k] = stack[k]
                                  \/ BornAfter(stack'[k].span)
    <3>1. CASE stack' = stack
      BY <3>1
    <3>2. CASE GenerateSpanId /\ stack' = Pushed(context, NewId)
      <4>1. BornAfter(NewId)
        BY <2>2, <2>3, <3>2, NewIdBirth
      <4> QED  BY <2>2, <3>2, <4>1, PushedFrames
    <3> QED  BY <2>1, <3>1, <3>2
  <2> QED  BY <2>3, <2>5, <2>6, BirthsKept
<1>5. ASSUME NEW returned \in PlannedStmts, NEW kept \in PlannedStmts,
             PlannerReturn(returned, kept)
      PROVE  Births'
  <2>1. /\ bornIn' = bornIn /\ xact' = xact /\ stack' = stack /\ queryStates' = queryStates
        /\ calls # <<>> /\ Leave /\ Top.kind = "plan"
        /\ \A p \in PlannedStmts :
              \/ plannerStates'[p] = plannerStates[p]
              \/ /\ plannerStates'[p].id = Top.id /\ Top.id # 0
                 /\ plannerStates'[p].context = Top.context
    BY <1>5, Types DEF PlannerReturn
  <2>2. Top.id # 0 => BornAfter(Top.id) /\ SameBirthAfter(Top.id, Top.context)
    BY <2>1, TopType, BirthsGrow DEF Top, Births, CallsBorn
  <2>3. \A p \in PlannedStmts :
           \/ plannerStates'[p] = plannerStates[p]
           \/ /\ BornAfter(plannerStates'[p].id)
              /\ SameBirthAfter(plannerStates'[p].id, plannerStates'[p].context)
    BY <2>1, <2>2
  <2> QED  BY <2>1, <2>3, KeptCalls, BirthsKept
<1>6. ASSUME NEW q \in QueryDescs, NEW p \in PlannedStmts, ExecutorStart(q, p)
      PROVE  Births'
  <2>1. /\ calls' = calls /\ xact' = xact
        /\ bornIn' = bornIn \/ GenerateSpanId
        /\ MayExecute(q, p)
        /\ \/ stack' = stack
           \/ /\ StartState(p).id # 0
              /\ stack' = Pushed(StartState(p).context, StartState(p).id)
    BY <1>6 DEF ExecutorStart, MayExecute
  <2>2. /\ \A r \in QueryDescs : queryStates'[r] = queryStates[r]
                                   \/ queryStates'[r] = StartState(p)
        /\ \A o \in PlannedStmts : plannerStates'[o] = plannerStates[o]
                                     \/ plannerStates'[o].id = 0
    BY <1>6, Types DEF ExecutorStart, NoPlannerState
  <2>3. StartState(p).id # 0 =>
          /\ BornAfter(StartState(p).id)
          /\ SameBirthAfter(StartState(p).id, StartState(p).context)
    BY <2>1, StartBirth
  <2>4. \A k \in 1..Len(stack') : \/ k \in 1..Len(stack) /\ stack'[k] = stack[k]
                                  \/ BornAfter(stack'[k].span)
    <3>1. CASE stack' = stack
      BY <3>1
    <3>2. CASE StartState(p).id # 0 /\ stack' = Pushed(StartState(p).context, StartState(p).id)
      <4>1. StartState(p).context \in ContextType /\ StartState(p).id \in Nat
        BY StartedState DEF QueryStateType
      <4> QED  BY <2>3, <3>2, <4>1, PushedFrames
    <3> QED  BY <2>1, <3>1, <3>2
  <2>5. \A r \in QueryDescs :
           \/ queryStates'[r] = queryStates[r] \/ queryStates'[r].id = 0
           \/ SameBirthAfter(queryStates'[r].id, queryStates'[r].context)
    BY <2>2, <2>3
  <2> QED  BY <2>1, <2>2, <2>4, <2>5, BirthsKept
<1>7. ASSUME NEW q \in QueryDescs, NEW p \in PlannedStmts, ExecutorStartError(q, p)
      PROVE  Births'
  <2>1. /\ calls' = calls /\ xact' = xact
        /\ bornIn' = bornIn \/ GenerateSpanId
        /\ stack' = stack
    BY <1>7 DEF ExecutorStartError, MayExecute
  <2>2. /\ \A r \in QueryDescs : queryStates'[r] = queryStates[r] \/ queryStates'[r].id = 0
        /\ \A o \in PlannedStmts : plannerStates'[o] = plannerStates[o]
                                     \/ plannerStates'[o].id = 0
    BY <1>7, Types DEF ExecutorStartError, NoPlannerState, NoQueryState
  <2> QED  BY <2>1, <2>2, BirthsKept
<1>8. CASE ExecutorError \/ \E q \in QueryDescs : ExecutorEnd(q)
  <2>1. PICK q \in QueryDescs :
          /\ open[q] # NoQuery /\ DeleteTraceStates(q)
          /\ calls' = calls \/ (calls # <<>> /\ Leave)
          /\ xact' = xact /\ bornIn' = bornIn
    BY <1>8, Ended
  <2>2. /\ \A r \in QueryDescs : queryStates'[r] = queryStates[r] \/ queryStates'[r].id = 0
        /\ \A o \in PlannedStmts : plannerStates'[o] = plannerStates[o]
                                     \/ plannerStates'[o].id = 0
    BY <2>1, Deleted DEF NoQueryState, NoPlannerState
  <2>3. \A k \in 1..Len(stack') : k \in 1..Len(stack) /\ stack'[k] = stack[k]
    BY <2>1, Types, PoppedFrames DEF DeleteTraceStates, QueryStateType
  <2> QED  BY <2>1, <2>2, <2>3, KeptCalls, BirthsKept
<1>9. CASE UtilityReturn
  <2>1. /\ bornIn' = bornIn /\ xact' = xact /\ queryStates' = queryStates
        /\ plannerStates' = plannerStates /\ stack' = PoppedTo(Top.index)
        /\ calls # <<>> /\ Leave
    BY <1>9 DEF UtilityReturn
  <2>2. \A k \in 1..Len(stack') : k \in 1..Len(stack) /\ stack'[k] = stack[k]
    BY <2>1, TopType, PoppedFrames DEF CallType
  <2> QED  BY <2>1, <2>2, KeptCalls, BirthsKept
<1>10. CASE Commit \/ Abort
  <2>1. /\ \A q \in QueryDescs : queryStates'[q].id = 0
        /\ \A p \in PlannedStmts : plannerStates'[p].id = 0
        /\ stack' = <<>> /\ bornIn' = bornIn /\ calls' = calls
    BY <1>10 DEF Commit, Abort, XactEndCallback, NoQueryState, NoPlannerState
  <2>2. \A i \in 1..Len(calls) : calls[i].kind # "plan"
    <3>1. CASE calls = <<>>
      BY <3>1, EmptySeq
    <3>2. CASE calls # <<>>
      BY <1>10, <3>2 DEF Commit, Abort
    <3> QED  BY <3>1, <3>2
  <2>3. FramesBorn' /\ PlannersBorn' /\ QueriesBorn'
    BY <2>1, EmptySeq DEF FramesBorn, PlannersBorn, QueriesBorn
  <2>4. CallsBorn'
    BY <2>1, <2>2 DEF Births, CallsBorn, SameBirth
  <2> QED  BY <2>3, <2>4 DEF Births
<1> QED  BY <1>2, <1>3, <1>4, <1>5, <1>6, <1>7, <1>8, <1>9, <1>10 DEF Next

LEMMA ReportsInTransaction ==
    ASSUME TypeOK, NEW id, NEW context, NEW text, NEW cause,
           MayReport(id, context, text, cause), id # 0 => SameBirthAfter(id, context)
    PROVE  ParentInSameTransaction'
<1>1. CASE id = 0
  BY <1>1, EmptySeq DEF MayReport, Silent, ParentInSameTransaction, Statements
<1>2. CASE id # 0
  BY <1>2 DEF MayReport, Reports, SameBirthAfter, ParentInSameTransaction
<1> QED  BY <1>1, <1>2

LEMMA StepParentInSameTransaction ==
    ASSUME PInv, Births, ParentInSameTransaction, [Next]_vars
    PROVE  ParentInSameTransaction'
<1> USE DEF PInv, HInv
<1>1. CASE UNCHANGED vars
  BY <1>1 DEF vars, ParentInSameTransaction, Statements
<1>2. CASE PlannerError \/ UtilityReturn
  <2>1. Top.id # 0 => SameBirth(Top.id, Top.context)
    BY <1>2, TopType DEF PlannerError, UtilityReturn, Top, Births, CallsBorn
  <2>2. bornIn' = bornIn
    BY <1>2 DEF PlannerError, UtilityReturn
  <2>3. Top.id # 0 => SameBirthAfter(Top.id, Top.context)
    BY <2>1, <2>2, BirthsGrow
  <2> QED  BY <1>2, <2>3, CallReports, ReportsInTransaction
<1>3. CASE ExecutorError \/ \E q \in QueryDescs : ExecutorEnd(q)
  <2>1. PICK q \in QueryDescs :
          /\ open[q] # NoQuery /\ bornIn' = bornIn
          /\ EmitQuery(q, FALSE) \/ EmitQuery(q, TRUE)
    BY <1>3, Ended
  <2>2. queryStates[q].id # 0 => SameBirth(queryStates[q].id, queryStates[q].context)
    BY DEF Births, QueriesBorn
  <2>3. queryStates[q].id # 0 => SameBirthAfter(queryStates[q].id, queryStates[q].context)
    BY <2>1, <2>2, BirthsGrow
  <2> QED  BY <2>1, <2>3, EndReports, ReportsInTransaction
<1>4. ASSUME NEW q \in QueryDescs, NEW p \in PlannedStmts, ExecutorStartError(q, p)
      PROVE  ParentInSameTransaction'
  <2>1. StartState(p).id # 0 => SameBirthAfter(StartState(p).id, StartState(p).context)
    BY <1>4, StartBirth DEF ExecutorStartError
  <2> QED  BY <1>4, <2>1, StartErrorReports, ReportsInTransaction
<1>5. ASSUME Silent
      PROVE  ParentInSameTransaction'
  BY <1>5, EmptySeq DEF Silent, ParentInSameTransaction, Statements
<1> QED  BY <1>1, <1>2, <1>3, <1>4, <1>5, QuietSteps DEF Next

\* xactEndCallback: whatever PostgreSQL does, no span has a parent that belongs to
\* another transaction.
THEOREM ParentsInSameTransaction == Spec => []ParentInSameTransaction
<1>1. Init => Births /\ ParentInSameTransaction
  <2> SUFFICES ASSUME Init
               PROVE  Births /\ ParentInSameTransaction
    OBVIOUS
  <2>1. stack = <<>> /\ calls = <<>> /\ emitted = <<>>
    BY DEF Init
  <2>2. \A p \in PlannedStmts : plannerStates[p].id = 0
    BY DEF Init, NoPlannerState
  <2>3. \A q \in QueryDescs : queryStates[q].id = 0
    BY DEF Init, NoQueryState
  <2> QED  BY <2>1, <2>2, <2>3, EmptySeq
           DEF Births, FramesBorn, PlannersBorn, QueriesBorn, CallsBorn,
               ParentInSameTransaction, Statements
<1>2. PInv /\ Births /\ [Next]_vars => Births'
  BY StepBirths DEF PInv
<1>3. PInv /\ Births /\ ParentInSameTransaction /\ [Next]_vars => ParentInSameTransaction'
  BY StepParentInSameTransaction
<1> QED  BY <1>1, <1>2, <1>3, AlwaysPInv, PTL DEF Spec

-----------------------------------------------------------------------------
\* Ids.  A statement that has an id and is not reported yet is held by a call, by the
\* planner state of its plan, by a query state, or by the two of the same execution,
\* and no two statements have the same id.
Holding(i) == calls[i].kind # "run" /\ calls[i].id # 0
Unreported(id) == id \in 1..Len(bornIn) /\ id \notin reported
UnreportedAfter(id) == id \in 1..Len(bornIn') /\ id \notin reported'

CallsDistinct ==
    \A i \in 1..Len(calls) : Holding(i) =>
        /\ Unreported(calls[i].id)
        /\ \A j \in 1..Len(calls) : Holding(j) /\ calls[j].id = calls[i].id => i = j
PlannersDistinct ==
    \A p \in PlannedStmts : plannerStates[p].id # 0 =>
        /\ Unreported(plannerStates[p].id)
        /\ plans[p] # NoPlan => plans[p].kind = "one-shot"
        /\ \A r \in PlannedStmts : plannerStates[r].id = plannerStates[p].id => r = p
        /\ \A i \in 1..Len(calls) : Holding(i) => calls[i].id # plannerStates[p].id
QueriesDistinct ==
    \A q \in QueryDescs : queryStates[q].id # 0 =>
        /\ Unreported(queryStates[q].id)
        /\ \A r \in QueryDescs : queryStates[r].id = queryStates[q].id => r = q
        /\ \A i \in 1..Len(calls) : Holding(i) => calls[i].id # queryStates[q].id
        /\ \A p \in PlannedStmts : plannerStates[p].id = queryStates[q].id =>
              \/ open[q] # NoQuery /\ open[q].plan = p
              \/ open[q] = NoQuery /\ plans[p] = NoPlan

Once ==
    /\ reported \subseteq 1..Len(bornIn)
    /\ CallsDistinct /\ PlannersDistinct /\ QueriesDistinct

LEMMA UnreportedStays ==
    ASSUME TypeOK, Once, bornIn' = bornIn \/ GenerateSpanId,
           NEW gone \in 1..Len(bornIn'), reported' = reported \cup {gone}
    PROVE  /\ \A id : Unreported(id) /\ id # gone => UnreportedAfter(id)
           /\ reported' \subseteq 1..Len(bornIn')
<1>1. /\ Len(bornIn) \in Nat /\ Len(bornIn') \in Nat /\ Len(bornIn) <= Len(bornIn')
  BY Types, NewIdType DEF NewId
<1> QED  BY <1>1 DEF Unreported, UnreportedAfter, Once

LEMMA UnreportedSilently ==
    ASSUME TypeOK, Once, bornIn' = bornIn \/ GenerateSpanId, Silent
    PROVE  /\ \A id : Unreported(id) => UnreportedAfter(id)
           /\ reported' \subseteq 1..Len(bornIn')
<1>1. Len(bornIn) \in Nat /\ Len(bornIn') \in Nat /\ Len(bornIn) <= Len(bornIn')
  BY Types, NewIdType DEF NewId
<1> QED  BY <1>1 DEF Unreported, UnreportedAfter, Once, Silent

\* Steps after which fewer statements are held.
LEMMA OnceKept ==
    ASSUME Once, reported' \subseteq 1..Len(bornIn'),
           \A i \in 1..Len(calls') : Holding(i)' =>
              i \in 1..Len(calls) /\ calls'[i] = calls[i] /\ UnreportedAfter(calls[i].id),
           \A p \in PlannedStmts : plannerStates'[p].id # 0 =>
              plannerStates'[p] = plannerStates[p] /\ UnreportedAfter(plannerStates[p].id),
           \A q \in QueryDescs : queryStates'[q].id # 0 =>
              queryStates'[q] = queryStates[q] /\ UnreportedAfter(queryStates[q].id),
           \A p \in PlannedStmts : plans'[p] = plans[p] \/ plans'[p] = NoPlan,
           \A q \in QueryDescs :
              \/ open'[q] = open[q]
              \/ /\ open'[q] = NoQuery /\ open[q] # NoQuery
                 /\ \A p \in PlannedStmts :
                       open[q].plan = p /\ plannerStates'[p].id # 0 => plans'[p] = NoPlan
    PROVE  Once'
<1>1. \A i \in 1..Len(calls') : Holding(i)' => i \in 1..Len(calls) /\ Holding(i)
  BY DEF Holding
<1>2. CallsDistinct'
  BY <1>1 DEF Once, CallsDistinct, Unreported, UnreportedAfter
<1>3. PlannersDistinct'
  BY <1>1 DEF Once, PlannersDistinct, Unreported, UnreportedAfter
<1>4. QueriesDistinct'
  <2> SUFFICES ASSUME NEW q \in QueryDescs, queryStates'[q].id # 0
               PROVE  /\ Unreported(queryStates[q].id)'
                      /\ \A r \in QueryDescs : queryStates'[r].id = queryStates'[q].id => r = q
                      /\ \A i \in 1..Len(calls') : Holding(i)' =>
                            calls'[i].id # queryStates'[q].id
                      /\ \A p \in PlannedStmts : plannerStates'[p].id = queryStates'[q].id =>
                            \/ open'[q] # NoQuery /\ open'[q].plan = p
                            \/ open'[q] = NoQuery /\ plans'[p] = NoPlan
    BY DEF QueriesDistinct
  <2>1. /\ queryStates'[q] = queryStates[q]
        /\ Unreported(queryStates[q].id)'
    BY DEF Unreported, UnreportedAfter
  <2>2. \A r \in QueryDescs : queryStates'[r].id = queryStates'[q].id => r = q
    BY <2>1 DEF Once, QueriesDistinct
  <2>3. \A i \in 1..Len(calls') : Holding(i)' => calls'[i].id # queryStates'[q].id
    BY <1>1, <2>1 DEF Once, QueriesDistinct
  <2>4. ASSUME NEW p \in PlannedStmts, plannerStates'[p].id = queryStates'[q].id
        PROVE  \/ open'[q] # NoQuery /\ open'[q].plan = p
               \/ open'[q] = NoQuery /\ plans'[p] = NoPlan
    <3>1. \/ open[q] # NoQuery /\ open[q].plan = p
          \/ open[q] = NoQuery /\ plans[p] = NoPlan
      BY <2>1, <2>4 DEF Once, QueriesDistinct
    <3> QED  BY <2>4, <3>1
  <2> QED  BY <2>1, <2>2, <2>3, <2>4
<1> QED  BY <1>2, <1>3, <1>4 DEF Once

LEMMA NewIdUnreported ==
    ASSUME TypeOK, Once, GenerateSpanId, reported' = reported
    PROVE  /\ UnreportedAfter(NewId)
           /\ \A id : Unreported(id) => UnreportedAfter(id) /\ id # NewId
<1>1. /\ Len(bornIn) \in Nat /\ Len(bornIn') = Len(bornIn) + 1 /\ NewId = Len(bornIn) + 1
  BY Types, NewIdType DEF NewId
<1> QED  BY <1>1 DEF Once, Unreported, UnreportedAfter

LEMMA EnterOnce ==
    ASSUME TypeOK, Once, Silent, NEW call, Enter(call),
           plannerStates' = plannerStates, queryStates' = queryStates, plans' = plans,
           open' = open,
           \/ (call.kind = "run" \/ call.id = 0) /\ bornIn' = bornIn
           \/ call.id = NewId /\ GenerateSpanId
    PROVE  Once'
<1> DEFINE n == Len(calls) + 1
<1>1. /\ Len(calls) \in Nat /\ Len(calls') = n /\ calls'[n] = call
      /\ \A i \in 1..Len(calls) : calls'[i] = calls[i]
  BY EnterCalls, CallsType
<1>2. /\ \A id : Unreported(id) => UnreportedAfter(id)
      /\ reported' \subseteq 1..Len(bornIn')
  <2>1. bornIn' = bornIn \/ GenerateSpanId
    OBVIOUS
  <2> QED  BY <2>1, UnreportedSilently
<1>3. CASE (call.kind = "run" \/ call.id = 0) /\ bornIn' = bornIn
  <2>1. \A i \in 1..Len(calls') : Holding(i)' => i \in 1..Len(calls) /\ calls'[i] = calls[i]
    BY <1>1, <1>3 DEF Holding
  <2>2. \A i \in 1..Len(calls') : Holding(i)' => UnreportedAfter(calls[i].id)
    BY <1>2, <2>1 DEF Holding, Once, CallsDistinct
  <2> QED  BY <1>2, <2>1, <2>2, OnceKept DEF Once, PlannersDistinct, QueriesDistinct
<1>4. CASE call.id = NewId /\ GenerateSpanId
  <2>1. /\ UnreportedAfter(NewId)
        /\ \A id : Unreported(id) => UnreportedAfter(id) /\ id # NewId
    BY <1>4, NewIdUnreported DEF Silent
  <2>2. \A i \in 1..Len(calls') :
           \/ i \in 1..Len(calls) /\ calls'[i] = calls[i]
           \/ i = n /\ calls'[i].id = NewId
    BY <1>1, <1>4
  <2>3. \A i \in 1..Len(calls') : Holding(i)' =>
           \/ i \in 1..Len(calls) /\ calls'[i] = calls[i] /\ Holding(i)
                /\ Unreported(calls[i].id)
           \/ i = n /\ calls'[i].id = NewId
    BY <2>2 DEF Holding, Once, CallsDistinct
  <2>4. CallsDistinct'
    <3> SUFFICES ASSUME NEW i \in 1..Len(calls'), Holding(i)'
                 PROVE  /\ UnreportedAfter(calls'[i].id)
                        /\ \A j \in 1..Len(calls') :
                              Holding(j)' /\ calls'[j].id = calls'[i].id => i = j
      BY DEF CallsDistinct, Unreported, UnreportedAfter
    <3>1. CASE i = n
      BY <2>1, <2>3, <3>1, <1>1, <1>4
    <3>2. CASE i # n
      <4>1. calls'[i] = calls[i] /\ Holding(i) /\ Unreported(calls[i].id) /\ i \in 1..Len(calls)
        BY <2>3, <3>2
      <4>2. ASSUME NEW j \in 1..Len(calls'), Holding(j)', calls'[j].id = calls'[i].id
            PROVE  i = j
        <5>1. j # n
          BY <2>1, <4>1, <4>2, <1>1, <1>4
        <5>2. calls'[j] = calls[j] /\ Holding(j) /\ j \in 1..Len(calls)
          BY <2>3, <4>2, <5>1
        <5> QED  BY <4>1, <4>2, <5>2 DEF Once, CallsDistinct
      <4> QED  BY <2>1, <4>1, <4>2
    <3> QED  BY <3>1, <3>2
  <2>5. PlannersDistinct'
    <3> SUFFICES ASSUME NEW p \in PlannedStmts, plannerStates[p].id # 0
                 PROVE  /\ UnreportedAfter(plannerStates[p].id)
                        /\ plans[p] # NoPlan => plans[p].kind = "one-shot"
                        /\ \A r \in PlannedStmts :
                              plannerStates[r].id = plannerStates[p].id => r = p
                        /\ \A i \in 1..Len(calls') : Holding(i)' =>
                              calls'[i].id # plannerStates[p].id
      BY DEF PlannersDistinct, Unreported, UnreportedAfter
    <3>1. Unreported(plannerStates[p].id)
      BY DEF Once, PlannersDistinct
    <3> QED  BY <2>1, <2>3, <3>1 DEF Once, PlannersDistinct
  <2>6. QueriesDistinct'
    <3> SUFFICES ASSUME NEW q \in QueryDescs, queryStates[q].id # 0
                 PROVE  /\ UnreportedAfter(queryStates[q].id)
                        /\ \A r \in QueryDescs : queryStates[r].id = queryStates[q].id => r = q
                        /\ \A i \in 1..Len(calls') : Holding(i)' =>
                              calls'[i].id # queryStates[q].id
                        /\ \A p \in PlannedStmts : plannerStates[p].id = queryStates[q].id =>
                              \/ open[q] # NoQuery /\ open[q].plan = p
                              \/ open[q] = NoQuery /\ plans[p] = NoPlan
      BY DEF QueriesDistinct, Unreported, UnreportedAfter
    <3>1. Unreported(queryStates[q].id)
      BY DEF Once, QueriesDistinct
    <3>2. \A i \in 1..Len(calls') : Holding(i)' => calls'[i].id # queryStates[q].id
      BY <2>1, <2>3, <3>1 DEF Once, QueriesDistinct
    <3> QED  BY <2>1, <3>1, <3>2 DEF Once, QueriesDistinct
  <2> QED  BY <1>2, <2>4, <2>5, <2>6 DEF Once
<1> QED  BY <1>3, <1>4

\* The planner call hands its id to the planner state.
LEMMA PlannerReturnOnce ==
    ASSUME HInv, Once, "recycle" \notin Environment,
           NEW returned \in PlannedStmts, NEW kept \in PlannedStmts,
           PlannerReturn(returned, kept)
    PROVE  Once'
<1> USE DEF HInv, Linked
<1>1. /\ plans[returned] = NoPlan /\ plannerStates[returned] = NoPlannerState
      /\ plans[kept] = NoPlan /\ plannerStates[kept] = NoPlannerState
      /\ calls # <<>> /\ Leave /\ Top.kind = "plan"
      /\ open' = open /\ queryStates' = queryStates /\ bornIn' = bornIn
      /\ \A p \in PlannedStmts :
            plannerStates'[p] =
              IF p = returned /\ Top.id # 0
              THEN [context |-> Top.context, id |-> Top.id, hasSpan |-> TRUE]
              ELSE plannerStates[p]
      /\ \A p \in PlannedStmts : p # kept => plans'[p] = plans[p]
      /\ returned = kept => plans'[kept].kind = "one-shot"
  BY Types DEF PlannerReturn, Allocatable
<1>2. reported' = reported
  BY QuietSteps DEF Silent
<1>3. \A id : Unreported(id) <=> UnreportedAfter(id)
  BY <1>1, <1>2 DEF Unreported, UnreportedAfter
<1>4. /\ Top = calls[Len(calls)] /\ Len(calls) \in 1..Len(calls)
      /\ \A i \in 1..Len(calls') :
            i \in 1..Len(calls) /\ i # Len(calls) /\ calls'[i] = calls[i]
      /\ \A i \in 1..Len(calls') : Holding(i)' => Holding(i)
  BY <1>1, TopType, LeaveCalls DEF Top, Holding
<1>5. Top.id # 0 =>
         /\ Holding(Len(calls)) /\ Unreported(Top.id)
         /\ \A i \in 1..Len(calls') : Holding(i)' => calls'[i].id # Top.id
         /\ \A p \in PlannedStmts : plannerStates[p].id # Top.id
         /\ \A q \in QueryDescs : queryStates[q].id # Top.id
  <2> SUFFICES ASSUME Top.id # 0
               PROVE  /\ Holding(Len(calls)) /\ Unreported(Top.id)
                      /\ \A i \in 1..Len(calls') : Holding(i)' => calls'[i].id # Top.id
                      /\ \A p \in PlannedStmts : plannerStates[p].id # Top.id
                      /\ \A q \in QueryDescs : queryStates[q].id # Top.id
    OBVIOUS
  <2>1. Holding(Len(calls))
    BY <1>1, <1>4 DEF Holding
  <2>2. Unreported(Top.id)
    BY <1>4, <2>1 DEF Once, CallsDistinct
  <2>3. \A i \in 1..Len(calls') : Holding(i)' => calls'[i].id # Top.id
    BY <1>4, <2>1 DEF Once, CallsDistinct
  <2>4. \A p \in PlannedStmts : plannerStates[p].id # Top.id
    BY <1>4, <2>1 DEF Once, PlannersDistinct
  <2>5. \A q \in QueryDescs : queryStates[q].id # Top.id
    BY <1>4, <2>1 DEF Once, QueriesDistinct
  <2> QED  BY <2>1, <2>2, <2>3, <2>4, <2>5
<1>6. CallsDistinct'
  BY <1>3, <1>4 DEF Once, CallsDistinct, Unreported, UnreportedAfter
<1>7. PlannersDistinct'
  <2> SUFFICES ASSUME NEW p \in PlannedStmts, plannerStates'[p].id # 0
               PROVE  /\ UnreportedAfter(plannerStates'[p].id)
                      /\ plans'[p] # NoPlan => plans'[p].kind = "one-shot"
                      /\ \A r \in PlannedStmts :
                            plannerStates'[r].id = plannerStates'[p].id => r = p
                      /\ \A i \in 1..Len(calls') : Holding(i)' =>
                            calls'[i].id # plannerStates'[p].id
    BY DEF PlannersDistinct, Unreported, UnreportedAfter
  <2>1. CASE p = returned
    <3>1. Top.id # 0 /\ plannerStates'[p].id = Top.id
      BY <1>1, <2>1 DEF NoPlannerState
    <3>2. plans'[p] # NoPlan => plans'[p].kind = "one-shot"
      BY <1>1, <2>1
    <3>3. \A r \in PlannedStmts : plannerStates'[r].id = plannerStates'[p].id => r = p
      BY <1>1, <1>5, <2>1, <3>1
    <3> QED  BY <1>3, <1>5, <3>1, <3>2, <3>3
  <2>2. CASE p # returned
    <3>1. plannerStates'[p] = plannerStates[p] /\ plannerStates[p].id # 0 /\ p # kept
      BY <1>1, <2>2 DEF NoPlannerState
    <3>2. \A r \in PlannedStmts : plannerStates'[r].id = plannerStates'[p].id => r = p
      BY <1>1, <1>5, <3>1 DEF Once, PlannersDistinct
    <3>3. \A i \in 1..Len(calls') : Holding(i)' => calls'[i].id # plannerStates'[p].id
      BY <1>4, <3>1 DEF Once, PlannersDistinct
    <3>4. /\ UnreportedAfter(plannerStates'[p].id)
          /\ plans'[p] # NoPlan => plans'[p].kind = "one-shot"
      BY <1>1, <1>3, <3>1 DEF Once, PlannersDistinct
    <3> QED  BY <3>2, <3>3, <3>4
  <2> QED  BY <2>1, <2>2
<1>8. QueriesDistinct'
  <2> SUFFICES ASSUME NEW q \in QueryDescs, queryStates[q].id # 0
               PROVE  /\ UnreportedAfter(queryStates[q].id)
                      /\ \A r \in QueryDescs : queryStates[r].id = queryStates[q].id => r = q
                      /\ \A i \in 1..Len(calls') : Holding(i)' =>
                            calls'[i].id # queryStates[q].id
                      /\ \A p \in PlannedStmts : plannerStates'[p].id = queryStates[q].id =>
                            \/ open[q] # NoQuery /\ open[q].plan = p
                            \/ open[q] = NoQuery /\ plans'[p] = NoPlan
    BY <1>1 DEF QueriesDistinct, Unreported, UnreportedAfter
  <2>1. /\ UnreportedAfter(queryStates[q].id)
        /\ \A r \in QueryDescs : queryStates[r].id = queryStates[q].id => r = q
        /\ \A i \in 1..Len(calls') : Holding(i)' => calls'[i].id # queryStates[q].id
    BY <1>3, <1>4 DEF Once, QueriesDistinct
  <2>2. ASSUME NEW p \in PlannedStmts, plannerStates'[p].id = queryStates[q].id
        PROVE  \/ open[q] # NoQuery /\ open[q].plan = p
               \/ open[q] = NoQuery /\ plans'[p] = NoPlan
    <3>1. plannerStates'[p] = plannerStates[p]
      BY <1>1, <1>5, <2>2
    <3>2. p # kept
      BY <1>1, <2>2, <3>1 DEF NoPlannerState
    <3> QED  BY <1>1, <2>2, <3>1, <3>2 DEF Once, QueriesDistinct
  <2> QED  BY <2>1, <2>2
<1> QED  BY <1>1, <1>2, <1>6, <1>7, <1>8 DEF Once

\* The adopted id, and one that is new, are held by nobody else.
LEMMA StartOnce ==
    ASSUME HInv, Once, NEW q \in QueryDescs, NEW p \in PlannedStmts, MayExecute(q, p),
           StartState(p).id # 0
    PROVE  /\ StartState(p).id \in 1..Len(bornIn')
           /\ StartState(p).id \notin reported
           /\ \A r \in QueryDescs : queryStates[r].id # StartState(p).id
           /\ \A i \in 1..Len(calls) : Holding(i) => calls[i].id # StartState(p).id
           /\ \A o \in PlannedStmts : plannerStates[o].id = StartState(p).id => o = p
<1> USE DEF HInv, Linked
<1>1. CASE Adopts(p)
  <2>1. /\ plannerStates[p].id # 0 /\ StartState(p).id = plannerStates[p].id
        /\ bornIn' = bornIn /\ plans[p] # NoPlan
    BY <1>1 DEF Adopts, StartState, MayExecute
  <2>2. /\ Unreported(plannerStates[p].id) /\ plans[p].kind = "one-shot"
        /\ \A o \in PlannedStmts : plannerStates[o].id = plannerStates[p].id => o = p
        /\ \A i \in 1..Len(calls) : Holding(i) => calls[i].id # plannerStates[p].id
    BY <2>1 DEF Once, PlannersDistinct
  <2>3. \A r \in QueryDescs : open[r].plan # p
    BY <2>2 DEF MayExecute
  <2>4. \A r \in QueryDescs : queryStates[r].id # plannerStates[p].id
    BY <2>1, <2>3 DEF Once, QueriesDistinct
  <2> QED  BY <2>1, <2>2, <2>4 DEF Unreported
<1>2. CASE ~Adopts(p)
  <2>1. StartState(p).id = NewId /\ GenerateSpanId
    BY <1>2 DEF MayExecute, StartState, NoQueryState
  <2>2. NewId \in 1..Len(bornIn') /\ NewId \notin 1..Len(bornIn)
    BY <2>1, Types, NewIdType DEF NewId
  <2> QED  BY <2>1, <2>2
           DEF Once, Unreported, CallsDistinct, PlannersDistinct, QueriesDistinct
<1> QED  BY <1>1, <1>2

LEMMA ExecutorStartOnce ==
    ASSUME HInv, Once, NEW q \in QueryDescs, NEW p \in PlannedStmts, ExecutorStart(q, p)
    PROVE  Once'
<1> USE DEF HInv, Linked
<1>1. /\ calls' = calls /\ plans' = plans /\ MayExecute(q, p) /\ plans[p] # NoPlan
      /\ open[q] = NoQuery
      /\ \A r \in QueryDescs :
            /\ queryStates'[r] = IF r = q THEN StartState(p) ELSE queryStates[r]
            /\ open'[r] = IF r = q THEN [plan |-> p, cause |-> Cause] ELSE open[r]
      /\ \A o \in PlannedStmts :
            plannerStates'[o] = IF o = p /\ StartState(p).id = 0 THEN NoPlannerState
                                ELSE plannerStates[o]
  BY Types DEF ExecutorStart, MayExecute
<1>2. Silent /\ (bornIn' = bornIn \/ GenerateSpanId)
  BY QuietSteps DEF ExecutorStart, MayExecute
<1>3. /\ \A id : Unreported(id) => UnreportedAfter(id)
      /\ reported' \subseteq 1..Len(bornIn')
  BY <1>2, UnreportedSilently
<1>4. CallsDistinct'
  BY <1>1, <1>3 DEF Once, CallsDistinct, Holding, Unreported, UnreportedAfter
<1>5. \A o \in PlannedStmts : plannerStates'[o].id # 0 => plannerStates'[o] = plannerStates[o]
  BY <1>1 DEF NoPlannerState
<1>6. PlannersDistinct'
  BY <1>1, <1>3, <1>5 DEF Once, PlannersDistinct, Holding, Unreported, UnreportedAfter
<1>7. QueriesDistinct'
  <2> SUFFICES ASSUME NEW r \in QueryDescs, queryStates'[r].id # 0
               PROVE  /\ UnreportedAfter(queryStates'[r].id)
                      /\ \A s \in QueryDescs : queryStates'[s].id = queryStates'[r].id => s = r
                      /\ \A i \in 1..Len(calls) : Holding(i) =>
                            calls[i].id # queryStates'[r].id
                      /\ \A o \in PlannedStmts : plannerStates'[o].id = queryStates'[r].id =>
                            \/ open'[r] # NoQuery /\ open'[r].plan = o
                            \/ open'[r] = NoQuery /\ plans[o] = NoPlan
    BY <1>1 DEF QueriesDistinct, Holding, Unreported, UnreportedAfter
  <2>1. CASE r = q
    <3>1. queryStates'[r] = StartState(p) /\ StartState(p).id # 0
      BY <1>1, <2>1
    <3>2. /\ StartState(p).id \in 1..Len(bornIn')
          /\ StartState(p).id \notin reported
          /\ \A s \in QueryDescs : queryStates[s].id # StartState(p).id
          /\ \A i \in 1..Len(calls) : Holding(i) => calls[i].id # StartState(p).id
          /\ \A o \in PlannedStmts : plannerStates[o].id = StartState(p).id => o = p
      BY <1>1, <3>1, StartOnce
    <3>3. UnreportedAfter(queryStates'[r].id)
      BY <1>2, <3>1, <3>2 DEF UnreportedAfter, Silent
    <3>4. open'[r] # NoQuery /\ open'[r].plan = p
      BY <1>1, <2>1, AddressAssumption DEF NoQuery
    <3> QED  BY <1>1, <2>1, <3>1, <3>2, <3>3, <3>4
  <2>2. CASE r # q
    <3>1. queryStates'[r] = queryStates[r] /\ open'[r] = open[r]
      BY <1>1, <2>2
    <3>2. UnreportedAfter(queryStates'[r].id)
      BY <1>3, <3>1 DEF Once, QueriesDistinct
    <3>3. \A s \in QueryDescs : queryStates'[s].id = queryStates'[r].id => s = r
      BY <1>1, <2>2, <3>1, StartOnce DEF Once, QueriesDistinct
    <3>4. \A i \in 1..Len(calls) : Holding(i) => calls[i].id # queryStates'[r].id
      BY <3>1 DEF Once, QueriesDistinct
    <3>5. \A o \in PlannedStmts : plannerStates'[o].id = queryStates'[r].id =>
             \/ open'[r] # NoQuery /\ open'[r].plan = o
             \/ open'[r] = NoQuery /\ plans[o] = NoPlan
      BY <1>5, <3>1 DEF Once, QueriesDistinct
    <3> QED  BY <3>2, <3>3, <3>4, <3>5
  <2> QED  BY <2>1, <2>2
<1> QED  BY <1>3, <1>4, <1>6, <1>7 DEF Once

\* What holds an id that is reported now: nothing else.
LEMMA EndedOnce ==
    ASSUME HInv, PlannerLinks, Once, NEW q \in QueryDescs, open[q] # NoQuery,
           DeleteTraceStates(q), Close({q}), bornIn' = bornIn,
           EmitQuery(q, FALSE) \/ EmitQuery(q, TRUE),
           calls' = calls \/ (calls # <<>> /\ Leave)
    PROVE  Once' /\ (ReportedOnce => ReportedOnce')
<1> USE DEF HInv, Linked
<1>1. /\ \A r \in QueryDescs : queryStates'[r] = IF r = q THEN NoQueryState ELSE queryStates[r]
      /\ \A p \in PlannedStmts :
            plannerStates'[p] = IF p = open[q].plan THEN NoPlannerState ELSE plannerStates[p]
  BY Deleted
<1>2. /\ \A i \in 1..Len(calls') : i \in 1..Len(calls) /\ calls'[i] = calls[i]
      /\ \A i \in 1..Len(calls') : Holding(i)' => Holding(i)
  BY KeptCalls DEF Holding
<1>3. /\ \A p \in PlannedStmts : plans'[p] = plans[p] \/ plans'[p] = NoPlan
      /\ \A r \in QueryDescs : open'[r] = IF r = q THEN NoQuery ELSE open[r]
  BY Types DEF Close
<1>4. MayReport(queryStates[q].id, queryStates[q].context,
                plans[open[q].plan].text, open[q].cause)
  BY EndReports
<1>5. queryStates[q].id # 0 =>
         /\ Unreported(queryStates[q].id)
         /\ \A r \in QueryDescs : r # q => queryStates[r].id # queryStates[q].id
         /\ \A i \in 1..Len(calls) : Holding(i) => calls[i].id # queryStates[q].id
         /\ \A p \in PlannedStmts : p # open[q].plan => plannerStates[p].id # queryStates[q].id
  BY DEF Once, QueriesDistinct
<1>6. /\ \A id : Unreported(id) /\ id # queryStates[q].id => UnreportedAfter(id)
      /\ reported' \subseteq 1..Len(bornIn')
  <2>1. CASE queryStates[q].id = 0
    BY <1>4, <2>1, UnreportedSilently DEF MayReport
  <2>2. CASE queryStates[q].id # 0
    BY <1>4, <1>5, <2>2, UnreportedStays DEF MayReport, Reports, Unreported
  <2> QED  BY <2>1, <2>2
<1>7. ReportedOnce => ReportedOnce'
  BY <1>4, <1>5 DEF MayReport, Reports, Silent, ReportedOnce, Unreported
<1>8. \A i \in 1..Len(calls') : Holding(i)' => UnreportedAfter(calls[i].id)
  <2> SUFFICES ASSUME NEW i \in 1..Len(calls'), Holding(i)'
               PROVE  UnreportedAfter(calls[i].id)
    OBVIOUS
  <2>1. i \in 1..Len(calls) /\ Holding(i)
    BY <1>2
  <2>2. Unreported(calls[i].id) /\ calls[i].id # 0
    BY <2>1 DEF Once, CallsDistinct, Holding
  <2>3. calls[i].id # queryStates[q].id
    BY <1>5, <2>1, <2>2
  <2> QED  BY <1>6, <2>2, <2>3
<1>9. \A p \in PlannedStmts : plannerStates'[p].id # 0 =>
         plannerStates'[p] = plannerStates[p] /\ UnreportedAfter(plannerStates[p].id)
  <2> SUFFICES ASSUME NEW p \in PlannedStmts, plannerStates'[p].id # 0
               PROVE  plannerStates'[p] = plannerStates[p]
                        /\ UnreportedAfter(plannerStates[p].id)
    OBVIOUS
  <2>1. p # open[q].plan /\ plannerStates'[p] = plannerStates[p]
    BY <1>1 DEF NoPlannerState
  <2>2. Unreported(plannerStates[p].id)
    BY <2>1 DEF Once, PlannersDistinct
  <2>3. plannerStates[p].id # queryStates[q].id
    BY <1>5, <2>1
  <2> QED  BY <1>6, <2>1, <2>2, <2>3
<1>10. \A r \in QueryDescs : queryStates'[r].id # 0 =>
          queryStates'[r] = queryStates[r] /\ UnreportedAfter(queryStates[r].id)
  <2> SUFFICES ASSUME NEW r \in QueryDescs, queryStates'[r].id # 0
               PROVE  queryStates'[r] = queryStates[r]
                        /\ UnreportedAfter(queryStates[r].id)
    OBVIOUS
  <2>1. r # q /\ queryStates'[r] = queryStates[r]
    BY <1>1 DEF NoQueryState
  <2>2. Unreported(queryStates[r].id)
    BY <2>1 DEF Once, QueriesDistinct
  <2>3. queryStates[r].id # queryStates[q].id
    BY <1>5, <2>1
  <2> QED  BY <1>6, <2>1, <2>2, <2>3
<1>11. \A r \in QueryDescs :
          \/ open'[r] = open[r]
          \/ /\ open'[r] = NoQuery /\ open[r] # NoQuery
             /\ \A p \in PlannedStmts :
                   open[r].plan = p /\ plannerStates'[p].id # 0 => plans'[p] = NoPlan
  BY <1>1, <1>3 DEF NoPlannerState
<1>12. Once'
  BY <1>2, <1>3, <1>6, <1>8, <1>9, <1>10, <1>11, OnceKept
<1> QED  BY <1>7, <1>12

LEMMA StartErrorOnce ==
    ASSUME HInv, PlannerLinks, Once, NEW q \in QueryDescs, NEW p \in PlannedStmts,
           ExecutorStartError(q, p)
    PROVE  Once' /\ (ReportedOnce => ReportedOnce')
<1> USE DEF HInv, Linked
<1> DEFINE id == StartState(p).id
<1>1. /\ calls' = calls /\ open' = open /\ MayExecute(q, p)
      /\ \A r \in QueryDescs : queryStates'[r] = IF r = q THEN NoQueryState ELSE queryStates[r]
      /\ \A o \in PlannedStmts :
            plannerStates'[o] = IF o = p THEN NoPlannerState ELSE plannerStates[o]
      /\ \A o \in PlannedStmts : plans'[o] = plans[o] \/ plans'[o] = NoPlan
  BY Types DEF ExecutorStartError
<1>2. bornIn' = bornIn \/ GenerateSpanId
  BY <1>1 DEF MayExecute
<1>3. MayReport(id, StartState(p).context, plans[p].text, Cause)
  BY StartErrorReports
<1>4. id # 0 =>
         /\ id \in 1..Len(bornIn') /\ id \notin reported
         /\ \A r \in QueryDescs : queryStates[r].id # id
         /\ \A i \in 1..Len(calls) : Holding(i) => calls[i].id # id
         /\ \A o \in PlannedStmts : plannerStates[o].id = id => o = p
  BY <1>1, StartOnce
<1>5. /\ \A held : Unreported(held) /\ held # id => UnreportedAfter(held)
      /\ reported' \subseteq 1..Len(bornIn')
  <2>1. CASE id = 0
    BY <1>2, <1>3, <2>1, UnreportedSilently DEF MayReport
  <2>2. CASE id # 0
    BY <1>2, <1>3, <1>4, <2>2, UnreportedStays DEF MayReport, Reports
  <2> QED  BY <2>1, <2>2
<1>6. ReportedOnce => ReportedOnce'
  BY <1>3, <1>4 DEF MayReport, Reports, Silent, ReportedOnce
<1> HIDE DEF id
<1>7. \A i \in 1..Len(calls') : Holding(i)' =>
         i \in 1..Len(calls) /\ calls'[i] = calls[i] /\ UnreportedAfter(calls[i].id)
  BY <1>1, <1>4, <1>5 DEF Once, CallsDistinct, Holding
<1>8. \A o \in PlannedStmts : plannerStates'[o].id # 0 =>
         plannerStates'[o] = plannerStates[o] /\ UnreportedAfter(plannerStates[o].id)
  BY <1>1, <1>4, <1>5 DEF Once, PlannersDistinct, NoPlannerState
<1>9. \A r \in QueryDescs : queryStates'[r].id # 0 =>
         queryStates'[r] = queryStates[r] /\ UnreportedAfter(queryStates[r].id)
  BY <1>1, <1>4, <1>5 DEF Once, QueriesDistinct, NoQueryState
<1>10. Once'
  BY <1>1, <1>5, <1>7, <1>8, <1>9, OnceKept
<1> QED  BY <1>6, <1>10

LEMMA CallEndOnce ==
    ASSUME HInv, Once, PlannerError \/ UtilityReturn
    PROVE  Once' /\ (ReportedOnce => ReportedOnce')
<1> USE DEF HInv, Linked
<1>1. /\ calls # <<>> /\ Leave /\ Top.kind # "run" /\ open' = open /\ plans' = plans
      /\ queryStates' = queryStates /\ plannerStates' = plannerStates /\ bornIn' = bornIn
  BY DEF PlannerError, UtilityReturn
<1>2. /\ Top = calls[Len(calls)] /\ Len(calls) \in 1..Len(calls)
      /\ \A i \in 1..Len(calls') :
            i \in 1..Len(calls) /\ i # Len(calls) /\ calls'[i] = calls[i]
      /\ \A i \in 1..Len(calls') : Holding(i)' => Holding(i)
  BY <1>1, TopType, LeaveCalls DEF Top, Holding
<1>3. MayReport(Top.id, Top.context, Top.text, Top.cause)
  BY CallReports
<1>4. Top.id # 0 => Holding(Len(calls)) /\ Unreported(Top.id)
  BY <1>1, <1>2 DEF Once, CallsDistinct, Holding
<1>5. /\ \A id : Unreported(id) /\ id # Top.id => UnreportedAfter(id)
      /\ reported' \subseteq 1..Len(bornIn')
  <2>1. CASE Top.id = 0
    BY <1>1, <1>3, <2>1, UnreportedSilently DEF MayReport
  <2>2. CASE Top.id # 0
    BY <1>1, <1>3, <1>4, <2>2, UnreportedStays DEF MayReport, Reports, Unreported
  <2> QED  BY <2>1, <2>2
<1>6. ReportedOnce => ReportedOnce'
  BY <1>3, <1>4 DEF MayReport, Reports, Silent, ReportedOnce, Unreported
<1>7. \A i \in 1..Len(calls') : Holding(i)' => UnreportedAfter(calls[i].id)
  <2> SUFFICES ASSUME NEW i \in 1..Len(calls'), Holding(i)'
               PROVE  UnreportedAfter(calls[i].id)
    OBVIOUS
  <2>1. i \in 1..Len(calls) /\ i # Len(calls) /\ Holding(i)
    BY <1>2
  <2>2. Unreported(calls[i].id) /\ calls[i].id # 0
    BY <2>1 DEF Once, CallsDistinct, Holding
  <2>3. calls[i].id # Top.id
    BY <1>2, <1>4, <2>1, <2>2 DEF Once, CallsDistinct
  <2> QED  BY <1>5, <2>2, <2>3
<1>8. \A p \in PlannedStmts : plannerStates[p].id # 0 => UnreportedAfter(plannerStates[p].id)
  <2> SUFFICES ASSUME NEW p \in PlannedStmts, plannerStates[p].id # 0
               PROVE  UnreportedAfter(plannerStates[p].id)
    OBVIOUS
  <2>1. /\ Unreported(plannerStates[p].id)
        /\ \A i \in 1..Len(calls) : Holding(i) => calls[i].id # plannerStates[p].id
    BY DEF Once, PlannersDistinct
  <2>2. plannerStates[p].id # Top.id
    BY <1>2, <1>4, <2>1
  <2> QED  BY <1>5, <2>1, <2>2
<1>9. \A q \in QueryDescs : queryStates[q].id # 0 => UnreportedAfter(queryStates[q].id)
  <2> SUFFICES ASSUME NEW q \in QueryDescs, queryStates[q].id # 0
               PROVE  UnreportedAfter(queryStates[q].id)
    OBVIOUS
  <2>1. /\ Unreported(queryStates[q].id)
        /\ \A i \in 1..Len(calls) : Holding(i) => calls[i].id # queryStates[q].id
    BY DEF Once, QueriesDistinct
  <2>2. queryStates[q].id # Top.id
    BY <1>2, <1>4, <2>1
  <2> QED  BY <1>5, <2>1, <2>2
<1>10. Once'
  BY <1>1, <1>2, <1>5, <1>7, <1>8, <1>9, OnceKept
<1> QED  BY <1>6, <1>10

\* Steps that emit nothing and generate no id.
LEMMA QuietOnce ==
    ASSUME HInv, Once, Silent, bornIn' = bornIn, calls' = calls \/ (calls # <<>> /\ Leave),
           \A p \in PlannedStmts :
              plannerStates'[p] = plannerStates[p] \/ plannerStates'[p].id = 0,
           \A q \in QueryDescs : queryStates'[q] = queryStates[q] \/ queryStates'[q].id = 0,
           \A p \in PlannedStmts : plans'[p] = plans[p] \/ plans'[p] = NoPlan,
           \A q \in QueryDescs :
              \/ open'[q] = open[q]
              \/ /\ open'[q] = NoQuery /\ open[q] # NoQuery
                 /\ \A p \in PlannedStmts :
                       open[q].plan = p /\ plannerStates'[p].id # 0 => plans'[p] = NoPlan
    PROVE  Once'
<1>1. /\ \A id : Unreported(id) => UnreportedAfter(id)
      /\ reported' \subseteq 1..Len(bornIn')
  BY UnreportedSilently DEF HInv
<1>2. /\ \A i \in 1..Len(calls') : i \in 1..Len(calls) /\ calls'[i] = calls[i]
      /\ \A i \in 1..Len(calls') : Holding(i)' => Holding(i)
  BY KeptCalls DEF HInv, Holding
<1>3. \A i \in 1..Len(calls') : Holding(i)' => UnreportedAfter(calls[i].id)
  BY <1>1, <1>2 DEF Once, CallsDistinct
<1>4. \A p \in PlannedStmts : plannerStates'[p].id # 0 =>
         plannerStates'[p] = plannerStates[p] /\ UnreportedAfter(plannerStates[p].id)
  BY <1>1 DEF Once, PlannersDistinct
<1>5. \A q \in QueryDescs : queryStates'[q].id # 0 =>
         queryStates'[q] = queryStates[q] /\ UnreportedAfter(queryStates[q].id)
  BY <1>1 DEF Once, QueriesDistinct
<1> QED  BY <1>1, <1>2, <1>3, <1>4, <1>5, OnceKept

LEMMA StepOnce ==
    ASSUME PInv, Once, ReportedOnce, "recycle" \notin Environment, [Next]_vars
    PROVE  Once' /\ ReportedOnce'
<1> USE DEF PInv, HInv, Linked
<1>1. ASSUME Silent
      PROVE  ReportedOnce'
  BY <1>1 DEF Silent, ReportedOnce
<1>2. CASE UNCHANGED vars
  <2>1. Once'
    BY <1>2 DEF vars, history, Once, CallsDistinct, PlannersDistinct, QueriesDistinct,
                Holding, Unreported
  <2> QED  BY <1>2, <2>1 DEF vars, history, ReportedOnce
<1>3. ASSUME NEW text \in Texts, PlannerCall(text) \/ UtilityCall(text)
      PROVE  Once' /\ ReportedOnce'
  <2>1. PICK call :
          /\ Enter(call)
          /\ \/ call.id = 0 /\ bornIn' = bornIn
             \/ call.id = NewId /\ GenerateSpanId
    BY <1>3 DEF PlannerCall, UtilityCall, Call
  <2>2. /\ Silent /\ plannerStates' = plannerStates /\ queryStates' = queryStates
        /\ plans' = plans /\ open' = open
    BY <1>3, QuietSteps DEF PlannerCall, UtilityCall
  <2>3. Once'
    BY <2>1, <2>2, EnterOnce
  <2> QED  BY <1>1, <2>2, <2>3
<1>4. ASSUME NEW q \in QueryDescs, ExecutorCall(q)
      PROVE  Once' /\ ReportedOnce'
  <2>1. PICK call : Enter(call) /\ call.kind = "run"
    BY <1>4 DEF ExecutorCall, Call
  <2>2. /\ Silent /\ plannerStates' = plannerStates /\ queryStates' = queryStates
        /\ plans' = plans /\ open' = open /\ bornIn' = bornIn
    BY <1>4, QuietSteps DEF ExecutorCall
  <2>3. Once'
    BY <2>1, <2>2, EnterOnce
  <2> QED  BY <1>1, <2>2, <2>3
<1>5. ASSUME NEW returned \in PlannedStmts, NEW kept \in PlannedStmts,
             PlannerReturn(returned, kept)
      PROVE  Once' /\ ReportedOnce'
  BY <1>1, <1>5, PlannerReturnOnce, QuietSteps
<1>6. ASSUME NEW q \in QueryDescs, NEW p \in PlannedStmts, ExecutorStart(q, p)
      PROVE  Once' /\ ReportedOnce'
  BY <1>1, <1>6, ExecutorStartOnce, QuietSteps
<1>7. ASSUME NEW q \in QueryDescs, NEW p \in PlannedStmts, ExecutorStartError(q, p)
      PROVE  Once' /\ ReportedOnce'
  BY <1>7, StartErrorOnce
<1>8. CASE PlannerError \/ UtilityReturn
  BY <1>8, CallEndOnce
<1>9. CASE ExecutorError \/ \E q \in QueryDescs : ExecutorEnd(q)
  <2>1. PICK q \in QueryDescs :
          /\ open[q] # NoQuery /\ DeleteTraceStates(q) /\ Close({q}) /\ bornIn' = bornIn
          /\ EmitQuery(q, FALSE) \/ EmitQuery(q, TRUE)
          /\ calls' = calls \/ (calls # <<>> /\ Leave)
    BY <1>9, Ended
  <2> QED  BY <2>1, EndedOnce
<1>10. CASE \/ ExecutorReturn \/ RaiseError
            \/ \E p \in PlannedStmts : FreePlan(p)
            \/ \E m \in Modes : SetMode(m)
  <2>1. Silent
    BY <1>10, QuietSteps
  <2>2. /\ open' = open /\ queryStates' = queryStates /\ plannerStates' = plannerStates
        /\ bornIn' = bornIn
        /\ calls' = calls \/ (calls # <<>> /\ Leave)
    BY <1>10 DEF ExecutorReturn, RaiseError, FreePlan, SetMode
  <2>3. \A p \in PlannedStmts : plans'[p] = plans[p] \/ plans'[p] = NoPlan
    BY <1>10, Types DEF ExecutorReturn, RaiseError, FreePlan, SetMode
  <2>4. Once'
    BY <2>1, <2>2, <2>3, QuietOnce
  <2> QED  BY <1>1, <2>1, <2>4
<1>11. CASE Commit \/ Abort
  <2>1. Silent
    BY <1>11, QuietSteps
  <2>2. /\ \A p \in PlannedStmts : plannerStates'[p].id = 0
        /\ \A q \in QueryDescs : queryStates'[q].id = 0
        /\ \A p \in PlannedStmts : plans'[p] = plans[p] \/ plans'[p] = NoPlan
        /\ bornIn' = bornIn /\ calls' = calls
    BY <1>11 DEF Commit, Abort, XactEndCallback, ReleasePlans, NoPlannerState, NoQueryState
  <2>3. \A q \in QueryDescs : open'[q] = open[q] \/ open'[q] = NoQuery
    BY <1>11, Types DEF Commit, Abort
  <2>4. Once'
    BY <2>1, <2>2, <2>3, QuietOnce
  <2> QED  BY <1>1, <2>1, <2>4
<1>12. ASSUME NEW freed \in SUBSET Idle, CatchError(freed)
       PROVE  Once' /\ ReportedOnce'
  <2>1. Silent
    BY <1>12, QuietSteps
  <2>2. /\ Close(freed) /\ queryStates' = queryStates /\ plannerStates' = plannerStates
        /\ bornIn' = bornIn /\ calls' = calls
    BY <1>12 DEF CatchError
  <2>3. /\ \A p \in PlannedStmts : plans'[p] = plans[p] \/ plans'[p] = NoPlan
        /\ \A q \in QueryDescs : open'[q] = IF q \in freed THEN NoQuery ELSE open[q]
    BY <2>2 DEF Close
  <2>4. ASSUME NEW q \in QueryDescs, q \in freed, NEW p \in PlannedStmts, open[q].plan = p,
               plannerStates[p].id # 0
        PROVE  plans'[p] = NoPlan
    <3>1. open[q] # NoQuery /\ plans[p] # NoPlan
      BY <2>4 DEF Idle, OpenHasPlan
    <3>2. plans[p].kind = "one-shot"
      BY <2>4, <3>1 DEF Once, PlannersDistinct
    <3> QED  BY <2>2, <2>4, <3>2 DEF Close
  <2>5. \A q \in QueryDescs : q \in freed => open[q] # NoQuery
    BY DEF Idle
  <2>6. \A q \in QueryDescs :
           \/ open'[q] = open[q]
           \/ /\ open'[q] = NoQuery /\ open[q] # NoQuery
              /\ \A p \in PlannedStmts :
                    open[q].plan = p /\ plannerStates'[p].id # 0 => plans'[p] = NoPlan
    BY <2>2, <2>3, <2>4, <2>5
  <2>7. Once'
    BY <2>1, <2>2, <2>3, <2>6, QuietOnce
  <2> QED  BY <1>1, <2>1, <2>7
<1> QED  BY <1>2, <1>3, <1>4, <1>5, <1>6, <1>7, <1>8, <1>9, <1>10, <1>11, <1>12 DEF Next

\* executorRunHook, executorFinishHook and executorEndHook agree on who emits: while a
\* freed plan's address that still keys a planner state is not used again, no statement
\* is reported twice.
THEOREM ReportedAtMostOnce ==
    ASSUME "recycle" \notin Environment
    PROVE  Spec => []ReportedOnce
<1>1. Init => Once /\ ReportedOnce
  <2> SUFFICES ASSUME Init
               PROVE  Once /\ ReportedOnce
    OBVIOUS
  <2>1. /\ calls = <<>> /\ reported = {} /\ ~reportedTwice
        /\ \A p \in PlannedStmts : plannerStates[p].id = 0
        /\ \A q \in QueryDescs : queryStates[q].id = 0
    BY DEF Init, NoPlannerState, NoQueryState
  <2> QED  BY <2>1, EmptySeq
           DEF Once, CallsDistinct, PlannersDistinct, QueriesDistinct, ReportedOnce
<1>2. PInv /\ Once /\ ReportedOnce /\ [Next]_vars => Once' /\ ReportedOnce'
  BY StepOnce
<1> QED  BY <1>1, <1>2, AlwaysPInv, PTL DEF Spec
=============================================================================
