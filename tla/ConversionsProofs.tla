------------------------- MODULE ConversionsProofs -------------------------
(***************************************************************************)
(* Proofs about the functions without state, for arguments of any size:    *)
(* the reckoned times of a statement's spans nest, a collector's URL is    *)
(* taken apart into what it was written from, of a statement the commented *)
(* trace context is found, and the statistics of a plan are those of the   *)
(* nodes it should count, the summary of some workers about those that     *)
(* ran.                                                                    *)
(*                                                                         *)
(* The first part is the induction that the others need, for sets and for  *)
(* functions: along a sequence, and back from its end.  The statistics     *)
(* need folds and sums as well: a fold takes its sequence one element      *)
(* after the other, and a sum over a set any of its elements.  For a plan  *)
(* the proof says which nodes are below a node by steps that are followed, *)
(* that the recursion visits the children of a node once each, what it is  *)
(* to have counted some nodes, and that the recursion has counted all that *)
(* are below where it returns.                                             *)
(***************************************************************************)
EXTENDS Conversions, SequenceTheorems, FiniteSetTheorems, TLAPS

\* Induction, for sets: a set that holds 0 and with every number below a bound the next
\* one holds all of them, or the next would be an injection of those it holds into the
\* ones that are not 0.
LEMMA HoldsUpTo ==
    ASSUME NEW bound \in Nat, NEW S, 0 \in S,
           \A n \in 0..bound : n \in S /\ n < bound => n + 1 \in S
    PROVE  bound \in S
<1> DEFINE A == {n \in 0..bound : n \in S}
           f == [n \in A |-> n + 1]
<1>1. SUFFICES ASSUME bound \notin S PROVE FALSE
  OBVIOUS
<1>2. IsFiniteSet(A) /\ Cardinality(A) \in Nat
  <2>1. IsFiniteSet(0..bound)
    BY FS_Interval
  <2> QED  BY <2>1, FS_Subset, FS_CardinalityType
<1>3. f \in Injection(A, A \ {0})
  <2>1. \A n \in A : n + 1 \in A \ {0}
    BY <1>1
  <2>2. \A m, n \in A : m + 1 = n + 1 => m = n
    OBVIOUS
  <2> HIDE DEF A
  <2> QED  BY <2>1, <2>2 DEF Injection, IsInjective
<1>4. 0 \in A
  OBVIOUS
<1> HIDE DEF A, f
<1>5. IsFiniteSet(A \ {0}) /\ Cardinality(A \ {0}) = Cardinality(A) - 1
  BY <1>2, <1>4, FS_RemoveElement
<1>6. Cardinality(A) <= Cardinality(A \ {0})
  BY <1>3, <1>5, FS_Injection
<1> QED  BY <1>2, <1>5, <1>6

\* A set of natural numbers has a least one.
LEMMA LeastOfSet ==
    ASSUME NEW T, T \subseteq Nat, T # {}
    PROVE  \E n \in T : \A j \in T : n <= j
<1> DEFINE S == {n \in Nat : \A j \in T : n <= j}
<1>1. PICK t \in T : TRUE
  OBVIOUS
<1>2. 0 \in S /\ t + 1 \notin S /\ t + 1 \in Nat
  BY <1>1
<1>3. PICK n \in S : n + 1 \notin S
  BY <1>2, HoldsUpTo
<1> QED  BY <1>3

\* What holds of a position as soon as it holds of all those behind it holds of all.
LEMMA Descent ==
    ASSUME NEW top \in Nat, NEW G,
           \A c \in 1..top : (\A d \in (c + 1)..top : d \in G) => c \in G
    PROVE  \A c \in 1..top : c \in G
<1> DEFINE T == {n \in 0..top : n < top /\ top - n \notin G}
<1>1. SUFFICES ASSUME NEW c \in 1..top, c \notin G PROVE FALSE
  OBVIOUS
<1>2. T \subseteq Nat /\ top - c \in T
  <2>1. top - c \in 0..top /\ top - c < top /\ top - (top - c) = c
    OBVIOUS
  <2> QED  BY <1>1, <2>1
<1>3. PICK n \in T : \A j \in T : n <= j
  <2> HIDE DEF T
  <2> QED  BY <1>2, LeastOfSet
<1>4. top - n \in 1..top /\ top - n \notin G
  BY <1>3
<1>5. \A d \in (top - n + 1)..top : d \in G
  <2>1. SUFFICES ASSUME NEW d \in (top - n + 1)..top, d \notin G PROVE FALSE
    OBVIOUS
  <2>2. top - d \in 0..top /\ top - d < top /\ top - (top - d) = d /\ ~(n <= top - d)
    BY <1>4
  <2> QED  BY <1>3, <2>1, <2>2
<1> QED  BY <1>4, <1>5

\* A function of which each value follows from the one before exists.
Unfoldings(top, V, begin, step) ==
    {f \in [1..top -> V] : \A i \in 1..top : f[i] = IF i = 1 THEN begin ELSE step[i][f[i - 1]]}

LEMMA Unfolds ==
    ASSUME NEW top \in Nat, NEW V, NEW begin \in V, NEW step,
           \A i \in 2..top : \A v \in V : step[i][v] \in V
    PROVE  \E f : f \in Unfoldings(top, V, begin, step)
<1> DEFINE IsUpTo(f, n) == /\ f \in [1..n -> V]
                           /\ \A i \in 1..n : f[i] = IF i = 1 THEN begin ELSE step[i][f[i - 1]]
           S == {n \in Nat : \E f : IsUpTo(f, n)}
<1>1. 0 \in S
  <2>1. IsUpTo([i \in 1..0 |-> begin], 0)
    OBVIOUS
  <2> HIDE DEF IsUpTo
  <2> QED  BY <2>1
<1>2. ASSUME NEW n \in 0..top, n \in S, n < top
      PROVE  n + 1 \in S
  <2>1. PICK f : IsUpTo(f, n)
    <3> HIDE DEF IsUpTo
    <3> QED  BY <1>2
  <2> DEFINE new == IF n = 0 THEN begin ELSE step[n + 1][f[n]]
             g == [i \in 1..(n + 1) |-> IF i <= n THEN f[i] ELSE new]
  <2>2. new \in V
    <3>1. CASE n = 0
      BY <3>1
    <3>2. CASE n # 0
      <4>1. n \in 1..n /\ n + 1 \in 2..top
        BY <1>2, <3>2
      <4> QED  BY <2>1, <3>2, <4>1
    <3> QED  BY <3>1, <3>2
  <2> DEFINE w == new
  <2>3. g \in [1..(n + 1) -> V]
    <3> HIDE DEF new
    <3> QED  BY <2>1, <2>2
  <2>4. ASSUME NEW i \in 1..(n + 1)
        PROVE  g[i] = IF i = 1 THEN begin ELSE step[i][g[i - 1]]
    <3>1. CASE i <= n
      <4>1. g[i] = f[i] /\ i \in 1..n /\ (i # 1 => g[i - 1] = f[i - 1])
        BY <3>1
      <4> HIDE DEF g
      <4> QED  BY <2>1, <4>1
    <3>2. CASE ~(i <= n)
      <4>1. i = n + 1 /\ (i = 1 <=> n = 0)
        BY <3>2
      <4>2. g[i] = new
        BY <3>2
      <4>3. i # 1 => g[i - 1] = f[n] /\ i - 1 = n
        BY <4>1
      <4> HIDE DEF g
      <4> QED  BY <4>1, <4>2, <4>3
    <3> QED  BY <3>1, <3>2
  <2> HIDE DEF g
  <2>5. IsUpTo(g, n + 1)
    BY <2>3, <2>4
  <2> HIDE DEF IsUpTo
  <2> QED  BY <2>5
<1>3. top \in S
  <2> HIDE DEF S
  <2> QED  BY <1>1, <1>2, HoldsUpTo
<1>4. PICK f : IsUpTo(f, top)
  <2> HIDE DEF IsUpTo
  <2> QED  BY <1>3
<1> QED  BY <1>4 DEF Unfoldings

\* So does one of which each value is given or one from further behind.
Leads(f, top, Stops, here, next) ==
    /\ f = [c \in 1..top |-> f[c]]
    /\ \A c \in 1..top : f[c] = IF c \in Stops THEN here[c] ELSE f[next[c]]

LEMMA LeadsBehind ==
    ASSUME NEW top \in Nat, NEW Stops, NEW here, NEW next,
           \A c \in 1..top : c \notin Stops => next[c] \in (c + 1)..top
    PROVE  \E f : Leads(f, top, Stops, here, next)
<1> DEFINE IsFrom(f, b) == f = [c \in b..top |-> IF c \in Stops THEN here[c] ELSE f[next[c]]]
           S == {n \in 0..top : \E f : IsFrom(f, top - n + 1)}
<1>1. 0 \in S
  <2>1. IsFrom([c \in (top - 0 + 1)..top |-> 0], top - 0 + 1)
    OBVIOUS
  <2> HIDE DEF IsFrom
  <2> QED  BY <2>1
<1>2. ASSUME NEW n \in 0..top, n \in S, n < top
      PROVE  n + 1 \in S
  <2>1. PICK f : IsFrom(f, top - n + 1)
    <3> HIDE DEF IsFrom
    <3> QED  BY <1>2
  <2> DEFINE b == top - n
             g == [c \in b..top |-> IF c = b THEN (IF b \in Stops THEN here[b] ELSE f[next[b]])
                                             ELSE f[c]]
  <2>2. b \in 1..top /\ top - n + 1 = b + 1 /\ top - (n + 1) + 1 = b
    BY <1>2
  <2> HIDE DEF b
  <2>3. \A c \in (b + 1)..top : g[c] = f[c]
    BY <2>2
  <2>4. \A c \in (b + 1)..top : f[c] = IF c \in Stops THEN here[c] ELSE f[next[c]]
    <3>1. f = [c \in (b + 1)..top |-> IF c \in Stops THEN here[c] ELSE f[next[c]]]
      BY <2>1, <2>2
    <3> QED  BY <3>1
  <2>5. ASSUME NEW c \in b..top
        PROVE  g[c] = IF c \in Stops THEN here[c] ELSE g[next[c]]
    <3>1. c \in 1..top /\ (c \notin Stops => next[c] \in (b + 1)..top)
      BY <2>2
    <3>2. c \notin Stops => g[next[c]] = f[next[c]]
      BY <2>3, <3>1
    <3>3. CASE c = b
      <4>1. g[c] = IF c \in Stops THEN here[c] ELSE f[next[c]]
        BY <3>3
      <4> HIDE DEF g
      <4> QED  BY <3>2, <4>1
    <3>4. CASE c # b
      <4>1. c \in (b + 1)..top
        BY <2>2, <3>4
      <4> HIDE DEF g
      <4> QED  BY <2>3, <2>4, <3>2, <4>1
    <3> QED  BY <3>3, <3>4
  <2>6. g = [c \in b..top |-> g[c]]
    OBVIOUS
  <2> HIDE DEF g
  <2>7. IsFrom(g, b)
    BY <2>5, <2>6
  <2> HIDE DEF IsFrom
  <2>8. n + 1 \in 0..top
    BY <1>2
  <2> QED  BY <2>2, <2>7, <2>8
<1>3. top \in S
  <2> HIDE DEF S
  <2> QED  BY <1>1, <1>2, HoldsUpTo
<1>4. top - top + 1 = 1
  OBVIOUS
<1> HIDE DEF IsFrom
<1>5. \E f : IsFrom(f, 1)
  BY <1>3, <1>4
<1>6. PICK f : IsFrom(f, 1)
  BY <1>5
<1>7. Leads(f, top, Stops, here, next)
  BY <1>6 DEF IsFrom, Leads
<1> QED  BY <1>7

\* What lasts from one position to the next lasts.
LEMMA Lasts ==
    ASSUME NEW P, NEW Q, NEW c \in Nat, NEW d \in Nat, c <= d, P[c] \in Q,
           \A j \in c..(d - 1) : P[j] \in Q => P[j + 1] \in Q
    PROVE  P[d] \in Q
<1> DEFINE S == {n \in Nat : P[c + n] \in Q}
<1>1. 0 \in S
  <2>1. c + 0 = c
    OBVIOUS
  <2> QED  BY <2>1
<1>2. \A n \in 0..(d - c) : n \in S /\ n < d - c => n + 1 \in S
  <2>1. SUFFICES ASSUME NEW n \in 0..(d - c), n \in S, n < d - c PROVE n + 1 \in S
    OBVIOUS
  <2>2. c + n \in c..(d - 1) /\ (c + n) + 1 = c + (n + 1)
    BY <2>1
  <2>3. P[(c + n) + 1] \in Q
    BY <2>1, <2>2
  <2> QED  BY <2>2, <2>3
<1>3. d - c \in Nat /\ c + (d - c) = d
  OBVIOUS
<1>4. d - c \in S
  <2> HIDE DEF S
  <2> QED  BY <1>1, <1>2, <1>3, HoldsUpTo
<1> QED  BY <1>3, <1>4

-----------------------------------------------------------------------------
\* Times.
LEMMA DurationIsNatural ==
    ASSUME NEW duration \in Int
    PROVE  Times!SecondsToNanos(duration) \in Nat
BY DEF Times!SecondsToNanos

\* A query span begins where the statement was seen to begin, or as long before its end
\* as it ran, and never after its end unless the clock was set back
\* (emitSuccessfulQuerySpan).
THEOREM QueryBeginsBeforeItEnds ==
    ASSUME NEW hasPlannerState \in BOOLEAN, NEW startTime \in Nat, NEW end \in Nat,
           NEW total \in Int, startTime <= end
    PROVE  LET start == Times!QueryStartNs(hasPlannerState, startTime, end, total)
           IN  start \in 0..end
<1>1. Times!SecondsToNanos(total) \in Nat
  BY DurationIsNatural
<1>2. ASSUME NEW d \in Nat
      PROVE  (IF ~hasPlannerState /\ d > 0 /\ end >= d THEN end - d ELSE startTime) \in 0..end
  <2>1. startTime \in 0..end
    OBVIOUS
  <2>2. end >= d => end - d \in 0..end
    OBVIOUS
  <2> QED  BY <2>1, <2>2
<1> QED  BY <1>1, <1>2 DEF Times!QueryStartNs

\* The span of a plan node, and that of a worker that ran it, lies within the query span;
\* what ran no longer than what it is below begins no earlier, although the subtraction
\* is unsigned and a duration may exceed all the time there was (planNodeStartNs).
THEOREM NodesNest ==
    ASSUME NEW start \in Nat, NEW end \in Nat, start <= end,
           NEW total \in Int, NEW below \in Int, below <= total, total <= end
    PROVE  /\ Times!PlanNodeStartNs(start, end, total) \in start..end
           /\ Times!PlanNodeStartNs(start, end, below) \in start..end
           /\ Times!PlanNodeStartNs(start, end, total) <= Times!PlanNodeStartNs(start, end, below)
<1>1. /\ Times!SecondsToNanos(total) \in Nat /\ Times!SecondsToNanos(below) \in Nat
      /\ Times!SecondsToNanos(below) <= Times!SecondsToNanos(total)
      /\ Times!SecondsToNanos(total) <= end
  BY DEF Times!SecondsToNanos
<1> DEFINE Begin(d) == IF d = 0 \/ end < d THEN end
                       ELSE IF end - d < start THEN start ELSE end - d
<1>2. \A t \in Int : Times!PlanNodeStartNs(start, end, t) = Begin(Times!SecondsToNanos(t))
  <2>1. SUFFICES ASSUME NEW t \in Int
                 PROVE  Times!PlanNodeStartNs(start, end, t) = Begin(Times!SecondsToNanos(t))
    OBVIOUS
  <2>2. Times!SecondsToNanos(t) \in Nat
    BY DurationIsNatural
  <2> QED  BY <2>2 DEF Times!PlanNodeStartNs
<1>3. \A d \in Nat : d <= end => Begin(d) \in start..end
  OBVIOUS
<1>4. \A c, d \in Nat : c <= d /\ d <= end => Begin(d) <= Begin(c)
  OBVIOUS
<1> HIDE DEF Begin
<1>5. Times!SecondsToNanos(below) <= end
  BY <1>1
<1> QED  BY <1>1, <1>2, <1>3, <1>4, <1>5

\* Query, plan node and worker spans nest in time, for all times and durations.
THEOREM SpansNestInTime == Spec => []NestedInTime
<1>1. Init => NestedInTime
  BY DEF Init, NoCall, NestedInTime
<1>2. ASSUME NestedInTime, [Next]_vars
      PROVE  NestedInTime'
  <2>1. CASE PlaceSpans
    <3>1. PICK hasPlannerState \in BOOLEAN, startTime \in 0..MaxTime, end \in 0..MaxTime,
               total \in 0..MaxTime, node \in 0..MaxTime :
          \E below \in 0..node :
            LET start == Times!QueryStartNs(hasPlannerState, startTime, end, total) IN
            Call("times",
                 [hasPlannerState |-> hasPlannerState, startTime |-> startTime, end |-> end,
                  node |-> node, below |-> below],
                 [query |-> start,
                  node |-> Times!PlanNodeStartNs(start, end, node),
                  below |-> Times!PlanNodeStartNs(start, end, below)])
      BY <2>1, Zenon DEF PlaceSpans
    <3>2. PICK below \in 0..node :
            LET start == Times!QueryStartNs(hasPlannerState, startTime, end, total) IN
            Call("times",
                 [hasPlannerState |-> hasPlannerState, startTime |-> startTime, end |-> end,
                  node |-> node, below |-> below],
                 [query |-> start,
                  node |-> Times!PlanNodeStartNs(start, end, node),
                  below |-> Times!PlanNodeStartNs(start, end, below)])
      BY <3>1, Zenon
    <3> DEFINE start == Times!QueryStartNs(hasPlannerState, startTime, end, total)
    <3>3. /\ call'.arguments.startTime = startTime /\ call'.arguments.end = end
          /\ call'.arguments.node = node
          /\ result' = [query |-> start,
                        node |-> Times!PlanNodeStartNs(start, end, node),
                        below |-> Times!PlanNodeStartNs(start, end, below)]
      BY <3>2 DEF Call
    <3> SUFFICES ASSUME startTime <= end, node <= end
                 PROVE  /\ result'.query <= result'.node /\ result'.node <= result'.below
                        /\ result'.below <= end
      BY <3>3 DEF NestedInTime
    <3>4. MaxTime \in Nat
      BY ConversionsAssumption
    <3>5. start \in 0..end
      BY <3>4, QueryBeginsBeforeItEnds
    <3> HIDE DEF start
    <3>6. /\ Times!PlanNodeStartNs(start, end, node) \in start..end
          /\ Times!PlanNodeStartNs(start, end, below) \in start..end
          /\ Times!PlanNodeStartNs(start, end, node) <= Times!PlanNodeStartNs(start, end, below)
      BY <3>4, <3>5, NodesNest
    <3> QED  BY <3>3, <3>4, <3>5, <3>6
  <2>2. CASE \/ FindTraceParent \/ ParseUrl \/ DescribePlan \/ SummariseWorkers
             \/ Serialize \/ Return
    BY <2>2 DEF FindTraceParent, ParseUrl, DescribePlan, SummariseWorkers, Serialize, Return,
                Call, NoCall, NestedInTime
  <2>3. CASE UNCHANGED vars
    BY <1>2, <2>3 DEF vars, NestedInTime
  <2> QED  BY <1>2, <2>1, <2>2, <2>3 DEF Next
<1> QED  BY <1>1, <1>2, PTL DEF Spec

-----------------------------------------------------------------------------
\* The parts of a URL.
LEMMA UrlConstants ==
    /\ HostSize \in Nat /\ PortSize \in Nat /\ PathSize \in Nat
    /\ HostSize > 1 /\ PortSize > 1 /\ PathSize > 1
    /\ "80" \in Numbers
    /\ "/" \notin Numbers /\ ":" \notin Numbers
    /\ "/" \in Url!Tokens /\ Numbers \subseteq Url!Tokens
BY ConversionsAssumption DEF Url!Punctuation, Url!Tokens

\* A sequence is as long as the interval on which it is a function.
LEMMA LengthOfDomain ==
    ASSUME NEW T, NEW n \in Nat, NEW s \in Seq(T), DOMAIN s = 1..n
    PROVE  Len(s) = n
<1>1. DOMAIN s = 1..Len(s) /\ Len(s) \in Nat
  BY LenProperties
<1>2. 1..n = 1..Len(s)
  BY <1>1, Zenon
<1> DEFINE m == Len(s)
<1>3. m \in Nat /\ 1..n = 1..m
  BY <1>1, <1>2
<1> HIDE DEF m
<1>4. m = n
  <2>1. n # 0 => n <= m
    <3>1. n # 0 => n \in 1..n
      OBVIOUS
    <3>2. n # 0 => n \in 1..m
      BY <1>3, <3>1, Zenon
    <3> QED  BY <1>3, <3>2
  <2>2. m # 0 => m <= n
    <3>1. m # 0 => m \in 1..m
      BY <1>3
    <3>2. m # 0 => m \in 1..n
      BY <1>3, <3>1, Zenon
    <3> QED  BY <1>3, <3>2
  <2> QED  BY <1>3, <2>1, <2>2
<1> QED  BY <1>4 DEF m

\* Strings are sequences of a length.
LEMMA StringsAreSequences ==
    ASSUME NEW T, NEW size \in Nat, NEW s
    PROVE  s \in Url!Strings(T, size) <=> s \in Seq(T) /\ Len(s) \in 1..(size - 1)
<1>1. ASSUME s \in Url!Strings(T, size)
      PROVE  s \in Seq(T) /\ Len(s) \in 1..(size - 1)
  <2>1. PICK n \in 1..(size - 1) : s \in [1..n -> T]
    BY <1>1 DEF Url!Strings
  <2>2. n \in Nat
    OBVIOUS
  <2>3. s \in Seq(T)
    BY <2>1, <2>2
  <2>4. DOMAIN s = 1..n
    BY <2>1, Zenon
  <2>5. Len(s) = n
    BY <2>2, <2>3, <2>4, LengthOfDomain
  <2> QED  BY <2>3, <2>5
<1>2. ASSUME s \in Seq(T), Len(s) \in 1..(size - 1)
      PROVE  s \in Url!Strings(T, size)
  <2>1. s \in [1..Len(s) -> T]
    BY <1>2, LenProperties
  <2> QED  BY <1>2, <2>1, Zenon DEF Url!Strings
<1> QED  BY <1>1, <1>2

\* Find and Skip stop at the first position, from a given one on, whose token is in a
\* set, or else behind the end.
LEMMA FindProperties ==
    ASSUME NEW U, NEW url \in Seq(U), NEW tokens, NEW from \in 1..(Len(url) + 1)
    PROVE  LET found == Url!Find(url, tokens, from) IN
           /\ found \in from..(Len(url) + 1)
           /\ found <= Len(url) => url[found] \in tokens
           /\ \A j \in from..(found - 1) : url[j] \notin tokens
           /\ \A p \in from..(Len(url) + 1) :
                 /\ p = Len(url) + 1 \/ url[p] \in tokens
                 /\ \A j \in from..(p - 1) : url[j] \notin tokens
                 => found = p
<1> DEFINE T == {Len(url) + 1} \cup {j \in from..Len(url) : url[j] \in tokens}
           m == Url!Find(url, tokens, from)
<1>1. Len(url) \in Nat /\ T \subseteq Nat /\ T # {}
  OBVIOUS
<1>2. m \in T /\ \A j \in T : m <= j
  <2>1. PICK n \in T : \A j \in T : n <= j
    BY <1>1, LeastOfSet
  <2> QED  BY <2>1 DEF Url!Find, Url!Min
<1> HIDE DEF m
<1>3. m \in from..(Len(url) + 1) /\ (m <= Len(url) => url[m] \in tokens)
  BY <1>1, <1>2
<1>4. \A j \in from..(m - 1) : url[j] \notin tokens
  BY <1>1, <1>2, <1>3
<1>5. ASSUME NEW p \in from..(Len(url) + 1), p = Len(url) + 1 \/ url[p] \in tokens,
             \A j \in from..(p - 1) : url[j] \notin tokens
      PROVE  m = p
  <2>1. m <= p
    BY <1>1, <1>2, <1>5
  <2>2. ~ (m < p)
    BY <1>1, <1>3, <1>5
  <2> QED  BY <1>1, <1>3, <2>1, <2>2
<1> QED  BY <1>3, <1>4, <1>5 DEF m

\* Skip is Find for the other tokens.
LEMMA SkipIsFind ==
    ASSUME NEW U, NEW url \in Seq(U), NEW tokens, NEW from \in 1..(Len(url) + 1)
    PROVE  Url!Skip(url, tokens, from) = Url!Find(url, U \ tokens, from)
<1>1. \A j \in from..Len(url) : url[j] \notin tokens <=> url[j] \in U \ tokens
  OBVIOUS
<1>2. {j \in from..Len(url) : url[j] \notin tokens} = {j \in from..Len(url) : url[j] \in U \ tokens}
  BY <1>1
<1> QED  BY <1>2 DEF Url!Skip, Url!Find

\* A sequence is what stands before a position and what stands from it on.
LEMMA SplitAt ==
    ASSUME NEW U, NEW url \in Seq(U), NEW i \in 1..(Len(url) + 1), NEW m \in (i - 1)..Len(url)
    PROVE  /\ SubSeq(url, i, m) \in Seq(U) /\ Len(SubSeq(url, i, m)) = m - i + 1
           /\ \A k \in 1..(m - i + 1) : SubSeq(url, i, m)[k] = url[i + k - 1]
           /\ SubSeq(url, i, Len(url)) = SubSeq(url, i, m) \o SubSeq(url, m + 1, Len(url))
<1> DEFINE front == SubSeq(url, i, m)
           back == SubSeq(url, m + 1, Len(url))
           whole == SubSeq(url, i, Len(url))
<1>1. Len(url) \in Nat /\ \A k \in i..Len(url) : url[k] \in U
  OBVIOUS
<1>2. /\ front \in Seq(U) /\ Len(front) = m - i + 1
      /\ \A k \in 1..(m - i + 1) : front[k] = url[i + k - 1]
  BY <1>1, SubSeqProperties
<1>3. /\ back \in Seq(U) /\ Len(back) = Len(url) - m
      /\ \A k \in 1..(Len(url) - m) : back[k] = url[m + k]
  BY <1>1, SubSeqProperties
<1>4. /\ whole \in Seq(U) /\ Len(whole) = Len(url) - i + 1
      /\ \A k \in 1..(Len(url) - i + 1) : whole[k] = url[i + k - 1]
  BY <1>1, SubSeqProperties
<1> HIDE DEF front, back, whole
<1>5. /\ front \o back \in Seq(U) /\ Len(front \o back) = Len(whole)
      /\ \A k \in 1..Len(whole) : (front \o back)[k] = whole[k]
  <2>1. /\ front \o back \in Seq(U) /\ Len(front \o back) = Len(front) + Len(back)
        /\ \A k \in 1..(Len(front) + Len(back)) :
              (front \o back)[k] = IF k <= Len(front) THEN front[k] ELSE back[k - Len(front)]
    BY <1>2, <1>3, ConcatProperties
  <2>2. Len(front) + Len(back) = Len(whole)
    BY <1>1, <1>2, <1>3, <1>4
  <2>3. ASSUME NEW k \in 1..Len(whole)
        PROVE  (front \o back)[k] = whole[k]
    <3>1. CASE k <= Len(front)
      BY <1>1, <1>2, <1>4, <2>1, <2>2, <3>1
    <3>2. CASE ~(k <= Len(front))
      <4>1. k - Len(front) \in 1..(Len(url) - m) /\ m + (k - Len(front)) = i + k - 1
        BY <1>1, <1>2, <1>4, <3>2
      <4> QED  BY <1>1, <1>3, <1>4, <2>1, <2>2, <3>2, <4>1
    <3> QED  BY <3>1, <3>2
  <2> QED  BY <2>1, <2>2, <2>3
<1>6. whole = front \o back
  BY <1>4, <1>5, SeqEqual
<1> QED  BY <1>2, <1>6 DEF front, back, whole

\* A piece of a sequence is the sequence that stands there.
LEMMA PieceIs ==
    ASSUME NEW U, NEW url \in Seq(U), NEW V, NEW s \in Seq(V), NEW i \in 1..(Len(url) + 1),
           NEW m \in (i - 1)..Len(url), Len(s) = m - i + 1,
           \A k \in 1..Len(s) : url[i + k - 1] = s[k]
    PROVE  SubSeq(url, i, m) = s
<1> DEFINE piece == SubSeq(url, i, m)
<1>1. /\ piece \in Seq(U) /\ Len(piece) = m - i + 1
      /\ \A k \in 1..(m - i + 1) : piece[k] = url[i + k - 1]
  BY SplitAt
<1> HIDE DEF piece
<1>2. piece \in Seq(U \cup V) /\ s \in Seq(U \cup V)
  BY <1>1, SeqMonotonic
<1>3. \A k \in 1..Len(piece) : piece[k] = s[k]
  BY <1>1
<1>4. piece = s
  BY <1>1, <1>2, <1>3, SeqEqual
<1> QED  BY <1>4 DEF piece

\* How each part of a URL may be written.
HostTexts(host) ==
    (IF Url!IsEnclosed(host) THEN {<<"[">> \o host \o <<"]">>} ELSE {})
       \cup (IF Url!IsBare(host) THEN {host} ELSE {})
PortTexts(port) == {<<":">> \o port} \cup (IF port = Url!DefaultPort THEN {<<>>} ELSE {})
PathTexts(path) == {path} \cup (IF path = Url!DefaultPath THEN {<<>>} ELSE {})

Paths == {path \in Url!Strings(Url!Tokens, PathSize) : path[1] = "/"}
Ports == Url!Strings(Numbers, PortSize)

Parsed(host, port, path) == [valid |-> TRUE, host |-> host, port |-> port, path |-> path]

\* What is read as port and path stands there as one of their texts each.
LEMMA PortAndPathStandThere ==
    ASSUME NEW U, NEW url \in Seq(U), NEW hostEnd \in 1..(Len(url) + 1), NEW host,
           \A j \in hostEnd..Len(url) : url[j] \in Url!Tokens,
           Url!ParsePortAndPath(url, host, hostEnd).valid
    PROVE  \E port \in Ports, path \in Paths :
              /\ Url!ParsePortAndPath(url, host, hostEnd) = Parsed(host, port, path)
              /\ Url!Fits(host, HostSize)
              /\ \E p \in PortTexts(port), q \in PathTexts(path) :
                    SubSeq(url, hostEnd, Len(url)) = p \o q
<1> DEFINE hasPort == Url!At(url, hostEnd) = ":"
           portEnd == IF hasPort THEN Url!Skip(url, Numbers, hostEnd + 1) ELSE hostEnd
           port == IF hasPort THEN SubSeq(url, hostEnd + 1, portEnd - 1) ELSE Url!DefaultPort
           path == IF portEnd > Len(url) THEN Url!DefaultPath ELSE SubSeq(url, portEnd, Len(url))
           p == IF hasPort THEN <<":">> \o port ELSE <<>>
           q == IF portEnd > Len(url) THEN <<>> ELSE path
<1>1. /\ Url!ParsePortAndPath(url, host, hostEnd) = Parsed(host, port, path)
      /\ Url!Fits(host, HostSize) /\ Url!Fits(port, PortSize)
      /\ path[1] = "/" /\ Url!Fits(path, PathSize)
  <2>1. Url!ParsePortAndPath(url, host, hostEnd) =
           IF /\ Url!Fits(host, HostSize) /\ Url!Fits(port, PortSize)
              /\ path[1] = "/" /\ Url!Fits(path, PathSize)
           THEN Parsed(host, port, path) ELSE Url!Invalid
    BY DEF Url!ParsePortAndPath, Parsed
  <2>2. ~ Url!Invalid.valid
    BY DEF Url!Invalid
  <2> HIDE DEF port, path
  <2> QED  BY <2>1, <2>2
<1>2. Len(url) \in Nat
  OBVIOUS
<1>3. hasPort => /\ hostEnd <= Len(url) /\ url[hostEnd] = ":"
                 /\ portEnd \in (hostEnd + 1)..(Len(url) + 1)
                 /\ \A j \in (hostEnd + 1)..(portEnd - 1) : url[j] \in Numbers
  <2> SUFFICES ASSUME hasPort
               PROVE  /\ hostEnd <= Len(url) /\ url[hostEnd] = ":"
                      /\ portEnd \in (hostEnd + 1)..(Len(url) + 1)
                      /\ \A j \in (hostEnd + 1)..(portEnd - 1) : url[j] \in Numbers
    OBVIOUS
  <2>1. hostEnd <= Len(url) /\ url[hostEnd] = ":"
    BY DEF Url!At
  <2>2. portEnd = Url!Find(url, U \ Numbers, hostEnd + 1)
    BY <1>2, <2>1, SkipIsFind
  <2> HIDE DEF portEnd
  <2>3. /\ portEnd \in (hostEnd + 1)..(Len(url) + 1)
        /\ \A j \in (hostEnd + 1)..(portEnd - 1) : url[j] \notin U \ Numbers
    BY <1>2, <2>1, <2>2, FindProperties
  <2>4. \A j \in (hostEnd + 1)..(portEnd - 1) : url[j] \in Numbers
    BY <1>2, <2>3
  <2> QED  BY <2>1, <2>3, <2>4
<1>4. portEnd \in hostEnd..(Len(url) + 1)
  <2>1. CASE hasPort
    BY <1>2, <1>3, <2>1
  <2>2. CASE ~hasPort
    BY <1>2, <2>2
  <2> QED  BY <2>1, <2>2
<1>5. port \in Seq(Numbers) /\ p \in PortTexts(port) /\ p = SubSeq(url, hostEnd, portEnd - 1)
  <2>1. CASE hasPort
    <3> HIDE DEF hasPort, portEnd
    <3>1. port \in Seq(Numbers)
      BY <1>2, <1>3, <2>1, SubSeqProperties
    <3>2. SubSeq(url, hostEnd, portEnd - 1) = <<":">> \o port
      <4>1. /\ hostEnd \in 1..Len(url) /\ portEnd - 1 \in hostEnd..Len(url)
            /\ url[hostEnd] = ":" /\ port = SubSeq(url, hostEnd + 1, portEnd - 1)
        BY <1>2, <1>3, <2>1
      <4> HIDE DEF port
      <4> QED  BY <4>1, SubSeqRecursiveFirst
    <3> QED  BY <2>1, <3>1, <3>2 DEF PortTexts
  <2>2. CASE ~hasPort
    <3>1. p = <<>> /\ port = Url!DefaultPort /\ portEnd = hostEnd
      BY <2>2
    <3>2. port \in Seq(Numbers)
      BY <3>1, UrlConstants DEF Url!DefaultPort
    <3>3. SubSeq(url, hostEnd, portEnd - 1) = <<>>
      BY <1>2, <3>1, SubSeqEmpty
    <3> QED  BY <3>1, <3>2, <3>3 DEF PortTexts
  <2> QED  BY <2>1, <2>2
<1> HIDE DEF hasPort, portEnd, port, p
<1>6. path \in Seq(Url!Tokens) /\ q \in PathTexts(path) /\ q = SubSeq(url, portEnd, Len(url))
  <2>1. CASE portEnd > Len(url)
    <3>1. path \in Seq(Url!Tokens)
      BY <2>1, UrlConstants DEF Url!DefaultPath
    <3>2. SubSeq(url, portEnd, Len(url)) = <<>>
      BY <1>2, <1>4, <2>1, SubSeqEmpty
    <3> QED  BY <2>1, <3>1, <3>2 DEF PathTexts
  <2>2. CASE ~(portEnd > Len(url))
    <3>1. path = SubSeq(url, portEnd, Len(url)) /\ q = path
      BY <2>2
    <3>2. \A j \in portEnd..Len(url) : url[j] \in Url!Tokens
      BY <1>2, <1>4
    <3>3. path \in Seq(Url!Tokens)
      BY <1>2, <1>4, <3>1, <3>2, SubSeqProperties
    <3> QED  BY <3>1, <3>3 DEF PathTexts
  <2> QED  BY <2>1, <2>2
<1> HIDE DEF path, q
<1>7. port \in Ports /\ path \in Paths
  BY <1>1, <1>5, <1>6, UrlConstants, StringsAreSequences DEF Ports, Paths, Url!Fits
<1>8. SubSeq(url, hostEnd, Len(url)) = p \o q
  <2>1. portEnd - 1 \in (hostEnd - 1)..Len(url) /\ portEnd - 1 + 1 = portEnd
    BY <1>2, <1>4
  <2>2. SubSeq(url, hostEnd, Len(url))
           = SubSeq(url, hostEnd, portEnd - 1) \o SubSeq(url, portEnd - 1 + 1, Len(url))
    BY <1>2, <2>1, SplitAt
  <2> QED  BY <1>5, <1>6, <2>1, <2>2
<1> QED  BY <1>1, <1>5, <1>6, <1>7, <1>8

\* Wherever texts of a port and a path stand, they are read.
LEMMA PortAndPathAreRead ==
    ASSUME NEW U, NEW url \in Seq(U), NEW hostEnd \in 1..(Len(url) + 1),
           NEW host, Url!Fits(host, HostSize), NEW port \in Ports, NEW path \in Paths,
           \E p \in PortTexts(port), q \in PathTexts(path) :
              SubSeq(url, hostEnd, Len(url)) = p \o q
    PROVE  Url!ParsePortAndPath(url, host, hostEnd) = Parsed(host, port, path)
<1>0. PICK p \in PortTexts(port), q \in PathTexts(path) :
         SubSeq(url, hostEnd, Len(url)) = p \o q
  OBVIOUS
<1>1. /\ port \in Seq(Numbers) /\ Len(port) \in 1..(PortSize - 1)
      /\ path \in Seq(Url!Tokens) /\ Len(path) \in 1..(PathSize - 1) /\ path[1] = "/"
  BY UrlConstants, StringsAreSequences DEF Ports, Paths
<1>2. /\ p \in Seq(Numbers \cup {":"}) /\ q \in Seq(Url!Tokens)
      /\ Len(p) \in Nat /\ Len(q) \in Nat /\ Len(url) \in Nat
  <2>1. <<":">> \o port \in Seq(Numbers \cup {":"})
    BY <1>1
  <2>2. p \in Seq(Numbers \cup {":"})
    <3>1. p = <<":">> \o port \/ p = <<>>
      BY DEF PortTexts
    <3> QED  BY <2>1, <3>1, EmptySeq
  <2>3. q \in Seq(Url!Tokens)
    <3>1. q = path \/ q = <<>>
      BY DEF PathTexts
    <3> QED  BY <1>1, <3>1, EmptySeq
  <2> QED  BY <2>2, <2>3
<1> DEFINE pathAt == hostEnd + Len(p)
<1>3. /\ pathAt \in hostEnd..(Len(url) + 1) /\ Len(url) + 1 = pathAt + Len(q)
      /\ \A k \in 1..Len(p) : url[hostEnd + k - 1] = p[k]
      /\ \A k \in 1..Len(q) : url[pathAt + k - 1] = q[k]
  <2> DEFINE tail == SubSeq(url, hostEnd, Len(url))
             V == Numbers \cup {":"} \cup Url!Tokens
  <2>1. p \in Seq(V) /\ q \in Seq(V)
    BY <1>2, SeqMonotonic
  <2>2. /\ Len(tail) = Len(url) - hostEnd + 1
        /\ \A k \in 1..(Len(url) - hostEnd + 1) : tail[k] = url[hostEnd + k - 1]
    <3>1. Len(url) \in (hostEnd - 1)..Len(url)
      BY <1>2
    <3> QED  BY <3>1, SplitAt
  <2> HIDE DEF V, tail
  <2>3. /\ Len(p \o q) = Len(p) + Len(q)
        /\ \A k \in 1..(Len(p) + Len(q)) :
              (p \o q)[k] = IF k <= Len(p) THEN p[k] ELSE q[k - Len(p)]
    BY <2>1, ConcatProperties
  <2>4. tail = p \o q /\ Len(url) - hostEnd + 1 = Len(p) + Len(q)
    <3>1. tail = p \o q
      BY <1>0 DEF tail
    <3> QED  BY <2>2, <2>3, <3>1
  <2>5. \A k \in 1..(Len(p) + Len(q)) :
           url[hostEnd + k - 1] = IF k <= Len(p) THEN p[k] ELSE q[k - Len(p)]
    BY <2>2, <2>3, <2>4
  <2>6. ASSUME NEW k \in 1..Len(p)
        PROVE  url[hostEnd + k - 1] = p[k]
    <3>1. k \in 1..(Len(p) + Len(q)) /\ k <= Len(p)
      BY <1>2
    <3> QED  BY <2>5, <3>1
  <2>7. ASSUME NEW k \in 1..Len(q)
        PROVE  url[pathAt + k - 1] = q[k]
    <3>1. Len(p) + k \in 1..(Len(p) + Len(q)) /\ ~(Len(p) + k <= Len(p))
          /\ hostEnd + (Len(p) + k) - 1 = pathAt + k - 1 /\ (Len(p) + k) - Len(p) = k
      BY <1>2
    <3> QED  BY <2>5, <3>1
  <2>8. pathAt \in hostEnd..(Len(url) + 1) /\ Len(url) + 1 = pathAt + Len(q)
    BY <1>2, <2>4
  <2> HIDE DEF pathAt
  <2> QED  BY <2>6, <2>7, <2>8
<1>4. IF Len(q) = 0 THEN path = Url!DefaultPath ELSE q = path
  BY <1>1 DEF PathTexts
<1>5. IF pathAt > Len(url) THEN path = Url!DefaultPath ELSE path = SubSeq(url, pathAt, Len(url))
  <2>1. CASE Len(q) = 0
    BY <1>2, <1>3, <1>4, <2>1
  <2>2. CASE Len(q) # 0
    <3>1. q = path /\ pathAt <= Len(url) /\ Len(url) - pathAt + 1 = Len(path)
      BY <1>2, <1>3, <1>4, <2>2
    <3>2. pathAt \in 1..(Len(url) + 1) /\ Len(url) \in (pathAt - 1)..Len(url)
      BY <1>2, <1>3
    <3>3. path = SubSeq(url, pathAt, Len(url))
      BY <1>1, <1>3, <3>1, <3>2, PieceIs
    <3> QED  BY <1>2, <1>3, <3>1, <3>3
  <2> QED  BY <2>1, <2>2
<1>6. \/ Url!At(url, hostEnd) # ":" /\ pathAt = hostEnd /\ port = Url!DefaultPort
      \/ /\ Url!At(url, hostEnd) = ":" /\ pathAt = Url!Skip(url, Numbers, hostEnd + 1)
         /\ port = SubSeq(url, hostEnd + 1, pathAt - 1)
  <2>0. pathAt <= Len(url) => url[pathAt] = "/" /\ url[pathAt] \notin Numbers
    <3> SUFFICES ASSUME pathAt <= Len(url)
                 PROVE  url[pathAt] = "/"
      BY UrlConstants
    <3>1. 1 \in 1..Len(q) /\ Len(q) # 0 /\ pathAt + 1 - 1 = pathAt
      BY <1>2, <1>3
    <3> QED  BY <1>1, <1>3, <1>4, <3>1
  <2>1. CASE p = <<>> /\ port = Url!DefaultPort
    <3>1. pathAt = hostEnd
      BY <2>1
    <3> QED  BY <2>0, <2>1, <3>1 DEF Url!At
  <2>2. CASE p = <<":">> \o port
    <3>1. /\ Len(p) = Len(port) + 1 /\ p[1] = ":"
          /\ \A k \in 1..Len(port) : p[k + 1] = port[k]
      BY <1>1, <2>2
    <3>2. /\ url[hostEnd] = ":" /\ hostEnd <= Len(url)
          /\ pathAt = hostEnd + 1 + Len(port)
          /\ \A k \in 1..Len(port) : url[hostEnd + k] = port[k]
      <4>1. 1 \in 1..Len(p) /\ hostEnd + 1 - 1 = hostEnd
        BY <1>1, <3>1
      <4>2. url[hostEnd] = ":"
        BY <1>3, <3>1, <4>1
      <4>3. hostEnd <= Len(url) /\ pathAt = hostEnd + 1 + Len(port)
        BY <1>1, <1>2, <1>3, <3>1
      <4>4. ASSUME NEW k \in 1..Len(port)
            PROVE  url[hostEnd + k] = port[k]
        <5>1. k + 1 \in 1..Len(p) /\ hostEnd + (k + 1) - 1 = hostEnd + k
          BY <1>1, <3>1
        <5> QED  BY <1>3, <3>1, <5>1
      <4> QED  BY <4>2, <4>3, <4>4
    <3>3. \A j \in (hostEnd + 1)..(pathAt - 1) : url[j] \in Numbers
      <4> SUFFICES ASSUME NEW j \in (hostEnd + 1)..(pathAt - 1)
                   PROVE  url[j] \in Numbers
        OBVIOUS
      <4>1. j - hostEnd \in 1..Len(port) /\ hostEnd + (j - hostEnd) = j
        BY <1>1, <3>2
      <4>2. url[j] = port[j - hostEnd]
        BY <3>2, <4>1
      <4> QED  BY <1>1, <4>1, <4>2, ElementOfSeq
    <3>4. pathAt = Url!Find(url, U \ Numbers, hostEnd + 1)
      <4>1. hostEnd + 1 \in 1..(Len(url) + 1) /\ pathAt \in (hostEnd + 1)..(Len(url) + 1)
        BY <1>1, <1>2, <1>3, <3>2
      <4>2. pathAt = Len(url) + 1 \/ url[pathAt] \in U \ Numbers
        <5>1. pathAt = Len(url) + 1 \/ pathAt \in 1..Len(url)
          <6>1. pathAt \in Int /\ pathAt <= Len(url) + 1 /\ 1 <= pathAt
            BY <1>2, <1>3
          <6> HIDE DEF pathAt
          <6> QED  BY <1>2, <6>1
        <5> QED  BY <2>0, <5>1, ElementOfSeq
      <4>3. \A j \in (hostEnd + 1)..(pathAt - 1) : url[j] \notin U \ Numbers
        BY <3>3
      <4>4. \A x \in (hostEnd + 1)..(Len(url) + 1) :
               /\ x = Len(url) + 1 \/ url[x] \in U \ Numbers
               /\ \A j \in (hostEnd + 1)..(x - 1) : url[j] \notin U \ Numbers
               => Url!Find(url, U \ Numbers, hostEnd + 1) = x
        <5>1. hostEnd + 1 \in 1..(Len(url) + 1)
          BY <4>1
        <5> DEFINE from == hostEnd + 1
        <5> HIDE DEF from
        <5>2. from \in 1..(Len(url) + 1)
          BY <5>1 DEF from
        <5>3. \A x \in from..(Len(url) + 1) :
                 /\ x = Len(url) + 1 \/ url[x] \in U \ Numbers
                 /\ \A j \in from..(x - 1) : url[j] \notin U \ Numbers
                 => Url!Find(url, U \ Numbers, from) = x
          BY <5>2, FindProperties
        <5> QED  BY <5>3 DEF from
      <4> HIDE DEF pathAt
      <4> QED  BY <4>1, <4>2, <4>3, <4>4
    <3>5. pathAt = Url!Skip(url, Numbers, hostEnd + 1)
      BY <1>2, <3>2, <3>4, SkipIsFind
    <3>6. port = SubSeq(url, hostEnd + 1, pathAt - 1)
      <4>1. /\ hostEnd + 1 \in 1..(Len(url) + 1) /\ pathAt - 1 \in (hostEnd + 1 - 1)..Len(url)
            /\ Len(port) = pathAt - 1 - (hostEnd + 1) + 1
        BY <1>1, <1>2, <1>3, <3>2
      <4>2. \A k \in 1..Len(port) : url[hostEnd + 1 + k - 1] = port[k]
        <5> SUFFICES ASSUME NEW k \in 1..Len(port)
                     PROVE  url[hostEnd + 1 + k - 1] = port[k]
          OBVIOUS
        <5>1. hostEnd + 1 + k - 1 = hostEnd + k
          BY <1>1
        <5> QED  BY <3>2, <5>1
      <4> DEFINE first == hostEnd + 1
                 last == pathAt - 1
      <4>3. /\ first \in 1..(Len(url) + 1) /\ last \in (first - 1)..Len(url)
            /\ Len(port) = last - first + 1
            /\ \A k \in 1..Len(port) : url[first + k - 1] = port[k]
        BY <4>1, <4>2
      <4>4. port \in Seq(Numbers)
        BY <1>1
      <4> HIDE DEF first, last
      <4>5. port = SubSeq(url, first, last)
        BY <4>3, <4>4, PieceIs
      <4> QED  BY <4>5 DEF first, last
    <3> QED  BY <3>2, <3>5, <3>6 DEF Url!At
  <2> QED  BY <2>1, <2>2 DEF PortTexts
<1>7. Url!Fits(port, PortSize) /\ Url!Fits(path, PathSize)
  BY <1>1 DEF Url!Fits
<1> HIDE DEF pathAt
<1>8. CASE Url!At(url, hostEnd) # ":" /\ pathAt = hostEnd /\ port = Url!DefaultPort
  BY <1>1, <1>5, <1>7, <1>8 DEF Url!ParsePortAndPath, Parsed
<1>9. CASE /\ Url!At(url, hostEnd) = ":" /\ pathAt = Url!Skip(url, Numbers, hostEnd + 1)
           /\ port = SubSeq(url, hostEnd + 1, pathAt - 1)
  BY <1>1, <1>5, <1>7, <1>9 DEF Url!ParsePortAndPath, Parsed
<1> QED  BY <1>6, <1>8, <1>9

LEMMA TextsAreTokens ==
    ASSUME NEW port \in Ports, NEW path \in Paths,
           NEW p \in PortTexts(port), NEW q \in PathTexts(path)
    PROVE  p \in Seq(Url!Tokens) /\ q \in Seq(Url!Tokens)
<1>1. port \in Seq(Numbers) /\ path \in Seq(Url!Tokens)
  BY UrlConstants, StringsAreSequences DEF Ports, Paths
<1>2. port \in Seq(Url!Tokens) /\ ":" \in Url!Tokens
  BY <1>1, UrlConstants, SeqMonotonic DEF Url!Tokens, Url!Punctuation
<1>3. <<":">> \o port \in Seq(Url!Tokens)
  BY <1>2
<1>4. (p = <<":">> \o port \/ p = <<>>) /\ (q = path \/ q = <<>>)
  BY DEF PortTexts, PathTexts
<1> QED  BY <1>1, <1>3, <1>4, EmptySeq

\* A URL is its scheme and then tokens; it is written from a host, a port and a path.
IsUrl(url) == \E scheme \in {Url!Http, "https://"}, rest \in Seq(Url!Tokens) : url = <<scheme>> \o rest

Hosts == {host \in Url!Strings(Url!Tokens, HostSize) : Url!IsEnclosed(host) \/ Url!IsBare(host)}

LEMMA PartsAreParsed ==
    ASSUME NEW parts
    PROVE  parts \in Url!Parts <=>
              \E host \in Hosts, port \in Ports, path \in Paths : parts = Parsed(host, port, path)
<1>1. Url!Parts = [valid : {TRUE}, host : Hosts, port : Ports, path : Paths]
  BY DEF Url!Parts, Hosts, Ports, Paths
<1>2. ASSUME parts \in [valid : {TRUE}, host : Hosts, port : Ports, path : Paths]
      PROVE  \E host \in Hosts, port \in Ports, path \in Paths : parts = Parsed(host, port, path)
  <2>1. /\ parts.host \in Hosts /\ parts.port \in Ports /\ parts.path \in Paths
        /\ parts = Parsed(parts.host, parts.port, parts.path)
    BY <1>2 DEF Parsed
  <2> QED  BY <2>1
<1>3. ASSUME NEW host \in Hosts, NEW port \in Ports, NEW path \in Paths
      PROVE  Parsed(host, port, path) \in [valid : {TRUE}, host : Hosts, port : Ports, path : Paths]
  BY DEF Parsed
<1> QED  BY <1>1, <1>2, <1>3

LEMMA SpellingsAreTexts ==
    ASSUME NEW host, NEW port, NEW path, NEW url
    PROVE  url \in Url!Spellings(Parsed(host, port, path)) <=>
              \E h \in HostTexts(host), p \in PortTexts(port), q \in PathTexts(path) :
                 url = <<Url!Http>> \o h \o p \o q
<1> DEFINE parts == Parsed(host, port, path)
<1>1. parts.host = host /\ parts.port = port /\ parts.path = path
  BY DEF Parsed
<1> HIDE DEF parts
<1>2. url \in Url!Spellings(parts) <=>
         \E h \in HostTexts(parts.host), p \in PortTexts(parts.port),
            q \in PathTexts(parts.path) : url = <<Url!Http>> \o h \o p \o q
  <2> DEFINE Text(h, p, q) == <<Url!Http>> \o h \o p \o q
  <2>1. Url!Spellings(parts) =
           {Text(h, p, q) : h \in HostTexts(parts.host), p \in PortTexts(parts.port),
                            q \in PathTexts(parts.path)}
    BY DEF Url!Spellings, HostTexts, PortTexts, PathTexts
  <2> HIDE DEF Text
  <2>2. url \in Url!Spellings(parts) <=>
           \E h \in HostTexts(parts.host), p \in PortTexts(parts.port),
              q \in PathTexts(parts.path) : url = Text(h, p, q)
    BY <2>1, SMT
  <2> QED  BY <2>2 DEF Text
<1>3. url \in Url!Spellings(parts) <=>
         \E h \in HostTexts(host), p \in PortTexts(port), q \in PathTexts(path) :
            url = <<Url!Http>> \o h \o p \o q
  BY <1>1, <1>2
<1> QED  BY <1>3 DEF parts

LEMMA UrlTokens ==
    ASSUME NEW url, IsUrl(url)
    PROVE  /\ url \in Seq(Url!Tokens \cup {url[1]}) /\ Len(url) \in Nat /\ Len(url) >= 1
           /\ \A j \in 2..Len(url) : url[j] \in Url!Tokens
<1>1. PICK scheme \in {Url!Http, "https://"}, rest \in Seq(Url!Tokens) : url = <<scheme>> \o rest
  BY DEF IsUrl
<1> DEFINE U == Url!Tokens \cup {scheme}
<1>2. /\ <<scheme>> \in Seq(U) /\ rest \in Seq(U) /\ Len(<<scheme>>) = 1 /\ <<scheme>>[1] = scheme
      /\ Len(rest) \in Nat
  BY SeqMonotonic
<1>3. /\ url \in Seq(U) /\ Len(url) = 1 + Len(rest)
      /\ \A j \in 1..(1 + Len(rest)) : url[j] = IF j <= 1 THEN scheme ELSE rest[j - 1]
  BY <1>1, <1>2, ConcatProperties
<1>4. \A j \in 2..Len(url) : url[j] \in Url!Tokens
  <2> SUFFICES ASSUME NEW j \in 2..Len(url)
               PROVE  url[j] \in Url!Tokens
    OBVIOUS
  <2>1. j - 1 \in 1..Len(rest) /\ url[j] = rest[j - 1]
    BY <1>2, <1>3
  <2> QED  BY <2>1, ElementOfSeq
<1>5. url[1] = scheme
  BY <1>2, <1>3
<1> QED  BY <1>2, <1>3, <1>4, <1>5

\* The CASE of parseHttpUrl, when the scheme is http
LEMMA ParseCases ==
    ASSUME NEW url, IsUrl(url), url[1] = Url!Http
    PROVE  LET closingBracket == Url!Find(url, {"]"}, 2)
               end == Url!Find(url, {":", "/"}, 2)
           IN  Url!ParseHttpUrl(url) =
                  IF Url!At(url, 2) # "["
                  THEN Url!ParsePortAndPath(url, SubSeq(url, 2, end - 1), end)
                  ELSE IF closingBracket > Len(url) THEN Url!Invalid
                  ELSE Url!ParsePortAndPath(url, SubSeq(url, 3, closingBracket - 1),
                                            closingBracket + 1)
<1>1. Url!At(url, 1) = Url!Http
  BY UrlTokens DEF Url!At
<1> QED  BY <1>1 DEF Url!ParseHttpUrl

\* Scheme and host and then port and path, or one after the other
LEMMA PiecesInARow ==
    ASSUME NEW h \in Seq(Url!Tokens), NEW p \in Seq(Url!Tokens), NEW q \in Seq(Url!Tokens)
    PROVE  (<<Url!Http>> \o h) \o (p \o q) = <<Url!Http>> \o h \o p \o q
<1> DEFINE V == Url!Tokens \cup {Url!Http}
           front == <<Url!Http>> \o h
<1>1. front \in Seq(V) /\ p \in Seq(V) /\ q \in Seq(V)
  BY SeqMonotonic
<1> HIDE DEF V, front
<1>2. (front \o p) \o q = front \o (p \o q)
  BY <1>1, ConcatAssociative
<1> QED  BY <1>2, Zenon DEF front

\* What is read from a URL is the parts of one that is written so.
LEMMA ReadIsWritten ==
    ASSUME NEW url, IsUrl(url), Url!ParseHttpUrl(url).valid
    PROVE  /\ Url!ParseHttpUrl(url) \in Url!Parts
           /\ url \in Url!Spellings(Url!ParseHttpUrl(url))
<1> DEFINE U == Url!Tokens \cup {url[1]}
           closingBracket == Url!Find(url, {"]"}, 2)
           end == Url!Find(url, {":", "/"}, 2)
<1>1. url \in Seq(U) /\ Len(url) \in Nat /\ Len(url) >= 1
  BY UrlTokens
<1>2. \A j \in 2..Len(url) : url[j] \in Url!Tokens
  BY UrlTokens
<1> HIDE DEF U
<1>3. url[1] = Url!Http
  BY <1>1 DEF Url!ParseHttpUrl, Url!Invalid, Url!At
<1>4. ASSUME NEW hostEnd \in 2..(Len(url) + 1), NEW host \in Seq(Url!Tokens),
             Url!IsEnclosed(host) \/ Url!IsBare(host),
             NEW h \in HostTexts(host), <<Url!Http>> \o h = SubSeq(url, 1, hostEnd - 1),
             h \in Seq(Url!Tokens),
             Url!ParseHttpUrl(url) = Url!ParsePortAndPath(url, host, hostEnd)
      PROVE  /\ Url!ParseHttpUrl(url) \in Url!Parts
             /\ url \in Url!Spellings(Url!ParseHttpUrl(url))
  <2>1. hostEnd \in 1..(Len(url) + 1) /\ \A j \in hostEnd..Len(url) : url[j] \in Url!Tokens
    BY <1>1, <1>2
  <2>2. PICK port \in Ports, path \in Paths :
           /\ Url!ParsePortAndPath(url, host, hostEnd) = Parsed(host, port, path)
           /\ Url!Fits(host, HostSize)
           /\ \E p \in PortTexts(port), q \in PathTexts(path) :
                 SubSeq(url, hostEnd, Len(url)) = p \o q
    BY <1>1, <1>4, <2>1, PortAndPathStandThere
  <2>3. PICK p \in PortTexts(port), q \in PathTexts(path) : SubSeq(url, hostEnd, Len(url)) = p \o q
    BY <2>2
  <2>4. host \in Hosts
    <3>1. Len(host) \in 1..(HostSize - 1) /\ HostSize \in Nat
      BY <2>2, UrlConstants DEF Url!Fits
    <3>2. host \in Url!Strings(Url!Tokens, HostSize)
      BY <1>4, <3>1, StringsAreSequences
    <3> QED  BY <1>4, <3>2 DEF Hosts
  <2>5. url = (<<Url!Http>> \o h) \o (p \o q)
    <3>1. /\ hostEnd - 1 \in 0..Len(url) /\ 1 \in 1..(Len(url) + 1) /\ hostEnd - 1 + 1 = hostEnd
          /\ 1 - 1 = 0
      BY <1>1
    <3>2. SubSeq(url, 1, Len(url))
             = SubSeq(url, 1, hostEnd - 1) \o SubSeq(url, hostEnd - 1 + 1, Len(url))
      BY <1>1, <3>1, SplitAt
    <3>3. SubSeq(url, 1, Len(url)) = url
      BY <1>1, SubSeqFull
    <3>4. SubSeq(url, hostEnd - 1 + 1, Len(url)) = p \o q
      BY <2>3, <3>1
    <3>5. SubSeq(url, 1, hostEnd - 1) = <<Url!Http>> \o h
      BY <1>4
    <3> QED  BY <3>2, <3>3, <3>4, <3>5, Zenon
  <2>6. url = <<Url!Http>> \o h \o p \o q
    <3>1. p \in Seq(Url!Tokens) /\ q \in Seq(Url!Tokens)
      BY <2>2, <2>3, TextsAreTokens
    <3>2. (<<Url!Http>> \o h) \o (p \o q) = <<Url!Http>> \o h \o p \o q
      BY <1>4, <3>1, PiecesInARow
    <3> QED  BY <2>5, <3>2, Zenon
  <2> QED  BY <1>4, <2>2, <2>3, <2>4, <2>6, PartsAreParsed, SpellingsAreTexts
<1>5. CASE Url!At(url, 2) = "["
  <2> DEFINE host == SubSeq(url, 3, closingBracket - 1)
             h == <<"[">> \o host \o <<"]">>
  <2>1. 2 <= Len(url) /\ url[2] = "["
    BY <1>1, <1>5 DEF Url!At
  <2>2. /\ ~(closingBracket > Len(url))
        /\ Url!ParseHttpUrl(url) = Url!ParsePortAndPath(url, host, closingBracket + 1)
    <3>1. ~ Url!Invalid.valid
      BY DEF Url!Invalid
    <3> QED  BY <1>3, <1>5, <3>1, ParseCases
  <2>3. /\ closingBracket \in 3..Len(url) /\ url[closingBracket] = "]"
        /\ \A j \in 2..(closingBracket - 1) : url[j] \notin {"]"}
    <3>1. 2 \in 1..(Len(url) + 1)
      BY <1>1, <2>1
    <3>2. /\ closingBracket \in 2..(Len(url) + 1)
          /\ closingBracket <= Len(url) => url[closingBracket] \in {"]"}
          /\ \A j \in 2..(closingBracket - 1) : url[j] \notin {"]"}
      BY <1>1, <3>1, FindProperties
    <3> HIDE DEF closingBracket
    <3>3. closingBracket # 2
      BY <2>1, <2>2, <3>2
    <3> QED  BY <1>1, <2>2, <3>2, <3>3
  <2> HIDE DEF closingBracket
  <2>4. /\ host \in Seq(Url!Tokens) /\ Len(host) = closingBracket - 3
        /\ \A k \in 1..(closingBracket - 3) : host[k] = url[2 + k]
    <3>1. /\ \A j \in 3..(closingBracket - 1) : url[j] \in Url!Tokens
          /\ closingBracket - 1 \in Int
          /\ (IF 3 <= closingBracket - 1 THEN closingBracket - 1 - 3 + 1 ELSE 0) = closingBracket - 3
          /\ closingBracket - 1 - 3 + 1 = closingBracket - 3
      BY <1>1, <1>2, <2>3
    <3>2. /\ host \in Seq(Url!Tokens) /\ Len(host) = closingBracket - 3
          /\ \A k \in 1..(closingBracket - 3) : host[k] = url[3 + k - 1]
      BY <3>1, SubSeqProperties
    <3> HIDE DEF host
    <3>3. \A k \in 1..(closingBracket - 3) : 3 + k - 1 = 2 + k
      BY <2>3
    <3> QED  BY <3>2, <3>3
  <2> HIDE DEF host
  <2>5. Url!IsEnclosed(host)
    <3>1. \A k \in 1..Len(host) : host[k] = url[2 + k] /\ 2 + k \in 2..(closingBracket - 1)
      BY <2>3, <2>4
    <3> QED  BY <2>3, <3>1 DEF Url!IsEnclosed
  <2>6. h \in HostTexts(host) /\ h \in Seq(Url!Tokens)
    <3>1. "[" \in Url!Tokens /\ "]" \in Url!Tokens
      BY DEF Url!Tokens, Url!Punctuation
    <3> QED  BY <2>4, <2>5, <3>1 DEF HostTexts
  <2> DEFINE hostEnd == closingBracket + 1
  <2>7. <<Url!Http>> \o h = SubSeq(url, 1, hostEnd - 1)
    <3> DEFINE t == <<Url!Http>> \o h
    <3>1. hostEnd - 1 \in 0..Len(url) /\ 1 \in 1..(Len(url) + 1) /\ 1 - 1 = 0
          /\ hostEnd - 1 = closingBracket /\ closingBracket - 1 + 1 = closingBracket
      BY <1>1, <2>3
    <3>2. t \in Seq(Url!Tokens \cup {Url!Http}) /\ Len(t) = closingBracket
      BY <2>3, <2>4, <2>6
    <3>3. \A k \in 1..closingBracket : t[k] = url[k]
      <4>1. /\ t[1] = Url!Http /\ t[2] = "[" /\ t[closingBracket] = "]"
            /\ \A k \in 3..(closingBracket - 1) : t[k] = host[k - 2]
        BY <2>3, <2>4
      <4>2. \A k \in 3..(closingBracket - 1) : host[k - 2] = url[k]
        <5> SUFFICES ASSUME NEW k \in 3..(closingBracket - 1)
                     PROVE  host[k - 2] = url[k]
          OBVIOUS
        <5>1. k - 2 \in 1..(closingBracket - 3) /\ 2 + (k - 2) = k
          BY <2>3
        <5> QED  BY <2>4, <5>1
      <4> HIDE DEF t
      <4>3. \A k \in 1..closingBracket :
               k = 1 \/ k = 2 \/ k = closingBracket \/ k \in 3..(closingBracket - 1)
        BY <2>3
      <4> QED  BY <1>3, <2>1, <2>3, <4>1, <4>2, <4>3
    <3> HIDE DEF t
    <3>4. \A k \in 1..Len(t) : url[1 + k - 1] = t[k]
      <4>1. \A k \in 1..closingBracket : 1 + k - 1 = k
        BY <2>3
      <4> QED  BY <3>2, <3>3, <4>1
    <3>5. t = SubSeq(url, 1, hostEnd - 1)
      BY <1>1, <3>1, <3>2, <3>4, PieceIs
    <3> QED  BY <3>5 DEF t
  <2>8. hostEnd \in 2..(Len(url) + 1)
    BY <1>1, <2>3
  <2>9. Url!ParseHttpUrl(url) = Url!ParsePortAndPath(url, host, hostEnd)
    BY <2>2
  <2> HIDE DEF h, hostEnd
  <2> QED  BY <1>4, <2>4, <2>5, <2>6, <2>7, <2>8, <2>9
<1>6. CASE Url!At(url, 2) # "["
  <2> DEFINE host == SubSeq(url, 2, end - 1)
  <2>1. Url!ParseHttpUrl(url) = Url!ParsePortAndPath(url, host, end)
    BY <1>3, <1>6, ParseCases
  <2>2. /\ end \in 2..(Len(url) + 1)
        /\ \A j \in 2..(end - 1) : url[j] \notin {":", "/"}
    <3>1. 2 \in 1..(Len(url) + 1)
      BY <1>1
    <3> QED  BY <1>1, <3>1, FindProperties
  <2> HIDE DEF end
  <2>3. /\ host \in Seq(Url!Tokens) /\ Len(host) = end - 2
        /\ \A k \in 1..(end - 2) : host[k] = url[1 + k]
    <3>1. /\ \A j \in 2..(end - 1) : url[j] \in Url!Tokens
          /\ end - 1 \in Int
          /\ (IF 2 <= end - 1 THEN end - 1 - 2 + 1 ELSE 0) = end - 2
          /\ end - 1 - 2 + 1 = end - 2
      BY <1>1, <1>2, <2>2
    <3>2. /\ host \in Seq(Url!Tokens) /\ Len(host) = end - 2
          /\ \A k \in 1..(end - 2) : host[k] = url[2 + k - 1]
      BY <3>1, SubSeqProperties
    <3> HIDE DEF host
    <3>3. \A k \in 1..(end - 2) : 2 + k - 1 = 1 + k
      BY <2>2
    <3> QED  BY <3>2, <3>3
  <2> HIDE DEF host
  <2>4. Len(host) \in 1..(HostSize - 1)
    <3>1. Url!Fits(host, HostSize)
      BY <2>1 DEF Url!ParsePortAndPath, Url!Invalid
    <3> QED  BY <3>1 DEF Url!Fits
  <2>5. Url!IsBare(host)
    <3>1. host[1] = url[2] /\ 2 <= Len(url)
      BY <1>1, <2>2, <2>3, <2>4, UrlConstants
    <3>2. host[1] # "["
      BY <1>6, <3>1 DEF Url!At
    <3>3. \A k \in 1..Len(host) : host[k] = url[1 + k] /\ 1 + k \in 2..(end - 1)
      BY <2>2, <2>3
    <3> QED  BY <2>2, <3>2, <3>3 DEF Url!IsBare
  <2>6. host \in HostTexts(host)
    BY <2>5 DEF HostTexts
  <2>7. <<Url!Http>> \o host = SubSeq(url, 1, end - 1)
    <3>1. 1 \in 1..Len(url) /\ end - 1 \in 1..Len(url) /\ 1 + 1 = 2
      BY <1>1, <2>2
    <3>2. SubSeq(url, 1, end - 1) = <<url[1]>> \o SubSeq(url, 1 + 1, end - 1)
      BY <1>1, <3>1, SubSeqRecursiveFirst
    <3> QED  BY <1>3, <3>1, <3>2 DEF host
  <2> QED  BY <1>4, <2>1, <2>2, <2>3, <2>5, <2>6, <2>7
<1> QED  BY <1>5, <1>6

\* Whatever is written from a host, a port and a path is read as these.
LEMMA WrittenIsRead ==
    ASSUME NEW host \in Hosts, NEW port \in Ports, NEW path \in Paths,
           NEW url \in Url!Spellings(Parsed(host, port, path))
    PROVE  IsUrl(url) /\ Url!ParseHttpUrl(url) = Parsed(host, port, path)
<1>1. PICK h \in HostTexts(host), p \in PortTexts(port), q \in PathTexts(path) :
         url = <<Url!Http>> \o h \o p \o q
  BY SpellingsAreTexts
<1> DEFINE V == Url!Tokens \cup {Url!Http}
           rest == p \o q
           hostEnd == Len(h) + 2
<1>2. /\ host \in Seq(Url!Tokens) /\ Len(host) \in 1..(HostSize - 1) /\ Url!Fits(host, HostSize)
      /\ port \in Seq(Numbers) /\ path \in Seq(Url!Tokens) /\ Len(path) >= 1 /\ path[1] = "/"
  BY UrlConstants, StringsAreSequences DEF Hosts, Ports, Paths, Url!Fits
<1>3. \/ h = <<"[">> \o host \o <<"]">> /\ Url!IsEnclosed(host)
      \/ h = host /\ Url!IsBare(host)
  BY DEF HostTexts
<1>4. h \in Seq(Url!Tokens) /\ Len(h) \in Nat /\ Len(h) >= 1
  <2>1. "[" \in Url!Tokens /\ "]" \in Url!Tokens
    BY DEF Url!Tokens, Url!Punctuation
  <2>2. CASE h = <<"[">> \o host \o <<"]">>
    <3>1. h \in Seq(Url!Tokens) /\ Len(h) = Len(host) + 2
      BY <1>2, <2>1, <2>2
    <3> QED  BY <1>2, <3>1
  <2>3. CASE h = host
    BY <1>2, <2>3
  <2> QED  BY <1>3, <2>2, <2>3
<1>5. /\ p \in Seq(Url!Tokens) /\ q \in Seq(Url!Tokens)
      /\ rest \in Seq(Url!Tokens) /\ Len(rest) \in Nat
  <2>1. p \in Seq(Url!Tokens) /\ q \in Seq(Url!Tokens)
    BY TextsAreTokens
  <2> QED  BY <2>1
<1>6. Len(rest) # 0 => rest[1] \in {":", "/"}
  <2>1. CASE p = <<":">> \o port
    <3>1. Len(p) >= 1 /\ p[1] = ":"
      BY <1>2, <2>1
    <3> QED  BY <1>5, <3>1
  <2>2. CASE p = <<>>
    <3>1. rest = q
      BY <1>5, <2>2, ConcatEmptySeq
    <3>2. q = path \/ q = <<>>
      BY DEF PathTexts
    <3> QED  BY <1>2, <3>1, <3>2
  <2> QED  BY <2>1, <2>2 DEF PortTexts
<1> DEFINE front == <<Url!Http>> \o h
<1>7. /\ front \in Seq(V) /\ Len(front) = Len(h) + 1 /\ front[1] = Url!Http
      /\ \A k \in 1..Len(h) : front[k + 1] = h[k]
  BY <1>4
<1>8. url = front \o rest
  <2>1. (<<Url!Http>> \o h) \o (p \o q) = <<Url!Http>> \o h \o p \o q
    BY <1>4, <1>5, PiecesInARow
  <2> QED  BY <1>1, <2>1, Zenon
<1>9. IsUrl(url)
  <2>1. h \o rest \in Seq(Url!Tokens)
    BY <1>4, <1>5
  <2>2. <<Url!Http>> \in Seq(V) /\ h \in Seq(V) /\ rest \in Seq(V)
    BY <1>4, <1>5, SeqMonotonic
  <2>3. (<<Url!Http>> \o h) \o rest = <<Url!Http>> \o (h \o rest)
    <3> HIDE DEF V, rest
    <3> QED  BY <2>2, ConcatAssociative
  <2> QED  BY <1>8, <2>1, <2>3 DEF IsUrl
<1> HIDE DEF rest, front
<1>10. /\ url \in Seq(V) /\ Len(url) = Len(h) + 1 + Len(rest)
       /\ url[1] = Url!Http
       /\ \A k \in 1..Len(h) : url[k + 1] = h[k]
       /\ \A k \in 1..Len(rest) : url[Len(h) + 1 + k] = rest[k]
  <2>1. rest \in Seq(V)
    BY <1>5, SeqMonotonic
  <2>2. /\ url \in Seq(V) /\ Len(url) = Len(front) + Len(rest)
        /\ \A j \in 1..(Len(front) + Len(rest)) :
              url[j] = IF j <= Len(front) THEN front[j] ELSE rest[j - Len(front)]
    <3> HIDE DEF V
    <3> QED  BY <1>7, <1>8, <2>1, ConcatProperties
  <2>3. url[1] = Url!Http
    BY <1>4, <1>5, <1>7, <2>2
  <2>4. \A k \in 1..Len(h) : url[k + 1] = h[k]
    <3> SUFFICES ASSUME NEW k \in 1..Len(h) PROVE url[k + 1] = h[k]
      OBVIOUS
    <3>1. k + 1 \in 1..(Len(front) + Len(rest)) /\ k + 1 <= Len(front)
      BY <1>4, <1>5, <1>7
    <3> QED  BY <1>7, <2>2, <3>1
  <2>5. \A k \in 1..Len(rest) : url[Len(h) + 1 + k] = rest[k]
    <3> SUFFICES ASSUME NEW k \in 1..Len(rest) PROVE url[Len(h) + 1 + k] = rest[k]
      OBVIOUS
    <3>1. /\ Len(h) + 1 + k \in 1..(Len(front) + Len(rest)) /\ ~(Len(h) + 1 + k <= Len(front))
          /\ Len(h) + 1 + k - Len(front) = k
      BY <1>4, <1>5, <1>7
    <3> QED  BY <2>2, <3>1
  <2> QED  BY <1>7, <2>2, <2>3, <2>4, <2>5
<1> HIDE DEF V
<1>11. /\ hostEnd \in 3..(Len(url) + 1) /\ Len(url) \in Nat
       /\ hostEnd = Len(url) + 1 \/ url[hostEnd] \in {":", "/"}
  <2>1. hostEnd \in 3..(Len(url) + 1) /\ Len(url) \in Nat /\ Len(url) + 1 = hostEnd + Len(rest)
    BY <1>4, <1>5, <1>10
  <2>2. CASE Len(rest) # 0
    <3>1. 1 \in 1..Len(rest) /\ Len(h) + 1 + 1 = hostEnd
      BY <1>4, <1>5, <2>2
    <3> QED  BY <1>6, <1>10, <2>1, <2>2, <3>1
  <2>3. CASE Len(rest) = 0
    BY <1>4, <1>5, <2>1, <2>3
  <2> QED  BY <2>1, <2>2, <2>3
<1>12. Url!ParsePortAndPath(url, host, hostEnd) = Parsed(host, port, path)
  <2>1. /\ hostEnd \in 1..(Len(url) + 1) /\ Len(url) \in (hostEnd - 1)..Len(url)
        /\ Len(rest) = Len(url) - hostEnd + 1
    BY <1>4, <1>5, <1>10, <1>11
  <2>2. \A k \in 1..Len(rest) : url[hostEnd + k - 1] = rest[k]
    <3> SUFFICES ASSUME NEW k \in 1..Len(rest) PROVE url[hostEnd + k - 1] = rest[k]
      OBVIOUS
    <3>1. hostEnd + k - 1 = Len(h) + 1 + k
      BY <1>4
    <3> QED  BY <1>10, <3>1
  <2> HIDE DEF hostEnd
  <2>3. SubSeq(url, hostEnd, Len(url)) = rest
    BY <1>5, <1>10, <2>1, <2>2, PieceIs
  <2>4. SubSeq(url, hostEnd, Len(url)) = p \o q
    BY <2>3 DEF rest
  <2>5. url \in Seq(V) /\ hostEnd \in 1..(Len(url) + 1) /\ Url!Fits(host, HostSize)
    BY <1>2, <1>10, <2>1
  <2>6. \E p1 \in PortTexts(port), q1 \in PathTexts(path) :
           SubSeq(url, hostEnd, Len(url)) = p1 \o q1
    BY <2>4
  <2> QED  BY <2>5, <2>6, PortAndPathAreRead
<1>13. 2 \in 1..(Len(url) + 1) /\ 2 <= Len(url) /\ url[2] = h[1]
  <2>1. 1 \in 1..Len(h) /\ 1 + 1 = 2
    BY <1>4
  <2> QED  BY <1>4, <1>5, <1>10, <2>1
<1>14. CASE h = <<"[">> \o host \o <<"]">> /\ Url!IsEnclosed(host)
  <2> DEFINE closing == Len(host) + 3
  <2>1. /\ Len(h) = Len(host) + 2 /\ h[1] = "[" /\ h[Len(host) + 2] = "]"
        /\ \A k \in 1..Len(host) : h[k + 1] = host[k]
    BY <1>2, <1>14
  <2>2. /\ closing \in 2..Len(url) /\ closing + 1 = hostEnd /\ closing >= 4
    BY <1>2, <1>4, <1>5, <1>10, <2>1
  <2>3. url[closing] = "]"
    <3>1. Len(host) + 2 \in 1..Len(h) /\ Len(host) + 2 + 1 = closing
      BY <1>2, <2>1
    <3> QED  BY <1>10, <2>1, <3>1
  <2>4. \A k \in 1..Len(host) : url[3 + k - 1] = host[k] /\ host[k] # "]"
    <3> SUFFICES ASSUME NEW k \in 1..Len(host) PROVE url[3 + k - 1] = host[k]
      BY <1>14 DEF Url!IsEnclosed
    <3>1. k + 1 \in 1..Len(h) /\ k + 1 + 1 = 3 + k - 1
      BY <1>2, <2>1
    <3> QED  BY <1>10, <2>1, <3>1
  <2>5. \A j \in 2..(closing - 1) : url[j] \notin {"]"}
    <3> SUFFICES ASSUME NEW j \in 2..(closing - 1) PROVE url[j] # "]"
      OBVIOUS
    <3>1. CASE j = 2
      BY <1>13, <2>1, <3>1
    <3>2. CASE j # 2
      <4>1. j - 2 \in 1..Len(host) /\ 3 + (j - 2) - 1 = j
        BY <1>2, <3>2
      <4> QED  BY <2>4, <4>1
    <3> QED  BY <3>1, <3>2
  <2> HIDE DEF closing, hostEnd
  <2>6. closing = Url!Find(url, {"]"}, 2)
    <3>1. /\ 2 \in 1..(Len(url) + 1) /\ closing \in 2..(Len(url) + 1) /\ url[closing] \in {"]"}
      BY <1>11, <1>13, <2>2, <2>3
    <3> QED  BY <1>10, <2>5, <3>1, FindProperties
  <2>7. SubSeq(url, 3, closing - 1) = host
    <3>1. /\ 3 \in 1..(Len(url) + 1) /\ closing - 1 \in (3 - 1)..Len(url)
          /\ Len(host) = closing - 1 - 3 + 1
      BY <1>2, <1>11, <2>2 DEF closing
    <3> QED  BY <1>2, <1>10, <2>4, <3>1, PieceIs
  <2>8. Url!At(url, 2) = "[" /\ ~(closing > Len(url))
    BY <1>11, <1>13, <2>1, <2>2 DEF Url!At
  <2>9. Url!ParseHttpUrl(url) = Url!ParsePortAndPath(url, SubSeq(url, 3, closing - 1), closing + 1)
    BY <1>9, <1>10, <2>6, <2>8, ParseCases
  <2> QED  BY <1>9, <1>12, <2>2, <2>7, <2>9
<1>15. CASE h = host /\ Url!IsBare(host)
  <2>1. host[1] # "[" /\ \A k \in 1..Len(host) : host[k] \notin {":", "/"}
    BY <1>15 DEF Url!IsBare
  <2>2. \A j \in 2..(hostEnd - 1) : url[j] \notin {":", "/"}
    <3> SUFFICES ASSUME NEW j \in 2..(hostEnd - 1) PROVE url[j] \notin {":", "/"}
      OBVIOUS
    <3>1. j - 1 \in 1..Len(h) /\ j - 1 + 1 = j
      BY <1>4
    <3>2. url[j] = h[j - 1]
      BY <1>10, <3>1
    <3>3. h[j - 1] \notin {":", "/"}
      BY <1>15, <2>1, <3>1
    <3> QED  BY <3>2, <3>3
  <2>3. hostEnd = Url!Find(url, {":", "/"}, 2)
    <3> HIDE DEF hostEnd
    <3>1. /\ hostEnd \in 2..(Len(url) + 1)
          /\ hostEnd = Len(url) + 1 \/ url[hostEnd] \in {":", "/"}
      BY <1>11
    <3>2. url \in Seq(V) /\ 2 \in 1..(Len(url) + 1)
      BY <1>10, <1>13
    <3> QED  BY <2>2, <3>1, <3>2, FindProperties
  <2>4. SubSeq(url, 2, hostEnd - 1) = host
    <3>1. /\ hostEnd - 1 \in (2 - 1)..Len(url) /\ Len(host) = hostEnd - 1 - 2 + 1
      BY <1>4, <1>11, <1>15
    <3>2. \A k \in 1..Len(host) : url[2 + k - 1] = host[k]
      <4> SUFFICES ASSUME NEW k \in 1..Len(host) PROVE url[2 + k - 1] = host[k]
        OBVIOUS
      <4>1. 2 + k - 1 = k + 1
        OBVIOUS
      <4> QED  BY <1>10, <1>15, <4>1
    <3> HIDE DEF hostEnd
    <3> QED  BY <1>2, <1>10, <1>13, <3>1, <3>2, PieceIs
  <2>5. Url!At(url, 2) # "["
    BY <1>13, <1>15, <2>1 DEF Url!At
  <2> HIDE DEF hostEnd
  <2>6. Url!ParseHttpUrl(url) = Url!ParsePortAndPath(url, SubSeq(url, 2, hostEnd - 1), hostEnd)
    BY <1>9, <1>10, <2>3, <2>5, ParseCases
  <2> QED  BY <1>9, <1>12, <2>4, <2>6
<1> QED  BY <1>3, <1>14, <1>15

\* The Host header that is sent is one of the ways to write the host and the port.
LEMMA HeaderIsWritten ==
    ASSUME NEW host \in Hosts, NEW port \in Ports, NEW path, Url!IsAddress(host)
    PROVE  /\ Url!DefaultPath \in Paths
           /\ <<Url!Http>> \o Url!HostHeader(Parsed(host, port, path)) \in
                 Url!Spellings(Parsed(host, port, Url!DefaultPath))
<1>1. Url!DefaultPath \in Paths
  <2>1. /\ Url!DefaultPath \in Seq(Url!Tokens) /\ Len(Url!DefaultPath) = 1
        /\ Url!DefaultPath[1] = "/"
    BY UrlConstants DEF Url!DefaultPath
  <2>2. 1 \in 1..(PathSize - 1) /\ PathSize \in Nat
    BY UrlConstants
  <2> QED  BY <2>1, <2>2, StringsAreSequences DEF Paths
<1> DEFINE hasColon == \E i \in 1..Len(host) : host[i] = ":"
           h == IF hasColon THEN <<"[">> \o host \o <<"]">> ELSE host
           p == IF port = Url!DefaultPort THEN <<>> ELSE <<":">> \o port
           q == <<>>
<1>2. host \in Seq(Url!Tokens) /\ Len(host) \in Nat /\ Len(host) >= 1
  BY UrlConstants, StringsAreSequences DEF Hosts
<1>3. Url!HostHeader(Parsed(host, port, path)) = h \o p
  BY DEF Parsed, Url!HostHeader
<1>4. h \in HostTexts(host) /\ h \in Seq(Url!Tokens)
  <2>1. \A i \in 1..Len(host) : host[i] \notin {"[", "]", "/"}
    BY DEF Url!IsAddress
  <2>2. CASE hasColon
    <3>1. Url!IsEnclosed(host)
      BY <2>1 DEF Url!IsEnclosed
    <3>2. "[" \in Url!Tokens /\ "]" \in Url!Tokens
      BY DEF Url!Tokens, Url!Punctuation
    <3>3. h = <<"[">> \o host \o <<"]">> /\ h \in Seq(Url!Tokens)
      BY <1>2, <2>2, <3>2
    <3> QED  BY <3>1, <3>3 DEF HostTexts
  <2>3. CASE ~hasColon
    <3>1. 1 \in 1..Len(host)
      BY <1>2
    <3>2. Url!IsBare(host)
      BY <2>1, <2>3, <3>1 DEF Url!IsBare
    <3>3. h = host
      BY <2>3
    <3> QED  BY <1>2, <3>2, <3>3 DEF HostTexts
  <2> QED  BY <2>2, <2>3
<1>5. p \in PortTexts(port) /\ p \in Seq(Url!Tokens)
  <2>1. p \in PortTexts(port)
    BY DEF PortTexts
  <2>2. <<>> \in PathTexts(Url!DefaultPath)
    BY DEF PathTexts
  <2> QED  BY <1>1, <2>1, <2>2, TextsAreTokens
<1>6. q \in PathTexts(Url!DefaultPath)
  BY DEF PathTexts
<1> HIDE DEF h, p
<1>7. <<Url!Http>> \o (h \o p) = <<Url!Http>> \o h \o p \o q
  <2> DEFINE V == Url!Tokens \cup {Url!Http}
  <2>1. <<Url!Http>> \in Seq(V) /\ h \in Seq(V) /\ p \in Seq(V)
    BY <1>4, <1>5, SeqMonotonic
  <2> HIDE DEF V
  <2>2. <<Url!Http>> \o (h \o p) = (<<Url!Http>> \o h) \o p
    BY <2>1, ConcatAssociative
  <2>3. (<<Url!Http>> \o h) \o p \in Seq(V)
    BY <2>1
  <2> QED  BY <2>2, <2>3, ConcatEmptySeq
<1>8. \E h1 \in HostTexts(host), p1 \in PortTexts(port), q1 \in PathTexts(Url!DefaultPath) :
         <<Url!Http>> \o (h \o p) = <<Url!Http>> \o h1 \o p1 \o q1
  BY <1>4, <1>5, <1>6, <1>7
<1>9. <<Url!Http>> \o (h \o p) \in Url!Spellings(Parsed(host, port, Url!DefaultPath))
  BY <1>8, SpellingsAreTexts
<1> QED  BY <1>1, <1>3, <1>9

\* Another path in the same record
LEMMA ReplacedPath ==
    ASSUME NEW host, NEW port, NEW path, NEW other
    PROVE  Parsed(host, port, other) = [Parsed(host, port, path) EXCEPT !.path = other]
<1>1. SUFFICES ASSUME NEW valid, valid = TRUE
               PROVE  [valid |-> valid, host |-> host, port |-> port, path |-> other] =
                      [[valid |-> valid, host |-> host, port |-> port, path |-> path]
                          EXCEPT !.path = other]
  BY Zenon DEF Parsed
<1> QED  OBVIOUS

\* What the invariant about a URL says, of the URL and what it is parsed to.
LEMMA ParsedUrlIsItsParts ==
    ASSUME NEW url, IsUrl(url)
    PROVE  LET parsed == Url!ParseHttpUrl(url) IN
           /\ parsed.valid <=> url \in UrlsWithParts
           /\ parsed.valid =>
                 /\ url \in Url!Spellings(parsed)
                 /\ LET same == Url!ParseHttpUrl(<<Url!Http>> \o Url!HostHeader(parsed)) IN
                    Url!IsAddress(parsed.host) => same = [parsed EXCEPT !.path = Url!DefaultPath]
<1> DEFINE parsed == Url!ParseHttpUrl(url)
<1>1. ASSUME parsed.valid
      PROVE  url \in UrlsWithParts
  BY <1>1, ReadIsWritten DEF UrlsWithParts
<1>2. ASSUME url \in UrlsWithParts
      PROVE  parsed.valid
  <2>1. PICK parts \in Url!Parts : url \in Url!Spellings(parts)
    BY <1>2 DEF UrlsWithParts
  <2>2. PICK host \in Hosts, port \in Ports, path \in Paths : parts = Parsed(host, port, path)
    BY <2>1, PartsAreParsed
  <2>3. parsed = Parsed(host, port, path)
    BY <2>1, <2>2, WrittenIsRead
  <2> QED  BY <2>3 DEF Parsed
<1>3. ASSUME parsed.valid, Url!IsAddress(parsed.host)
      PROVE  Url!ParseHttpUrl(<<Url!Http>> \o Url!HostHeader(parsed)) =
                [parsed EXCEPT !.path = Url!DefaultPath]
  <2>1. PICK host \in Hosts, port \in Ports, path \in Paths : parsed = Parsed(host, port, path)
    BY <1>3, ReadIsWritten, PartsAreParsed
  <2> DEFINE header == <<Url!Http>> \o Url!HostHeader(parsed)
  <2>2. Url!IsAddress(host)
    BY <1>3, <2>1 DEF Parsed
  <2>3. /\ Url!DefaultPath \in Paths
        /\ header \in Url!Spellings(Parsed(host, port, Url!DefaultPath))
    BY <2>1, <2>2, HeaderIsWritten
  <2> HIDE DEF header
  <2>4. Url!ParseHttpUrl(header) = Parsed(host, port, Url!DefaultPath)
    BY <2>3, WrittenIsRead
  <2>5. Parsed(host, port, Url!DefaultPath) = [parsed EXCEPT !.path = Url!DefaultPath]
    <3>1. Parsed(host, port, Url!DefaultPath) =
             [Parsed(host, port, path) EXCEPT !.path = Url!DefaultPath]
      BY ReplacedPath
    <3> QED  BY <2>1, <3>1, Zenon
  <2> QED  BY <2>4, <2>5 DEF header
<1> HIDE DEF parsed
<1>4. parsed.valid => url \in Url!Spellings(parsed)
  BY ReadIsWritten DEF parsed
<1> QED  BY <1>1, <1>2, <1>3, <1>4 DEF parsed

\* A collector's URL is taken apart into what it was written from, however long it is and
\* whatever the sizes of the buffers are.
THEOREM UrlsAreTheirParts == Spec => []UrlIsItsParts
<1>1. Init => UrlIsItsParts
  BY DEF Init, NoCall, UrlIsItsParts
<1>2. ASSUME UrlIsItsParts, [Next]_vars
      PROVE  UrlIsItsParts'
  <2>1. CASE ParseUrl
    <3>1. PICK rest \in Strings(Url!Tokens, MaxUrl), scheme \in {Url!Http, "https://"} :
             Call("url", <<scheme>> \o rest, Url!ParseHttpUrl(<<scheme>> \o rest))
      BY <2>1 DEF ParseUrl
    <3> DEFINE url == <<scheme>> \o rest
    <3>2. IsUrl(url)
      <4>1. PICK n \in 0..MaxUrl : rest \in [1..n -> Url!Tokens]
        BY DEF Strings
      <4>2. n \in Nat
        BY ConversionsAssumption
      <4>3. rest \in Seq(Url!Tokens)
        BY <4>1, <4>2
      <4> QED  BY <4>3 DEF IsUrl
    <3> HIDE DEF url
    <3>3. call'.arguments = url /\ result' = Url!ParseHttpUrl(url)
      BY <3>1 DEF Call, url
    <3> QED  BY <3>2, <3>3, ParsedUrlIsItsParts DEF UrlIsItsParts
  <2>2. CASE \/ FindTraceParent \/ DescribePlan \/ SummariseWorkers \/ PlaceSpans
             \/ Serialize \/ Return
    <3>1. call'.function # "url"
      BY <2>2 DEF FindTraceParent, DescribePlan, SummariseWorkers, PlaceSpans, Serialize,
                  Return, Call, NoCall
    <3> QED  BY <3>1 DEF UrlIsItsParts
  <2>3. CASE UNCHANGED vars
    BY <1>2, <2>3 DEF vars, UrlIsItsParts
  <2> QED  BY <1>2, <2>1, <2>2, <2>3 DEF Next
<1> QED  BY <1>1, <1>2, PTL DEF Spec

-----------------------------------------------------------------------------
\* The trace context of a statement.
\* A search stops at the first position, from a given one on, with the token.
LEMMA NextTokenProperties ==
    ASSUME NEW U, NEW text \in Seq(U), NEW token, NEW from \in 1..(Len(text) + 1)
    PROVE  LET found == Trace!NextToken(text, token, from) IN
           /\ found \in from..(Len(text) + 1)
           /\ found <= Len(text) => text[found] = token
           /\ \A j \in from..(found - 1) : text[j] # token
<1> DEFINE T == {Len(text) + 1} \cup {i \in from..Len(text) : text[i] = token}
           m == Trace!NextToken(text, token, from)
<1>1. Len(text) \in Nat /\ T \subseteq Nat /\ T # {}
  OBVIOUS
<1>2. m \in T /\ \A j \in T : m <= j
  <2>1. PICK n \in T : \A j \in T : n <= j
    BY <1>1, LeastOfSet
  <2> QED  BY <2>1 DEF Trace!NextToken, Trace!Min
<1> HIDE DEF m
<1>3. m \in from..(Len(text) + 1) /\ (m <= Len(text) => text[m] = token)
  BY <1>1, <1>2
<1>4. \A j \in from..(m - 1) : text[j] # token
  BY <1>1, <1>2, <1>3
<1> QED  BY <1>3, <1>4 DEF m

\* Behind the end, nothing is found.
LEMMA NothingBehind ==
    ASSUME NEW U, NEW text \in Seq(U), NEW token
    PROVE  Trace!NextToken(text, token, Len(text) + 2) = Len(text) + 1
<1> DEFINE T == {Len(text) + 1} \cup {i \in (Len(text) + 2)..Len(text) : text[i] = token}
<1>1. Len(text) \in Nat /\ T = {Len(text) + 1}
  OBVIOUS
<1>2. Trace!Min({Len(text) + 1}) = Len(text) + 1
  BY <1>1 DEF Trace!Min
<1> QED  BY <1>1, <1>2 DEF Trace!NextToken

PlaceNames == {"code", "comment", "inner comment", "string", "dollar"}

\* The place of each token follows from that of the one before.
LEMMA PlacesFollow ==
    ASSUME NEW U, NEW text \in Seq(U)
    PROVE  /\ Trace!Places(text) \in [1..(Len(text) + 1) -> PlaceNames]
           /\ Trace!Places(text)[1] = "code"
           /\ \A i \in 1..Len(text) :
                 Trace!Places(text)[i + 1] = Trace!After(Trace!Places(text)[i], text[i])
<1> DEFINE top == Len(text) + 1
           step == [i \in 2..top |-> [v \in PlaceNames |-> Trace!After(v, text[i - 1])]]
           P == Trace!Places(text)
<1>1. top \in Nat /\ 1 \in 1..top
  OBVIOUS
<1>2. \A v \in PlaceNames : \A token : Trace!After(v, token) \in PlaceNames
  <2>1. SUFFICES ASSUME NEW token
                 PROVE  \A v \in PlaceNames : Trace!After(v, token) \in PlaceNames
    OBVIOUS
  <2>2. Trace!After("code", token) \in PlaceNames
    BY DEF PlaceNames, Trace!After
  <2>3. Trace!After("comment", token) \in PlaceNames
    BY DEF PlaceNames, Trace!After
  <2>4. Trace!After("inner comment", token) \in PlaceNames
    BY DEF PlaceNames, Trace!After
  <2>5. Trace!After("string", token) \in PlaceNames
    BY DEF PlaceNames, Trace!After
  <2>6. Trace!After("dollar", token) \in PlaceNames
    BY DEF PlaceNames, Trace!After
  <2> QED  BY <2>2, <2>3, <2>4, <2>5, <2>6 DEF PlaceNames
<1>3. \A i \in 2..top : \A v \in PlaceNames : step[i][v] \in PlaceNames
  BY <1>2
<1> HIDE DEF step
<1>4. PICK f \in [1..top -> PlaceNames] :
         \A i \in 1..top : f[i] = IF i = 1 THEN "code" ELSE step[i][f[i - 1]]
  <2>1. "code" \in PlaceNames
    BY DEF PlaceNames
  <2>2. top \in Nat
    BY <1>1
  <2> HIDE DEF top
  <2>3. \E f : f \in Unfoldings(top, PlaceNames, "code", step)
    BY <1>3, <2>1, <2>2, Unfolds
  <2> QED  BY <2>3 DEF Unfoldings
<1>5. f = [i \in 1..(Len(text) + 1) |->
             IF i = 1 THEN "code" ELSE Trace!After(f[i - 1], text[i - 1])]
  <2>1. \A i \in 2..top : step[i][f[i - 1]] = Trace!After(f[i - 1], text[i - 1])
    <3>1. \A i \in 2..top : i - 1 \in 1..top
      OBVIOUS
    <3> QED  BY <1>4, <3>1 DEF step
  <2>2. \A i \in 1..top : f[i] = IF i = 1 THEN "code" ELSE Trace!After(f[i - 1], text[i - 1])
    <3>1. \A i \in 1..top : f[i] = IF i = 1 THEN "code" ELSE step[i][f[i - 1]]
      BY <1>4
    <3>2. \A i \in 1..top : i # 1 => i \in 2..top
      OBVIOUS
    <3> QED  BY <2>1, <3>1, <3>2
  <2> QED  BY <1>4, <2>2
<1>6. P = [i \in 1..(Len(text) + 1) |->
             IF i = 1 THEN "code" ELSE Trace!After(P[i - 1], text[i - 1])]
  BY <1>5, Zenon DEF Trace!Places
<1> HIDE DEF P
<1>7. \A i \in 1..top : P[i] = IF i = 1 THEN "code" ELSE Trace!After(P[i - 1], text[i - 1])
  BY <1>6
<1>8. P[1] = "code"
  BY <1>1, <1>7
<1>9. \A i \in 1..Len(text) : P[i + 1] = Trace!After(P[i], text[i])
  <2>1. SUFFICES ASSUME NEW i \in 1..Len(text) PROVE P[i + 1] = Trace!After(P[i], text[i])
    OBVIOUS
  <2>2. i + 1 \in 1..top /\ i + 1 # 1 /\ (i + 1) - 1 = i
    OBVIOUS
  <2> QED  BY <1>7, <2>2
<1>10. P \in [1..top -> PlaceNames]
  <2> DEFINE S == {n \in Nat : n = 0 \/ P[n] \in PlaceNames}
  <2>1. \A n \in 0..top : n \in S /\ n < top => n + 1 \in S
    <3>1. SUFFICES ASSUME NEW n \in 0..top, n \in S, n < top PROVE n + 1 \in S
      OBVIOUS
    <3>2. CASE n = 0
      <4>1. P[n + 1] \in PlaceNames
        <5>1. n + 1 = 1
          BY <3>2
        <5> QED  BY <1>8, <5>1 DEF PlaceNames
      <4> QED  BY <4>1
    <3>3. CASE n # 0
      <4>1. P[n] \in PlaceNames /\ n \in 1..Len(text)
        BY <3>1, <3>3
      <4>2. P[n + 1] \in PlaceNames
        BY <1>2, <1>9, <4>1
      <4> QED  BY <4>2
    <3> QED  BY <3>2, <3>3
  <2>2. 0 \in S
    OBVIOUS
  <2>3. \A i \in 1..top : P[i] \in PlaceNames
    <3>1. SUFFICES ASSUME NEW i \in 1..top PROVE P[i] \in PlaceNames
      OBVIOUS
    <3>2. i \in Nat /\ \A n \in 0..i : n \in S /\ n < i => n + 1 \in S
      BY <1>1, <2>1
    <3>3. i \in S
      <4> HIDE DEF S
      <4> QED  BY <2>2, <3>2, HoldsUpTo
    <3> QED  BY <3>3
  <2> QED  BY <1>6, <2>3
<1> QED  BY <1>8, <1>9, <1>10 DEF P

\* No place is in a comment before a mark that opens one.
LEMMA NoCommentUnopened ==
    ASSUME NEW U, NEW text \in Seq(U), NEW c \in 1..(Len(text) + 1),
           NEW d \in c..(Len(text) + 1), Trace!Places(text)[c] = "code",
           \A j \in c..(d - 1) : text[j] # "/*"
    PROVE  Trace!Places(text)[d] \notin {"comment", "inner comment"}
<1> DEFINE P == Trace!Places(text)
           Q == PlaceNames \ {"comment", "inner comment"}
<1>1. P \in [1..(Len(text) + 1) -> PlaceNames]
      /\ \A i \in 1..Len(text) : P[i + 1] = Trace!After(P[i], text[i])
  BY PlacesFollow
<1> HIDE DEF P
<1>2. P[c] \in Q
  BY DEF PlaceNames, P
<1>3. \A j \in c..(d - 1) : P[j] \in Q => P[j + 1] \in Q
  <2>1. SUFFICES ASSUME NEW j \in c..(d - 1), P[j] \in Q PROVE P[j + 1] \in Q
    OBVIOUS
  <2>2. j \in 1..Len(text) /\ text[j] # "/*"
    OBVIOUS
  <2>3. P[j + 1] = Trace!After(P[j], text[j])
    BY <1>1, <2>2
  <2> QED  BY <2>1, <2>2, <2>3 DEF PlaceNames, Trace!After
<1>4. c \in Nat /\ d \in Nat /\ c <= d
  OBVIOUS
<1>5. P[d] \in Q
  <2> HIDE DEF Q
  <2> QED  BY <1>2, <1>3, <1>4, Lasts
<1> QED  BY <1>5 DEF P

\* A comment in a plain text goes on to the mark that closes one.
LEMMA CommentLasts ==
    ASSUME NEW U, NEW text \in Seq(U), Trace!IsPlain(text), NEW c \in 1..(Len(text) + 1),
           NEW d \in c..(Len(text) + 1), Trace!Places(text)[c] = "comment",
           \A j \in c..(d - 1) : text[j] # "*/"
    PROVE  Trace!Places(text)[d] = "comment"
<1> DEFINE P == Trace!Places(text)
<1>1. \A i \in 1..Len(text) : P[i + 1] = Trace!After(P[i], text[i])
  BY PlacesFollow
<1>2. \A i \in 1..Len(text) : text[i] = "/*" => P[i] = "code"
  BY DEF Trace!IsPlain
<1> HIDE DEF P
<1>3. \A j \in c..(d - 1) : P[j] \in {"comment"} => P[j + 1] \in {"comment"}
  <2>1. SUFFICES ASSUME NEW j \in c..(d - 1), P[j] = "comment" PROVE P[j + 1] = "comment"
    OBVIOUS
  <2>2. j \in 1..Len(text) /\ text[j] # "*/"
    OBVIOUS
  <2>3. text[j] # "/*"
    BY <1>2, <2>1, <2>2
  <2>4. P[j + 1] = Trace!After(P[j], text[j])
    BY <1>1, <2>2
  <2> QED  BY <2>1, <2>2, <2>3, <2>4 DEF Trace!After
<1>4. c \in Nat /\ d \in Nat /\ c <= d /\ P[c] \in {"comment"}
  BY DEF P
<1>5. P[d] \in {"comment"}
  BY <1>3, <1>4, Lasts
<1> QED  BY <1>5 DEF P

CommentedFrom(text, c) == {i \in Trace!Commented(text) : c <= i}

\* The last mark at or before a place in a comment is the one that opened it.
LEMMA OpensAt ==
    ASSUME NEW U, NEW text \in Seq(U), Trace!IsPlain(text), NEW open \in 1..Len(text),
           NEW i \in open..Len(text), text[open] = "/*",
           \A j \in (open + 1)..i : Trace!Places(text)[j] = "comment"
    PROVE  Trace!Max({j \in 1..i : text[j] = "/*" /\ Trace!Places(text)[j] = "code"}) = open
<1> DEFINE J == {j \in 1..i : text[j] = "/*" /\ Trace!Places(text)[j] = "code"}
<1>1. open \in J
  BY DEF Trace!IsPlain
<1>2. \A j \in J : j <= open
  <2>1. SUFFICES ASSUME NEW j \in J, ~(j <= open) PROVE FALSE
    OBVIOUS
  <2>2. j \in (open + 1)..i
    BY <2>1
  <2> QED  BY <2>1, <2>2
<1>3. J \subseteq Nat
  OBVIOUS
<1> HIDE DEF J
<1>4. \A x \in J : (\A y \in J : x >= y) <=> x = open
  BY <1>1, <1>2, <1>3
<1>5. Trace!Max(J) = open
  BY <1>1, <1>4 DEF Trace!Max
<1> QED  BY <1>5 DEF J

\* What a position must be like for the value behind it to be commented, as long as the
\* position is in the comment that opens at a given one.
LEMMA CommentedInComment ==
    ASSUME NEW U, NEW text \in Seq(U), Trace!IsPlain(text), NEW open \in 1..Len(text),
           NEW i \in (open + 1)..Len(text), text[open] = "/*",
           \A j \in (open + 1)..i : Trace!Places(text)[j] = "comment"
    PROVE  i \in Trace!Commented(text) <=>
              /\ i \in 1..(Len(text) - 2) /\ Trace!Places(text)[i + 2] = "comment"
              /\ text[i] = Trace!Key /\ text[i + 2] = Trace!Quote
              /\ \A j \in (open + 1)..(i - 1) : text[j] # Trace!Key
              /\ text[i + 1] \in DOMAIN Values
              /\ Trace!ParseTraceParentValue(Values[text[i + 1]]).found
<1> DEFINE Opens(k) == Trace!Max({j \in 1..k : text[j] = "/*" /\ Trace!Places(text)[j] = "code"})
<1>1. Opens(i) = open
  BY OpensAt
<1>2. i \in Trace!Commented(text) <=>
         /\ i \in 1..(Len(text) - 2)
         /\ Trace!Places(text)[i] = "comment" /\ Trace!Places(text)[i + 2] = "comment"
         /\ text[i] = Trace!Key /\ text[i + 2] = Trace!Quote
         /\ \A j \in (Opens(i) + 1)..(i - 1) : text[j] # Trace!Key
         /\ text[i + 1] \in DOMAIN Values
         /\ Trace!ParseTraceParentValue(Values[text[i + 1]]).found
  BY DEF Trace!Commented
<1> HIDE DEF Opens
<1> QED  BY <1>1, <1>2

\* The scan of one comment, from a place in the code on, finds just the value in it that
\* is commented, if there is one.
LEMMA OneComment ==
    ASSUME NEW U, NEW text \in Seq(U), Trace!IsPlain(text), Trace!IsStatement(text),
           NEW c \in 1..(Len(text) + 1), Trace!Places(text)[c] = "code"
    PROVE  LET open == Trace!NextToken(text, "/*", c)
               close == Trace!NextToken(text, "*/", open + 1)
               context == Trace!ContextInComment(text, open, close)
           IN  /\ close > Len(text) => CommentedFrom(text, c) = {}
               /\ close <= Len(text) =>
                     /\ close + 1 \in (c + 1)..(Len(text) + 1)
                     /\ Trace!Places(text)[close + 1] = "code"
                     /\ context.found =>
                           \E i \in CommentedFrom(text, c) :
                              /\ \A k \in CommentedFrom(text, c) : i <= k
                              /\ context = Trace!ParseTraceParentValue(Values[text[i + 1]])
                     /\ ~context.found => CommentedFrom(text, c) = CommentedFrom(text, close + 1)
<1> DEFINE N == Len(text)
           P == Trace!Places(text)
           open == Trace!NextToken(text, "/*", c)
           close == Trace!NextToken(text, "*/", open + 1)
           context == Trace!ContextInComment(text, open, close)
           hit == Trace!NextToken(text, Trace!Key, open + 1)
<1>1. /\ N \in Nat
      /\ \A i \in 1..N : P[i + 1] = Trace!After(P[i], text[i])
      /\ \A i \in 1..N : text[i] = "/*" => P[i] = "code"
      /\ P[N + 1] = "code"
  BY PlacesFollow DEF Trace!IsPlain, Trace!IsStatement
<1>2. /\ open \in c..(N + 1)
      /\ open <= N => text[open] = "/*"
      /\ \A j \in c..(open - 1) : text[j] # "/*"
  BY NextTokenProperties
<1>3. \A i \in Trace!Commented(text) : i \in 1..(N - 2) /\ P[i] = "comment" /\ P[i + 2] = "comment"
  BY DEF Trace!Commented
<1>4. \A i \in CommentedFrom(text, c) : i > open
  <2>1. SUFFICES ASSUME NEW i \in CommentedFrom(text, c), i <= open PROVE FALSE
    BY <1>1, <1>2, <1>3 DEF CommentedFrom
  <2>2. i \in c..(N + 1) /\ P[i] = "comment"
    BY <1>1, <1>3 DEF CommentedFrom
  <2>3. \A j \in c..(i - 1) : text[j] # "/*"
    BY <1>1, <1>2, <2>1, <2>2
  <2> HIDE DEF open
  <2> QED  BY <2>2, <2>3, NoCommentUnopened
<1> HIDE DEF open
<1>5. CASE open > N
  <2>1. open = N + 1 /\ open + 1 = N + 2
    <3>1. N \in Nat /\ open \in c..(N + 1) /\ c \in Nat
      BY <1>1, <1>2
    <3> HIDE DEF N
    <3> QED  BY <1>5, <3>1
  <2>2. close = N + 1
    BY <2>1, NothingBehind
  <2>3. CommentedFrom(text, c) = {}
    BY <1>1, <1>3, <1>4, <2>1 DEF CommentedFrom
  <2>4. close > N /\ ~(close <= N)
    BY <1>1, <2>2
  <2> HIDE DEF close, context
  <2> QED  BY <2>3, <2>4 DEF open, close, context
<1>6. CASE open <= N
  <2>1. open \in 1..N /\ open + 1 \in 1..(N + 1) /\ text[open] = "/*"
    BY <1>1, <1>2, <1>6
  <2>2. P[open + 1] = "comment"
    <3>1. P[open] = "code" /\ P[open + 1] = Trace!After(P[open], text[open])
      BY <1>1, <2>1
    <3> HIDE DEF P
    <3> QED  BY <2>1, <3>1 DEF Trace!After, Trace!Quote, Trace!Key
  <2>3. /\ close \in (open + 1)..(N + 1)
        /\ close <= N => text[close] = "*/"
        /\ \A j \in (open + 1)..(close - 1) : text[j] # "*/"
    BY <2>1, NextTokenProperties
  <2>4. /\ hit \in (open + 1)..(N + 1)
        /\ hit <= N => text[hit] = Trace!Key
        /\ \A j \in (open + 1)..(hit - 1) : text[j] # Trace!Key
    BY <2>1, NextTokenProperties
  <2> HIDE DEF close, hit
  <2>5. \A j \in (open + 1)..close : P[j] = "comment"
    <3>1. SUFFICES ASSUME NEW j \in (open + 1)..close PROVE P[j] = "comment"
      OBVIOUS
    <3>2. j \in (open + 1)..(N + 1) /\ \A k \in (open + 1)..(j - 1) : text[k] # "*/"
      BY <1>1, <2>1, <2>3
    <3> QED  BY <2>1, <2>2, <3>2, CommentLasts
  <2>6. close <= N
    <3>1. close = N + 1 => P[N + 1] = "comment"
      BY <2>3, <2>5
    <3>2. close # N + 1
      BY <1>1, <3>1
    <3>3. N \in Nat /\ open \in Nat /\ close \in (open + 1)..(N + 1)
      BY <1>1, <2>1, <2>3
    <3> HIDE DEF N
    <3> QED  BY <3>2, <3>3
  <2>7. close \in 1..N /\ text[close] = "*/" /\ P[close + 1] = "code"
    <3>1. close \in 1..N /\ close \in (open + 1)..close
      BY <1>1, <2>1, <2>3, <2>6
    <3> QED  BY <1>1, <2>3, <2>5, <2>6, <3>1 DEF Trace!After
  <2>8. ASSUME NEW i \in CommentedFrom(text, c), i <= close
        PROVE  /\ i = hit /\ context.found
               /\ context = Trace!ParseTraceParentValue(Values[text[i + 1]])
    <3>1. i \in Trace!Commented(text) /\ i \in 1..(N - 2) /\ i \in (open + 1)..close
      BY <1>1, <1>3, <1>4, <2>1, <2>7, <2>8 DEF CommentedFrom
    <3>2. i \in (open + 1)..N /\ \A j \in (open + 1)..i : P[j] = "comment"
      BY <1>1, <2>1, <2>5, <2>7, <3>1
    <3>3. /\ P[i + 2] = "comment"
          /\ text[i] = Trace!Key /\ text[i + 2] = Trace!Quote
          /\ \A j \in (open + 1)..(i - 1) : text[j] # Trace!Key
          /\ text[i + 1] \in DOMAIN Values
          /\ Trace!ParseTraceParentValue(Values[text[i + 1]]).found
      BY <2>1, <3>1, <3>2, CommentedInComment
    <3>4. hit = i
      <4>1. ~(hit < i)
        BY <1>1, <2>1, <2>4, <3>1, <3>3
      <4>2. ~(i < hit)
        BY <1>1, <2>1, <2>4, <3>1, <3>3
      <4> QED  BY <1>1, <2>1, <2>4, <3>1, <4>1, <4>2
    <3>5. i + 1 + 1 < close
      <4>1. i # close /\ i + 2 # close
        BY <2>7, <3>3 DEF Trace!Key, Trace!Quote
      <4>2. i + 1 # close
        <5>1. i + 1 = close => i + 2 = close + 1
          BY <3>1
        <5> QED  BY <2>7, <3>3, <5>1
      <4> QED  BY <2>7, <3>1, <4>1, <4>2
    <3>6. Values[text[i + 1]].length = 55
      BY <3>3 DEF Trace!ParseTraceParentValue, Trace!NoContext
    <3>7. i < close /\ i + 1 + 1 = i + 2
      BY <2>7, <3>1, <3>5
    <3>8. context = Trace!ValueAt(text, i + 1, close)
      BY <3>4, <3>7 DEF Trace!ContextInComment, hit
    <3>9. Trace!ValueAt(text, i + 1, close) = Trace!ParseTraceParentValue(Values[text[i + 1]])
      BY <3>3, <3>5, <3>6, <3>7 DEF Trace!ValueAt
    <3> QED  BY <3>3, <3>4, <3>8, <3>9
  <2>9. ASSUME context.found
        PROVE  /\ hit \in CommentedFrom(text, c) /\ hit <= close
    <3>1. ~Trace!NoContext.found
      BY DEF Trace!NoContext
    <3>2. hit < close /\ context = Trace!ValueAt(text, hit + 1, close)
      BY <2>9, <3>1 DEF Trace!ContextInComment, hit
    <3>3. /\ hit + 1 + 1 < close
          /\ text[hit + 1] \in DOMAIN Values /\ text[hit + 1 + 1] = Trace!Quote
          /\ Trace!ParseTraceParentValue(Values[text[hit + 1]]).found
      BY <2>9, <3>1, <3>2 DEF Trace!ValueAt
    <3>4. /\ hit \in 1..(N - 2) /\ hit + 1 + 1 = hit + 2 /\ hit \in (open + 1)..N
          /\ hit + 2 \in (open + 1)..close
          /\ \A j \in (open + 1)..hit : j \in (open + 1)..close
      BY <1>1, <2>1, <2>4, <2>7, <3>3
    <3>5. P[hit + 2] = "comment" /\ \A j \in (open + 1)..hit : P[j] = "comment"
      BY <2>5, <3>4
    <3>6. text[hit] = Trace!Key
      BY <2>4, <3>4
    <3>7. hit \in Trace!Commented(text)
      BY <2>1, <2>4, <3>3, <3>4, <3>5, <3>6, CommentedInComment
    <3>8. c <= hit /\ hit <= close
      BY <1>1, <1>2, <2>1, <2>7, <3>2, <3>4
    <3> QED  BY <3>7, <3>8 DEF CommentedFrom
  <2>10. \A i \in CommentedFrom(text, c) : i \in Nat
    BY <1>1, <1>3 DEF CommentedFrom
  <2>11. close + 1 \in (c + 1)..(N + 1)
    BY <1>1, <1>2, <2>1, <2>3, <2>7
  <2> HIDE DEF context
  <2>12. context.found =>
            \E i \in CommentedFrom(text, c) :
               /\ \A k \in CommentedFrom(text, c) : i <= k
               /\ context = Trace!ParseTraceParentValue(Values[text[i + 1]])
    <3>1. SUFFICES ASSUME context.found
                   PROVE  /\ \A k \in CommentedFrom(text, c) : hit <= k
                          /\ context = Trace!ParseTraceParentValue(Values[text[hit + 1]])
      BY <2>9
    <3>2. \A k \in CommentedFrom(text, c) : k <= close => k = hit
      BY <2>8
    <3>3. \A k \in CommentedFrom(text, c) : hit <= k
      BY <2>4, <2>7, <2>9, <2>10, <3>1, <3>2
    <3> QED  BY <2>8, <2>9, <3>1, <3>3
  <2>13. ~context.found => CommentedFrom(text, c) = CommentedFrom(text, close + 1)
    <3>1. SUFFICES ASSUME ~context.found
                   PROVE  CommentedFrom(text, c) = CommentedFrom(text, close + 1)
      OBVIOUS
    <3>2. \A i \in CommentedFrom(text, c) : close + 1 <= i
      BY <2>7, <2>8, <2>10, <3>1
    <3>3. \A i \in CommentedFrom(text, close + 1) : c <= i
      BY <1>1, <1>3, <2>11 DEF CommentedFrom
    <3> QED  BY <3>2, <3>3 DEF CommentedFrom
  <2>14. ~(close > N)
    BY <1>1, <2>6, <2>7
  <2> QED  BY <2>7, <2>11, <2>12, <2>13, <2>14 DEF open, close, context
<1> QED  BY <1>1, <1>2, <1>5, <1>6

\* What PostgreSQL would call commented first, from a position on
FirstCommentedFrom(text, c) ==
    IF CommentedFrom(text, c) = {} THEN Trace!NoContext
    ELSE Trace!ParseTraceParentValue(Values[text[Trace!Min(CommentedFrom(text, c)) + 1]])

\* The least member of a set of numbers is its minimum.
LEMMA LeastIsMin ==
    ASSUME NEW T, T \subseteq Nat, NEW i \in T, \A k \in T : i <= k
    PROVE  Trace!Min(T) = i
<1>1. \A x \in T : (\A y \in T : x <= y) <=> x = i
  OBVIOUS
<1> QED  BY <1>1 DEF Trace!Min

\* The comment mark that ends a scan lies behind its start.
LEMMA CloseIsBehind ==
    ASSUME NEW U, NEW text \in Seq(U), NEW c \in 1..(Len(text) + 1)
    PROVE  LET close == Trace!NextToken(text, "*/", Trace!NextToken(text, "/*", c) + 1) IN
           /\ close \in Nat
           /\ ~(close > Len(text)) => close + 1 \in (c + 1)..(Len(text) + 1)
<1> DEFINE open == Trace!NextToken(text, "/*", c)
           close == Trace!NextToken(text, "*/", open + 1)
<1>1. Len(text) \in Nat /\ open \in c..(Len(text) + 1)
  BY NextTokenProperties
<1> HIDE DEF open
<1>2. CASE open = Len(text) + 1
  <2>1. open + 1 = Len(text) + 2
    BY <1>1, <1>2
  <2>2. close = Len(text) + 1
    BY <2>1, NothingBehind
  <2> HIDE DEF close
  <2> QED  BY <1>1, <2>2 DEF open, close
<1>3. CASE open # Len(text) + 1
  <2>1. open + 1 \in 1..(Len(text) + 1)
    BY <1>1, <1>3
  <2>2. close \in (open + 1)..(Len(text) + 1)
    BY <2>1, NextTokenProperties
  <2> HIDE DEF close
  <2>3. close \in Nat /\ (~(close > Len(text)) => close + 1 \in (c + 1)..(Len(text) + 1))
    BY <1>1, <2>1, <2>2
  <2> QED  BY <2>3 DEF open, close
<1> QED  BY <1>2, <1>3

\* The scan is a function of the position it has reached.
LEMMA ScanFollows ==
    ASSUME NEW U, NEW text \in Seq(U), Trace!IsPlain(text), Trace!IsStatement(text)
    PROVE  \E scan :
              /\ Trace!ParseTraceParentFromQuery(text) = scan[1]
              /\ \A c \in 1..(Len(text) + 1) :
                    LET open == Trace!NextToken(text, "/*", c)
                        close == Trace!NextToken(text, "*/", open + 1)
                        context == Trace!ContextInComment(text, open, close)
                    IN  Trace!Places(text)[c] = "code" =>
                          scan[c] = IF close > Len(text) THEN Trace!NoContext
                                    ELSE IF context.found THEN context ELSE scan[close + 1]
<1> DEFINE top == Len(text) + 1
           Open(c) == Trace!NextToken(text, "/*", c)
           Close(c) == Trace!NextToken(text, "*/", Open(c) + 1)
           Context(c) == Trace!ContextInComment(text, Open(c), Close(c))
           Stops == {c \in 1..top : Close(c) > Len(text) \/ Context(c).found}
           here == [c \in 1..top |-> IF Close(c) > Len(text) THEN Trace!NoContext ELSE Context(c)]
           next == [c \in 1..top |-> Close(c) + 1]
           IsScan(scan) == scan = [c \in 1..top |->
                              IF Close(c) > Len(text) THEN Trace!NoContext
                              ELSE IF Context(c).found THEN Context(c) ELSE scan[Close(c) + 1]]
<1>1. \A c \in 1..top : c \notin Stops => next[c] \in (c + 1)..top
  <2> HIDE DEF Close
  <2> QED  BY CloseIsBehind DEF Close
<1>2. PICK f : /\ f = [c \in 1..top |-> f[c]]
               /\ \A c \in 1..top : f[c] = IF c \in Stops THEN here[c] ELSE f[next[c]]
  <2>1. top \in Nat
    OBVIOUS
  <2> HIDE DEF top, Stops, here, next
  <2>2. \E f : Leads(f, top, Stops, here, next)
    BY <1>1, <2>1, LeadsBehind
  <2> QED  BY <2>2 DEF Leads
<1>3. IsScan(f)
  <2>1. \A c \in 1..top :
           f[c] = IF Close(c) > Len(text) THEN Trace!NoContext
                  ELSE IF Context(c).found THEN Context(c) ELSE f[Close(c) + 1]
    <3> HIDE DEF top, Close, Context
    <3> QED  BY <1>2
  <2> HIDE DEF top, Close, Context
  <2> QED  BY <1>2, <2>1
<1> DEFINE scan == CHOOSE scan : IsScan(scan)
<1>4. IsScan(scan)
  <2> HIDE DEF IsScan
  <2> QED  BY <1>3
<1>5. Trace!ParseTraceParentFromQuery(text) = scan[1]
  BY Zenon DEF Trace!ParseTraceParentFromQuery
<1> HIDE DEF scan
<1>6. \A c \in 1..top :
         scan[c] = IF Close(c) > Len(text) THEN Trace!NoContext
                   ELSE IF Context(c).found THEN Context(c) ELSE scan[Close(c) + 1]
  <2> HIDE DEF Close, Context
  <2> QED  BY <1>4
<1> QED  BY <1>5, <1>6

\* In a statement all of whose comment marks are ones, the scan finds what is commented.
LEMMA ScanFindsCommented ==
    ASSUME NEW U, NEW text \in Seq(U), Trace!IsPlain(text), Trace!IsStatement(text)
    PROVE  Trace!ParseTraceParentFromQuery(text) = Trace!FirstCommented(text)
<1> DEFINE top == Len(text) + 1
           Open(c) == Trace!NextToken(text, "/*", c)
           Close(c) == Trace!NextToken(text, "*/", Open(c) + 1)
           Context(c) == Trace!ContextInComment(text, Open(c), Close(c))
<1>1. PICK scan :
         /\ Trace!ParseTraceParentFromQuery(text) = scan[1]
         /\ \A c \in 1..top :
               Trace!Places(text)[c] = "code" =>
                  scan[c] = IF Close(c) > Len(text) THEN Trace!NoContext
                            ELSE IF Context(c).found THEN Context(c) ELSE scan[Close(c) + 1]
  BY ScanFollows
<1> DEFINE G == {c \in 1..top : Trace!Places(text)[c] = "code" => scan[c] = FirstCommentedFrom(text, c)}
<1>2. top \in Nat /\ 1 \in 1..top
  OBVIOUS
<1>3. Trace!Commented(text) \subseteq 1..(Len(text) - 2)
  BY DEF Trace!Commented
<1>4. ASSUME NEW c \in 1..top, \A d \in (c + 1)..top : d \in G
      PROVE  c \in G
  <2>1. SUFFICES ASSUME Trace!Places(text)[c] = "code"
                 PROVE  scan[c] = FirstCommentedFrom(text, c)
    OBVIOUS
  <2>2. /\ Close(c) > Len(text) => CommentedFrom(text, c) = {}
        /\ ~(Close(c) > Len(text)) =>
              /\ Close(c) + 1 \in (c + 1)..top
              /\ Trace!Places(text)[Close(c) + 1] = "code"
              /\ Context(c).found =>
                    \E i \in CommentedFrom(text, c) :
                       /\ \A k \in CommentedFrom(text, c) : i <= k
                       /\ Context(c) = Trace!ParseTraceParentValue(Values[text[i + 1]])
              /\ ~Context(c).found => CommentedFrom(text, c) = CommentedFrom(text, Close(c) + 1)
    <3>1. ~(Close(c) > Len(text)) => Close(c) <= Len(text)
      <4>1. Close(c) \in Nat
        BY CloseIsBehind
      <4> HIDE DEF Close
      <4> QED  BY <4>1
    <3> QED  BY <2>1, <3>1, OneComment
  <2> HIDE DEF Close, Context
  <2>3. CASE Close(c) > Len(text)
    BY <1>1, <2>1, <2>2, <2>3 DEF FirstCommentedFrom
  <2>4. CASE ~(Close(c) > Len(text)) /\ Context(c).found
    <3>1. PICK i \in CommentedFrom(text, c) :
             /\ \A k \in CommentedFrom(text, c) : i <= k
             /\ Context(c) = Trace!ParseTraceParentValue(Values[text[i + 1]])
      BY <2>2, <2>4
    <3>2. CommentedFrom(text, c) \subseteq Nat
      BY <1>3 DEF CommentedFrom
    <3>3. Trace!Min(CommentedFrom(text, c)) = i
      BY <3>1, <3>2, LeastIsMin
    <3> QED  BY <1>1, <2>1, <2>4, <3>1, <3>3 DEF FirstCommentedFrom
  <2>5. CASE ~(Close(c) > Len(text)) /\ ~Context(c).found
    <3>1. scan[Close(c) + 1] = FirstCommentedFrom(text, Close(c) + 1)
      BY <1>4, <2>2, <2>5
    <3>2. CommentedFrom(text, c) = CommentedFrom(text, Close(c) + 1)
      BY <2>2, <2>5
    <3>3. scan[c] = scan[Close(c) + 1]
      BY <1>1, <2>1, <2>5
    <3> QED  BY <3>1, <3>2, <3>3 DEF FirstCommentedFrom
  <2> QED  BY <2>3, <2>4, <2>5
<1>5. \A c \in 1..top : c \in G
  <2> HIDE DEF G, top
  <2> QED  BY <1>2, <1>4, Descent
<1>6. Trace!Places(text)[1] = "code"
  BY PlacesFollow
<1>7. scan[1] = FirstCommentedFrom(text, 1)
  <2> HIDE DEF top
  <2> QED  BY <1>2, <1>5, <1>6
<1>8. CommentedFrom(text, 1) = Trace!Commented(text)
  BY <1>3 DEF CommentedFrom
<1> QED  BY <1>1, <1>7, <1>8 DEF FirstCommentedFrom, Trace!FirstCommented

\* Texts are put together from words, one after the other, and are sequences of tokens.
IsFlattening(f, parts) ==
    /\ f[0] = <<>>
    /\ \A i \in 1..Len(parts) : f[i] = f[i - 1] \o parts[i]
    /\ f[Len(parts)] = FlattenSeq(parts)

LEMMA Flattens ==
    ASSUME NEW T, NEW words \in Seq(Seq(T))
    PROVE  \E f : IsFlattening(f, words) /\ \A i \in 0..Len(words) : f[i] \in Seq(T)
<1> DEFINE top == Len(words)
           step == [i \in 2..top |-> [v \in Seq(T) |-> v \o words[i]]]
           IsFlat(f) == f = [i \in 1..top |-> IF i = 1 THEN words[i] ELSE f[i - 1] \o words[i]]
<1>1. top \in Nat /\ \A i \in 1..top : words[i] \in Seq(T)
  OBVIOUS
<1>2. CASE top = 0
  <2>1. FlattenSeq(words) = words
    BY <1>2 DEF FlattenSeq
  <2>2. words = <<>> /\ 1..top = {} /\ \A i \in 0..top : i = 0
    BY <1>2
  <2> DEFINE f == [i \in 0..0 |-> <<>>]
  <2>3. f[0] = <<>> /\ f[0] \in Seq(T)
    OBVIOUS
  <2> HIDE DEF f
  <2>4. IsFlattening(f, words)
    BY <1>2, <2>1, <2>2, <2>3 DEF IsFlattening
  <2> QED  BY <2>2, <2>3, <2>4
<1>3. CASE top # 0
  <2>1. \A i \in 2..top : \A v \in Seq(T) : step[i][v] \in Seq(T)
    <3>1. SUFFICES ASSUME NEW i \in 2..top, NEW v \in Seq(T) PROVE v \o words[i] \in Seq(T)
      OBVIOUS
    <3>2. words[i] \in Seq(T)
      BY <1>1
    <3> HIDE DEF top
    <3> QED  BY <3>2, ConcatProperties
  <2>2. 1 \in 1..top /\ words[1] \in Seq(T)
    BY <1>1, <1>3
  <2>3. PICK f : f \in Unfoldings(top, Seq(T), words[1], step)
    <3> HIDE DEF top, step
    <3> QED  BY <1>1, <2>1, <2>2, Unfolds
  <2>4. /\ f \in [1..top -> Seq(T)]
        /\ \A i \in 1..top : f[i] = IF i = 1 THEN words[1] ELSE step[i][f[i - 1]]
    <3> HIDE DEF top, step
    <3> QED  BY <2>3 DEF Unfoldings
  <2>5. \A i \in 2..top : step[i][f[i - 1]] = f[i - 1] \o words[i]
    <3>1. \A i \in 2..top : i - 1 \in 1..top
      OBVIOUS
    <3>2. \A i \in 2..top : f[i - 1] \in Seq(T)
      <4> HIDE DEF top, step
      <4> QED  BY <2>4, <3>1
    <3> HIDE DEF top
    <3> QED  BY <3>2
  <2> HIDE DEF step
  <2>6. \A i \in 1..top : f[i] = IF i = 1 THEN words[i] ELSE f[i - 1] \o words[i]
    <3>1. \A i \in 1..top : i # 1 => i \in 2..top
      OBVIOUS
    <3> HIDE DEF top
    <3> QED  BY <2>4, <2>5, <3>1
  <2>7. IsFlat(f)
    <3> HIDE DEF top
    <3> QED  BY <2>4, <2>6
  <2> DEFINE flat == CHOOSE flat : IsFlat(flat)
  <2>8. IsFlat(flat)
    <3> HIDE DEF IsFlat
    <3> QED  BY <2>7
  <2>9. FlattenSeq(words) = flat[top]
    BY <1>3, Zenon DEF FlattenSeq
  <2> HIDE DEF flat
  <2>10. \A i \in 1..top : flat[i] = IF i = 1 THEN words[i] ELSE flat[i - 1] \o words[i]
    <3> HIDE DEF top
    <3> QED  BY <2>8
  <2>11. \A i \in 1..top : flat[i] \in Seq(T)
    <3> DEFINE G == {j \in 1..top : flat[j] \in Seq(T)}
               S == {n \in Nat : n < top => n + 1 \in G}
    <3>1. 0 \in S
      BY <1>1, <2>2, <2>10
    <3>2. ASSUME NEW n \in 0..top, n \in S, n < top
          PROVE  n + 1 \in S
      <4>1. CASE ~(n + 1 < top)
        BY <4>1
      <4>2. CASE n + 1 < top
        <5> DEFINE j == n + 1
                   k == n + 2
        <5>1. j \in 1..top /\ k \in 1..top /\ k # 1 /\ k - 1 = j /\ k = n + 1 + 1
          BY <4>2
        <5>2. flat[j] \in Seq(T)
          BY <3>2
        <5> HIDE DEF j, k, top
        <5>3. flat[k] = flat[j] \o words[k] /\ words[k] \in Seq(T)
          BY <1>1, <2>10, <5>1
        <5>4. flat[k] \in Seq(T)
          BY <5>2, <5>3, ConcatProperties
        <5> QED  BY <5>1, <5>4
      <4> QED  BY <4>1, <4>2
    <3>3. ASSUME NEW i \in 1..top
          PROVE  flat[i] \in Seq(T)
      <4> DEFINE n == i - 1
      <4>1. n \in Nat /\ n <= top /\ n < top /\ n + 1 = i
        BY <1>1
      <4> HIDE DEF S, n
      <4>2. \A m \in 0..n : m \in S /\ m < n => m + 1 \in S
        <5>1. n \in Nat /\ n < top /\ top \in Nat
          BY <1>1, <4>1
        <5> HIDE DEF top
        <5>2. ASSUME NEW m \in 0..n, m \in S, m < n
              PROVE  m + 1 \in S
          <6>1. m \in 0..top /\ m < top
            BY <5>1, <5>2
          <6> QED  BY <3>2, <5>2, <6>1
        <5> QED  BY <5>2
      <4>3. n \in S
        BY <3>1, <4>1, <4>2, HoldsUpTo
      <4> QED  BY <4>1, <4>3 DEF S
    <3> QED  BY <3>3
  <2> DEFINE f0 == [i \in 0..top |-> IF i = 0 THEN <<>> ELSE flat[i]]
  <2>12. /\ f0[0] = <<>> /\ \A i \in 1..top : f0[i] = flat[i]
         /\ \A i \in 0..top : i = 0 \/ i \in 1..top
    BY <1>1
  <2>13. top \in 1..top
    BY <1>1, <1>3
  <2> HIDE DEF f0
  <2>14. ASSUME NEW i \in 1..top
         PROVE  f0[i] = f0[i - 1] \o words[i]
    <3>1. CASE i = 1
      <4>1. i - 1 = 0 /\ f0[i - 1] = <<>> /\ words[i] \in Seq(T)
        BY <1>1, <2>12, <3>1
      <4>2. <<>> \o words[i] = words[i]
        BY <4>1, ConcatEmptySeq
      <4> QED  BY <2>10, <2>12, <3>1, <4>1, <4>2
    <3>2. CASE i # 1
      <4>1. i - 1 \in 1..top
        BY <3>2
      <4> HIDE DEF top
      <4> QED  BY <2>10, <2>12, <3>2, <4>1
    <3> QED  BY <3>1, <3>2
  <2> HIDE DEF top
  <2>15. \A i \in 0..top : f0[i] \in Seq(T)
    <3>1. f0[0] \in Seq(T)
      <4>1. <<>> \in Seq(T)
        OBVIOUS
      <4> QED  BY <2>12, <4>1
    <3> QED  BY <2>11, <2>12, <3>1
  <2>16. f0[top] = FlattenSeq(words)
    BY <2>9, <2>12, <2>13
  <2>17. IsFlattening(f0, words)
    BY <2>12, <2>14, <2>16 DEF IsFlattening, top
  <2> QED  BY <2>15, <2>17 DEF top
<1> QED  BY <1>2, <1>3

LEMMA WordsAreText ==
    ASSUME NEW T, NEW words \in Seq(Seq(T))
    PROVE  FlattenSeq(words) \in Seq(T)
<1>1. PICK f : IsFlattening(f, words) /\ \A i \in 0..Len(words) : f[i] \in Seq(T)
  BY Flattens
<1>2. Len(words) \in 0..Len(words)
  OBVIOUS
<1> QED  BY <1>1, <1>2 DEF IsFlattening

\* A statement of any length is traced with the context that PostgreSQL itself would call
\* commented, as long as every comment mark in it is one.
THEOREM TraceParentsAreCommented == Spec => []TraceParentIsCommented
<1>1. Init => TraceParentIsCommented
  BY DEF Init, NoCall, TraceParentIsCommented
<1>2. ASSUME TraceParentIsCommented, [Next]_vars
      PROVE  TraceParentIsCommented'
  <2>1. CASE FindTraceParent
    <3>1. PICK words \in Strings(Words, MaxText) :
             Call("traceparent", FlattenSeq(words),
                  Trace!ParseTraceParentFromQuery(FlattenSeq(words)))
      BY <2>1 DEF FindTraceParent
    <3> DEFINE text == FlattenSeq(words)
               T == Trace!Marks \cup DOMAIN Values
    <3>2. text \in Seq(T)
      <4>1. PICK n \in 0..MaxText : words \in [1..n -> Words]
        BY DEF Strings
      <4>2. n \in Nat /\ Words \subseteq Seq(T)
        BY ConversionsAssumption
      <4> HIDE DEF T
      <4>3. words \in Seq(Seq(T))
        BY <4>1, <4>2
      <4> QED  BY <4>3, WordsAreText
    <3> HIDE DEF text, T
    <3>3. call'.arguments = text /\ result' = Trace!ParseTraceParentFromQuery(text)
      BY <3>1 DEF Call, text
    <3>4. Trace!IsStatement(text) /\ Trace!IsPlain(text) => result' = Trace!FirstCommented(text)
      BY <3>2, <3>3, ScanFindsCommented
    <3> QED  BY <3>3, <3>4 DEF TraceParentIsCommented
  <2>2. CASE \/ ParseUrl \/ DescribePlan \/ SummariseWorkers \/ PlaceSpans
             \/ Serialize \/ Return
    <3>1. call'.function # "traceparent"
      BY <2>2 DEF ParseUrl, DescribePlan, SummariseWorkers, PlaceSpans, Serialize,
                  Return, Call, NoCall
    <3> QED  BY <3>1 DEF TraceParentIsCommented
  <2>3. CASE UNCHANGED vars
    BY <1>2, <2>3 DEF vars, TraceParentIsCommented
  <2> QED  BY <1>2, <2>1, <2>2, <2>3 DEF Next
<1> QED  BY <1>1, <1>2, PTL DEF Spec

-----------------------------------------------------------------------------
\* The greatest of some numbers, which a fold takes out first.
Greatest(s) == CHOOSE x \in s : \A y \in s : x >= y

LEMMA GreatestOfSet ==
    ASSUME NEW n \in Nat, NEW s \in SUBSET (1..n), s # {}
    PROVE  Greatest(s) \in s /\ \A y \in s : y <= Greatest(s)
<1> DEFINE T == {j \in 0..n : \E x \in s : j = n - x}
<1>1. PICK x \in s : TRUE
  OBVIOUS
<1>2. \A y \in s : n - y \in T
  OBVIOUS
<1>3. T \subseteq Nat /\ T # {}
  <2>1. T \subseteq Nat
    OBVIOUS
  <2> HIDE DEF T
  <2> QED  BY <1>1, <1>2, <2>1
<1>4. PICK j \in T : \A i \in T : j <= i
  <2> HIDE DEF T
  <2> QED  BY <1>3, LeastOfSet
<1>5. PICK g \in s : j = n - g
  BY <1>4
<1>6. \A y \in s : g >= y
  <2>1. SUFFICES ASSUME NEW y \in s PROVE g >= y
    OBVIOUS
  <2>2. j <= n - y
    BY <1>2, <1>4
  <2>3. g \in Int /\ y \in Int /\ n \in Int
    OBVIOUS
  <2> HIDE DEF T
  <2> QED  BY <1>5, <2>2, <2>3
<1> DEFINE c == Greatest(s)
<1>7. c \in s /\ \A y \in s : c >= y
  BY <1>6, Zenon DEF Greatest
<1>8. \A y \in s : y \in Int
  OBVIOUS
<1> HIDE DEF c
<1>9. \A y \in s : y <= c
  BY <1>7, <1>8
<1> QED  BY <1>7, <1>9 DEF c

LEMMA GreatestOfInterval ==
    ASSUME NEW n \in Nat, NEW k \in 1..n
    PROVE  /\ 1..k \in SUBSET (1..n) /\ 1..k # {} /\ Greatest(1..k) = k
           /\ (1..k) \ {k} = 1..(k - 1)
<1>1. 1..k \in SUBSET (1..n) /\ k \in 1..k
  OBVIOUS
<1>2. Greatest(1..k) \in 1..k /\ k <= Greatest(1..k)
  BY <1>1, GreatestOfSet
<1>3. Greatest(1..k) = k
  BY <1>2
<1>4. (1..k) \ {k} = 1..(k - 1)
  OBVIOUS
<1> QED  BY <1>1, <1>3, <1>4

\* Folding along a sequence is a function of the sets of its positions, and exists.
Folds(n, V, base, step) ==
    {iter \in [SUBSET (1..n) -> V] :
        \A s \in SUBSET (1..n) :
            iter[s] = IF s = {} THEN base ELSE step[Greatest(s)][iter[s \ {Greatest(s)}]]}

LEMMA FoldExists ==
    ASSUME NEW top \in Nat, NEW V, NEW base \in V, NEW step,
           \A i \in 1..top : \A v \in V : step[i][v] \in V
    PROVE  \E iter : iter \in Folds(top, V, base, step)
<1> DEFINE S == {n \in Nat : \E iter : iter \in Folds(n, V, base, step)}
<1>1. 0 \in S
  <2> DEFINE iter == [s \in SUBSET (1..0) |-> base]
  <2>1. iter \in [SUBSET (1..0) -> V]
    OBVIOUS
  <2>2. \A s \in SUBSET (1..0) : s = {}
    <3>1. 1..0 = {}
      OBVIOUS
    <3> QED  BY <3>1
  <2>3. iter \in Folds(0, V, base, step)
    BY <2>1, <2>2 DEF Folds
  <2> HIDE DEF iter
  <2> QED  BY <2>3
<1>2. ASSUME NEW n \in 0..top, n \in S, n < top
      PROVE  n + 1 \in S
  <2>1. PICK iter : iter \in Folds(n, V, base, step)
    BY <1>2
  <2> DEFINE k == n + 1
             g == [s \in SUBSET (1..k) |-> IF k \in s THEN step[k][iter[s \ {k}]] ELSE iter[s]]
  <2>2. k \in 1..top /\ k \in Nat /\ n \in Nat /\ \A s \in SUBSET (1..k) : s \ {k} \in SUBSET (1..n)
    BY <1>2
  <2>3. \A s \in SUBSET (1..k) : k \notin s => s \in SUBSET (1..n)
    BY <1>2
  <2>4. SUBSET (1..n) \subseteq SUBSET (1..k)
    BY <1>2
  <2> HIDE DEF k
  <2>5. iter \in [SUBSET (1..n) -> V]
    BY <2>1 DEF Folds
  <2>6. g \in [SUBSET (1..k) -> V]
    <3>1. ASSUME NEW s \in SUBSET (1..k)
          PROVE  (IF k \in s THEN step[k][iter[s \ {k}]] ELSE iter[s]) \in V
      <4>1. CASE k \in s
        <5>1. iter[s \ {k}] \in V
          BY <2>2, <2>5
        <5> QED  BY <2>2, <4>1, <5>1
      <4>2. CASE k \notin s
        BY <2>3, <2>5, <4>2
      <4> QED  BY <4>1, <4>2
    <3> QED  BY <3>1
  <2>7. \A s \in SUBSET (1..n) : g[s] = iter[s]
    <3>1. \A s \in SUBSET (1..n) : k \notin s
      BY <1>2 DEF k
    <3> QED  BY <2>4, <3>1
  <2>8. ASSUME NEW s \in SUBSET (1..k)
        PROVE  g[s] = IF s = {} THEN base ELSE step[Greatest(s)][g[s \ {Greatest(s)}]]
    <3>1. CASE k \in s
      <4>1. Greatest(s) = k
        <5>1. Greatest(s) \in s /\ k <= Greatest(s)
          BY <2>2, <3>1, GreatestOfSet
        <5>2. Greatest(s) \in 1..k
          BY <5>1
        <5> QED  BY <2>2, <5>1, <5>2
      <4>2. g[s] = step[k][iter[s \ {k}]] /\ s # {}
        BY <3>1
      <4>3. g[s \ {k}] = iter[s \ {k}]
        BY <2>2, <2>7
      <4> HIDE DEF g
      <4> QED  BY <4>1, <4>2, <4>3
    <3>2. CASE k \notin s
      <4>1. s \in SUBSET (1..n) /\ s \ {Greatest(s)} \in SUBSET (1..n)
        BY <2>3, <3>2
      <4>2. g[s] = iter[s] /\ g[s \ {Greatest(s)}] = iter[s \ {Greatest(s)}]
        BY <2>7, <4>1
      <4> HIDE DEF g
      <4> QED  BY <2>1, <4>1, <4>2 DEF Folds
    <3> QED  BY <3>1, <3>2
  <2> HIDE DEF g
  <2>9. g \in Folds(k, V, base, step)
    BY <2>6, <2>8 DEF Folds
  <2> QED  BY <2>2, <2>9 DEF k
<1>3. top \in S
  <2> HIDE DEF S
  <2> QED  BY <1>1, <1>2, HoldsUpTo
<1> QED  BY <1>3

\* The workers of a plan node are counted one after the other.
Totals == [workerCount : Nat, activeWorkerCount : Nat, rows : Nat, loops : Nat,
           total : Nat, max : Nat]
NoWorkers(n) == [workerCount |-> n, activeWorkerCount |-> 0,
                 rows |-> 0, loops |-> 0, total |-> 0, max |-> 0]

IsWorkersRun(instruments, run) ==
    /\ run[0] = NoWorkers(Len(instruments))
    /\ \A k \in 1..Len(instruments) : run[k] = Stats!AddWorker(run[k - 1], instruments[k])
    /\ Stats!FillParallelWorkerSummary(instruments) = run[Len(instruments)]

LEMMA WorkersAreAdded ==
    ASSUME NEW instruments \in Seq([loops : Nat, rows : Nat, total : Nat])
    PROVE  \E run : IsWorkersRun(instruments, run)
<1> DEFINE n == Len(instruments)
           base == NoWorkers(n)
           step == [i \in 1..n |-> [v \in Totals |-> Stats!AddWorker(v, instruments[i])]]
           IsFold(iter) == iter = [s \in SUBSET (DOMAIN instruments) |->
                              IF s = {} THEN base
                              ELSE Stats!AddWorker(iter[s \ {Greatest(s)}], instruments[Greatest(s)])]
<1>1. /\ n \in Nat /\ DOMAIN instruments = 1..n
      /\ \A i \in 1..n : instruments[i] \in [loops : Nat, rows : Nat, total : Nat]
  <2> DEFINE R == [loops : Nat, rows : Nat, total : Nat]
  <2> HIDE DEF R
  <2>1. instruments \in Seq(R)
    BY DEF R
  <2>2. /\ n \in Nat /\ DOMAIN instruments = 1..n
        /\ \A i \in 1..n : instruments[i] \in R
    BY <2>1
  <2> QED  BY <2>2 DEF R
<1>2. base \in Totals
  BY <1>1 DEF NoWorkers, Totals
<1>3. \A i \in 1..n : \A v \in Totals : Stats!AddWorker(v, instruments[i]) \in Totals
  <2>1. SUFFICES ASSUME NEW v \in Totals, NEW i \in [loops : Nat, rows : Nat, total : Nat]
                 PROVE  Stats!AddWorker(v, i) \in Totals
    <3> HIDE DEF n
    <3> QED  BY <1>1
  <2>2. CASE ~(i.loops > 0)
    BY <2>2 DEF Stats!AddWorker, Stats!Active
  <2>3. CASE i.loops > 0
    <3> DEFINE m == IF i.total > v.max THEN i.total ELSE v.max
    <3>1. /\ m \in Nat /\ v.activeWorkerCount + 1 \in Nat /\ v.rows + i.rows \in Nat
          /\ v.loops + i.loops \in Nat /\ v.total + i.total \in Nat /\ v.workerCount \in Nat
      <4>1. /\ v.activeWorkerCount \in Nat /\ v.rows \in Nat /\ v.loops \in Nat
            /\ v.total \in Nat /\ v.max \in Nat /\ v.workerCount \in Nat
        BY DEF Totals
      <4>2. i.rows \in Nat /\ i.loops \in Nat /\ i.total \in Nat
        OBVIOUS
      <4>3. \A a, b \in Nat : a + b \in Nat
        OBVIOUS
      <4>4. m \in Nat /\ 1 \in Nat
        BY <4>1, <4>2
      <4> HIDE DEF m
      <4> QED  BY <4>1, <4>2, <4>3, <4>4, Zenon
    <3>2. Stats!AddWorker(v, i) =
             [workerCount |-> v.workerCount, activeWorkerCount |-> v.activeWorkerCount + 1,
              rows |-> v.rows + i.rows, loops |-> v.loops + i.loops,
              total |-> v.total + i.total, max |-> m]
      BY <2>3 DEF Totals, Stats!AddWorker, Stats!Active
    <3> HIDE DEF m
    <3> QED  BY <3>1, <3>2 DEF Totals
  <2> QED  BY <2>2, <2>3
<1>4. PICK iter : iter \in Folds(n, Totals, base, step)
  <2>1. \A i \in 1..n : \A v \in Totals : step[i][v] \in Totals
    BY <1>3
  <2> HIDE DEF n, base, step
  <2> QED  BY <1>1, <1>2, <2>1, FoldExists
<1>5. IsFold(iter)
  <2>1. ASSUME NEW s \in SUBSET (1..n), s # {}
        PROVE  iter[s] = Stats!AddWorker(iter[s \ {Greatest(s)}], instruments[Greatest(s)])
    <3>1. Greatest(s) \in 1..n
      <4> HIDE DEF n
      <4> QED  BY <1>1, <2>1, GreatestOfSet
    <3>2. iter[s] = step[Greatest(s)][iter[s \ {Greatest(s)}]]
      <4> HIDE DEF step, n, base
      <4> QED  BY <1>4, <2>1 DEF Folds
    <3>3. iter[s \ {Greatest(s)}] \in Totals
      <4> HIDE DEF step, n, base
      <4> QED  BY <1>4 DEF Folds
    <3> HIDE DEF n, base
    <3> QED  BY <3>1, <3>2, <3>3
  <2>2. iter[{}] = base /\ iter = [s \in SUBSET (1..n) |-> iter[s]]
    <3> HIDE DEF step, n, base
    <3> QED  BY <1>4 DEF Folds
  <2> HIDE DEF step, n, base
  <2> QED  BY <1>1, <2>1, <2>2
<1> DEFINE fold == CHOOSE fold : IsFold(fold)
<1>6. IsFold(fold)
  <2> HIDE DEF IsFold
  <2> QED  BY <1>5
<1>7. Stats!FillParallelWorkerSummary(instruments) = fold[DOMAIN instruments]
  BY Zenon DEF Stats!FillParallelWorkerSummary, Stats!FoldLeft, Stats!MapThenFoldSet, Stats!Max,
               Greatest, NoWorkers
<1> HIDE DEF fold
<1> DEFINE run == [k \in 0..n |-> fold[1..k]]
<1>8. IsWorkersRun(instruments, run)
  <2>1. fold[1..0] = base
    <3>1. 1..0 = {}
      OBVIOUS
    <3> HIDE DEF base
    <3> QED  BY <1>6, <3>1
  <2>2. ASSUME NEW k \in 1..n
        PROVE  fold[1..k] = Stats!AddWorker(fold[1..(k - 1)], instruments[k])
    <3> DEFINE g == Greatest(1..k)
    <3>1. /\ 1..k \in SUBSET (DOMAIN instruments) /\ 1..k # {} /\ g = k
          /\ (1..k) \ {k} = 1..(k - 1)
      <4> HIDE DEF base, n
      <4> QED  BY <1>1, GreatestOfInterval
    <3>2. fold[1..k] = Stats!AddWorker(fold[(1..k) \ {g}], instruments[g])
      <4> HIDE DEF base, n
      <4> QED  BY <1>6, <3>1
    <3> QED  BY <3>1, <3>2
  <2>3. \A k \in 1..n : k \in 0..n /\ k - 1 \in 0..n
    OBVIOUS
  <2>4. n \in 0..n /\ 0 \in 0..n
    OBVIOUS
  <2>5. run[0] = base
    BY <2>1, <2>4
  <2> HIDE DEF base
  <2>6. \A k \in 1..n : run[k] = Stats!AddWorker(run[k - 1], instruments[k])
    BY <2>2, <2>3
  <2>7. run[n] = fold[DOMAIN instruments]
    <3> HIDE DEF n
    <3> QED  BY <1>1, <2>4
  <2> HIDE DEF run
  <2> QED  BY <1>7, <2>5, <2>6, <2>7 DEF IsWorkersRun, base
<1> HIDE DEF run
<1> QED  BY <1>8

\* A sum over a finite set exists, and any element can be taken out of it first.
Chosen(s) == CHOOSE x \in s : TRUE

IsSum(sum, S, f) ==
    /\ sum = [s \in SUBSET S |-> sum[s]]
    /\ \A s \in SUBSET S : sum[s] = IF s = {} THEN 0 ELSE f[Chosen(s)] + sum[s \ {Chosen(s)}]

LEMMA ChosenIsElement ==
    ASSUME NEW S, IsFiniteSet(S), NEW s \in SUBSET S
    PROVE  /\ IsFiniteSet(s) /\ Cardinality(s) \in 0..Cardinality(S) /\ Cardinality(S) \in Nat
           /\ s = {} <=> Cardinality(s) = 0
           /\ s # {} => Chosen(s) \in s
           /\ \A x \in s : /\ s \ {x} \in SUBSET S
                           /\ Cardinality(s \ {x}) = Cardinality(s) - 1
<1>1. IsFiniteSet(s) /\ Cardinality(s) <= Cardinality(S)
  BY FS_Subset
<1>2. Cardinality(s) \in Nat /\ Cardinality(S) \in Nat
  BY <1>1, FS_CardinalityType
<1>3. s = {} <=> Cardinality(s) = 0
  BY <1>1, FS_EmptySet
<1>4. s # {} => Chosen(s) \in s
  BY DEF Chosen
<1>5. \A x \in s : Cardinality(s \ {x}) = Cardinality(s) - 1
  BY <1>1, FS_RemoveElement
<1>6. Cardinality(s) \in 0..Cardinality(S)
  BY <1>1, <1>2
<1> QED  BY <1>1, <1>2, <1>3, <1>4, <1>5, <1>6

LEMMA SumExists ==
    ASSUME NEW S, IsFiniteSet(S), NEW f, \A x \in S : f[x] \in Nat
    PROVE  \E sum : IsSum(sum, S, f)
<1> DEFINE IsUpTo(sum, n) ==
              \A s \in SUBSET S :
                 Cardinality(s) <= n =>
                    sum[s] = IF s = {} THEN 0 ELSE f[Chosen(s)] + sum[s \ {Chosen(s)}]
           G == {n \in 0..Cardinality(S) : \E sum : IsUpTo(sum, n)}
<1>1. Cardinality(S) \in Nat
  BY FS_CardinalityType
<1>2. 0 \in G
  <2> DEFINE sum == [s \in SUBSET S |-> 0]
  <2>1. IsUpTo(sum, 0)
    <3>1. ASSUME NEW s \in SUBSET S, Cardinality(s) <= 0
          PROVE  s = {}
      BY <3>1, ChosenIsElement
    <3> QED  BY <3>1
  <2> HIDE DEF IsUpTo
  <2> QED  BY <1>1, <2>1
<1>3. ASSUME NEW n \in 0..Cardinality(S), n \in G, n < Cardinality(S)
      PROVE  n + 1 \in G
  <2>1. PICK sum : IsUpTo(sum, n)
    <3> HIDE DEF IsUpTo
    <3> QED  BY <1>3
  <2> DEFINE g == [s \in SUBSET S |-> IF Cardinality(s) <= n THEN sum[s]
                                      ELSE f[Chosen(s)] + sum[s \ {Chosen(s)}]]
  <2>2. \A s \in SUBSET S : Cardinality(s) <= n => g[s] = sum[s]
    OBVIOUS
  <2>3. ASSUME NEW s \in SUBSET S, Cardinality(s) <= n + 1
        PROVE  g[s] = IF s = {} THEN 0 ELSE f[Chosen(s)] + g[s \ {Chosen(s)}]
    <3>1. CASE s = {}
      <4>1. Cardinality(s) <= n
        BY <1>3, <3>1, ChosenIsElement
      <4> QED  BY <2>1, <2>2, <3>1, <4>1
    <3>2. CASE s # {}
      <4>1. s \ {Chosen(s)} \in SUBSET S /\ Cardinality(s \ {Chosen(s)}) = Cardinality(s) - 1
            /\ Cardinality(s) \in Nat
        BY <3>2, ChosenIsElement
      <4>2. Cardinality(s \ {Chosen(s)}) <= n
        BY <2>3, <4>1
      <4>3. g[s \ {Chosen(s)}] = sum[s \ {Chosen(s)}]
        BY <2>2, <4>1, <4>2
      <4>4. g[s] = f[Chosen(s)] + sum[s \ {Chosen(s)}]
        BY <2>1, <3>2
      <4> QED  BY <3>2, <4>3, <4>4
    <3> QED  BY <3>1, <3>2
  <2> HIDE DEF g
  <2>4. IsUpTo(g, n + 1)
    BY <2>3
  <2> HIDE DEF IsUpTo
  <2>5. n + 1 \in 0..Cardinality(S)
    BY <1>1, <1>3
  <2> QED  BY <2>4, <2>5
<1>4. Cardinality(S) \in G
  <2> HIDE DEF G
  <2> QED  BY <1>1, <1>2, <1>3, HoldsUpTo
<1>5. PICK sum : IsUpTo(sum, Cardinality(S))
  <2> HIDE DEF IsUpTo
  <2> QED  BY <1>4
<1> DEFINE g == [s \in SUBSET S |-> sum[s]]
<1>6. ASSUME NEW s \in SUBSET S
      PROVE  g[s] = IF s = {} THEN 0 ELSE f[Chosen(s)] + g[s \ {Chosen(s)}]
  <2>1. Cardinality(s) <= Cardinality(S)
    BY FS_Subset
  <2>2. s \ {Chosen(s)} \in SUBSET S
    OBVIOUS
  <2> QED  BY <1>5, <2>1, <2>2
<1>7. g = [s \in SUBSET S |-> g[s]]
  OBVIOUS
<1> HIDE DEF g
<1>8. IsSum(g, S, f)
  BY <1>6, <1>7 DEF IsSum
<1> QED  BY <1>8

LEMMA SumTakesOut ==
    ASSUME NEW S, IsFiniteSet(S), NEW f, \A x \in S : f[x] \in Nat, NEW sum, IsSum(sum, S, f)
    PROVE  /\ sum[{}] = 0
           /\ \A s \in SUBSET S : sum[s] \in Nat
           /\ \A s \in SUBSET S : \A x \in s : sum[s] = sum[s \ {x}] + f[x]
<1> DEFINE Good(s) == sum[s] \in Nat /\ \A x \in s : sum[s] = sum[s \ {x}] + f[x]
           G == {n \in 0..Cardinality(S) : \A s \in SUBSET S : Cardinality(s) <= n => Good(s)}
<1>1. Cardinality(S) \in Nat
  BY FS_CardinalityType
<1>2. \A s \in SUBSET S : sum[s] = IF s = {} THEN 0 ELSE f[Chosen(s)] + sum[s \ {Chosen(s)}]
  BY DEF IsSum
<1>3. 0 \in G
  <2>1. ASSUME NEW s \in SUBSET S, Cardinality(s) <= 0
        PROVE  Good(s)
    <3>1. s = {}
      BY <2>1, ChosenIsElement
    <3>2. sum[s] = 0
      BY <1>2, <3>1
    <3> QED  BY <3>1, <3>2
  <2> HIDE DEF Good
  <2> QED  BY <1>1, <2>1
<1>4. ASSUME NEW n \in 0..Cardinality(S), n \in G, n < Cardinality(S)
      PROVE  n + 1 \in G
  <2>1. ASSUME NEW s \in SUBSET S, Cardinality(s) <= n + 1
        PROVE  Good(s)
    <3>1. CASE s = {}
      BY <1>2, <3>1
    <3>2. CASE s # {}
      <4> DEFINE c == Chosen(s)
      <4>1. \A x \in s : Cardinality(s \ {x}) <= n /\ s \ {x} \in SUBSET S
        <5>1. \A x \in s : Cardinality(s \ {x}) = Cardinality(s) - 1 /\ s \ {x} \in SUBSET S
          BY ChosenIsElement
        <5>2. Cardinality(s) \in Nat
          BY ChosenIsElement
        <5> QED  BY <2>1, <5>1, <5>2
      <4>2. \A x \in s : Good(s \ {x})
        <5> HIDE DEF Good
        <5> QED  BY <1>4, <4>1
      <4>3. c \in s
        BY <3>2, ChosenIsElement
      <4>4. sum[s] = f[c] + sum[s \ {c}] /\ f[c] \in Nat /\ sum[s \ {c}] \in Nat
        BY <1>2, <3>2, <4>2, <4>3
      <4> HIDE DEF c
      <4>5. ASSUME NEW x \in s
            PROVE  sum[s] = sum[s \ {x}] + f[x]
        <5>1. CASE x = c
          BY <4>4, <5>1
        <5>2. CASE x # c
          <6>1. sum[s \ {c}] = sum[(s \ {c}) \ {x}] + f[x] /\ f[x] \in Nat
            BY <4>2, <4>3, <5>2
          <6>2. sum[s \ {x}] = sum[(s \ {x}) \ {c}] + f[c]
            BY <4>2, <4>3, <5>2
          <6>3. (s \ {x}) \ {c} = (s \ {c}) \ {x}
            OBVIOUS
          <6> DEFINE rest == sum[(s \ {c}) \ {x}]
          <6>4. rest \in Nat
            <7>1. (s \ {c}) \ {x} \in SUBSET S /\ Cardinality((s \ {c}) \ {x}) <= n
              <8>1. s \ {c} \in SUBSET S /\ Cardinality(s \ {c}) <= n /\ x \in s \ {c}
                BY <4>1, <4>3, <5>2
              <8> DEFINE t == s \ {c}
              <8>2. t \ {x} \in SUBSET S /\ Cardinality(t \ {x}) = Cardinality(t) - 1
                    /\ Cardinality(t) \in Nat
                <9> HIDE DEF t
                <9>1. t \in SUBSET S /\ x \in t
                  BY <8>1 DEF t
                <9> QED  BY <9>1, ChosenIsElement
              <8>3. Cardinality(t \ {x}) <= n
                <9> HIDE DEF t
                <9>1. Cardinality(t) <= n
                  BY <8>1 DEF t
                <9> QED  BY <8>2, <9>1
              <8> QED  BY <8>2, <8>3
            <7> QED  BY <1>4, <7>1
          <6> HIDE DEF rest
          <6>5. sum[s \ {c}] = rest + f[x] /\ sum[s \ {x}] = rest + f[c]
            BY <6>1, <6>2, <6>3 DEF rest
          <6> QED  BY <4>4, <6>1, <6>4, <6>5
        <5> QED  BY <5>1, <5>2
      <4>6. sum[s] \in Nat
        BY <4>4
      <4> QED  BY <4>5, <4>6
    <3> QED  BY <3>1, <3>2
  <2> HIDE DEF Good
  <2>2. n + 1 \in 0..Cardinality(S)
    BY <1>1, <1>4
  <2> QED  BY <2>1, <2>2
<1>5. Cardinality(S) \in G
  <2> HIDE DEF G
  <2> QED  BY <1>1, <1>3, <1>4, HoldsUpTo
<1>6. \A s \in SUBSET S : Good(s)
  <2>1. \A s \in SUBSET S : Cardinality(s) <= Cardinality(S)
    BY FS_Subset
  <2> HIDE DEF Good
  <2> QED  BY <1>5, <2>1
<1> QED  BY <1>2, <1>6

\* Two sums of the same numbers agree.
LEMMA SumsAgree ==
    ASSUME NEW S, IsFiniteSet(S), NEW T \in SUBSET S, NEW f, NEW h, \A x \in S : f[x] \in Nat,
           NEW sum, IsSum(sum, S, f), NEW other, IsSum(other, T, h), \A x \in T : h[x] = f[x]
    PROVE  \A s \in SUBSET T : other[s] = sum[s]
<1> DEFINE G == {n \in 0..Cardinality(T) : \A s \in SUBSET T : Cardinality(s) <= n => other[s] = sum[s]}
<1>1. IsFiniteSet(T) /\ Cardinality(T) \in Nat
  BY FS_Subset, FS_CardinalityType
<1>2. \A s \in SUBSET T : other[s] = IF s = {} THEN 0 ELSE f[Chosen(s)] + other[s \ {Chosen(s)}]
  <2>1. \A s \in SUBSET T : s # {} => Chosen(s) \in T
    BY <1>1, ChosenIsElement
  <2> QED  BY <2>1 DEF IsSum
<1>3. \A s \in SUBSET T : sum[s] = IF s = {} THEN 0 ELSE f[Chosen(s)] + sum[s \ {Chosen(s)}]
  BY DEF IsSum
<1>4. 0 \in G
  <2>1. ASSUME NEW s \in SUBSET T, Cardinality(s) <= 0
        PROVE  other[s] = sum[s]
    <3>1. s = {}
      BY <1>1, <2>1, ChosenIsElement
    <3> QED  BY <1>2, <1>3, <3>1
  <2> QED  BY <1>1, <2>1
<1>5. ASSUME NEW n \in 0..Cardinality(T), n \in G, n < Cardinality(T)
      PROVE  n + 1 \in G
  <2>1. ASSUME NEW s \in SUBSET T, Cardinality(s) <= n + 1
        PROVE  other[s] = sum[s]
    <3>1. CASE s = {}
      BY <1>2, <1>3, <3>1
    <3>2. CASE s # {}
      <4>1. s \ {Chosen(s)} \in SUBSET T /\ Cardinality(s \ {Chosen(s)}) = Cardinality(s) - 1
            /\ Cardinality(s) \in Nat
        BY <1>1, <3>2, ChosenIsElement
      <4>2. Cardinality(s \ {Chosen(s)}) <= n
        BY <2>1, <4>1
      <4>3. other[s \ {Chosen(s)}] = sum[s \ {Chosen(s)}]
        BY <1>5, <4>1, <4>2
      <4> QED  BY <1>2, <1>3, <3>2, <4>3
    <3> QED  BY <3>1, <3>2
  <2>2. n + 1 \in 0..Cardinality(T)
    BY <1>1, <1>5
  <2> QED  BY <2>1, <2>2
<1>6. Cardinality(T) \in G
  <2> HIDE DEF G
  <2> QED  BY <1>1, <1>4, <1>5, HoldsUpTo
<1>7. \A s \in SUBSET T : Cardinality(s) <= Cardinality(T)
  BY <1>1, FS_Subset
<1> QED  BY <1>6, <1>7

\* The greatest element of a set, by what makes it that.
LEMMA MaxIs ==
    ASSUME NEW T, NEW x \in T, \A y \in T : y \in Int /\ y <= x
    PROVE  Max(T) = x
<1> DEFINE c == Max(T)
<1>1. c \in T /\ \A y \in T : c >= y
  BY Zenon DEF Max
<1> HIDE DEF c
<1>2. c = x
  BY <1>1
<1> QED  BY <1>2 DEF c

\* The summary of a node's workers is about those that ran it.
LEMMA WorkersAreSummarised ==
    ASSUME NEW instruments \in Seq([loops : Nat, rows : Nat, total : Nat])
    PROVE  IsSummaryOf(instruments, Stats!FillParallelWorkerSummary(instruments))
<1> DEFINE n == Len(instruments)
           summary == Stats!FillParallelWorkerSummary(instruments)
           active == {i \in DOMAIN instruments : instruments[i].loops > 0}
           Upto(k) == {i \in active : i <= k}
           f == [i \in active |-> instruments[i].total]
           IsTotal(t) == t = [s \in SUBSET active |->
                            IF s = {} THEN 0 ELSE instruments[Chosen(s)].total + t[s \ {Chosen(s)}]]
           total == CHOOSE t : IsTotal(t)
<1>1. /\ n \in Nat /\ DOMAIN instruments = 1..n
      /\ \A i \in 1..n : /\ instruments[i].loops \in Nat /\ instruments[i].rows \in Nat
                         /\ instruments[i].total \in Nat
  <2> DEFINE R == [loops : Nat, rows : Nat, total : Nat]
  <2> HIDE DEF R
  <2>1. instruments \in Seq(R)
    BY DEF R
  <2>2. /\ n \in Nat /\ DOMAIN instruments = 1..n
        /\ \A i \in 1..n : instruments[i] \in R
    BY <2>1
  <2> QED  BY <2>2 DEF R
<1>2. IsFiniteSet(active)
  <2>1. IsFiniteSet(1..n) /\ active \in SUBSET (1..n)
    <3> HIDE DEF n
    <3> QED  BY <1>1, FS_Interval
  <2> HIDE DEF active, n
  <2> QED  BY <2>1, FS_Subset
<1>3. \A i \in active : i \in 1..n /\ f[i] = instruments[i].total /\ f[i] \in Nat
  BY <1>1
<1>4. IsTotal(total) /\ IsSum(total, active, f)
  <2>1. PICK sum : IsSum(sum, active, f)
    <3> HIDE DEF active, f
    <3> QED  BY <1>2, <1>3, SumExists
  <2>2. \A s \in SUBSET active : s # {} => f[Chosen(s)] = instruments[Chosen(s)].total
    <3>1. \A s \in SUBSET active : s # {} => Chosen(s) \in active
      <4> HIDE DEF active
      <4> QED  BY <1>2, ChosenIsElement
    <3> HIDE DEF active
    <3> QED  BY <1>3, <3>1
  <2>3. IsTotal(sum)
    <3> HIDE DEF active, f
    <3> QED  BY <2>1, <2>2 DEF IsSum
  <2>4. IsTotal(total)
    <3> HIDE DEF IsTotal
    <3> QED  BY <2>3
  <2> HIDE DEF active, f, total
  <2> QED  BY <2>2, <2>4 DEF IsSum
<1>14. /\ total[{}] = 0 /\ \A s \in SUBSET active : total[s] \in Nat
       /\ \A s \in SUBSET active : \A x \in s : total[s] = total[s \ {x}] + f[x]
  <2>1. \A x \in active : f[x] \in Nat
    BY <1>3
  <2>2. IsSum(total, active, f)
    BY <1>4
  <2> HIDE DEF active, f, total
  <2> QED  BY <1>2, <2>1, <2>2, SumTakesOut
<1>5. MapThenSumSet(LAMBDA i : instruments[i].total, active) = total[active]
  BY Zenon DEF MapThenSumSet, MapThenFoldSet, Chosen
<1> HIDE DEF total, f
<1>6. PICK run : IsWorkersRun(instruments, run)
  BY WorkersAreAdded
<1> DEFINE IsSummary(v, k) ==
              /\ v.workerCount = n
              /\ v.activeWorkerCount = Cardinality(Upto(k))
              /\ v.total = total[Upto(k)] /\ v.total \in Nat
              /\ v.max \in Nat
              /\ \A i \in Upto(k) : instruments[i].total <= v.max
              /\ v.max = 0 \/ \E i \in Upto(k) : instruments[i].total = v.max
              /\ v \in Totals
           G == {k \in 0..n : IsSummary(run[k], k)}
<1>7. 0 \in G
  <2>1. run[0] = NoWorkers(n)
    BY <1>6 DEF IsWorkersRun
  <2>2. Upto(0) = {}
    BY <1>3
  <2>3. Cardinality({}) = 0 /\ total[{}] = 0
    BY <1>14, FS_EmptySet
  <2> HIDE DEF Upto, active, n
  <2>4. IsSummary(NoWorkers(n), 0)
    BY <1>1, <2>2, <2>3 DEF NoWorkers, Totals
  <2> QED  BY <1>1, <2>1, <2>4
<1>8. ASSUME NEW k \in 0..n, k \in G, k < n
      PROVE  k + 1 \in G
  <2> DEFINE j == k + 1
             v == run[k]
             i == instruments[j]
  <2>1. IsSummary(v, k)
    <3> HIDE DEF IsSummary
    <3> QED  BY <1>8
  <2>2. j \in 1..n /\ j \in 0..n /\ j - 1 = k /\ k \in Nat
    BY <1>1, <1>8
  <2>3. run[j] = Stats!AddWorker(v, i)
    <3>1. run[j] = Stats!AddWorker(run[j - 1], instruments[j])
      <4> HIDE DEF j
      <4> QED  BY <1>6, <2>2 DEF IsWorkersRun
    <3> QED  BY <2>2, <3>1
  <2>4. i.loops \in Nat /\ i.rows \in Nat /\ i.total \in Nat
    <3> HIDE DEF j, n
    <3> QED  BY <1>1, <2>2
  <2>5. CASE ~(i.loops > 0)
    <3>1. Upto(j) = Upto(k)
      <4>1. j \notin active
        BY <2>5
      <4>2. \A m \in active : m <= j <=> m <= k
        <5>1. \A m \in active : m # j /\ m \in Int
          BY <1>3, <4>1
        <5> HIDE DEF active
        <5> QED  BY <2>2, <5>1
      <4> HIDE DEF active
      <4> QED  BY <4>2
    <3>2. run[j] = v
      BY <2>3, <2>5 DEF Stats!AddWorker, Stats!Active
    <3>3. IsSummary(run[j], j)
      <4> HIDE DEF Upto, v, j
      <4> QED  BY <2>1, <3>1, <3>2
    <3> HIDE DEF IsSummary, j
    <3>4. j \in G
      BY <2>2, <3>3
    <3> QED  BY <3>4 DEF j
  <2>6. CASE i.loops > 0
    <3>1. j \in active
      <4> HIDE DEF j
      <4> QED  BY <1>1, <2>2, <2>6
    <3>2. Upto(j) = Upto(k) \cup {j} /\ j \notin Upto(k)
      <4>1. \A m \in active : m <= j <=> m <= k \/ m = j
        <5>1. \A m \in active : m \in Int
          BY <1>3
        <5> HIDE DEF active
        <5> QED  BY <2>2, <5>1
      <4>2. ~(j <= k)
        BY <2>2
      <4> HIDE DEF active, j
      <4> QED  BY <3>1, <4>1, <4>2
    <3>3. Upto(j) \in SUBSET active /\ Upto(j) \ {j} = Upto(k) /\ j \in Upto(j)
      <4>1. Upto(j) \in SUBSET active
        OBVIOUS
      <4> HIDE DEF Upto, j
      <4> QED  BY <3>2, <4>1
    <3>4. Cardinality(Upto(j)) = Cardinality(Upto(k)) + 1
      <4>1. IsFiniteSet(Upto(k))
        <5>1. Upto(k) \in SUBSET active
          OBVIOUS
        <5> HIDE DEF Upto, active
        <5> QED  BY <1>2, <5>1, FS_Subset
      <4> HIDE DEF Upto, j
      <4> QED  BY <3>2, <4>1, FS_AddElement
    <3>5. total[Upto(j)] = total[Upto(k)] + i.total
      <4>1. f[j] = i.total
        BY <1>3, <3>1
      <4> HIDE DEF Upto, active, j, i
      <4> QED  BY <1>14, <3>3, <4>1
    <3> DEFINE m == IF i.total > v.max THEN i.total ELSE v.max
    <3>6. run[j] =
             [workerCount |-> v.workerCount, activeWorkerCount |-> v.activeWorkerCount + 1,
              rows |-> v.rows + i.rows, loops |-> v.loops + i.loops,
              total |-> v.total + i.total, max |-> m]
      <4>1. v \in Totals
        <5> HIDE DEF v
        <5> QED  BY <2>1
      <4> HIDE DEF v, i, j
      <4> QED  BY <2>3, <2>6, <4>1 DEF Totals, Stats!AddWorker, Stats!Active
    <3>7. /\ m \in Nat /\ i.total <= m /\ v.max <= m /\ (m = i.total \/ m = v.max)
          /\ v.max \in Nat
      <4> HIDE DEF v, i, j
      <4> QED  BY <2>1, <2>4
    <3>8. IsSummary(run[j], j)
      <4> HIDE DEF m
      <4>1. run[j] \in Totals
        <5>1. v \in Totals
          <6> HIDE DEF v
          <6> QED  BY <2>1
        <5> HIDE DEF v, i, j
        <5>2. /\ v.workerCount \in Nat /\ v.activeWorkerCount + 1 \in Nat
              /\ v.rows + i.rows \in Nat /\ v.loops + i.loops \in Nat /\ v.total + i.total \in Nat
          <6>1. /\ v.workerCount \in Nat /\ v.activeWorkerCount \in Nat
                /\ v.rows \in Nat /\ v.loops \in Nat /\ v.total \in Nat
            BY <5>1 DEF Totals
          <6>2. \A a, b \in Nat : a + b \in Nat
            OBVIOUS
          <6>3. 1 \in Nat
            OBVIOUS
          <6> QED  BY <2>4, <6>1, <6>2, <6>3, Zenon
        <5> QED  BY <3>6, <3>7, <5>2 DEF Totals
      <4>2. run[j].max = m
        <5> HIDE DEF v, i, j
        <5> QED  BY <3>6
      <4>3. \A x \in Upto(j) : instruments[x].total <= m
        <5>1. \A x \in Upto(k) : instruments[x].total <= v.max /\ instruments[x].total \in Nat
          <6>1. \A x \in Upto(k) : x \in active
            OBVIOUS
          <6> HIDE DEF v, Upto, active
          <6> QED  BY <1>1, <1>3, <2>1, <6>1
        <5> HIDE DEF v, Upto, active, j
        <5>2. ASSUME NEW x \in Upto(k)
              PROVE  instruments[x].total <= m
          <6>1. v.max \in Nat /\ m \in Nat /\ v.max <= m
            BY <3>7
          <6>2. instruments[x].total <= v.max /\ instruments[x].total \in Nat
            BY <5>1
          <6>3. \A a, b, c \in Nat : a <= b => (b <= c => a <= c)
            OBVIOUS
          <6> HIDE DEF m
          <6> QED  BY <6>1, <6>2, <6>3, Zenon
        <5>3. instruments[j].total <= m
          BY <3>7 DEF i
        <5> QED  BY <3>2, <5>2, <5>3
      <4>4. m = 0 \/ \E x \in Upto(j) : instruments[x].total = m
        <5> HIDE DEF v, Upto, active, j
        <5> QED  BY <2>1, <3>2, <3>7 DEF i
      <4>5. /\ run[j].workerCount = n
            /\ run[j].activeWorkerCount = Cardinality(Upto(j))
            /\ run[j].total = total[Upto(j)] /\ run[j].total \in Nat
        <5> HIDE DEF v, Upto, active, j, i, n
        <5> QED  BY <2>1, <2>4, <3>4, <3>5, <3>6
      <4> HIDE DEF v, Upto, active, j, i, n
      <4> QED  BY <3>7, <4>1, <4>2, <4>3, <4>4, <4>5
    <3> HIDE DEF IsSummary, j
    <3>9. j \in G
      BY <2>2, <3>8
    <3> QED  BY <3>9 DEF j
  <2> QED  BY <2>5, <2>6
<1>9. n \in G
  <2> HIDE DEF G, n
  <2> QED  BY <1>1, <1>7, <1>8, HoldsUpTo
<1>10. Upto(n) = active
  BY <1>3
<1>11. IsSummary(summary, n)
  <2>1. summary = run[n]
    BY <1>6 DEF IsWorkersRun
  <2> HIDE DEF IsSummary, summary, n
  <2> QED  BY <1>9, <2>1
<1>12. summary.max = Max({0} \cup {instruments[i].total : i \in active})
  <2> HIDE DEF active, summary, Upto
  <2> DEFINE T == {0} \cup {instruments[i].total : i \in active}
  <2>1. summary.max \in T
    BY <1>10, <1>11
  <2>2. \A y \in T : y \in Int /\ y <= summary.max
    <3>1. 0 \in Int /\ 0 <= summary.max
      BY <1>11
    <3>2. \A i \in active : instruments[i].total \in Int
      BY <1>3
    <3>3. \A i \in active : instruments[i].total <= summary.max
      BY <1>10, <1>11
    <3> QED  BY <3>1, <3>2, <3>3
  <2> HIDE DEF T
  <2>3. Max(T) = summary.max
    BY <2>1, <2>2, MaxIs
  <2> QED  BY <2>3 DEF T
<1>13. /\ summary.workerCount = n
       /\ summary.activeWorkerCount = Cardinality(active)
       /\ summary.total = total[active]
  <2> HIDE DEF active, summary, Upto, n
  <2> QED  BY <1>10, <1>11
<1> QED  BY <1>5, <1>12, <1>13, Zenon DEF IsSummaryOf

-----------------------------------------------------------------------------
LEMMA UpIsBefore ==
    ASSUME NEW plan, IsPlanTree(plan), NEW n \in 1..plan.size
    PROVE  plan.up[n] \in 0..(n - 1) /\ n \in Nat /\ (plan.up[n] = 0 <=> n = 1)
<1>1. CASE n = 1
  BY <1>1 DEF IsPlanTree
<1>2. CASE n # 1
  <2>1. n \in 2..plan.size
    BY <1>2 DEF IsPlanTree
  <2>2. plan.up[n] \in 1..(n - 1)
    BY <2>1 DEF IsPlanTree
  <2> QED  BY <1>2, <2>1, <2>2
<1> QED  BY <1>1, <1>2

LEMMA AboveIs ==
    ASSUME NEW plan, IsPlanTree(plan)
    PROVE  /\ Above(plan)[0] = {}
           /\ \A n \in 1..plan.size : Above(plan)[n] = {n} \cup Above(plan)[plan.up[n]]
<1> DEFINE top == plan.size
           up == plan.up
           IsUpTo(f, k) == \A n \in 0..k : f[n] = IF n = 0 THEN {} ELSE {n} \cup f[up[n]]
           S == {k \in 0..top : \E f : IsUpTo(f, k)}
           IsAbove(f) == f = [n \in 0..top |-> IF n = 0 THEN {} ELSE {n} \cup f[up[n]]]
<1>1. top \in Nat /\ \A n \in 1..top : up[n] \in 0..(n - 1)
  BY UpIsBefore DEF IsPlanTree
<1> HIDE DEF top, up
<1>2. 0 \in S
  <2> DEFINE f == [n \in 0..0 |-> {}]
  <2>1. IsUpTo(f, 0)
    OBVIOUS
  <2> HIDE DEF IsUpTo, f
  <2> QED  BY <1>1, <2>1
<1>3. ASSUME NEW k \in 0..top, k \in S, k < top
      PROVE  k + 1 \in S
  <2>1. PICK f : IsUpTo(f, k)
    <3> HIDE DEF IsUpTo
    <3> QED  BY <1>3
  <2> DEFINE j == k + 1
             g == [n \in 0..j |-> IF n <= k THEN f[n] ELSE {j} \cup f[up[j]]]
  <2>2. j \in 0..top /\ j \in 1..top /\ k \in Nat
    BY <1>1, <1>3
  <2>3. up[j] \in 0..k
    <3>1. up[j] \in 0..(j - 1) /\ j - 1 = k
      BY <1>1, <2>2
    <3> QED  BY <3>1
  <2>4. \A n \in 0..k : g[n] = f[n]
    BY <2>2
  <2>5. g[j] = {j} \cup f[up[j]]
    BY <2>2
  <2>6. IsUpTo(g, j)
    <3>1. ASSUME NEW n \in 0..j
          PROVE  g[n] = IF n = 0 THEN {} ELSE {n} \cup g[up[n]]
      <4>1. CASE n = j
        <5>1. g[up[j]] = f[up[j]] /\ n # 0
          BY <2>2, <2>3, <2>4, <4>1
        <5> HIDE DEF g
        <5> QED  BY <2>5, <4>1, <5>1
      <4>2. CASE n # j
        <5>1. n \in 0..k
          BY <2>2, <4>2
        <5>2. n # 0 => up[n] \in 0..k
          <6>1. n # 0 => n \in 1..top /\ up[n] \in 0..(n - 1)
            BY <1>1, <2>2, <5>1
          <6> QED  BY <2>2, <5>1, <6>1
        <5> HIDE DEF g, j
        <5> QED  BY <2>1, <2>4, <5>1, <5>2
      <4> QED  BY <4>1, <4>2
    <3> HIDE DEF g, j
    <3> QED  BY <3>1
  <2> HIDE DEF IsUpTo, g
  <2> QED  BY <2>2, <2>6
<1>4. top \in S
  <2> HIDE DEF S
  <2> QED  BY <1>1, <1>2, <1>3, HoldsUpTo
<1>5. PICK f : IsUpTo(f, top)
  <2> HIDE DEF IsUpTo
  <2> QED  BY <1>4
<1> DEFINE g == [n \in 0..top |-> f[n]]
<1>6. IsAbove(g)
  <2>1. ASSUME NEW n \in 0..top
        PROVE  g[n] = IF n = 0 THEN {} ELSE {n} \cup g[up[n]]
    <3>1. n # 0 => up[n] \in 0..top
      <4>1. n # 0 => n \in 1..top /\ up[n] \in 0..(n - 1)
        BY <1>1
      <4> QED  BY <1>1, <4>1
    <3> QED  BY <1>5, <3>1
  <2>2. g = [n \in 0..top |-> g[n]]
    OBVIOUS
  <2> HIDE DEF g
  <2> QED  BY <2>1, <2>2
<1> DEFINE above == CHOOSE above : IsAbove(above)
<1>7. IsAbove(above)
  <2> HIDE DEF IsAbove
  <2> QED  BY <1>6
<1>8. Above(plan) = above
  BY Zenon DEF Above, top, up
<1> HIDE DEF above
<1>9. above[0] = {} /\ \A n \in 1..top : above[n] = {n} \cup above[up[n]]
  BY <1>1, <1>7
<1> QED  BY <1>8, <1>9 DEF top, up

\* The nodes above a node, itself included: before it and after the root, all above what
\* is below them, and in one line.
LEMMA AboveProperties ==
    ASSUME NEW plan, IsPlanTree(plan), NEW n \in 1..plan.size
    PROVE  /\ n \in Above(plan)[n] /\ 1 \in Above(plan)[n] /\ Above(plan)[n] \subseteq 1..n
           /\ Above(plan)[n] \subseteq 1..plan.size
           /\ \A k \in Above(plan)[n] : Above(plan)[k] \subseteq Above(plan)[n]
           /\ \A c, k \in Above(plan)[n] : k <= c => k \in Above(plan)[c]
<1> DEFINE top == plan.size
           up == plan.up
           A == Above(plan)
           Good(m) == /\ m \in A[m] /\ 1 \in A[m] /\ A[m] \subseteq 1..m
                      /\ \A k \in A[m] : A[k] \subseteq A[m]
                      /\ \A c, k \in A[m] : k <= c => k \in A[c]
           S == {k \in 0..top : \A m \in 1..top : m <= k => Good(m)}
<1>1. top \in Nat /\ \A m \in 1..top : up[m] \in 0..(m - 1) /\ m \in Nat /\ (up[m] = 0 <=> m = 1)
  BY UpIsBefore DEF IsPlanTree
<1>2. A[0] = {} /\ \A m \in 1..top : A[m] = {m} \cup A[up[m]]
  BY AboveIs
<1> HIDE DEF top, up, A
<1>3. 0 \in S
  BY <1>1
<1>4. ASSUME NEW k \in 0..top, k \in S, k < top
      PROVE  k + 1 \in S
  <2> DEFINE j == k + 1
             p == up[j]
  <2>1. j \in 1..top /\ k \in Nat /\ j - 1 = k /\ j \in 0..top
    BY <1>1, <1>4
  <2>2. A[j] = {j} \cup A[p]
    BY <1>2, <2>1
  <2>3. Good(j)
    <3>1. CASE p = 0
      <4>1. A[j] = {j} /\ j = 1
        BY <1>1, <1>2, <2>1, <2>2, <3>1
      <4> HIDE DEF j, p
      <4> QED  BY <4>1
    <3>2. CASE p # 0
      <4>1. p \in 1..k /\ p \in 1..top /\ p <= k
        <5>1. p \in 0..(j - 1)
          BY <1>1, <2>1
        <5> HIDE DEF p
        <5> QED  BY <1>1, <2>1, <3>2, <5>1
      <4>2. Good(p)
        <5> HIDE DEF Good, p
        <5> QED  BY <1>4, <4>1
      <4>3. A[j] \subseteq 1..j
        <5> HIDE DEF p, j
        <5>1. A[p] \subseteq 1..p /\ p \in Nat /\ p <= j /\ j \in Nat
          BY <2>1, <4>1, <4>2 
        <5> QED  BY <2>2, <5>1
      <4>4. j \in A[j] /\ 1 \in A[j] /\ \A i \in A[j] : A[i] \subseteq A[j]
        <5> HIDE DEF p, j
        <5> QED  BY <2>2, <4>2
      <4>5. ASSUME NEW c \in A[j], NEW i \in A[j], i <= c
            PROVE  i \in A[c]
        <5>1. CASE c = j
          BY <5>1
        <5>2. CASE c # j
          <6>1. c \in A[p] /\ c <= k /\ c \in Int
            <7> HIDE DEF p, j
            <7>1. c \in A[p]
              BY <2>2, <5>2
            <7>2. A[p] \subseteq 1..p
              BY <4>2
            <7> QED  BY <2>1, <4>1, <7>1, <7>2
          <6>2. i \in A[p]
            <7>1. i # j
              BY <2>1, <4>5, <6>1
            <7> HIDE DEF p, j
            <7> QED  BY <2>2, <7>1
          <6> HIDE DEF p, j
          <6> QED  BY <4>2, <4>5, <6>1, <6>2
        <5> QED  BY <5>1, <5>2
      <4> HIDE DEF p, j
      <4> QED  BY <4>3, <4>4, <4>5
    <3> QED  BY <3>1, <3>2
  <2>4. \A m \in 1..top : m <= j => Good(m)
    <3>1. \A m \in 1..top : m <= j => m <= k \/ m = j
      BY <2>1
    <3> HIDE DEF Good, j
    <3> QED  BY <1>4, <2>3, <3>1
  <2> HIDE DEF Good
  <2> QED  BY <2>1, <2>4
<1>5. top \in S
  <2> HIDE DEF S
  <2> QED  BY <1>1, <1>3, <1>4, HoldsUpTo
<1>6. Good(n) /\ n \in 1..top
  <2>1. n \in 1..top /\ n <= top
    BY <1>1 DEF top
  <2> HIDE DEF Good
  <2> QED  BY <1>5, <2>1
<1>7. A[n] \subseteq 1..top
  <2>1. 1..n \subseteq 1..top
    BY <1>1, <1>6
  <2> QED  BY <1>6, <2>1
<1> QED  BY <1>6, <1>7 DEF A, top

\* What the recursion counts under a node: what is below it by steps that are followed.
Under(plan, m) ==
    {n \in 1..plan.size : m \in Above(plan)[n] /\ \A k \in Above(plan)[n] : k > m => IsFollowed(plan, k)}
Followed(plan, m) == {c \in 1..plan.size : plan.up[c] = m /\ IsFollowed(plan, c)}

LEMMA FollowedAreBehind ==
    ASSUME NEW plan, IsPlanTree(plan), NEW m \in 1..plan.size, NEW c \in Followed(plan, m)
    PROVE  c \in (m + 1)..plan.size /\ Above(plan)[c] = {c} \cup Above(plan)[m]
           /\ Above(plan)[m] \subseteq 1..m /\ plan.up[c] = m
<1>1. c \in 1..plan.size /\ plan.up[c] = m
  BY DEF Followed
<1>2. plan.up[c] \in 0..(c - 1) /\ plan.size \in Nat
  BY <1>1, UpIsBefore DEF IsPlanTree
<1>3. c \in (m + 1)..plan.size
  BY <1>1, <1>2
<1> QED  BY <1>1, <1>3, AboveIs, AboveProperties

LEMMA UnderIsApart ==
    ASSUME NEW plan, IsPlanTree(plan), NEW m \in 1..plan.size
    PROVE  /\ m \in Under(plan, m)
           /\ \A c \in Followed(plan, m) : m \notin Under(plan, c)
           /\ \A c, d \in Followed(plan, m) : c # d => Under(plan, c) \cap Under(plan, d) = {}
<1> DEFINE A == Above(plan)
           U(c) == Under(plan, c)
<1>1. A[m] \subseteq 1..m /\ m \in A[m] /\ plan.size \in Nat
  BY AboveProperties DEF IsPlanTree
<1>2. m \in U(m)
  <2>1. \A k \in A[m] : ~(k > m)
    BY <1>1
  <2> QED  BY <1>1, <2>1 DEF Under
<1>3. \A c \in Followed(plan, m) : m \notin U(c)
  <2>1. ASSUME NEW c \in Followed(plan, m)
        PROVE  c \notin A[m]
    <3>1. c \in (m + 1)..plan.size
      BY FollowedAreBehind
    <3> HIDE DEF A
    <3> QED  BY <1>1, <3>1
  <2> QED  BY <2>1 DEF Under
<1>4. ASSUME NEW c \in Followed(plan, m), NEW d \in Followed(plan, m), c < d
      PROVE  U(c) \cap U(d) = {}
  <2>1. SUFFICES ASSUME NEW n \in U(c), n \in U(d) PROVE FALSE
    OBVIOUS
  <2>2. n \in 1..plan.size /\ c \in A[n] /\ d \in A[n]
    BY <2>1 DEF Under
  <2>3. c \in A[d]
    <3>1. c <= d
      BY <1>4, FollowedAreBehind
    <3> QED  BY <2>2, <3>1, AboveProperties
  <2>4. A[d] = {d} \cup A[m] /\ c \in (m + 1)..plan.size
    BY FollowedAreBehind
  <2> HIDE DEF A
  <2>5. c # d
    BY <1>4, <2>4
  <2>6. c \in A[m]
    BY <2>3, <2>4, <2>5
  <2> QED  BY <1>1, <2>4, <2>6
<1>5. \A c, d \in Followed(plan, m) : c # d => U(c) \cap U(d) = {}
  <2>1. SUFFICES ASSUME NEW c \in Followed(plan, m), NEW d \in Followed(plan, m), c # d
                 PROVE  U(c) \cap U(d) = {}
    OBVIOUS
  <2>2. c \in Int /\ d \in Int
    BY FollowedAreBehind
  <2>3. c < d \/ d < c
    BY <2>1, <2>2
  <2> HIDE DEF U
  <2> QED  BY <1>4, <2>3
<1> QED  BY <1>2, <1>3, <1>5

LEMMA UnderSplits ==
    ASSUME NEW plan, IsPlanTree(plan), NEW m \in 1..plan.size
    PROVE  Under(plan, m) = {m} \cup UNION {Under(plan, c) : c \in Followed(plan, m)}
<1> DEFINE top == plan.size
           up == plan.up
           A == Above(plan)
           U(c) == Under(plan, c)
           K == Followed(plan, m)
           IsIn(n) == n \in U(m) => n = m \/ \E c \in K : n \in U(c)
           S == {k \in 0..top : \A n \in 1..top : n <= k => IsIn(n)}
<1>1. top \in Nat /\ \A n \in 1..top : /\ up[n] \in 0..(n - 1) /\ n \in Nat
                                       /\ (up[n] = 0 <=> n = 1)
  BY UpIsBefore DEF IsPlanTree
<1>2. A[0] = {} /\ \A n \in 1..top : A[n] = {n} \cup A[up[n]]
  BY AboveIs
<1>3. \A n \in 1..top : /\ n \in A[n] /\ A[n] \subseteq 1..n
                        /\ \A k \in A[n] : A[k] \subseteq A[n]
                        /\ \A c, k \in A[n] : k <= c => k \in A[c]
  BY AboveProperties
<1>4. \A c \in 1..top : \A n : n \in U(c) <=>
         n \in 1..top /\ c \in A[n] /\ \A k \in A[n] : k > c => IsFollowed(plan, k)
  BY DEF Under
<1>5. \A c \in K : /\ c \in 1..top /\ up[c] = m /\ IsFollowed(plan, c) /\ c > m
                   /\ A[c] = {c} \cup A[m]
  <2>1. ASSUME NEW c \in K
        PROVE  /\ c \in 1..top /\ up[c] = m /\ IsFollowed(plan, c) /\ c > m
               /\ A[c] = {c} \cup A[m]
    <3>1. c \in (m + 1)..top /\ A[c] = {c} \cup A[m]
      BY FollowedAreBehind
    <3>2. c \in 1..top /\ up[c] = m /\ IsFollowed(plan, c)
      BY DEF Followed
    <3>3. c > m
      BY <3>1
    <3> HIDE DEF A, top, up
    <3> QED  BY <3>1, <3>2, <3>3
  <2> QED  BY <2>1
<1>6. \A c \in 1..top : up[c] = m /\ IsFollowed(plan, c) => c \in K
  BY DEF Followed
<1>m. m \in 1..top
  OBVIOUS
<1> HIDE DEF top, up, A, U, K
<1>7. 0 \in S
  BY <1>1
<1>8. ASSUME NEW k \in 0..top, k \in S, k < top
      PROVE  k + 1 \in S
  <2> DEFINE j == k + 1
             p == up[j]
  <2>1. j \in 1..top /\ k \in Nat /\ j - 1 = k /\ j \in 0..top
    BY <1>1, <1>8
  <2>2. A[j] = {j} \cup A[p]
    BY <1>2, <2>1
  <2>3. ASSUME j \in U(m), j # m
        PROVE  \E c \in K : j \in U(c)
    <3>1. m \in A[j] /\ \A i \in A[j] : i > m => IsFollowed(plan, i)
      BY <1>4, <1>m, <2>3
    <3>2. m \in A[p]
      <4> HIDE DEF p, j
      <4> QED  BY <2>2, <2>3, <3>1
    <3>3. p \in 1..k /\ p \in 1..top /\ p <= k
      <4>1. p # 0
        BY <1>2, <3>2
      <4>2. p \in 0..(j - 1)
        BY <1>1, <2>1
      <4> HIDE DEF p, j
      <4> QED  BY <1>1, <2>1, <4>1, <4>2
    <3>4. m <= p /\ j > m
      <4>1. A[p] \subseteq 1..p
        BY <1>3, <3>3
      <4>2. m \in 1..p
        BY <3>2, <4>1
      <4> HIDE DEF p
      <4> QED  BY <2>1, <3>3, <4>2
    <3>5. CASE p = m
      <4>1. IsFollowed(plan, j)
        <5>1. j \in A[j]
          BY <1>3, <2>1
        <5> HIDE DEF j
        <5> QED  BY <3>1, <3>4, <5>1
      <4>2. j \in K
        BY <1>6, <2>1, <3>5, <4>1
      <4>3. j \in U(j)
        <5>1. j \in A[j] /\ A[j] \subseteq 1..j
          BY <1>3, <2>1
        <5>2. \A i \in A[j] : ~(i > j)
          <6> HIDE DEF j
          <6> QED  BY <2>1, <5>1
        <5> HIDE DEF j
        <5> QED  BY <1>4, <2>1, <5>1, <5>2
      <4> HIDE DEF j
      <4> QED  BY <4>2, <4>3
    <3>6. CASE p # m
      <4>1. p \in U(m)
        <5>1. A[p] \subseteq A[j]
          BY <2>2
        <5> HIDE DEF p, j
        <5> QED  BY <1>4, <1>m, <3>1, <3>2, <3>3, <5>1
      <4>2. PICK c \in K : p \in U(c)
        <5>1. IsIn(p)
          <6> HIDE DEF IsIn, p
          <6> QED  BY <1>8, <3>3
        <5> HIDE DEF p
        <5> QED  BY <3>6, <4>1, <5>1
      <4>3. c \in A[j]
        <5>1. c \in A[p]
          <6> HIDE DEF p
          <6> QED  BY <1>4, <1>5, <4>2
        <5> HIDE DEF p, j
        <5> QED  BY <2>2, <5>1
      <4>4. \A i \in A[j] : i > c => i > m
        <5>1. c > m /\ c \in Int /\ m \in Int
          BY <1>1, <1>5, <1>m
        <5>2. A[j] \subseteq Int
          <6>1. A[j] \subseteq 1..j
            BY <1>3, <2>1
          <6> QED  BY <6>1
        <5> HIDE DEF j
        <5> QED  BY <5>1, <5>2
      <4>5. j \in U(c)
        <5> HIDE DEF j
        <5> QED  BY <1>4, <1>5, <2>1, <3>1, <4>3, <4>4
      <4> QED  BY <4>5
    <3> QED  BY <3>5, <3>6
  <2>4. \A n \in 1..top : n <= j => IsIn(n)
    <3>1. \A n \in 1..top : n <= j => n <= k \/ n = j
      BY <2>1
    <3>2. IsIn(j)
      <4> HIDE DEF j
      <4> QED  BY <2>3
    <3> HIDE DEF IsIn, j
    <3> QED  BY <1>8, <3>1, <3>2
  <2> HIDE DEF IsIn
  <2> QED  BY <2>1, <2>4
<1>9. top \in S
  <2> HIDE DEF S
  <2> QED  BY <1>1, <1>7, <1>8, HoldsUpTo
<1>10. ASSUME NEW n \in U(m)
       PROVE  n = m \/ \E c \in K : n \in U(c)
  <2>1. n \in 1..top
    BY <1>4, <1>m
  <2>2. n <= top
    BY <1>1, <2>1
  <2> QED  BY <1>9, <2>1, <2>2
<1>11. m \in U(m)
  BY UnderIsApart DEF U
<1>12. ASSUME NEW c \in K, NEW n \in U(c)
       PROVE  n \in U(m)
  <2>1. n \in 1..top /\ c \in A[n] /\ \A k \in A[n] : k > c => IsFollowed(plan, k)
    BY <1>4, <1>5
  <2>2. m \in A[n]
    <3>1. m \in A[c] /\ A[c] \subseteq A[n]
      BY <1>3, <1>5, <1>m, <2>1
    <3> QED  BY <3>1
  <2>3. ASSUME NEW k \in A[n], k > m
        PROVE  IsFollowed(plan, k)
    <3>1. k \in Int /\ c \in Int
      BY <1>1, <1>3, <1>5, <2>1
    <3>2. CASE k > c
      BY <2>1, <3>2
    <3>3. CASE k <= c
      <4>1. k \in A[c]
        BY <1>3, <2>1, <3>3
      <4>2. k \notin A[m]
        <5>1. A[m] \subseteq 1..m /\ m \in Int
          BY <1>1, <1>3, <1>m
        <5> QED  BY <2>3, <3>1, <5>1
      <4>3. k = c
        BY <1>5, <4>1, <4>2
      <4> QED  BY <1>5, <4>3
    <3> QED  BY <3>1, <3>2, <3>3
  <2> QED  BY <1>4, <1>m, <2>1, <2>2, <2>3
<1>13. U(m) = {m} \cup UNION {U(c) : c \in K}
  BY <1>10, <1>11, <1>12
<1> QED  BY <1>13 DEF U, K

\* A sequence that lists a set: all of its elements and each once.
Lists(s, S) ==
    /\ s \in Seq(S)
    /\ \A x \in S : \E i \in 1..Len(s) : s[i] = x
    /\ \A i, j \in 1..Len(s) : s[i] = s[j] => i = j

LEMMA ListsNothing == Lists(<<>>, {})
BY DEF Lists

LEMMA ListsOneMore ==
    ASSUME NEW S, NEW s, Lists(s, S), NEW x, x \notin S
    PROVE  Lists(Append(s, x), S \cup {x})
<1> DEFINE t == Append(s, x)
           T == S \cup {x}
<1>1. s \in Seq(S) /\ s \in Seq(T) /\ Len(s) \in Nat /\ \A i \in 1..Len(s) : s[i] \in S
  <2>1. s \in Seq(S)
    BY DEF Lists
  <2>2. \A i \in 1..Len(s) : s[i] \in S
    BY <2>1
  <2>3. S \subseteq T
    OBVIOUS
  <2> HIDE DEF T
  <2> QED  BY <2>1, <2>2, <2>3
<1>2. /\ t \in Seq(T) /\ Len(t) = Len(s) + 1 /\ t[Len(s) + 1] = x
      /\ \A i \in 1..Len(s) : t[i] = s[i]
  <2>1. x \in T
    OBVIOUS
  <2> HIDE DEF T
  <2> QED  BY <1>1, <2>1
<1>3. \A i \in 1..Len(t) : i \in 1..Len(s) \/ i = Len(s) + 1
  BY <1>1, <1>2
<1>4. 1..Len(s) \subseteq 1..Len(t) /\ Len(s) + 1 \in 1..Len(t)
  BY <1>1, <1>2
<1> HIDE DEF t
<1>5. \A y \in T : \E i \in 1..Len(t) : t[i] = y
  BY <1>2, <1>4 DEF Lists
<1>6. ASSUME NEW i \in 1..Len(t), NEW j \in 1..Len(t), t[i] = t[j]
      PROVE  i = j
  <2>1. CASE i \in 1..Len(s) /\ j \in 1..Len(s)
    BY <1>2, <1>6, <2>1 DEF Lists
  <2>2. CASE ~(i \in 1..Len(s) /\ j \in 1..Len(s))
    BY <1>1, <1>2, <1>3, <1>6, <2>2
  <2> QED  BY <2>1, <2>2
<1>7. Lists(t, T)
  BY <1>2, <1>5, <1>6 DEF Lists
<1> QED  BY <1>7 DEF t

LEMMA ListsBoth ==
    ASSUME NEW S, NEW s, Lists(s, S), NEW T, NEW t, Lists(t, T), S \cap T = {}
    PROVE  Lists(s \o t, S \cup T)
<1> DEFINE u == s \o t
           U == S \cup T
           m == Len(s)
           n == Len(t)
<1>1. /\ s \in Seq(S) /\ m \in Nat /\ \A i \in 1..m : s[i] \in S
      /\ t \in Seq(T) /\ n \in Nat /\ \A i \in 1..n : t[i] \in T
  BY DEF Lists
<1>2. s \in Seq(U) /\ t \in Seq(U)
  <2>1. S \subseteq U /\ T \subseteq U
    OBVIOUS
  <2> HIDE DEF U
  <2> QED  BY <1>1, <2>1
<1>3. /\ u \in Seq(U) /\ Len(u) = m + n
      /\ \A i \in 1..m : u[i] = s[i]
      /\ \A i \in 1..n : u[m + i] = t[i]
  <2> HIDE DEF U
  <2>1. \A i \in 1..Len(u) : u[i] = IF i <= m THEN s[i] ELSE t[i - m]
    BY <1>2
  <2>2. u \in Seq(U) /\ Len(u) = m + n
    BY <1>2
  <2> HIDE DEF u, m, n
  <2>3. \A i \in 1..m : i \in 1..(m + n) /\ i <= m
    BY <1>1
  <2>4. \A i \in 1..n : m + i \in 1..(m + n) /\ ~(m + i <= m) /\ m + i - m = i
    BY <1>1
  <2>5. \A i \in 1..m : u[i] = s[i]
    BY <2>1, <2>2, <2>3
  <2>6. ASSUME NEW i \in 1..n
        PROVE  u[m + i] = t[i]
    <3> DEFINE k == m + i
    <3>1. k \in 1..(m + n) /\ ~(k <= m) /\ k - m = i
      BY <1>1
    <3> HIDE DEF k
    <3>2. u[k] = t[k - m]
      BY <2>1, <2>2, <3>1
    <3>3. u[k] = t[i]
      BY <3>1, <3>2
    <3> QED  BY <3>3 DEF k
  <2> QED  BY <2>2, <2>5, <2>6
<1>4. \A i \in 1..(m + n) : i \in 1..m \/ \E k \in 1..n : i = m + k
  <2> HIDE DEF m, n
  <2>1. ASSUME NEW i \in 1..(m + n), i \notin 1..m
        PROVE  i - m \in 1..n /\ i = m + (i - m)
    BY <1>1, <2>1
  <2> QED  BY <2>1
<1>5. \A i \in 1..m : i \in 1..(m + n)
  <2> HIDE DEF m, n
  <2> QED  BY <1>1
<1>6. \A i \in 1..n : m + i \in 1..(m + n)
  <2> HIDE DEF m, n
  <2> QED  BY <1>1
<1>7. /\ \A x \in S : \E i \in 1..m : s[i] = x
      /\ \A x \in T : \E i \in 1..n : t[i] = x
      /\ \A i, j \in 1..m : s[i] = s[j] => i = j
      /\ \A i, j \in 1..n : t[i] = t[j] => i = j
  BY DEF Lists
<1> HIDE DEF u, m, n
<1>8. \A x \in U : \E i \in 1..(m + n) : u[i] = x
  <2>1. \A x \in S : \E i \in 1..(m + n) : u[i] = x
    BY <1>3, <1>5, <1>7
  <2>2. \A x \in T : \E i \in 1..(m + n) : u[i] = x
    BY <1>3, <1>6, <1>7
  <2> QED  BY <2>1, <2>2
<1>9. ASSUME NEW i \in 1..(m + n), NEW j \in 1..(m + n), u[i] = u[j]
      PROVE  i = j
  <2>1. CASE i \in 1..m /\ j \in 1..m
    BY <1>3, <1>7, <1>9, <2>1
  <2>2. ASSUME i \notin 1..m, j \notin 1..m
        PROVE  i = j
    <3>1. PICK k \in 1..n : i = m + k
      BY <1>4, <2>2
    <3>2. PICK l \in 1..n : j = m + l
      BY <1>4, <2>2
    <3>3. t[k] = t[l]
      BY <1>3, <1>9, <3>1, <3>2
    <3> QED  BY <1>7, <3>1, <3>2, <3>3
  <2>3. \A k \in 1..m : \A l \in 1..n : u[k] # u[m + l]
    BY <1>1, <1>3
  <2>4. ~(i \in 1..m /\ j \notin 1..m) /\ ~(i \notin 1..m /\ j \in 1..m)
    BY <1>4, <1>9, <2>3
  <2> QED  BY <2>1, <2>2, <2>4
<1>10. Lists(u, U)
  BY <1>3, <1>8, <1>9 DEF Lists
<1> QED  BY <1>10 DEF u

\* The children of a node in a field are listed.
LEMMA ChildrenAreListed ==
    ASSUME NEW plan, IsPlanTree(plan), NEW n, NEW link
    PROVE  Lists(Stats!Children(plan, n, link),
                 {c \in 1..plan.size : plan.up[c] = n /\ plan.link[c] = link})
<1> DEFINE top == plan.size
           ids == [i \in DOMAIN plan.up |-> i]
           Is(c) == plan.up[c] = n /\ plan.link[c] = link
           More(s, c) == IF plan.up[c] = n /\ plan.link[c] = link THEN Append(s, c) ELSE s
           V == Seq(Nat)
           step == [i \in 1..top |-> [v \in V |-> More(v, i)]]
           IsFold(iter) == iter = [s \in SUBSET (DOMAIN ids) |->
                              IF s = {} THEN <<>>
                              ELSE More(iter[s \ {Greatest(s)}], ids[Greatest(s)])]
           fold == CHOOSE fold : IsFold(fold)
           K(k) == {c \in 1..k : Is(c)}
<1>1. top \in Nat /\ DOMAIN ids = 1..top /\ \A i \in 1..top : ids[i] = i
  BY DEF IsPlanTree
<1>2. <<>> \in V /\ \A i \in 1..top : \A v \in V : More(v, i) \in V
  <2>1. <<>> \in V
    OBVIOUS
  <2>2. ASSUME NEW i \in 1..top, NEW v \in V
        PROVE  More(v, i) \in V
    <3>1. Append(v, i) \in V
      OBVIOUS
    <3> HIDE DEF V
    <3> QED  BY <3>1
  <2> QED  BY <2>1, <2>2
<1>3. PICK iter : iter \in Folds(top, V, <<>>, step)
  <2>1. \A i \in 1..top : \A v \in V : step[i][v] \in V
    BY <1>2
  <2> HIDE DEF top, V, step
  <2> QED  BY <1>1, <1>2, <2>1, FoldExists
<1>4. IsFold(iter)
  <2>1. ASSUME NEW s \in SUBSET (1..top), s # {}
        PROVE  iter[s] = More(iter[s \ {Greatest(s)}], ids[Greatest(s)])
    <3>1. Greatest(s) \in 1..top
      <4> HIDE DEF top
      <4> QED  BY <1>1, <2>1, GreatestOfSet
    <3>2. iter[s] = step[Greatest(s)][iter[s \ {Greatest(s)}]]
      <4> HIDE DEF step, top, V
      <4> QED  BY <1>3, <2>1 DEF Folds
    <3>3. iter[s \ {Greatest(s)}] \in V
      <4> HIDE DEF step, top, V
      <4> QED  BY <1>3 DEF Folds
    <3>4. ids[Greatest(s)] = Greatest(s)
      BY <1>1, <3>1
    <3> HIDE DEF top, V, ids, More
    <3> QED  BY <3>1, <3>2, <3>3, <3>4
  <2>2. iter[{}] = <<>> /\ iter = [s \in SUBSET (1..top) |-> iter[s]]
    <3> HIDE DEF step, top, V
    <3> QED  BY <1>3 DEF Folds
  <2> HIDE DEF step, top, V, ids, More
  <2> QED  BY <1>1, <2>1, <2>2
<1>5. IsFold(fold)
  <2> HIDE DEF IsFold
  <2> QED  BY <1>4
<1>6. Stats!Children(plan, n, link) = fold[DOMAIN ids]
  BY Zenon DEF Stats!Children, Stats!FoldLeftDomain, Stats!FoldLeft, Stats!MapThenFoldSet,
               Stats!Max, Greatest
<1> HIDE DEF fold, V, step
<1> DEFINE G == {k \in 0..top : Lists(fold[1..k], K(k))}
<1>7. 0 \in G
  <2>1. 1..0 = {} /\ K(0) = {}
    OBVIOUS
  <2>2. fold[{}] = <<>>
    <3> HIDE DEF ids, More
    <3> QED  BY <1>5
  <2> HIDE DEF K, top
  <2> QED  BY <1>1, <2>1, <2>2, ListsNothing
<1>8. ASSUME NEW k \in 0..top, k \in G, k < top
      PROVE  k + 1 \in G
  <2> DEFINE j == k + 1
             g == Greatest(1..j)
  <2>1. j \in 1..top /\ j \in 0..top /\ j - 1 = k /\ k \in Nat
    BY <1>1, <1>8
  <2>2. /\ 1..j \in SUBSET (DOMAIN ids) /\ 1..j # {} /\ g = j
        /\ (1..j) \ {j} = 1..k
    <3> HIDE DEF ids, top, j
    <3>1. /\ 1..j \in SUBSET (1..top) /\ 1..j # {} /\ Greatest(1..j) = j
          /\ (1..j) \ {j} = 1..(j - 1)
      BY <1>1, <2>1, GreatestOfInterval
    <3> QED  BY <1>1, <2>1, <3>1
  <2>3. fold[1..j] = More(fold[(1..j) \ {g}], ids[g])
    <3> HIDE DEF ids, More, top, j, g
    <3>1. fold[1..j] = More(fold[(1..j) \ {Greatest(1..j)}], ids[Greatest(1..j)])
      BY <1>5, <2>2
    <3> QED  BY <3>1 DEF g
  <2>4. fold[1..j] = More(fold[1..k], j)
    <3>1. ids[j] = j
      BY <1>1, <2>1
    <3> HIDE DEF ids, More, top, j, g
    <3> QED  BY <2>2, <2>3, <3>1
  <2>5. K(j) = (IF Is(j) THEN K(k) \cup {j} ELSE K(k)) /\ j \notin K(k)
    <3>1. 1..j = (1..k) \cup {j} /\ j \notin 1..k
      BY <2>1
    <3> HIDE DEF j, Is
    <3> QED  BY <3>1
  <2>6. Lists(fold[1..j], K(j))
    <3>1. Lists(fold[1..k], K(k))
      BY <1>8
    <3>2. CASE Is(j)
      <4>1. Lists(Append(fold[1..k], j), K(k) \cup {j})
        <5> HIDE DEF K, j
        <5> QED  BY <2>5, <3>1, ListsOneMore
      <4> HIDE DEF K, j
      <4> QED  BY <2>4, <2>5, <3>2, <4>1
    <3>3. CASE ~Is(j)
      <4> HIDE DEF K, j
      <4> QED  BY <2>4, <2>5, <3>1, <3>3
    <3> QED  BY <3>2, <3>3
  <2> HIDE DEF K
  <2> QED  BY <2>1, <2>6
<1>9. top \in G
  <2> HIDE DEF G
  <2> QED  BY <1>1, <1>7, <1>8, HoldsUpTo
<1>10. Lists(Stats!Children(plan, n, link), K(top))
  <2> HIDE DEF K, ids, top
  <2> QED  BY <1>1, <1>6, <1>9
<1> QED  BY <1>10 DEF top, K, Is

\* The children that are visited are those below a step that is followed.
LEMMA VisitedAreListed ==
    ASSUME NEW plan, IsPlanTree(plan), NEW n \in 1..plan.size
    PROVE  Lists(Stats!Visited(plan, n), Followed(plan, n))
<1> DEFINE K(link) == {c \in 1..plan.size : plan.up[c] = n /\ plan.link[c] = link}
           list == IF plan.kind[n] \in Stats!ListKinds
                   THEN Stats!Children(plan, n, "list") ELSE <<>>
           subplan == IF plan.kind[n] = "subquery scan"
                      THEN Stats!Children(plan, n, "subplan") ELSE <<>>
           L == IF plan.kind[n] \in Stats!ListKinds THEN K("list") ELSE {}
           P == IF plan.kind[n] = "subquery scan" THEN K("subplan") ELSE {}
<1>1. Lists(Stats!Children(plan, n, "outer"), K("outer"))
  BY ChildrenAreListed
<1>2. Lists(Stats!Children(plan, n, "inner"), K("inner"))
  BY ChildrenAreListed
<1>3. Lists(list, L)
  <2>1. Lists(Stats!Children(plan, n, "list"), K("list"))
    BY ChildrenAreListed
  <2> HIDE DEF K
  <2> QED  BY <2>1, ListsNothing
<1>4. Lists(subplan, P)
  <2>1. Lists(Stats!Children(plan, n, "subplan"), K("subplan"))
    BY ChildrenAreListed
  <2> HIDE DEF K
  <2> QED  BY <2>1, ListsNothing
<1>5. /\ K("outer") \cap K("inner") = {} /\ (K("outer") \cup K("inner")) \cap L = {}
      /\ (K("outer") \cup K("inner") \cup L) \cap P = {}
  OBVIOUS
<1>6. Followed(plan, n) = K("outer") \cup K("inner") \cup L \cup P
  <2>1. n # 0
    BY DEF IsPlanTree
  <2>2. ASSUME NEW c \in 1..plan.size, plan.up[c] = n
        PROVE  IsFollowed(plan, c) <=>
                  \/ plan.link[c] \in {"outer", "inner"}
                  \/ plan.link[c] = "list" /\ plan.kind[n] \in Stats!ListKinds
                  \/ plan.link[c] = "subplan" /\ plan.kind[n] = "subquery scan"
    BY <2>1, <2>2 DEF IsFollowed
  <2> QED  BY <2>2 DEF Followed
<1>7. Stats!Visited(plan, n) =
         ((Stats!Children(plan, n, "outer") \o Stats!Children(plan, n, "inner")) \o list) \o subplan
  BY DEF Stats!Visited
<1> HIDE DEF list, subplan, L, P, K
<1>8. Lists(Stats!Children(plan, n, "outer") \o Stats!Children(plan, n, "inner"),
            K("outer") \cup K("inner"))
  BY <1>1, <1>2, <1>5, ListsBoth
<1>9. Lists((Stats!Children(plan, n, "outer") \o Stats!Children(plan, n, "inner")) \o list,
            K("outer") \cup K("inner") \cup L)
  BY <1>3, <1>5, <1>8, ListsBoth
<1>10. Lists(((Stats!Children(plan, n, "outer") \o Stats!Children(plan, n, "inner")) \o list)
             \o subplan, K("outer") \cup K("inner") \cup L \cup P)
  BY <1>4, <1>5, <1>9, ListsBoth
<1> QED  BY <1>6, <1>7, <1>10

LEMMA SumOfBoth ==
    ASSUME NEW S, IsFiniteSet(S), NEW f, \A x \in S : f[x] \in Nat, NEW sum, IsSum(sum, S, f),
           NEW s \in SUBSET S, NEW t \in SUBSET S, s \cap t = {}
    PROVE  sum[s \cup t] = sum[s] + sum[t]
<1> DEFINE G == {n \in 0..Cardinality(S) :
                    \A r \in SUBSET t : Cardinality(r) <= n => sum[s \cup r] = sum[s] + sum[r]}
<1>1. Cardinality(S) \in Nat
  BY FS_CardinalityType
<1>2. /\ sum[{}] = 0
      /\ \A r \in SUBSET S : sum[r] \in Nat
      /\ \A r \in SUBSET S : \A x \in r : sum[r] = sum[r \ {x}] + f[x]
  BY SumTakesOut
<1>3. ASSUME NEW r \in SUBSET t
      PROVE  /\ r \in SUBSET S /\ s \cup r \in SUBSET S
             /\ Cardinality(r) \in Nat /\ Cardinality(r) <= Cardinality(S)
             /\ (Cardinality(r) = 0 <=> r = {})
             /\ \A x \in r : Cardinality(r \ {x}) = Cardinality(r) - 1
  <2>1. r \in SUBSET S /\ s \cup r \in SUBSET S
    OBVIOUS
  <2>2. Cardinality(r) \in 0..Cardinality(S)
    BY <2>1, ChosenIsElement
  <2>3. /\ (Cardinality(r) = 0 <=> r = {})
        /\ \A x \in r : Cardinality(r \ {x}) = Cardinality(r) - 1
    BY <2>1, ChosenIsElement
  <2> QED  BY <1>1, <2>1, <2>2, <2>3
<1>4. 0 \in G
  <2>1. ASSUME NEW r \in SUBSET t, Cardinality(r) <= 0
        PROVE  sum[s \cup r] = sum[s] + sum[r]
    <3>1. r = {}
      BY <1>3, <2>1
    <3>2. s \cup r = s /\ sum[r] = 0 /\ sum[s] \in Nat
      BY <1>2, <3>1
    <3>3. sum[s \cup r] = sum[s]
      BY <3>2
    <3> QED  BY <3>2, <3>3
  <2>2. 0 \in 0..Cardinality(S)
    BY <1>1
  <2> QED  BY <2>1, <2>2
<1>5. ASSUME NEW n \in 0..Cardinality(S), n \in G, n < Cardinality(S)
      PROVE  n + 1 \in G
  <2>1. ASSUME NEW r \in SUBSET t, Cardinality(r) <= n + 1
        PROVE  sum[s \cup r] = sum[s] + sum[r]
    <3>1. CASE r = {}
      <4>1. s \cup r = s /\ sum[r] = 0 /\ sum[s] \in Nat
        BY <1>2, <3>1
      <4> QED  BY <4>1
    <3>2. CASE r # {}
      <4>1. PICK x \in r : TRUE
        BY <3>2
      <4> DEFINE q == r \ {x}
      <4>2. q \in SUBSET t /\ q \in SUBSET S
        OBVIOUS
      <4>3. Cardinality(q) <= n
        <5>1. Cardinality(q) = Cardinality(r) - 1 /\ Cardinality(r) \in Nat
          BY <1>3
        <5> HIDE DEF q
        <5> QED  BY <2>1, <5>1
      <4>4. sum[s \cup q] = sum[s] + sum[q]
        <5> HIDE DEF q
        <5> QED  BY <1>5, <4>2, <4>3
      <4>5. (s \cup r) \ {x} = s \cup q /\ x \in s \cup r /\ s \cup r \in SUBSET S
        OBVIOUS
      <4>6. sum[s \cup r] = sum[s \cup q] + f[x] /\ sum[r] = sum[q] + f[x] /\ f[x] \in Nat
        <5>1. sum[r] = sum[q] + f[x]
          BY <1>2
        <5>2. sum[s \cup r] = sum[(s \cup r) \ {x}] + f[x]
          <6> HIDE DEF q
          <6> QED  BY <1>2, <4>5
        <5> HIDE DEF q
        <5> QED  BY <4>5, <5>1, <5>2
      <4>7. sum[s] \in Nat /\ sum[q] \in Nat
        BY <1>2, <4>2
      <4> HIDE DEF q
      <4> QED  BY <4>4, <4>6, <4>7
    <3> QED  BY <3>1, <3>2
  <2>2. n + 1 \in 0..Cardinality(S)
    BY <1>1, <1>5
  <2> QED  BY <2>1, <2>2
<1>6. Cardinality(S) \in G
  <2> HIDE DEF G
  <2> QED  BY <1>1, <1>4, <1>5, HoldsUpTo
<1> QED  BY <1>3, <1>6

-----------------------------------------------------------------------------
\* What it is to have counted some nodes of a plan, each at its depth.
Depth(plan, n) == Cardinality(Above(plan)[n])

Counted(plan, sum, before, nodes, after) ==
    /\ after \in Stats!Statistics
    /\ after.nodeCount = before.nodeCount + Cardinality(nodes)
    /\ after.scanCount =
          before.scanCount + Cardinality({n \in nodes : plan.kind[n] \in Stats!ScanKinds})
    /\ after.joinCount = before.joinCount + Cardinality({n \in nodes : plan.kind[n] = "join"})
    /\ after.parallelNodeCount =
          before.parallelNodeCount
          + (Cardinality({n \in nodes : plan.kind[n] \in Stats!GatherKinds})
             + Cardinality({n \in nodes : plan.aware[n]}))
    /\ after.workersPlanned =
          before.workersPlanned + sum[{n \in nodes : plan.kind[n] \in Stats!GatherKinds}]
    /\ before.maxDepth <= after.maxDepth
    /\ \A n \in nodes : Depth(plan, n) <= after.maxDepth
    /\ after.maxDepth = before.maxDepth \/ \E n \in nodes : after.maxDepth = Depth(plan, n)

LEMMA CountsOfBoth ==
    ASSUME NEW s, IsFiniteSet(s), NEW t, IsFiniteSet(t), s \cap t = {}
    PROVE  /\ Cardinality(s \cup t) = Cardinality(s) + Cardinality(t)
           /\ Cardinality(s) \in Nat /\ Cardinality(t) \in Nat
<1>1. Cardinality(s \cup t) = Cardinality(s) + Cardinality(t) - Cardinality(s \cap t)
  BY FS_Union
<1>2. Cardinality(s \cap t) = 0
  BY FS_EmptySet
<1>3. Cardinality(s) \in Nat /\ Cardinality(t) \in Nat
  BY FS_CardinalityType
<1> QED  BY <1>1, <1>2, <1>3

LEMMA CountsOfParts ==
    ASSUME NEW S, IsFiniteSet(S), NEW a \in SUBSET S, NEW b \in SUBSET S, a \cap b = {}
    PROVE  /\ Cardinality(a \cup b) = Cardinality(a) + Cardinality(b)
           /\ Cardinality(a) \in Nat /\ Cardinality(b) \in Nat
<1>1. IsFiniteSet(a) /\ IsFiniteSet(b)
  BY FS_Subset
<1> QED  BY <1>1, CountsOfBoth

LEMMA DepthIsNatural ==
    ASSUME NEW plan, IsPlanTree(plan), NEW n \in 1..plan.size
    PROVE  Depth(plan, n) \in Nat /\ IsFiniteSet(Above(plan)[n])
<1>1. Above(plan)[n] \in SUBSET (1..plan.size) /\ plan.size \in Nat
  BY AboveProperties DEF IsPlanTree
<1>2. IsFiniteSet(1..plan.size)
  BY <1>1, FS_Interval
<1>3. IsFiniteSet(Above(plan)[n])
  BY <1>1, <1>2, FS_Subset
<1> QED  BY <1>3, FS_CardinalityType DEF Depth

LEMMA CountedBoth ==
    ASSUME NEW plan, IsPlanTree(plan), NEW sum, IsSum(sum, 1..plan.size, plan.workers),
           NEW before \in Stats!Statistics, NEW between, NEW after,
           NEW s \in SUBSET (1..plan.size), NEW t \in SUBSET (1..plan.size), s \cap t = {},
           Counted(plan, sum, before, s, between), Counted(plan, sum, between, t, after)
    PROVE  Counted(plan, sum, before, s \cup t, after)
<1> DEFINE N == 1..plan.size
<1>1. /\ IsSum(sum, N, plan.workers) /\ s \in SUBSET N /\ t \in SUBSET N
      /\ \A x \in N : plan.workers[x] \in Nat
  BY DEF IsPlanTree
<1>2. IsFiniteSet(N)
  BY FS_Interval DEF IsPlanTree
<1>3. /\ after \in Stats!Statistics /\ between \in Stats!Statistics
      /\ before.nodeCount \in Nat /\ before.scanCount \in Nat /\ before.joinCount \in Nat
      /\ before.parallelNodeCount \in Nat /\ before.workersPlanned \in Nat
      /\ before.maxDepth \in Nat /\ between.maxDepth \in Nat /\ after.maxDepth \in Nat
  <2>1. after \in Stats!Statistics /\ between \in Stats!Statistics
    BY DEF Counted
  <2> QED  BY <2>1 DEF Stats!Statistics
<1>9. \A n \in s \cup t : Depth(plan, n) \in Nat
  BY DepthIsNatural
<1> HIDE DEF N
<1>4. after.nodeCount = before.nodeCount + Cardinality(s \cup t)
  <2>1. /\ between.nodeCount = before.nodeCount + Cardinality(s)
        /\ after.nodeCount = between.nodeCount + Cardinality(t)
    BY DEF Counted
  <2>2. /\ Cardinality(s \cup t) = Cardinality(s) + Cardinality(t)
        /\ Cardinality(s) \in Nat /\ Cardinality(t) \in Nat
    BY <1>1, <1>2, CountsOfParts
  <2> QED  BY <1>3, <2>1, <2>2
<1>5. after.scanCount =
         before.scanCount + Cardinality({n \in s \cup t : plan.kind[n] \in Stats!ScanKinds})
  <2> DEFINE a == {n \in s : plan.kind[n] \in Stats!ScanKinds}
             b == {n \in t : plan.kind[n] \in Stats!ScanKinds}
             c == {n \in s \cup t : plan.kind[n] \in Stats!ScanKinds}
  <2>1. /\ between.scanCount = before.scanCount + Cardinality(a)
        /\ after.scanCount = between.scanCount + Cardinality(b)
    BY DEF Counted
  <2>2. a \in SUBSET N /\ b \in SUBSET N /\ a \cap b = {} /\ c = a \cup b
    BY DEF N
  <2> HIDE DEF a, b, c
  <2>3. /\ Cardinality(a \cup b) = Cardinality(a) + Cardinality(b)
        /\ Cardinality(a) \in Nat /\ Cardinality(b) \in Nat
    BY <1>2, <2>2, CountsOfParts
  <2>4. after.scanCount = before.scanCount + Cardinality(c)
    BY <1>3, <2>1, <2>2, <2>3
  <2> QED  BY <2>4 DEF c
<1>6. after.joinCount =
         before.joinCount + Cardinality({n \in s \cup t : plan.kind[n] = "join"})
  <2> DEFINE a == {n \in s : plan.kind[n] = "join"}
             b == {n \in t : plan.kind[n] = "join"}
             c == {n \in s \cup t : plan.kind[n] = "join"}
  <2>1. /\ between.joinCount = before.joinCount + Cardinality(a)
        /\ after.joinCount = between.joinCount + Cardinality(b)
    BY DEF Counted
  <2>2. a \in SUBSET N /\ b \in SUBSET N /\ a \cap b = {} /\ c = a \cup b
    BY DEF N
  <2> HIDE DEF a, b, c
  <2>3. /\ Cardinality(a \cup b) = Cardinality(a) + Cardinality(b)
        /\ Cardinality(a) \in Nat /\ Cardinality(b) \in Nat
    BY <1>2, <2>2, CountsOfParts
  <2>4. after.joinCount = before.joinCount + Cardinality(c)
    BY <1>3, <2>1, <2>2, <2>3
  <2> QED  BY <2>4 DEF c
<1>7. after.parallelNodeCount =
         before.parallelNodeCount
         + (Cardinality({n \in s \cup t : plan.kind[n] \in Stats!GatherKinds})
            + Cardinality({n \in s \cup t : plan.aware[n]}))
  <2> DEFINE a == {n \in s : plan.kind[n] \in Stats!GatherKinds}
             b == {n \in t : plan.kind[n] \in Stats!GatherKinds}
             c == {n \in s \cup t : plan.kind[n] \in Stats!GatherKinds}
             d == {n \in s : plan.aware[n]}
             e == {n \in t : plan.aware[n]}
             f == {n \in s \cup t : plan.aware[n]}
  <2>1. /\ between.parallelNodeCount = before.parallelNodeCount + (Cardinality(a) + Cardinality(d))
        /\ after.parallelNodeCount = between.parallelNodeCount + (Cardinality(b) + Cardinality(e))
    BY DEF Counted
  <2>2. a \in SUBSET N /\ b \in SUBSET N /\ a \cap b = {} /\ c = a \cup b
    BY <1>1
  <2>3. d \in SUBSET N /\ e \in SUBSET N /\ d \cap e = {} /\ f = d \cup e
    BY <1>1
  <2> HIDE DEF a, b, c, d, e, f
  <2>4. /\ Cardinality(a \cup b) = Cardinality(a) + Cardinality(b)
        /\ Cardinality(a) \in Nat /\ Cardinality(b) \in Nat
    BY <1>2, <2>2, CountsOfParts
  <2>5. /\ Cardinality(d \cup e) = Cardinality(d) + Cardinality(e)
        /\ Cardinality(d) \in Nat /\ Cardinality(e) \in Nat
    BY <1>2, <2>3, CountsOfParts
  <2> DEFINE ca == Cardinality(a)
             cb == Cardinality(b)
             cd == Cardinality(d)
             ce == Cardinality(e)
  <2>6. after.parallelNodeCount = before.parallelNodeCount + ((ca + cb) + (cd + ce))
    <3>1. /\ between.parallelNodeCount = before.parallelNodeCount + (ca + cd)
          /\ after.parallelNodeCount = between.parallelNodeCount + (cb + ce)
          /\ before.parallelNodeCount \in Nat
          /\ ca \in Nat /\ cb \in Nat /\ cd \in Nat /\ ce \in Nat
      BY <1>3, <2>1, <2>4, <2>5
    <3> HIDE DEF ca, cb, cd, ce
    <3> QED  BY <3>1
  <2>7. after.parallelNodeCount
           = before.parallelNodeCount + (Cardinality(c) + Cardinality(f))
    BY <2>2, <2>3, <2>4, <2>5, <2>6
  <2> QED  BY <2>7 DEF c, f
<1>8. after.workersPlanned =
         before.workersPlanned + sum[{n \in s \cup t : plan.kind[n] \in Stats!GatherKinds}]
  <2> DEFINE a == {n \in s : plan.kind[n] \in Stats!GatherKinds}
             b == {n \in t : plan.kind[n] \in Stats!GatherKinds}
             c == {n \in s \cup t : plan.kind[n] \in Stats!GatherKinds}
  <2>1. /\ between.workersPlanned = before.workersPlanned + sum[a]
        /\ after.workersPlanned = between.workersPlanned + sum[b]
    BY DEF Counted
  <2>2. a \in SUBSET N /\ b \in SUBSET N /\ a \cap b = {} /\ c = a \cup b
    BY <1>1
  <2> HIDE DEF a, b, c
  <2>3. sum[a \cup b] = sum[a] + sum[b]
    BY <1>1, <1>2, <2>2, SumOfBoth
  <2>4. sum[a] \in Nat /\ sum[b] \in Nat
    BY <1>1, <1>2, <2>2, SumTakesOut
  <2>5. after.workersPlanned = before.workersPlanned + sum[c]
    BY <1>3, <2>1, <2>2, <2>3, <2>4
  <2> QED  BY <2>5 DEF c
<1>10. /\ before.maxDepth <= between.maxDepth /\ between.maxDepth <= after.maxDepth
       /\ \A n \in s : Depth(plan, n) <= between.maxDepth
       /\ \A n \in t : Depth(plan, n) <= after.maxDepth
       /\ between.maxDepth = before.maxDepth \/ \E n \in s : between.maxDepth = Depth(plan, n)
       /\ after.maxDepth = between.maxDepth \/ \E n \in t : after.maxDepth = Depth(plan, n)
  BY DEF Counted
<1>11. before.maxDepth <= after.maxDepth
  BY <1>3, <1>10
<1>12. \A n \in s \cup t : Depth(plan, n) <= after.maxDepth
  BY <1>3, <1>9, <1>10
<1>13. after.maxDepth = before.maxDepth \/ \E n \in s \cup t : after.maxDepth = Depth(plan, n)
  BY <1>10
<1> QED  BY <1>3, <1>4, <1>5, <1>6, <1>7, <1>8, <1>11, <1>12, <1>13 DEF Counted

LEMMA CountedOne ==
    ASSUME NEW plan, IsPlanTree(plan), NEW sum, IsSum(sum, 1..plan.size, plan.workers),
           NEW before \in Stats!Statistics, NEW m \in 1..plan.size
    PROVE  Counted(plan, sum, before, {m}, Stats!CountNode(plan, m, before, Depth(plan, m)))
<1> DEFINE d == Depth(plan, m)
           after == Stats!CountNode(plan, m, before, d)
           gather == {n \in {m} : plan.kind[n] \in Stats!GatherKinds}
           w == IF plan.kind[m] \in Stats!GatherKinds THEN plan.workers[m] ELSE 0
<1>1. d \in Nat /\ plan.workers[m] \in Nat
  BY DepthIsNatural DEF IsPlanTree
<1>2. /\ before.nodeCount \in Nat /\ before.scanCount \in Nat /\ before.joinCount \in Nat
      /\ before.parallelNodeCount \in Nat /\ before.workersPlanned \in Nat
      /\ before.maxDepth \in Nat
  BY DEF Stats!Statistics
<1>3. \A P : Cardinality(({m} \cap P)) = Stats!One(m \in P)
  <2>1. ASSUME NEW P, m \in P
        PROVE  Cardinality(({m} \cap P)) = Stats!One(m \in P)
    <3>1. ({m} \cap P) = {m}
      BY <2>1
    <3> QED  BY <2>1, <3>1, FS_Singleton DEF Stats!One
  <2>2. ASSUME NEW P, m \notin P
        PROVE  Cardinality(({m} \cap P)) = Stats!One(m \in P)
    <3>1. ({m} \cap P) = {}
      BY <2>2
    <3> QED  BY <2>2, <3>1, FS_EmptySet DEF Stats!One
  <2> QED  BY <2>1, <2>2
<1>4. Cardinality({m}) = 1
  BY FS_Singleton
<1> DEFINE Scans == {n \in 1..plan.size : plan.kind[n] \in Stats!ScanKinds}
           Joins == {n \in 1..plan.size : plan.kind[n] = "join"}
           Gathers == {n \in 1..plan.size : plan.kind[n] \in Stats!GatherKinds}
           Awares == {n \in 1..plan.size : plan.aware[n]}
<1>5. /\ Cardinality({n \in {m} : plan.kind[n] \in Stats!ScanKinds})
            = Stats!One(plan.kind[m] \in Stats!ScanKinds)
      /\ Cardinality({n \in {m} : plan.kind[n] = "join"}) = Stats!One(plan.kind[m] = "join")
      /\ Cardinality({n \in {m} : plan.kind[n] \in Stats!GatherKinds})
            = Stats!One(plan.kind[m] \in Stats!GatherKinds)
      /\ Cardinality({n \in {m} : plan.aware[n]}) = Stats!One(plan.aware[m])
  <2>1. /\ {n \in {m} : plan.kind[n] \in Stats!ScanKinds} = ({m} \cap Scans)
        /\ {n \in {m} : plan.kind[n] = "join"} = ({m} \cap Joins)
        /\ {n \in {m} : plan.kind[n] \in Stats!GatherKinds} = ({m} \cap Gathers)
        /\ {n \in {m} : plan.aware[n]} = ({m} \cap Awares)
    OBVIOUS
  <2>2. /\ m \in Scans <=> plan.kind[m] \in Stats!ScanKinds
        /\ m \in Joins <=> plan.kind[m] = "join"
        /\ m \in Gathers <=> plan.kind[m] \in Stats!GatherKinds
        /\ m \in Awares <=> plan.aware[m]
    OBVIOUS
  <2> HIDE DEF Scans, Joins, Gathers, Awares
  <2>3. /\ Stats!One(m \in Scans) = Stats!One(plan.kind[m] \in Stats!ScanKinds)
        /\ Stats!One(m \in Joins) = Stats!One(plan.kind[m] = "join")
        /\ Stats!One(m \in Gathers) = Stats!One(plan.kind[m] \in Stats!GatherKinds)
        /\ Stats!One(m \in Awares) = Stats!One(plan.aware[m])
    BY <2>2 DEF Stats!One
  <2> QED  BY <1>3, <2>1, <2>3
<1>6. sum[gather] = w
  <2> DEFINE N == 1..plan.size
             f == plan.workers
  <2>1. IsFiniteSet(N) /\ m \in N
    BY FS_Interval DEF IsPlanTree
  <2>2. (\A x \in N : f[x] \in Nat) /\ IsSum(sum, N, f)
    BY DEF IsPlanTree
  <2>3. /\ sum[{}] = 0
        /\ \A r \in SUBSET N : \A x \in r : sum[r] = sum[r \ {x}] + f[x]
    <3>1. IsFiniteSet(N)
      BY <2>1
    <3>2. \A x \in N : f[x] \in Nat
      BY <2>2
    <3>3. IsSum(sum, N, f)
      BY <2>2
    <3> HIDE DEF N, f
    <3>4. /\ sum[{}] = 0
          /\ \A r \in SUBSET N : sum[r] \in Nat
          /\ \A r \in SUBSET N : \A x \in r : sum[r] = sum[r \ {x}] + f[x]
      BY <3>1, <3>2, <3>3, SumTakesOut
    <3> QED  BY <3>4
  <2>4. CASE plan.kind[m] \in Stats!GatherKinds
    <3>1. gather = {m} /\ {m} \in SUBSET N /\ m \in {m} /\ {m} \ {m} = {}
      BY <2>4
    <3>2. sum[{m}] = sum[{m} \ {m}] + f[m]
      <4> HIDE DEF N, f
      <4> QED  BY <2>3, <3>1
    <3>3. sum[{m} \ {m}] = 0
      BY <2>3, <3>1
    <3>4. sum[{m}] = f[m]
      <4>1. f[m] \in Nat
        BY <1>1
      <4> HIDE DEF f
      <4> QED  BY <3>2, <3>3, <4>1
    <3> QED  BY <2>4, <3>1, <3>4
  <2>5. CASE ~(plan.kind[m] \in Stats!GatherKinds)
    <3>1. gather = {}
      BY <2>5
    <3> QED  BY <2>3, <2>5, <3>1
  <2> QED  BY <2>4, <2>5
<1>7. \A c : Stats!One(c) \in Nat
  BY DEF Stats!One
<1>8. after = [nodeCount |-> before.nodeCount + 1,
               maxDepth |-> IF d > before.maxDepth THEN d ELSE before.maxDepth,
               scanCount |-> before.scanCount + Stats!One(plan.kind[m] \in Stats!ScanKinds),
               joinCount |-> before.joinCount + Stats!One(plan.kind[m] = "join"),
               parallelNodeCount |-> before.parallelNodeCount + Stats!ParallelNodes(plan, m),
               workersPlanned |-> before.workersPlanned + w]
  BY DEF Stats!CountNode
<1>9. Stats!ParallelNodes(plan, m) =
         Stats!One(plan.aware[m]) + Stats!One(plan.kind[m] \in Stats!GatherKinds)
  BY DEF Stats!ParallelNodes
<1>10. w \in Nat
  BY <1>1
<1> HIDE DEF w, d, after, gather
<1> DEFINE x == IF d > before.maxDepth THEN d ELSE before.maxDepth
           sc == Stats!One(plan.kind[m] \in Stats!ScanKinds)
           jo == Stats!One(plan.kind[m] = "join")
           ga == Stats!One(plan.kind[m] \in Stats!GatherKinds)
           aw == Stats!One(plan.aware[m])
<1>11. /\ x \in Nat /\ before.maxDepth <= x /\ d <= x /\ (x = before.maxDepth \/ x = d)
  BY <1>1, <1>2
<1>12. after = [nodeCount |-> before.nodeCount + 1, maxDepth |-> x,
                scanCount |-> before.scanCount + sc, joinCount |-> before.joinCount + jo,
                parallelNodeCount |-> before.parallelNodeCount + (aw + ga),
                workersPlanned |-> before.workersPlanned + w]
  BY <1>8, <1>9
<1>13. sc \in Nat /\ jo \in Nat /\ ga \in Nat /\ aw \in Nat
  BY <1>7
<1>14. aw + ga = ga + aw
  <2> HIDE DEF aw, ga
  <2> QED  BY <1>13
<1>15. after \in Stats!Statistics
  <2> HIDE DEF x, sc, jo, ga, aw
  <2>1. \A a, b \in Nat : a + b \in Nat
    OBVIOUS
  <2>2. /\ before.nodeCount + 1 \in Nat /\ before.scanCount + sc \in Nat
        /\ before.joinCount + jo \in Nat /\ before.parallelNodeCount + (aw + ga) \in Nat
        /\ before.workersPlanned + w \in Nat
    <3>1. 1 \in Nat
      OBVIOUS
    <3> QED  BY <1>2, <1>10, <1>13, <2>1, <3>1, Zenon
  <2> QED  BY <1>11, <1>12, <2>2 DEF Stats!Statistics
<1>16. Counted(plan, sum, before, {m}, after)
  <2>1. /\ after.nodeCount = before.nodeCount + Cardinality({m})
    BY <1>4, <1>12
  <2>2. after.scanCount = before.scanCount + sc /\ after.joinCount = before.joinCount + jo
        /\ after.parallelNodeCount = before.parallelNodeCount + (ga + aw)
        /\ after.workersPlanned = before.workersPlanned + w /\ after.maxDepth = x
    BY <1>12, <1>14
  <2> HIDE DEF x
  <2> QED  BY <1>5, <1>6, <1>11, <1>15, <2>1, <2>2 DEF Counted, d, gather
<1> QED  BY <1>16 DEF after, d

LEMMA CountNodeType ==
    ASSUME NEW plan, IsPlanTree(plan), NEW m \in 1..plan.size,
           NEW s \in Stats!Statistics, NEW d \in Nat
    PROVE  Stats!CountNode(plan, m, s, d) \in Stats!Statistics
<1> DEFINE x == IF d > s.maxDepth THEN d ELSE s.maxDepth
           w == IF plan.kind[m] \in Stats!GatherKinds THEN plan.workers[m] ELSE 0
           sc == Stats!One(plan.kind[m] \in Stats!ScanKinds)
           jo == Stats!One(plan.kind[m] = "join")
           pa == Stats!ParallelNodes(plan, m)
<1>1. \A c : Stats!One(c) \in Nat
  BY DEF Stats!One
<1>2. pa \in Nat
  <2>1. \A a, b \in Nat : a + b \in Nat
    OBVIOUS
  <2> QED  BY <1>1, <2>1, Zenon DEF Stats!ParallelNodes
<1>3. /\ s.nodeCount \in Nat /\ s.scanCount \in Nat /\ s.joinCount \in Nat
      /\ s.parallelNodeCount \in Nat /\ s.workersPlanned \in Nat /\ s.maxDepth \in Nat
  BY DEF Stats!Statistics
<1>4. x \in Nat /\ w \in Nat /\ sc \in Nat /\ jo \in Nat
  BY <1>1, <1>3 DEF IsPlanTree
<1>5. Stats!CountNode(plan, m, s, d) =
         [nodeCount |-> s.nodeCount + 1, maxDepth |-> x, scanCount |-> s.scanCount + sc,
          joinCount |-> s.joinCount + jo, parallelNodeCount |-> s.parallelNodeCount + pa,
          workersPlanned |-> s.workersPlanned + w]
  BY DEF Stats!CountNode
<1> HIDE DEF x, w, sc, jo, pa
<1>6. /\ s.nodeCount + 1 \in Nat /\ s.scanCount + sc \in Nat /\ s.joinCount + jo \in Nat
      /\ s.parallelNodeCount + pa \in Nat /\ s.workersPlanned + w \in Nat
  BY <1>2, <1>3, <1>4
<1> QED  BY <1>4, <1>5, <1>6 DEF Stats!Statistics

\* What the recursion counts of a node and below it, when it counts its children with f.
Count(plan, f, m, s, d) ==
    Stats!FoldLeft(LAMBDA counted, child : f[<<child, counted, d + 1>>],
                   Stats!CountNode(plan, m, s, d), Stats!Visited(plan, m))

IsCountRun(plan, f, m, s, d, run) ==
    LET kids == Stats!Visited(plan, m)
    IN  /\ run \in [0..Len(kids) -> Stats!Statistics]
        /\ run[0] = Stats!CountNode(plan, m, s, d)
        /\ \A k \in 1..Len(kids) : run[k] = f[<<kids[k], run[k - 1], d + 1>>]
        /\ Count(plan, f, m, s, d) = run[Len(kids)]

LEMMA CountRuns ==
    ASSUME NEW plan, IsPlanTree(plan), NEW m \in 1..plan.size,
           NEW s \in Stats!Statistics, NEW d \in Nat, NEW f,
           \A c \in Followed(plan, m) : \A v \in Stats!Statistics :
              f[<<c, v, d + 1>>] \in Stats!Statistics
    PROVE  \E run : IsCountRun(plan, f, m, s, d, run)
<1> DEFINE kids == Stats!Visited(plan, m)
           n == Len(kids)
           V == Stats!Statistics
           base == Stats!CountNode(plan, m, s, d)
           step == [i \in 1..n |-> [v \in V |-> f[<<kids[i], v, d + 1>>]]]
           IsFold(iter) == iter = [t \in SUBSET (DOMAIN kids) |->
                              IF t = {} THEN base
                              ELSE f[<<kids[Greatest(t)], iter[t \ {Greatest(t)}], d + 1>>]]
<1>1. n \in Nat /\ DOMAIN kids = 1..n /\ \A i \in 1..n : kids[i] \in Followed(plan, m)
  <2>1. Lists(kids, Followed(plan, m))
    BY VisitedAreListed
  <2> HIDE DEF kids
  <2>2. kids \in Seq(Followed(plan, m))
    BY <2>1 DEF Lists
  <2> QED  BY <2>2
<1>2. base \in V
  BY CountNodeType
<1> HIDE DEF kids, base
<1>3. \A i \in 1..n : \A v \in V : f[<<kids[i], v, d + 1>>] \in V
  <2> HIDE DEF n
  <2> QED  BY <1>1
<1>4. PICK iter : iter \in Folds(n, V, base, step)
  <2>1. \A i \in 1..n : \A v \in V : step[i][v] \in V
    BY <1>3
  <2> HIDE DEF n, step, V
  <2> QED  BY <1>1, <1>2, <2>1, FoldExists
<1>5. IsFold(iter)
  <2>1. ASSUME NEW t \in SUBSET (1..n), t # {}
        PROVE  iter[t] = f[<<kids[Greatest(t)], iter[t \ {Greatest(t)}], d + 1>>]
    <3>1. Greatest(t) \in 1..n
      <4> HIDE DEF n
      <4> QED  BY <1>1, <2>1, GreatestOfSet
    <3>2. iter[t] = step[Greatest(t)][iter[t \ {Greatest(t)}]]
      <4> HIDE DEF step, n, V
      <4> QED  BY <1>4, <2>1 DEF Folds
    <3>3. iter[t \ {Greatest(t)}] \in V
      <4> HIDE DEF step, n, V
      <4> QED  BY <1>4 DEF Folds
    <3> HIDE DEF n, V
    <3> QED  BY <3>1, <3>2, <3>3
  <2>2. iter[{}] = base /\ iter = [t \in SUBSET (1..n) |-> iter[t]]
    <3> HIDE DEF step, n, V
    <3> QED  BY <1>4 DEF Folds
  <2> HIDE DEF step, n, V
  <2> QED  BY <1>1, <2>1, <2>2
<1> DEFINE fold == CHOOSE fold : IsFold(fold)
<1>6. IsFold(fold)
  <2> HIDE DEF IsFold
  <2> QED  BY <1>5
<1>7. Count(plan, f, m, s, d) = fold[DOMAIN kids]
  BY Zenon DEF Count, Stats!FoldLeft, Stats!MapThenFoldSet, Stats!Max, Greatest, kids, base
<1> HIDE DEF fold
<1>8. fold[{}] = base
  <2> HIDE DEF n
  <2> QED  BY <1>6
<1>9. ASSUME NEW k \in 1..n
      PROVE  fold[1..k] = f[<<kids[k], fold[1..(k - 1)], d + 1>>]
  <2> DEFINE g == Greatest(1..k)
  <2>1. /\ 1..k \in SUBSET (DOMAIN kids) /\ 1..k # {} /\ g = k /\ (1..k) \ {k} = 1..(k - 1)
    <3> HIDE DEF n
    <3> QED  BY <1>1, GreatestOfInterval
  <2>2. fold[1..k] = f[<<kids[g], fold[(1..k) \ {g}], d + 1>>]
    <3> HIDE DEF n
    <3> QED  BY <1>6, <2>1
  <2> HIDE DEF g
  <2> QED  BY <2>1, <2>2
<1> DEFINE S == {k \in 0..n : fold[1..k] \in V}
<1>10. 0 \in S
  <2>1. 1..0 = {}
    OBVIOUS
  <2>2. 0 \in 0..n
    BY <1>1
  <2> HIDE DEF n, V
  <2> QED  BY <1>2, <1>8, <2>1, <2>2
<1>11. ASSUME NEW k \in 0..n, k \in S, k < n
       PROVE  k + 1 \in S
  <2> DEFINE j == k + 1
  <2>1. j \in 1..n /\ j \in 0..n /\ j - 1 = k
    BY <1>1, <1>11
  <2>2. fold[1..j] = f[<<kids[j], fold[1..k], d + 1>>]
    <3>1. fold[1..j] = f[<<kids[j], fold[1..(j - 1)], d + 1>>]
      BY <1>9, <2>1
    <3> HIDE DEF j
    <3> QED  BY <2>1, <3>1
  <2>3. fold[1..k] \in V
    BY <1>11
  <2> HIDE DEF n, V, j
  <2>4. fold[1..j] \in V
    BY <1>3, <2>1, <2>2, <2>3
  <2> QED  BY <2>1, <2>4 DEF j
<1>12. ASSUME NEW k \in 0..n
       PROVE  fold[1..k] \in V
  <2> DEFINE T == {i \in 0..n : i <= k => fold[1..i] \in V}
  <2>1. 0 \in T
    BY <1>10
  <2>2. ASSUME NEW i \in 0..k, i \in T, i < k
        PROVE  i + 1 \in T
    <3>1. i \in S /\ i \in 0..n /\ i < n
      BY <1>1, <2>2
    <3>2. i + 1 \in S
      <4> HIDE DEF S
      <4> QED  BY <1>11, <3>1
    <3> QED  BY <3>2
  <2>3. k \in T
    <3>1. k \in Nat
      OBVIOUS
    <3> HIDE DEF T
    <3> QED  BY <2>1, <2>2, <3>1, HoldsUpTo
  <2> QED  BY <2>3
<1> DEFINE run == [k \in 0..n |-> fold[1..k]]
<1>13. IsCountRun(plan, f, m, s, d, run)
  <2>1. run \in [0..n -> V]
    BY <1>12
  <2>2. \A k \in 1..n : k \in 0..n /\ k - 1 \in 0..n
    OBVIOUS
  <2>3. n \in 0..n /\ 0 \in 0..n
    BY <1>1
  <2>4. run[0] = base
    <3>1. 1..0 = {}
      OBVIOUS
    <3> QED  BY <1>8, <2>3, <3>1
  <2>5. \A k \in 1..n : run[k] = f[<<kids[k], run[k - 1], d + 1>>]
    BY <1>9, <2>2
  <2>6. run[n] = fold[DOMAIN kids]
    <3> HIDE DEF n
    <3> QED  BY <1>1, <2>3
  <2> HIDE DEF run
  <2> QED  BY <1>7, <2>1, <2>4, <2>5, <2>6 DEF IsCountRun, base, kids
<1> HIDE DEF run
<1> QED  BY <1>13

\* Two functions that agree on the children count the same.
AgreeBelow(plan, m, d, f, g) ==
    \A c \in Followed(plan, m) : \A v \in Stats!Statistics :
        f[<<c, v, d + 1>>] \in Stats!Statistics /\ g[<<c, v, d + 1>>] = f[<<c, v, d + 1>>]

LEMMA CountsAgree ==
    ASSUME NEW plan, IsPlanTree(plan), NEW m \in 1..plan.size,
           NEW s \in Stats!Statistics, NEW d \in Nat, NEW f, NEW g, AgreeBelow(plan, m, d, f, g)
    PROVE  /\ Count(plan, f, m, s, d) = Count(plan, g, m, s, d)
           /\ Count(plan, f, m, s, d) \in Stats!Statistics
<1> DEFINE kids == Stats!Visited(plan, m)
           n == Len(kids)
           V == Stats!Statistics
<1>1. n \in Nat /\ \A i \in 1..n : kids[i] \in Followed(plan, m)
  <2>1. Lists(kids, Followed(plan, m))
    BY VisitedAreListed
  <2> HIDE DEF kids
  <2>2. kids \in Seq(Followed(plan, m))
    BY <2>1 DEF Lists
  <2> QED  BY <2>2
<1>0. \A c \in Followed(plan, m) : \A v \in V :
         f[<<c, v, d + 1>>] \in V /\ g[<<c, v, d + 1>>] = f[<<c, v, d + 1>>]
  BY DEF AgreeBelow
<1>2. PICK runf : IsCountRun(plan, f, m, s, d, runf)
  BY <1>0, CountRuns
<1>3. PICK rung : IsCountRun(plan, g, m, s, d, rung)
  <2>1. \A c \in Followed(plan, m) : \A v \in V : g[<<c, v, d + 1>>] \in V
    BY <1>0
  <2> QED  BY <2>1, CountRuns
<1>4. /\ runf \in [0..n -> V]
      /\ runf[0] = rung[0]
      /\ \A k \in 1..n : runf[k] = f[<<kids[k], runf[k - 1], d + 1>>]
      /\ \A k \in 1..n : rung[k] = g[<<kids[k], rung[k - 1], d + 1>>]
      /\ Count(plan, f, m, s, d) = runf[n] /\ Count(plan, g, m, s, d) = rung[n]
  BY <1>2, <1>3 DEF IsCountRun
<1> DEFINE S == {k \in 0..n : runf[k] = rung[k]}
<1>5. 0 \in S
  BY <1>1, <1>4
<1>6. ASSUME NEW k \in 0..n, k \in S, k < n
      PROVE  k + 1 \in S
  <2> DEFINE j == k + 1
  <2>1. j \in 1..n /\ j \in 0..n /\ j - 1 = k
    BY <1>1, <1>6
  <2> HIDE DEF kids, n, V
  <2>2. kids[j] \in Followed(plan, m) /\ runf[k] \in V /\ runf[k] = rung[k]
    BY <1>1, <1>4, <1>6, <2>1
  <2> HIDE DEF j
  <2>3. runf[j] = f[<<kids[j], runf[k], d + 1>>] /\ rung[j] = g[<<kids[j], runf[k], d + 1>>]
    BY <1>4, <2>1, <2>2
  <2>4. g[<<kids[j], runf[k], d + 1>>] = f[<<kids[j], runf[k], d + 1>>]
    BY <1>0, <2>2
  <2>5. runf[j] = rung[j]
    BY <2>3, <2>4
  <2> QED  BY <2>1, <2>5 DEF j
<1>7. n \in S
  <2> HIDE DEF S, n
  <2> QED  BY <1>1, <1>5, <1>6, HoldsUpTo
<1> HIDE DEF kids, n
<1>8. runf[n] = rung[n] /\ runf[n] \in V
  BY <1>1, <1>4, <1>7
<1> QED  BY <1>4, <1>8

Visits(plan) == (1..plan.size) \X Stats!Statistics \X Nat

IsCollect(plan, f) ==
    /\ f = [visit \in Visits(plan) |-> f[visit]]
    /\ \A m \in 1..plan.size : \A s \in Stats!Statistics : \A d \in Nat :
          f[<<m, s, d>>] = Count(plan, f, m, s, d)

LEMMA CollectExists ==
    ASSUME NEW plan, IsPlanTree(plan)
    PROVE  \E f : IsCollect(plan, f)
<1> DEFINE top == plan.size
           V == Stats!Statistics
           W == Visits(plan)
           Good(f, c) == \A m \in c..top : \A s \in V : \A d \in Nat :
                            f[<<m, s, d>>] = Count(plan, f, m, s, d) /\ f[<<m, s, d>>] \in V
           G == {c \in 1..top : \E f : Good(f, c)}
<1>1. top \in Nat /\ top # 0
  BY DEF IsPlanTree
<1>2. \A m \in 1..top : \A c \in Followed(plan, m) : c \in (m + 1)..top
  BY FollowedAreBehind
<1>3. ASSUME NEW c \in 1..top, \A e \in (c + 1)..top : e \in G
      PROVE  c \in G
  <2>1. PICK f : \A m \in (c + 1)..top : \A s \in V : \A d \in Nat :
                    f[<<m, s, d>>] = Count(plan, f, m, s, d) /\ f[<<m, s, d>>] \in V
    <3>1. CASE c = top
      <4>1. (c + 1)..top = {}
        BY <1>1, <3>1
      <4> QED  BY <4>1
    <3>2. CASE c # top
      <4>1. c + 1 \in (c + 1)..top
        BY <1>1, <3>2
      <4>2. c + 1 \in G
        BY <1>3, <4>1
      <4> HIDE DEF V, top
      <4> QED  BY <4>2
    <3> QED  BY <3>1, <3>2
  <2> DEFINE g == [visit \in W |-> IF visit[1] = c THEN Count(plan, f, c, visit[2], visit[3])
                                   ELSE f[visit]]
  <2>2. ASSUME NEW m \in 1..top, NEW s \in V, NEW d \in Nat
        PROVE  g[<<m, s, d>>] = IF m = c THEN Count(plan, f, c, s, d) ELSE f[<<m, s, d>>]
    <3>1. <<m, s, d>> \in W
      BY DEF Visits
    <3> HIDE DEF W, V, top
    <3> QED  BY <3>1
  <2> HIDE DEF g, V, W, top
  <2>3. ASSUME NEW m \in c..top, NEW s \in V, NEW d \in Nat
        PROVE  /\ g[<<m, s, d>>] = Count(plan, f, m, s, d)
               /\ Count(plan, f, m, s, d) = Count(plan, g, m, s, d)
               /\ Count(plan, f, m, s, d) \in V
    <3>1. m \in 1..top /\ (m = c \/ m \in (c + 1)..top)
      BY <1>1
    <3>2. ASSUME NEW k \in Followed(plan, m), NEW v \in V
          PROVE  /\ f[<<k, v, d + 1>>] \in V
                 /\ g[<<k, v, d + 1>>] = f[<<k, v, d + 1>>]
      <4>1. k \in (m + 1)..top
        BY <1>2, <3>1
      <4>2. k \in (c + 1)..top /\ k \in 1..top /\ k # c /\ d + 1 \in Nat
        BY <1>1, <3>1, <4>1
      <4>3. f[<<k, v, d + 1>>] \in V
        BY <2>1, <4>2
      <4>4. g[<<k, v, d + 1>>] = f[<<k, v, d + 1>>]
        BY <2>2, <4>2
      <4> QED  BY <4>3, <4>4
    <3>3. /\ Count(plan, f, m, s, d) = Count(plan, g, m, s, d)
          /\ Count(plan, f, m, s, d) \in V
      <4>1. m \in 1..plan.size /\ s \in Stats!Statistics
        BY <3>1 DEF top, V
      <4>2. AgreeBelow(plan, m, d, f, g)
        BY <3>2 DEF V, AgreeBelow
      <4>3. /\ Count(plan, f, m, s, d) = Count(plan, g, m, s, d)
            /\ Count(plan, f, m, s, d) \in Stats!Statistics
        BY <4>1, <4>2, CountsAgree
      <4> QED  BY <4>3 DEF V
    <3>4. g[<<m, s, d>>] = Count(plan, f, m, s, d)
      <4>1. CASE m = c
        BY <2>2, <3>1, <4>1
      <4>2. CASE m # c
        <5>1. g[<<m, s, d>>] = f[<<m, s, d>>]
          BY <2>2, <3>1, <4>2
        <5>2. f[<<m, s, d>>] = Count(plan, f, m, s, d)
          BY <2>1, <3>1, <4>2
        <5> QED  BY <5>1, <5>2
      <4> QED  BY <4>1, <4>2
    <3> QED  BY <3>3, <3>4
  <2>4. Good(g, c)
    <3>1. ASSUME NEW m \in c..top, NEW s \in V, NEW d \in Nat
          PROVE  g[<<m, s, d>>] = Count(plan, g, m, s, d) /\ g[<<m, s, d>>] \in V
      BY <2>3
    <3> QED  BY <3>1
  <2> HIDE DEF Good
  <2> QED  BY <2>4
<1>4. 1 \in G
  <2>1. \A c \in 1..top : c \in G
    <3> HIDE DEF G, top
    <3> QED  BY <1>1, <1>3, Descent
  <2>2. 1 \in 1..top
    BY <1>1
  <2> HIDE DEF G, top
  <2> QED  BY <2>1, <2>2
<1>5. PICK f : Good(f, 1)
  <2> HIDE DEF Good
  <2> QED  BY <1>4
<1> DEFINE g == [visit \in W |-> f[visit]]
<1>6. ASSUME NEW m \in 1..top, NEW s \in V, NEW d \in Nat
      PROVE  g[<<m, s, d>>] = f[<<m, s, d>>]
  <2>1. <<m, s, d>> \in W
    BY DEF Visits
  <2> HIDE DEF W, V, top
  <2> QED  BY <2>1
<1>7. g = [visit \in W |-> g[visit]]
  OBVIOUS
<1> HIDE DEF g, V, W, top
<1>8. ASSUME NEW m \in 1..top, NEW s \in V, NEW d \in Nat
      PROVE  g[<<m, s, d>>] = Count(plan, g, m, s, d)
  <2>1. ASSUME NEW k \in Followed(plan, m), NEW v \in V
        PROVE  /\ f[<<k, v, d + 1>>] \in V
               /\ g[<<k, v, d + 1>>] = f[<<k, v, d + 1>>]
    <3>1. k \in (m + 1)..top
      BY <1>2
    <3>2. k \in 1..top /\ d + 1 \in Nat
      BY <1>1, <3>1
    <3> QED  BY <1>5, <1>6, <3>2
  <2>2. Count(plan, f, m, s, d) = Count(plan, g, m, s, d)
    <3>1. m \in 1..plan.size /\ s \in Stats!Statistics
      BY DEF top, V
    <3>2. AgreeBelow(plan, m, d, f, g)
      BY <2>1 DEF V, AgreeBelow
    <3> QED  BY <3>1, <3>2, CountsAgree
  <2>3. f[<<m, s, d>>] = Count(plan, f, m, s, d)
    BY <1>5
  <2> QED  BY <1>6, <2>2, <2>3
<1>9. IsCollect(plan, g)
  BY <1>7, <1>8 DEF IsCollect, top, V, W
<1> QED  BY <1>9

LEMMA CollectIs ==
    ASSUME NEW plan, IsPlanTree(plan), NEW n, NEW s, NEW d
    PROVE  \E f : IsCollect(plan, f) /\ Stats!CollectPlanStats(plan, n, s, d) = f[<<n, s, d>>]
<1> DEFINE W == (1..plan.size) \X Stats!Statistics \X Nat
           Is(f) == f = [visit \in W |-> Count(plan, f, visit[1], visit[2], visit[3])]
           collect == CHOOSE f : Is(f)
<1>1. PICK g : IsCollect(plan, g)
  BY CollectExists
<1>2. Is(g)
  <2>1. ASSUME NEW visit \in W
        PROVE  g[visit] = Count(plan, g, visit[1], visit[2], visit[3])
    <3>1. PICK m \in 1..plan.size, t \in Stats!Statistics, e \in Nat : visit = <<m, t, e>>
      OBVIOUS
    <3>2. g[<<m, t, e>>] = Count(plan, g, m, t, e)
      BY <1>1, <3>1 DEF IsCollect
    <3> QED  BY <3>1, <3>2
  <2>2. g = [visit \in W |-> g[visit]]
    BY <1>1 DEF IsCollect, Visits
  <2> HIDE DEF W
  <2> QED  BY <2>1, <2>2
<1>3. Is(collect)
  <2> HIDE DEF Is
  <2> QED  BY <1>2
<1>4. Stats!CollectPlanStats(plan, n, s, d) = collect[<<n, s, d>>]
  BY Zenon DEF Stats!CollectPlanStats, Count
<1> HIDE DEF collect
<1>5. IsCollect(plan, collect)
  <2>1. ASSUME NEW m \in 1..plan.size, NEW t \in Stats!Statistics, NEW e \in Nat
        PROVE  collect[<<m, t, e>>] = Count(plan, collect, m, t, e)
    <3>1. <<m, t, e>> \in W
      OBVIOUS
    <3> DEFINE visit == <<m, t, e>>
    <3>2. visit[1] = m /\ visit[2] = t /\ visit[3] = e
      OBVIOUS
    <3> HIDE DEF W, visit
    <3>3. visit \in W
      BY <3>1 DEF visit
    <3>4. collect[visit] = Count(plan, collect, visit[1], visit[2], visit[3])
      BY <1>3, <3>3
    <3>5. collect[visit] = Count(plan, collect, m, t, e)
      BY <3>2, <3>4
    <3> QED  BY <3>5 DEF visit
  <2>2. collect = [visit \in W |-> collect[visit]]
    <3> HIDE DEF W
    <3>1. \A visit \in W : collect[visit] = Count(plan, collect, visit[1], visit[2], visit[3])
      BY <1>3
    <3> QED  BY <1>3, <3>1
  <2> QED  BY <2>1, <2>2 DEF IsCollect, Visits
<1> QED  BY <1>4, <1>5

LEMMA DepthBelow ==
    ASSUME NEW plan, IsPlanTree(plan), NEW m \in 1..plan.size, NEW c \in Followed(plan, m)
    PROVE  Depth(plan, c) = Depth(plan, m) + 1
<1> DEFINE A == Above(plan)[m]
<1>1. c \in (m + 1)..plan.size /\ Above(plan)[c] = {c} \cup A /\ A \subseteq 1..m
  BY FollowedAreBehind
<1>2. IsFiniteSet(A) /\ Cardinality(A) \in Nat
  BY DepthIsNatural DEF Depth
<1>3. c \notin A
  <2> HIDE DEF A
  <2> QED  BY <1>1
<1> HIDE DEF A
<1>4. Cardinality(A \cup {c}) = Cardinality(A) + 1
  BY <1>2, <1>3, FS_AddElement
<1>5. Above(plan)[c] = A \cup {c}
  BY <1>1
<1> QED  BY <1>4, <1>5 DEF Depth, A

\* From a node on, the recursion counts every node below it by steps that are followed.
LEMMA UnderIsCounted ==
    ASSUME NEW plan, IsPlanTree(plan), NEW sum, IsSum(sum, 1..plan.size, plan.workers),
           NEW f, IsCollect(plan, f), NEW m \in 1..plan.size, NEW s \in Stats!Statistics,
           \A c \in Followed(plan, m) : \A v \in Stats!Statistics :
              Counted(plan, sum, v, Under(plan, c), f[<<c, v, Depth(plan, c)>>])
    PROVE  Counted(plan, sum, s, Under(plan, m), f[<<m, s, Depth(plan, m)>>])
<1> DEFINE kids == Stats!Visited(plan, m)
           n == Len(kids)
           d == Depth(plan, m)
           V == Stats!Statistics
           K == Followed(plan, m)
           U(c) == Under(plan, c)
           Part(k) == {m} \cup UNION {U(kids[i]) : i \in 1..k}
<1>1. /\ n \in Nat /\ \A i \in 1..n : kids[i] \in K
      /\ \A c \in K : \E i \in 1..n : kids[i] = c
      /\ \A i, j \in 1..n : kids[i] = kids[j] => i = j
  <2>1. Lists(kids, K)
    BY VisitedAreListed
  <2> HIDE DEF kids, K
  <2>2. kids \in Seq(K)
    BY <2>1 DEF Lists
  <2>3. n \in Nat /\ \A i \in 1..n : kids[i] \in K
    BY <2>2
  <2> QED  BY <2>1, <2>3 DEF Lists
<1>2. d \in Nat /\ \A c \in K : Depth(plan, c) = d + 1
  BY DepthIsNatural, DepthBelow
<1>3. /\ \A c \in K : m \notin U(c)
      /\ \A c, e \in K : c # e => U(c) \cap U(e) = {}
  BY UnderIsApart
<1>4. U(m) = {m} \cup UNION {U(c) : c \in K}
  BY UnderSplits
<1>5. \A c \in K : \A v \in V : Counted(plan, sum, v, U(c), f[<<c, v, d + 1>>])
  <2>1. ASSUME NEW c \in K, NEW v \in V
        PROVE  Counted(plan, sum, v, U(c), f[<<c, v, d + 1>>])
    <3>1. Counted(plan, sum, v, U(c), f[<<c, v, Depth(plan, c)>>])
      OBVIOUS
    <3>2. Depth(plan, c) = d + 1
      BY <1>2
    <3> HIDE DEF d, U
    <3> QED  BY <3>1, <3>2
  <2> QED  BY <2>1
<1>6. PICK run : IsCountRun(plan, f, m, s, d, run)
  <2>1. \A c \in K : \A v \in V : f[<<c, v, d + 1>>] \in V
    BY <1>5 DEF Counted
  <2> HIDE DEF d
  <2> QED  BY <1>2, <2>1, CountRuns
<1>7. /\ run \in [0..n -> V] /\ run[0] = Stats!CountNode(plan, m, s, d)
      /\ \A k \in 1..n : run[k] = f[<<kids[k], run[k - 1], d + 1>>]
      /\ f[<<m, s, d>>] = run[n]
  <2>1. f[<<m, s, d>>] = Count(plan, f, m, s, d)
    BY <1>2 DEF IsCollect
  <2> QED  BY <1>6, <2>1 DEF IsCountRun
<1>8. \A c : U(c) \in SUBSET (1..plan.size)
  BY DEF Under
<1> DEFINE S == {k \in 0..n : Counted(plan, sum, s, Part(k), run[k])}
<1>9. 0 \in S
  <2>1. Part(0) = {m}
    OBVIOUS
  <2>2. Counted(plan, sum, s, {m}, run[0])
    <3>1. Counted(plan, sum, s, {m}, Stats!CountNode(plan, m, s, Depth(plan, m)))
      BY CountedOne
    <3> QED  BY <1>7, <3>1
  <2>3. 0 \in 0..n
    BY <1>1
  <2> HIDE DEF Part
  <2> QED  BY <2>1, <2>2, <2>3
<1> HIDE DEF kids, n, d, V, K, U
<1>10. ASSUME NEW k \in 0..n, k \in S, k < n
       PROVE  k + 1 \in S
  <2> DEFINE j == k + 1
             c == kids[j]
  <2>1. j \in 1..n /\ j \in 0..n /\ j - 1 = k /\ \A i \in 1..k : i \in 1..n /\ i # j
    BY <1>1, <1>10
  <2>2. Counted(plan, sum, s, Part(k), run[k])
    <3> HIDE DEF Part
    <3> QED  BY <1>10
  <2> HIDE DEF j
  <2>3. c \in K /\ run[k] \in V /\ run[j] = f[<<c, run[k], d + 1>>]
    BY <1>1, <1>7, <2>1
  <2>4. Counted(plan, sum, run[k], U(c), run[j])
    <3> HIDE DEF c
    <3> QED  BY <1>5, <2>3
  <2>5. Part(k) \cap U(c) = {}
    <3>1. ASSUME NEW i \in 1..k
          PROVE  U(kids[i]) \cap U(c) = {}
      <4>1. kids[i] \in K /\ kids[i] # c
        BY <1>1, <2>1
      <4> HIDE DEF c
      <4> QED  BY <1>3, <2>3, <4>1
    <3>2. m \notin U(c)
      BY <1>3, <2>3
    <3> HIDE DEF c
    <3> QED  BY <3>1, <3>2
  <2>6. Part(j) = Part(k) \cup U(c)
    <3>1. 1..j = (1..k) \cup {j}
      BY <2>1
    <3> QED  BY <3>1
  <2>7. Part(k) \in SUBSET (1..plan.size) /\ U(c) \in SUBSET (1..plan.size)
    BY <1>8
  <2> HIDE DEF Part, c
  <2>8. Counted(plan, sum, s, Part(k) \cup U(c), run[j])
    BY <2>2, <2>4, <2>5, <2>7, CountedBoth
  <2>9. Counted(plan, sum, s, Part(j), run[j])
    BY <2>6, <2>8
  <2> QED  BY <2>1, <2>9 DEF j
<1>11. n \in S
  <2> HIDE DEF S
  <2> QED  BY <1>1, <1>9, <1>10, HoldsUpTo
<1>12. Part(n) = U(m)
  <2>1. {U(kids[i]) : i \in 1..n} = {U(c) : c \in K}
    BY <1>1
  <2> QED  BY <1>4, <2>1
<1>13. Counted(plan, sum, s, Part(n), run[n])
  <2> HIDE DEF Part
  <2> QED  BY <1>11
<1> HIDE DEF Part
<1> QED  BY <1>7, <1>12, <1>13 DEF U, d

LEMMA PlanIsCounted ==
    ASSUME NEW plan, IsPlanTree(plan), NEW sum, IsSum(sum, 1..plan.size, plan.workers)
    PROVE  Counted(plan, sum, Stats!NoStats, Under(plan, 1),
                   Stats!CollectPlanStats(plan, 1, Stats!NoStats, 1))
<1> DEFINE top == plan.size
           V == Stats!Statistics
<1>1. PICK f : IsCollect(plan, f)
               /\ Stats!CollectPlanStats(plan, 1, Stats!NoStats, 1) = f[<<1, Stats!NoStats, 1>>]
  BY CollectIs
<1> DEFINE Good(c) == \A s \in V : Counted(plan, sum, s, Under(plan, c), f[<<c, s, Depth(plan, c)>>])
           G == {c \in 1..top : Good(c)}
<1>2. top \in Nat /\ 1 \in 1..top
  BY DEF IsPlanTree
<1>3. ASSUME NEW m \in 1..top, \A e \in (m + 1)..top : e \in G
      PROVE  m \in G
  <2>1. \A c \in Followed(plan, m) : Good(c)
    <3>1. \A c \in Followed(plan, m) : c \in (m + 1)..top
      BY FollowedAreBehind
    <3> HIDE DEF Good, top
    <3> QED  BY <1>3, <3>1
  <2>2. ASSUME NEW s \in V
        PROVE  Counted(plan, sum, s, Under(plan, m), f[<<m, s, Depth(plan, m)>>])
    <3>1. \A c \in Followed(plan, m) : \A v \in Stats!Statistics :
              Counted(plan, sum, v, Under(plan, c), f[<<c, v, Depth(plan, c)>>])
      BY <2>1
    <3> QED  BY <1>1, <3>1, UnderIsCounted
  <2> QED  BY <2>2
<1>4. Good(1)
  <2>1. \A c \in 1..top : c \in G
    <3> HIDE DEF G, top
    <3> QED  BY <1>2, <1>3, Descent
  <2> HIDE DEF Good, top
  <2> QED  BY <1>2, <2>1
<1>5. Depth(plan, 1) = 1
  <2>1. Above(plan)[1] = {1}
    <3>1. Above(plan)[1] = {1} \cup Above(plan)[0] /\ Above(plan)[0] = {}
      BY <1>2, AboveIs DEF IsPlanTree
    <3> QED  BY <3>1
  <2> QED  BY <2>1, FS_Singleton DEF Depth
<1>6. Stats!NoStats \in V
  BY DEF Stats!NoStats, Stats!Statistics
<1>7. Counted(plan, sum, Stats!NoStats, Under(plan, 1), f[<<1, Stats!NoStats, Depth(plan, 1)>>])
  <2> HIDE DEF V
  <2> QED  BY <1>4, <1>6
<1> QED  BY <1>1, <1>5, <1>7

\* The nodes from which every step up is followed are what the recursion counts.
LEMMA ReachedIsUnder ==
    ASSUME NEW plan, IsPlanTree(plan)
    PROVE  Reached(plan) = Under(plan, 1) /\ 1 \in Reached(plan)
<1>1. \A n \in 1..plan.size : 1 \in Above(plan)[n] /\ Above(plan)[n] \subseteq 1..n
  BY AboveProperties
<1>2. IsFollowed(plan, 1)
  BY DEF IsPlanTree, IsFollowed
<1>3. 1 \in 1..plan.size
  BY DEF IsPlanTree
<1>4. ASSUME NEW n \in 1..plan.size
      PROVE  (\A k \in Above(plan)[n] : IsFollowed(plan, k))
                <=> (\A k \in Above(plan)[n] : k > 1 => IsFollowed(plan, k))
  <2>1. \A k \in Above(plan)[n] : k > 1 \/ k = 1
    BY <1>1
  <2> QED  BY <1>2, <2>1
<1>5. Reached(plan) = Under(plan, 1)
  BY <1>1, <1>4 DEF Reached, Under
<1> QED  BY <1>3, <1>5, UnderIsApart

LEMMA StatsOfIs ==
    ASSUME NEW plan, IsPlanTree(plan), NEW sum, IsSum(sum, 1..plan.size, plan.workers)
    PROVE  LET reached == Reached(plan)
               gathers == {n \in reached : plan.kind[n] \in Stats!GatherKinds}
           IN  StatsOf(plan) =
                  [nodeCount |-> Cardinality(reached),
                   maxDepth |-> Max({Depth(plan, n) : n \in reached}),
                   scanCount |-> Cardinality({n \in reached : plan.kind[n] \in Stats!ScanKinds}),
                   joinCount |-> Cardinality({n \in reached : plan.kind[n] = "join"}),
                   parallelNodeCount |->
                      Cardinality(gathers) + Cardinality({n \in reached : plan.aware[n]}),
                   workersPlanned |-> sum[gathers]]
<1> DEFINE reached == Reached(plan)
           gathers == {n \in reached : plan.kind[n] \in Stats!GatherKinds}
           scans == {n \in reached : plan.kind[n] \in Stats!ScanKinds}
           joins == {n \in reached : plan.kind[n] = "join"}
           awares == {n \in reached : plan.aware[n]}
           f == [n \in gathers |-> plan.workers[n]]
           IsTotal(t) == t = [s \in SUBSET gathers |->
                            IF s = {} THEN 0 ELSE plan.workers[Chosen(s)] + t[s \ {Chosen(s)}]]
           total == CHOOSE t : IsTotal(t)
           N == 1..plan.size
<1>1. IsFiniteSet(N) /\ gathers \in SUBSET N
  BY FS_Interval DEF IsPlanTree, Reached
<1>2. IsFiniteSet(gathers)
  <2> HIDE DEF gathers, N
  <2> QED  BY <1>1, FS_Subset
<1>3. \A n \in gathers : f[n] = plan.workers[n] /\ f[n] \in Nat
  BY DEF IsPlanTree, Reached
<1>4. \A n \in N : plan.workers[n] \in Nat
  BY DEF IsPlanTree
<1> HIDE DEF gathers, f, N
<1>5. \A s \in SUBSET gathers : s # {} => f[Chosen(s)] = plan.workers[Chosen(s)]
  <2>1. \A s \in SUBSET gathers : s # {} => Chosen(s) \in gathers
    BY <1>2, ChosenIsElement
  <2> QED  BY <1>3, <2>1
<1>6. IsTotal(total)
  <2>1. PICK t : IsSum(t, gathers, f)
    BY <1>2, <1>3, SumExists
  <2>2. IsTotal(t)
    BY <1>5, <2>1 DEF IsSum
  <2> HIDE DEF IsTotal
  <2> QED  BY <2>2
<1>7. IsSum(total, gathers, f)
  <2> HIDE DEF total
  <2> QED  BY <1>5, <1>6 DEF IsSum
<1>8. total[gathers] = sum[gathers]
  <2>1. IsSum(sum, N, plan.workers)
    BY DEF N
  <2> DEFINE g == plan.workers
  <2>2. /\ IsSum(sum, N, g) /\ \A x \in N : g[x] \in Nat
        /\ \A x \in gathers : f[x] = g[x] /\ f[x] \in Nat
    BY <1>3, <1>4, <2>1
  <2>3. \A x \in N : g[x] \in Nat
    BY <2>2
  <2>4. \A x \in gathers : f[x] = g[x]
    BY <2>2
  <2>5. IsSum(sum, N, g)
    BY <2>2
  <2> HIDE DEF g, total
  <2>6. \A s \in SUBSET gathers : total[s] = sum[s]
    BY <1>1, <1>7, <2>3, <2>4, <2>5, SumsAgree
  <2> QED  BY <2>6
<1>9. MapThenSumSet(LAMBDA n : plan.workers[n], gathers) = total[gathers]
  BY Zenon DEF MapThenSumSet, MapThenFoldSet, Chosen
<1> HIDE DEF total
<1>10. StatsOf(plan) =
          [nodeCount |-> Cardinality(reached),
           maxDepth |-> Max({Cardinality(Above(plan)[n]) : n \in reached}),
           scanCount |-> Cardinality(scans \cap reached),
           joinCount |-> Cardinality(joins \cap reached),
           parallelNodeCount |-> Cardinality(gathers) + Cardinality(awares \cap reached),
           workersPlanned |-> MapThenSumSet(LAMBDA n : plan.workers[n], gathers)]
  BY Zenon DEF StatsOf, gathers
<1>11. scans \cap reached = scans /\ joins \cap reached = joins /\ awares \cap reached = awares
  OBVIOUS
<1>12. {Cardinality(Above(plan)[n]) : n \in reached} = {Depth(plan, n) : n \in reached}
  BY DEF Depth
<1>13. StatsOf(plan) =
          [nodeCount |-> Cardinality(reached),
           maxDepth |-> Max({Depth(plan, n) : n \in reached}),
           scanCount |-> Cardinality(scans),
           joinCount |-> Cardinality(joins),
           parallelNodeCount |-> Cardinality(gathers) + Cardinality(awares),
           workersPlanned |-> sum[gathers]]
  BY <1>8, <1>9, <1>10, <1>11, <1>12, Zenon
<1> QED  BY <1>13, Zenon DEF gathers

\* The statistics of a plan of any size and shape.
LEMMA PlanIsDescribed ==
    ASSUME NEW plan, IsPlanTree(plan)
    PROVE  Stats!CollectPlanStats(plan, 1, Stats!NoStats, 1) = StatsOf(plan)
<1> DEFINE N == 1..plan.size
           R == Reached(plan)
           after == Stats!CollectPlanStats(plan, 1, Stats!NoStats, 1)
           gathers == Cardinality({n \in R : plan.kind[n] \in Stats!GatherKinds})
           awares == Cardinality({n \in R : plan.aware[n]})
           scans == Cardinality({n \in R : plan.kind[n] \in Stats!ScanKinds})
           joins == Cardinality({n \in R : plan.kind[n] = "join"})
           depths == {Depth(plan, n) : n \in R}
<1>1. IsFiniteSet(N) /\ (\A x \in N : plan.workers[x] \in Nat) /\ R \in SUBSET N
  <2>1. IsFiniteSet(N) /\ R \in SUBSET N
    BY FS_Interval DEF IsPlanTree, Reached
  <2>2. \A x \in N : plan.workers[x] \in Nat
    BY DEF IsPlanTree
  <2> QED  BY <2>1, <2>2
<1>2. PICK sum : IsSum(sum, N, plan.workers)
  <2> DEFINE g == plan.workers
  <2>1. \A x \in N : g[x] \in Nat
    BY <1>1
  <2>2. IsFiniteSet(N)
    BY <1>1
  <2> HIDE DEF g, N
  <2>3. \E sum : IsSum(sum, N, g)
    BY <2>1, <2>2, SumExists
  <2> QED  BY <2>3 DEF g
<1> DEFINE workers == sum[{n \in R : plan.kind[n] \in Stats!GatherKinds}]
<1>3. Counted(plan, sum, Stats!NoStats, R, after)
  BY <1>2, PlanIsCounted, ReachedIsUnder
<1>4. StatsOf(plan) =
         [nodeCount |-> Cardinality(R), maxDepth |-> Max(depths), scanCount |-> scans,
          joinCount |-> joins, parallelNodeCount |-> gathers + awares,
          workersPlanned |-> workers]
  BY <1>2, StatsOfIs
<1>5. /\ after \in Stats!Statistics
      /\ after.nodeCount = 0 + Cardinality(R) /\ after.scanCount = 0 + scans
      /\ after.joinCount = 0 + joins /\ after.parallelNodeCount = 0 + (gathers + awares)
      /\ after.workersPlanned = 0 + workers
      /\ \A n \in R : Depth(plan, n) <= after.maxDepth
      /\ after.maxDepth = 0 \/ \E n \in R : after.maxDepth = Depth(plan, n)
  BY <1>3 DEF Counted, Stats!NoStats
<1>6. \A n \in R : Depth(plan, n) \in Nat
  BY <1>1, DepthIsNatural
<1>7. Max(depths) = after.maxDepth
  <2>1. 1 \in R /\ Depth(plan, 1) # 0
    <3>1. 1 \in R /\ 1 \in N
      BY <1>1, ReachedIsUnder
    <3>2. IsFiniteSet(Above(plan)[1]) /\ 1 \in Above(plan)[1]
      BY <3>1, DepthIsNatural, AboveProperties
    <3>3. Cardinality(Above(plan)[1]) # 0
      BY <3>2, FS_EmptySet
    <3> QED  BY <3>1, <3>3 DEF Depth
  <2>2. after.maxDepth \in Nat
    BY <1>5 DEF Stats!Statistics
  <2>3. after.maxDepth # 0
    BY <1>5, <1>6, <2>1, <2>2
  <2> HIDE DEF after, R
  <2>4. after.maxDepth \in depths
    BY <1>5, <2>3
  <2>5. \A y \in depths : y \in Int /\ y <= after.maxDepth
    BY <1>5, <1>6
  <2> HIDE DEF depths
  <2> QED  BY <2>4, <2>5, MaxIs
<1>8. /\ gathers \in Nat /\ awares \in Nat /\ scans \in Nat /\ joins \in Nat
      /\ Cardinality(R) \in Nat
  <2> HIDE DEF N, R
  <2>1. \A s \in SUBSET R : Cardinality(s) \in Nat
    <3>1. \A s \in SUBSET R : IsFiniteSet(s)
      BY <1>1, FS_Subset
    <3> QED  BY <3>1, FS_CardinalityType
  <2> QED  BY <2>1
<1>9. workers \in Nat
  <2> DEFINE g == plan.workers
             s == {n \in R : plan.kind[n] \in Stats!GatherKinds}
  <2>1. s \in SUBSET N
    BY <1>1
  <2>2. IsSum(sum, N, g)
    BY <1>2
  <2>3. \A x \in N : g[x] \in Nat
    BY <1>1
  <2>4. IsFiniteSet(N)
    BY <1>1
  <2> HIDE DEF g, N, s
  <2>5. \A r \in SUBSET N : sum[r] \in Nat
    BY <2>2, <2>3, <2>4, SumTakesOut
  <2>6. sum[s] \in Nat
    BY <2>1, <2>5
  <2> QED  BY <2>6 DEF s
<1> HIDE DEF after, R, gathers, awares, scans, joins, workers, depths
<1>10. /\ after.nodeCount = Cardinality(R) /\ after.scanCount = scans
       /\ after.joinCount = joins /\ after.parallelNodeCount = gathers + awares
       /\ after.workersPlanned = workers
  BY <1>5, <1>8, <1>9
<1>11. after = [nodeCount |-> after.nodeCount, maxDepth |-> after.maxDepth,
                scanCount |-> after.scanCount, joinCount |-> after.joinCount,
                parallelNodeCount |-> after.parallelNodeCount,
                workersPlanned |-> after.workersPlanned]
  BY <1>5 DEF Stats!Statistics
<1>12. after = StatsOf(plan)
  BY <1>4, <1>7, <1>10, <1>11, Zenon
<1> QED  BY <1>12 DEF after

\* The planner statistics of a plan of any size and shape are those of the nodes below its
\* root by steps that are followed, each counted once and at its own depth, and the
\* summary of any number of workers is about those that ran the node.
THEOREM StatisticsOfPlansAndWorkers == Spec => []StatisticsAreExact
<1>1. Init => StatisticsAreExact
  BY DEF Init, NoCall, StatisticsAreExact
<1>2. ASSUME StatisticsAreExact, [Next]_vars
      PROVE  StatisticsAreExact'
  <2>1. CASE DescribePlan
    <3>1. PICK statement \in PlannedStatements :
             Call("plan", statement, Stats!FillPlannerPlanStats(statement))
      BY <2>1 DEF DescribePlan
    <3> DEFINE plan == statement.plan
    <3>2. /\ call'.function = "plan" /\ call'.arguments = statement
          /\ result' = Stats!FillPlannerPlanStats(statement)
      BY <3>1 DEF Call
    <3>3. /\ result'.hasPlanStats <=> plan.size > 0
          /\ result'.hasPlanStats => result'.stats = StatsOf(plan)
      <4>1. CASE plan.size = 0
        <5>1. result' = [hasPlanStats |-> FALSE]
          BY <3>2, <4>1 DEF Stats!FillPlannerPlanStats
        <5> QED  BY <4>1, <5>1
      <4>2. CASE plan.size # 0
        <5>1. IsPlanTree(plan)
          BY <4>2, StatisticsAssumption
        <5>2. plan.size > 0
          BY <5>1 DEF IsPlanTree
        <5>3. /\ result'.hasPlanStats = TRUE
              /\ result'.stats = Stats!CollectPlanStats(plan, 1, Stats!NoStats, 1)
          BY <3>2, <4>2 DEF Stats!FillPlannerPlanStats
        <5>4. result'.stats = StatsOf(plan)
          BY <5>1, <5>3, PlanIsDescribed
        <5> QED  BY <5>2, <5>3, <5>4
      <4> QED  BY <4>1, <4>2
    <3> QED  BY <3>2, <3>3 DEF StatisticsAreExact
  <2>2. CASE SummariseWorkers
    <3>1. PICK instruments \in Strings(Instruments, MaxWorkers) :
             Call("workers", instruments, Stats!FillParallelWorkerSummary(instruments))
      BY <2>2 DEF SummariseWorkers
    <3> DEFINE W == [loops : Nat, rows : Nat, total : Nat]
    <3>2. instruments \in Seq(W)
      <4>1. PICK n \in 0..MaxWorkers : instruments \in [1..n -> Instruments]
        BY <3>1 DEF Strings
      <4>2. n \in Nat /\ Instruments \subseteq W
        BY ConversionsAssumption, StatisticsAssumption
      <4> HIDE DEF W
      <4> QED  BY <4>1, <4>2
    <3>3. /\ call'.function = "workers" /\ call'.arguments = instruments
          /\ result' = Stats!FillParallelWorkerSummary(instruments)
      BY <3>1 DEF Call
    <3> QED  BY <3>2, <3>3, WorkersAreSummarised DEF StatisticsAreExact
  <2>3. CASE \/ FindTraceParent \/ ParseUrl \/ PlaceSpans \/ Serialize \/ Return
    <3>1. call'.function \notin {"plan", "workers"}
      BY <2>3 DEF FindTraceParent, ParseUrl, PlaceSpans, Serialize, Return, Call, NoCall
    <3> QED  BY <3>1 DEF StatisticsAreExact
  <2>4. CASE UNCHANGED vars
    BY <1>2, <2>4 DEF vars, StatisticsAreExact
  <2> QED  BY <1>2, <2>1, <2>2, <2>3, <2>4 DEF Next
<1> QED  BY <1>1, <1>2, PTL DEF Spec
=============================================================================
