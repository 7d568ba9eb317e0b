------------------------- MODULE SpanPipelineProofs -------------------------
(***************************************************************************)
(* Proofs about SpanPipeline for every plan, every number of backends and  *)
(* statements, every queue capacity and batch size, and any number of      *)
(* faults.                                                                 *)
(*                                                                         *)
(* The invariant has two parts.  Line speaks of the spans that were        *)
(* offered, wherever they are: none is in two places, and none is ahead of *)
(* its parent.  Flush speaks of what each backend has offered so far of    *)
(* the trace of its statement.                                             *)
(***************************************************************************)
EXTENDS SpanPipeline, TLAPS

HasParent(x, spans) == x.parent = Caller \/ x.parent \in Ids(spans)

Gone == Range(inFlight) \cup delivered \cup lost

Places ==
    /\ \A i, j \in 1..Len(queue) : queue[i] = queue[j] => i = j
    /\ \A i, j \in 1..Len(inFlight) : inFlight[i] = inFlight[j] => i = j
    /\ Range(queue) \cap Gone = {}
    /\ Range(inFlight) \cap lost = {}
    /\ answer = "none" => Range(inFlight) \cap delivered = {}
    /\ answer # "none" => inFlight # <<>>
    /\ answer = "ok" => Range(inFlight) \subseteq delivered

InOrder ==
    /\ \A i \in 1..Len(queue) : HasParent(queue[i], Gone \cup {queue[j] : j \in 1..(i - 1)})
    /\ \A x \in Range(inFlight) : HasParent(x, Gone)
    /\ \A x \in delivered : HasParent(x, delivered \cup lost)

QueueType ==
    /\ answer \in {"none", "ok", "failed"}
    /\ queue \in Seq(Span) /\ inFlight \in Seq(Span)
    /\ Len(queue) <= Capacity
    /\ droppedCount \in Nat /\ dequeuedCount \in Nat
    /\ exportedCount \in Nat /\ exportFailureCount \in Nat
    /\ delivered \subseteq Span /\ lost \subseteq Span /\ faults \in Nat

Line == QueueType /\ Places /\ InOrder

-----------------------------------------------------------------------------
\* More candidates do not take a parent away.
LEMMA MoreParents ==
    ASSUME NEW x, NEW S, NEW T, S \subseteq T, HasParent(x, S)
    PROVE  HasParent(x, T)
BY DEF HasParent, Ids

\* What Range is for a sequence, and for one with an element more.
LEMMA RangeOfSeq ==
    ASSUME NEW s \in Seq(Span)
    PROVE  Range(s) = {s[i] : i \in 1..Len(s)} /\ Range(s) \subseteq Span
BY DEF Range

LEMMA RangeOfAppend ==
    ASSUME NEW s \in Seq(Span), NEW x \in Span
    PROVE  /\ Append(s, x) \in Seq(Span)
           /\ Range(Append(s, x)) = Range(s) \cup {x}
<1>1. Append(s, x) \in Seq(Span) /\ Len(Append(s, x)) = Len(s) + 1
  OBVIOUS
<1>2. \A i \in 1..Len(s) : Append(s, x)[i] = s[i]
  OBVIOUS
<1>3. Append(s, x)[Len(s) + 1] = x
  OBVIOUS
<1>4. Range(Append(s, x)) = {Append(s, x)[i] : i \in 1..(Len(s) + 1)}
  BY <1>1, RangeOfSeq
<1>5. ASSUME NEW y \in Range(Append(s, x)) PROVE y \in Range(s) \cup {x}
  <2>1. PICK i \in 1..(Len(s) + 1) : y = Append(s, x)[i]
    BY <1>4
  <2> QED  BY <2>1, <1>2, <1>3, RangeOfSeq
<1>6. ASSUME NEW y \in Range(s) \cup {x} PROVE y \in Range(Append(s, x))
  <2>1. CASE y \in Range(s)
    <3>1. PICK i \in 1..Len(s) : y = s[i]
      BY <2>1, RangeOfSeq
    <3>2. i \in 1..(Len(s) + 1) /\ Append(s, x)[i] = y
      BY <3>1, <1>2
    <3> QED  BY <3>2, <1>4
  <2>2. CASE y = x
    <3>1. Len(s) + 1 \in 1..(Len(s) + 1)
      OBVIOUS
    <3> QED  BY <3>1, <2>2, <1>3, <1>4
  <2> QED  BY <2>1, <2>2
<1>7. Range(Append(s, x)) = Range(s) \cup {x}
  BY <1>5, <1>6
<1> QED  BY <1>1, <1>7

LEMMA RangeOfEmpty ==
    Range(<<>>) = {} /\ <<>> \in Seq(Span) /\ Len(<<>>) = 0
<1>1. <<>> \in Seq(Span) /\ \A i \in 1..Len(<<>>) : FALSE
  OBVIOUS
<1> QED  BY <1>1, RangeOfSeq

\* A new span whose parent was offered before joins the line, or is lost.
LEMMA EnqueueKeepsLine ==
    ASSUME Line, NEW id \in SpanId, NEW parent \in SpanId,
           [id |-> id, parent |-> parent] \notin Offered,
           HasParent([id |-> id, parent |-> parent], Offered),
           EnqueueSpan(id, parent)
    PROVE  Line' /\ Offered' = Offered \cup {[id |-> id, parent |-> parent]}
<1> DEFINE x == [id |-> id, parent |-> parent]
<1>x. x \in Span /\ x \notin Offered /\ HasParent(x, Offered)
  BY DEF Span
<1> HIDE DEF x
<1>1. CASE Queue!Accept(x) /\ UNCHANGED lost
  <2>1. /\ queue' = Append(queue, x) /\ inFlight' = inFlight /\ lost' = lost
        /\ delivered' = delivered /\ answer' = answer /\ faults' = faults
        /\ droppedCount' = droppedCount /\ dequeuedCount' = dequeuedCount
        /\ exportedCount' = exportedCount /\ exportFailureCount' = exportFailureCount
        /\ Len(queue) < Capacity
    BY <1>1 DEF EnqueueSpan, Queue!Accept
  <2>2. /\ queue' \in Seq(Span) /\ Len(queue') = Len(queue) + 1
        /\ queue'[Len(queue) + 1] = x
        /\ \A i \in 1..Len(queue) : queue'[i] = queue[i]
        /\ Range(queue') = Range(queue) \cup {x}
    BY <2>1, <1>x, RangeOfAppend DEF Line, QueueType
  <2>3. QueueType'
    BY <2>1, <2>2, PipelineAssumption DEF Line, QueueType
  <2>4. Gone' = Gone
    BY <2>1 DEF Gone
  <2>5. x \notin Range(queue) /\ x \notin Gone
    BY <1>x DEF Offered, Gone
  <2>6. \A i \in 1..Len(queue) : queue[i] # x
    BY <2>5, RangeOfSeq DEF Line, QueueType
  <2>7. \A i, j \in 1..Len(queue') : queue'[i] = queue'[j] => i = j
    BY <2>2, <2>6 DEF Line, QueueType, Places
  <2>8. Places'
    BY <2>1, <2>2, <2>4, <2>5, <2>7 DEF Line, Places
  <2>9. ASSUME NEW i \in 1..Len(queue')
        PROVE  HasParent(queue'[i], Gone' \cup {queue'[j] : j \in 1..(i - 1)})
    <3>1. CASE i \in 1..Len(queue)
      <4>1. HasParent(queue[i], Gone \cup {queue[j] : j \in 1..(i - 1)})
        BY <3>1 DEF Line, InOrder
      <4>2. {queue[j] : j \in 1..(i - 1)} = {queue'[j] : j \in 1..(i - 1)}
        <5>1. \A j \in 1..(i - 1) : j \in 1..Len(queue) /\ queue'[j] = queue[j]
          BY <3>1, <2>2 DEF Line, QueueType
        <5> QED  BY <5>1
      <4>3. HasParent(queue[i], Gone' \cup {queue'[j] : j \in 1..(i - 1)})
        BY <4>1, <4>2, <2>4, MoreParents
      <4> QED  BY <4>3, <3>1, <2>2
    <3>2. CASE i = Len(queue) + 1
      <4>1. Offered \subseteq Gone' \cup {queue'[j] : j \in 1..(i - 1)}
        <5>1. i - 1 = Len(queue)
          BY <3>2 DEF Line, QueueType
        <5>2. Range(queue) = {queue[j] : j \in 1..Len(queue)}
          BY RangeOfSeq DEF Line, QueueType
        <5>3. {queue[j] : j \in 1..Len(queue)} = {queue'[j] : j \in 1..Len(queue)}
          BY <2>2
        <5>4. Offered = Range(queue) \cup Gone'
          BY <2>4 DEF Offered, Gone
        <5> QED  BY <5>1, <5>2, <5>3, <5>4
      <4>2. HasParent(x, Gone' \cup {queue'[j] : j \in 1..(i - 1)})
        BY <4>1, <1>x, MoreParents
      <4> QED  BY <4>2, <3>2, <2>2
    <3>3. i \in 1..Len(queue) \/ i = Len(queue) + 1
      BY <2>2 DEF Line, QueueType
    <3> QED  BY <3>1, <3>2, <3>3
  <2>10. InOrder'
    BY <2>1, <2>4, <2>9 DEF Line, InOrder
  <2>11. Offered' = Offered \cup {x}
    BY <2>1, <2>2 DEF Offered
  <2> QED  BY <2>3, <2>8, <2>10, <2>11 DEF Line, x
<1>2. CASE Queue!DropNewest /\ lost' = lost \cup {x}
  <2>1. /\ queue' = queue /\ inFlight' = inFlight /\ lost' = lost \cup {x}
        /\ delivered' = delivered /\ answer' = answer /\ faults' = faults
        /\ droppedCount' = droppedCount + 1 /\ dequeuedCount' = dequeuedCount
        /\ exportedCount' = exportedCount /\ exportFailureCount' = exportFailureCount
    BY <1>2 DEF EnqueueSpan, Queue!DropNewest
  <2>2. QueueType'
    BY <2>1, <1>x DEF Line, QueueType
  <2>3. Gone' = Gone \cup {x} /\ x \notin Range(queue) /\ x \notin Gone
    BY <2>1, <1>x DEF Gone, Offered
  <2>4. Places'
    BY <2>1, <2>3 DEF Line, Places, Gone
  <2>5. ASSUME NEW i \in 1..Len(queue)
        PROVE  HasParent(queue[i], Gone' \cup {queue[j] : j \in 1..(i - 1)})
    <3>1. HasParent(queue[i], Gone \cup {queue[j] : j \in 1..(i - 1)})
      BY DEF Line, InOrder
    <3> QED  BY <3>1, <2>3, MoreParents
  <2>6. \A y \in Range(inFlight) : HasParent(y, Gone')
    BY <2>3, MoreParents DEF Line, InOrder
  <2>7. \A y \in delivered : HasParent(y, delivered \cup lost')
    BY <2>1, MoreParents DEF Line, InOrder
  <2>8. InOrder'
    BY <2>1, <2>5, <2>6, <2>7 DEF InOrder
  <2>9. Offered' = Offered \cup {x}
    BY <2>1 DEF Offered
  <2> QED  BY <2>2, <2>4, <2>8, <2>9 DEF Line, x
<1> QED  BY <1>1, <1>2 DEF EnqueueSpan, x

-----------------------------------------------------------------------------
\* The export worker and the postmaster move spans along the line and take none away.

LEMMA WaitKeepsLine ==
    ASSUME Line, UNCHANGED queueVars, UNCHANGED fate, answer' = answer
    PROVE  Line' /\ Offered' = Offered
<1>1. /\ queue' = queue /\ inFlight' = inFlight /\ answer' = answer /\ delivered' = delivered
      /\ lost' = lost /\ faults' = faults /\ droppedCount' = droppedCount
      /\ dequeuedCount' = dequeuedCount /\ exportedCount' = exportedCount
      /\ exportFailureCount' = exportFailureCount
  BY DEF queueVars, fate
<1>2. QueueType'
  BY <1>1 DEF Line, QueueType
<1>3. Gone' = Gone /\ Offered' = Offered
  BY <1>1 DEF Gone, Offered
<1>4. Places'
  BY <1>1, <1>3 DEF Line, Places
<1>5. InOrder'
  BY <1>1, <1>3 DEF Line, InOrder
<1> QED  BY <1>2, <1>3, <1>4, <1>5 DEF Line

LEMMA DequeueKeepsLine ==
    ASSUME Line, DequeueBatch
    PROVE  Line' /\ Offered' = Offered
<1>1. PICK n \in 1..MaxBatch : Queue!DequeueBatch(n)
  BY DEF DequeueBatch
<1> DEFINE k == IF n < Len(queue) THEN n ELSE Len(queue)
<1>a. Len(queue) \in Nat /\ n \in Nat /\ n > 0
  BY PipelineAssumption DEF Line, QueueType
<1>b. /\ k > 0 /\ inFlight' = SubSeq(queue, 1, k)
      /\ queue' = SubSeq(queue, k + 1, Len(queue))
      /\ dequeuedCount' = dequeuedCount + k
      /\ UNCHANGED <<droppedCount, exportedCount, exportFailureCount>>
  BY <1>1 DEF Queue!DequeueBatch
<1>2. /\ k \in Nat /\ k > 0 /\ k <= Len(queue)
      /\ inFlight' = SubSeq(queue, 1, k)
      /\ queue' = SubSeq(queue, k + 1, Len(queue))
      /\ dequeuedCount' = dequeuedCount + k
      /\ UNCHANGED <<droppedCount, exportedCount, exportFailureCount, answer, fate>>
      /\ inFlight = <<>>
  BY <1>a, <1>b DEF DequeueBatch
<1> HIDE DEF k
<1>3. /\ inFlight' \in Seq(Span) /\ Len(inFlight') = k
      /\ \A i \in 1..k : inFlight'[i] = queue[i]
  BY <1>2 DEF Line, QueueType
<1>4. /\ queue' \in Seq(Span) /\ Len(queue') = Len(queue) - k
      /\ \A i \in 1..(Len(queue) - k) : queue'[i] = queue[k + i]
  BY <1>2 DEF Line, QueueType
<1>5. QueueType'
  <2>1. Len(queue') <= Capacity
    BY <1>a, <1>2, <1>4, PipelineAssumption DEF Line, QueueType
  <2>2. dequeuedCount' \in Nat
    BY <1>2 DEF Line, QueueType
  <2> QED  BY <2>1, <2>2, <1>2, <1>3, <1>4 DEF Line, QueueType, fate
<1>6. Range(queue) = {queue[i] : i \in 1..Len(queue)} /\ Len(queue) \in Nat
  BY RangeOfSeq DEF Line, QueueType
<1>7. Range(inFlight') = {queue[i] : i \in 1..k}
  <2>1. Range(inFlight') = {inFlight'[i] : i \in 1..k}
    BY <1>3, RangeOfSeq
  <2> QED  BY <2>1, <1>3
<1>8. Range(queue') = {queue[k + i] : i \in 1..(Len(queue) - k)}
  <2>1. Range(queue') = {queue'[i] : i \in 1..(Len(queue) - k)}
    BY <1>4, RangeOfSeq
  <2> QED  BY <2>1, <1>4
<1>9. Range(queue) = Range(queue') \cup Range(inFlight')
  <2>1. ASSUME NEW i \in 1..Len(queue) PROVE queue[i] \in Range(queue') \cup Range(inFlight')
    <3>1. CASE i <= k
      <4>1. i \in 1..k
        BY <3>1, <1>2
      <4> QED  BY <4>1, <1>7
    <3>2. CASE i > k
      <4>1. i - k \in 1..(Len(queue) - k) /\ k + (i - k) = i
        BY <3>2, <1>2, <1>6
      <4> QED  BY <4>1, <1>8
    <3> QED  BY <3>1, <3>2, <1>2
  <2>2. \A i \in 1..k : i \in 1..Len(queue)
    BY <1>2, <1>6
  <2>3. \A i \in 1..(Len(queue) - k) : k + i \in 1..Len(queue)
    BY <1>2, <1>6
  <2> QED  BY <2>1, <2>2, <2>3, <1>6, <1>7, <1>8
<1>10. Range(inFlight) = {}
  <2>1. inFlight \in Seq(Span)
    BY DEF Line, QueueType
  <2>2. \A i \in 1..Len(inFlight) : FALSE
    BY <1>2
  <2> QED  BY <2>1, <2>2, RangeOfSeq
<1>11. Offered' = Offered
  BY <1>2, <1>9, <1>10 DEF Offered, fate
<1>12. Range(queue') \cap Range(inFlight') = {}
  <2>1. ASSUME NEW i \in 1..k, NEW j \in 1..(Len(queue) - k), queue[i] = queue[k + j]
        PROVE  FALSE
    <3>1. i \in 1..Len(queue) /\ k + j \in 1..Len(queue) /\ i # k + j
      BY <1>2, <1>6
    <3> QED  BY <3>1, <2>1 DEF Line, Places
  <2> QED  BY <2>1, <1>7, <1>8
<1>13. Gone' = Gone \cup Range(inFlight')
  BY <1>2, <1>10 DEF Gone, fate
<1>14. Places'
  <2>1. \A i, j \in 1..Len(queue') : queue'[i] = queue'[j] => i = j
    <3>1. SUFFICES ASSUME NEW i \in 1..(Len(queue) - k), NEW j \in 1..(Len(queue) - k),
                          queue[k + i] = queue[k + j]
                   PROVE  i = j
      BY <1>4
    <3>2. k + i \in 1..Len(queue) /\ k + j \in 1..Len(queue)
      BY <1>2, <1>6
    <3>3. k + i = k + j
      BY <3>1, <3>2 DEF Line, Places
    <3> QED  BY <3>3, <1>2
  <2>2. \A i, j \in 1..Len(inFlight') : inFlight'[i] = inFlight'[j] => i = j
    <3>1. SUFFICES ASSUME NEW i \in 1..k, NEW j \in 1..k, queue[i] = queue[j]
                   PROVE  i = j
      BY <1>3
    <3>2. i \in 1..Len(queue) /\ j \in 1..Len(queue)
      BY <1>2, <1>6
    <3> QED  BY <3>1, <3>2 DEF Line, Places
  <2>3. Range(queue) \cap (delivered \cup lost) = {}
    BY DEF Line, Places, Gone
  <2>4. Range(queue') \cap Gone' = {}
    BY <2>3, <1>2, <1>9, <1>10, <1>12, <1>13 DEF Gone
  <2>5. Range(inFlight') \cap lost' = {} /\ Range(inFlight') \cap delivered' = {}
    BY <2>3, <1>2, <1>9 DEF fate
  <2>6. answer' = "none"
    BY <1>2 DEF Line, Places, QueueType
  <2> QED  BY <2>1, <2>2, <2>4, <2>5, <2>6 DEF Places
<1>15. InOrder'
  <2>1. ASSUME NEW i \in 1..Len(queue)
        PROVE  HasParent(queue[i], Gone \cup {queue[j] : j \in 1..(i - 1)})
    BY DEF Line, InOrder
  <2>2. ASSUME NEW i \in 1..Len(queue')
        PROVE  HasParent(queue'[i], Gone' \cup {queue'[j] : j \in 1..(i - 1)})
    <3>1. PICK n0 \in 1..Len(queue) : n0 = k + i /\ queue'[i] = queue[n0]
      BY <1>2, <1>4, <1>6
    <3>2. HasParent(queue'[i], Gone \cup {queue[j] : j \in 1..(n0 - 1)})
      BY <3>1, <2>1
    <3>3. ASSUME NEW j \in 1..(n0 - 1)
          PROVE  queue[j] \in Gone' \cup {queue'[m] : m \in 1..(i - 1)}
      <4>1. CASE j <= k
        <5>1. j \in 1..k
          BY <4>1, <1>2
        <5> QED  BY <5>1, <1>7, <1>13
      <4>2. CASE j > k
        <5>1. j - k \in 1..(i - 1) /\ j - k \in 1..(Len(queue) - k) /\ k + (j - k) = j
          BY <3>1, <4>2, <1>2, <1>4, <1>6
        <5>2. queue'[j - k] = queue[j]
          BY <5>1, <1>4
        <5> QED  BY <5>1, <5>2
      <4>3. j <= k \/ j > k
        BY <1>2
      <4> QED  BY <4>1, <4>2, <4>3
    <3>4. Gone \cup {queue[j] : j \in 1..(n0 - 1)}
            \subseteq Gone' \cup {queue'[m] : m \in 1..(i - 1)}
      BY <3>3, <1>13
    <3> QED  BY <3>2, <3>4, MoreParents
  <2>3. ASSUME NEW i \in 1..k
        PROVE  HasParent(queue[i], Gone')
    <3>1. i \in 1..Len(queue)
      BY <1>2, <1>6
    <3>2. HasParent(queue[i], Gone \cup {queue[j] : j \in 1..(i - 1)})
      BY <3>1, <2>1
    <3>3. \A j \in 1..(i - 1) : j \in 1..k
      BY <1>2
    <3>4. Gone \cup {queue[j] : j \in 1..(i - 1)} \subseteq Gone'
      BY <3>3, <1>7, <1>13
    <3> QED  BY <3>2, <3>4, MoreParents
  <2>4. \A y \in Range(inFlight') : HasParent(y, Gone')
    BY <2>3, <1>7
  <2>5. \A y \in delivered' : HasParent(y, delivered' \cup lost')
    BY <1>2 DEF Line, InOrder, fate
  <2> QED  BY <2>2, <2>4, <2>5 DEF InOrder
<1> QED  BY <1>5, <1>11, <1>14, <1>15 DEF Line

LEMMA PostKeepsLine ==
    ASSUME Line, NEW arrives \in BOOLEAN, NEW result \in {"ok", "failed"},
           Post(arrives, result)
    PROVE  Line' /\ Offered' = Offered
<1>1. /\ inFlight # <<>> /\ answer' = result /\ (result = "ok" => arrives)
      /\ queue' = queue /\ inFlight' = inFlight /\ lost' = lost
      /\ UNCHANGED <<droppedCount, dequeuedCount, exportedCount, exportFailureCount>>
      /\ faults' \in Nat
  BY DEF Post, Fault, queueVars, Line, QueueType
<1>2. /\ arrives => delivered' = delivered \cup Range(inFlight)
      /\ ~arrives => delivered' = delivered
  BY DEF Post
<1>3. Gone' = Gone /\ Offered' = Offered
  BY <1>1, <1>2 DEF Gone, Offered
<1>4. Range(inFlight) \subseteq Span
  BY RangeOfSeq DEF Line, QueueType
<1>5. QueueType'
  <2>1. delivered' \subseteq Span
    BY <1>2, <1>4 DEF Line, QueueType
  <2>2. answer' \in {"none", "ok", "failed"} /\ droppedCount' \in Nat /\ dequeuedCount' \in Nat
        /\ exportedCount' \in Nat /\ exportFailureCount' \in Nat
    BY <1>1 DEF Line, QueueType
  <2> QED  BY <2>1, <2>2, <1>1 DEF Line, QueueType
<1>6. Places'
  <2>1. answer' # "none" /\ (answer' = "ok" => Range(inFlight) \subseteq delivered')
    BY <1>1, <1>2
  <2> QED  BY <2>1, <1>1, <1>3 DEF Line, Places
<1>7. \A x \in delivered' : HasParent(x, delivered' \cup lost')
  <2>1. CASE arrives
    <3>1. delivered' \cup lost' = Gone
      BY <2>1, <1>1, <1>2 DEF Gone
    <3>2. \A x \in delivered : HasParent(x, Gone)
      BY MoreParents DEF Line, InOrder, Gone
    <3> QED  BY <3>1, <3>2, <2>1, <1>2 DEF Line, InOrder
  <2>2. CASE ~arrives
    BY <2>2, <1>1, <1>2 DEF Line, InOrder
  <2> QED  BY <2>1, <2>2
<1>8. InOrder'
  BY <1>1, <1>3, <1>7 DEF Line, InOrder
<1> QED  BY <1>3, <1>5, <1>6, <1>8 DEF Line

LEMMA SuccessKeepsLine ==
    ASSUME Line, RecordExportSuccess
    PROVE  Line' /\ Offered' = Offered
<1>1. /\ answer = "ok" /\ answer' = "none" /\ inFlight' = <<>> /\ queue' = queue
      /\ exportedCount' = exportedCount + Len(inFlight)
      /\ UNCHANGED <<droppedCount, dequeuedCount, exportFailureCount, delivered, lost, faults>>
  BY DEF RecordExportSuccess, Queue!RecordSuccess, fate
<1>2. Range(inFlight) \subseteq delivered
  BY <1>1 DEF Line, Places
<1>3. Gone' = Gone /\ Offered' = Offered
  BY <1>1, <1>2, RangeOfEmpty DEF Gone, Offered
<1>4. QueueType'
  BY <1>1, RangeOfEmpty DEF Line, QueueType
<1>5. Places'
  BY <1>1, <1>3, RangeOfEmpty DEF Line, Places
<1>6. InOrder'
  <2>1. \A i \in 1..Len(queue) : HasParent(queue[i], Gone' \cup {queue[j] : j \in 1..(i - 1)})
    BY <1>3 DEF Line, InOrder
  <2>2. \A x \in Range(inFlight') : FALSE
    BY <1>1, RangeOfEmpty
  <2>3. \A x \in delivered : HasParent(x, delivered \cup lost)
    BY DEF Line, InOrder
  <2> QED  BY <2>1, <2>2, <2>3, <1>1 DEF InOrder
<1> QED  BY <1>3, <1>4, <1>5, <1>6 DEF Line

\* A batch that is given up, after a failed post or when the worker dies
LEMMA LossKeepsLine ==
    ASSUME Line, queue' = queue, inFlight' = <<>>, answer' = "none",
           lost' = lost \cup Range(inFlight), delivered' = delivered,
           droppedCount' = droppedCount, dequeuedCount' = dequeuedCount,
           exportedCount' = exportedCount, exportFailureCount' \in Nat, faults' \in Nat
    PROVE  Line' /\ Offered' = Offered
<1>1. Gone' = Gone /\ Offered' = Offered
  BY RangeOfEmpty DEF Gone, Offered
<1>2. Range(inFlight) \subseteq Span
  BY RangeOfSeq DEF Line, QueueType
<1>3. QueueType'
  BY <1>2, RangeOfEmpty DEF Line, QueueType
<1>4. Places'
  BY <1>1, RangeOfEmpty DEF Line, Places
<1>5. \A x \in delivered : HasParent(x, delivered \cup lost')
  BY MoreParents DEF Line, InOrder
<1>6. InOrder'
  <2>1. \A i \in 1..Len(queue) : HasParent(queue[i], Gone' \cup {queue[j] : j \in 1..(i - 1)})
    BY <1>1 DEF Line, InOrder
  <2>2. \A x \in Range(inFlight') : FALSE
    BY RangeOfEmpty
  <2> QED  BY <2>1, <2>2, <1>5 DEF InOrder
<1> QED  BY <1>1, <1>3, <1>4, <1>6 DEF Line

LEMMA FailureKeepsLine ==
    ASSUME Line, RecordExportFailure
    PROVE  Line' /\ Offered' = Offered
BY LossKeepsLine DEF RecordExportFailure, Queue!RecordFailure, Line, QueueType

LEMMA CrashKeepsLine ==
    ASSUME Line, WorkerCrash
    PROVE  Line' /\ Offered' = Offered
BY LossKeepsLine DEF WorkerCrash, Fault, Queue!Discard, Line, QueueType

LEMMA RestartKeepsLine ==
    ASSUME Line, Restart
    PROVE  Line' /\ Offered' = Offered
<1>1. /\ queue' = <<>> /\ inFlight' = <<>> /\ answer' = "none" /\ faults' = faults + 1
      /\ droppedCount' = 0 /\ dequeuedCount' = 0 /\ exportedCount' = 0
      /\ exportFailureCount' = 0 /\ delivered' = delivered
      /\ lost' = lost \cup Range(queue) \cup Range(inFlight)
  BY DEF Restart, Fault, Queue!Reinitialise
<1>2. Range(inFlight) \subseteq Span /\ Range(queue) \subseteq Span
  BY RangeOfSeq DEF Line, QueueType
<1>3. Offered' = Offered
  <2>1. Range(queue') = {} /\ Range(inFlight') = {}
    BY <1>1, RangeOfEmpty
  <2> QED  BY <1>1, <2>1 DEF Offered
<1>4. QueueType'
  BY <1>1, <1>2, RangeOfEmpty, PipelineAssumption DEF Line, QueueType
<1>5. Places'
  BY <1>1, RangeOfEmpty DEF Places
<1>6. \A x \in delivered : HasParent(x, delivered \cup lost')
  BY <1>1, MoreParents DEF Line, InOrder
<1>7. InOrder'
  BY <1>1, <1>6, RangeOfEmpty DEF InOrder
<1> QED  BY <1>3, <1>4, <1>5, <1>7 DEF Line

-----------------------------------------------------------------------------
\* Plans: what the walk hands down is the nearest ancestor that ran.

LEMMA MaxIs ==
    ASSUME NEW S \in SUBSET Int, NEW m \in S, \A y \in S : y <= m
    PROVE  Max(S) = m
<1>1. \A y \in S : m >= y
  OBVIOUS
<1>2. Max(S) \in S /\ \A y \in S : Max(S) >= y
  BY <1>1 DEF Max
<1>3. Max(S) \in Int /\ m \in Int /\ Max(S) >= m /\ Max(S) <= m
  BY <1>2
<1> HIDE DEF Max
<1> QED  BY <1>3

LEMMA AboveParent ==
    ASSUME NEW plan, IsPlan(plan), NEW n \in 1..plan.size, plan.up[n] >= 1
    PROVE  /\ plan.up[n] \in 1..(n - 1)
           /\ \A m \in 1..plan.size :
                 IsAbove(plan, m, n) <=> m = plan.up[n] \/ IsAbove(plan, m, plan.up[n])
<1> DEFINE p == plan.up[n]
<1>1. /\ plan.size \in Nat /\ p \in 1..(n - 1)
      /\ \A k \in 1..plan.size : plan.up[k] \in Nat /\ plan.up[k] < k
      /\ \A k \in 1..plan.size : p < k /\ k < n => plan.up[k] >= p
  BY DEF IsPlan
<1> HIDE DEF p
<1>2. ASSUME NEW m \in 1..plan.size, IsAbove(plan, m, n)
      PROVE  m = p \/ IsAbove(plan, m, p)
  <2>1. m < n /\ \A k \in (m + 1)..n : plan.up[k] >= m
    BY <1>2 DEF IsAbove
  <2>2. p >= m
    BY <2>1 DEF p
  <2>3. \A k \in (m + 1)..p : k \in (m + 1)..n
    BY <1>1
  <2> QED  BY <1>1, <2>1, <2>2, <2>3 DEF IsAbove
<1>3. \A k \in (p + 1)..n : plan.up[k] >= p
  <2>1. SUFFICES ASSUME NEW k \in (p + 1)..n PROVE plan.up[k] >= p
    OBVIOUS
  <2>2. CASE k = n
    BY <2>2, <1>1 DEF p
  <2>3. CASE k # n
    <3>1. k \in 1..plan.size /\ p < k /\ k < n
      BY <2>3, <1>1
    <3> QED  BY <3>1, <1>1
  <2> QED  BY <2>2, <2>3
<1>4. IsAbove(plan, p, n)
  BY <1>1, <1>3 DEF IsAbove
<1>5. ASSUME NEW m \in 1..plan.size, IsAbove(plan, m, p)
      PROVE  IsAbove(plan, m, n)
  <2>1. m < p /\ \A k \in (m + 1)..p : plan.up[k] >= m
    BY <1>5 DEF IsAbove
  <2>2. ASSUME NEW k \in (m + 1)..n PROVE plan.up[k] >= m
    <3>1. CASE k <= p
      <4>1. k \in (m + 1)..p
        BY <3>1, <1>1
      <4> QED  BY <4>1, <2>1
    <3>2. CASE k > p
      <4>1. k \in (p + 1)..n /\ k \in 1..plan.size
        BY <3>2, <1>1
      <4>2. plan.up[k] >= p /\ plan.up[k] \in Nat
        BY <4>1, <1>3, <1>1
      <4> QED  BY <4>2, <2>1, <1>1
    <3>3. k <= p \/ k > p
      BY <1>1
    <3> QED  BY <3>1, <3>2, <3>3
  <2> QED  BY <2>1, <2>2, <1>1 DEF IsAbove
<1> QED  BY <1>1, <1>2, <1>4, <1>5 DEF p

LEMMA NearestOfTop ==
    ASSUME NEW plan, IsPlan(plan), NEW n \in 1..plan.size, plan.up[n] = 0
    PROVE  Nearest(plan, n) = 0
<1>1. ASSUME NEW m \in plan.ran, IsAbove(plan, m, n) PROVE FALSE
  <2>1. m \in 1..plan.size /\ plan.size \in Nat
    BY DEF IsPlan
  <2>2. n \in (m + 1)..n /\ plan.up[n] >= m
    BY <1>1, <2>1 DEF IsAbove
  <2> QED  BY <2>1, <2>2
<1>2. {0} \cup {m \in plan.ran : IsAbove(plan, m, n)} = {0}
  BY <1>1
<1>3. Max({0}) = 0
  BY MaxIs
<1> QED  BY <1>2, <1>3 DEF Nearest

LEMMA NearestBelow ==
    ASSUME NEW plan, IsPlan(plan), NEW n \in 1..plan.size, plan.up[n] >= 1
    PROVE  Nearest(plan, n) = IF plan.up[n] \in plan.ran THEN plan.up[n]
                              ELSE Nearest(plan, plan.up[n])
<1> DEFINE p == plan.up[n]
           Candidates(k) == {m \in plan.ran : IsAbove(plan, m, k)}
<1>1. plan.ran \subseteq 1..plan.size /\ plan.size \in Nat /\ p \in 1..(n - 1)
  BY AboveParent DEF IsPlan
<1>2. \A m \in plan.ran : IsAbove(plan, m, n) <=> m = p \/ IsAbove(plan, m, p)
  BY <1>1, AboveParent
<1>3. CASE p \in plan.ran
  <2>1. p \in {0} \cup Candidates(n)
    BY <1>2, <1>3
  <2>2. ASSUME NEW y \in {0} \cup Candidates(n) PROVE y \in Int /\ y <= p
    BY <1>1, <1>2 DEF IsAbove
  <2>3. {0} \cup Candidates(n) \in SUBSET Int
    BY <2>2
  <2>4. Max({0} \cup Candidates(n)) = p
    <3> HIDE DEF Candidates, p
    <3> QED  BY <2>1, <2>2, <2>3, MaxIs
  <2> QED  BY <2>4, <1>3 DEF Nearest
<1>4. CASE p \notin plan.ran
  <2>1. Candidates(n) = Candidates(p)
    BY <1>2, <1>4
  <2> QED  BY <2>1, <1>4 DEF Nearest
<1> QED  BY <1>3, <1>4

-----------------------------------------------------------------------------
\* Traces, place by place: place <<0, 0>> is the query's, <<0, 1>> the planner's, <<n, 0>>
\* that of node n and <<n, w>> that of the worker w that ran it.

InTrace(e, n, w) ==
    \/ n = 0 /\ w = 0
    \/ n = 0 /\ w = 1 /\ e.planned
    \/ n \in e.plan.ran /\ w = 0 /\ e.succeeded
    \/ n \in e.plan.ran /\ w \in 1..e.plan.helpers[n] /\ e.succeeded

SpanAt(e, s, n, w) ==
    [id |-> Id(s, n, w),
     parent |-> IF n = 0 THEN (IF w = 0 THEN Caller ELSE Id(s, 0, 0))
                ELSE IF w = 0 THEN Id(s, Nearest(e.plan, n), 0) ELSE Id(s, n, 0)]

LEMMA TraceByPlace ==
    ASSUME NEW e \in Executions, NEW s \in Nat, statements[s] = e, NEW x
    PROVE  x \in Trace(s) <=> \E n, w \in Nat : InTrace(e, n, w) /\ x = SpanAt(e, s, n, w)
<1>1. /\ IsPlan(e.plan) /\ e.planned \in BOOLEAN /\ e.succeeded \in BOOLEAN
      /\ e.plan.ran \subseteq 1..e.plan.size /\ e.plan.size \in Nat
  BY PipelineAssumption DEF IsPlan
<1>2. \A n \in e.plan.ran : n \in Nat /\ n # 0 /\ e.plan.helpers[n] \in Nat
  BY <1>1 DEF IsPlan
<1> DEFINE walked == IF e.succeeded THEN e.plan.ran ELSE {}
           Query == {[id |-> Id(s, 0, 0), parent |-> Caller]}
           Planner == IF e.planned
                      THEN {[id |-> Id(s, 0, 1), parent |-> Id(s, 0, 0)]} ELSE {}
           Nodes == {[id |-> Id(s, n, 0), parent |-> Id(s, Nearest(e.plan, n), 0)] : n \in walked}
           Workers == UNION {{[id |-> Id(s, n, w), parent |-> Id(s, n, 0)] :
                                 w \in 1..e.plan.helpers[n]} : n \in walked}
<1>3. Trace(s) = Query \cup Planner \cup Nodes \cup Workers
  BY DEF Trace
<1>4. x \in Query <=> x = SpanAt(e, s, 0, 0)
  BY DEF SpanAt
<1>5. x \in Planner <=> e.planned /\ x = SpanAt(e, s, 0, 1)
  BY <1>1 DEF SpanAt
<1>6. x \in Nodes <=> \E n \in e.plan.ran : e.succeeded /\ x = SpanAt(e, s, n, 0)
  BY <1>1, <1>2 DEF SpanAt
<1>7. x \in Workers <=> \E n \in e.plan.ran : \E w \in 1..e.plan.helpers[n] :
                            e.succeeded /\ x = SpanAt(e, s, n, w)
  <2>1. \A n \in e.plan.ran : \A w \in 1..e.plan.helpers[n] :
           SpanAt(e, s, n, w) = [id |-> Id(s, n, w), parent |-> Id(s, n, 0)]
    BY <1>2 DEF SpanAt
  <2> QED  BY <2>1, <1>1
<1> HIDE DEF Query, Planner, Nodes, Workers
<1>8. ASSUME x \in Trace(s)
      PROVE  \E n, w \in Nat : InTrace(e, n, w) /\ x = SpanAt(e, s, n, w)
  <2>1. CASE x \in Query
    <3>1. InTrace(e, 0, 0) /\ x = SpanAt(e, s, 0, 0)
      BY <2>1, <1>4 DEF InTrace
    <3> QED  BY <3>1
  <2>2. CASE x \in Planner
    <3>1. InTrace(e, 0, 1) /\ x = SpanAt(e, s, 0, 1)
      BY <2>2, <1>5 DEF InTrace
    <3> QED  BY <3>1
  <2>3. CASE x \in Nodes
    <3>1. PICK n \in e.plan.ran : e.succeeded /\ x = SpanAt(e, s, n, 0)
      BY <2>3, <1>6
    <3>2. InTrace(e, n, 0) /\ n \in Nat
      BY <3>1, <1>2 DEF InTrace
    <3> QED  BY <3>1, <3>2
  <2>4. CASE x \in Workers
    <3>1. PICK n \in e.plan.ran : \E w \in 1..e.plan.helpers[n] :
             e.succeeded /\ x = SpanAt(e, s, n, w)
      BY <2>4, <1>7
    <3>2. PICK w \in 1..e.plan.helpers[n] : e.succeeded /\ x = SpanAt(e, s, n, w)
      BY <3>1
    <3>3. InTrace(e, n, w) /\ n \in Nat /\ w \in Nat
      BY <3>2, <1>2 DEF InTrace
    <3> QED  BY <3>2, <3>3
  <2> QED  BY <2>1, <2>2, <2>3, <2>4, <1>3, <1>8
<1>9. ASSUME NEW n \in Nat, NEW w \in Nat, InTrace(e, n, w), x = SpanAt(e, s, n, w)
      PROVE  x \in Trace(s)
  BY <1>9, <1>3, <1>4, <1>5, <1>6, <1>7 DEF InTrace
<1> QED  BY <1>8, <1>9

-----------------------------------------------------------------------------
\* The flush: what a backend has offered of the trace of its statement.

\* Which places a backend is past, of a statement that it flushes
PastAt(place, visited, next, n, w) ==
    \/ place = "idle"
    \/ place = "planner" /\ n = 0 /\ w = 0
    \/ place = "node" /\ n <= visited
    \/ place = "worker" /\ (n < visited \/ (n = visited /\ w < next))

Past(b, n, w) == PastAt(pc[b], Len(handed[b]), helper[b], n, w)

\* What is behind a node that was visited
HandedDown(plan, parents) ==
    /\ Len(parents) <= plan.size
    /\ \A n \in 1..Len(parents) :
          /\ parents[n] = IF n \in plan.ran THEN n ELSE Nearest(plan, n)
          /\ parents[n] = 0 \/ (parents[n] \in plan.ran /\ parents[n] <= n)

WalkAt(e, place, parents, next) ==
    /\ place \in {"query", "planner"} => parents = <<>>
    /\ place = "planner" => e.planned
    /\ place \in {"node", "worker"} => e.succeeded
    /\ place = "node" => Len(parents) < e.plan.size
    /\ place = "worker" =>
          Len(parents) \in e.plan.ran /\ next \in 1..e.plan.helpers[Len(parents)]
    /\ HandedDown(e.plan, parents)

FlushType ==
    /\ statements \in Seq(Executions)
    /\ pc \in [Backends -> {"idle", "query", "planner", "node", "worker"}]
    /\ current \in [Backends -> Nat]
    /\ handed \in [Backends -> Seq(Nat)] /\ helper \in [Backends -> Nat]
    /\ \A b \in Backends : current[b] <= Len(statements)
    /\ \A b \in Backends : pc[b] # "idle" => current[b] # 0

Distinct ==
    \A b, c \in Backends : current[b] = current[c] /\ current[b] # 0 => b = c

Walks ==
    \A b \in Backends : pc[b] # "idle" => WalkAt(Statement(b), pc[b], handed[b], helper[b])

Progress ==
    \A b \in Backends : current[b] # 0 =>
        \A n, w \in Nat : InTrace(Statement(b), n, w) =>
            (SpanAt(Statement(b), current[b], n, w) \in Offered <=> Past(b, n, w))

Faithful ==
    \A x \in Offered : \E s \in 1..Len(statements) : \E n, w \in Nat :
        InTrace(statements[s], n, w) /\ x = SpanAt(statements[s], s, n, w)

Flush == FlushType /\ Distinct /\ Walks /\ Progress /\ Faithful

\* The parent the walk hands down is the nearest ancestor that ran.
LEMMA ParentIsNearest ==
    ASSUME NEW plan, IsPlan(plan), NEW parents \in Seq(Nat), HandedDown(plan, parents),
           NEW n \in 1..plan.size, n = Len(parents) + 1
    PROVE  LET p == IF plan.up[n] = 0 THEN 0 ELSE parents[plan.up[n]]
           IN  p = Nearest(plan, n) /\ (p = 0 \/ (p \in plan.ran /\ p < n))
<1>1. plan.up[n] \in Nat /\ plan.up[n] < n /\ plan.size \in Nat /\ plan.ran \subseteq 1..plan.size
  BY DEF IsPlan
<1>2. CASE plan.up[n] = 0
  BY <1>2, NearestOfTop
<1>3. CASE plan.up[n] # 0
  <2>1. plan.up[n] \in 1..Len(parents) /\ plan.up[n] >= 1
    BY <1>1, <1>3
  <2>2. Nearest(plan, n) = IF plan.up[n] \in plan.ran THEN plan.up[n]
                           ELSE Nearest(plan, plan.up[n])
    BY <2>1, NearestBelow
  <2>3. parents[plan.up[n]] = Nearest(plan, n)
    BY <2>1, <2>2 DEF HandedDown
  <2>4. parents[plan.up[n]] = 0
        \/ (parents[plan.up[n]] \in plan.ran /\ parents[plan.up[n]] <= plan.up[n])
    BY <2>1 DEF HandedDown
  <2>5. plan.ran \subseteq Int
    BY <1>1
  <2> QED  BY <2>3, <2>4, <2>5, <1>1, <1>3
<1> QED  BY <1>2, <1>3

\* A node visited more
LEMMA HandOneMore ==
    ASSUME NEW plan, IsPlan(plan), NEW parents \in Seq(Nat), HandedDown(plan, parents),
           NEW n \in 1..plan.size, n = Len(parents) + 1,
           NEW p \in Nat, p = (IF n \in plan.ran THEN n ELSE Nearest(plan, n)),
           p = 0 \/ (p \in plan.ran /\ p <= n)
    PROVE  HandedDown(plan, Append(parents, p))
<1>1. /\ Len(Append(parents, p)) = n /\ Append(parents, p)[n] = p
      /\ \A k \in 1..Len(parents) : Append(parents, p)[k] = parents[k]
  OBVIOUS
<1>2. \A k \in 1..n : k = n \/ k \in 1..Len(parents)
  OBVIOUS
<1>3. n <= plan.size /\ plan.size \in Nat
  BY DEF IsPlan
<1> QED  BY <1>1, <1>2, <1>3 DEF HandedDown

\* Different places of traces have different spans.
LEMMA SpansDiffer ==
    ASSUME NEW e, NEW f, NEW s \in Nat, NEW r \in Nat, NEW n \in Nat, NEW m \in Nat,
           NEW w \in Nat, NEW v \in Nat, SpanAt(e, s, n, w) = SpanAt(f, r, m, v)
    PROVE  s = r /\ n = m /\ w = v
<1>1. SpanAt(e, s, n, w).id = SpanAt(f, r, m, v).id
  OBVIOUS
<1>2. Id(s, n, w) = Id(r, m, v)
  BY <1>1 DEF SpanAt
<1> QED  BY <1>2 DEF Id

\* A backend that comes past the places whose spans it offers, and past none else that
\* is in the trace.
LEMMA StepKeepsFlush ==
    ASSUME Flush, FlushType', UNCHANGED <<statements, current>>,
           NEW b \in Backends, pc[b] # "idle",
           NEW offered, Offered' = Offered \cup offered,
           \A x \in offered : \E n, w \in Nat :
              InTrace(Statement(b), n, w) /\ x = SpanAt(Statement(b), current[b], n, w),
           \A c \in Backends \ {b} :
              pc'[c] = pc[c] /\ handed'[c] = handed[c] /\ helper'[c] = helper[c],
           NEW place, NEW parents, NEW next,
           pc'[b] = place, handed'[b] = parents, helper'[b] = next,
           place # "idle" => WalkAt(Statement(b), place, parents, next),
           \A n, w \in Nat : InTrace(Statement(b), n, w) =>
              (PastAt(place, Len(parents), next, n, w)
                 <=> Past(b, n, w) \/ SpanAt(Statement(b), current[b], n, w) \in offered)
    PROVE  Flush'
<1>1. /\ current[b] \in 1..Len(statements) /\ current[b] \in Nat /\ current[b] # 0
      /\ \A c \in Backends : current[c] \in Nat
  BY DEF Flush, FlushType
<1>2. \A c \in Backends : Statement(c)' = Statement(c)
  BY DEF Statement
<1>3. Distinct'
  BY DEF Flush, Distinct
<1>4. Walks'
  <2>1. ASSUME NEW c \in Backends, pc'[c] # "idle"
        PROVE  WalkAt(Statement(c), pc'[c], handed'[c], helper'[c])
    BY <2>1 DEF Flush, Walks
  <2> QED  BY <2>1, <1>2 DEF Walks
<1>5. Progress'
  <2>1. ASSUME NEW c \in Backends, current[c] # 0, NEW n \in Nat, NEW w \in Nat,
               InTrace(Statement(c), n, w)
        PROVE  SpanAt(Statement(c), current[c], n, w) \in Offered'
                 <=> PastAt(pc'[c], Len(handed'[c]), helper'[c], n, w)
    <3>1. SpanAt(Statement(c), current[c], n, w) \in Offered <=> Past(c, n, w)
      BY <2>1 DEF Flush, Progress
    <3>2. CASE c = b
      BY <3>1, <3>2, <2>1
    <3>3. CASE c # b
      <4>1. current[c] # current[b]
        BY <3>3, <2>1 DEF Flush, Distinct
      <4>2. SpanAt(Statement(c), current[c], n, w) \notin offered
        BY <4>1, <1>1, SpansDiffer
      <4>3. pc'[c] = pc[c] /\ handed'[c] = handed[c] /\ helper'[c] = helper[c]
        BY <3>3
      <4>4. SpanAt(Statement(c), current[c], n, w) \in Offered'
              <=> SpanAt(Statement(c), current[c], n, w) \in Offered
        BY <4>2
      <4> QED  BY <4>3, <4>4, <3>1 DEF Past
    <3> QED  BY <3>2, <3>3
  <2> QED  BY <2>1, <1>2 DEF Progress, Past
<1>6. Faithful'
  <2>1. ASSUME NEW x \in Offered'
        PROVE  \E s \in 1..Len(statements) : \E n, w \in Nat :
                  InTrace(statements[s], n, w) /\ x = SpanAt(statements[s], s, n, w)
    <3>1. CASE x \in Offered
      BY <3>1 DEF Flush, Faithful
    <3>2. CASE x \in offered
      BY <3>2, <1>1 DEF Statement
    <3> QED  BY <3>1, <3>2
  <2> QED  BY <2>1 DEF Faithful
<1> QED  BY <1>3, <1>4, <1>5, <1>6 DEF Flush

LEMMA OfferKeepsFlush ==
    ASSUME Flush, FlushType', UNCHANGED <<statements, current>>,
           NEW b \in Backends, pc[b] # "idle", NEW n0 \in Nat, NEW w0 \in Nat,
           InTrace(Statement(b), n0, w0),
           Offered' = Offered \cup {SpanAt(Statement(b), current[b], n0, w0)},
           \A c \in Backends \ {b} :
              pc'[c] = pc[c] /\ handed'[c] = handed[c] /\ helper'[c] = helper[c],
           NEW place, NEW parents, NEW next,
           pc'[b] = place, handed'[b] = parents, helper'[b] = next,
           place # "idle" => WalkAt(Statement(b), place, parents, next),
           \A n, w \in Nat : InTrace(Statement(b), n, w) =>
              (PastAt(place, Len(parents), next, n, w) <=> Past(b, n, w) \/ (n = n0 /\ w = w0))
    PROVE  Flush'
<1> DEFINE offered == {SpanAt(Statement(b), current[b], n0, w0)}
<1>1. current[b] \in Nat
  BY DEF Flush, FlushType
<1>2. \A n, w \in Nat : SpanAt(Statement(b), current[b], n, w) \in offered <=> n = n0 /\ w = w0
  BY <1>1, SpansDiffer
<1>3. \A x \in offered : \E n, w \in Nat :
         InTrace(Statement(b), n, w) /\ x = SpanAt(Statement(b), current[b], n, w)
  OBVIOUS
<1>4. Offered' = Offered \cup offered
  OBVIOUS
<1> HIDE DEF offered
<1>5. \A n, w \in Nat : InTrace(Statement(b), n, w) =>
         (PastAt(place, Len(parents), next, n, w)
            <=> Past(b, n, w) \/ SpanAt(Statement(b), current[b], n, w) \in offered)
  BY <1>2
<1> QED  BY <1>3, <1>4, <1>5, StepKeepsFlush

LEMMA PassKeepsFlush ==
    ASSUME Flush, FlushType', UNCHANGED <<statements, current>>,
           NEW b \in Backends, pc[b] # "idle", Offered' = Offered,
           \A c \in Backends \ {b} :
              pc'[c] = pc[c] /\ handed'[c] = handed[c] /\ helper'[c] = helper[c],
           NEW place, NEW parents, NEW next,
           pc'[b] = place, handed'[b] = parents, helper'[b] = next,
           place # "idle" => WalkAt(Statement(b), place, parents, next),
           \A n, w \in Nat : InTrace(Statement(b), n, w) =>
              (PastAt(place, Len(parents), next, n, w) <=> Past(b, n, w))
    PROVE  Flush'
<1> DEFINE offered == {y \in {0} : FALSE}
<1>1. /\ \A x \in offered : FALSE
      /\ \A n, w \in Nat : SpanAt(Statement(b), current[b], n, w) \notin offered
      /\ Offered' = Offered \cup offered
  OBVIOUS
<1> HIDE DEF offered
<1>2. \A n, w \in Nat : InTrace(Statement(b), n, w) =>
         (PastAt(place, Len(parents), next, n, w)
            <=> Past(b, n, w) \/ SpanAt(Statement(b), current[b], n, w) \in offered)
  BY <1>1
<1>3. \A x \in offered : \E n, w \in Nat :
         InTrace(Statement(b), n, w) /\ x = SpanAt(Statement(b), current[b], n, w)
  BY <1>1
<1>4. Offered' = Offered \cup offered
  BY <1>1
<1> QED  BY <1>2, <1>3, <1>4, StepKeepsFlush

\* What a backend may offer next: the span of a place it is not past, under a parent
\* whose place it is past.
LEMMA MayOffer ==
    ASSUME Flush, NEW b \in Backends, current[b] # 0, NEW n \in Nat, NEW w \in Nat,
           NEW m \in Nat, NEW v \in Nat,
           InTrace(Statement(b), n, w), ~Past(b, n, w),
           \/ SpanAt(Statement(b), current[b], n, w).parent = Caller
           \/ /\ InTrace(Statement(b), m, v) /\ Past(b, m, v)
              /\ SpanAt(Statement(b), current[b], n, w).parent = Id(current[b], m, v)
    PROVE  LET x == SpanAt(Statement(b), current[b], n, w)
           IN  x \notin Offered /\ HasParent(x, Offered)
<1>1. SpanAt(Statement(b), current[b], n, w) \notin Offered
  BY DEF Flush, Progress
<1>2. InTrace(Statement(b), m, v) /\ Past(b, m, v)
         => SpanAt(Statement(b), current[b], m, v) \in Offered
  BY DEF Flush, Progress
<1>3. SpanAt(Statement(b), current[b], m, v).id = Id(current[b], m, v)
  BY DEF SpanAt
<1>4. InTrace(Statement(b), m, v) /\ Past(b, m, v) => Id(current[b], m, v) \in Ids(Offered)
  BY <1>2, <1>3 DEF Ids
<1> QED  BY <1>1, <1>4 DEF HasParent

-----------------------------------------------------------------------------
\* One lemma per step of the flush.

LEMMA AtWork ==
    ASSUME Flush, NEW b \in Backends, pc[b] # "idle"
    PROVE  /\ Statement(b) \in Executions /\ IsPlan(Plan(b))
           /\ Statement(b).planned \in BOOLEAN /\ Statement(b).succeeded \in BOOLEAN
           /\ current[b] \in 1..Len(statements)
           /\ Plan(b).size \in Nat /\ Plan(b).ran \subseteq 1..Plan(b).size
           /\ \A n \in Plan(b).ran : n \in Nat /\ n # 0 /\ Plan(b).helpers[n] \in Nat
           /\ handed[b] \in Seq(Nat) /\ helper[b] \in Nat
           /\ WalkAt(Statement(b), pc[b], handed[b], helper[b])
<1>1. Statement(b) \in Executions /\ current[b] \in 1..Len(statements)
  BY DEF Flush, FlushType, Statement
<1>2. IsPlan(Plan(b)) /\ Statement(b).planned \in BOOLEAN /\ Statement(b).succeeded \in BOOLEAN
  BY <1>1, PipelineAssumption DEF Plan
<1>3. Plan(b).size \in Nat /\ Plan(b).ran \subseteq 1..Plan(b).size
  BY <1>2 DEF IsPlan
<1>4. \A n \in Plan(b).ran : n \in Nat /\ n # 0 /\ Plan(b).helpers[n] \in Nat
  BY <1>2, <1>3 DEF IsPlan
<1> QED  BY <1>1, <1>2, <1>3, <1>4 DEF Flush, FlushType, Walks

\* The flush is past the statement's own spans.
LEMMA AfterQueryIs ==
    ASSUME Flush, NEW b \in Backends, pc[b] \in {"query", "planner"}
    PROVE  /\ AfterQuery(b) \in {"node", "idle"}
           /\ handed[b] = <<>>
           /\ AfterQuery(b) # "idle" => WalkAt(Statement(b), AfterQuery(b), handed[b], helper[b])
           /\ \A n, w \in Nat : InTrace(Statement(b), n, w) =>
                 (PastAt(AfterQuery(b), Len(handed[b]), helper[b], n, w) <=> n = 0)
<1>1. pc[b] # "idle"
  OBVIOUS
<1>2. handed[b] = <<>> /\ Len(handed[b]) = 0
  BY <1>1, AtWork DEF WalkAt
<1>3. AfterQuery(b) \in {"node", "idle"}
      /\ (AfterQuery(b) = "node" => Statement(b).succeeded /\ Plan(b).size > 0)
      /\ (AfterQuery(b) = "idle" => ~(Statement(b).succeeded /\ Plan(b).size > 0))
  BY DEF AfterQuery
<1>4. ASSUME AfterQuery(b) # "idle"
      PROVE  WalkAt(Statement(b), AfterQuery(b), handed[b], helper[b])
  <2>1. HandedDown(Statement(b).plan, <<>>)
    BY <1>1, AtWork DEF HandedDown, Plan
  <2> QED  BY <1>2, <1>3, <1>4, <2>1 DEF WalkAt, Plan
<1>5. ASSUME NEW n \in Nat, NEW w \in Nat, InTrace(Statement(b), n, w)
      PROVE  PastAt(AfterQuery(b), Len(handed[b]), helper[b], n, w) <=> n = 0
  <2>1. CASE AfterQuery(b) = "node"
    BY <2>1, <1>2, <1>5 DEF PastAt
  <2>2. CASE AfterQuery(b) = "idle"
    <3>1. n \in Plan(b).ran => n >= 1 /\ n <= Plan(b).size
      BY <1>1, AtWork
    <3>2. n = 0
      BY <3>1, <2>2, <1>3, <1>1, <1>5, AtWork DEF InTrace, Plan
    <3> QED  BY <3>2, <2>2 DEF PastAt
  <2> QED  BY <2>1, <2>2, <1>3
<1> QED  BY <1>2, <1>3, <1>4, <1>5

Inv == Line /\ Flush

LEMMA QueryKeepsInv ==
    ASSUME Inv, NEW b \in Backends, EnqueueQuerySpan(b)
    PROVE  Inv'
<1> DEFINE x == SpanAt(Statement(b), current[b], 0, 0)
           next == IF Statement(b).planned THEN "planner" ELSE AfterQuery(b)
<1>1. /\ pc[b] = "query" /\ pc' = [pc EXCEPT ![b] = next]
      /\ EnqueueSpan(Id(current[b], 0, 0), Caller)
      /\ UNCHANGED <<statements, current, handed, helper>>
  BY DEF EnqueueQuerySpan, Goto
<1>2. current[b] \in Nat /\ current[b] # 0 /\ pc[b] # "idle" /\ pc[b] \in {"query", "planner"}
  BY <1>1, AtWork DEF Inv
<1>3. x = [id |-> Id(current[b], 0, 0), parent |-> Caller]
  BY DEF SpanAt
<1>4. InTrace(Statement(b), 0, 0) /\ ~Past(b, 0, 0)
  BY <1>1 DEF InTrace, Past, PastAt
<1>5. x \notin Offered /\ HasParent(x, Offered)
  <2>1. x.parent = Caller
    BY <1>3
  <2> QED  BY <2>1, <1>2, <1>4, MayOffer DEF Inv
<1>6. Line' /\ Offered' = Offered \cup {x}
  <2>1. Id(current[b], 0, 0) \in SpanId /\ Caller \in SpanId
    BY <1>2 DEF Id, Caller, SpanId
  <2> QED  BY <2>1, <1>1, <1>3, <1>5, EnqueueKeepsLine DEF Inv
<1>7. next \in {"planner", "node", "idle"}
  BY <1>2, AfterQueryIs DEF Inv
<1>8. FlushType'
  BY <1>1, <1>2, <1>7 DEF Inv, Flush, FlushType
<1>9. \A c \in Backends \ {b} :
         pc'[c] = pc[c] /\ handed'[c] = handed[c] /\ helper'[c] = helper[c]
  BY <1>1 DEF Inv, Flush, FlushType
<1>10. pc'[b] = next /\ handed'[b] = handed[b] /\ helper'[b] = helper[b]
  BY <1>1 DEF Inv, Flush, FlushType
<1>11. next # "idle" => WalkAt(Statement(b), next, handed[b], helper[b])
  <2>1. CASE Statement(b).planned
    <3>1. handed[b] = <<>> /\ HandedDown(Statement(b).plan, handed[b])
      BY <1>2, AfterQueryIs, AtWork DEF Inv, WalkAt
    <3> QED  BY <3>1, <2>1 DEF WalkAt
  <2>2. CASE ~Statement(b).planned
    BY <2>2, <1>2, AfterQueryIs DEF Inv
  <2> QED  BY <2>1, <2>2
<1>12. ASSUME NEW n \in Nat, NEW w \in Nat, InTrace(Statement(b), n, w)
       PROVE  PastAt(next, Len(handed[b]), helper[b], n, w)
                <=> Past(b, n, w) \/ (n = 0 /\ w = 0)
  <2>1. ~Past(b, n, w)
    BY <1>1 DEF Past, PastAt
  <2>2. CASE Statement(b).planned
    BY <2>1, <2>2 DEF PastAt
  <2>3. CASE ~Statement(b).planned
    <3>1. n = 0 <=> n = 0 /\ w = 0
      BY <1>12, <2>3, <1>2, AtWork DEF Inv, InTrace, Plan
    <3> QED  BY <3>1, <2>1, <2>3, <1>2, <1>12, AfterQueryIs DEF Inv
  <2> QED  BY <2>2, <2>3
<1> HIDE DEF x, next
<1>13. Flush'
  BY <1>1, <1>2, <1>4, <1>6, <1>8, <1>9, <1>10, <1>11, <1>12, OfferKeepsFlush DEF Inv, x
<1> QED  BY <1>6, <1>13 DEF Inv

LEMMA PlannerKeepsInv ==
    ASSUME Inv, NEW b \in Backends, FlushStoredPlannerSpan(b)
    PROVE  Inv'
<1> DEFINE x == SpanAt(Statement(b), current[b], 0, 1)
           next == AfterQuery(b)
<1>1. /\ pc[b] = "planner" /\ pc' = [pc EXCEPT ![b] = next]
      /\ EnqueueSpan(Id(current[b], 0, 1), Id(current[b], 0, 0))
      /\ UNCHANGED <<statements, current, handed, helper>>
  BY DEF FlushStoredPlannerSpan, Goto
<1>2. current[b] \in Nat /\ current[b] # 0 /\ pc[b] # "idle" /\ pc[b] \in {"query", "planner"}
  BY <1>1, AtWork DEF Inv
<1>3. x = [id |-> Id(current[b], 0, 1), parent |-> Id(current[b], 0, 0)]
  BY DEF SpanAt
<1>4. /\ InTrace(Statement(b), 0, 1) /\ ~Past(b, 0, 1)
      /\ InTrace(Statement(b), 0, 0) /\ Past(b, 0, 0)
  BY <1>1, <1>2, AtWork DEF Inv, WalkAt, InTrace, Past, PastAt
<1>5. x \notin Offered /\ HasParent(x, Offered)
  <2>1. x.parent = Id(current[b], 0, 0)
    BY <1>3
  <2> QED  BY <2>1, <1>2, <1>4, MayOffer DEF Inv
<1>6. Line' /\ Offered' = Offered \cup {x}
  <2>1. Id(current[b], 0, 1) \in SpanId /\ Id(current[b], 0, 0) \in SpanId
    BY <1>2 DEF Id, SpanId
  <2> QED  BY <2>1, <1>1, <1>3, <1>5, EnqueueKeepsLine DEF Inv
<1>7. next \in {"node", "idle"}
  BY <1>2, AfterQueryIs DEF Inv
<1>8. FlushType'
  BY <1>1, <1>2, <1>7 DEF Inv, Flush, FlushType
<1>9. \A c \in Backends \ {b} :
         pc'[c] = pc[c] /\ handed'[c] = handed[c] /\ helper'[c] = helper[c]
  BY <1>1 DEF Inv, Flush, FlushType
<1>10. pc'[b] = next /\ handed'[b] = handed[b] /\ helper'[b] = helper[b]
  BY <1>1 DEF Inv, Flush, FlushType
<1>11. next # "idle" => WalkAt(Statement(b), next, handed[b], helper[b])
  BY <1>2, AfterQueryIs DEF Inv
<1>12. ASSUME NEW n \in Nat, NEW w \in Nat, InTrace(Statement(b), n, w)
       PROVE  PastAt(next, Len(handed[b]), helper[b], n, w)
                <=> Past(b, n, w) \/ (n = 0 /\ w = 1)
  <2>1. Past(b, n, w) <=> n = 0 /\ w = 0
    BY <1>1 DEF Past, PastAt
  <2>2. n = 0 => w = 0 \/ w = 1
    BY <1>12, <1>2, AtWork DEF Inv, InTrace, Plan
  <2> QED  BY <2>1, <2>2, <1>2, <1>12, AfterQueryIs DEF Inv
<1> HIDE DEF x, next
<1>13. Flush'
  BY <1>1, <1>2, <1>4, <1>6, <1>8, <1>9, <1>10, <1>11, <1>12, OfferKeepsFlush DEF Inv, x
<1> QED  BY <1>6, <1>13 DEF Inv

\* Where the walk is after a node without workers, or after a node's last worker
LEMMA WalkGoesOn ==
    ASSUME NEW e \in Executions, e.succeeded, NEW parents \in Seq(Nat), Len(parents) >= 1,
           HandedDown(e.plan, parents), NEW place, NEW next,
           place = (IF Len(parents) < e.plan.size THEN "node" ELSE "idle")
    PROVE  /\ place # "idle" => WalkAt(e, place, parents, next)
           /\ \A n, w \in Nat : InTrace(e, n, w) =>
                 (PastAt(place, Len(parents), next, n, w) <=> n <= Len(parents))
<1>1. /\ e.plan.size \in Nat /\ e.plan.ran \subseteq 1..e.plan.size
      /\ Len(parents) <= e.plan.size
  BY PipelineAssumption DEF IsPlan, HandedDown
<1>2. CASE Len(parents) < e.plan.size
  BY <1>2 DEF WalkAt, PastAt
<1>3. CASE ~(Len(parents) < e.plan.size)
  <2>1. Len(parents) = e.plan.size
    BY <1>1, <1>3
  <2>2. \A n \in e.plan.ran : n \in Nat /\ n <= e.plan.size
    BY <1>1
  <2>3. \A n, w \in Nat : InTrace(e, n, w) => n <= Len(parents)
    BY <2>1, <2>2 DEF InTrace
  <2> QED  BY <2>3, <1>3 DEF PastAt
<1> QED  BY <1>2, <1>3

\* The node that is visited next, and the parent it is given
LEMMA AtNode ==
    ASSUME Flush, NEW b \in Backends, pc[b] = "node"
    PROVE  LET node == Visited(b) + 1 IN
           /\ node \in 1..Plan(b).size /\ node = Len(handed[b]) + 1
           /\ ParentSpan(b, node) = Nearest(Plan(b), node)
           /\ ParentSpan(b, node) \in Nat
           /\ ParentSpan(b, node) = 0
                 \/ (ParentSpan(b, node) \in Plan(b).ran /\ ParentSpan(b, node) < node)
<1>1. pc[b] # "idle"
  OBVIOUS
<1>2. /\ IsPlan(Plan(b)) /\ handed[b] \in Seq(Nat) /\ HandedDown(Plan(b), handed[b])
      /\ Len(handed[b]) < Plan(b).size /\ Plan(b).size \in Nat
      /\ Plan(b).ran \subseteq 1..Plan(b).size
  BY <1>1, AtWork DEF WalkAt, Plan
<1>3. Visited(b) + 1 \in 1..Plan(b).size /\ Visited(b) + 1 = Len(handed[b]) + 1
  BY <1>2 DEF Visited
<1>4. LET p == IF Plan(b).up[Visited(b) + 1] = 0 THEN 0 ELSE handed[b][Plan(b).up[Visited(b) + 1]]
      IN  p = Nearest(Plan(b), Visited(b) + 1)
          /\ (p = 0 \/ (p \in Plan(b).ran /\ p < Visited(b) + 1))
  BY <1>2, <1>3, ParentIsNearest
<1>5. /\ ParentSpan(b, Visited(b) + 1) = Nearest(Plan(b), Visited(b) + 1)
      /\ \/ ParentSpan(b, Visited(b) + 1) = 0
         \/ ParentSpan(b, Visited(b) + 1) \in Plan(b).ran
            /\ ParentSpan(b, Visited(b) + 1) < Visited(b) + 1
  BY <1>4 DEF ParentSpan
<1>6. ParentSpan(b, Visited(b) + 1) \in Nat
  BY <1>5, <1>2
<1> QED  BY <1>3, <1>5, <1>6

LEMMA SkipKeepsInv ==
    ASSUME Inv, NEW b \in Backends, SkipPlanNode(b)
    PROVE  Inv'
<1> DEFINE node == Visited(b) + 1
           parents == Append(handed[b], ParentSpan(b, node))
           place == IF node < Plan(b).size THEN "node" ELSE "idle"
<1>1. /\ pc[b] = "node" /\ node \notin Plan(b).ran
      /\ handed' = [handed EXCEPT ![b] = parents] /\ pc' = [pc EXCEPT ![b] = place]
      /\ UNCHANGED <<statements, current, helper, answer, queueVars, fate>>
  BY DEF SkipPlanNode, WalkOn, Goto
<1>2. /\ node \in 1..Plan(b).size /\ node = Len(handed[b]) + 1
      /\ ParentSpan(b, node) = Nearest(Plan(b), node) /\ ParentSpan(b, node) \in Nat
      /\ ParentSpan(b, node) = 0
            \/ (ParentSpan(b, node) \in Plan(b).ran /\ ParentSpan(b, node) < node)
  BY <1>1, AtNode DEF Inv
<1>3. /\ Statement(b) \in Executions /\ IsPlan(Plan(b)) /\ Statement(b).succeeded
      /\ HandedDown(Plan(b), handed[b]) /\ handed[b] \in Seq(Nat) /\ current[b] \in Nat
      /\ Plan(b).size \in Nat /\ Plan(b).ran \subseteq 1..Plan(b).size /\ pc[b] # "idle"
  BY <1>1, AtWork DEF Inv, WalkAt, Plan
<1>4. HandedDown(Plan(b), parents) /\ parents \in Seq(Nat) /\ Len(parents) = node
  <2>1. ParentSpan(b, node) = 0
           \/ (ParentSpan(b, node) \in Plan(b).ran /\ ParentSpan(b, node) <= node)
    <3>1. \A p \in Plan(b).ran : p \in Int
      BY <1>3
    <3>2. node \in Int
      BY <1>2, <1>3
    <3> HIDE DEF node
    <3> QED  BY <3>1, <3>2, <1>2
  <2>2. Len(parents) = Len(handed[b]) + 1 /\ parents \in Seq(Nat)
    BY <1>2, <1>3
  <2>3. ParentSpan(b, node) = IF node \in Plan(b).ran THEN node ELSE Nearest(Plan(b), node)
    BY <1>1, <1>2
  <2> HIDE DEF node
  <2>4. HandedDown(Plan(b), parents)
    BY <1>2, <1>3, <2>1, <2>3, HandOneMore
  <2> QED  BY <2>2, <2>4, <1>2
<1> HIDE DEF parents, place
<1>5. FlushType'
  BY <1>1, <1>3, <1>4 DEF Inv, Flush, FlushType, place
<1>6. Line' /\ Offered' = Offered
  BY <1>1, WaitKeepsLine DEF Inv
<1>7. /\ \A c \in Backends \ {b} :
            pc'[c] = pc[c] /\ handed'[c] = handed[c] /\ helper'[c] = helper[c]
      /\ pc'[b] = place /\ handed'[b] = parents /\ helper'[b] = helper[b]
  BY <1>1 DEF Inv, Flush, FlushType
<1>8. /\ place # "idle" => WalkAt(Statement(b), place, parents, helper[b])
      /\ \A n, w \in Nat : InTrace(Statement(b), n, w) =>
            (PastAt(place, Len(parents), helper[b], n, w) <=> n <= Len(parents))
  <2>1. place = (IF Len(parents) < Plan(b).size THEN "node" ELSE "idle") /\ Len(parents) >= 1
    BY <1>2, <1>3, <1>4 DEF place
  <2> QED  BY <2>1, <1>3, <1>4, WalkGoesOn DEF Plan
<1>9. ASSUME NEW n \in Nat, NEW w \in Nat, InTrace(Statement(b), n, w)
      PROVE  PastAt(place, Len(parents), helper[b], n, w) <=> Past(b, n, w)
  <2>1. Past(b, n, w) <=> n <= Len(handed[b])
    BY <1>1 DEF Past, PastAt
  <2>2. n # node
    <3>1. node >= 1
      BY <1>2, <1>3
    <3> HIDE DEF node
    <3> QED  BY <3>1, <1>1, <1>9 DEF InTrace, Plan
  <2>3. n <= Len(handed[b]) <=> n <= node
    <3> HIDE DEF node
    <3> QED  BY <2>2, <1>2, <1>3
  <2> QED  BY <2>1, <2>3, <1>4, <1>8, <1>9
<1>10. Flush'
  BY <1>1, <1>3, <1>5, <1>6, <1>7, <1>8, <1>9, PassKeepsFlush DEF Inv
<1> QED  BY <1>6, <1>10 DEF Inv

LEMMA NodeKeepsInv ==
    ASSUME Inv, NEW b \in Backends, EnqueuePlanNodeSpan(b)
    PROVE  Inv'
<1> DEFINE node == Visited(b) + 1
           parents == Append(handed[b], node)
           place == IF Plan(b).helpers[node] > 0 THEN "worker"
                    ELSE IF node < Plan(b).size THEN "node" ELSE "idle"
           next == IF Plan(b).helpers[node] > 0 THEN 1 ELSE helper[b]
           x == SpanAt(Statement(b), current[b], node, 0)
<1>1. /\ pc[b] = "node" /\ node \in Plan(b).ran
      /\ EnqueueSpan(Id(current[b], node, 0), Id(current[b], ParentSpan(b, node), 0))
      /\ UNCHANGED <<statements, current>>
  BY DEF EnqueuePlanNodeSpan
<1>2. /\ node \in 1..Plan(b).size /\ node = Len(handed[b]) + 1
      /\ ParentSpan(b, node) = Nearest(Plan(b), node) /\ ParentSpan(b, node) \in Nat
      /\ ParentSpan(b, node) = 0
            \/ (ParentSpan(b, node) \in Plan(b).ran /\ ParentSpan(b, node) < node)
  BY <1>1, AtNode DEF Inv
<1>3. /\ Statement(b) \in Executions /\ IsPlan(Plan(b)) /\ Statement(b).succeeded
      /\ HandedDown(Plan(b), handed[b]) /\ handed[b] \in Seq(Nat)
      /\ current[b] \in Nat /\ current[b] # 0
      /\ Plan(b).size \in Nat /\ Plan(b).ran \subseteq 1..Plan(b).size /\ pc[b] # "idle"
      /\ helper[b] \in Nat /\ Plan(b).helpers[node] \in Nat
  <2>1. pc[b] # "idle"
    BY <1>1
  <2> QED  BY <2>1, <1>1, AtWork DEF Inv, WalkAt, Plan
<1>4. node \in Nat /\ node >= 1
  BY <1>2, <1>3
<1>5. /\ handed' = [handed EXCEPT ![b] = parents] /\ pc' = [pc EXCEPT ![b] = place]
      /\ helper' = [helper EXCEPT ![b] = next]
  <2>1. handed' = [handed EXCEPT ![b] = parents]
    BY DEF EnqueuePlanNodeSpan
  <2>2. helper = [helper EXCEPT ![b] = helper[b]]
    BY DEF Inv, Flush, FlushType
  <2>3. CASE Plan(b).helpers[node] > 0
    BY <2>1, <2>3 DEF EnqueuePlanNodeSpan, Goto
  <2>4. CASE ~(Plan(b).helpers[node] > 0)
    BY <2>1, <2>2, <2>4 DEF EnqueuePlanNodeSpan, WalkOn, Goto
  <2> QED  BY <2>3, <2>4
<1>6. HandedDown(Plan(b), parents) /\ parents \in Seq(Nat) /\ Len(parents) = node
      /\ parents[node] = node
  <2>1. Len(parents) = Len(handed[b]) + 1 /\ parents \in Seq(Nat)
        /\ parents[Len(handed[b]) + 1] = node
    BY <1>3, <1>4
  <2>2. node <= node /\ node = IF node \in Plan(b).ran THEN node ELSE Nearest(Plan(b), node)
    BY <1>1, <1>4
  <2> HIDE DEF node
  <2>3. HandedDown(Plan(b), parents)
    BY <1>1, <1>2, <1>3, <1>4, <2>2, HandOneMore
  <2> QED  BY <2>1, <2>3, <1>2
<1>7. \A m \in Plan(b).ran : m \in Nat /\ m >= 1
  BY <1>3
<1>8. Past(b, ParentSpan(b, node), 0) /\ InTrace(Statement(b), ParentSpan(b, node), 0)
  <2>1. ParentSpan(b, node) <= Len(handed[b])
    <3> HIDE DEF node
    <3> QED  BY <1>2, <1>3, <1>4
  <2> QED  BY <2>1, <1>1, <1>2, <1>3 DEF Past, PastAt, InTrace, Plan
<1>9. ~Past(b, node, 0) /\ InTrace(Statement(b), node, 0)
  <2>1. ~(node <= Len(handed[b]))
    <3> HIDE DEF node
    <3> QED  BY <1>2, <1>3
  <2> HIDE DEF node
  <2> QED  BY <2>1, <1>1, <1>3 DEF Past, PastAt, InTrace, Plan
<1>10. x = [id |-> Id(current[b], node, 0),
            parent |-> Id(current[b], ParentSpan(b, node), 0)]
  <2> HIDE DEF node
  <2> QED  BY <1>2, <1>4 DEF SpanAt, Plan
<1> HIDE DEF node, parents, place, next
<1>11. x \notin Offered /\ HasParent(x, Offered)
  <2>1. x.parent = Id(current[b], ParentSpan(b, node), 0)
    BY <1>10
  <2> QED  BY <2>1, <1>2, <1>3, <1>4, <1>8, <1>9, MayOffer DEF Inv
<1>12. Line' /\ Offered' = Offered \cup {x}
  <2>1. /\ Id(current[b], node, 0) \in SpanId
        /\ Id(current[b], ParentSpan(b, node), 0) \in SpanId
    BY <1>2, <1>3, <1>4 DEF Id, SpanId
  <2> QED  BY <2>1, <1>1, <1>10, <1>11, EnqueueKeepsLine DEF Inv
<1> HIDE DEF x
<1>13. next \in Nat /\ place \in {"worker", "node", "idle"}
  BY <1>3 DEF next, place
<1>14. FlushType'
  BY <1>1, <1>3, <1>5, <1>6, <1>13 DEF Inv, Flush, FlushType
<1>15. /\ \A c \in Backends \ {b} :
             pc'[c] = pc[c] /\ handed'[c] = handed[c] /\ helper'[c] = helper[c]
       /\ pc'[b] = place /\ handed'[b] = parents /\ helper'[b] = next
  BY <1>5 DEF Inv, Flush, FlushType
<1>16. ASSUME NEW n \in Nat, NEW w \in Nat, InTrace(Statement(b), n, w)
       PROVE  Past(b, n, w) <=> n < node
  BY <1>1, <1>2, <1>3 DEF Past, PastAt
<1>17. /\ place # "idle" => WalkAt(Statement(b), place, parents, next)
       /\ \A n, w \in Nat : InTrace(Statement(b), n, w) =>
             (PastAt(place, Len(parents), next, n, w) <=> Past(b, n, w) \/ (n = node /\ w = 0))
  <2>1. CASE Plan(b).helpers[node] > 0
    <3>1. place = "worker" /\ next = 1
      BY <2>1 DEF place, next
    <3>2. WalkAt(Statement(b), place, parents, next)
      BY <3>1, <2>1, <1>1, <1>3, <1>6 DEF WalkAt, Plan
    <3>3. ASSUME NEW n \in Nat, NEW w \in Nat
          PROVE  PastAt(place, Len(parents), next, n, w) <=> n < node \/ (n = node /\ w = 0)
      BY <3>1, <1>4, <1>6 DEF PastAt
    <3> QED  BY <3>2, <3>3, <1>16
  <2>2. CASE ~(Plan(b).helpers[node] > 0)
    <3>1. place = (IF Len(parents) < Plan(b).size THEN "node" ELSE "idle") /\ Len(parents) >= 1
      BY <2>2, <1>4, <1>6 DEF place
    <3>2. /\ place # "idle" => WalkAt(Statement(b), place, parents, next)
          /\ \A n, w \in Nat : InTrace(Statement(b), n, w) =>
                (PastAt(place, Len(parents), next, n, w) <=> n <= Len(parents))
      BY <3>1, <1>3, <1>6, WalkGoesOn DEF Plan
    <3>3. ASSUME NEW n \in Nat, NEW w \in Nat, InTrace(Statement(b), n, w)
          PROVE  n <= node <=> n < node \/ (n = node /\ w = 0)
      <4>1. n = node => w = 0
        BY <3>3, <2>2, <1>3, <1>4 DEF InTrace, Plan
      <4> QED  BY <4>1, <1>4
    <3> QED  BY <3>2, <3>3, <1>6, <1>16
  <2> QED  BY <2>1, <2>2
<1>18. Flush'
  BY <1>1, <1>3, <1>4, <1>9, <1>12, <1>14, <1>15, <1>17, OfferKeepsFlush DEF Inv, x
<1> QED  BY <1>12, <1>18 DEF Inv

LEMMA WorkerKeepsInv ==
    ASSUME Inv, NEW b \in Backends, EnqueueParallelWorkerSpan(b)
    PROVE  Inv'
<1> DEFINE node == Visited(b)
           w0 == helper[b]
           more == w0 < Plan(b).helpers[node]
           place == IF more THEN "worker" ELSE IF node < Plan(b).size THEN "node" ELSE "idle"
           next == IF more THEN w0 + 1 ELSE w0
           x == SpanAt(Statement(b), current[b], node, w0)
<1>1. /\ pc[b] = "worker"
      /\ EnqueueSpan(Id(current[b], node, w0), Id(current[b], node, 0))
      /\ UNCHANGED <<statements, current, handed>>
  BY DEF EnqueueParallelWorkerSpan
<1>2. /\ Statement(b) \in Executions /\ IsPlan(Plan(b)) /\ Statement(b).succeeded
      /\ HandedDown(Plan(b), handed[b]) /\ handed[b] \in Seq(Nat)
      /\ current[b] \in Nat /\ current[b] # 0
      /\ Plan(b).size \in Nat /\ Plan(b).ran \subseteq 1..Plan(b).size /\ pc[b] # "idle"
      /\ node \in Plan(b).ran /\ node = Len(handed[b])
      /\ Plan(b).helpers[node] \in Nat /\ w0 \in 1..Plan(b).helpers[node]
  <2>1. pc[b] # "idle"
    BY <1>1
  <2> QED  BY <2>1, <1>1, AtWork DEF Inv, WalkAt, Plan, Visited
<1>3. node \in Nat /\ node >= 1 /\ w0 \in Nat /\ w0 >= 1
  BY <1>2
<1>4. pc' = [pc EXCEPT ![b] = place] /\ helper' = [helper EXCEPT ![b] = next]
  <2>1. pc = [pc EXCEPT ![b] = pc[b]] /\ helper = [helper EXCEPT ![b] = helper[b]]
    BY DEF Inv, Flush, FlushType
  <2>2. CASE more
    BY <2>1, <2>2, <1>1 DEF EnqueueParallelWorkerSpan
  <2>3. CASE ~more
    BY <2>1, <2>3 DEF EnqueueParallelWorkerSpan, WalkOn, Goto
  <2> QED  BY <2>2, <2>3
<1>5. /\ Past(b, node, 0) /\ InTrace(Statement(b), node, 0)
      /\ ~Past(b, node, w0) /\ InTrace(Statement(b), node, w0)
  <2> HIDE DEF node, w0
  <2>1. InTrace(Statement(b), node, 0) /\ InTrace(Statement(b), node, w0)
    BY <1>2 DEF InTrace, Plan
  <2>2. Past(b, node, 0) /\ ~Past(b, node, w0)
    BY <1>1, <1>2, <1>3 DEF Past, PastAt, w0
  <2> QED  BY <2>1, <2>2
<1>6. x = [id |-> Id(current[b], node, w0), parent |-> Id(current[b], node, 0)]
  <2> HIDE DEF node, w0
  <2> QED  BY <1>3 DEF SpanAt
<1> HIDE DEF node, w0
<1>7. x \notin Offered /\ HasParent(x, Offered)
  <2>1. x.parent = Id(current[b], node, 0)
    BY <1>6
  <2> QED  BY <2>1, <1>2, <1>3, <1>5, MayOffer DEF Inv
<1>8. Line' /\ Offered' = Offered \cup {x}
  <2>1. Id(current[b], node, w0) \in SpanId /\ Id(current[b], node, 0) \in SpanId
    BY <1>2, <1>3 DEF Id, SpanId
  <2> QED  BY <2>1, <1>1, <1>6, <1>7, EnqueueKeepsLine DEF Inv
<1> HIDE DEF x, place, next
<1>9. next \in Nat /\ place \in {"worker", "node", "idle"}
  BY <1>3 DEF next, place
<1>10. FlushType'
  <2>1. pc' \in [Backends -> {"idle", "query", "planner", "node", "worker"}]
        /\ helper' \in [Backends -> Nat]
    BY <1>4, <1>9 DEF Inv, Flush, FlushType
  <2>2. \A c \in Backends : pc'[c] # "idle" => current[c] # 0
    BY <1>2, <1>4 DEF Inv, Flush, FlushType
  <2> QED  BY <2>1, <2>2, <1>1 DEF Inv, Flush, FlushType
<1>11. /\ \A c \in Backends \ {b} :
             pc'[c] = pc[c] /\ handed'[c] = handed[c] /\ helper'[c] = helper[c]
       /\ pc'[b] = place /\ handed'[b] = handed[b] /\ helper'[b] = next
  BY <1>1, <1>4 DEF Inv, Flush, FlushType
<1>12. ASSUME NEW n \in Nat, NEW w \in Nat
       PROVE  Past(b, n, w) <=> n < node \/ (n = node /\ w < w0)
  BY <1>1, <1>2 DEF Past, PastAt, w0
<1>13. /\ place # "idle" => WalkAt(Statement(b), place, handed[b], next)
       /\ \A n, w \in Nat : InTrace(Statement(b), n, w) =>
             (PastAt(place, Len(handed[b]), next, n, w) <=> Past(b, n, w) \/ (n = node /\ w = w0))
  <2>1. CASE more
    <3>1. place = "worker" /\ next = w0 + 1
      BY <2>1 DEF place, next
    <3>2. next \in 1..Plan(b).helpers[node]
      BY <2>1, <3>1, <1>2, <1>3
    <3>3. WalkAt(Statement(b), place, handed[b], next)
      BY <3>1, <3>2, <1>2 DEF WalkAt, Plan
    <3>4. ASSUME NEW n \in Nat, NEW w \in Nat
          PROVE  PastAt(place, Len(handed[b]), next, n, w)
                   <=> n < node \/ (n = node /\ w < w0 + 1)
      BY <3>1, <1>2 DEF PastAt
    <3>5. \A w \in Nat : w < w0 + 1 <=> w < w0 \/ w = w0
      BY <1>3
    <3> QED  BY <3>3, <3>4, <3>5, <1>12
  <2>2. CASE ~more
    <3>1. place = (IF Len(handed[b]) < Plan(b).size THEN "node" ELSE "idle")
          /\ Len(handed[b]) >= 1
      BY <2>2, <1>2, <1>3 DEF place
    <3>2. /\ place # "idle" => WalkAt(Statement(b), place, handed[b], next)
          /\ \A n, w \in Nat : InTrace(Statement(b), n, w) =>
                (PastAt(place, Len(handed[b]), next, n, w) <=> n <= Len(handed[b]))
      BY <3>1, <1>2, WalkGoesOn DEF Plan
    <3>3. w0 = Plan(b).helpers[node]
      BY <2>2, <1>2, <1>3
    <3>4. ASSUME NEW n \in Nat, NEW w \in Nat, InTrace(Statement(b), n, w)
          PROVE  n <= node <=> n < node \/ (n = node /\ w <= w0)
      <4>1. n = node => w <= w0
        BY <3>3, <3>4, <1>2, <1>3 DEF InTrace, Plan
      <4> QED  BY <4>1, <1>3
    <3>5. \A w \in Nat : w <= w0 <=> w < w0 \/ w = w0
      BY <1>3
    <3> QED  BY <3>2, <3>4, <3>5, <1>2, <1>12
  <2> QED  BY <2>1, <2>2
<1>14. Flush'
  <2>1. Offered' = Offered \cup {SpanAt(Statement(b), current[b], node, w0)}
    BY <1>8 DEF x
  <2>2. /\ Flush /\ UNCHANGED <<statements, current>> /\ pc[b] # "idle"
        /\ node \in Nat /\ w0 \in Nat /\ InTrace(Statement(b), node, w0)
    BY <1>1, <1>2, <1>3, <1>5 DEF Inv
  <2> QED  BY <2>1, <2>2, <1>10, <1>11, <1>13, OfferKeepsFlush
<1> QED  BY <1>8, <1>14 DEF Inv

LEMMA StartKeepsInv ==
    ASSUME Inv, NEW b \in Backends, NEW execution \in Executions, Start(b, execution)
    PROVE  Inv'
<1> DEFINE s == Len(statements) + 1
<1>1. /\ pc[b] = "idle" /\ statements' = Append(statements, execution)
      /\ current' = [current EXCEPT ![b] = s] /\ handed' = [handed EXCEPT ![b] = <<>>]
      /\ helper' = [helper EXCEPT ![b] = 0] /\ pc' = [pc EXCEPT ![b] = "query"]
      /\ UNCHANGED <<answer, queueVars, fate>>
  BY DEF Start, Goto
<1>2. /\ statements \in Seq(Executions) /\ Len(statements) \in Nat
      /\ s \in Nat /\ s # 0 /\ s \notin 1..Len(statements)
      /\ \A c \in Backends : current[c] \in Nat /\ current[c] <= Len(statements)
  BY DEF Inv, Flush, FlushType
<1>3. /\ statements' \in Seq(Executions) /\ Len(statements') = s
      /\ statements'[s] = execution
      /\ \A r \in 1..Len(statements) : statements'[r] = statements[r]
  BY <1>1, <1>2
<1>4. Line' /\ Offered' = Offered
  BY <1>1, WaitKeepsLine DEF Inv
<1>5. /\ pc'[b] = "query" /\ current'[b] = s /\ handed'[b] = <<>> /\ helper'[b] = 0
      /\ \A c \in Backends \ {b} : /\ pc'[c] = pc[c] /\ current'[c] = current[c]
                                   /\ handed'[c] = handed[c] /\ helper'[c] = helper[c]
  BY <1>1 DEF Inv, Flush, FlushType
<1>6. /\ Statement(b)' = execution
      /\ \A c \in Backends \ {b} : current[c] # 0 => Statement(c)' = Statement(c)
  BY <1>2, <1>3, <1>5 DEF Statement
<1> HIDE DEF s
<1>7. FlushType'
  <2>1. /\ pc' \in [Backends -> {"idle", "query", "planner", "node", "worker"}]
        /\ current' \in [Backends -> Nat] /\ handed' \in [Backends -> Seq(Nat)]
        /\ helper' \in [Backends -> Nat]
    BY <1>1, <1>2 DEF Inv, Flush, FlushType
  <2>2. \A c \in Backends : current'[c] <= Len(statements')
    BY <1>2, <1>3, <1>5 DEF s
  <2>3. \A c \in Backends : pc'[c] # "idle" => current'[c] # 0
    BY <1>2, <1>5 DEF Inv, Flush, FlushType
  <2> QED  BY <2>1, <2>2, <2>3, <1>3 DEF FlushType
<1>8. Distinct'
  <2>1. \A c \in Backends : current[c] # s
    BY <1>2 DEF s
  <2> QED  BY <2>1, <1>5 DEF Inv, Flush, Distinct
<1>9. Walks'
  <2>1. ASSUME NEW c \in Backends, pc'[c] # "idle"
        PROVE  WalkAt(Statement(c)', pc'[c], handed'[c], helper'[c])
    <3>1. CASE c = b
      <4>1. HandedDown(execution.plan, <<>>)
        BY PipelineAssumption DEF HandedDown, IsPlan
      <4> QED  BY <4>1, <3>1, <1>5, <1>6 DEF WalkAt
    <3>2. CASE c # b
      <4>1. current[c] # 0 /\ pc[c] # "idle"
        BY <3>2, <2>1, <1>5 DEF Inv, Flush, FlushType
      <4> QED  BY <4>1, <3>2, <1>5, <1>6 DEF Inv, Flush, Walks
    <3> QED  BY <3>1, <3>2
  <2> QED  BY <2>1 DEF Walks
<1>10. \A n, w \in Nat : SpanAt(execution, s, n, w) \notin Offered
  <2>1. SUFFICES ASSUME NEW n \in Nat, NEW w \in Nat, SpanAt(execution, s, n, w) \in Offered
                 PROVE  FALSE
    OBVIOUS
  <2>2. PICK r \in 1..Len(statements) : \E m, v \in Nat :
           SpanAt(execution, s, n, w) = SpanAt(statements[r], r, m, v)
    BY <2>1 DEF Inv, Flush, Faithful
  <2>3. r = s
    BY <2>2, <1>2, SpansDiffer
  <2> QED  BY <2>3, <1>2
<1>11. Progress'
  <2>1. ASSUME NEW c \in Backends, current'[c] # 0, NEW n \in Nat, NEW w \in Nat,
               InTrace(Statement(c)', n, w)
        PROVE  SpanAt(Statement(c)', current'[c], n, w) \in Offered'
                 <=> PastAt(pc'[c], Len(handed'[c]), helper'[c], n, w)
    <3>1. CASE c = b
      <4>1. ~PastAt(pc'[b], Len(handed'[b]), helper'[b], n, w)
        BY <1>5 DEF PastAt
      <4>2. SpanAt(Statement(b)', current'[b], n, w) \notin Offered'
        BY <1>4, <1>5, <1>6, <1>10
      <4> QED  BY <4>1, <4>2, <3>1
    <3>2. CASE c # b
      <4>1. current'[c] = current[c] /\ Statement(c)' = Statement(c) /\ current[c] # 0
        BY <3>2, <2>1, <1>5, <1>6
      <4>2. SpanAt(Statement(c), current[c], n, w) \in Offered <=> Past(c, n, w)
        BY <4>1, <2>1 DEF Inv, Flush, Progress
      <4>3. pc'[c] = pc[c] /\ handed'[c] = handed[c] /\ helper'[c] = helper[c]
        BY <3>2, <1>5
      <4> QED  BY <4>1, <4>2, <4>3, <1>4 DEF Past
    <3> QED  BY <3>1, <3>2
  <2> QED  BY <2>1 DEF Progress, Past
<1>12. Faithful'
  <2>1. ASSUME NEW x \in Offered
        PROVE  \E r \in 1..Len(statements') : \E n, w \in Nat :
                  InTrace(statements'[r], n, w) /\ x = SpanAt(statements'[r], r, n, w)
    <3>1. PICK r \in 1..Len(statements) : \E n, w \in Nat :
             InTrace(statements[r], n, w) /\ x = SpanAt(statements[r], r, n, w)
      BY DEF Inv, Flush, Faithful
    <3>2. r \in 1..Len(statements') /\ statements'[r] = statements[r]
      BY <1>2, <1>3 DEF s
    <3> QED  BY <3>1, <3>2
  <2> QED  BY <2>1, <1>4 DEF Faithful
<1> QED  BY <1>4, <1>7, <1>8, <1>9, <1>11, <1>12 DEF Inv, Flush

-----------------------------------------------------------------------------
\* The worker and the postmaster take nothing from what was offered.

LEMMA OthersKeepFlush ==
    ASSUME Flush, Offered' = Offered, UNCHANGED backendVars
    PROVE  Flush'
<1>1. \A b \in Backends : Statement(b)' = Statement(b)
  BY DEF Statement, backendVars
<1>2. \A b \in Backends : \A n, w \in Nat : Past(b, n, w)' <=> Past(b, n, w)
  BY DEF Past, backendVars
<1>3. FlushType' /\ Distinct' /\ Faithful'
  BY DEF Flush, FlushType, Distinct, Faithful, backendVars
<1>4. Walks'
  BY <1>1 DEF Flush, Walks, backendVars
<1>5. Progress'
  BY <1>1, <1>2 DEF Flush, Progress, backendVars
<1> QED  BY <1>3, <1>4, <1>5 DEF Flush

LEMMA RestartKeepsFlush ==
    ASSUME Flush, Offered' = Offered, Restart
    PROVE  Flush'
<1>1. /\ statements' = statements /\ handed' = handed /\ helper' = helper
      /\ \A b \in Backends : pc'[b] = "idle" /\ current'[b] = 0
      /\ pc' \in [Backends -> {"idle", "query", "planner", "node", "worker"}]
      /\ current' \in [Backends -> Nat]
  BY DEF Restart
<1>2. FlushType'
  BY <1>1 DEF Flush, FlushType
<1>3. Distinct' /\ Walks' /\ Progress'
  BY <1>1 DEF Distinct, Walks, Progress
<1>4. Faithful'
  BY <1>1 DEF Flush, Faithful
<1> QED  BY <1>2, <1>3, <1>4 DEF Flush

LEMMA InitInv == Init => Inv
<1> SUFFICES ASSUME Init PROVE Inv
  OBVIOUS
<1>1. /\ queue = <<>> /\ inFlight = <<>> /\ answer = "none" /\ delivered = {} /\ lost = {}
      /\ droppedCount = 0 /\ dequeuedCount = 0 /\ exportedCount = 0 /\ exportFailureCount = 0
      /\ faults = 0
  BY DEF Init, Queue!Init
<1>2. Line
  BY <1>1, RangeOfEmpty, PipelineAssumption DEF Line, QueueType, Places, InOrder, Gone
<1>3. Offered = {}
  BY <1>1, RangeOfEmpty DEF Offered
<1>4. FlushType /\ Distinct
  BY DEF Init, FlushType, Distinct
<1>5. Walks /\ Progress
  BY DEF Init, Walks, Progress
<1>6. Faithful
  BY <1>3 DEF Faithful
<1> QED  BY <1>2, <1>4, <1>5, <1>6 DEF Inv, Flush

LEMMA NextKeepsInv == Inv /\ [Next]_vars => Inv'
<1> SUFFICES ASSUME Inv, [Next]_vars PROVE Inv'
  OBVIOUS
<1>1. ASSUME NEW b \in Backends, NEW execution \in Executions, Start(b, execution) PROVE Inv'
  BY <1>1, StartKeepsInv
<1>2. ASSUME NEW b \in Backends, EnqueueQuerySpan(b) PROVE Inv'
  BY <1>2, QueryKeepsInv
<1>3. ASSUME NEW b \in Backends, FlushStoredPlannerSpan(b) PROVE Inv'
  BY <1>3, PlannerKeepsInv
<1>4. ASSUME NEW b \in Backends, SkipPlanNode(b) PROVE Inv'
  BY <1>4, SkipKeepsInv
<1>5. ASSUME NEW b \in Backends, EnqueuePlanNodeSpan(b) PROVE Inv'
  BY <1>5, NodeKeepsInv
<1>6. ASSUME NEW b \in Backends, EnqueueParallelWorkerSpan(b) PROVE Inv'
  BY <1>6, WorkerKeepsInv
<1>7. CASE DequeueBatch
  <2>1. UNCHANGED backendVars
    BY <1>7 DEF DequeueBatch
  <2> QED  BY <2>1, <1>7, DequeueKeepsLine, OthersKeepFlush DEF Inv
<1>8. ASSUME NEW arrives \in BOOLEAN, NEW result \in {"ok", "failed"}, Post(arrives, result)
      PROVE  Inv'
  <2>1. UNCHANGED backendVars
    BY <1>8 DEF Post
  <2>2. Line' /\ Offered' = Offered
    BY <1>8, PostKeepsLine, Zenon DEF Inv
  <2> QED  BY <2>1, <2>2, OthersKeepFlush DEF Inv
<1>9. CASE RecordExportSuccess
  <2>1. UNCHANGED backendVars
    BY <1>9 DEF RecordExportSuccess
  <2> QED  BY <2>1, <1>9, SuccessKeepsLine, OthersKeepFlush DEF Inv
<1>10. CASE RecordExportFailure
  <2>1. UNCHANGED backendVars
    BY <1>10 DEF RecordExportFailure
  <2> QED  BY <2>1, <1>10, FailureKeepsLine, OthersKeepFlush DEF Inv
<1>11. CASE WorkerCrash
  <2>1. UNCHANGED backendVars
    BY <1>11 DEF WorkerCrash
  <2> QED  BY <2>1, <1>11, CrashKeepsLine, OthersKeepFlush DEF Inv
<1>12. CASE Restart
  BY <1>12, RestartKeepsLine, RestartKeepsFlush DEF Inv
<1>13. CASE UNCHANGED vars
  <2>1. Offered' = Offered /\ UNCHANGED backendVars
    BY <1>13 DEF vars, queueVars, fate, Offered
  <2>2. Line'
    <3>1. UNCHANGED queueVars /\ UNCHANGED fate /\ answer' = answer
      BY <1>13 DEF vars
    <3> QED  BY <3>1, WaitKeepsLine DEF Inv
  <2> QED  BY <2>1, <2>2, OthersKeepFlush DEF Inv
<1> QED
  BY <1>1, <1>2, <1>3, <1>4, <1>5, <1>6, <1>7, <1>8, <1>9, <1>10, <1>11, <1>12, <1>13 DEF Next

LEMMA Invariance == Spec => []Inv
<1> QED  BY InitInv, NextKeepsInv, PTL DEF Spec

\* Every variable stays within its type, and no walk goes on past the last node of its
\* plan (enqueuePlanNodeSpans, exportOneBatch).
THEOREM PipelineTypeCorrect == Spec => []TypeOK
<1>1. Inv => TypeOK
  <2> SUFFICES ASSUME Inv PROVE TypeOK
    OBVIOUS
  <2>1. \A count \in {droppedCount, dequeuedCount, exportedCount, exportFailureCount} :
           count \in Nat
    BY DEF Inv, Line, QueueType
  <2>2. ASSUME NEW b \in Backends, pc[b] # "idle"
        PROVE  current[b] \in 1..Len(statements) /\ (pc[b] = "node" => Visited(b) < Plan(b).size)
    BY <2>2, AtWork DEF Inv, WalkAt, Visited, Plan
  <2> QED  BY <2>1, <2>2 DEF TypeOK, Inv, Line, QueueType, Flush, FlushType
<1> QED  BY <1>1, Invariance, PTL

\* Every span offered is part of the trace of its statement, under its nearest ancestor
\* that was executed, and a flush that came to its end has offered the whole trace
\* (childParentOut of enqueuePlanNodeSpan).
THEOREM TracesAreFaithful == Spec => []TraceIsFaithful
<1>1. Inv => TraceIsFaithful
  <2> SUFFICES ASSUME Inv PROVE TraceIsFaithful
    OBVIOUS
  <2>1. ASSUME NEW s \in 1..Len(statements), NEW x
        PROVE  x \in Trace(s) <=> \E n, w \in Nat :
                  InTrace(statements[s], n, w) /\ x = SpanAt(statements[s], s, n, w)
    <3>1. statements[s] \in Executions /\ s \in Nat
      BY DEF Inv, Flush, FlushType
    <3> QED  BY <3>1, TraceByPlace
  <2>2. ASSUME NEW span \in Offered
        PROVE  span.id.statement \in 1..Len(statements) /\ span \in Trace(span.id.statement)
    <3>1. PICK s \in 1..Len(statements) : \E n, w \in Nat :
             InTrace(statements[s], n, w) /\ span = SpanAt(statements[s], s, n, w)
      BY DEF Inv, Flush, Faithful
    <3>2. span.id.statement = s
      BY <3>1 DEF SpanAt, Id
    <3>3. span \in Trace(s)
      BY <3>1, <2>1
    <3> QED  BY <3>2, <3>3
  <2>3. ASSUME NEW b \in Backends, pc[b] = "idle", current[b] # 0, NEW x \in Trace(current[b])
        PROVE  x \in Offered
    <3>1. current[b] \in 1..Len(statements)
      BY <2>3 DEF Inv, Flush, FlushType
    <3>2. x \in Trace(current[b]) => \E n, w \in Nat :
             InTrace(statements[current[b]], n, w)
               /\ x = SpanAt(statements[current[b]], current[b], n, w)
      BY <3>1, <2>1
    <3>3. PICK n \in Nat, w \in Nat : InTrace(Statement(b), n, w)
                                       /\ x = SpanAt(Statement(b), current[b], n, w)
      BY <3>2, <2>3 DEF Statement
    <3>4. Past(b, n, w)
      BY <2>3 DEF Past, PastAt
    <3> QED  BY <3>3, <3>4, <2>3 DEF Inv, Flush, Progress
  <2> QED  BY <2>2, <2>3 DEF TraceIsFaithful
<1> QED  BY <1>1, Invariance, PTL

\* No span reaches the collector while its parent is still on its way: the parent is
\* there, or was lost to a full queue, a failed export or a crash (enqueueSpan,
\* exportOneBatch).
THEOREM OrphansAreOnlyLosses == Spec => []OrphansAreLosses
<1>1. Inv => OrphansAreLosses
  BY DEF Inv, Line, InOrder, HasParent, OrphansAreLosses
<1> QED  BY <1>1, Invariance, PTL

\* A batch about to be posted holds nothing that was posted or given up before
\* (exportOneBatch).
THEOREM NoSpanIsExportedTwice == Spec => []ExportedAtMostOnce
<1>1. Inv => ExportedAtMostOnce
  BY DEF Inv, Line, Places, Gone, ExportedAtMostOnce
<1> QED  BY <1>1, Invariance, PTL
=============================================================================
