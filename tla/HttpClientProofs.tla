--------------------------- MODULE HttpClientProofs ---------------------------
(***************************************************************************)
(* Proofs about HttpClient for all timeouts, any number of addresses and   *)
(* any amount of data, endless responses included.                         *)
(***************************************************************************)
EXTENDS HttpClient, TLAPS

\* What the client is about: while it waits, what it waits for.
Stage ==
    IF pc \in {"check", "blocked"}
    THEN IF phase = "connect" THEN "connecting" ELSE phase
    ELSE pc

\* What the result is worth at each stage of the call.
ResultSoFar ==
    /\ Stage \in {"resolve", "address", "connecting", "send", "status"} => ~ok
    /\ Stage \in {"send", "status"} => error = "none"
    /\ Stage = "drain" => ok
    /\ ok => error = "none" /\ status # 0
    /\ ~ok => status = 0
    /\ Stage \in {"close", "returned"} /\ ~ok => error # "none"

\* An address under way is one of those that remain, and none remains without a
\* reason for each that failed.
AddressesAccounted ==
    /\ Stage = "connecting" => remaining > 0
    /\ Stage = "address" /\ remaining = 0 => lastError # "none"

\* The socket is open exactly from the attempt to connect to the close.
SocketFollowsStage ==
    sockets = IF Stage \in {"resolve", "address", "returned"} THEN 0 ELSE 1

\* The inductive invariant.
IInv ==
    /\ TypeOK
    /\ NoWaitPastDeadline /\ NoWaitOverShutdown
    /\ ResultSoFar /\ AddressesAccounted /\ SocketFollowsStage

-----------------------------------------------------------------------------
\* What the proofs need to know of the numbers among the constants.
LEMMA Bounds ==
    /\ MaxTime \in Nat /\ MaxAddresses \in Nat \ {0} /\ Chunks \in Nat
    /\ StatusRoom \in Nat \ {0} /\ MaxBody \in Nat /\ MaxSignals \in Nat
BY ClientAssumption, Zenon

\* Both deadlines lie within the clock's range.
LEMMA DeadlineType ==
    ASSUME NEW p \in Phases
    PROVE  Deadline(p) \in 1..MaxTime
BY ClientAssumption DEF Deadline

\* Moving data keeps the time within the clock's range.
LEMMA MovingType ==
    ASSUME now \in 0..MaxTime, Moving
    PROVE  now' \in 0..MaxTime
<1>1. PICK t \in {now, now + 1} : now' = Min({t, MaxTime})
  BY DEF Moving
<1>2. t \in Int /\ t >= 0 /\ MaxTime \in Nat
  BY ClientAssumption
<1>3. MaxTime \in Int
  BY <1>2
<1>4. now' \in {t, MaxTime} /\ now' <= MaxTime
  <2>1. \E x \in {t, MaxTime} : \A y \in {t, MaxTime} : x <= y
    BY <1>2, <1>3, SMT
  <2>2. /\ Min({t, MaxTime}) \in {t, MaxTime}
        /\ \A y \in {t, MaxTime} : Min({t, MaxTime}) <= y
    BY <2>1 DEF Min
  <2> QED  BY <1>1, <2>2
<1> QED  BY <1>2, <1>4

-----------------------------------------------------------------------------
\* The flags stay booleans.
LEMMA StepFlags == FlagsOK /\ [Next]_vars => FlagsOK'
<1> SUFFICES ASSUME FlagsOK, [Next]_vars PROVE FlagsOK'
  OBVIOUS
<1> USE DEF FlagsOK, process, vars
<1>1. CASE NextCall
  BY <1>1, Zenon DEF NextCall
<1>2. CASE WaitShutdown \/ WaitTimeout
  BY <1>2, Zenon DEF WaitShutdown, WaitTimeout, GiveUp
<1>3. CASE Block \/ WakeByLatch \/ WakeByTimeout \/ WakeBySocket
  BY <1>3, Zenon DEF Block, WakeByLatch, WakeByTimeout, WakeBySocket
<1>4. CASE Resolve \/ ResolveFails \/ AddressFails \/ NoAddressLeft
  BY <1>4, Zenon DEF Resolve, ResolveFails, AddressFails, NoAddressLeft
<1>5. CASE ConnectAtOnce \/ ConnectInProgress \/ ConnectSucceeds \/ ConnectRefused
  BY <1>5, Zenon DEF ConnectAtOnce, ConnectInProgress, ConnectSucceeds, ConnectRefused
<1>6. CASE SendSome \/ SentAll \/ WouldBlock \/ ReadSome \/ ExchangeFails
  BY <1>6, Zenon DEF SendSome, SentAll, WouldBlock, ReadSome, ExchangeFails
<1>7. CASE \E code \in {200, 503} : ReadStatus(code)
  BY <1>7, Zenon DEF ReadStatus
<1>8. CASE DrainSome \/ DrainEnds \/ Close \/ Tick
  BY <1>8, Zenon DEF DrainSome, DrainEnds, Close, Tick
<1>9. CASE Signal
  BY <1>9, Zenon DEF Signal
<1>10. CASE UNCHANGED vars
  BY <1>10, Zenon
<1> QED
  BY <1>1, <1>2, <1>3, <1>4, <1>5, <1>6, <1>7, <1>8, <1>9, <1>10 DEF Next, ClientStep

\* Every step keeps the types: an index of an address, a chunk or a read is only
\* moved when there is one.
LEMMA StepTypeOK == IInv /\ [Next]_vars => TypeOK'
<1> SUFFICES ASSUME IInv, [Next]_vars PROVE TypeOK'
  OBVIOUS
<1>1. TypeOK
  BY DEF IInv
<1>2. FlagsOK'
  BY <1>1, StepFlags DEF TypeOK
<1> USE Bounds, <1>1, <1>2
    DEF TypeOK, Phases, Goto, EnterWait, Connected, wait, transfer, result, process
<1>3. CASE NextCall
  BY <1>3 DEF NextCall
<1>4. CASE WaitShutdown \/ WaitTimeout
  <2>1. phase = "connect" => remaining > 0 /\ sockets = 1
    BY <1>4
    DEF IInv, AddressesAccounted, SocketFollowsStage, Stage, WaitShutdown, WaitTimeout
  <2> QED  BY <1>4, <2>1 DEF WaitShutdown, WaitTimeout, GiveUp
<1>5. CASE Block
  <2>1. until' = Deadline(phase)
    BY <1>5, DeadlineType DEF Block
  <2> QED  BY <1>5, <2>1, DeadlineType DEF Block
<1>6. CASE WakeByLatch \/ WakeByTimeout \/ WakeBySocket
  BY <1>6 DEF WakeByLatch, WakeByTimeout, WakeBySocket
<1>7. CASE Resolve \/ ResolveFails \/ AddressFails \/ NoAddressLeft
  BY <1>7 DEF Resolve, ResolveFails, AddressFails, NoAddressLeft
<1>8. CASE ConnectAtOnce \/ ConnectInProgress \/ ConnectSucceeds
  BY <1>8 DEF ConnectAtOnce, ConnectInProgress, ConnectSucceeds
<1>9. CASE ConnectRefused
  <2>1. remaining > 0 /\ sockets = 1
    BY <1>9 DEF IInv, AddressesAccounted, SocketFollowsStage, Stage, ConnectRefused
  <2> QED  BY <1>9, <2>1 DEF ConnectRefused
<1>10. CASE SendSome \/ ReadSome \/ DrainSome
  <2>1. now' \in 0..MaxTime
    BY <1>10, MovingType DEF SendSome, ReadSome, DrainSome
  <2> QED  BY <1>10, <2>1 DEF SendSome, ReadSome, DrainSome
<1>11. CASE SentAll \/ WouldBlock \/ ExchangeFails
  BY <1>11 DEF SentAll, WouldBlock, ExchangeFails
<1>12. CASE \E code \in {200, 503} : ReadStatus(code)
  <2>1. now' \in 0..MaxTime
    BY <1>12, MovingType DEF ReadStatus
  <2> QED  BY <1>12, <2>1 DEF ReadStatus
<1>13. CASE DrainEnds
  BY <1>13 DEF DrainEnds
<1>14. CASE Close
  <2>1. sockets = 1
    BY <1>14 DEF IInv, SocketFollowsStage, Stage, Close
  <2> QED  BY <1>14, <2>1 DEF Close
<1>15. CASE Tick
  <2>1. now' \in 0..MaxTime
    BY <1>15 DEF Tick
  <2> QED  BY <1>15, <2>1 DEF Tick
<1>16. CASE Signal
  BY <1>16 DEF Signal
<1>17. CASE UNCHANGED vars
  BY <1>17 DEF vars
<1> QED
  BY <1>3, <1>4, <1>5, <1>6, <1>7, <1>8, <1>9, <1>10, <1>11, <1>12, <1>13, <1>14, <1>15,
     <1>16, <1>17
  DEF Next, ClientStep

-----------------------------------------------------------------------------
\* The client starts with nothing open and nothing to report.
LEMMA InitIInv == Init => IInv
<1> SUFFICES ASSUME Init PROVE IInv
  OBVIOUS
<1> USE Bounds DEF Init, Started
<1>1. FlagsOK
  BY Zenon DEF FlagsOK
<1>2. TypeOK
  BY <1>1 DEF TypeOK, Phases
<1>3. NoWaitPastDeadline /\ NoWaitOverShutdown
  BY DEF NoWaitPastDeadline, NoWaitOverShutdown
<1>4. ResultSoFar /\ AddressesAccounted /\ SocketFollowsStage
  BY DEF ResultSoFar, AddressesAccounted, SocketFollowsStage, Stage
<1> QED  BY <1>2, <1>3, <1>4 DEF IInv

\* A wait is entered with the time that is left of its deadline, and time that
\* passes in it ends there.
LEMMA StepDeadline == IInv /\ [Next]_vars => NoWaitPastDeadline'
<1> SUFFICES ASSUME IInv, [Next]_vars PROVE NoWaitPastDeadline'
  OBVIOUS
<1>1. NoWaitPastDeadline /\ now \in Nat /\ until \in Nat /\ phase \in Phases
  BY Bounds DEF IInv, TypeOK
<1> USE <1>1 DEF NoWaitPastDeadline, Goto, EnterWait
<1>2. CASE Block
  <2>1. /\ now < Deadline(phase) /\ until' = now + (Deadline(phase) - now)
        /\ now' = now /\ phase' = phase
    BY <1>2 DEF Block
  <2>2. Deadline(phase) \in Nat /\ Deadline(phase') = Deadline(phase)
    BY <2>1, DeadlineType DEF Deadline
  <2> QED  BY <2>1, <2>2
<1>3. CASE Tick
  <2>1. Deadline(phase') = Deadline(phase)
    BY <1>3 DEF Tick, Deadline, wait
  <2> QED  BY <1>3, <2>1 DEF Tick, wait
<1>4. CASE Signal
  <2>1. Deadline(phase') = Deadline(phase)
    BY <1>4 DEF Signal, Deadline, wait
  <2> QED  BY <1>4, <2>1 DEF Signal, wait
<1>5. CASE UNCHANGED vars
  <2>1. Deadline(phase') = Deadline(phase)
    BY <1>5 DEF vars, Deadline, wait
  <2> QED  BY <1>5, <2>1 DEF vars, wait
<1>6. CASE NextCall \/ WakeBySocket
  BY <1>6 DEF NextCall, WakeBySocket, Phases
<1>7. CASE ClientStep /\ ~Block
  <2>1. pc' # "blocked"
    <3>1. CASE WaitShutdown \/ WaitTimeout
      BY <3>1 DEF WaitShutdown, WaitTimeout, GiveUp
    <3>2. CASE WakeByLatch \/ WakeByTimeout \/ Resolve \/ ResolveFails \/ NoAddressLeft
      BY <3>2 DEF WakeByLatch, WakeByTimeout, Resolve, ResolveFails, NoAddressLeft
    <3>3. CASE AddressFails \/ SendSome \/ ReadSome \/ DrainSome
      BY <3>3 DEF AddressFails, SendSome, ReadSome, DrainSome
    <3>4. CASE ConnectAtOnce \/ ConnectInProgress \/ ConnectSucceeds \/ ConnectRefused
      BY <3>4 DEF ConnectAtOnce, ConnectInProgress, ConnectSucceeds, ConnectRefused
    <3>5. CASE SentAll \/ WouldBlock \/ ExchangeFails \/ DrainEnds \/ Close
      BY <3>5 DEF SentAll, WouldBlock, ExchangeFails, DrainEnds, Close
    <3>6. CASE \E code \in {200, 503} : ReadStatus(code)
      BY <3>6 DEF ReadStatus
    <3> QED  BY <1>7, <3>1, <3>2, <3>3, <3>4, <3>5, <3>6 DEF ClientStep
  <2> QED  BY <2>1
<1> QED  BY <1>2, <1>3, <1>4, <1>5, <1>6, <1>7 DEF Next

\* The flag is looked at between the reset of the latch and the next wait.
LEMMA StepShutdown == IInv /\ [Next]_vars => NoWaitOverShutdown'
<1> SUFFICES ASSUME IInv, [Next]_vars PROVE NoWaitOverShutdown'
  OBVIOUS
<1>1. NoWaitOverShutdown
  BY DEF IInv
<1> USE <1>1 DEF NoWaitOverShutdown, Goto, EnterWait, process
<1>2. CASE NextCall
  BY <1>2 DEF NextCall
<1>3. CASE WaitShutdown \/ WaitTimeout
  BY <1>3 DEF WaitShutdown, WaitTimeout, GiveUp
<1>4. CASE Block
  BY <1>4 DEF Block
<1>5. CASE WakeByLatch \/ WakeByTimeout
  BY <1>5 DEF WakeByLatch, WakeByTimeout
<1>6. CASE WakeBySocket
  BY <1>6 DEF WakeBySocket, IInv, TypeOK, Phases
<1>7. CASE Resolve \/ ResolveFails \/ NoAddressLeft \/ AddressFails
  BY <1>7 DEF Resolve, ResolveFails, NoAddressLeft, AddressFails
<1>8. CASE ConnectAtOnce \/ ConnectInProgress \/ ConnectSucceeds \/ ConnectRefused
  BY <1>8 DEF ConnectAtOnce, ConnectInProgress, ConnectSucceeds, ConnectRefused
<1>9. CASE SendSome \/ SentAll \/ WouldBlock \/ ReadSome \/ ExchangeFails
  BY <1>9 DEF SendSome, SentAll, WouldBlock, ReadSome, ExchangeFails
<1>10. CASE \E code \in {200, 503} : ReadStatus(code)
  BY <1>10 DEF ReadStatus
<1>11. CASE DrainSome \/ DrainEnds \/ Close \/ Tick
  BY <1>11 DEF DrainSome, DrainEnds, Close, Tick
<1>12. CASE Signal
  BY <1>12 DEF Signal
<1>13. CASE UNCHANGED vars
  BY <1>13 DEF vars
<1> QED
  BY <1>2, <1>3, <1>4, <1>5, <1>6, <1>7, <1>8, <1>9, <1>10, <1>11, <1>12, <1>13
  DEF Next, ClientStep

-----------------------------------------------------------------------------
\* What the rest of a call depends on moves with its stage.
CallState == ResultSoFar /\ AddressesAccounted /\ SocketFollowsStage

LEMMA StepCallState == IInv /\ [Next]_vars => CallState'
<1> SUFFICES ASSUME IInv, [Next]_vars PROVE CallState'
  OBVIOUS
<1>1. /\ CallState
      /\ remaining \in Nat /\ sockets \in Nat /\ phase \in Phases
  BY Bounds DEF IInv, CallState, TypeOK
<1> USE <1>1
    DEF CallState, ResultSoFar, AddressesAccounted, SocketFollowsStage, Stage, Phases,
        Goto, EnterWait, Connected, wait, result
<1>2. CASE NextCall
  BY <1>2 DEF NextCall
<1>3. CASE WaitShutdown
  BY <1>3 DEF WaitShutdown, GiveUp
<1>4. CASE WaitTimeout
  BY <1>4 DEF WaitTimeout, GiveUp
<1>5. CASE Block \/ WakeByLatch \/ WakeByTimeout
  BY <1>5 DEF Block, WakeByLatch, WakeByTimeout
<1>6. CASE WakeBySocket
  BY <1>6 DEF WakeBySocket
<1>7. CASE Resolve \/ ResolveFails
  BY <1>7, Bounds DEF Resolve, ResolveFails
<1>8. CASE NoAddressLeft
  BY <1>8 DEF NoAddressLeft
<1>9. CASE AddressFails
  BY <1>9 DEF AddressFails
<1>10. CASE ConnectAtOnce
  BY <1>10 DEF ConnectAtOnce
<1>11. CASE ConnectInProgress
  BY <1>11 DEF ConnectInProgress
<1>12. CASE ConnectSucceeds
  BY <1>12 DEF ConnectSucceeds
<1>13. CASE ConnectRefused
  BY <1>13 DEF ConnectRefused
<1>14. CASE SendSome \/ SentAll \/ ReadSome
  BY <1>14 DEF SendSome, SentAll, ReadSome
<1>15. CASE WouldBlock
  BY <1>15 DEF WouldBlock
<1>16. CASE ExchangeFails
  BY <1>16 DEF ExchangeFails
<1>17. CASE \E code \in {200, 503} : ReadStatus(code)
  BY <1>17 DEF ReadStatus
<1>18. CASE DrainSome \/ DrainEnds
  BY <1>18 DEF DrainSome, DrainEnds
<1>19. CASE Close
  BY <1>19 DEF Close
<1>20. CASE Tick \/ Signal
  <2>1. UNCHANGED <<pc, phase, remaining, sockets, status, error, lastError, ok>>
    BY <1>20, Zenon DEF Tick, Signal
  <2> QED  BY <2>1
<1>21. CASE UNCHANGED vars
  BY <1>21 DEF vars
<1> QED
  BY <1>2, <1>3, <1>4, <1>5, <1>6, <1>7, <1>8, <1>9, <1>10, <1>11, <1>12, <1>13, <1>14,
     <1>15, <1>16, <1>17, <1>18, <1>19, <1>20, <1>21
  DEF Next, ClientStep

\* The inductive invariant holds in every reachable state.
LEMMA AlwaysIInv == Spec => []IInv
<1>1. IInv /\ [Next]_vars => IInv'
  BY StepTypeOK, StepDeadline, StepShutdown, StepCallState DEF IInv, CallState
<1> QED  BY InitIInv, <1>1, PTL DEF Spec

-----------------------------------------------------------------------------
\* Every variable of httpPostJson keeps its type; the status line never outgrows
\* readStatusCode's buffer (pg_eatrace_http.c:277-300).
THEOREM ClientTypeCorrect == Spec => []TypeOK
BY AlwaysIInv, PTL DEF IInv

\* waitSocketReady never blocks beyond the deadline of its phase, however often it is
\* woken and whatever happened before it (pg_eatrace_http.c:122-158).
THEOREM WaitsAreBounded == Spec => []NoWaitPastDeadline
BY AlwaysIInv, PTL DEF IInv

\* waitSocketReady is not blocked over a shutdown request (pg_eatrace_http.c:127-151).
THEOREM ShutdownWakesClient == Spec => []NoWaitOverShutdown
BY AlwaysIInv, PTL DEF IInv

\* A success has a status and no message, a failure a message and no status
\* (include/pg_eatrace_http.h, HttpResult).
THEOREM ResultIsConsistent == Spec => []ResultConsistent
<1>1. IInv => ResultConsistent
  BY DEF IInv, ResultSoFar, Stage, ResultConsistent
<1> QED  BY AlwaysIInv, <1>1, PTL

\* At most one socket is open, and none when httpPostJson has returned, on every path
\* through connectToHost and httpPostJson (pg_eatrace_http.c:160-230, 344-400).
THEOREM NoSocketLeaks == Spec => []SocketsClosed
<1>1. IInv => SocketsClosed
  BY DEF IInv, SocketFollowsStage, Stage, SocketsClosed
<1> QED  BY AlwaysIInv, <1>1, PTL
=============================================================================
