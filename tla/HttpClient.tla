----------------------------- MODULE HttpClient -----------------------------
(***************************************************************************)
(* httpPostJson (src/src/pg_eatrace_http.c), the client the export worker  *)
(* posts a batch with: resolve the host, try its addresses one by one,     *)
(* send the request, read the status line, drain the rest of the response. *)
(* Every wait is waitSocketReady, which has a deadline and is woken by the *)
(* process latch.  The network decides what each system call returns;      *)
(* signals arrive at any moment.                                           *)
(*                                                                         *)
(* Time is counted in units of a second or so.  It passes while the client *)
(* is blocked, while the host is resolved, and, by one unit at most, while *)
(* a chunk of data is moved.  MaxTime bounds the clock, MaxAddresses the   *)
(* addresses of the host, Chunks what is sent, StatusRoom the reads that   *)
(* fit readStatusCode's buffer, MaxBody what the collector sends after its *)
(* status line (again and again if Endless), MaxSignals the signals        *)
(* during one call.                                                        *)
(***************************************************************************)
EXTENDS Integers, FiniteSetsExt

CONSTANTS
    ConnectTimeout, TotalTimeout,
    MaxTime, MaxAddresses, Chunks, StatusRoom, MaxBody, MaxSignals,
    Endless      \* what the collector sends need not end

ASSUME ClientAssumption ==
    /\ ConnectTimeout \in Nat \ {0} /\ TotalTimeout \in Nat \ {0}
    /\ MaxTime \in Nat /\ TotalTimeout < MaxTime /\ ConnectTimeout < MaxTime
    /\ MaxAddresses \in Nat \ {0} /\ Chunks \in Nat /\ StatusRoom \in Nat \ {0}
    /\ MaxBody \in Nat /\ MaxSignals \in Nat /\ Endless \in BOOLEAN

VARIABLES
    pc,
    now,              \* monotonicMs() since startMs
    remaining,        \* addresses of the host that were not tried yet
    sockets,          \* how many sockets are open
    phase, until,     \* what waitSocketReady waits for, and the end of its timeout
    left, used,       \* chunks to send, reads of the status line so far
    status, error,    \* HttpResult; "none" is the empty message
    lastError,        \* of connectToHost
    ok,               \* what httpPostJson will return
    latch, shutdownPending, signals,
    body              \* what the collector will still send after its status line

wait == <<phase, until>>
transfer == <<left, used>>
result == <<status, error>>
process == <<latch, shutdownPending, signals>>
vars == <<pc, now, remaining, sockets, wait, transfer, result, lastError, ok, process,
          body>>

Phases == {"connect", "send", "status", "drain"}
Deadline(p) == IF p = "connect" THEN ConnectTimeout ELSE TotalTimeout

Started ==
    /\ pc = "resolve" /\ now = 0 /\ remaining = 0 /\ sockets = 0
    /\ phase = "connect" /\ until = 0 /\ left = Chunks /\ used = 0
    /\ status = 0 /\ error = "none" /\ lastError = "none" /\ ok = FALSE
    /\ signals = 0
    /\ body = MaxBody

Init == Started /\ latch = FALSE /\ shutdownPending = FALSE

\* The worker posts its next batch.  Latch and flag outlive the call.
NextCall ==
    /\ pc = "returned" /\ ~shutdownPending
    /\ pc' = "resolve" /\ now' = 0 /\ remaining' = 0 /\ sockets' = sockets
    /\ phase' = "connect" /\ until' = 0 /\ left' = Chunks /\ used' = 0
    /\ status' = 0 /\ error' = "none" /\ lastError' = "none" /\ ok' = FALSE
    /\ signals' = 0
    /\ body' = MaxBody
    /\ UNCHANGED <<latch, shutdownPending>>

Goto(here, there) == pc = here /\ pc' = there
Moving == \E t \in {now, now + 1} : now' = Min({t, MaxTime})

-----------------------------------------------------------------------------
\* waitSocketReady.  Block computes the timeout from what is left of the deadline.
EnterWait(here, p) ==
    /\ Goto(here, "check")
    /\ phase' = p

\* Only the draining of the response has no result to write the reason to.
\* A failed wait for one address is the end of that address alone.
GiveUp(reason) ==
    /\ error' = IF phase = "drain" THEN error ELSE reason
    /\ lastError' = IF phase = "connect" THEN reason ELSE lastError
    /\ sockets' = IF phase = "connect" THEN sockets - 1 ELSE sockets
    /\ remaining' = IF phase = "connect" THEN remaining - 1 ELSE remaining
    /\ pc' = IF phase = "connect" THEN "address" ELSE "close"
    /\ UNCHANGED <<now, wait, transfer, status, ok, process, body>>

WaitShutdown == pc = "check" /\ shutdownPending /\ GiveUp("shutdown")

WaitTimeout ==
    /\ pc = "check" /\ ~shutdownPending
    /\ now >= Deadline(phase)
    /\ GiveUp("timeout")

\* Slip: every wait is granted the whole timeout.
BlockAnew ==
    /\ Goto("check", "blocked")
    /\ ~shutdownPending /\ now < Deadline(phase)
    /\ until' = Min({now + Deadline(phase), MaxTime})
    /\ UNCHANGED <<now, remaining, sockets, phase, transfer, result, lastError, ok,
                   process, body>>

Block ==
    /\ Goto("check", "blocked")
    /\ ~shutdownPending /\ now < Deadline(phase)
    /\ until' = now + (Deadline(phase) - now)
    /\ UNCHANGED <<now, remaining, sockets, phase, transfer, result, lastError, ok,
                   process, body>>

\* Slip: the wake-up is not consumed.
WakeByLatchKept ==
    /\ Goto("blocked", "check")
    /\ latch
    /\ UNCHANGED <<now, remaining, sockets, wait, transfer, result, lastError, ok,
                   process, body>>

\* Slip: the loop waits again without looking at the flag.
WakeByLatchUnchecked ==
    /\ pc = "blocked" /\ UNCHANGED pc
    /\ latch /\ latch' = FALSE
    /\ UNCHANGED <<now, remaining, sockets, wait, transfer, result, lastError, ok,
                   shutdownPending, signals, body>>

WakeByLatch ==
    /\ Goto("blocked", "check")
    /\ latch /\ latch' = FALSE
    /\ UNCHANGED <<now, remaining, sockets, wait, transfer, result, lastError, ok,
                   shutdownPending, signals, body>>

WakeByTimeout ==
    /\ Goto("blocked", "check")
    /\ ~latch /\ now >= until
    /\ UNCHANGED <<now, remaining, sockets, wait, transfer, result, lastError, ok,
                   process, body>>

\* The socket is ready: the call that would have blocked is made again.
WakeBySocket ==
    /\ pc = "blocked" /\ ~latch
    /\ pc' = IF phase = "connect" THEN "connecting" ELSE phase
    /\ UNCHANGED <<now, remaining, sockets, wait, transfer, result, lastError, ok,
                   process, body>>

-----------------------------------------------------------------------------
\* connectToHost
Resolve ==
    /\ Goto("resolve", "address")
    /\ remaining' \in 1..MaxAddresses
    /\ UNCHANGED <<now, sockets, wait, transfer, result, lastError, ok, process,
                   body>>

ResolveFails ==
    /\ Goto("resolve", "returned")
    /\ error' = "resolve"
    /\ UNCHANGED <<now, remaining, sockets, wait, transfer, status, lastError, ok,
                   process, body>>

\* socket() failed, or the socket could not be made non-blocking, or connect()
\* failed at once: nothing stays open, the next address is tried.
AddressFails ==
    /\ pc = "address" /\ UNCHANGED pc
    /\ remaining > 0
    /\ remaining' = remaining - 1
    /\ lastError' = "connect"
    /\ UNCHANGED <<now, sockets, wait, transfer, result, ok, process, body>>

\* Slip: a message of an earlier address is left in the result.
ConnectedKeepsError == UNCHANGED result

Connected == error' = "none" /\ UNCHANGED status

ConnectAtOnce ==
    /\ Goto("address", "send")
    /\ remaining > 0
    /\ sockets' = sockets + 1
    /\ Connected
    /\ UNCHANGED <<now, remaining, wait, transfer, lastError, ok, process, body>>

ConnectInProgress ==
    /\ EnterWait("address", "connect")
    /\ remaining > 0
    /\ sockets' = sockets + 1
    /\ UNCHANGED <<now, remaining, until, transfer, result, lastError, ok, process,
                   body>>

ConnectSucceeds ==
    /\ Goto("connecting", "send")
    /\ Connected
    /\ UNCHANGED <<now, remaining, sockets, wait, transfer, lastError, ok, process,
                   body>>

\* Slip: the socket of an address that refused is not closed.
ConnectRefusedLeak ==
    /\ Goto("connecting", "address")
    /\ lastError' = "connect"
    /\ remaining' = remaining - 1
    /\ UNCHANGED <<now, sockets, wait, transfer, result, ok, process, body>>

\* SO_ERROR tells that the connection failed.
ConnectRefused ==
    /\ Goto("connecting", "address")
    /\ lastError' = "connect"
    /\ remaining' = remaining - 1
    /\ sockets' = sockets - 1
    /\ UNCHANGED <<now, wait, transfer, result, ok, process, body>>

NoAddressLeft ==
    /\ Goto("address", "returned")
    /\ remaining = 0
    /\ error' = lastError
    /\ UNCHANGED <<now, remaining, sockets, wait, transfer, status, lastError, ok,
                   process, body>>

-----------------------------------------------------------------------------
\* sendAll, for the header and for the body; readStatusCode; drainResponse
SendSome ==
    /\ pc = "send" /\ left > 0
    /\ left' = left - 1
    /\ Moving
    /\ UNCHANGED <<pc, remaining, sockets, wait, used, result, lastError, ok, process,
                   body>>

SentAll ==
    /\ Goto("send", "status")
    /\ left = 0
    /\ UNCHANGED <<now, remaining, sockets, wait, transfer, result, lastError, ok,
                   process, body>>

\* The call would block.
WouldBlock ==
    /\ \/ left > 0 /\ EnterWait("send", "send")
       \/ EnterWait("status", "status")
       \/ EnterWait("drain", "drain")
    /\ UNCHANGED <<now, remaining, sockets, until, transfer, result, lastError, ok,
                   process, body>>

\* Slip: off by one, a full buffer is read into once more.
ReadSomeMore ==
    /\ pc = "status" /\ used < StatusRoom
    /\ used' = used + 1
    /\ Moving
    /\ UNCHANGED <<pc, remaining, sockets, wait, left, result, lastError, ok, process,
                   body>>

\* A part of the status line, with room for more.
ReadSome ==
    /\ pc = "status" /\ used + 1 < StatusRoom
    /\ used' = used + 1
    /\ Moving
    /\ UNCHANGED <<pc, remaining, sockets, wait, left, result, lastError, ok, process,
                   body>>

\* A whole status line; what comes of the rest of the response no longer counts.
ReadStatus(code) ==
    /\ Goto("status", "drain")
    /\ status' = code /\ ok' = TRUE
    /\ Moving
    /\ UNCHANGED <<remaining, sockets, wait, transfer, error, lastError, process, body>>

\* send or recv failed; the collector closed before its status line; the line does
\* not parse or does not fit.
ExchangeFails ==
    /\ pc' = "close"
    /\ \/ pc = "send" /\ left > 0 /\ error' = "send"
       \/ pc = "status" /\ error' \in {"recv", "closed", "unparsable"}
       \/ pc = "status" /\ used + 1 >= StatusRoom /\ error' = "tooLong"
    /\ UNCHANGED <<now, remaining, sockets, wait, transfer, status, lastError, ok,
                   process, body>>

\* More of the response: read it and look for more, whatever the time.
DrainSome ==
    /\ pc = "drain"
    /\ Endless \/ body > 0
    /\ body' = IF body > 0 THEN body - 1 ELSE MaxBody
    /\ Moving
    /\ UNCHANGED <<pc, remaining, sockets, wait, transfer, result, lastError, ok, process>>

\* The collector closed its side, or the connection broke.
DrainEnds ==
    /\ Goto("drain", "close")
    /\ UNCHANGED <<now, remaining, sockets, wait, transfer, result, lastError, ok,
                   process, body>>

Close ==
    /\ Goto("close", "returned")
    /\ sockets' = sockets - 1
    /\ UNCHANGED <<now, remaining, wait, transfer, result, lastError, ok, process,
                   body>>

-----------------------------------------------------------------------------
Tick ==
    /\ \/ pc = "resolve" /\ now < MaxTime
       \/ pc = "blocked" /\ ~latch /\ now < until
    /\ now' = now + 1
    /\ UNCHANGED <<pc, remaining, sockets, wait, transfer, result, lastError, ok,
                   process, body>>

\* SIGHUP or any other latch wake-up, and SIGTERM
Signal ==
    /\ signals < MaxSignals
    /\ latch' = TRUE /\ signals' = signals + 1
    /\ shutdownPending' \in {shutdownPending, TRUE}
    /\ UNCHANGED <<pc, now, remaining, sockets, wait, transfer, result, lastError, ok,
                   body>>

ClientStep ==
    \/ Resolve \/ ResolveFails
    \/ AddressFails \/ ConnectAtOnce \/ ConnectInProgress \/ ConnectSucceeds
    \/ ConnectRefused \/ NoAddressLeft
    \/ WaitShutdown \/ WaitTimeout \/ Block \/ WakeByLatch \/ WakeByTimeout
    \/ SendSome \/ SentAll \/ WouldBlock
    \/ ReadSome \/ \E code \in {200, 503} : ReadStatus(code)
    \/ ExchangeFails
    \/ DrainSome \/ DrainEnds \/ Close

Next == ClientStep \/ WakeBySocket \/ NextCall \/ Tick \/ Signal

Spec == Init /\ [][Next]_vars

\* The worker is scheduled, getaddrinfo returns, and time passes for a client that is
\* blocked again and again.  Nothing is promised of the collector: a socket need
\* never be ready.
FairSpec == Spec /\ WF_vars(ClientStep) /\ SF_vars(Tick)

-----------------------------------------------------------------------------
FlagsOK == ok \in BOOLEAN /\ latch \in BOOLEAN /\ shutdownPending \in BOOLEAN

\* Every variable stays within its type, and the status line within its buffer.
TypeOK ==
    /\ FlagsOK
    /\ pc \in {"resolve", "address", "connecting", "check", "blocked", "send",
               "status", "drain", "close", "returned"}
    /\ now \in 0..MaxTime /\ remaining \in 0..MaxAddresses /\ sockets \in Nat
    /\ phase \in Phases /\ until \in 0..MaxTime
    /\ left \in 0..Chunks /\ used \in 0..StatusRoom - 1
    /\ status \in {0, 200, 503}
    /\ error \in {"none", "resolve", "connect", "shutdown", "timeout", "send", "recv",
                  "closed", "unparsable", "tooLong"}
    /\ lastError \in {"none", "connect", "shutdown", "timeout"}
    /\ signals \in 0..MaxSignals
    /\ body \in 0..MaxBody

\* However often the latch interrupts it, and whatever came before it (a slow
\* resolver, other addresses), the client is never blocked beyond the deadline of
\* its phase.
NoWaitPastDeadline == pc = "blocked" => until <= Deadline(phase) /\ now <= until

\* SIGTERM is not slept over: a client that is blocked has been woken already.
NoWaitOverShutdown == pc = "blocked" /\ shutdownPending => latch

\* HttpResult is what its comment says: on success the message is empty, even when
\* another address failed before or draining failed after; on failure there is a
\* message and the status is 0.
ResultConsistent ==
    pc = "returned" => IF ok THEN error = "none" /\ status # 0 ELSE error # "none" /\ status = 0

\* Each socket is closed once, on every path: one is open at most, none at the end.
SocketsClosed ==
    /\ sockets \in 0..1
    /\ pc \in {"resolve", "address", "returned"} => sockets = 0

\* A call that was made returns, when the collector's response is finite, even if it
\* is never ready and signals keep waking the client.
CallReturns == pc # "returned" ~> pc = "returned"

\* include/pg_eatrace_http.h, lines 16-18: the worker stays responsive to a shutdown
\* request while an export is in flight.
ShutdownEndsCall == shutdownPending ~> pc = "returned"
=============================================================================
