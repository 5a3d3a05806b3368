--------------------------- MODULE CircuitBreaker ---------------------------
(***************************************************************************)
(* The circuit breaker of gateway/ha_dr.py together with the part of the   *)
(* gateway middleware that uses it (gateway/app.py, step 12): a request    *)
(* asks allow_request, awaits the upstream ERP and, when the answer comes, *)
(* records a success or a failure.  Between the two calls the event loop   *)
(* runs other requests, so any number of them interleave.                  *)
(*                                                                         *)
(* The breaker reads the clock only to compare now - last_state_change     *)
(* with the recovery timeout.  The model keeps that difference, elapsed,   *)
(* and stops counting once it has reached the timeout.                     *)
(***************************************************************************)
EXTENDS Naturals

CONSTANTS
    Request,                  \* the clients, each with one request at a time
    FailureThreshold,         \* failure_threshold
    RecoveryTimeout,          \* recovery_timeout_seconds, in ticks
    HalfOpenSuccessThreshold, \* half_open_success_threshold
    CountCap                  \* failure_count is not counted beyond this bound

ASSUME BreakerAssumption ==
    /\ FailureThreshold \in Nat \ {0}
    /\ RecoveryTimeout \in Nat \ {0}
    /\ HalfOpenSuccessThreshold \in Nat \ {0}
    /\ CountCap \in Nat
    /\ CountCap >= FailureThreshold /\ CountCap >= HalfOpenSuccessThreshold

VARIABLES
    state,          \* CircuitBreaker.state
    failure_count,  \* CircuitBreaker.failure_count
    success_count,  \* CircuitBreaker.success_count
    elapsed,        \* now - last_state_change, up to RecoveryTimeout
    calls,          \* where each client's request stands in the middleware
    upstream        \* whether the ERP behind the gateway works

breakerVars == <<state, failure_count, success_count, elapsed>>
vars == <<state, failure_count, success_count, elapsed, calls, upstream>>

BreakerState == {"CLOSED", "OPEN", "HALF_OPEN"}

\* A request is in flight while the middleware awaits client.request: the first
\* time ("sent"), or once more after "Event loop is closed" ("retrying").
InFlight == {"sent", "retrying"}

\* How a request can have ended: the ERP answered it, answered it with HTTP 5xx,
\* could not be reached (502), its retry raised, or the breaker refused it (503).
Ended == {"answered", "answered_5xx", "bad_gateway", "raised", "refused"}

TypeOK ==
    /\ state \in BreakerState
    /\ failure_count \in 0..CountCap
    /\ success_count \in 0..HalfOpenSuccessThreshold
    /\ elapsed \in 0..RecoveryTimeout
    /\ calls \in [Request -> {"idle"} \cup InFlight \cup Ended]
    /\ upstream \in {"up", "down"}

Init ==
    /\ state = "CLOSED"
    /\ failure_count = 0
    /\ success_count = 0
    /\ elapsed = 0
    /\ calls = [r \in Request |-> "idle"]
    /\ upstream \in {"up", "down"}

-----------------------------------------------------------------------------
\* allow_request.  An operator whose comment starts with "Fault:" is a plausible
\* mistake in the definition after it; the mutation runs put it in its place.

\* Fault: the comparison is one tick early.
CooledDownEarly == elapsed >= RecoveryTimeout - 1
CooledDown == elapsed >= RecoveryTimeout

Pass == state # "OPEN" /\ UNCHANGED breakerVars

EnterHalfOpen ==
    /\ state = "OPEN" /\ CooledDown
    /\ state' = "HALF_OPEN"
    /\ elapsed' = 0
    /\ success_count' = 0
    /\ UNCHANGED failure_count

\* Fault: a refused request stamps last_state_change.
RefuseAndStamp ==
    /\ state = "OPEN" /\ ~CooledDown
    /\ elapsed' = 0
    /\ UNCHANGED <<state, failure_count, success_count>>

Refuse == state = "OPEN" /\ ~CooledDown /\ UNCHANGED breakerVars

\* The middleware reaches step 12 with a request of client r: it is forwarded,
\* or answered 503 at once.
Arrive(r) ==
    /\ calls[r] \notin InFlight
    /\ \/ /\ Pass \/ EnterHalfOpen
          /\ calls' = [calls EXCEPT ![r] = "sent"]
       \/ /\ Refuse
          /\ calls' = [calls EXCEPT ![r] = "refused"]
    /\ UNCHANGED upstream

-----------------------------------------------------------------------------
\* record_success and record_failure

ElapsedAfter(next) == IF next = state THEN elapsed ELSE 0

\* Fault: one success too few.
EnoughSuccessesOffByOne == success_count + 2 >= HalfOpenSuccessThreshold
EnoughSuccesses == success_count + 1 >= HalfOpenSuccessThreshold

\* Fault: a success recorded in OPEN, of a call of before the trip, closes the breaker.
StateAfterSuccessAlsoOpen ==
    IF state = "OPEN" \/ (state = "HALF_OPEN" /\ EnoughSuccesses)
      THEN "CLOSED" ELSE state
StateAfterSuccess ==
    IF state = "HALF_OPEN" /\ EnoughSuccesses THEN "CLOSED" ELSE state

\* Fault: closing does not reset failure_count.
FailuresKeptOnClosing == IF state = "CLOSED" THEN 0 ELSE failure_count
FailuresAfterSuccess == IF StateAfterSuccess = "CLOSED" THEN 0 ELSE failure_count

RecordSuccess ==
    /\ state' = StateAfterSuccess
    /\ success_count' = IF state = "HALF_OPEN" THEN success_count + 1 ELSE success_count
    /\ failure_count' = FailuresAfterSuccess
    /\ elapsed' = ElapsedAfter(StateAfterSuccess)

OneMoreFailure == IF failure_count < CountCap THEN failure_count + 1 ELSE CountCap

TooManyFailures == failure_count + 1 >= FailureThreshold

\* Fault: a failure in HALF_OPEN is counted but does not reopen the breaker.
StateAfterFailureOnlyClosed ==
    IF state = "CLOSED" /\ TooManyFailures THEN "OPEN" ELSE state
StateAfterFailure ==
    IF state = "HALF_OPEN" \/ (state = "CLOSED" /\ TooManyFailures)
      THEN "OPEN" ELSE state

RecordFailure ==
    /\ state' = StateAfterFailure
    /\ failure_count' = OneMoreFailure
    /\ elapsed' = ElapsedAfter(StateAfterFailure)
    /\ UNCHANGED success_count

-----------------------------------------------------------------------------
\* What the awaited upstream call can come to

\* Any HTTP response, a 5xx included, is recorded as a success.
Respond(r) ==
    /\ calls[r] \in InFlight
    /\ \/ calls' = [calls EXCEPT ![r] = "answered"]
       \/ /\ upstream = "down"
          /\ calls' = [calls EXCEPT ![r] = "answered_5xx"]
    /\ RecordSuccess
    /\ UNCHANGED upstream

\* A connection error or a timeout of the first attempt is recorded as a failure.
FailToReach(r) ==
    /\ calls[r] = "sent"
    /\ upstream = "down"
    /\ calls' = [calls EXCEPT ![r] = "bad_gateway"]
    /\ RecordFailure
    /\ UNCHANGED upstream

\* RuntimeError "Event loop is closed": the handler awaits a second attempt.
RetryOnFreshClient(r) ==
    /\ calls[r] = "sent"
    /\ calls' = [calls EXCEPT ![r] = "retrying"]
    /\ UNCHANGED <<breakerVars, upstream>>

\* The second attempt fails inside the except clause: no one catches it and
\* nothing is recorded.
RetryRaises(r) ==
    /\ calls[r] = "retrying"
    /\ upstream = "down"
    /\ calls' = [calls EXCEPT ![r] = "raised"]
    /\ UNCHANGED <<breakerVars, upstream>>

Tick ==
    /\ elapsed < RecoveryTimeout
    /\ elapsed' = elapsed + 1
    /\ UNCHANGED <<state, failure_count, success_count, calls, upstream>>

UpstreamChanges ==
    /\ upstream' = IF upstream = "up" THEN "down" ELSE "up"
    /\ UNCHANGED <<breakerVars, calls>>

Next ==
    \/ \E r \in Request :
         Arrive(r) \/ Respond(r) \/ FailToReach(r)
           \/ RetryOnFreshClient(r) \/ RetryRaises(r)
    \/ Tick
    \/ UpstreamChanges

\* The clock moves; clients keep sending; httpx bounds every attempt with
\* timeouts (app.py: connect 5 s, read 30 s), so a call in flight comes to an end.
Fairness ==
    /\ WF_vars(Tick)
    /\ \A r \in Request :
         /\ WF_vars(Arrive(r))
         /\ WF_vars(Respond(r) \/ FailToReach(r) \/ RetryRaises(r))

Spec == Init /\ [][Next]_vars

-----------------------------------------------------------------------------
\* In CLOSED the count of failures is short of the threshold and in HALF_OPEN the
\* count of successes is: neither a leftover count of an earlier OPEN period nor a
\* late answer makes the breaker linger in a state it should have left.
CountsBelowThresholds ==
    /\ state = "CLOSED" => failure_count < FailureThreshold
    /\ state = "HALF_OPEN" => success_count < HalfOpenSuccessThreshold

\* Once the ERP works for good and traffic continues, the breaker closes for good,
\* whatever calls were in flight when it healed.
Recovers == (<>[](upstream = "up")) => <>[](state = "CLOSED")
=============================================================================
