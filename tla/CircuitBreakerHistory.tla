------------------------ MODULE CircuitBreakerHistory ------------------------
(***************************************************************************)
(* CircuitBreaker with history variables: what the answers so far were,    *)
(* when the breaker last tripped and which calls were under way then.      *)
(* They never constrain a step.                                            *)
(***************************************************************************)
EXTENDS CircuitBreaker

VARIABLES
    failRun,    \* failures recorded in a row, up to CountCap
    okRun,      \* successes recorded in a row, up to CountCap
    sinceTrip,  \* time since the breaker last went to OPEN, up to RecoveryTimeout
    atTrip      \* the clients still in the first attempt they were in at the trip

historyVars == <<failRun, okRun, sinceTrip, atTrip>>
hvars == <<vars, historyVars>>

HTypeOK ==
    /\ TypeOK
    /\ failRun \in 0..CountCap
    /\ okRun \in 0..CountCap
    /\ sinceTrip \in 0..RecoveryTimeout
    /\ atTrip \subseteq Request

HInit ==
    /\ Init
    /\ failRun = 0 /\ okRun = 0
    /\ sinceTrip = RecoveryTimeout
    /\ atTrip = {}

\* An attempt to reach the ERP begins: the first of a request, or the second one
\* that the middleware makes of its own accord (app.py:972).
Repeats(r) == calls[r] = "sent" /\ calls'[r] = "retrying"
Attempts(r) == (calls[r] \notin InFlight /\ calls'[r] = "sent") \/ Repeats(r)
Ends(r, how) == calls[r] \in InFlight /\ calls'[r] \in how

Success == {"answered", "answered_5xx"}

Trips == state # "OPEN" /\ state' = "OPEN"

\* One more of a capped count
Up(n) == IF n < CountCap THEN n + 1 ELSE CountCap

Run(n, more, over) ==
    IF \E r \in Request : Ends(r, over) THEN 0
    ELSE IF \E r \in Request : Ends(r, more) THEN Up(n) ELSE n

Remember ==
    /\ failRun' = Run(failRun, {"bad_gateway"}, Success)
    /\ okRun' = Run(okRun, Success, {"bad_gateway"})
    /\ sinceTrip' = IF Trips THEN 0
                    ELSE IF sinceTrip < RecoveryTimeout /\ elapsed' = elapsed + 1
                         THEN sinceTrip + 1 ELSE sinceTrip
    /\ atTrip' = {r \in Request : calls'[r] = "sent" /\ (Trips \/ r \in atTrip)}

HNext == Next /\ Remember

HSpec == HInit /\ [][HNext]_hvars
HFairSpec == HSpec /\ Fairness

-----------------------------------------------------------------------------
\* Until the recovery timeout has passed after a trip (ha_dr.py:22) the only
\* attempts that begin are second ones, which do not ask the breaker, of requests
\* under way since before the trip: at most one for each of them.  Successes of
\* such requests that come back meanwhile let nothing else through.
NoCallDuringCooldown ==
    [][\A r \in Request : Attempts(r) =>
         sinceTrip >= RecoveryTimeout \/ (Repeats(r) /\ r \in atTrip)]_hvars

\* The breaker leaves CLOSED only when FailureThreshold failures were recorded
\* with no success among them (docs/DISASTER_RECOVERY.md:41, "5 consecutive"),
\* also when failures were counted in OPEN or HALF_OPEN before.
TripsOnConsecutiveFailures ==
    [][state = "CLOSED" /\ state' # "CLOSED"
         => state' = "OPEN" /\ failRun' >= FailureThreshold]_hvars

\* The breaker closes again only from HALF_OPEN and on HalfOpenSuccessThreshold
\* successes in a row (docs/DISASTER_RECOVERY.md:42, "2 consecutive successes").
ClosesOnConsecutiveSuccesses ==
    [][state # "CLOSED" /\ state' = "CLOSED"
         => state = "HALF_OPEN" /\ okRun' >= HalfOpenSuccessThreshold]_hvars

\* The breaker in the terms of AbstractBreaker: the counts mean something only in
\* the state they are used in.
Abstract == INSTANCE AbstractBreaker WITH
    Caller <- Request,
    Threshold <- FailureThreshold,
    Rest <- RecoveryTimeout,
    Enough <- HalfOpenSuccessThreshold,
    trusted <- state = "CLOSED",
    rest <- IF state = "OPEN" THEN RecoveryTimeout - elapsed ELSE 0,
    bad <- IF state = "CLOSED" THEN failure_count ELSE 0,
    good <- IF state = "HALF_OPEN" THEN success_count ELSE 0,
    busy <- {r \in Request : calls[r] \in InFlight}

\* ha_dr.py and the middleware around it implement the abstract breaker.
ImplementsAbstractBreaker == Abstract!Spec
=============================================================================
