--------------------------- MODULE UpstreamProofs ---------------------------
(***************************************************************************)
(* Theorems about what stands between the gateway and the ERP it forwards  *)
(* to, in two parts that share nothing.                                    *)
(*                                                                         *)
(* CircuitBreaker, for any set of clients, any thresholds and any timeout. *)
(* The invariant they rest on is Inv: the types, the counts below their    *)
(* thresholds, and the link between the counters and the history.  Lemmas  *)
(* first say what each kind of step does to the runs of successes and      *)
(* failures.                                                               *)
(*                                                                         *)
(* CanaryRouter, for any clients, routes, budgets, windows and bounds.     *)
(* The invariant is CanaryInv: the metrics of the routes and of the whole  *)
(* agree with each other and with the history.                             *)
(***************************************************************************)
EXTENDS CircuitBreakerHistory, CanaryRouter, SequenceTheorems, FiniteSetTheorems,
        WellFoundedInduction, TLAPS

\* What the history says of the breaker's own counters, in each state.  While a
\* trip is younger than the timeout the breaker is OPEN, its timer runs no faster
\* than the time since the trip, and neither count exceeds the run it stands for.
HistoryInv ==
    /\ sinceTrip < RecoveryTimeout => state = "OPEN"
    /\ state = "OPEN" => elapsed <= sinceTrip
    /\ state = "CLOSED" => failure_count <= failRun
    /\ state = "HALF_OPEN" => success_count <= okRun

Inv == HTypeOK /\ CountsBelowThresholds /\ HistoryInv

\* While a trip is young, every first attempt under way is one of before it.
TripInv ==
    sinceTrip < RecoveryTimeout
        => \A r \in Request : calls[r] = "sent" => r \in atTrip

\* Only the call of r changes.
Moves(r, to) == calls' = [calls EXCEPT ![r] = to]

\* A success ends the run of failures and prolongs the run of successes.
LEMMA RunsAfterSuccess ==
    ASSUME Inv, NEW r \in Request, calls[r] \in InFlight,
           NEW to \in Success, Moves(r, to), Remember
    PROVE  failRun' = 0 /\ okRun' = Up(okRun)
<1>1. calls'[r] = to /\ \A q \in Request \ {r} : calls'[q] = calls[q]
  BY DEF Moves, Inv, HTypeOK, TypeOK
<1>2. Ends(r, Success)
  BY <1>1 DEF Ends
<1>3. ~ \E q \in Request : Ends(q, {"bad_gateway"})
  BY <1>1 DEF Ends, Success, InFlight
<1>4. QED
  BY <1>2, <1>3 DEF Remember, Run

\* A failure ends the run of successes and prolongs the run of failures.
LEMMA RunsAfterFailure ==
    ASSUME Inv, NEW r \in Request, calls[r] = "sent",
           Moves(r, "bad_gateway"), Remember
    PROVE  okRun' = 0 /\ failRun' = Up(failRun)
<1>1. calls'[r] = "bad_gateway" /\ \A q \in Request \ {r} : calls'[q] = calls[q]
  BY DEF Moves, Inv, HTypeOK, TypeOK
<1>2. Ends(r, {"bad_gateway"})
  BY <1>1 DEF Ends, InFlight
<1>3. ~ \E q \in Request : Ends(q, Success)
  BY <1>1 DEF Ends, Success, InFlight
<1>4. QED
  BY <1>2, <1>3 DEF Remember, Run

\* Every other step leaves both runs alone.
LEMMA RunsOtherwise ==
    ASSUME Remember,
           \A q \in Request : calls[q] \in InFlight
               => calls'[q] \notin Success \cup {"bad_gateway"}
    PROVE  UNCHANGED <<failRun, okRun>>
BY DEF Remember, Run, Ends

\* The history variables keep their types whatever the step does.
LEMMA HistoryTypes ==
    ASSUME Inv, Remember
    PROVE  /\ failRun' \in 0..CountCap /\ okRun' \in 0..CountCap
           /\ sinceTrip' \in 0..RecoveryTimeout
           /\ atTrip' \subseteq Request
<1>1. \A n \in 0..CountCap : Up(n) \in 0..CountCap
  BY BreakerAssumption DEF Up
<1>2. \A n \in 0..CountCap : \A S, T : Run(n, S, T) \in 0..CountCap
  BY <1>1, BreakerAssumption DEF Run
<1>3. /\ failRun \in 0..CountCap /\ okRun \in 0..CountCap
      /\ sinceTrip \in 0..RecoveryTimeout
  BY DEF Inv, HTypeOK
<1>4. sinceTrip' \in 0..RecoveryTimeout
  BY <1>3, BreakerAssumption DEF Remember
<1>5. QED
  BY <1>2, <1>3, <1>4 DEF Remember

\* A step of the clock or of the breaker moves the time since the trip like this.
LEMMA TimeSinceTrip ==
    ASSUME Remember
    PROVE  sinceTrip' = IF Trips THEN 0
                        ELSE IF sinceTrip < RecoveryTimeout /\ elapsed' = elapsed + 1
                             THEN sinceTrip + 1 ELSE sinceTrip
BY DEF Remember

-----------------------------------------------------------------------------
LEMMA InvInit == HInit => Inv
BY BreakerAssumption
   DEF HInit, Init, Inv, HTypeOK, TypeOK, CountsBelowThresholds, HistoryInv,
       BreakerState, InFlight, Ended

\* Arrivals that leave the breaker alone, and the steps that only change calls or
\* upstream, preserve the invariant.
LEMMA InvQuiet ==
    ASSUME Inv, Remember, UNCHANGED breakerVars, TypeOK',
           \A q \in Request : calls[q] \in InFlight
               => calls'[q] \notin Success \cup {"bad_gateway"}
    PROVE  Inv'
<1>1. UNCHANGED <<failRun, okRun>>
  BY RunsOtherwise
<1>2. sinceTrip' = sinceTrip
  BY TimeSinceTrip, BreakerAssumption DEF breakerVars, Trips, Inv, HTypeOK, TypeOK
<1>3. HTypeOK'
  BY HistoryTypes DEF HTypeOK
<1>4. CountsBelowThresholds' /\ HistoryInv'
  BY <1>1, <1>2 DEF Inv, CountsBelowThresholds, HistoryInv, breakerVars
<1>5. QED
  BY <1>3, <1>4 DEF Inv

\* Going to HALF_OPEN needs an elapsed timeout, so the trip is as old.
LEMMA InvEnterHalfOpen ==
    ASSUME Inv, Remember, EnterHalfOpen, NEW r \in Request,
           calls[r] \notin InFlight, Moves(r, "sent"), UNCHANGED upstream
    PROVE  Inv'
<1>1. /\ state = "OPEN" /\ state' = "HALF_OPEN" /\ elapsed = RecoveryTimeout
      /\ elapsed' = 0 /\ success_count' = 0 /\ failure_count' = failure_count
  BY BreakerAssumption DEF EnterHalfOpen, CooledDown, Inv, HTypeOK, TypeOK
<1>2. calls' \in [Request -> {"idle"} \cup InFlight \cup Ended]
  BY DEF Moves, Inv, HTypeOK, TypeOK, InFlight
<1>3. TypeOK'
  BY <1>1, <1>2, BreakerAssumption DEF Inv, HTypeOK, TypeOK, BreakerState
<1>4. HTypeOK'
  BY <1>3, HistoryTypes DEF HTypeOK
<1>5. sinceTrip' = RecoveryTimeout
  BY <1>1, TimeSinceTrip, BreakerAssumption
     DEF Trips, Inv, HTypeOK, HistoryInv
<1>6. HistoryInv'
  BY <1>1, <1>4, <1>5, BreakerAssumption DEF HistoryInv, HTypeOK
<1>7. CountsBelowThresholds'
  BY <1>1, BreakerAssumption DEF CountsBelowThresholds
<1>8. QED
  BY <1>4, <1>6, <1>7 DEF Inv

LEMMA InvSuccess ==
    ASSUME Inv, Remember, RecordSuccess, NEW r \in Request,
           calls[r] \in InFlight, NEW to \in Success, Moves(r, to),
           UNCHANGED upstream
    PROVE  Inv'
<1>1. failRun' = 0 /\ okRun' = Up(okRun)
  BY RunsAfterSuccess
<1>2. calls' \in [Request -> {"idle"} \cup InFlight \cup Ended]
  BY DEF Moves, Inv, HTypeOK, TypeOK, Success, Ended
<1>3. TypeOK'
  BY <1>2, BreakerAssumption
     DEF Inv, HTypeOK, TypeOK, BreakerState, CountsBelowThresholds, RecordSuccess,
         StateAfterSuccess, FailuresAfterSuccess, ElapsedAfter, EnoughSuccesses
<1>4. HTypeOK'
  BY <1>3, HistoryTypes DEF HTypeOK
<1>5. ~Trips
  BY DEF Trips, RecordSuccess, StateAfterSuccess, Inv, HTypeOK, TypeOK
<1>6. sinceTrip' = sinceTrip
  BY <1>5, TimeSinceTrip, BreakerAssumption
     DEF Inv, HTypeOK, TypeOK, RecordSuccess, ElapsedAfter
<1>7. CountsBelowThresholds'
  BY BreakerAssumption
     DEF Inv, HTypeOK, TypeOK, CountsBelowThresholds, RecordSuccess,
         StateAfterSuccess, FailuresAfterSuccess, EnoughSuccesses
<1>8. HistoryInv'
  <2>1. sinceTrip' < RecoveryTimeout => state' = "OPEN"
    BY <1>6 DEF Inv, HistoryInv, RecordSuccess, StateAfterSuccess
  <2>2. state' = "OPEN" => elapsed' <= sinceTrip'
    BY <1>5, <1>6
       DEF Inv, HistoryInv, RecordSuccess, StateAfterSuccess, ElapsedAfter, Trips
  <2>3. state' = "CLOSED" => failure_count' <= failRun'
    BY <1>1 DEF RecordSuccess, StateAfterSuccess, FailuresAfterSuccess
  <2>4. state' = "HALF_OPEN" => success_count' <= okRun'
    BY <1>1, BreakerAssumption
       DEF Inv, HTypeOK, TypeOK, HistoryInv, CountsBelowThresholds, RecordSuccess,
           StateAfterSuccess, Up
  <2>5. QED
    BY <2>1, <2>2, <2>3, <2>4 DEF HistoryInv
<1>9. QED
  BY <1>4, <1>7, <1>8 DEF Inv

LEMMA InvFailure ==
    ASSUME Inv, Remember, RecordFailure, NEW r \in Request,
           calls[r] = "sent", Moves(r, "bad_gateway"), UNCHANGED upstream
    PROVE  Inv'
<1>1. okRun' = 0 /\ failRun' = Up(failRun)
  BY RunsAfterFailure
<1>2. calls' \in [Request -> {"idle"} \cup InFlight \cup Ended]
  BY DEF Moves, Inv, HTypeOK, TypeOK, Ended
<1>3. TypeOK'
  BY <1>2, BreakerAssumption
     DEF Inv, HTypeOK, TypeOK, BreakerState, RecordFailure, OneMoreFailure,
         StateAfterFailure, ElapsedAfter
<1>4. HTypeOK'
  BY <1>3, HistoryTypes DEF HTypeOK
<1>5. CountsBelowThresholds'
  BY BreakerAssumption
     DEF Inv, HTypeOK, TypeOK, CountsBelowThresholds, RecordFailure,
         OneMoreFailure, StateAfterFailure, TooManyFailures, BreakerState
<1>6. CASE Trips
  <2>1. state' = "OPEN" /\ elapsed' = 0 /\ sinceTrip' = 0
    BY <1>6, TimeSinceTrip DEF Trips, RecordFailure, ElapsedAfter
  <2>2. HistoryInv'
    BY <2>1 DEF HistoryInv
  <2>3. QED
    BY <1>4, <1>5, <2>2 DEF Inv
<1>7. CASE ~Trips
  <2>1. state' = state /\ state \in {"OPEN", "CLOSED"} /\ elapsed' = elapsed
    BY <1>7 DEF Trips, RecordFailure, StateAfterFailure, ElapsedAfter, Inv,
                HTypeOK, TypeOK, BreakerState
  <2>2. sinceTrip' = sinceTrip
    BY <1>7, <2>1, TimeSinceTrip, BreakerAssumption DEF Inv, HTypeOK, TypeOK
  <2>3. state = "CLOSED" => failure_count' <= failRun'
    BY <1>1, BreakerAssumption
       DEF Inv, HTypeOK, TypeOK, HistoryInv, RecordFailure, OneMoreFailure, Up
  <2>4. HistoryInv'
    BY <2>1, <2>2, <2>3 DEF Inv, HistoryInv
  <2>5. QED
    BY <1>4, <1>5, <2>4 DEF Inv
<1>8. QED
  BY <1>6, <1>7

LEMMA InvTick ==
    ASSUME Inv, Remember, Tick
    PROVE  Inv'
<1>1. /\ UNCHANGED <<state, failure_count, success_count, calls, upstream>>
      /\ elapsed < RecoveryTimeout /\ elapsed' = elapsed + 1
  BY DEF Tick
<1>2. UNCHANGED <<failRun, okRun>>
  BY <1>1, RunsOtherwise DEF InFlight, Success
<1>3. HTypeOK'
  BY <1>1, HistoryTypes, BreakerAssumption DEF Inv, HTypeOK, TypeOK
<1>4. sinceTrip' = IF sinceTrip < RecoveryTimeout THEN sinceTrip + 1 ELSE sinceTrip
  BY <1>1, TimeSinceTrip DEF Trips
<1>5. HistoryInv'
  BY <1>1, <1>2, <1>4, BreakerAssumption DEF Inv, HTypeOK, TypeOK, HistoryInv
<1>6. CountsBelowThresholds'
  BY <1>1 DEF Inv, CountsBelowThresholds
<1>7. QED
  BY <1>3, <1>5, <1>6 DEF Inv

LEMMA InvNext ==
    ASSUME Inv, [HNext]_hvars
    PROVE  Inv'
<1>1. CASE UNCHANGED hvars
  BY <1>1 DEF hvars, vars, historyVars, Inv, HTypeOK, TypeOK, CountsBelowThresholds,
              HistoryInv
<1>2. ASSUME HNext PROVE Inv'
  <2> USE <1>2 DEF HNext
  <2>1. ASSUME NEW r \in Request, Arrive(r) PROVE Inv'
    <3>1. CASE Pass /\ Moves(r, "sent")
      <4>1. TypeOK'
        BY <2>1, <3>1 DEF Pass, Moves, Arrive, breakerVars, Inv, HTypeOK, TypeOK, InFlight
      <4>2. \A q \in Request : calls[q] \in InFlight
                => calls'[q] \notin Success \cup {"bad_gateway"}
        BY <2>1, <3>1 DEF Moves, Inv, HTypeOK, TypeOK, InFlight, Success
      <4>3. QED
        BY <3>1, <4>1, <4>2, InvQuiet DEF Pass
    <3>2. CASE EnterHalfOpen /\ Moves(r, "sent")
      BY <2>1, <3>2, InvEnterHalfOpen DEF Arrive
    <3>3. CASE Refuse /\ Moves(r, "refused")
      <4>1. TypeOK'
        BY <2>1, <3>3 DEF Refuse, Moves, Arrive, breakerVars, Inv, HTypeOK, TypeOK, Ended
      <4>2. \A q \in Request : calls[q] \in InFlight
                => calls'[q] \notin Success \cup {"bad_gateway"}
        BY <2>1, <3>3 DEF Moves, Inv, HTypeOK, TypeOK, InFlight, Success
      <4>3. QED
        BY <3>3, <4>1, <4>2, InvQuiet DEF Refuse
    <3>4. QED
      BY <2>1, <3>1, <3>2, <3>3 DEF Arrive, Moves
  <2>2. ASSUME NEW r \in Request, Respond(r) PROVE Inv'
    BY <2>2, InvSuccess DEF Respond, Moves, Success
  <2>3. ASSUME NEW r \in Request, FailToReach(r) PROVE Inv'
    BY <2>3, InvFailure DEF FailToReach, Moves
  <2>4. ASSUME NEW r \in Request, RetryOnFreshClient(r) \/ RetryRaises(r) PROVE Inv'
    <3>1. TypeOK'
      BY <2>4 DEF RetryOnFreshClient, RetryRaises, breakerVars, Inv, HTypeOK, TypeOK,
                  InFlight, Ended
    <3>2. \A q \in Request : calls[q] \in InFlight
              => calls'[q] \notin Success \cup {"bad_gateway"}
      BY <2>4 DEF RetryOnFreshClient, RetryRaises, Inv, HTypeOK, TypeOK, InFlight, Success
    <3>3. QED
      BY <2>4, <3>1, <3>2, InvQuiet DEF RetryOnFreshClient, RetryRaises
  <2>5. CASE Tick
    BY <2>5, InvTick
  <2>6. CASE UpstreamChanges
    <3>1. TypeOK'
      BY <2>6 DEF UpstreamChanges, breakerVars, Inv, HTypeOK, TypeOK
    <3>2. \A q \in Request : calls[q] \in InFlight
              => calls'[q] \notin Success \cup {"bad_gateway"}
      BY <2>6 DEF UpstreamChanges, InFlight, Success
    <3>3. QED
      BY <2>6, <3>1, <3>2, InvQuiet DEF UpstreamChanges
  <2>7. QED
    BY <2>1, <2>2, <2>3, <2>4, <2>5, <2>6 DEF Next
<1>3. QED
  BY <1>1, <1>2

LEMMA Invariance == HSpec => []Inv
<1>1. HInit => Inv
  BY InvInit
<1>2. Inv /\ [HNext]_hvars => Inv'
  BY InvNext
<1>3. QED
  BY <1>1, <1>2, PTL DEF HSpec

\* Every variable of the breaker, the middleware and the history keeps its type.
THEOREM TypeCorrect == HSpec => []HTypeOK
BY Invariance, PTL DEF Inv

\* The counts never reach their thresholds without the state changing with them.
THEOREM CountsStayBelowThresholds == HSpec => []CountsBelowThresholds
BY Invariance, PTL DEF Inv

-----------------------------------------------------------------------------
\* While a trip is young, no step begins a first attempt.
LEMMA NoFirstAttemptWhileYoung ==
    ASSUME Inv, HNext, NEW r \in Request, calls[r] # "sent", calls'[r] = "sent"
    PROVE  sinceTrip >= RecoveryTimeout
<1>1. ~Tick /\ ~UpstreamChanges
  BY DEF Tick, UpstreamChanges
<1>2. PICK q \in Request : \/ Arrive(q) \/ Respond(q) \/ FailToReach(q)
                            \/ RetryOnFreshClient(q) \/ RetryRaises(q)
  BY <1>1 DEF HNext, Next
<1>3. Arrive(q) /\ Moves(q, "sent")
  BY <1>2 DEF Arrive, Respond, FailToReach, RetryOnFreshClient, RetryRaises, Moves, Inv,
              HTypeOK, TypeOK
<1>4. ~(Refuse /\ Moves(q, "refused"))
  BY <1>3 DEF Moves, Inv, HTypeOK, TypeOK
<1>5. state # "OPEN" \/ elapsed >= RecoveryTimeout
  BY <1>3, <1>4 DEF Arrive, Pass, EnterHalfOpen, CooledDown, Moves
<1>6. QED
  BY <1>5, BreakerAssumption DEF Inv, HTypeOK, TypeOK, HistoryInv

LEMMA TripInvNext ==
    ASSUME Inv, TripInv, [HNext]_hvars
    PROVE  TripInv'
<1>1. CASE UNCHANGED hvars
  BY <1>1 DEF hvars, vars, historyVars, TripInv
<1>2. CASE HNext /\ Trips
  BY <1>2 DEF HNext, Remember, TripInv
<1>3. CASE HNext /\ ~Trips
  <2>1. sinceTrip' < RecoveryTimeout => sinceTrip < RecoveryTimeout
    BY <1>3, TimeSinceTrip, BreakerAssumption DEF HNext, Inv, HTypeOK
  <2>2. ASSUME sinceTrip' < RecoveryTimeout, NEW r \in Request, calls'[r] = "sent"
        PROVE  r \in atTrip'
    <3>1. ~(sinceTrip >= RecoveryTimeout)
      BY <2>1, <2>2, BreakerAssumption DEF Inv, HTypeOK
    <3>2. calls[r] = "sent"
      BY <1>3, <2>2, <3>1, NoFirstAttemptWhileYoung
    <3>3. QED
      BY <1>3, <2>1, <2>2, <3>2 DEF TripInv, HNext, Remember
  <2>3. QED
    BY <2>2 DEF TripInv
<1>4. QED
  BY <1>1, <1>2, <1>3

\* Until the recovery timeout has passed after a trip, the only attempts to reach the
\* ERP that begin are second ones of requests whose first was under way at the trip.
THEOREM IsolatesDuringCooldown == HSpec => NoCallDuringCooldown
<1>1. HInit => TripInv
  BY DEF HInit, Init, TripInv
<1>2. ASSUME Inv, TripInv, [HNext]_hvars
      PROVE  [\A r \in Request : Attempts(r) =>
                sinceTrip >= RecoveryTimeout \/ (Repeats(r) /\ r \in atTrip)]_hvars
  <2>1. SUFFICES ASSUME HNext, NEW r \in Request, Attempts(r)
                 PROVE  sinceTrip >= RecoveryTimeout \/ (Repeats(r) /\ r \in atTrip)
    BY <1>2
  <2>2. CASE Repeats(r)
    BY <1>2, <2>2, BreakerAssumption DEF Repeats, TripInv, Inv, HTypeOK
  <2>3. CASE ~Repeats(r)
    <3>1. calls[r] # "sent" /\ calls'[r] = "sent"
      BY <2>1, <2>3 DEF Attempts, InFlight
    <3>2. QED
      BY <1>2, <2>1, <3>1, NoFirstAttemptWhileYoung
  <2>4. QED
    BY <2>2, <2>3
<1>3. QED
  BY <1>1, <1>2, TripInvNext, Invariance, PTL DEF HSpec, NoCallDuringCooldown

-----------------------------------------------------------------------------
\* The breaker changes its state only in one of three ways.
LEMMA StateChanges ==
    ASSUME Inv, HNext, state' # state
    PROVE  \/ state = "OPEN" /\ state' = "HALF_OPEN"
           \/ /\ RecordFailure
              /\ \E r \in Request : calls[r] = "sent" /\ Moves(r, "bad_gateway")
           \/ /\ RecordSuccess
              /\ \E r \in Request, to \in Success : calls[r] \in InFlight /\ Moves(r, to)
<1>1. ~Tick /\ ~UpstreamChanges
  BY DEF Tick, UpstreamChanges, breakerVars
<1>2. PICK r \in Request : Arrive(r) \/ Respond(r) \/ FailToReach(r)
  BY <1>1 DEF HNext, Next, RetryOnFreshClient, RetryRaises, breakerVars
<1>3. CASE Arrive(r)
  BY <1>3 DEF Arrive, Pass, Refuse, EnterHalfOpen, breakerVars
<1>4. CASE Respond(r)
  BY <1>4 DEF Respond, Moves, Success
<1>5. CASE FailToReach(r)
  BY <1>5 DEF FailToReach, Moves
<1>6. QED
  BY <1>2, <1>3, <1>4, <1>5

\* CLOSED is left only for OPEN, on FailureThreshold failures with no success among them.
THEOREM TripsOnlyOnConsecutiveFailures == HSpec => TripsOnConsecutiveFailures
<1>1. ASSUME Inv, [HNext]_hvars
      PROVE  [state = "CLOSED" /\ state' # "CLOSED"
                => state' = "OPEN" /\ failRun' >= FailureThreshold]_hvars
  <2>1. SUFFICES ASSUME HNext, state = "CLOSED", state' # "CLOSED"
                 PROVE  state' = "OPEN" /\ failRun' >= FailureThreshold
    BY <1>1
  <2>2. ~RecordSuccess
    BY <2>1 DEF RecordSuccess, StateAfterSuccess
  <2>3. PICK r \in Request : /\ RecordFailure
                             /\ calls[r] = "sent" /\ Moves(r, "bad_gateway")
    BY <1>1, <2>1, <2>2, StateChanges
  <2>4. failRun' = Up(failRun)
    BY <1>1, <2>1, <2>3, RunsAfterFailure DEF HNext
  <2>5. state' = "OPEN" /\ failure_count + 1 >= FailureThreshold
    BY <2>1, <2>3 DEF RecordFailure, StateAfterFailure, TooManyFailures
  <2>6. QED
    BY <1>1, <2>1, <2>4, <2>5, BreakerAssumption
       DEF Inv, HTypeOK, TypeOK, HistoryInv, Up
<1>2. QED
  BY <1>1, Invariance, PTL DEF HSpec, TripsOnConsecutiveFailures

\* CLOSED is entered only from HALF_OPEN, on HalfOpenSuccessThreshold successes in a row.
THEOREM ClosesOnlyOnConsecutiveSuccesses == HSpec => ClosesOnConsecutiveSuccesses
<1>1. ASSUME Inv, [HNext]_hvars
      PROVE  [state # "CLOSED" /\ state' = "CLOSED"
                => state = "HALF_OPEN" /\ okRun' >= HalfOpenSuccessThreshold]_hvars
  <2>1. SUFFICES ASSUME HNext, state # "CLOSED", state' = "CLOSED"
                 PROVE  state = "HALF_OPEN" /\ okRun' >= HalfOpenSuccessThreshold
    BY <1>1
  <2>2. ~RecordFailure
    BY <2>1 DEF RecordFailure, StateAfterFailure
  <2>3. PICK r \in Request, to \in Success :
            RecordSuccess /\ calls[r] \in InFlight /\ Moves(r, to)
    BY <1>1, <2>1, <2>2, StateChanges
  <2>4. okRun' = Up(okRun)
    BY <1>1, <2>1, <2>3, RunsAfterSuccess DEF HNext
  <2>5. state = "HALF_OPEN" /\ success_count + 1 >= HalfOpenSuccessThreshold
    BY <2>1, <2>3 DEF RecordSuccess, StateAfterSuccess, EnoughSuccesses
  <2>6. QED
    BY <1>1, <2>4, <2>5, BreakerAssumption
       DEF Inv, HTypeOK, TypeOK, HistoryInv, Up
<1>2. QED
  BY <1>1, Invariance, PTL DEF HSpec, ClosesOnConsecutiveSuccesses

-----------------------------------------------------------------------------
\* Refinement: every step of the breaker is a step of AbstractBreaker or changes
\* nothing that it can see.

\* The callers that AbstractBreaker sees busy
Busy == {r \in Request : calls[r] \in InFlight}

LEMMA BusyAfterSent ==
    ASSUME Inv, NEW r \in Request, calls[r] \notin InFlight, Moves(r, "sent")
    PROVE  r \notin Busy /\ Busy' = Busy \cup {r}
BY DEF Busy, Moves, InFlight, Inv, HTypeOK, TypeOK

LEMMA BusyAfterEnd ==
    ASSUME Inv, NEW r \in Request, calls[r] \in InFlight, NEW to \in Ended, Moves(r, to)
    PROVE  r \in Busy /\ Busy' = Busy \ {r}
BY DEF Busy, Moves, InFlight, Ended, Inv, HTypeOK, TypeOK

LEMMA BusyUnchanged ==
    ASSUME Inv, NEW r \in Request, NEW to,
           (calls[r] \in InFlight) <=> (to \in InFlight), Moves(r, to)
    PROVE  Busy' = Busy
BY DEF Busy, Moves, Inv, HTypeOK, TypeOK

\* A success is good news for the abstract breaker, or ignored in OPEN.
LEMMA SuccessIsGood ==
    ASSUME Inv, RecordSuccess
    PROVE  \/ Abstract!Good
           \/ UNCHANGED <<state = "CLOSED",
                          IF state = "OPEN" THEN RecoveryTimeout - elapsed ELSE 0,
                          IF state = "CLOSED" THEN failure_count ELSE 0,
                          IF state = "HALF_OPEN" THEN success_count ELSE 0>>
<1>1. CASE state = "CLOSED"
  BY <1>1 DEF Abstract!Good, RecordSuccess, StateAfterSuccess, FailuresAfterSuccess
<1>2. CASE state = "HALF_OPEN" /\ EnoughSuccesses
  BY <1>2, BreakerAssumption
     DEF Abstract!Good, RecordSuccess, StateAfterSuccess, FailuresAfterSuccess,
         EnoughSuccesses, Inv, HTypeOK, TypeOK, CountsBelowThresholds
<1>3. CASE state = "HALF_OPEN" /\ ~EnoughSuccesses
  BY <1>3, BreakerAssumption
     DEF Abstract!Good, RecordSuccess, StateAfterSuccess, FailuresAfterSuccess,
         EnoughSuccesses, Inv, HTypeOK, TypeOK
<1>4. CASE state = "OPEN"
  BY <1>4 DEF RecordSuccess, StateAfterSuccess, ElapsedAfter
<1>5. QED
  BY <1>1, <1>2, <1>3, <1>4 DEF Inv, HTypeOK, TypeOK, BreakerState

\* A failure is bad news for the abstract breaker, or ignored in OPEN.
LEMMA FailureIsBad ==
    ASSUME Inv, RecordFailure
    PROVE  \/ Abstract!Bad
           \/ UNCHANGED <<state = "CLOSED",
                          IF state = "OPEN" THEN RecoveryTimeout - elapsed ELSE 0,
                          IF state = "CLOSED" THEN failure_count ELSE 0,
                          IF state = "HALF_OPEN" THEN success_count ELSE 0>>
<1>1. CASE state = "CLOSED" /\ TooManyFailures
  BY <1>1, BreakerAssumption
     DEF Abstract!Bad, Abstract!Suspect, RecordFailure, StateAfterFailure,
         TooManyFailures, ElapsedAfter, Inv, HTypeOK, TypeOK, CountsBelowThresholds
<1>2. CASE state = "CLOSED" /\ ~TooManyFailures
  BY <1>2, BreakerAssumption
     DEF Abstract!Bad, RecordFailure, StateAfterFailure, TooManyFailures,
         OneMoreFailure, Inv, HTypeOK, TypeOK
<1>3. CASE state = "HALF_OPEN"
  BY <1>3, BreakerAssumption
     DEF Abstract!Bad, Abstract!Suspect, RecordFailure, StateAfterFailure,
         ElapsedAfter, Inv, HTypeOK, TypeOK
<1>4. CASE state = "OPEN"
  BY <1>4 DEF RecordFailure, StateAfterFailure, ElapsedAfter
<1>5. QED
  BY <1>1, <1>2, <1>3, <1>4 DEF Inv, HTypeOK, TypeOK, BreakerState

LEMMA StepImplements ==
    ASSUME Inv, [HNext]_hvars
    PROVE  [Abstract!Next]_(Abstract!avars)
<1>1. CASE UNCHANGED hvars
  BY <1>1 DEF hvars, vars, Abstract!avars
<1>2. ASSUME NEW r \in Request, Arrive(r) PROVE [Abstract!Next]_(Abstract!avars)
  <2>1. CASE (Pass \/ EnterHalfOpen) /\ Moves(r, "sent")
    <3>1. r \notin Busy /\ Busy' = Busy \cup {r}
      BY <1>2, <2>1, BusyAfterSent DEF Arrive
    <3>2. Abstract!Begin(r)
      BY <2>1, <3>1, BreakerAssumption
         DEF Abstract!Begin, Busy, Pass, EnterHalfOpen, CooledDown, breakerVars,
             Inv, HTypeOK, TypeOK
    <3>3. QED
      BY <3>2 DEF Abstract!Next
  <2>2. CASE Refuse /\ Moves(r, "refused")
    <3>1. Busy' = Busy
      BY <1>2, <2>2, BusyUnchanged DEF Arrive, InFlight
    <3>2. QED
      BY <2>2, <3>1 DEF Refuse, breakerVars, Abstract!avars, Busy
  <2>3. QED
    BY <1>2, <2>1, <2>2 DEF Arrive, Moves
<1>3. ASSUME NEW r \in Request, Respond(r) PROVE [Abstract!Next]_(Abstract!avars)
  <2>1. r \in Busy /\ Busy' = Busy \ {r}
    BY <1>3, BusyAfterEnd DEF Respond, Moves, Ended
  <2>2. Abstract!End(r)
    BY <1>3, <2>1, SuccessIsGood DEF Respond, Abstract!End, Busy
  <2>3. QED
    BY <2>2 DEF Abstract!Next
<1>4. ASSUME NEW r \in Request, FailToReach(r) PROVE [Abstract!Next]_(Abstract!avars)
  <2>1. r \in Busy /\ Busy' = Busy \ {r}
    BY <1>4, BusyAfterEnd DEF FailToReach, Moves, Ended, InFlight
  <2>2. Abstract!End(r)
    BY <1>4, <2>1, FailureIsBad DEF FailToReach, Abstract!End, Busy
  <2>3. QED
    BY <2>2 DEF Abstract!Next
<1>5. ASSUME NEW r \in Request, RetryOnFreshClient(r)
      PROVE  [Abstract!Next]_(Abstract!avars)
  <2>1. Busy' = Busy
    BY <1>5, BusyUnchanged DEF RetryOnFreshClient, Moves, InFlight
  <2>2. QED
    BY <1>5, <2>1 DEF RetryOnFreshClient, breakerVars, Abstract!avars, Busy
<1>6. ASSUME NEW r \in Request, RetryRaises(r) PROVE [Abstract!Next]_(Abstract!avars)
  <2>1. r \in Busy /\ Busy' = Busy \ {r}
    BY <1>6, BusyAfterEnd DEF RetryRaises, Moves, Ended, InFlight
  <2>2. Abstract!End(r)
    BY <1>6, <2>1 DEF RetryRaises, breakerVars, Abstract!End, Busy
  <2>3. QED
    BY <2>2 DEF Abstract!Next
<1>7. CASE Tick
  <2>1. CASE state = "OPEN"
    <3>1. Abstract!Wait
      BY <1>7, <2>1, BreakerAssumption DEF Tick, Abstract!Wait, Inv, HTypeOK, TypeOK
    <3>2. QED
      BY <3>1 DEF Abstract!Next
  <2>2. CASE state # "OPEN"
    BY <1>7, <2>2 DEF Tick, Abstract!avars
  <2>3. QED
    BY <2>1, <2>2
<1>8. CASE UpstreamChanges
  BY <1>8 DEF UpstreamChanges, breakerVars, Abstract!avars
<1>9. QED
  BY <1>1, <1>2, <1>3, <1>4, <1>5, <1>6, <1>7, <1>8 DEF HNext, Next

\* ha_dr.py and the middleware around it implement the abstract circuit breaker.
THEOREM Refinement == HSpec => ImplementsAbstractBreaker
<1>1. HInit => Abstract!Init
  BY DEF HInit, Init, Abstract!Init, InFlight
<1>2. Inv /\ [HNext]_hvars => [Abstract!Next]_(Abstract!avars)
  BY StepImplements
<1>3. QED
  BY <1>1, <1>2, Invariance, PTL DEF HSpec, ImplementsAbstractBreaker, Abstract!Spec

-----------------------------------------------------------------------------
(* The canary: the metrics.  A window is never longer than the count of     *)
(* answers; as long as all answers were tame no metric is over a limit.     *)

LEMMA MinOfTwo ==
    ASSUME NEW a \in Int, NEW b \in Int
    PROVE  Min({a, b}) = IF a <= b THEN a ELSE b
BY DEF Min

LEMMA MaxOfTwo ==
    ASSUME NEW a \in Int, NEW b \in Int
    PROVE  Max({a, b}) = IF a >= b THEN a ELSE b
BY DEF Max

LEMMA WindowIsSeq ==
    \A s : s \in SeqOf(Latency, WindowSize) <=> s \in Seq(Latency) /\ Len(s) <= WindowSize
<1>1. ASSUME NEW s \in SeqOf(Latency, WindowSize)
      PROVE  s \in Seq(Latency) /\ Len(s) <= WindowSize
  <2>1. PICK m \in 0..WindowSize : s \in [1..m -> Latency]
    BY DEF SeqOf
  <2>2. s \in Seq(Latency) /\ Len(s) = m
    BY <2>1, CanaryAssumption
  <2> QED
    BY <2>2, CanaryAssumption
<1>2. ASSUME NEW s \in Seq(Latency), Len(s) <= WindowSize
      PROVE  s \in SeqOf(Latency, WindowSize)
  <2>1. Len(s) \in 0..WindowSize /\ s \in [1..Len(s) -> Latency]
    BY <1>2, LenProperties, CanaryAssumption
  <2> QED
    BY <2>1 DEF SeqOf
<1> QED
  BY <1>1, <1>2

\* The windows and counts a TrafficMetrics may hold, without the bound of the counts.
Counted(m) ==
    /\ m.latencies \in Seq(Latency) /\ Len(m.latencies) <= WindowSize
    /\ m.total \in Nat /\ m.errors \in Nat /\ m.errors <= m.total
    /\ Samples(m) <= m.total

\* No answer the metrics know of was over a limit.
NeverOver(m) ==
    /\ m.errors = 0
    /\ \A i \in DOMAIN m.latencies, limit \in {Global} \cup Range(Budget) :
         m.latencies[i] <= limit.p95

LEMMA NoAnswersCounted == Counted(NoAnswers) /\ NeverOver(NoAnswers) /\ NoAnswers \in TrafficMetrics
<1>1. /\ NoAnswers.latencies = <<>> /\ NoAnswers.total = 0 /\ NoAnswers.errors = 0
      /\ NoAnswers = [latencies |-> <<>>, total |-> 0, errors |-> 0]
  BY DEF NoAnswers
<1>2. <<>> \in Seq(Latency) /\ Len(<<>>) = 0
  BY EmptySeq
<1>3. <<>> \in SeqOf(Latency, WindowSize)
  <2>1. \A s \in Seq(Latency) : Len(s) <= WindowSize => s \in SeqOf(Latency, WindowSize)
    BY WindowIsSeq
  <2>2. 0 <= WindowSize
    BY CanaryAssumption
  <2> QED
    BY <1>2, <2>1, <2>2
<1>4. NoAnswers \in TrafficMetrics
  BY <1>1, <1>3, CanaryAssumption DEF TrafficMetrics
<1> QED
  BY <1>1, <1>2, <1>4, CanaryAssumption DEF Counted, NeverOver, Samples

\* The window slides: what it shows is older or the newest answer.
LEMMA RecordedWindow ==
    ASSUME NEW m, Counted(m), NEW latency \in Latency, NEW isError \in BOOLEAN
    PROVE  LET w == Recorded(m, latency, isError).latencies
           IN  /\ w \in Seq(Latency) /\ Len(w) <= WindowSize /\ Len(w) <= Len(m.latencies) + 1
               /\ \A i \in DOMAIN w : \/ w[i] = latency
                                      \/ \E j \in DOMAIN m.latencies : w[i] = m.latencies[j]
<1> DEFINE old == m.latencies
           longer == Append(old, latency)
           w == Recorded(m, latency, isError).latencies
<1>1. /\ old \in Seq(Latency) /\ Len(old) <= WindowSize /\ Len(old) \in Nat
      /\ DOMAIN old = 1..Len(old)
  BY LenProperties DEF Counted
<1>2. /\ longer \in Seq(Latency) /\ longer # <<>> /\ Len(longer) = Len(old) + 1
      /\ DOMAIN longer = 1..(Len(old) + 1)
      /\ \A i \in 1..Len(old) : longer[i] = old[i]
      /\ longer[Len(old) + 1] = latency
  BY <1>1, AppendProperties, LenProperties
<1>3. w = IF Len(longer) > WindowSize THEN Tail(longer) ELSE longer
  BY DEF Recorded
<1> HIDE DEF old, longer, w
<1>4. \A i \in DOMAIN longer : longer[i] = latency \/ \E j \in DOMAIN old : longer[i] = old[j]
  BY <1>1, <1>2
<1>5. /\ Tail(longer) \in Seq(Latency) /\ Len(Tail(longer)) = Len(old)
      /\ DOMAIN Tail(longer) = 1..Len(old)
      /\ \A i \in 1..Len(old) : Tail(longer)[i] = longer[i + 1]
  BY <1>1, <1>2, HeadTailProperties, LenProperties
<1>6. CASE Len(longer) > WindowSize
  <2>1. w = Tail(longer)
    BY <1>3, <1>6
  <2>2. \A i \in DOMAIN w : i + 1 \in DOMAIN longer /\ w[i] = longer[i + 1]
    BY <1>1, <1>2, <1>5, <2>1
  <2>3. w \in Seq(Latency) /\ Len(w) <= WindowSize /\ Len(w) <= Len(old) + 1
    BY <1>1, <1>5, <2>1
  <2> QED
    BY <1>4, <2>2, <2>3 DEF old, w
<1>7. CASE ~(Len(longer) > WindowSize)
  <2>1. w = longer
    BY <1>3, <1>7
  <2>2. Len(w) <= WindowSize
    BY <1>1, <1>2, <1>7, <2>1, CanaryAssumption
  <2> QED
    BY <1>1, <1>2, <1>4, <2>1, <2>2 DEF old, w
<1> QED
  BY <1>6, <1>7

\* Recording counts the answer, and a tame one does no harm.
LEMMA RecordedCounts ==
    ASSUME NEW m, Counted(m), NEW latency \in Latency, NEW isError \in BOOLEAN
    PROVE  LET n == Recorded(m, latency, isError)
           IN  /\ Counted(n) /\ n.total = m.total + 1
               /\ n.total <= MaxTotal => n \in TrafficMetrics
               /\ /\ NeverOver(m)
                  /\ \A limit \in {Global} \cup Range(Budget) : Within(latency, isError, limit)
                  => NeverOver(n)
<1> DEFINE n == Recorded(m, latency, isError)
<1>1. /\ n.latencies \in Seq(Latency) /\ Len(n.latencies) <= WindowSize
      /\ Len(n.latencies) <= Len(m.latencies) + 1
      /\ \A i \in DOMAIN n.latencies :
           \/ n.latencies[i] = latency
           \/ \E j \in DOMAIN m.latencies : n.latencies[i] = m.latencies[j]
  BY RecordedWindow
<1>2. /\ n.total = m.total + 1
      /\ n.errors = IF isError THEN m.errors + 1 ELSE m.errors
      /\ n = [latencies |-> n.latencies, total |-> n.total, errors |-> n.errors]
  BY DEF Recorded
<1> HIDE DEF n
<1>3. Len(n.latencies) \in Nat /\ Len(m.latencies) \in Nat
  BY <1>1, LenProperties DEF Counted
<1>4. Counted(n)
  BY <1>1, <1>2, <1>3 DEF Counted, Samples
<1>5. n.total <= MaxTotal => n \in TrafficMetrics
  <2>1. n.latencies \in SeqOf(Latency, WindowSize)
    BY <1>1, WindowIsSeq
  <2>2. n.total <= MaxTotal => n.total \in 0..MaxTotal /\ n.errors \in 0..MaxTotal
    BY <1>4, CanaryAssumption DEF Counted
  <2> QED
    BY <1>2, <2>1, <2>2 DEF TrafficMetrics
<1>6. ASSUME NeverOver(m),
             \A limit \in {Global} \cup Range(Budget) : Within(latency, isError, limit)
      PROVE  NeverOver(n)
  <2>1. ~isError
    BY <1>6 DEF Within
  <2>2. n.errors = 0
    BY <1>2, <1>6, <2>1 DEF NeverOver
  <2>3. ASSUME NEW i \in DOMAIN n.latencies, NEW limit \in {Global} \cup Range(Budget)
        PROVE  n.latencies[i] <= limit.p95
    <3>1. CASE n.latencies[i] = latency
      BY <1>6, <3>1 DEF Within
    <3>2. CASE \E j \in DOMAIN m.latencies : n.latencies[i] = m.latencies[j]
      BY <1>6, <3>2 DEF NeverOver
    <3> QED
      BY <1>1, <3>1, <3>2
  <2> QED
    BY <2>2, <2>3 DEF NeverOver
<1> QED
  BY <1>2, <1>4, <1>5, <1>6 DEF n

LEMMA LimitTypes ==
    /\ \A limit \in Limits : limit.p95 \in Latency /\ limit.errors \in 0..100
    /\ Global \in Limits /\ \A r \in Route : Budget[r] \in Limits /\ Budget[r] \in Range(Budget)
    /\ \A l \in Latency : l \in Nat
BY CanaryAssumption DEF Limits, Range

\* Any set of latencies has a least one.
LEMMA LeastLatency ==
    ASSUME NEW T \in SUBSET Latency, T # {}
    PROVE  Min(T) \in T /\ \A l \in T : Min(T) <= l
<1> DEFINE less == OpToRel(<, Nat)
<1>1. \A x, y \in Nat : y < x => <<y, x>> \in less
  BY DEF OpToRel
<1>2. IsWellFoundedOn(less, Nat)
  BY NatLessThanWellFounded
<1> HIDE DEF less
<1>3. T \subseteq Nat
  BY CanaryAssumption
<1>4. PICK x \in T : \A y \in T : ~ (<<y, x>> \in less)
  BY <1>2, <1>3, WFMin
<1>5. \A y \in T : ~(y < x)
  BY <1>1, <1>3, <1>4
<1>6. \A y \in T : x <= y
  BY <1>3, <1>5
<1> QED
  BY <1>3, <1>6 DEF Min

\* The 95th percentile of latencies within a limit is within it.
LEMMA P95Within ==
    ASSUME NEW m, Counted(m), Samples(m) >= 1, NEW l \in Latency,
           \A i \in DOMAIN m.latencies : m.latencies[i] <= l
    PROVE  P95(m) \in Nat /\ P95(m) <= l
<1> DEFINE n == Samples(m)
           rank == (95 * (n - 1)) \div 100
           AtMost(k) == {i \in DOMAIN m.latencies : m.latencies[i] <= k}
           T == {k \in Latency : Cardinality(AtMost(k)) > rank}
<1>1. n \in Nat /\ n >= 1 /\ DOMAIN m.latencies = 1..n
  BY LenProperties DEF Counted, Samples
<1>2. AtMost(l) = 1..n
  BY <1>1
<1>3. Cardinality(AtMost(l)) = n
  <2>1. \A k \in Nat : k >= 1 => Cardinality(1..k) = k
    BY FS_Interval
  <2> QED
    BY <1>1, <1>2, <2>1
<1>4. rank < n
  <2> HIDE DEF n
  <2> QED
    BY <1>1
<1>5. l \in T
  BY <1>3, <1>4, <1>1
<1>6. P95(m) = Min(T)
  BY DEF P95
<1> HIDE DEF T
<1>7. T \subseteq Latency
  BY DEF T
<1>8. Min(T) \in T /\ Min(T) <= l
  BY <1>5, <1>7, LeastLatency
<1> QED
  BY <1>6, <1>7, <1>8, LimitTypes

LEMMA EffectiveIsLoosest ==
    ASSUME NEW r \in Route
    PROVE  /\ Effective(r).p95 \in Latency /\ Effective(r).errors \in 0..100
           /\ Effective(r).p95 >= Global.p95
<1>1. /\ Global.p95 \in Int /\ Budget[r].p95 \in Int
      /\ Global.errors \in Int /\ Budget[r].errors \in Int
  BY LimitTypes
<1>2. /\ Effective(r).p95 =
           (IF Global.p95 >= Budget[r].p95 THEN Global.p95 ELSE Budget[r].p95)
      /\ Effective(r).errors =
           (IF Global.errors >= Budget[r].errors THEN Global.errors ELSE Budget[r].errors)
  BY <1>1, MaxOfTwo DEF Effective
<1> QED
  BY <1>1, <1>2, LimitTypes

\* Metrics that were never over any limit breach none.
LEMMA TameNeverBreaches ==
    ASSUME NEW m, Counted(m), NeverOver(m), NEW r \in Route
    PROVE  ~Breaches(m, Budget[r]) /\ ~Breaches(m, Effective(r))
<1>1. ASSUME NEW limit, limit.p95 \in Latency, limit.errors \in 0..100,
             \/ limit.p95 >= Global.p95
             \/ limit \in Range(Budget)
      PROVE  ~Breaches(m, limit)
  <2> SUFFICES ASSUME Samples(m) >= MinSamples
               PROVE  ~ErrorsOver(m, limit.errors) /\ ~(P95(m) > limit.p95)
    BY DEF Breaches
  <2>1. Samples(m) >= 1
    BY CanaryAssumption, LenProperties DEF Counted, Samples
  <2>2. ~ErrorsOver(m, limit.errors)
    <3>1. \A e \in 0..100, n \in Nat : ~(100 * 0 > e * n)
      OBVIOUS
    <3>2. m.errors = 0 /\ m.total \in Nat
      BY DEF NeverOver, Counted
    <3>3. ~(100 * m.errors > limit.errors * m.total)
      BY <1>1, <3>1, <3>2
    <3> QED
      BY <3>3 DEF ErrorsOver
  <2>3. DOMAIN m.latencies = 1..Samples(m) /\ \A i \in DOMAIN m.latencies : m.latencies[i] \in Nat
    BY LenProperties, ElementOfSeq, LimitTypes DEF Counted, Samples
  <2>4. \A i \in DOMAIN m.latencies : m.latencies[i] <= limit.p95
    BY <1>1, <2>3, LimitTypes DEF NeverOver
  <2>5. P95(m) \in Nat /\ P95(m) <= limit.p95
    BY <1>1, <2>1, <2>4, P95Within
  <2> QED
    BY <1>1, <2>2, <2>5, LimitTypes
<1> QED
  BY <1>1, LimitTypes, EffectiveIsLoosest

-----------------------------------------------------------------------------
(* The canary: the inductive invariant.  What a route has answered is part  *)
(* of what the canary has; the history counts and judges the same answers.  *)

MetricsAgree ==
    /\ Counted(canary_metrics)
    /\ \A r \in Route : /\ Counted(canary_route_metrics[r])
                        /\ canary_route_metrics[r].total <= canary_metrics.total
    /\ canary_metrics.total <= answers \/ answers = MinSamples
    /\ tame => /\ NeverOver(canary_metrics)
               /\ \A r \in Route : NeverOver(canary_route_metrics[r])

OffIsNoWeight == stage \in Off <=> weight = 0

CanaryInv == CanaryTypeOK /\ MetricsAgree /\ OffIsNoWeight /\ UnhealthyIsOff

LEMMA Stages ==
    /\ CanaryStage = {"DISABLED", "CANARY_1", "CANARY_10", "CANARY_50", "FULL_ROLLOUT",
                      "ROLLED_BACK"}
    /\ \A s \in CanaryStage : /\ STAGE_WEIGHT_MAP[s] \in 0..100
                              /\ s \in Off <=> STAGE_WEIGHT_MAP[s] = 0
BY DEF CanaryStage, STAGE_WEIGHT_MAP, Off

LEMMA StageOfWeight ==
    ASSUME NEW w \in 0..100
    PROVE  StageOf(w) \in CanaryStage /\ (StageOf(w) \in Off <=> w = 0)
<1>1. StageOf(w) = CASE w = 0 -> "DISABLED"
                     [] w \in 1..1 -> "CANARY_1"
                     [] w \in 2..10 -> "CANARY_10"
                     [] w \in 11..50 -> "CANARY_50"
                     [] OTHER -> "FULL_ROLLOUT"
  BY DEF StageOf
<1> QED
  BY <1>1, Stages DEF Off

\* Metrics without answers are within every limit.
LEMMA NoAnswersHealthy ==
    ASSUME NEW limit
    PROVE  ~Breaches(NoAnswers, limit)
BY EmptySeq, CanaryAssumption DEF Breaches, NoAnswers, Samples

LEMMA CanaryInitially == CanaryInit => CanaryInv
<1> SUFFICES ASSUME CanaryInit PROVE CanaryInv
  OBVIOUS
<1>1. CanaryTypeOK
  <2>1. stage \in CanaryStage /\ weight \in 0..100
    BY Stages DEF CanaryInit
  <2>2. canary_metrics \in TrafficMetrics /\ canary_route_metrics \in [Route -> TrafficMetrics]
    BY NoAnswersCounted DEF CanaryInit
  <2>3. /\ flights \in [Route -> 0..MaxFlight] /\ answers \in 0..MinSamples
        /\ tame \in BOOLEAN /\ reopened \in BOOLEAN
    <3>1. 0 \in 0..MaxFlight /\ 0 \in 0..MinSamples
      BY CanaryAssumption
    <3> QED
      BY <3>1 DEF CanaryInit
  <2> QED
    BY <2>1, <2>2, <2>3 DEF CanaryTypeOK
<1>2. MetricsAgree
  BY NoAnswersCounted, CanaryAssumption DEF CanaryInit, MetricsAgree, NoAnswers
<1>3. OffIsNoWeight /\ UnhealthyIsOff
  BY DEF CanaryInit, OffIsNoWeight, UnhealthyIsOff, Off
<1> QED
  BY <1>1, <1>2, <1>3 DEF CanaryInv

\* What an answer does to the metrics and to the history of them.
LEMMA AnswerAgrees ==
    ASSUME CanaryInv, NEW r \in Route, NEW latency \in Latency, NEW isError \in BOOLEAN,
           Answer(r, latency, isError)
    PROVE  /\ MetricsAgree'
           /\ canary_metrics' \in TrafficMetrics
           /\ canary_route_metrics' \in [Route -> TrafficMetrics]
           /\ answers' \in 0..MinSamples /\ tame' \in BOOLEAN
<1> DEFINE m == Recorded(canary_metrics, latency, isError)
           ofRoute == Recorded(canary_route_metrics[r], latency, isError)
           inLimits == \A limit \in {Global} \cup Range(Budget) :
                         Within(latency, isError, limit)
<1>1. /\ canary_metrics' = m
      /\ canary_route_metrics' \in [Route -> {canary_route_metrics[q] : q \in Route} \cup {ofRoute}]
      /\ canary_route_metrics'[r] = ofRoute
      /\ \A q \in Route \ {r} : canary_route_metrics'[q] = canary_route_metrics[q]
  BY DEF Answer, CanaryInv, CanaryTypeOK
<1>2. /\ Counted(canary_metrics)
      /\ \A q \in Route : /\ Counted(canary_route_metrics[q])
                          /\ canary_route_metrics[q] \in TrafficMetrics
                          /\ canary_route_metrics[q].total <= canary_metrics.total
      /\ canary_metrics.total < MaxTotal /\ canary_metrics.total \in Nat
  BY DEF CanaryInv, MetricsAgree, Counted, CanaryTypeOK, Answer
<1>3. /\ Counted(m) /\ m.total = canary_metrics.total + 1
      /\ m.total <= MaxTotal => m \in TrafficMetrics
      /\ NeverOver(canary_metrics) /\ inLimits => NeverOver(m)
  BY <1>2, RecordedCounts
<1>4. /\ Counted(ofRoute) /\ ofRoute.total = canary_route_metrics[r].total + 1
      /\ ofRoute.total <= MaxTotal => ofRoute \in TrafficMetrics
      /\ NeverOver(canary_route_metrics[r]) /\ inLimits => NeverOver(ofRoute)
  BY <1>2, RecordedCounts
<1>5. tame' = (tame /\ inLimits)
  BY DEF Answer
<1>6. answers \in 0..MinSamples /\ answers' = Min({answers + 1, MinSamples})
  BY DEF Answer, CanaryInv, CanaryTypeOK
<1> HIDE DEF m, ofRoute, inLimits
<1>7. answers' = IF answers + 1 <= MinSamples THEN answers + 1 ELSE MinSamples
  BY <1>6, MinOfTwo, CanaryAssumption
<1>8. /\ canary_route_metrics[r].total \in Nat
      /\ ofRoute.total <= m.total /\ m.total <= MaxTotal /\ ofRoute.total <= MaxTotal
      /\ \A q \in Route : canary_route_metrics[q].total <= m.total
  <2>1. \A q \in Route : /\ canary_route_metrics[q].total \in Nat
                         /\ canary_route_metrics[q].total <= canary_metrics.total
    BY <1>2 DEF Counted
  <2>2. m.total = canary_metrics.total + 1 /\ canary_metrics.total \in Nat
        /\ m.total <= MaxTotal
    BY <1>2, <1>3, CanaryAssumption
  <2>3. ofRoute.total = canary_route_metrics[r].total + 1
    BY <1>4
  <2> HIDE DEF ofRoute, m
  <2>4. ofRoute.total <= m.total /\ ofRoute.total <= MaxTotal
    BY <2>1, <2>2, <2>3, CanaryAssumption
  <2>5. \A q \in Route : canary_route_metrics[q].total <= m.total
    BY <2>1, <2>2
  <2> QED
    BY <2>1, <2>2, <2>4, <2>5
<1>9. canary_metrics' \in TrafficMetrics /\ canary_route_metrics' \in [Route -> TrafficMetrics]
  BY <1>1, <1>2, <1>3, <1>4, <1>8
<1>10. \A q \in Route : /\ Counted(canary_route_metrics'[q])
                        /\ canary_route_metrics'[q].total <= canary_metrics'.total
  <2> TAKE q \in Route
  <2>1. CASE q = r
    BY <1>1, <1>4, <1>8, <2>1
  <2>2. CASE q # r
    BY <1>1, <1>2, <1>8, <2>2
  <2> QED
    BY <2>1, <2>2
<1>11. canary_metrics'.total <= answers' \/ answers' = MinSamples
  BY <1>1, <1>2, <1>3, <1>6, <1>7, CanaryAssumption DEF CanaryInv, MetricsAgree
<1>12. tame' => /\ NeverOver(canary_metrics')
                /\ \A q \in Route : NeverOver(canary_route_metrics'[q])
  <2> SUFFICES ASSUME tame, inLimits
               PROVE  /\ NeverOver(m)
                      /\ \A q \in Route : NeverOver(canary_route_metrics'[q])
    BY <1>1, <1>5
  <2>1. NeverOver(m) /\ NeverOver(ofRoute)
    BY <1>3, <1>4 DEF CanaryInv, MetricsAgree
  <2> QED
    BY <1>1, <2>1 DEF CanaryInv, MetricsAgree
<1>13. answers' \in 0..MinSamples /\ tame' \in BOOLEAN
  BY <1>5, <1>6, <1>7, CanaryAssumption DEF inLimits, CanaryInv, CanaryTypeOK
<1>14. Counted(canary_metrics')
  BY <1>1, <1>3
<1>15. MetricsAgree'
  BY <1>10, <1>11, <1>12, <1>14 DEF MetricsAgree, Counted, NeverOver, Samples
<1> QED
  BY <1>9, <1>13, <1>15

\* After an answer the canary is within its limits or out of service, and it was taken
\* out only for enough answers one of which was over a limit.
LEMMA AnswerDecides ==
    ASSUME CanaryInv, NEW r \in Route, NEW latency \in Latency, NEW isError \in BOOLEAN,
           Answer(r, latency, isError)
    PROVE  /\ stage' \in CanaryStage /\ weight' \in 0..100
           /\ OffIsNoWeight' /\ UnhealthyIsOff'
           /\ weight > 0 /\ weight' = 0 => answers' = MinSamples /\ ~tame'
<1> DEFINE must == MustRollBack(canary_metrics', canary_route_metrics'[r], r)
<1>1. MetricsAgree'
  BY AnswerAgrees
<1>2. IF must THEN Rollback ELSE UNCHANGED <<stage, weight>>
  BY DEF Answer
<1>3. /\ stage \in CanaryStage /\ weight \in 0..100 /\ OffIsNoWeight
      /\ canary_route_metrics \in [Route -> TrafficMetrics]
  BY DEF CanaryInv, CanaryTypeOK
<1>4. must <=> \/ Breaches(canary_route_metrics'[r], Budget[r])
               \/ Breaches(canary_metrics', Effective(r))
  BY DEF MustRollBack
<1>5. reopened' = reopened /\ \A q \in Route \ {r} : canary_route_metrics'[q] = canary_route_metrics[q]
  BY <1>3 DEF Answer
<1> HIDE DEF must
<1>6. stage' \in CanaryStage /\ weight' \in 0..100 /\ OffIsNoWeight'
  BY <1>2, <1>3, Stages DEF Rollback, OffIsNoWeight, Off
<1>7. UnhealthyIsOff'
  <2>1. CASE must
    BY <1>2, <2>1 DEF Rollback, UnhealthyIsOff
  <2>2. CASE ~must
    <3>1. SUFFICES ASSUME Unhealthy' PROVE Unhealthy
      BY <1>2, <1>5, <2>2 DEF UnhealthyIsOff, CanaryInv
    <3>2. PICK q \in Route : \/ Breaches(canary_route_metrics'[q], Budget[q])
                             \/ \A other \in Route : Breaches(canary_metrics', Effective(other))
      BY <3>1 DEF Unhealthy, Breaches, Effective, Samples, P95, ErrorsOver
    <3>3. q # r /\ Breaches(canary_route_metrics'[q], Budget[q])
      BY <1>4, <2>2, <3>2
    <3> QED
      BY <1>5, <3>3 DEF Unhealthy
  <2> QED
    BY <2>1, <2>2
<1>8. ASSUME weight > 0, weight' = 0 PROVE answers' = MinSamples /\ ~tame'
  <2>1. must
    BY <1>2, <1>3, <1>8
  <2>2. PICK m \in {canary_metrics', canary_route_metrics'[r]}, limit \in {Budget[r], Effective(r)} :
             Breaches(m, limit)
    BY <1>4, <2>1
  <2>3. /\ Counted(m) /\ m.total <= canary_metrics'.total
        /\ canary_metrics'.total <= answers' \/ answers' = MinSamples
        /\ tame' => NeverOver(m)
    BY <1>1, <2>2 DEF MetricsAgree, Counted, NeverOver, Samples
  <2>4. ~tame'
    BY <2>2, <2>3, TameNeverBreaches
  <2>5. Samples(m) >= MinSamples
    BY <2>2 DEF Breaches
  <2>6. answers' = MinSamples
    <3>1. /\ Samples(m) \in Nat /\ Samples(m) <= m.total /\ m.total \in Nat
          /\ canary_metrics'.total \in Nat
      BY <1>1, <2>3, LenProperties DEF Counted, Samples, MetricsAgree
    <3>2. answers' \in 0..MinSamples /\ MinSamples \in Nat
      BY AnswerAgrees, CanaryAssumption
    <3> QED
      BY <2>3, <2>5, <3>1, <3>2
  <2> QED
    BY <2>4, <2>6
<1> QED
  BY <1>6, <1>7, <1>8

\* What the monitor finds depends on the metrics alone.
LEMMA SameMetricsSameHealth ==
    ASSUME UNCHANGED <<canary_metrics, canary_route_metrics>>
    PROVE  Unhealthy' <=> Unhealthy
<1>1. ASSUME NEW m, NEW limit PROVE Breaches(m, limit)' <=> Breaches(m', limit')
  BY DEF Breaches, Samples, P95, ErrorsOver
<1>2. Unhealthy' <=> \E r \in Route :
                       \/ Breaches(canary_route_metrics'[r], Budget[r])
                       \/ \A other \in Route : Breaches(canary_metrics', Effective(other))
  BY DEF Unhealthy, Breaches, Effective, Samples, P95, ErrorsOver
<1> QED
  BY <1>2 DEF Unhealthy

\* Steps that leave the metrics and their history alone leave them agreeing.
LEMMA SameMetricsAgree ==
    ASSUME MetricsAgree,
           UNCHANGED <<canary_metrics, canary_route_metrics, answers, tame>>
    PROVE  MetricsAgree'
BY DEF MetricsAgree, Counted, NeverOver, Samples

LEMMA AnswerStep ==
    ASSUME CanaryInv, NEW r \in Route, NEW latency \in Latency, NEW isError \in BOOLEAN,
           Answer(r, latency, isError)
    PROVE  CanaryInv'
<1>1. flights' \in [Route -> 0..MaxFlight] /\ reopened' \in BOOLEAN
  BY CanaryAssumption DEF Answer, CanaryInv, CanaryTypeOK
<1> QED
  BY <1>1, AnswerAgrees, AnswerDecides DEF CanaryInv, CanaryTypeOK

\* Beginning a call and ending one without a record leave router and history alone.
LEMMA CallStep ==
    ASSUME CanaryInv, NEW r \in Route,
           EndsUnrecorded(r)
           \/ \E c \in Client, override \in {"none", "canary", "stable"} : Send(c, override, r)
    PROVE  CanaryInv'
<1>1. UNCHANGED <<routerVars, history>> /\ flights' \in [Route -> 0..MaxFlight]
  BY CanaryAssumption DEF EndsUnrecorded, Send, CanaryInv, CanaryTypeOK
<1>2. UNCHANGED <<stage, weight, canary_metrics, canary_route_metrics, answers, tame, reopened>>
  BY <1>1 DEF routerVars, history
<1>3. CanaryTypeOK' /\ OffIsNoWeight'
  BY <1>1, <1>2 DEF CanaryInv, CanaryTypeOK, OffIsNoWeight
<1>4. MetricsAgree' /\ (Unhealthy' <=> Unhealthy)
  BY <1>2, SameMetricsAgree, SameMetricsSameHealth DEF CanaryInv
<1> QED
  BY <1>2, <1>3, <1>4 DEF CanaryInv, UnhealthyIsOff

LEMMA PromoteStep ==
    ASSUME CanaryInv, NEW s \in CanaryStage, Promote(s)
    PROVE  CanaryInv'
<1>1. /\ canary_metrics' = NoAnswers /\ canary_route_metrics' = [r \in Route |-> NoAnswers]
      /\ answers' = 0 /\ tame' = TRUE /\ reopened' = FALSE /\ flights' = flights
      /\ stage' = s /\ weight' = STAGE_WEIGHT_MAP[s]
  BY DEF Promote, Reset
<1>2. CanaryTypeOK'
  <2>1. 0 \in 0..MinSamples
    BY CanaryAssumption
  <2>2. canary_metrics' \in TrafficMetrics /\ canary_route_metrics' \in [Route -> TrafficMetrics]
    BY <1>1, NoAnswersCounted
  <2>3. stage' \in CanaryStage /\ weight' \in 0..100
    BY <1>1, Stages
  <2> QED
    BY <1>1, <2>1, <2>2, <2>3 DEF CanaryInv, CanaryTypeOK
<1>3. MetricsAgree'
  <2>1. \A r \in Route : canary_route_metrics'[r] = NoAnswers
    BY <1>1
  <2>2. NoAnswers.total = 0
    BY DEF NoAnswers
  <2> QED
    BY <1>1, <2>1, <2>2, NoAnswersCounted DEF MetricsAgree, Counted, NeverOver, Samples
<1>4. OffIsNoWeight'
  BY <1>1, Stages DEF OffIsNoWeight
<1>5. UnhealthyIsOff'
  <2>1. \A limit : ~Breaches(canary_metrics', limit)
    BY <1>1, NoAnswersHealthy
  <2>2. \A r \in Route : \A limit : ~Breaches(canary_route_metrics'[r], limit)
    BY <1>1, NoAnswersHealthy
  <2> QED
    BY <2>1, <2>2 DEF UnhealthyIsOff, Unhealthy, Breaches, Effective, Samples, P95, ErrorsOver
<1> QED
  BY <1>2, <1>3, <1>4, <1>5 DEF CanaryInv

LEMMA SetWeightStep ==
    ASSUME CanaryInv, NEW w \in WeightInput, SetWeight(w)
    PROVE  CanaryInv'
<1>1. weight' \in 0..100
  <2>1. w \in Int
    BY CanaryAssumption
  <2>2. Min({100, w}) = IF 100 <= w THEN 100 ELSE w
    BY <2>1, MinOfTwo
  <2>3. Min({100, w}) \in Int
    BY <2>1, <2>2
  <2>4. Max({0, Min({100, w})}) = IF 0 >= Min({100, w}) THEN 0 ELSE Min({100, w})
    BY <2>3, MaxOfTwo
  <2> QED
    BY <2>1, <2>2, <2>4 DEF SetWeight
<1>2. stage' \in CanaryStage /\ OffIsNoWeight'
  BY <1>1, StageOfWeight DEF SetWeight, OffIsNoWeight
<1>3. /\ UNCHANGED <<canary_metrics, canary_route_metrics, flights, answers, tame>>
      /\ reopened' = (reopened \/ Unhealthy)
  BY DEF SetWeight
<1>4. reopened' \in BOOLEAN
  BY <1>3 DEF CanaryInv, CanaryTypeOK, Unhealthy
<1>5. MetricsAgree' /\ (Unhealthy' <=> Unhealthy)
  BY <1>3, SameMetricsAgree, SameMetricsSameHealth DEF CanaryInv
<1>6. UnhealthyIsOff'
  BY <1>3, <1>5 DEF UnhealthyIsOff
<1> QED
  BY <1>1, <1>2, <1>3, <1>4, <1>5, <1>6 DEF CanaryInv, CanaryTypeOK

LEMMA OperatorRollsBackStep ==
    ASSUME CanaryInv, OperatorRollsBack
    PROVE  CanaryInv'
<1>1. stage' \in CanaryStage /\ weight' = 0 /\ stage' \in Off
  BY Stages DEF OperatorRollsBack, Rollback, Off
<1>2. UNCHANGED <<canary_metrics, canary_route_metrics, flights, answers, tame, reopened>>
  BY DEF OperatorRollsBack, history
<1>3. MetricsAgree'
  BY <1>2, SameMetricsAgree DEF CanaryInv
<1>4. OffIsNoWeight' /\ UnhealthyIsOff'
  BY <1>1 DEF OffIsNoWeight, UnhealthyIsOff
<1>5. CanaryTypeOK'
  BY <1>1, <1>2 DEF CanaryInv, CanaryTypeOK
<1> QED
  BY <1>3, <1>4, <1>5 DEF CanaryInv

LEMMA CanaryInvariance == CanarySpec => []CanaryInv
<1>1. CanaryInv /\ [CanaryNext]_canaryVars => CanaryInv'
  <2> SUFFICES ASSUME CanaryInv, [CanaryNext]_canaryVars PROVE CanaryInv'
    OBVIOUS
  <2>1. CASE UNCHANGED canaryVars
    <3>1. UNCHANGED <<stage, weight, canary_metrics, canary_route_metrics, flights, answers,
                      tame, reopened>>
      BY <2>1 DEF canaryVars, routerVars, history
    <3>2. CanaryTypeOK' /\ OffIsNoWeight'
      BY <3>1 DEF CanaryInv, CanaryTypeOK, OffIsNoWeight
    <3>3. MetricsAgree' /\ (Unhealthy' <=> Unhealthy)
      BY <3>1, SameMetricsAgree, SameMetricsSameHealth DEF CanaryInv
    <3> QED
      BY <3>1, <3>2, <3>3 DEF CanaryInv, UnhealthyIsOff
  <2>2. CASE CanaryNext
    BY <2>2, AnswerStep, CallStep, PromoteStep, SetWeightStep, OperatorRollsBackStep
       DEF CanaryNext
  <2> QED
    BY <2>1, <2>2
<1> QED
  BY <1>1, CanaryInitially, PTL DEF CanarySpec

-----------------------------------------------------------------------------
(* The canary: what it promises *)

\* Stage, weight, windows and counts stay in their ranges whatever calls and operators do
\* (canary_router.py).
THEOREM CanaryTypeCorrect == CanarySpec => []CanaryTypeOK
BY CanaryInvariance, PTL DEF CanaryInv

\* A route over its budget, or a canary over every limit, is out of service unless an
\* operator put it back by its weight (_evaluate_canary_slo against set_weight), for any
\* budgets, windows and numbers of calls under way.
THEOREM OverBudgetIsOff == CanarySpec => []UnhealthyIsOff
BY CanaryInvariance, PTL DEF CanaryInv

\* In a stage that is no stage of the rollout no request goes to the canary unless it
\* asks for it (rollback and set_weight against should_route_to_canary).
THEOREM OffSendsNothing == CanarySpec => OffRoutesNothing
<1>1. CanaryInv /\ [CanaryNext]_canaryVars =>
        [\A c \in Client, r \in Route : stage \in Off => ~Send(c, "none", r)]_canaryVars
  <2> SUFFICES ASSUME CanaryInv, NEW c \in Client, NEW r \in Route, stage \in Off,
                      Send(c, "none", r)
               PROVE  FALSE
    OBVIOUS
  <2>1. weight = 0
    BY DEF CanaryInv, OffIsNoWeight
  <2>2. Hash[c] \in 0..99
    BY CanaryAssumption
  <2> QED
    BY <2>1, <2>2 DEF Send, RoutesToCanary
<1> QED
  BY <1>1, CanaryInvariance, PTL DEF CanarySpec, OffRoutesNothing

\* The monitor takes the canary out only when it has answered often enough since its
\* promotion, and not always within the limits (record_metric against promote).
THEOREM TakesOutForCause == CanarySpec => TakenOutForCause
<1>1. CanaryInv /\ [CanaryNext]_canaryVars =>
        [\A r \in Route : TakenOut(r) => answers' = MinSamples /\ ~tame']_canaryVars
  BY AnswerDecides DEF TakenOut
<1> QED
  BY <1>1, CanaryInvariance, PTL DEF CanarySpec, TakenOutForCause
=============================================================================
