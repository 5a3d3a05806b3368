---------------------------- MODULE CanaryRouter ----------------------------
(***************************************************************************)
(* gateway/canary_router.py and its callers in gateway/app.py: which       *)
(* requests go to the canary, what their answers do to the metrics, and    *)
(* when a metric over its budget takes the canary out of service.  The     *)
(* decision for a request is made before its call is awaited, the metric   *)
(* is recorded when the answer comes; operators act in between.            *)
(*                                                                         *)
(* Weights are percentages.  A latency is the least of the budgets 0, 1,   *)
(* ... it is within, counted from the tightest.  stable_metrics are only   *)
(* reported and left out.                                                  *)
(***************************************************************************)
EXTENDS Integers, Sequences, SequencesExt, FiniteSetsExt

CONSTANTS
    Client,        \* user or client IP
    Hash,          \* Hash[c]: the percentile the identifier of c falls into
    Route,         \* method and path, as _get_route_key makes them
    Budget,        \* Budget[r]: the max_p95_ms and max_error_rate of route r
    Global,        \* the max_p95_latency_ms and max_error_rate of the router
    Latency,       \* classes of latency
    MinSamples,    \* min_eval_samples, at most 15
    WindowSize,    \* length of the window of latencies
    WeightInput,   \* the weights operators set
    MaxTotal,      \* bound: answers recorded since the metrics were cleared
    MaxFlight      \* bound: canary calls of a route under way

Limits == [p95 : Latency, errors : 0..100]

ASSUME CanaryAssumption ==
    /\ Hash \in [Client -> 0..99]
    /\ Latency \subseteq Nat /\ Latency # {}
    /\ Global \in Limits /\ Budget \in [Route -> Limits]
    /\ MinSamples \in 1..15 /\ WindowSize \in Nat /\ MinSamples <= WindowSize
    /\ WeightInput \subseteq Int
    /\ MaxTotal \in Nat /\ MaxFlight \in Nat

VARIABLES
    stage, weight,
    canary_metrics,
    canary_route_metrics,   \* of a route without metrics yet: those of no answers
    flights,                \* flights[r]: canary calls of r under way
    answers,                \* history: answers since the last promotion, up to MinSamples
    tame,                   \* history: all of them within every limit
    reopened                \* history: weight set since then with a metric over its budget

routerVars == <<stage, weight, canary_metrics, canary_route_metrics>>
history == <<answers, tame, reopened>>
canaryVars == <<routerVars, flights, history>>

STAGE_WEIGHT_MAP ==
    [DISABLED |-> 0, CANARY_1 |-> 1, CANARY_10 |-> 10, CANARY_50 |-> 50,
     FULL_ROLLOUT |-> 100, ROLLED_BACK |-> 0]

CanaryStage == DOMAIN STAGE_WEIGHT_MAP
Off == {"DISABLED", "ROLLED_BACK"}

TrafficMetrics ==
    [latencies : SeqOf(Latency, WindowSize), total : 0..MaxTotal, errors : 0..MaxTotal]

CanaryTypeOK ==
    /\ stage \in CanaryStage /\ weight \in 0..100
    /\ canary_metrics \in TrafficMetrics
    /\ canary_route_metrics \in [Route -> TrafficMetrics]
    /\ flights \in [Route -> 0..MaxFlight]
    /\ answers \in 0..MinSamples
    /\ tame \in BOOLEAN /\ reopened \in BOOLEAN

NoAnswers == [latencies |-> <<>>, total |-> 0, errors |-> 0]

CanaryInit ==
    /\ stage = "DISABLED" /\ weight = 0
    /\ canary_metrics = NoAnswers
    /\ canary_route_metrics = [r \in Route |-> NoAnswers]
    /\ flights = [r \in Route |-> 0]
    /\ answers = 0 /\ tame = TRUE /\ reopened = FALSE

-----------------------------------------------------------------------------
\* TrafficMetrics

\* The window forgets its oldest latency; the counts forget nothing.
Recorded(m, latency, isError) ==
    LET longer == Append(m.latencies, latency)
    IN  [latencies |-> IF Len(longer) > WindowSize THEN Tail(longer) ELSE longer,
         total |-> m.total + 1,
         errors |-> IF isError THEN m.errors + 1 ELSE m.errors]

Samples(m) == Len(m.latencies)

\* Entry int(0.95 * (n - 1)), counted from 0, of the n latencies in order
P95(m) ==
    LET rank == (95 * (Samples(m) - 1)) \div 100
        AtMost(l) == {i \in DOMAIN m.latencies : m.latencies[i] <= l}
    IN  Min({l \in Latency : Cardinality(AtMost(l)) > rank})

\* Over the whole life of the metrics, rounded to a hundredth of a percent in the code
ErrorsOver(m, percent) == 100 * m.errors > percent * m.total

Breaches(m, limit) ==
    /\ Samples(m) >= MinSamples
    /\ ErrorsOver(m, limit.errors) \/ P95(m) > limit.p95

-----------------------------------------------------------------------------
\* should_route_to_canary

\* override is the X-Canary-Target header of the request.
RoutesToCanary(c, override) ==
    \/ override = "canary"
    \/ override # "stable" /\ Hash[c] < weight

\* The request is decided for the canary and its call begins.
Send(c, override, r) ==
    /\ RoutesToCanary(c, override)
    /\ flights[r] < MaxFlight
    /\ flights' = [flights EXCEPT ![r] = @ + 1]
    /\ UNCHANGED <<routerVars, history>>

-----------------------------------------------------------------------------
\* record_metric and _evaluate_canary_slo, in the step in which the answer comes

\* The looser of the router's limits and the budget of r
Effective(r) ==
    [p95 |-> Max({Global.p95, Budget[r].p95}),
     errors |-> Max({Global.errors, Budget[r].errors})]

\* Fault: only the aggregate is evaluated.
MustRollBackOnAggregate(m, ofRoute, r) == Breaches(m, Effective(r))
\* m: the aggregate, ofRoute: the metrics of r, both with the answer in them
MustRollBack(m, ofRoute, r) == Breaches(ofRoute, Budget[r]) \/ Breaches(m, Effective(r))

\* Fault: the stage is set and the weight is not.
RollbackKeepingWeight == stage' = "ROLLED_BACK" /\ UNCHANGED weight
Rollback == stage' = "ROLLED_BACK" /\ weight' = 0

Within(latency, isError, limit) == latency <= limit.p95 /\ ~isError

\* An answer of r, the 502 of a failed call included
Answer(r, latency, isError) ==
    /\ flights[r] > 0 /\ canary_metrics.total < MaxTotal
    /\ flights' = [flights EXCEPT ![r] = @ - 1]
    /\ canary_metrics' = Recorded(canary_metrics, latency, isError)
    /\ canary_route_metrics' =
         [canary_route_metrics EXCEPT ![r] = Recorded(@, latency, isError)]
    /\ IF MustRollBack(canary_metrics', canary_route_metrics'[r], r)
         THEN Rollback
         ELSE UNCHANGED <<stage, weight>>
    /\ answers' = Min({answers + 1, MinSamples})
    /\ tame' = (tame /\ \A limit \in {Global} \cup Range(Budget) : Within(latency, isError, limit))
    /\ UNCHANGED reopened

\* The second attempt of a call raises: nothing is recorded.
EndsUnrecorded(r) ==
    /\ flights[r] > 0
    /\ flights' = [flights EXCEPT ![r] = @ - 1]
    /\ UNCHANGED <<routerVars, history>>

-----------------------------------------------------------------------------
\* The endpoints of the operators

\* Fault: the metrics of the routes survive.
ResetAggregate ==
    canary_metrics' = NoAnswers /\ UNCHANGED canary_route_metrics
Reset ==
    /\ canary_metrics' = NoAnswers
    /\ canary_route_metrics' = [r \in Route |-> NoAnswers]

\* promote: to any stage, forwards or backwards
Promote(s) ==
    /\ stage' = s /\ weight' = STAGE_WEIGHT_MAP[s]
    /\ Reset
    /\ answers' = 0 /\ tame' = TRUE /\ reopened' = FALSE
    /\ UNCHANGED flights

StageOf(w) ==
    CASE w = 0 -> "DISABLED"
      [] w \in 1..1 -> "CANARY_1"
      [] w \in 2..10 -> "CANARY_10"
      [] w \in 11..50 -> "CANARY_50"
      [] OTHER -> "FULL_ROLLOUT"

\* A route of which the canary has enough answers is over its budget, or the canary as
\* a whole is over every limit.
Unhealthy ==
    \E r \in Route :
        \/ Breaches(canary_route_metrics[r], Budget[r])
        \/ \A other \in Route : Breaches(canary_metrics, Effective(other))

\* set_weight: clamped to 0..100; the metrics stay.
SetWeight(w) ==
    /\ weight' = Max({0, Min({100, w})})
    /\ stage' = StageOf(weight')
    /\ reopened' = (reopened \/ Unhealthy)
    /\ UNCHANGED <<canary_metrics, canary_route_metrics, flights, answers, tame>>

OperatorRollsBack ==
    /\ Rollback
    /\ UNCHANGED <<canary_metrics, canary_route_metrics, flights, history>>

-----------------------------------------------------------------------------
CanaryNext ==
    \/ \E r \in Route :
         \/ \E c \in Client, override \in {"none", "canary", "stable"} : Send(c, override, r)
         \/ \E latency \in Latency, isError \in BOOLEAN : Answer(r, latency, isError)
         \/ EndsUnrecorded(r)
    \/ \E s \in CanaryStage : Promote(s)
    \/ \E w \in WeightInput : SetWeight(w)
    \/ OperatorRollsBack

CanarySpec == CanaryInit /\ [][CanaryNext]_canaryVars

-----------------------------------------------------------------------------
\* The answer of r that comes in this step takes the canary out of service.
TakenOut(r) ==
    /\ \E latency \in Latency, isError \in BOOLEAN : Answer(r, latency, isError)
    /\ weight > 0 /\ weight' = 0

\* docs/DISASTER_RECOVERY.md:30, "reverts 100% of traffic": a request that does not ask
\* for the canary goes there only while the stage is one of the rollout, whatever calls,
\* late answers and operators have done to stage and weight before.
OffRoutesNothing ==
    [][\A c \in Client, r \in Route :
         stage \in Off => ~Send(c, "none", r)]_canaryVars

\* A route over its budget, or a canary over every limit, is out of service, unless an
\* operator has put it back by its weight, which keeps the metrics.
UnhealthyIsOff == Unhealthy => weight = 0 \/ reopened

\* The monitor takes out a canary only when at least MinSamples answers were recorded
\* since its promotion, one of them over some limit: what was recorded before the
\* promotion (canary_router.py:194) is not counted.  Whatever is recorded after it is,
\* answers to requests sent in an earlier stage included (app.py:946), and a change by
\* set_weight starts no new count (canary_router.py:165).
TakenOutForCause ==
    [][\A r \in Route : TakenOut(r) => answers' = MinSamples /\ ~tame']_canaryVars
=============================================================================
