# TLA+ models of the ERP security gateway

This directory holds TLA+ modules that model the security gateway of this
repository (`gateway/`, `agents/`, `ml/`), TLC configurations that check them on
small instances, and theorems about them that TLAPS proves for all instances.
Paths in this file are relative to the repository; `app.py` is `gateway/app.py`.

`PROJECT.json` lists the components, the runs, the hazards, the theorems and, for
every definition that models code, the lines it models.

    tlc -config breaker.cfg MCCircuitBreaker      # model-check
    tlapm UpstreamProofs.tla                      # check proofs

## 1. The system

A FastAPI application in front of an ERP. Every request that is not for the
gateway's own API runs through one middleware function,
`security_pipeline_middleware` (app.py 443-1015), whose steps are, in order:

1. active mitigations for the address and the token (476), size limit (495), reading
   the body - **the first await** (517);
2. lockout after failed logins (530), WAF (549), route allowlist (594), schemas (611);
3. replay guard (632), authentication (681), active mitigations for the user (718),
   object ownership (745);
4. business rules (772), anomaly scores (784), ML score (814), rate (829), the risk
   decision (834), the audit event (846), BLOCK or CHALLENGE (856), 429 (890);
5. circuit breaker (898), canary decision (922), the call of the ERP - **the second
   await** (938) - and what its answer is recorded in (945-954, 990-1005).

*Concurrency.* Within one process the code between two awaits is atomic: one event
loop runs all handlers, and synchronous code is not interrupted by another handler.
What interleaves is everything on either side of the two awaits. `gateway/Dockerfile:23`
starts four processes (`--workers 4`); each has its own copy of every
singleton (breaker, engine, replay guard, canary router, audit chain ...). The
processes share Redis (`docker-compose.yml` 67-73, no persistence) and the files under
`events/`. Telemetry and the anti-poisoning filter have a worker thread each.

*Failures the code handles.* Redis unreachable or restarted (each store falls back to
memory, and a process without a client looks for Redis again after 300 s), the ERP
down, slow or answering 5xx, an event loop that was closed, a write of the audit file
that fails, a process that restarts.

### Inventory

| Component | State | Operations | Talks to | What is hard | What makes it correct |
|---|---|---|---|---|---|
| Circuit breaker, `ha_dr.py` 20-98 | state, two counts, time of last change | allow_request, record_success, record_failure | middleware step 5 | answers that arrive in another state than their call was sent in; a retry that raises | trips on a run of failures only, isolates for the whole timeout, closes on a run of successes, closes eventually |
| Mitigation engine, `mitigation_engine.py` | six tables, registry of actions | apply_action, rollback_action, evaluate_request | state store; steps 1 and 3; orchestrator | several processes over one Redis; entries that expire; sweeping while reading | what blocks is live and was approved where needed; rollback releases |
| State store, `state_store.py` | Redis hashes, set, nonces; in-memory fallback | set_nonce_nx, hash and set operations | Redis | unreachable, restarted, EXPIRE of a whole hash | reads see the last write while Redis works |
| Containment workflow, `response_agent.py`, `orchestrator.py` | actions_registry, views of what is contained | formulate plan, approve, reject, revoke | mitigation engine, SOC API | two registries updated one after the other; human steps in any order | suspension only after approval; an executed action is enforced |
| Audit chain, `compliance.py` | file, last hash, count | append_event, reading an existing log, verify_chain | step 4, compliance API | writes that fail or tear, restarts, several writers | whole chain verifies; alteration of what is signed is detected |
| Replay guard, `replay_guard.py` | nonces in the state store | validate_request | step 3 | two processes, fallback, keys common to all requests, expiry of key and of timestamp | a request passes once; no key is refused that was not used |
| Canary router, `canary_router.py` | stage, weight, metrics in total and by route | should_route, record_metric, promote, set_weight, rollback | step 5, canary API | late answers over a promotion; limits by route | a canary over its budget is taken out, for cause only |
| Rate limiter, `rate_limiter.py` | counter per key in Redis, or timestamps in memory | check_rate | step 4 | Redis failing, answering late and coming back; EXPIRE renewed; one window per store | no store lets more than the limit through; no counter runs ahead of the client; processes return to the shared counter |
| Pipeline, `app.py` 443-1015 | the requests under way, recent events per user | the middleware, emit_audit_event | every other component | what holds before an await need not hold after it; a request can end in some twenty places | what a check spoke against is not forwarded; the audit event tells what was done |
| Credential defense, `credential_defense.py` | times of failed logins | check_status, record_failure | steps 2 and 5 | check before, record after the await | threshold holds up to the attempts under way |
| Risk engine, `risk_engine.py` | none | calculate_risk | step 4 | caps and guarantees overlap | decision is monotone in the signals |
| Rules engine, `rules_engine.py` | rules, histories per user | evaluate, hot reload | step 4 | time and content of a file read at different moments, while it is being written | no change is lost; a file that stays is worked with in the end |
| Telemetry and anti-poisoning, `telemetry/` | two bounded queues, four files | emit, process_event, the two workers, flush | audit event | full queue, flush against the worker, event changed after it was queued | every event reaches a file; learned from is what was allowed with no check against it |
| Baselines, anomaly detector | statistics by user and path | build, detect | step 4 | numeric | what is usual is not refused |
| Readiness, `ha_dr.py` 101-166 | none | evaluate_readiness | ML service, rules, engine | it looks at the model only; a process that is not ready gets no requests | a ready process can score |
| ML service and retraining, `ml/` | model, scaler, metadata, rolled back or not; candidate files | load, rollback, recover, save, retrain | step 4, ML API | three files written in turn while a process reads them in turn; rollback of one process of four | a consistent model or none |
| Agents other than response, `agents/` | alert history | evaluate | orchestrator | order of the evidence | alerts that plans can be made of |
| SOC feedback, `soc_feedback.py` | records, file | submit, load | SOC API | reading a log with a broken line | records survive a restart |
| Authentication, WAF, routes, schemas, configuration, metrics | none or counters | checks | steps 2 and 3 | text | - |
| Staging ERP, scripts, benchmarks | - | - | - | outside of the gateway | - |

## 2. Modules

| Module | Models | Composes |
|---|---|---|
| `RiskEngine` | the risk score, as operators | - |
| `Gateway` | the middleware with its two awaits, lockout, audit decisions, what the agents contain | extends `RiskEngine`, instantiates `AbstractGateway` |
| `AbstractGateway` | what the gateway promises the ERP and the reader of the audit events | - |
| `CircuitBreaker` | breaker and middleware step 5 around it | - |
| `CircuitBreakerHistory` | history variables and the properties over them | extends `CircuitBreaker`, instantiates `AbstractBreaker` |
| `AbstractBreaker` | what a breaker promises, without its states | - |
| `MitigationEngine` | engine, state store, Redis, several processes | - |
| `Containment` | response agent, orchestrator, and the middleware's evaluation | extends `MitigationEngine` |
| `EngineUse` | the engine under arbitrary callers | extends `MitigationEngine` |
| `AuditChain` | audit chain of several workers over one file | instantiates `AbstractLog` |
| `AbstractLog` | what a tamper-evident log promises, without blocks and signatures | - |
| `Telemetry` | queues, worker threads and files of the telemetry and of the triage | extends `RiskEngine` |
| `ReplayGuard` | replay guard and its nonces | - |
| `CanaryRouter` | canary router, its API, late answers | - |
| `RateLimiter` | the counter of one client in Redis and in the processes | - |
| `RulesEngine` | loading and hot reload of the rules file against its writers | - |
| `ModelService` | loading, rollback and recovery of the models against a training that saves | - |
| `Readiness` | one process from its start on, with its readiness probe | extends `RulesEngine`, `ModelService` |
| `MC...` | values, symmetry for TLC | the module of the name |
| `UpstreamProofs` | theorems | `CircuitBreakerHistory` and `CanaryRouter` |
| `GatewayProofs` | theorems | `Gateway`, with `RiskEngine`, and `ReplayGuard` |
| `EngineProofs` | lemmas on the engine, theorems | `EngineUse` |
| `ContainmentProofs` | theorems | `Containment`, with the lemmas of `EngineProofs` |
| other `...Proofs` | theorems | the module of the name |

The breaker, the engine, the replay guard and the canary router have state of their own
that the rest of the pipeline does not share, so each is modelled with the
steps of the middleware that touch it, and `Gateway` has only their verdicts, any of which
may come at any time. What holds in `Gateway` therefore holds whatever they do.

Operators whose comment begins with **"Fault:"** are wrong versions of the operator that
follows them. No specification uses them; each is the mistake that some property is
there to catch, and `PROJECT.json` ("mutants") says which.

### RiskEngine, Gateway

`calculate_risk` is a function of its arguments. `RiskEngine` computes in hundredths of a
point: the weights are multiples of 0.05, the severities are whole numbers or mean values of
four of them, so that every term is exact. (`0.40 * x` and its like are not exact in
floating point, and the code rounds to the same hundredths.)

`stage[r]` is what the handler of `r` awaits: the body, the ERP, or nothing, for a handler
that is free. An action is the code between two awaits: `Arrive` (up to reading the body),
`Inspect` (everything up to the call of the ERP, or an answer), and how the call ends:
`Answered`, `AnsweredAgain` (the second attempt after a closed event loop, whose 401 is not
counted), `Failed` (502, or 500 where the second attempt raises). The ERP answers with any
status, and the gateway passes it on; 404 stands for those no property tells apart.
`Severity` are the severities rules may have, which a hot reload can set to anything;
`Page` the paths of the API that only `/*` of `config/routes.yaml` matches, which are read
without a token, by GET only (`Catalogued`). `Inspect` has one operator
per check, in their order; what only adds to the score is in `Findings`, and a check that
finds nothing leaves no trace. `failures[c]` are the failed logins of an address that are
still in the window (`Forget`: the oldest leaves it). `contained` are the targets of the
agents' automatic actions in force: `Emit` may add the name the event has, which is a
pseudonym; evaluate_request asks for names. `Notice` says which events the agents act on
alone (two factors, or a write to the users) and which with `History` earlier ones of the same
name, that `seen` counts; of what kind these must be (logins, reads of records) is left
out. `said`, `outcome` and `flagged` keep the decision in the audit event, the last answer
with who gave it, and whether the ownership check or a rule of 60 spoke against the request.

### CircuitBreaker

`state`, `failure_count`, `success_count` are the fields of the class. `elapsed` is
`now - last_state_change`; the code compares it with the timeout only, so it stops at
the timeout. `calls[r]` is where the request of client `r` stands in the middleware:
`sent` while it awaits the ERP, `retrying` in the second attempt of the except clause,
and how it ended. One action per way a call can go on: `Arrive` (allow_request and what it
decides), `Respond` (any HTTP answer, a 5xx included, is a success to the breaker),
`FailToReach`, `RetryOnFreshClient`, `RetryRaises` (nothing is recorded). The ERP goes
up and down at will. `CircuitBreakerHistory` adds what the breaker does not remember:
the runs of outcomes, the time since the last trip and who was in a first attempt then.

### MitigationEngine, Containment, EngineUse

`local[p]` are the six tables of process `p`, `fallback[p]` its in-memory store,
`redis`/`redisTTL` the hashes in Redis with the one EXPIRE each hash has. Times are kept
as time left; `-1` is past, `Forever` has no end. The three methods of the engine run
under its lock, so each is one step, store calls included. A write of an entry that ends is
two commands of Redis, and the second, EXPIRE, may fail (`Expire`). `Consulted` is the list of
lookups of evaluate_request in their order; `AnsweringStep` the first in force;
`EvaluateRequest` the entries swept on the way. `Containment` adds the response agent and
the orchestrator: a plan is stored and its automatic actions executed, approval
executes in the agent first and in the engine after it, rejection and revocation as they are.
`EngineUse` calls the engine with every kind of action in every approval status, which
plans never do; `fate`, `issued`, `remaining` and `heard` remember what became of each action
(`heard`: the calls that reached Redis with all their commands and that it has not forgotten
by a restart, `UseRedisRestarts`), which no table of the code does.

A token hash holds no action id in the code; in the model it does, for the properties
only.

### AuditChain

`file` is the sequence of lines of the one file, `lastHash` and `blockCount` what each worker
holds. A hash is modelled as the sequence of payloads it was computed over, which makes it
collision free and nothing else. It does not cover the timestamp of the block, of which the
model keeps whether it is the one that was written. `AppendEvent`, `AppendFails` (the write
raises), `AppendTears` (a part reaches the disk), `Restart` (reading the log up to the first
line that does not parse), `TailLost`, `Altered` (payload or order of the lines) and `Redated`
(a timestamp): what happens to the file from outside. `Verifies` is verify_chain, as a
condition on all lines instead of a loop.

### Telemetry

`queue[q]` are the two queues, `hand[q]` the item their thread has taken and not written,
`file` the lines of the four files, `main` where the thread of the event loop is. The
handlers run one at a time, so there is one `main`; the threads switch between any two
statements of `emit` and `process_event`. Both queues hold the same dict, so an item is the
number of an event, and `mark[n]` is how far the triage has come with it: a line has the
mark of the moment it was written. (`json.dumps` of a dict of plain values runs without
giving up the interpreter lock, so a line is never of two moments.) `FileOf` is
classify_event, on events scored by `RiskEngine`; `Persist` writes or, with the disk full,
logs an error and forgets. `Flush` and `Drain` are flush, which no code of the gateway calls
and tests do. Each process has its own queues; the files are shared, and one line is one
append, so one process is enough.

### ReplayGuard

`age[op]` is the gateway's clock minus the timestamp of the request, negative while the
timestamp is ahead; `NoStamp` is no timestamp, or one that is not a number and never gets old.
`key[op]` is its nonce or else its idempotency key. Keys belong to nobody: requests may have
the same, and `nonces[k]` is the life left of key `k` in Redis, `fallback[p][k]` in process
`p`. `Pass` is validate_request where it lets a request through. Where it does not it changes
nothing, but for a process that refuses by its memory after Redis has taken the key and its
answer was lost (`RefuseKey`). In the same way a write whose answer is lost may have taken the
key in Redis and in memory (`AnswerLost`). The requests may come again at any time, to any
process; what follows the guard is in `Gateway` and does not touch the keys.

### CanaryRouter

Weights are percentages; a latency is the class of the tightest budget it meets. A metric
is the window of latencies and the two counts, which are never windowed. `Answer` is
record_metric and `_evaluate_canary_slo` in one step, `Send` the decision before the
await, and operators promote, set weights and roll back in between.

### RateLimiter

Counters of different clients share the connection only, which may come and go at any
time, so one client is enough. `count` and `ttl` are its key in Redis,
`records[p][a]` how many timestamps in process `p` are of age `a` or younger, so that the last
entry is the whole window. `CheckRate` is one call of check_rate with the
comparison of app.py:890, by what Redis does: it answers (`CheckInRedis`), it fails or
carries the transaction out and answers after the timeout (`CheckFails`), or there is no
client (`CheckInMemory`). `Look` is the rule by which a process without a client looks for
Redis again. `accepted`, `silence` and `burst` remember what was let through on which
store and what the client sent since it last paused. The scores between 25 and 100 are
signals of `RiskEngine`.

### RulesEngine, ModelService, Readiness

A rules file is well formed, empty (truncated by a writer that has not written yet),
broken or absent. The process compares modification times, so of the time the model keeps
whether it is above the one remembered (`newer`); a change in place may fall into the same
tick of the file system's clock and a file put in its place may bring an older time, which
`missed` remembers. `Stamps` (the time) and `Reads` (the content) are two steps, because
other programs write in between; the rest of a request is atomic. `Parsed` says what
becomes of a text: an empty one parses to no rules, a broken or absent one leaves the
built-in rules.

`ModelService` has the three files, each the work of some training, torn or missing, and
the three parts a process has loaded. `Saves` opens and writes one file after another,
`LoadsPart` reads one after another and stops at the first that does not load, keeping what
it had. `Readiness` puts both into one process: rules are loaded first, then models, then
it serves; `Ready` is evaluate_readiness. The endpoints roll back and recover at any time.

## 3. Runs

Each run asks one question. `gateway` takes about two minutes, `telemetry`, `engine_calls`
and `replay_guard` one to two, the others less than one.

| Run | Shows | Instance |
|---|---|---|
| `gateway` | Overlapping logins have no more failures counted and logins under way than the threshold and the handlers allow; nothing the ownership check or a rule of 60 spoke against is forwarded; the audit event tells what was done, whatever the ERP answers; load and weak rules are never refused; the middleware implements `AbstractGateway`; a lockout ends | 2 handlers, 1 address, 1 user, routes login, orders, SAP and the pages of users, severities 50, 60 and 80, one earlier event, threshold 2; 419 000 states |
| `gateway_contained` | **violated**: what the agents contain goes on reaching the ERP | as above, but four earlier events |
| `breaker` | The breaker trips only on a run of failures, lets nothing begin within the timeout after a trip but the second attempts of calls of before it, closes only on a run of successes, implements `AbstractBreaker`, and closes for good once the ERP works for good | 3 clients, thresholds 2, timeout 2 |
| `containment_workflow` | Suspensions come from approvals only, an executed action holds where it was executed through all failures of Redis, nothing revoked is shown as contained | 1 process, 2 incidents, one target, all faults |
| `containment_rollback` | **violated**: rollback removes the entry of another action | 1 process, 2 incidents |
| `engine_calls` | What refuses a request is an action that is neither over nor rolled back; what Redis was told, and has not lost by a restart of its own, reaches every process, after a restart of the one that said it too; rolling back leaves nothing behind | 2 processes, 2 actions of any kind and status on two names, one of the whitelist and a token, durations up to 2, restarts of processes and of Redis, EXPIRE failing, Redis gone and back; 49 600 states |
| `audit_chain` | The chain of one writer stays whole and resumes at its tail; the file is what was returned; an alteration of what is signed is detected for ever; what verifies did happen; the file implements `AbstractLog` | 2 workers, 3 lines, 4 calls, all faults |
| `telemetry` | Every event is in one place of each of its two ways or lost to a fault; what is learned from was allowed with no check against it and bears its tier; no event waits for the next | 3 events of 2 sorts, queues of 1, full disk and restarts; 517 000 states |
| `replay_guard` | A key is single use in the store that took it, a stamped request passes once, and no key is refused that was not used | 2 processes, 2 requests with one key, the same or none, skew of 2 ticks, all faults; 964 000 states |
| `canary` | A route over its budget is out of service; the canary is taken out for cause only; a stage that is off routes nothing | 2 routes, 3 latencies, window of 3, 4 answers |
| `rate_limiter` | No store lets more than the limit through in a window; no counter is ahead of what the client sent since it paused; while Redis answers, every process comes back to it | 2 processes, limit, window and period of looking of 2, Redis gone, late and restarted, processes restarted; 220 000 states |
| `readiness` | No change of the rules file is lost between time and content; a ready process scores, with parts of one training; a rules file that stays is worked with in the end | 1 process, 2 rules files besides empty, broken and absent ones, 2 trainings; 71 400 states |

*The properties by name.* `breaker`: `NoCallDuringCooldown`, `TripsOnConsecutiveFailures`,
`ClosesOnConsecutiveSuccesses`, `ImplementsAbstractBreaker`, `Recovers`;
`containment_workflow`: `SuspendsOnlyApproved`, `HoldsWhereApplied`, `ShowsNothingRevoked`;
`containment_rollback`: `RollbackPurgesOnlyItsAction`; `engine_calls`: `OnlyLiveActionsBlock`,
`SharedReachesAll`, `NothingLeftBehind`; `audit_chain`: `ChainIntact`, `ResumesAtTail`,
`RecordsWhatItReturned`, `AlterationIsDetected`, `WhatVerifiesHappened`, `ImplementsLog`;
`replay_guard`: `RefusedWasPassed`, `SingleUse`, `StampedOnce`; `canary`: `UnhealthyIsOff`,
`OffRoutesNothing`, `TakenOutForCause`; `gateway`: `CountedFailuresBounded`,
`NothingFlaggedForwarded`, `AuditTellsTheOutcome`, `OnlyThreatsAreRefused`, `LockoutEnds`,
`ImplementsAbstractGateway`; `gateway_contained`: `ContainedIsRefused`; `telemetry`:
`AccountedFor`, `OnlyAllowedIsLearned`, `WrittenInTheEnd`; `rate_limiter`: `TypeOK`,
`LimitPerStore`, `NoCounterRunsAhead`, `Rejoins`; `readiness`: `TypeOK`, `ChangesAreSeen`,
`ReadyScores`, `UpdateTakesEffect`. Each is stated in words above its definition.

*Bounds and why they are enough.* Two handlers of the pipeline can each be before, between and
after the two awaits of the other; a threshold of two is met while one of them is past the
check. The four routes are one without a token, one under `/api/` with an owner, rules and
writes, one that needs a token outside of `/api/`, and one that is read without a token below a
sensitive path. The severities are one below what challenges, one that does and one that
blocks; the agent asks for at least four earlier events, as in the run that is violated; where
what is contained is only one more reason to refuse, one gives the states before it and from it
on. Three clients let one call be late in every state of the breaker while two others fill a
threshold of two. Two processes and two actions on one target are the least in which an entry
can be shadowed, swept or rolled back by somebody else, and durations of two let entries of
different ages meet. Two incidents with the two kinds an analyst handles in the run (`Handled`)
cover each status against each other. Three lines allow a first, a middle and a last one to be
lost, torn or altered; the fourth call comes after all of it. Three events fill a worker's hand
and a queue of one and have one to spill. A skew of two ticks has a time inside, at and outside
of each limit; of two requests both, one or none may have the key, and requests with another
key share no state with them. `NoStamp`, `TooOld`, `Never` and `LongAgo` name where counting
ends. A limit of two with counts up to three has a request below, at and above it; a window of
two has counts of different ages; two processes can be on different stores, and a third store
would only be another one like them. Two rules files tell a change from none, and two trainings
the files of one from those of another. Four answers fill a window of three and push one out.
Symmetry (clients, processes, incidents, events) is used in safety runs only.

Named bounds in guards: `History`, `CountCap` (failure count of the breaker), `MaxDuration`,
`Handled`, `Use`, `Come`, `Cap`, `MaxTrainings`, `MaxLines`, `MaxCalls`, `MaxEvents`,
`MaxFlight`, `MaxTotal`. None of them is needed for a property to hold: in the proofs those
that occur are arbitrary.

*Rates.* 2 % and 1 % take hundreds of answers to tell apart. The canary run uses 50 % and
40 %, in the same order, and the code's formula.

*Fairness* is assumed in five runs. `breaker`: the clock moves (`Tick`), clients go on
sending (`Arrive`), and an attempt under way comes to an end because httpx bounds it
(connect 5 s, read 30 s). Nothing is assumed about the ERP; `Recovers` is conditional on its
working for good. `gateway`: time passes, so that failures grow old (`Forget`); nothing is
assumed about clients, handlers or the ERP. `telemetry`: a thread that can go on does, which
is what the interpreter's scheduling gives; `Emit`, `Flush` and the faults have no fairness.
`rate_limiter`: the clock moves and the client goes on sending to every process, since a
process looks for Redis on a request only; nothing is assumed about Redis. `readiness`: a
process that starts goes on loading, and one that is ready again and again gets a request
at such a moment (strong fairness), which is what a load balancer that heeds the probe
does; nothing is assumed about operators, trainings and restarts.

*Deadlock* is checked for the breaker, the gateway, the telemetry, the replay guard, the rate
limiter and readiness. The
other models bound the number of calls, lines or answers, or let every entity stop, and may
stop themselves (`CHECK_DEADLOCK FALSE`).

## 4. Theorems

The proofs hold for all values of the constants: any number of processes, clients,
incidents, events, thresholds, durations and any subset of the faults.
The assumptions are the named `ASSUME`s of the modules.

**UpstreamProofs, the breaker.** The inductive invariant adds `HistoryInv` to the types and to
`CountsBelowThresholds`: while a trip is younger than the timeout the breaker is OPEN,
its timer runs no faster than the time since the trip, and every request still in its first
attempt was in it at the trip (`TripInv`), which is what makes the second attempts
those of requests of before; in CLOSED the failure count
does not exceed the run of failures, in HALF_OPEN the success count does not exceed the
run of successes. Without it "OPEN" says nothing about when the breaker tripped, because
the counts survive a change of state. From it: `TypeCorrect`,
`CountsStayBelowThresholds`, and the action properties `IsolatesDuringCooldown`,
`TripsOnlyOnConsecutiveFailures`, `ClosesOnlyOnConsecutiveSuccesses`; and `Refinement`:
every step of the breaker is a step or a stutter of `AbstractBreaker` under the mapping
at the end of `CircuitBreakerHistory`.

**UpstreamProofs, the canary.** `CanaryTypeCorrect`, `OverBudgetIsOff`, `OffSendsNothing`,
`TakesOutForCause`, for any routes, budgets, windows, numbers of calls under way and weights.
The invariant `CanaryInv` adds that the metrics agree with each other and with the history
(`MetricsAgree`: a window is no longer than the count of answers, a route has no more answers
than the whole, and as long as every answer was tame nothing in any window is over a limit) and
that a stage is off if and only if its weight is zero (`OffIsNoWeight`). `P95Within` says of
the percentile what the rollback needs: with all latencies within a limit it is within it.

**GatewayProofs, the score.** For all severities, those over 100 included: the score is between 0
and 100 (`RiskIsBounded`); a WAF or rule severity of 80 is a BLOCK, one of the rules of 60 is
not forwarded, a request whose only fault is its token is challenged, and rate, anomaly and
a rule of less than 60 are never more than LIMIT (`CriticalIsBlocked`, `FiredRuleIsNotForwarded`,
`InvalidTokenIsChallenged`, `LoadAloneIsLetThrough`); and with a higher WAF severity the
decision is never milder (`MoreOfAnAttackIsNeverMilder`), although the score may be lower.

**GatewayProofs, the pipeline.** For any handlers, addresses, users, routes, severities of
rules and threshold, and whatever status the ERP answers with: `TypeCorrect`; `NothingFlagged`,
`AuditTells`, `OnlyThreats`, from the invariant `IInv`, which adds to the three properties that
what is at the ERP was audited with ALLOW or LIMIT (`ForwardedInv`), without which an answer
says nothing of the event before it. The lemma `VerdictSound` does the work: with the
severities the checks can give, the score keeps a request from the ERP if and only if the
ownership check or a rule of 60 spoke against it. `CountedFailuresAreBounded`: every step
either lets a login pass the check while the failures are below the threshold, or turns one
under way into at most one failure, or leaves the sum as it is or less; the handlers at the ERP
besides the one that passes are at most all the others. `ImplementsGateway`: every step of the
pipeline is a step of `AbstractGateway` or changes nothing in it. That module has no checks and
no score, only what they come to: a request is granted something by the ERP alone; it goes
there once, after it was examined, on a verdict of ALLOW or LIMIT, and for a client with too
few wrong guesses on record at that moment; each request gets one answer; the answer of the ERP
bears the verdict the request went there on, and one the gateway gives by itself is a denial
with no verdict in the request's favour or a failure with none against it. In the mapping
`whose` is the client of the request under way and `last` the outcome with its status reduced
to `KindOf`. The answers the gateway gives by itself are `TurnAway` whichever check gives them
(`TurnsAway`), which needs of Assess that its verdict and the status agree; `InspectForwards`
needs that the lockout is checked in the step that forwards; `AnswerReturns` is the same for
the three ways a call ends. The assumption is that `Nothing` is neither a request nor an
answer.

**GatewayProofs, the replay guard.** `GuardTypeCorrect`, `NoUnusedKeyRefused`, `PassedOnce`,
`PassedOnceByStamp`, for any skew, processes, requests, keys and faults. The invariant
`KeysInv` has two directions: a key anywhere was used by a request that has passed, and its
life and the time since that passing together do not exceed the skew, or in Redis, which may
take a key while a process refuses it, twice the skew; and the store that took the key still
has what is left of its life, unless it has lost its keys. The first gives that no key is
refused that was not used, the second that no request with it passes again.

**TelemetryProofs.** For any number of events, any capacity and any faults: `TypeCorrect`;
`AllowedIsLearned`. The invariant says that every item on its way to a file of the triage, in
the queue, in a hand or in the event loop's, has its complete mark and the file of its tier,
and that the triage is not changing the dict it is of. `PristineIsUnopposed` reduces the vetoes
of classify_event, for events the gateway makes, to "allowed, with nothing from the WAF, the
token check and the rules"; rate, anomaly and trust have no veto, and the threshold of the
tier gives the bound of 7.5 points on what they contribute.
`SensitiveIsNeverLearned`: no event of the routes `/api/users` and `/api/auth/login` is
pristine. `EveryEventAccountedFor`: what is counted is kept queue by queue, and every step -
putting into a queue or, where it is full, into a hand of its own, taking from it, writing,
losing - moves one item from one place to another and leaves the number of its places at one.

**EngineProofs.** First the lemmas about the engine that both compositions need: what each
method does to the types, and to every entry of every table (`PutEffects` and those after it),
where a lookup finds an entry and which one answers (`BlockerPlaces`, `FirstAnswers`). Then,
for any callers, actions, processes and faults, `OnlyLiveActions`, `SharedActionsReachAll`,
`RollbackLeavesNothing`. The invariant `UseInv`: every entry anywhere is of one action that was
carried out for its table and its target and has the time that is left of this action; entries
of a process are of actions it still has in its registry, an action is in one registry at most,
and Redis has nothing of an action it was told to forget (`Owned`); the hashes without an end
never get one (`EndlessTables`); and an action Redis was told of, that has no rival, has its
entry there, and the hash lives at least as long (`SharedKept`), which is where the one EXPIRE
of a whole hash matters: all entries of a table are given the same time (`SameTableSameLeft`),
so that renewing it never shortens another's, and one that fails leaves the life the hash has.
A restart of Redis takes all its entries at once and with them what it was told
(`UseLosesRedis`). The proof corrected the property: quarantine looks at the address and at the
name of a request and never at its token, so what `RequestsOf` expects to be refused goes by
the table of an action; it used to go by the sort of its target.

**ContainmentProofs.** `TypeCorrect`, and `SuspensionNeedsApproval`: no request is refused on a
suspension that no analyst approved. The invariant says it of every place a suspension
can be read from - the table of each process, the fallback of each process and Redis - since
any of them can feed any other process, and that a process knows actions only of
incidents that have a target. `ViewsAreEarned`: what a process shows as contained has an
executed action in its registry. `ExecutedActionsHold`, from `HoldInv`: an executed action
that no other meets has its entry in the process that executed it, with the time that is left
of it (`Kept`). To be inductive this needs `Links`: an action is known to one process only, only
suspensions are pending, an executed action has a life, and the engine of a process has
registered only what the agent of the process knows.

**AuditChainProofs.** `TypeCorrect`; `OneWriterKeepsChain`, `OneWriterResumes`;
`FileIsWhatWasReturned`, with any number of workers; `AlterationStaysDetected`. The invariant
says that before any harm the file consists of the blocks that were returned; that a chain of
one writer verifies and that writer's hash and count are those of the last line; and that a
chain altered in what is signed does not verify, which appending, tearing and restarting keep
because they leave all earlier lines as they are, and a change of timestamps because nothing of
what verify_chain looks at depends on them. `NothingInvented` says what a file that verifies is
worth, under every fault at once: every signature, in the file or in the hand of a worker, is
made of events that were offered, in their order (`Traced`), because only append_event makes
one, out of an old one and its event; and in a file that verifies the last signature spells the
file (`SignaturesSpell`, by its least counterexample). `ChainIsALog`: the file implements
`AbstractLog`, with `entries` the payloads of its lines and `intact` that verify_chain confirms
it. While it does, the file only grows, by the event just offered, or loses some of its end; an
alteration of what is signed makes it fail; and nothing that is appended to a file that fails
mends it, which is what makes a failed verification worth anything after the next append. A
write is split by whether the file verifies afterwards: then it can only have added the new
block.

**RateLimiterProofs.** `TypeCorrect`; `LimitHolds`, from `LimitInv`: what was let through from
the memory of a process is among its timestamps, what was let through from Redis is in its
counter as long as the key lives, and the life of the key tells how long ago the last of it was
(`KeyIsOldEnough`), so that a key that has ended forgets nothing less than a window old;
`NoneRunsAhead`, from `BurstInv`: no timestamp is younger than the client's silence, the key
ends before a silence of a window does, and neither counts more than the requests of the burst.

**ReadinessProofs.** `TypeCorrect`; `ChangesSeen`, which is inductive with the types;
`ReadyCanScore`, from `ModelsInv`: the files written so far by a training that saves are of
this training (`FilesOfOne`); while nothing is saved during a load, what was read is what the
files are (`LoadingUndisturbed`); and parts loaded without an overlap are of one training.

*Only model-checked:* liveness (`Recovers`, `LockoutEnds`, `WrittenInTheEnd`, `Rejoins`,
`UpdateTakesEffect`), which is out of the prover's reach. Every invariant and every action
property of a run that passes is proved, as are the three refinements. The other way round, the
types of the breaker, the engine, the containment, the audit chain, the pipeline, the
telemetry, the replay guard and the canary are proved, so their runs do not check them.

## 5. Where the code and its documents differ

Each of the first two has a run that ends in the counterexample. The others were met in
modelling; the definitions named show where.

- *Containment by pseudonym.* The agents are given the event, in which client and user are
  pseudonyms (app.py:145), so this is whom they contain; evaluate_request is asked about the
  address and the user themselves (app.py 476, 718). README.md:28 has "Real-time IP banning,
  account lockdowns"; the test (tests/test_phase8_automated_response.py:260) gives the
  engine the plain address (`gateway_contained`).
- *Rollback by action.* rollback_action pops the entry of the target, whichever action
  it is of (`containment_rollback`).

Without a run:

- One chain, four workers: each of the four processes `gateway/Dockerfile:23` starts chains
  to the last block it wrote itself, so that indices and previous hashes repeat and
  verify_chain fails; docs/PRODUCTION_RUNBOOK.md:177 expects an intact chain. (`ChainIntact`
  speaks of one writer; with two, TLC finds the fork in two calls.)
- Decisions: LIMIT is carried out as ALLOW. R006 has the remediation "limit" and a severity
  that challenges. `config/rules.yaml` states an enforcement policy the code does not read.
  An invalid token on the SAP routes is audited as CHALLENGE with a score of LIMIT (the
  exception in `AuditTellsTheOutcome`). A rule whose severity is below 60, which is what a
  hot reload gives to one without any (rules_engine.py:149, 50), lets the request pass
  (`NothingFlaggedForwarded` speaks of 60 and more). What the ERP answers is passed on with
  its status (app.py 956-965), so a 403 may come with a decision of ALLOW; the property tells
  the ERP's answers from the gateway's. `/*` of config/routes.yaml takes paths like
  `/api/users/` without a token (`Page`). `auth_anomaly` is not monotone: at 80 a cap of 74
  sets in. Refusals by mitigation, 400, 404, 405, 422 have no audit event, 429 and 503 none
  of their own (README.md:29, "every event"; `Refuse`, `Enforce`). The ML verdict is
  advisory for the decision, but makes the event one the agents may contain somebody for
  (`Verdict`).
- Lockout: the middleware asks about the address only (app.py:530), so failures counted by
  user name are never looked at. The 401 of a second attempt is not counted (967-989), so
  guesses themselves have no bound, and when that attempt raises, nothing catches it. The
  failures that are counted exceed the threshold with concurrent logins
  (`CountedFailuresBounded` says by how much).
- What is learned: an event that the rate limiter, the detector or the model flagged is
  pristine if its score is low enough (anti_poisoning.py 18-19, "Excludes suspicious, flagged,
  or elevated risk sessions"): a rate of 75 or an anomaly of 50 on a harmless route is, and the
  model's verdict adds nothing to the score. `OnlyAllowedIsLearned` says what does keep an
  event out and how much of the rest may come in. No event has the age of the account or its
  incidents (anti_poisoning.py 41-42), so these vetoes never apply. Logins and requests for
  users are never pristine (`SensitiveIsNeverLearned`), and orders only at an anomaly of 0, so
  that the gate on endpoint coverage (baseline_gates.py:11) cannot see them. Baselines are
  built under the pseudonyms of the events (baseline_engine.py:98) and looked up by name
  (app.py:778): what was built is never found.
- Telemetry: "Guaranteed event ingestion" (event_pipeline.py:16) ends with the process: the
  workers are daemons and shutdown flushes nothing (`Restart`). An error of the disk loses
  the event. `flush` returns with one event still in the worker's hand, so
  tests/test_phase3_telemetry.py:76 reads the file too early in some schedules. The lines of
  telemetry.jsonl have all, some or none of the triage's fields (app.py 172-175).
- The detection agent counts failed logins by a decision that recent events do not have
  (app.py 799-812).
- Replay guard, keys: the key is `nonce:` and the nonce or idempotency key alone
  (replay_guard.py:58, state_store.py:152), without user, route or body, so another user's
  request with the same one is refused as "already executed" (63) and was not
  (`RefusedWasPassed` speaks of the key). A refusal whose answer from Redis was lost takes the
  key anew. A timestamp of "nan" passes the check of the skew (48-50) and never gets old.
- "Already executed" (replay_guard.py:63): the key is taken before authentication, breaker
  and upstream call, so a retry after 401, 503 or 502 is refused as a replay.
- Canary, budgets by route: the aggregate p95 of mixed traffic is held to the limit of the
  route answered last; 150 ms orders and one fast read trip the rollback
  (tests/test_sprint3_operational.py:115).
- HTTP 500: docs/DISASTER_RECOVERY.md:27 has the breaker trip on "HTTP 500 crashes"; app.py:945
  records a success for every HTTP answer (`Respond`).
- Breaker, isolation: in OPEN "upstream calls" are "short-circuited immediately" (ha_dr.py:22),
  but the second attempt after a closed event loop (app.py:972) asks nobody and goes there;
  `NoCallDuringCooldown` says that nothing else does.
- Breaker: `ha_dr.py:23` speaks of limited trial calls, HALF_OPEN lets every request
  through (`Pass`); successes of calls sent before the trip count as trials
  (tests/test_phase10_hardening_compliance.py:85); each process has its own breaker.
- Containment: `reject_action` (response_agent.py:182) takes any status, so an executed action
  can be rejected, stays enforced, and cannot be revoked any more. After a restart the registry
  is gone and the entries in Redis are not, so nothing can be revoked (response_agent.py:4,
  "100% reversible rollback"). The agent's view of what is contained (orchestrator.py:132)
  never expires. An expired local entry of the address hides one of the user in force
  (mitigation_engine.py:244), and sweeping it deletes what Redis holds by then (271), another
  process's newer entry included. A rollback while Redis does not answer leaves the entry
  there. Revoked users are written to Redis and never read from it (285). EXPIRE is set on the
  whole hash (state_store.py:205), by a command of its own: when it fails after hset, the entry
  goes with the end the hash had, sooner or never. A restart of Redis, which keeps nothing
  (docker-compose.yml:67-73), lifts a containment everywhere but in the process that applied
  it. Automatic containment names users by their pseudonym while the engine is asked about them
  by name.
- Audit: a torn write breaks the chain for good and a failed event is kept nowhere
  (docs/DISASTER_RECOVERY.md:31, "buffers in memory before atomic flush"); lines missing at the
  end are not noticed (compliance.py:5, "deletion"), and neither is a changed timestamp, which
  the block has (73) and the signature (60-61) does not cover (`Redated`;
  `AlterationIsDetected` speaks of payload and order).
- Replay guard: a timestamp ahead of the clock stays fresh for up to twice the skew, longer than
  the key lives; a request with a timestamp only may pass any number of times while it is
  fresh.
- Canary: `TrafficMetrics` (canary_router.py:41) promises a sliding window, the error rate is
  over all answers since the last reset. `set_weight` keeps the metrics `promote` clears
  (`reopened`). Answers to calls of an earlier stage are counted in the metrics of the present
  one (app.py:946), so that "since the promotion" in `TakenOutForCause` is when an answer was
  recorded, not when its call was routed. A header sends requests to a canary that was rolled
  back. A late answer can turn DISABLED into ROLLED_BACK.
- Rate limiter: "Sliding-Window Rate Limiting" (README.md:42) is what the fallback does; in
  Redis EXPIRE is renewed by every request (rate_limiter.py:88), so a counter never ends
  under steady traffic and a client below the limit per minute is refused in the end. The
  limit holds for each store (`LimitPerStore`): with Redis coming and going a client gets
  as many requests as there are processes, plus one, times the limit. A request that Redis
  counts too late is counted in the process too.
- Rules: "changes take effect without restarting" (config/rules.yaml:2), except one with the
  same or an older modification time (`missed`), and one in a process that gets no requests.
  A file read just after it was truncated parses to no rules, without an error
  (rules_engine.py:77): the process is not ready, and what would mend it is looked at by
  requests only. A file that does not parse leaves the built-in rules, not the last good
  ones. The test of the hot reload (tests/test_phase4_rules.py:168) loads once.
- Readiness: docs/PRODUCTION_RUNBOOK.md:64-65 has a minimum of six rules and inference
  capability; the code asks for one rule and for a model (ha_dr.py:121, model_service.py:224:
  no scaler, and no look at `enabled`). `ReadyScores` says when that is enough: a process that
  loads while files are being saved, or after a training ended half way, can be ready and score
  0 for every request, or scale with the scaler of another training. Rolling the models back,
  which is to fall back to the statistical baseline (model_service.py:197), makes the process
  not ready. It reaches one of the four processes, and a restart forgets it (`ModelRestart`).
- Retraining: three files, written one after another, are called atomic
  (retraining_pipeline.py:221); no code loads them. Its docstring (6) permits false positives
  of 2 %, the code 1 % (170).
- SOC feedback: reading the log ends at the first malformed line (soc_feedback.py:65-69), and
  the records after it are gone from the process.

## 6. Not modelled, and the plan

Text and numerics (WAF patterns, schemas, hashes, statistics, features, inference and
fitting of models) stay out of the models; where a decision depends on them they are
inputs. Counters for display, configuration, scripts, benchmarks and the staging ERP keep no
state the gateway depends on. The rest, with the reasons:

- *Rules*: the windows of R002 and R006 are lists in one process, changed within one step of
  the handler; no other actor sees them. The other rules are arithmetic on one request.
- *Detection, investigation, threat intelligence*: `Containment` takes any alert of the pairs
  of severity and category the agent can give (`Detectable`) at any time, so that what holds
  there holds for any history of an entity; `Gateway` counts the earlier events of a name
  and leaves out of what kind they are.
- *Baselines*: built by a script from files, read by the gateway; statistics.
- *Retraining*: writes candidate files that no code loads, so that what becomes of them
  changes nothing.
- *SOC feedback*: a list and a log that nothing in the gateway decides on.
- *Canary of the models*: a hash of the request id against a percentage.

Done: the pipeline, risk engine, breaker, engine and containment, audit chain, telemetry,
replay guard, canary router, rate limiter, rules, models and readiness, and the proofs of all
their safety properties, and the abstract specifications of the breaker, the pipeline and the
audit chain with the proofs that the code's models implement them. What is left are abstract
specifications of the engine and of the rate limiter: what they promise depends on which store
was asked, so that such a specification would have to speak of the stores and be hardly
shorter than `OnlyLiveActionsBlock` and `LimitPerStore`, which say it now.
