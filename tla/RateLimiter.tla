----------------------------- MODULE RateLimiter -----------------------------
(***************************************************************************)
(* The rate limiter of gateway/rate_limiter.py: the requests of one        *)
(* client are counted in Redis under one key that all processes share, or  *)
(* in the memory of the process while it has lost Redis.  Counters of      *)
(* different clients share nothing but the connection, which may come and  *)
(* go at any time here.                                                    *)
(***************************************************************************)
EXTENDS Integers

CONSTANTS
    Pod,         \* gateway processes
    Limit,       \* requests in a window before app.py:890 answers 429
    Window,      \* the 60 seconds of a counter, in ticks
    CheckEvery,  \* the 300 seconds between two looks for Redis, in ticks
    Faults       \* which faults may happen

Fault == {"redis_gone", "redis_late", "redis_restart", "pod_restart"}

ASSUME RateAssumption ==
    /\ Limit \in Nat \ {0} /\ Window \in Nat \ {0} /\ CheckEvery \in Nat \ {0}
    /\ Faults \subseteq Fault

Redis == "redis"
Store == Pod \cup {Redis}

ASSUME RedisIsNoPod == Redis \notin Pod

VARIABLES
    redis,      \* "answers", "late" (carries out, answers after the timeout), "gone"
    count,      \* the value of the key in Redis, 0 if there is none
    ttl,        \* ticks until the key expires
    records,    \* records[p][a]: timestamps of age at most a in the fallback of p
    available,  \* available[p]: _redis_available
    unchecked,  \* unchecked[p]: ticks since _last_check
    accepted,   \* history: accepted[s][a]: requests let through on s, at most a ticks ago
    silence,    \* history: ticks since the last request of the client
    burst       \* history: its requests since the last silence of a window

storeVars == <<redis, count, ttl, records, available, unchecked>>
history == <<accepted, silence, burst>>
vars == <<storeVars, history>>

\* Bound: counts above the limit are not told apart.
Cap == Limit + 1
AtMost(n) == IF n > Cap THEN Cap ELSE n

\* A timestamp counts while it is less than a window old.  A record of them says
\* how many are of age a or younger, so that the last entry is the whole window.
Age == 0..(Window - 1)
Nothing == [a \in Age |-> 0]
OneMore(record) == [a \in Age |-> AtMost(record[a] + 1)]

TypeOK ==
    /\ redis \in {"answers", "late", "gone"}
    /\ count \in 0..Cap /\ ttl \in 0..Window
    /\ records \in [Pod -> [Age -> 0..Cap]]
    /\ available \in [Pod -> BOOLEAN]
    /\ unchecked \in [Pod -> 0..CheckEvery]
    /\ accepted \in [Store -> [Age -> 0..Cap]]
    /\ silence \in 0..Window /\ burst \in 0..Cap

Init ==
    /\ redis = "answers"
    /\ count = 0 /\ ttl = 0
    /\ records = [p \in Pod |-> Nothing]
    /\ available = [p \in Pod |-> FALSE]
    /\ unchecked = [p \in Pod |-> CheckEvery]
    /\ accepted = [s \in Store |-> Nothing]
    /\ silence = Window /\ burst = 0

-----------------------------------------------------------------------------
(* _get_redis: without a client, a process looks for Redis again only when  *)
(* the last look is CheckEvery old; the look itself restarts that period,   *)
(* found or not.                                                            *)

Looks(p) == ~available[p] /\ unchecked[p] >= CheckEvery

HasClient(p) == available[p] \/ (Looks(p) /\ redis = "answers")

\* Fault: every call without Redis restarts the period.
LookPostponed(p) == unchecked' = [unchecked EXCEPT ![p] = IF available[p] THEN @ ELSE 0]

Look(p) == unchecked' = [unchecked EXCEPT ![p] = IF Looks(p) THEN 0 ELSE @]

\* Fault: the window of the fallback ends one tick early.
CountedShort(record) == IF Window = 1 THEN 0 ELSE record[Window - 2]

\* What the fallback counts: the timestamps that are less than a window old.
Counted(record) == record[Window - 1]

InStore(s) == IF s = Redis THEN count ELSE Counted(records[s])

(* History: a request, let through by the answer `n` of store `s` or not.   *)
Answered(s, n) ==
    /\ accepted' = IF n > Limit THEN accepted
                   ELSE [accepted EXCEPT ![s] = OneMore(@)]
    /\ silence' = 0
    /\ burst' = AtMost(burst + 1)

\* Fault: INCR without EXPIRE.
CountForever ==
    /\ count' = AtMost(count + 1)
    /\ UNCHANGED ttl

\* Fault: the key lives longer than the window.
CountLonger ==
    /\ count' = AtMost(count + 1)
    /\ ttl' = Window + 1

\* INCR and EXPIRE, in one transaction.
CountInRedis ==
    /\ count' = AtMost(count + 1)
    /\ ttl' = Window

\* InMemoryRateLimiter.check_and_increment: purge, append, count.
CountInMemory(p) ==
    /\ records' = [records EXCEPT ![p] = OneMore(@)]
    /\ Answered(p, Counted(records'[p]))

(* check_rate and the 429 of the gateway, by what Redis does.               *)

\* Redis answers in time.
CheckInRedis(p) ==
    /\ HasClient(p) /\ redis = "answers"
    /\ Look(p)
    /\ available' = [available EXCEPT ![p] = TRUE]
    /\ CountInRedis
    /\ Answered(Redis, count')
    /\ UNCHANGED <<redis, records>>

\* The transaction fails, on the client at hand or on one just found, and Redis
\* may have carried it out nevertheless: the request is counted again in the
\* process.
CheckFails(p) ==
    /\ (available[p] \/ Looks(p)) /\ redis # "answers"
    /\ Look(p)
    /\ available' = [available EXCEPT ![p] = FALSE]
    /\ IF redis = "late" THEN CountInRedis ELSE UNCHANGED <<count, ttl>>
    /\ CountInMemory(p)
    /\ UNCHANGED redis

\* No client, and no new look or one in vain.
CheckInMemory(p) ==
    /\ ~HasClient(p)
    /\ Look(p)
    /\ CountInMemory(p)
    /\ UNCHANGED <<redis, count, ttl, available>>

CheckRate(p) == CheckInRedis(p) \/ CheckFails(p) \/ CheckInMemory(p)

-----------------------------------------------------------------------------
(* Time, Redis and restarts. *)

Older(record) == [a \in Age |-> IF a = 0 THEN 0 ELSE record[a - 1]]

Tick ==
    /\ records' = [p \in Pod |-> Older(records[p])]
    /\ accepted' = [s \in Store |-> Older(accepted[s])]
    /\ unchecked' = [p \in Pod |-> IF unchecked[p] < CheckEvery
                                   THEN unchecked[p] + 1 ELSE CheckEvery]
    /\ ttl' = IF ttl = 0 THEN 0 ELSE ttl - 1
    /\ count' = IF ttl = 1 THEN 0 ELSE count
    /\ silence' = IF silence = Window THEN Window ELSE silence + 1
    /\ burst' = IF silence' = Window THEN 0 ELSE burst
    /\ UNCHANGED <<redis, available>>

RedisChanges ==
    /\ redis' \in {"answers"} \cup (IF "redis_gone" \in Faults THEN {"gone"} ELSE {})
                              \cup (IF "redis_late" \in Faults THEN {"late"} ELSE {})
    /\ redis' # redis
    /\ UNCHANGED <<count, ttl, records, available, unchecked, history>>

RedisRestarts ==
    /\ "redis_restart" \in Faults
    /\ count' = 0 /\ ttl' = 0
    /\ accepted' = [accepted EXCEPT ![Redis] = Nothing]
    /\ UNCHANGED <<redis, records, available, unchecked, silence, burst>>

PodRestarts(p) ==
    /\ "pod_restart" \in Faults
    /\ records' = [records EXCEPT ![p] = Nothing]
    /\ available' = [available EXCEPT ![p] = FALSE]
    /\ unchecked' = [unchecked EXCEPT ![p] = CheckEvery]
    /\ accepted' = [accepted EXCEPT ![p] = Nothing]
    /\ UNCHANGED <<redis, count, ttl, silence, burst>>

Next ==
    \/ \E p \in Pod : CheckRate(p) \/ PodRestarts(p)
    \/ Tick
    \/ RedisChanges
    \/ RedisRestarts

\* Clients keep sending requests to every process, and time passes.
Fairness == WF_vars(Tick) /\ \A p \in Pod : WF_vars(CheckRate(p))

Spec == Init /\ [][Next]_vars /\ Fairness

-----------------------------------------------------------------------------
\* No store lets more than the limit through in any window (until it loses
\* its counters), whichever way the processes went back and forth between
\* Redis and their memory.  So a client gets Limit * (1 + Cardinality(Pod))
\* at most: the limit is not one of the service.
LimitPerStore == \A s \in Store : accepted[s][Window - 1] <= Limit

\* No counter is ahead of the client: after a window without any request
\* every counter starts from zero, and a request counted twice, once by a
\* Redis that answers late, is counted once in each store.  A client that
\* sent no more than the limit since it last paused is never refused.
NoCounterRunsAhead == \A s \in Store : InStore(s) <= burst

\* While Redis answers, every process that gets requests counts in Redis
\* again and again: none is left on its own counters.
Rejoins == \A p \in Pod : <>[](redis = "answers") => []<>available[p]

=============================================================================
