----------------------------- MODULE ReplayGuard -----------------------------
(***************************************************************************)
(* The replay guard of gateway/replay_guard.py with the nonces of          *)
(* gateway/state_store.py.  A state-changing request is checked for        *)
(* freshness and uniqueness before anything is known of who sends it, and  *)
(* its key stays taken whatever the steps after the guard do with it.      *)
(* Clients and networks send the same request again, to any process, as    *)
(* often as they like.                                                     *)
(***************************************************************************)
EXTENDS Integers

CONSTANTS
    Pod,        \* gateway processes
    Op,         \* state-changing requests, each with its headers
    Key,        \* nonces and idempotency keys, which share one name space
    NoKey,      \* the request carries neither
    MaxSkew,    \* max_skew_seconds in ticks, the life of a nonce as well
    Faults      \* which faults may happen

Fault == {"redis_unreachable", "redis_restart", "pod_restart"}

ASSUME ReplayAssumption ==
    /\ NoKey \notin Key
    /\ MaxSkew \in Nat \ {0}
    /\ Faults \subseteq Fault

VARIABLES
    key,         \* key[op]: the X-Nonce, or else the Idempotency-Key, of op
    age,         \* age[op]: now minus the X-Timestamp of op
    nonces,      \* nonces[k]: ticks until the key expires in Redis, 0 if absent
    fallback,    \* fallback[p][k]: ticks until expiry in process p, negative if past
    connected,   \* connected[p]: _redis_client is not None
    redisUp,     \* whether Redis answers
    since,       \* history: ticks since the guard last passed op
    witness,     \* history: the store that has taken the key then
    lost         \* history: whether that store has lost its keys since

storeVars == <<nonces, fallback, connected, redisUp>>
clientVars == <<key, age>>
history == <<since, witness, lost>>
guardVars == <<clientVars, storeVars, history>>

NoStamp == MaxSkew + 2        \* the request carries no timestamp, or "nan"
TooOld == MaxSkew + 1         \* ages are not counted further
Never == 2 * MaxSkew + 2      \* the guard has not passed the request yet
LongAgo == 2 * MaxSkew + 1    \* since is not counted further
Redis == "redis"

GuardTypeOK ==
    /\ key \in [Op -> Key \cup {NoKey}]
    /\ age \in [Op -> -(MaxSkew + 1)..NoStamp]
    /\ nonces \in [Key -> 0..MaxSkew]
    /\ fallback \in [Pod -> [Key -> -1..MaxSkew]]
    /\ connected \in [Pod -> BOOLEAN] /\ redisUp \in BOOLEAN
    /\ since \in [Op -> 0..Never]
    /\ witness \in [Op -> Pod \cup {Redis}]
    /\ lost \in [Op -> BOOLEAN]

GuardInit ==
    /\ key \in [Op -> Key \cup {NoKey}]
    /\ age \in [Op -> -(MaxSkew + 1)..NoStamp]
    /\ nonces = [k \in Key |-> 0]
    /\ fallback = [p \in Pod |-> [k \in Key |-> -1]]
    /\ connected = [p \in Pod |-> TRUE] /\ redisUp = TRUE
    /\ since = [op \in Op |-> Never]
    /\ witness = [op \in Op |-> Redis]
    /\ lost = [op \in Op |-> FALSE]

-----------------------------------------------------------------------------
\* validate_request

\* The skew is not above max_skew_seconds, or there is none: no timestamp, or "nan",
\* which compares with nothing and never gets old.
Fresh(op) == age[op] = NoStamp \/ age[op] \in -MaxSkew..MaxSkew

\* The store that decides for process p
Place(p) == IF connected[p] /\ redisUp THEN Redis ELSE p

\* Fault: a key counts as expired in the last moment of its life.
RememberedBarely(p, k) ==
    IF Place(p) = Redis THEN nonces[k] > 1 ELSE fallback[p][k] > 0
\* The key is there, whoever sent it: in Redis until it expires, in the process up to its
\* expiry
Remembered(p, k) ==
    IF Place(p) = Redis THEN nonces[k] > 0 ELSE fallback[p][k] >= 0

\* The answer of Redis to a connected process did not come in time, but Redis may have
\* taken the key.
AnswerLost(p, k) ==
    \/ UNCHANGED nonces
    \/ /\ connected[p] /\ nonces[k] = 0
       /\ nonces' = [nonces EXCEPT ![k] = MaxSkew]

\* Fault: the key is kept in the process only.
RecordLocally(p, k) ==
    /\ fallback' = [fallback EXCEPT ![p][k] = MaxSkew]
    /\ UNCHANGED nonces
\* Fault: the key outlives the timestamp, kept over the past and the future skew.
RecordTooLong(p, k) ==
    IF Place(p) = Redis
      THEN /\ nonces' = [nonces EXCEPT ![k] = 2 * MaxSkew]
           /\ UNCHANGED fallback
      ELSE /\ fallback' = [fallback EXCEPT ![p][k] = 2 * MaxSkew]
           /\ UNCHANGED nonces
\* set_nonce_nx of a key that is not there
Record(p, k) ==
    IF Place(p) = Redis
      THEN /\ nonces' = [nonces EXCEPT ![k] = MaxSkew]
           /\ UNCHANGED fallback
      ELSE /\ fallback' = [fallback EXCEPT ![p][k] = MaxSkew]
           /\ AnswerLost(p, k)

\* The guard passes op: it is fresh and its key, if it has one, is new.
Pass(p, op) ==
    /\ Fresh(op)
    /\ IF key[op] # NoKey
         THEN ~Remembered(p, key[op]) /\ Record(p, key[op])
         ELSE UNCHANGED <<nonces, fallback>>
    /\ since' = [since EXCEPT ![op] = 0]
    /\ witness' = [witness EXCEPT ![op] = Place(p)]
    /\ lost' = [lost EXCEPT ![op] = FALSE]
    /\ UNCHANGED <<clientVars, connected, redisUp>>

\* The process refuses a key of its own memory, after Redis has taken it all the same.
\* No other refusal changes anything.
RefuseKey(p, op) ==
    /\ Fresh(op) /\ key[op] # NoKey
    /\ Place(p) # Redis /\ Remembered(p, key[op])
    /\ AnswerLost(p, key[op])
    /\ UNCHANGED <<clientVars, fallback, connected, redisUp, history>>

-----------------------------------------------------------------------------
\* Time and faults

Older(a) == IF a < TooOld THEN a + 1 ELSE a
Later(n) == IF n < LongAgo THEN n + 1 ELSE n

Tick ==
    /\ age' = [op \in Op |-> Older(age[op])]
    /\ nonces' = [k \in Key |-> IF nonces[k] > 0 THEN nonces[k] - 1 ELSE 0]
    /\ fallback' = [p \in Pod |-> [k \in Key |->
         IF fallback[p][k] >= 0 THEN fallback[p][k] - 1 ELSE -1]]
    /\ since' = [op \in Op |-> Later(since[op])]
    /\ UNCHANGED <<key, connected, redisUp, witness, lost>>

RedisToggles ==
    /\ "redis_unreachable" \in Faults
    /\ redisUp' = ~redisUp
    /\ UNCHANGED <<clientVars, nonces, fallback, connected, history>>

LostBy(place) == [op \in Op |-> lost[op] \/ witness[op] = place]

\* Redis runs without persistence.
RedisRestarts ==
    /\ "redis_restart" \in Faults
    /\ nonces' = [k \in Key |-> 0]
    /\ lost' = LostBy(Redis)
    /\ UNCHANGED <<clientVars, fallback, connected, redisUp, since, witness>>

\* The new process looks for Redis at its first request and, not finding it, again
\* after 300 s.
PodRestarts(p) ==
    /\ "pod_restart" \in Faults
    /\ fallback' = [fallback EXCEPT ![p] = [k \in Key |-> -1]]
    /\ \E found \in BOOLEAN :
         /\ found => redisUp
         /\ ~found => "redis_unreachable" \in Faults
         /\ connected' = [connected EXCEPT ![p] = found]
    /\ lost' = LostBy(p)
    /\ UNCHANGED <<clientVars, nonces, redisUp, since, witness>>

\* A process without a client tries again every 300 s.
Reconnects(p) ==
    /\ ~connected[p] /\ redisUp
    /\ connected' = [connected EXCEPT ![p] = TRUE]
    /\ UNCHANGED <<clientVars, nonces, fallback, redisUp, history>>

GuardNext ==
    \/ \E p \in Pod, op \in Op : Pass(p, op) \/ RefuseKey(p, op)
    \/ Tick
    \/ RedisToggles
    \/ RedisRestarts
    \/ \E p \in Pod : PodRestarts(p) \/ Reconnects(p)

GuardSpec == GuardInit /\ [][GuardNext]_guardVars

-----------------------------------------------------------------------------
\* replay_guard.py:19, "single-use [...] guarantees across horizontal replicas": while
\* the store that took a key answers and keeps it, no process that asks this store
\* passes a request with the key, the same or another, before max_skew_seconds are over.
SingleUse ==
    [][\A p \in Pod, op, other \in Op :
         /\ Pass(p, op)
         /\ key[op] # NoKey /\ key[other] = key[op] /\ since[other] < MaxSkew
         => lost[other] \/ witness[other] # Place(p)]_guardVars

\* Freshness and single use together: while Redis answers and keeps its keys, a
\* request whose timestamp was behind the gateway's clock when it was passed is never
\* passed again, however long its key is kept: the timestamp expires before the key.
StampedOnce ==
    [][\A p \in Pod, op \in Op :
         /\ Pass(p, op) /\ key[op] # NoKey
         /\ since[op] # Never /\ ~lost[op] /\ witness[op] = Place(p)
         /\ age[op] # NoStamp
         => age[op] - since[op] <= 0]_guardVars

\* No key is refused that was not used: some request with it has passed the guard of some
\* process, and no longer ago than a key lives, or, where Redis has taken it at a
\* refusal, twice as long.  The request that is refused need not be that one: a key
\* is taken for everybody (replay_guard.py:58, state_store.py:152).
RefusedWasPassed ==
    \A p \in Pod, k \in Key :
        Remembered(p, k) =>
            \E op \in Op : /\ key[op] = k
                           /\ since[op] <= IF Place(p) = Redis THEN 2 * MaxSkew ELSE MaxSkew
=============================================================================
