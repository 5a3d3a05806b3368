-------------------------- MODULE MitigationEngine --------------------------
(***************************************************************************)
(* gateway/mitigation_engine.py on top of gateway/state_store.py: several  *)
(* gateway processes (Pod), each with its own tables of active mitigations *)
(* and its own in-memory fallback store, share one Redis.  apply_action,   *)
(* rollback_action and evaluate_request run under the engine's lock inside *)
(* one process, so each is one step; the processes and Redis interleave.   *)
(*                                                                         *)
(* Times are kept as time left.  An entry carries the ticks until its      *)
(* "until"; Redis carries the ticks until the EXPIRE of a whole hash.      *)
(***************************************************************************)
EXTENDS Integers

CONSTANTS
    Pod,          \* gateway worker processes
    Entity,       \* IP addresses, principals and tokens
    Token,        \* the entities longer than 32 characters or "Bearer ..."
    Whitelisted,  \* config.is_ip_whitelisted
    Id,           \* action ids
    NoId,         \* no action, no principal, no token
    Duration,     \* min(duration_seconds, cap) of each kind of action, in ticks
    MaxDuration,  \* a bound on them
    Faults        \* which faults may happen

Kind == {"quarantine_ip_temp", "revoke_session", "challenge_mfa", "rate_limit",
         "suspend_account", "block_cidr_organization"}

Fault == {"redis_unreachable", "redis_restart", "pod_restart"}

ASSUME EngineAssumption ==
    /\ Token \subseteq Entity /\ Whitelisted \subseteq Entity
    /\ NoId \notin Id \cup Entity
    /\ MaxDuration \in Nat
    /\ Duration \in [Kind -> 1..MaxDuration]
    /\ Faults \subseteq Fault

\* An AgentAction, as far as the engine looks at it
Action == [id : Id, kind : Kind, target : Entity]

VARIABLES
    local,        \* local[p][t][e]: the engine's tables in process p
    registry,     \* registry[p]: the actions in _action_registry of process p
    fallback,     \* fallback[p][t][e]: InMemoryStateStore of process p
    connected,    \* connected[p]: _redis_client is not None
    redis,        \* redis[t][e]: the hashes and the set in Redis
    redisTTL,     \* redisTTL[t]: ticks until the hash t expires
    redisUp       \* whether Redis answers

storeVars == <<fallback, connected, redis, redisTTL, redisUp>>
engineVars == <<local, registry, fallback, connected, redis, redisTTL, redisUp>>

\* Tables that are also written to the shared store, and those that are not
SharedTable == {"quarantined_ips", "revoked_tokens", "revoked_principals",
                "suspended_accounts"}
LocalTable == {"mfa_enforced_principals", "dynamic_rate_limits"}
Table == SharedTable \cup LocalTable

\* Time left of what has no "until", and of a hash that was never given a TTL
Forever == MaxDuration + 1

\* until < now once left is negative; it is not counted further down.
Entry == [left : -1..Forever, id : Id \cup {NoId}]
Absent == [left |-> 0, id |-> NoId]

Present(entry) == entry.id # NoId
InForce(entry) == Present(entry) /\ entry.left >= 0
Expired(entry) == Present(entry) /\ entry.left < 0

EmptyTable == [e \in Entity |-> Absent]

EngineTypeOK ==
    /\ local \in [Pod -> [Table -> [Entity -> Entry]]]
    /\ registry \in [Pod -> SUBSET Action]
    /\ fallback \in [Pod -> [SharedTable -> [Entity -> Entry]]]
    /\ connected \in [Pod -> BOOLEAN]
    /\ redis \in [SharedTable -> [Entity -> Entry]]
    /\ redisTTL \in [SharedTable -> 1..Forever]
    /\ redisUp \in BOOLEAN

EngineInit ==
    /\ local = [p \in Pod |-> [t \in Table |-> EmptyTable]]
    /\ registry = [p \in Pod |-> {}]
    /\ fallback = [p \in Pod |-> [t \in SharedTable |-> EmptyTable]]
    /\ connected = [p \in Pod |-> TRUE]
    /\ redis = [t \in SharedTable |-> EmptyTable]
    /\ redisTTL = [t \in SharedTable |-> Forever]
    /\ redisUp = TRUE

-----------------------------------------------------------------------------
\* DistributedStateStore: writes go to Redis, as far as it answers, and always to
\* the fallback; a read takes the fallback only when Redis does not answer.

Reaches(p) == connected[p] /\ redisUp

\* Fault: entries are written to the process's own fallback only.
StorePutLocally(p, t, e, entry) ==
    /\ fallback' = [fallback EXCEPT ![p][t][e] = entry]
    /\ UNCHANGED <<redis, redisTTL>>

\* The EXPIRE that follows hset for an entry with a duration.  It sets the TTL anew for
\* the whole hash, or fails, or is not sent because the answer to hset did not come.
Expire(t, entry) ==
    \/ entry.left # Forever /\ redisTTL' = [redisTTL EXCEPT ![t] = entry.left]
    \/ /\ entry.left = Forever \/ "redis_unreachable" \in Faults
       /\ UNCHANGED redisTTL

\* set_hash_entry and add_to_set.  hset keeps the TTL the hash has.
StorePut(p, t, e, entry) ==
    /\ fallback' = [fallback EXCEPT ![p][t][e] = entry]
    /\ IF Reaches(p)
         THEN redis' = [redis EXCEPT ![t][e] = entry] /\ Expire(t, entry)
         ELSE UNCHANGED <<redis, redisTTL>>

StoreGet(p, t, e) == IF Reaches(p) THEN redis[t][e] ELSE fallback[p][t][e]

\* Fault: only the fallback is cleared.
StoreDeleteLocally(p, t, e) ==
    /\ fallback' = [fallback EXCEPT ![p][t][e] = Absent]
    /\ UNCHANGED <<redis, redisTTL>>

\* A hash whose last field goes is gone, its TTL with it.
TTLAfterDelete(t, hash) == IF hash = EmptyTable THEN Forever ELSE redisTTL[t]

\* delete_hash_entry and remove_from_set
StoreDelete(p, t, e) ==
    /\ fallback' = [fallback EXCEPT ![p][t][e] = Absent]
    /\ IF Reaches(p)
         THEN LET hash == [redis[t] EXCEPT ![e] = Absent]
              IN  /\ redis' = [redis EXCEPT ![t] = hash]
                  /\ redisTTL' = [redisTTL EXCEPT ![t] = TTLAfterDelete(t, hash)]
         ELSE UNCHANGED <<redis, redisTTL>>

-----------------------------------------------------------------------------
\* apply_action

\* The table an action goes to; block_cidr_organization has none.
TableOf(act) ==
    CASE act.kind = "quarantine_ip_temp" -> "quarantined_ips"
      [] act.kind = "revoke_session" /\ act.target \in Token -> "revoked_tokens"
      [] act.kind = "revoke_session" /\ act.target \notin Token -> "revoked_principals"
      [] act.kind = "challenge_mfa" -> "mfa_enforced_principals"
      [] act.kind = "rate_limit" -> "dynamic_rate_limits"
      [] OTHER -> "suspended_accounts"

NeedsApproval(act) == act.kind \in {"suspend_account", "block_cidr_organization"}

\* The approval gate raises, the whitelist and an unhandled kind return False:
\* in all three cases nothing changes.
Accepts(act, status) ==
    /\ NeedsApproval(act) => status \in {"approved", "executed"}
    /\ act.kind \in {"quarantine_ip_temp", "block_cidr_organization"}
         => act.target \notin Whitelisted
    /\ act.kind # "block_cidr_organization"

\* Fault: a suspension ends like the other actions.
EntryOfTimed(act) == [left |-> Duration[act.kind], id |-> act.id]
\* Suspensions and revoked tokens carry no "until".  The tables of revoked tokens
\* hold no action id either: there it only tells the properties whose entry it is.
EntryOf(act) ==
    [left |-> IF TableOf(act) \in {"suspended_accounts", "revoked_tokens"}
              THEN Forever ELSE Duration[act.kind],
     id |-> act.id]

\* The table t of process p after apply_action of each of acts
AfterApplying(p, t, acts) ==
    [e \in Entity |->
       LET hits == {act \in acts : TableOf(act) = t /\ act.target = e}
       IN  IF hits = {} THEN local[p][t][e]
           ELSE EntryOf(CHOOSE act \in hits : TRUE)]

\* apply_action of actions that go to different tables, at most one of them shared.
\* Actions that are not accepted are skipped.
ApplyActions(p, acts, status) ==
    LET accepted == {act \in acts : Accepts(act, status)}
        shared == {act \in accepted : TableOf(act) \in SharedTable}
    IN  /\ local' = [local EXCEPT ![p] = [t \in Table |-> AfterApplying(p, t, accepted)]]
        /\ registry' = [registry EXCEPT ![p] = @ \cup accepted]
        /\ IF shared = {}
             THEN UNCHANGED <<fallback, redis, redisTTL>>
             ELSE \E act \in shared : StorePut(p, TableOf(act), act.target, EntryOf(act))
        /\ UNCHANGED <<connected, redisUp>>

-----------------------------------------------------------------------------
\* rollback_action: the entry of the action's target goes, whichever action it is
\* of.  Unknown ids return False.  A revoked token and a revoked principal are
\* purged alike; the table the target is not in is not touched by that.
RollbackAction(p, id) ==
    IF \E act \in registry[p] : act.id = id
      THEN LET act == CHOOSE a \in registry[p] : a.id = id
           IN  /\ local' = [local EXCEPT ![p][TableOf(act)][act.target] = Absent]
               /\ registry' = [registry EXCEPT ![p] = @ \ {act}]
               /\ IF TableOf(act) \in SharedTable
                    THEN StoreDelete(p, TableOf(act), act.target)
                    ELSE UNCHANGED <<fallback, redis, redisTTL>>
               /\ UNCHANGED <<connected, redisUp>>
      ELSE UNCHANGED engineVars

-----------------------------------------------------------------------------
\* evaluate_request(client_ip, principal_ref, auth_token).  principal and token may
\* be NoId.

Request == [ip : Entity \ Token, principal : (Entity \ Token) \cup {NoId},
            token : Token \cup {NoId}]

Look(p, t, e) == IF e = NoId THEN Absent ELSE local[p][t][e]
LookShared(p, t, e) == IF e = NoId THEN Absent ELSE StoreGet(p, t, e)

\* 1. A suspension, of the process itself or of the shared store
SuspensionFor(p, r) ==
    IF Present(Look(p, "suspended_accounts", r.principal))
      THEN Look(p, "suspended_accounts", r.principal)
      ELSE LookShared(p, "suspended_accounts", r.principal)

\* 2. The quarantine that is looked at: the first that is present of the IP's and
\* the principal's in the process, the IP's and the principal's in the store.
QuarantineFor(p, r) ==
    LET q == "quarantined_ips"
        found == <<[key |-> r.ip, entry |-> Look(p, q, r.ip)],
                   [key |-> r.principal, entry |-> Look(p, q, r.principal)],
                   [key |-> r.ip, entry |-> LookShared(p, q, r.ip)],
                   [key |-> r.principal, entry |-> LookShared(p, q, r.principal)]>>
        hits == {n \in 1..4 : Present(found[n].entry)}
    IN  IF hits = {} THEN [key |-> NoId, entry |-> Absent]
        ELSE found[CHOOSE n \in hits : \A m \in hits : n <= m]

\* 3. A revoked token, of the process or of the store; a revoked principal, of the
\* process only
TokenRevocationFor(p, r) ==
    IF Present(Look(p, "revoked_tokens", r.token))
      THEN Look(p, "revoked_tokens", r.token)
      ELSE LookShared(p, "revoked_tokens", r.token)

\* 5. The throttle that is looked at: the IP's if there is one
ThrottleKey(p, r) ==
    IF Present(Look(p, "dynamic_rate_limits", r.ip)) THEN r.ip ELSE r.principal

\* The tables in the order they are consulted, with the entry each shows for r
Consulted(p, r) ==
    <<SuspensionFor(p, r),
      QuarantineFor(p, r).entry,
      TokenRevocationFor(p, r),
      Look(p, "revoked_principals", r.principal),
      Look(p, "mfa_enforced_principals", r.principal),
      Look(p, "dynamic_rate_limits", ThrottleKey(p, r))>>

\* The first of them that is in force answers; 7 stands for none.  The steps before
\* it were gone through.
AnsweringStep(seen) ==
    CHOOSE n \in 1..7 : /\ n = 7 \/ InForce(seen[n])
                        /\ \A m \in 1..(n - 1) : ~InForce(seen[m])

IsMitigated(p, r) == AnsweringStep(Consulted(p, r)) # 7

\* The action a refused request is refused for
Blocker(p, r) ==
    LET seen == Consulted(p, r)
    IN  IF AnsweringStep(seen) = 7 THEN NoId ELSE seen[AnsweringStep(seen)].id

\* Removes the entry of e from a table if the condition holds
Sweep(table, cond, e) == IF cond THEN [table EXCEPT ![e] = Absent] ELSE table

\* The steps gone through remove the entries they find expired.
EvaluateRequest(p, r) ==
    LET seen == Consulted(p, r)
        swept == {n \in 1..(AnsweringStep(seen) - 1) : Expired(seen[n])}
        key == QuarantineFor(p, r).key
    IN  /\ local' = [local EXCEPT ![p] = [local[p] EXCEPT
             !["quarantined_ips"] = Sweep(@, 2 \in swept, key),
             !["revoked_principals"] = Sweep(@, 4 \in swept, r.principal),
             !["mfa_enforced_principals"] = Sweep(@, 5 \in swept, r.principal),
             !["dynamic_rate_limits"] = Sweep(@, 6 \in swept, ThrottleKey(p, r))]]
        /\ IF 2 \in swept
             THEN StoreDelete(p, "quarantined_ips", key)
             ELSE UNCHANGED <<fallback, redis, redisTTL>>
        /\ UNCHANGED <<registry, connected, redisUp>>

-----------------------------------------------------------------------------
\* Time and faults

Older(entry) ==
    IF Present(entry) /\ entry.left \in 0..MaxDuration
      THEN [entry EXCEPT !.left = @ - 1] ELSE entry

OlderTable(table) == [e \in Entity |-> Older(table[e])]

\* A tick.  Redis drops a hash whose TTL runs out.
EngineTick ==
    /\ local' = [p \in Pod |-> [t \in Table |-> OlderTable(local[p][t])]]
    /\ fallback' = [p \in Pod |-> [t \in SharedTable |-> OlderTable(fallback[p][t])]]
    /\ redis' = [t \in SharedTable |->
                   IF redisTTL[t] = 1 THEN EmptyTable ELSE OlderTable(redis[t])]
    /\ redisTTL' = [t \in SharedTable |->
                      CASE redisTTL[t] = Forever -> Forever
                        [] redisTTL[t] = 1 -> Forever
                        [] OTHER -> redisTTL[t] - 1]
    /\ UNCHANGED <<registry, connected, redisUp>>

\* Redis stops answering (every operation times out and is caught), and answers again.
RedisToggles ==
    /\ "redis_unreachable" \in Faults
    /\ redisUp' = ~redisUp
    /\ UNCHANGED <<local, registry, fallback, connected, redis, redisTTL>>

\* Redis runs without persistence (docker-compose.yml: --save "" --appendonly no).
RedisRestarts ==
    /\ "redis_restart" \in Faults
    /\ redis # [t \in SharedTable |-> EmptyTable]
    /\ redis' = [t \in SharedTable |-> EmptyTable]
    /\ redisTTL' = [t \in SharedTable |-> Forever]
    /\ UNCHANGED <<local, registry, fallback, connected, redisUp>>

\* A process starts anew.  It looks for Redis at its first use of the store and, not
\* finding it, again after 300 s.
PodRestarts(p) ==
    /\ "pod_restart" \in Faults
    /\ local' = [local EXCEPT ![p] = [t \in Table |-> EmptyTable]]
    /\ registry' = [registry EXCEPT ![p] = {}]
    /\ fallback' = [fallback EXCEPT ![p] = [t \in SharedTable |-> EmptyTable]]
    /\ \E found \in BOOLEAN :
         /\ found => redisUp
         /\ ~found => "redis_unreachable" \in Faults
         /\ connected' = [connected EXCEPT ![p] = found]
    /\ UNCHANGED <<redis, redisTTL, redisUp>>

\* _get_redis of a process without a client tries again every 300 s.
Reconnects(p) ==
    /\ ~connected[p] /\ redisUp
    /\ connected' = [connected EXCEPT ![p] = TRUE]
    /\ UNCHANGED <<local, registry, fallback, redis, redisTTL, redisUp>>
=============================================================================
