----------------------------- MODULE EngineUse -----------------------------
(***************************************************************************)
(* MitigationEngine under any caller: actions of every kind, in every      *)
(* approval status, are applied and rolled back in any process, as the     *)
(* tests and the operators of gateway/mitigation_engine.py do.  Plans use  *)
(* four of the six kinds (Containment); here the engine keeps its promises *)
(* by itself.                                                              *)
(***************************************************************************)
EXTENDS MitigationEngine

CONSTANTS
    Use,   \* bound: the actions that may be asked for
    Come   \* bound: the requests that may come

ASSUME UseAssumption == Use \subseteq Action /\ Come \subseteq Request

VARIABLES
    fate,       \* history: what became of the action with an id
    issued,     \* history: the actions that were applied
    remaining,  \* history: the ticks they have left
    heard       \* history: the ids whose last call reached Redis, which still knows

ApprovalStatus == {"auto_approved", "pending", "approved", "executed", "rejected", "revoked"}
Fate == {"new", "refused", "applied", "rolled back"}

historyVars == <<fate, issued, remaining, heard>>
useVars == <<engineVars, historyVars>>

UseInit ==
    /\ EngineInit
    /\ fate = [id \in Id |-> "new"] /\ remaining = [id \in Id |-> 0]
    /\ issued = {} /\ heard = {}

\* Whether the call of process p about an action reached Redis, as a whole
Heard(id, reached) == heard' = IF reached THEN heard \cup {id} ELSE heard \ {id}

\* apply_action of an action that has just been made
Apply(p, act, status) ==
    /\ fate[act.id] = "new"
    /\ ApplyActions(p, {act}, status)
    /\ IF act \in registry'[p]
         THEN /\ fate' = [fate EXCEPT ![act.id] = "applied"]
              /\ issued' = issued \cup {act}
              /\ remaining' = [remaining EXCEPT ![act.id] = EntryOf(act).left]
              /\ Heard(act.id,
                       /\ Reaches(p)
                       /\ \/ EntryOf(act).left = Forever
                          \/ redisTTL'[TableOf(act)] = EntryOf(act).left)
         ELSE /\ fate' = [fate EXCEPT ![act.id] = "refused"]
              /\ UNCHANGED <<issued, remaining, heard>>

Rollback(p, id) ==
    /\ RollbackAction(p, id)
    /\ IF \E act \in registry[p] : act.id = id
         THEN /\ fate' = [fate EXCEPT ![id] = "rolled back"]
              /\ Heard(id, Reaches(p))
         ELSE UNCHANGED <<fate, heard>>
    /\ UNCHANGED <<issued, remaining>>

UseTick ==
    /\ EngineTick
    /\ remaining' = [id \in Id |->
         IF remaining[id] \in 0..MaxDuration /\ fate[id] # "new"
           THEN remaining[id] - 1 ELSE remaining[id]]
    /\ UNCHANGED <<fate, issued, heard>>

Environment ==
    \/ \E p \in Pod, r \in Come : EvaluateRequest(p, r)
    \/ \E p \in Pod : PodRestarts(p) \/ Reconnects(p)
    \/ RedisToggles

\* What Redis was told is lost, but that an action was rolled back.
UseRedisRestarts ==
    /\ RedisRestarts
    /\ heard' = {id \in heard : fate[id] = "rolled back"}
    /\ UNCHANGED <<fate, issued, remaining>>

UseNext ==
    \/ \E p \in Pod, act \in Use, status \in ApprovalStatus : Apply(p, act, status)
    \/ \E p \in Pod, id \in Id : Rollback(p, id)
    \/ UseTick
    \/ UseRedisRestarts
    \/ Environment /\ UNCHANGED historyVars

UseSpec == UseInit /\ [][UseNext]_useVars

-----------------------------------------------------------------------------
\* A request is refused only for an action that has not run its duration and was not
\* rolled back, in every process, although the rollback reaches the tables of one
\* process and of Redis only.  The exception is a rollback while Redis did not answer
\* (state_store.py:241): the process forgets the action and Redis keeps the entry.
OnlyLiveActionsBlock ==
    \A p \in Pod, r \in Request :
        IsMitigated(p, r) =>
            LET id == Blocker(p, r)
            IN  remaining[id] >= 0 /\ (fate[id] = "rolled back" => id \notin heard)

\* Another action was carried out on the same target in the same table.
HasRival(act) ==
    \E other \in issued \ {act} :
        TableOf(other) = TableOf(act) /\ other.target = act.target

\* A request that comes from the target of an action: with the token that is revoked,
\* or by its address and its name
RequestsOf(act) ==
    {r \in Request : IF TableOf(act) = "revoked_tokens" THEN r.token = act.target
                     ELSE r.ip = act.target /\ r.principal = act.target}

\* What Redis was told, by both commands of a write, keeps the target out of every
\* process that reaches Redis until it is rolled back, over, or lost with all the rest
\* when Redis itself starts anew (docker-compose.yml:67-73), even when the process that
\* applied it has started anew and forgotten it.
SharedReachesAll ==
    \A act \in issued, p \in Pod :
        /\ TableOf(act) \in SharedTable \ {"revoked_principals"}
        /\ act.id \in heard /\ fate[act.id] = "applied" /\ remaining[act.id] > 0
        /\ ~HasRival(act)
        /\ Reaches(p)
        => \A r \in RequestsOf(act) : IsMitigated(p, r)

\* Rolling back reverses applying: when everything that was applied has been rolled
\* back, and Redis heard of it, no table holds anything.
NothingLeftBehind ==
    (\A id \in Id : fate[id] \in {"new", "refused"}
                    \/ (fate[id] = "rolled back" /\ id \in heard)) =>
        /\ \A p \in Pod : registry[p] = {} /\ \A t \in Table : local[p][t] = EmptyTable
        /\ \A t \in SharedTable : redis[t] = EmptyTable
=============================================================================
