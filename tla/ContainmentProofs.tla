-------------------------- MODULE ContainmentProofs --------------------------
(***************************************************************************)
(* Theorems about Containment for any number of processes, incidents and   *)
(* entities, any durations and any of the faults.  First what the          *)
(* operations of the engine do to what the suspension tables hold (what    *)
(* they do to any table is in EngineProofs), then the same for the steps   *)
(* of the workflow.                                                        *)
(***************************************************************************)
EXTENDS Containment, EngineProofs

S == "suspended_accounts"

\* What a table holds are actions of a set of ids.
Holds(table, ids) == \A e \in Entity : Present(table[e]) => table[e].id \in ids

\* Every table of suspensions holds approved actions.
Suspends ==
    /\ \A p \in Pod : Holds(local[p][S], approved) /\ Holds(fallback[p][S], approved)
    /\ Holds(redis[S], approved)

\* A process knows an action only of an incident that has a target.
TargetsKnown ==
    \A p \in Pod, id \in Id : status[p][id] # "unknown" => subject[id[1]] \in Subject

Inv == TypeOK /\ TargetsKnown /\ Suspends

-----------------------------------------------------------------------------
\* The store

\* Deleting adds nothing to the tables.
LEMMA StoreDeleteHolds ==
    ASSUME EngineTypeOK, NEW p \in Pod, NEW t \in SharedTable, NEW e \in Entity,
           StoreDelete(p, t, e), approved' = approved,
           \A q \in Pod : Holds(fallback[q][S], approved), Holds(redis[S], approved)
    PROVE  (\A q \in Pod : Holds(fallback'[q][S], approved')) /\ Holds(redis'[S], approved')
<1>1. S \in SharedTable
  BY DEF S, SharedTable
<1>2. \A q \in Pod, f \in Entity :
        fallback'[q][S][f] \in {fallback[q][S][f], Absent}
  BY <1>1 DEF StoreDelete, EngineTypeOK
<1>3. \A f \in Entity : redis'[S][f] \in {redis[S][f], Absent}
  <2>1. \/ redis' = redis
        \/ redis' = [redis EXCEPT ![t] = [redis[t] EXCEPT ![e] = Absent]]
    BY DEF StoreDelete
  <2>2. CASE redis' = redis
    BY <2>2
  <2>3. CASE redis' = [redis EXCEPT ![t] = [redis[t] EXCEPT ![e] = Absent]]
    <3>1. redis' \in [SharedTable -> [Entity -> Entry \cup {Absent}]] /\ S \in DOMAIN redis
      BY <1>1, <2>3 DEF EngineTypeOK
    <3>2. CASE S = t
      <4>1. redis'[S] = [redis[S] EXCEPT ![e] = Absent]
        BY <2>3, <3>1, <3>2
      <4> QED
        BY <4>1, <1>1 DEF EngineTypeOK
    <3>3. CASE S # t
      BY <2>3, <3>1, <3>3
    <3> QED
      BY <3>2, <3>3
  <2>4. QED
    BY <2>1, <2>2, <2>3
<1>4. QED
  BY <1>2, <1>3, AbsentTypes DEF Holds

-----------------------------------------------------------------------------
\* apply_action

\* Applying adds to the suspensions only actions that go there.
LEMMA ApplyHolds ==
    ASSUME EngineTypeOK, NEW p \in Pod, NEW acts \in SUBSET Action, NEW st,
           ApplyActions(p, acts, st), Suspends, approved \subseteq approved',
           \A act \in acts : TableOf(act) = S => act.id \in approved'
    PROVE  Suspends'
<1> DEFINE accepted == {act \in acts : Accepts(act, st)}
<1>s. S \in SharedTable /\ S \in Table
  BY DEF S, SharedTable, Table
<1>h. /\ \A q \in Pod : Holds(local[q][S], approved') /\ Holds(fallback[q][S], approved')
      /\ Holds(redis[S], approved')
  BY DEF Suspends, Holds
<1>1. Holds(AfterApplying(p, S, accepted), approved')
  <2> SUFFICES ASSUME NEW e \in Entity, Present(AfterApplying(p, S, accepted)[e])
               PROVE  AfterApplying(p, S, accepted)[e].id \in approved'
    BY DEF Holds
  <2> DEFINE hits == {act \in accepted : TableOf(act) = S /\ act.target = e}
  <2>1. CASE hits = {}
    BY <1>h, <2>1 DEF AfterApplying, Holds
  <2>2. CASE hits # {}
    <3>1. /\ (CHOOSE act \in hits : TRUE) \in Action
          /\ (CHOOSE act \in hits : TRUE).id \in approved'
      BY <2>2
    <3>2. QED
      BY <2>2, <3>1, EntryTypes DEF AfterApplying
  <2>3. QED
    BY <2>1, <2>2
<1>2. \A q \in Pod : Holds(local'[q][S], approved')
  BY <1>s, <1>h, <1>1 DEF ApplyActions, EngineTypeOK
<1>3. (\A q \in Pod : Holds(fallback'[q][S], approved')) /\ Holds(redis'[S], approved')
  <2>1. CASE {act \in accepted : TableOf(act) \in SharedTable} = {}
    BY <1>h, <2>1 DEF ApplyActions
  <2>2. CASE {act \in accepted : TableOf(act) \in SharedTable} # {}
    <3>1. PICK act \in accepted : /\ TableOf(act) \in SharedTable
                                  /\ StorePut(p, TableOf(act), act.target, EntryOf(act))
      BY <2>2 DEF ApplyActions
    <3>2. EntryOf(act).id = act.id
      BY EntryTypes
    <3>3. \A q \in Pod, e \in Entity :
            \/ fallback'[q][S][e] = fallback[q][S][e]
            \/ TableOf(act) = S /\ fallback'[q][S][e] = EntryOf(act)
      BY <1>s, <3>1 DEF StorePut, EngineTypeOK
    <3>4. \A e \in Entity : \/ redis'[S][e] = redis[S][e]
                            \/ TableOf(act) = S /\ redis'[S][e] = EntryOf(act)
      BY <1>s, <3>1 DEF StorePut, EngineTypeOK
    <3>5. QED
      BY <1>h, <3>2, <3>3, <3>4 DEF Holds
  <2>3. QED
    BY <2>1, <2>2
<1>4. QED
  BY <1>2, <1>3 DEF Suspends
-----------------------------------------------------------------------------
\* rollback_action

\* Rolling back adds no suspension.
LEMMA RollbackHolds ==
    ASSUME EngineTypeOK, NEW p \in Pod, NEW id \in Id, RollbackAction(p, id),
           Suspends, approved' = approved
    PROVE  Suspends'
<1>s. S \in SharedTable /\ S \in Table
  BY DEF S, SharedTable, Table
<1>1. CASE \E act \in registry[p] : act.id = id
  <2> DEFINE act == CHOOSE a \in registry[p] : a.id = id
  <2>1. act \in Action
    BY <1>1 DEF EngineTypeOK
  <2>2. act.target \in Entity /\ TableOf(act) \in Table
    BY <2>1, EntryTypes DEF Action
  <2>r. /\ local' = [local EXCEPT ![p][TableOf(act)][act.target] = Absent]
        /\ IF TableOf(act) \in SharedTable
             THEN StoreDelete(p, TableOf(act), act.target)
             ELSE UNCHANGED <<fallback, redis, redisTTL>>
    BY <1>1 DEF RollbackAction
  <2> HIDE DEF act
  <2>3. \A q \in Pod, e \in Entity : local'[q][S][e] \in {local[q][S][e], Absent}
    BY <1>s, <2>r, <2>2 DEF EngineTypeOK
  <2>4. \A q \in Pod : Holds(local'[q][S], approved')
    BY <2>3, AbsentTypes DEF Suspends, Holds
  <2>5. (\A q \in Pod : Holds(fallback'[q][S], approved')) /\ Holds(redis'[S], approved')
    <3>1. CASE TableOf(act) \in SharedTable
      BY <2>r, <2>2, <3>1, StoreDeleteHolds DEF Suspends
    <3>2. CASE TableOf(act) \notin SharedTable
      BY <2>r, <3>2 DEF Suspends
    <3>3. QED
      BY <3>1, <3>2
  <2>6. QED
    BY <2>4, <2>5 DEF Suspends
<1>2. CASE ~ \E act \in registry[p] : act.id = id
  BY <1>2 DEF RollbackAction, engineVars, Suspends
<1>3. QED
  BY <1>1, <1>2

-----------------------------------------------------------------------------
\* evaluate_request

\* Evaluating a request leaves the suspensions alone.
LEMMA EvaluateHolds ==
    ASSUME EngineTypeOK, NEW p \in Pod, NEW r \in Request, EvaluateRequest(p, r),
           Suspends, approved' = approved
    PROVE  Suspends'
<1> DEFINE seen == Consulted(p, r)
           swept == {n \in 1..(AnsweringStep(seen) - 1) : Expired(seen[n])}
           key == QuarantineFor(p, r).key
<1>1. \A q \in Pod : local'[q][S] = local[q][S]
  <2>1. local' = [local EXCEPT ![p] = [local[p] EXCEPT
           !["quarantined_ips"] = Sweep(@, 2 \in swept, key),
           !["revoked_principals"] = Sweep(@, 4 \in swept, r.principal),
           !["mfa_enforced_principals"] = Sweep(@, 5 \in swept, r.principal),
           !["dynamic_rate_limits"] = Sweep(@, 6 \in swept, ThrottleKey(p, r))]]
    BY DEF EvaluateRequest
  <2> HIDE DEF swept, key
  <2>2. local' \in [Pod -> {local'[q] : q \in Pod}] /\ \A q \in Pod \ {p} : local'[q] = local[q]
    BY <2>1 DEF EngineTypeOK
  <2>3. local'[p] = [local[p] EXCEPT
           !["quarantined_ips"] = Sweep(@, 2 \in swept, key),
           !["revoked_principals"] = Sweep(@, 4 \in swept, r.principal),
           !["mfa_enforced_principals"] = Sweep(@, 5 \in swept, r.principal),
           !["dynamic_rate_limits"] = Sweep(@, 6 \in swept, ThrottleKey(p, r))]
    BY <2>1 DEF EngineTypeOK
  <2>4. S \in DOMAIN local[p] /\ S \notin {"quarantined_ips", "revoked_principals",
                                         "mfa_enforced_principals", "dynamic_rate_limits"}
    BY DEF EngineTypeOK, S, Table, SharedTable
  <2>5. local'[p][S] = local[p][S]
    BY <2>3, <2>4 DEF EngineTypeOK
  <2> QED
    BY <2>2, <2>5
<1>2. (\A q \in Pod : Holds(fallback'[q][S], approved')) /\ Holds(redis'[S], approved')
  <2>1. CASE 2 \in swept
    <3>1. Present(QuarantineFor(p, r).entry)
      BY <2>1 DEF Expired, Consulted
    <3>2. key \in Entity /\ "quarantined_ips" \in SharedTable
      BY <3>1, QuarantineKey DEF SharedTable
    <3>3. StoreDelete(p, "quarantined_ips", key)
      BY <2>1 DEF EvaluateRequest
    <3>4. QED
      BY <3>2, <3>3, StoreDeleteHolds DEF Suspends
  <2>2. CASE 2 \notin swept
    BY <2>2 DEF EvaluateRequest, Suspends
  <2>3. QED
    BY <2>1, <2>2
<1>3. QED
  BY <1>1, <1>2 DEF Suspends

-----------------------------------------------------------------------------
\* Time and faults

LEMMA TickHolds ==
    ASSUME EngineTypeOK, EngineTick, Suspends, approved' = approved
    PROVE  Suspends'
<1>s. S \in SharedTable /\ S \in Table
  BY DEF S, SharedTable, Table
<1>1. ASSUME NEW table \in [Entity -> Entry], Holds(table, approved')
      PROVE  Holds(OlderTable(table), approved')
  BY <1>1, OlderTypes DEF OlderTable, Holds, Present
<1>2. Holds(EmptyTable, approved')
  BY AbsentTypes DEF Holds, EmptyTable
<1>3. QED
  BY <1>s, <1>1, <1>2 DEF EngineTick, EngineTypeOK, Suspends

LEMMA RedisFaultSuspends ==
    ASSUME EngineTypeOK, Suspends, approved' = approved,
           RedisToggles \/ RedisRestarts \/ \E p \in Pod : Reconnects(p)
    PROVE  Suspends'
<1>s. S \in SharedTable
  BY DEF S, SharedTable
<1>1. CASE RedisToggles
  BY <1>1 DEF RedisToggles, Suspends
<1>2. CASE RedisRestarts
  BY <1>s, <1>2, AbsentTypes DEF RedisRestarts, Suspends, Holds, EmptyTable
<1>3. CASE \E p \in Pod : Reconnects(p)
  BY <1>3 DEF Reconnects, Suspends
<1>4. QED
  BY <1>1, <1>2, <1>3

LEMMA PodRestartSuspends ==
    ASSUME EngineTypeOK, Suspends, approved' = approved, NEW p \in Pod, PodRestarts(p)
    PROVE  Suspends'
<1>s. S \in SharedTable /\ S \in Table
  BY DEF S, SharedTable, Table
<1>1. \A q \in Pod : local'[q][S] \in {local[q][S], EmptyTable}
  BY <1>s DEF PodRestarts, EngineTypeOK
<1>2. \A q \in Pod : fallback'[q][S] \in {fallback[q][S], EmptyTable}
  BY <1>s DEF PodRestarts, EngineTypeOK
<1>3. Holds(EmptyTable, approved')
  BY AbsentTypes DEF Holds, EmptyTable
<1>4. QED
  BY <1>1, <1>2, <1>3 DEF PodRestarts, Suspends

-----------------------------------------------------------------------------
\* The steps of the workflow

\* The actions a plan executes at once are actions, and none suspends.
LEMMA AutoActions ==
    ASSUME NEW i \in Incident, NEW e \in Subject, NEW alert
    PROVE  LET auto == {k \in Planned(alert) : ~NeedsHuman(k)}
               acts == {[id |-> <<i, k>>, kind |-> k, target |-> e] : k \in auto}
           IN  acts \in SUBSET Action /\ \A act \in acts : TableOf(act) # S
<1> DEFINE auto == {k \in Planned(alert) : ~NeedsHuman(k)}
           acts == {[id |-> <<i, k>>, kind |-> k, target |-> e] : k \in auto}
<1>1. auto \subseteq {"rate_limit", "challenge_mfa", "quarantine_ip_temp"}
  BY DEF Planned, NeedsHuman
<1>2. \A k \in auto : k \in Kind /\ <<i, k>> \in Id
  BY <1>1, ContainmentAssumption DEF Kind, PlanKind
<1>3. e \in Entity
  BY ContainmentAssumption
<1>4. acts \in SUBSET Action
  BY <1>2, <1>3 DEF Action
<1>5. \A act \in acts : act.kind \in {"rate_limit", "challenge_mfa", "quarantine_ip_temp"}
  BY <1>1
<1>6. \A act \in acts : TableOf(act) # S
  BY <1>5 DEF TableOf, S
<1>7. QED
  BY <1>4, <1>6

LEMMA ShowTypes ==
    ASSUME NEW view \in [View -> SUBSET Subject], NEW kinds, NEW e \in Subject
    PROVE  ShowAll(view, kinds, e) \in [View -> SUBSET Subject]
BY DEF ShowAll

LEMMA HideTypes ==
    ASSUME NEW view \in [View -> SUBSET Subject], NEW kind, NEW e
    PROVE  Hide(view, kind, e) \in [View -> SUBSET Subject]
BY DEF Hide

\* An action a process knows can be carried out and rolled back.
LEMMA KnownAction ==
    ASSUME Inv, NEW p \in Pod, NEW id \in Id, status[p][id] # "unknown"
    PROVE  /\ ActionOf(id) \in Action /\ subject[id[1]] \in Subject
           /\ id[1] \in Incident /\ id[2] \in PlanKind
<1>1. subject[id[1]] \in Subject
  BY DEF Inv, TargetsKnown
<1>2. id[1] \in Incident /\ id[2] \in PlanKind
  BY ContainmentAssumption
<1>3. subject[id[1]] \in Entity /\ id[2] \in Kind
  BY <1>1, <1>2, ContainmentAssumption DEF PlanKind, Kind
<1>4. QED
  BY <1>1, <1>2, <1>3 DEF ActionOf, Action

LEMMA ProcessStep ==
    ASSUME Inv, NEW p \in Pod, NEW i \in Incident, NEW e \in Subject, NEW alert,
           ProcessSecurityEvent(p, i, e, alert)
    PROVE  Inv'
<1> DEFINE auto == {k \in Planned(alert) : ~NeedsHuman(k)}
           acts == {[id |-> <<i, k>>, kind |-> k, target |-> e] : k \in auto}
<1>1. acts \in SUBSET Action /\ \A act \in acts : TableOf(act) # S
  BY AutoActions
<1>2. ApplyActions(p, acts, "executed")
  BY DEF ProcessSecurityEvent
<1>3. EngineTypeOK'
  BY <1>1, <1>2, ApplyTypes DEF Inv, TypeOK
<1>4. Suspends'
  <2>1. approved' = approved
    BY DEF ProcessSecurityEvent
  <2>2. QED
    BY <1>1, <1>2, <2>1, ApplyHolds DEF Inv, TypeOK
<1>5. status' \in [Pod -> [Id -> Status]]
  BY DEF ProcessSecurityEvent, Inv, TypeOK, Status
<1>6. subject' \in [Incident -> Subject \cup {NoId}]
  BY DEF ProcessSecurityEvent, Inv, TypeOK
<1>7. shown' \in [Pod -> [View -> SUBSET Subject]]
  BY ShowTypes DEF ProcessSecurityEvent, Inv, TypeOK
<1>8. life' \in [Id -> Never..Forever]
  <2>1. \A id \in Id : id[2] \in Kind
    BY ContainmentAssumption DEF PlanKind, Kind
  <2>2. \A k \in Kind : Duration[k] \in Never..Forever
    BY EngineAssumption DEF Never, Forever
  <2>3. QED
    BY <2>1, <2>2 DEF ProcessSecurityEvent, Inv, TypeOK
<1>9. TargetsKnown'
  <2>1. \A id \in Id : id[1] \in Incident
    BY ContainmentAssumption
  <2>2. \A q \in Pod, id \in Id : status'[q][id] = status[q][id] \/ id[1] = i
    BY DEF ProcessSecurityEvent, Inv, TypeOK
  <2>3. subject' = [subject EXCEPT ![i] = e]
    BY DEF ProcessSecurityEvent
  <2>4. QED
    BY <2>1, <2>2, <2>3 DEF Inv, TypeOK, TargetsKnown
<1>10. QED
  BY <1>3, <1>4, <1>5, <1>6, <1>7, <1>8, <1>9 DEF ProcessSecurityEvent, Inv, TypeOK

LEMMA ApproveStep ==
    ASSUME Inv, NEW p \in Pod, NEW id \in Id, ApproveAction(p, id)
    PROVE  Inv'
<1>1. ActionOf(id) \in Action /\ subject[id[1]] \in Subject
  BY KnownAction DEF ApproveAction, MayApprove
<1>2. ApplyActions(p, {ActionOf(id)}, "executed")
  BY DEF ApproveAction
<1>3. EngineTypeOK'
  BY <1>1, <1>2, ApplyTypes DEF Inv, TypeOK
<1>4. Suspends'
  <2>1. approved \subseteq approved' /\ id \in approved' /\ ActionOf(id).id = id
    BY DEF ApproveAction, ActionOf
  <2>2. QED
    BY <1>1, <1>2, <2>1, ApplyHolds DEF Inv, TypeOK
<1>5. TargetsKnown'
  BY <1>1 DEF ApproveAction, Inv, TypeOK, TargetsKnown
<1>6. shown' \in [Pod -> [View -> SUBSET Subject]]
  BY <1>1, ShowTypes DEF ApproveAction, Inv, TypeOK
<1>7. life' \in [Id -> Never..Forever] /\ status' \in [Pod -> [Id -> Status]]
  BY EngineAssumption DEF ApproveAction, Inv, TypeOK, Status, Never, Forever
<1>8. QED
  BY <1>3, <1>4, <1>5, <1>6, <1>7 DEF ApproveAction, Inv, TypeOK

LEMMA RejectStep ==
    ASSUME Inv, NEW p \in Pod, NEW id \in Id, RejectAction(p, id)
    PROVE  Inv'
<1>1. status' \in [Pod -> [Id -> Status]] /\ TargetsKnown'
  BY DEF RejectAction, Inv, TypeOK, TargetsKnown, Status
<1>2. EngineTypeOK' /\ Suspends'
  BY DEF RejectAction, engineVars, history, Inv, TypeOK, EngineTypeOK, Suspends, Holds
<1>3. QED
  BY <1>1, <1>2 DEF RejectAction, history, Inv, TypeOK

LEMMA RevokeStep ==
    ASSUME Inv, NEW p \in Pod, NEW id \in Id, RevokeAction(p, id)
    PROVE  Inv'
<1>1. RollbackAction(p, id) /\ approved' = approved
  BY DEF RevokeAction
<1>2. EngineTypeOK' /\ Suspends'
  BY <1>1, RollbackTypes, RollbackHolds DEF Inv, TypeOK, Suspends, Holds
<1>3. status' \in [Pod -> [Id -> Status]] /\ TargetsKnown'
  BY DEF RevokeAction, MayRevoke, Inv, TypeOK, TargetsKnown, Status
<1>4. shown' \in [Pod -> [View -> SUBSET Subject]]
  BY HideTypes DEF RevokeAction, Inv, TypeOK
<1>5. QED
  BY <1>2, <1>3, <1>4 DEF RevokeAction, Inv, TypeOK

LEMMA RestartStep ==
    ASSUME Inv, NEW p \in Pod, Restart(p)
    PROVE  Inv'
<1>1. EngineTypeOK' /\ Suspends'
  BY PodRestartTypes, PodRestartSuspends DEF Restart, history, Inv, TypeOK, Suspends, Holds
<1>2. status' \in [Pod -> [Id -> Status]] /\ TargetsKnown'
  BY DEF Restart, Inv, TypeOK, TargetsKnown, Status
<1>3. shown' \in [Pod -> [View -> SUBSET Subject]]
  BY DEF Restart, Inv, TypeOK
<1>4. QED
  BY <1>1, <1>2, <1>3 DEF Restart, history, Inv, TypeOK

LEMMA OtherSteps ==
    ASSUME Inv,
           \/ \E p \in Pod, r \in Request : Evaluate(p, r)
           \/ Tick
           \/ RedisFaulty
    PROVE  Inv'
<1>1. CASE \E p \in Pod, r \in Request : Evaluate(p, r)
  <2>1. EngineTypeOK' /\ Suspends'
    BY <1>1, EvaluateTypes, EvaluateHolds DEF Evaluate, history, Inv, TypeOK, Suspends, Holds
  <2>2. QED
    BY <1>1, <2>1 DEF Evaluate, agentVars, history, Inv, TypeOK, TargetsKnown
<1>2. CASE Tick
  <2>1. EngineTypeOK' /\ Suspends'
    BY <1>2, TickTypes, TickHolds DEF Tick, Inv, TypeOK, Suspends, Holds
  <2>2. life' \in [Id -> Never..Forever]
    BY <1>2, EngineAssumption DEF Tick, Inv, TypeOK, Never, Forever
  <2>3. QED
    BY <1>2, <2>1, <2>2 DEF Tick, agentVars, Inv, TypeOK, TargetsKnown
<1>3. CASE RedisFaulty
  <2>1. EngineTypeOK' /\ Suspends'
    BY <1>3, RedisFaultTypes, RedisFaultSuspends
       DEF RedisFaulty, history, Inv, TypeOK, Suspends, Holds
  <2>2. QED
    BY <1>3, <2>1 DEF RedisFaulty, agentVars, history, Inv, TypeOK, TargetsKnown
<1>4. QED
  BY <1>1, <1>2, <1>3

-----------------------------------------------------------------------------
\* The theorems

LEMMA Initially == Init => Inv
<1> SUFFICES ASSUME Init PROVE Inv
  OBVIOUS
<1>s. S \in SharedTable /\ S \in Table
  BY DEF S, SharedTable, Table
<1>1. Forever \in 1..Forever /\ Never \in Never..Forever
  BY EngineAssumption DEF Forever, Never
<1>2. EngineTypeOK
  BY <1>1, AbsentTypes DEF Init, EngineInit, EngineTypeOK
<1>3. Suspends
  BY <1>s, AbsentTypes DEF Init, EngineInit, Suspends, Holds, EmptyTable
<1>4. TypeOK
  BY <1>1, <1>2 DEF Init, TypeOK, Status
<1>5. TargetsKnown
  BY DEF Init, TargetsKnown
<1>6. QED
  BY <1>3, <1>4, <1>5 DEF Inv

LEMMA Invariance == Spec => []Inv
<1>1. Inv /\ [Next]_vars => Inv'
  <2> SUFFICES ASSUME Inv, [Next]_vars PROVE Inv'
    OBVIOUS
  <2>1. ASSUME NEW p \in Pod, NEW id \in Incident \X Handled,
               ApproveAction(p, id) \/ RejectAction(p, id) \/ RevokeAction(p, id)
        PROVE  Inv'
    <3>1. id \in Id
      BY ContainmentAssumption
    <3>2. QED
      BY <2>1, <3>1, ApproveStep, RejectStep, RevokeStep
  <2>2. CASE UNCHANGED vars
    BY <2>2 DEF vars, engineVars, agentVars, history, Inv, TypeOK, EngineTypeOK,
                TargetsKnown, Suspends, Holds
  <2>3. QED
    BY <2>1, <2>2, ProcessStep, RestartStep, OtherSteps DEF Next
<1>2. QED
  BY <1>1, Initially, PTL DEF Spec

\* Every table, status and view keeps its type, whatever fails (MitigationEngine and
\* the registries of the response agent).
THEOREM TypeCorrect == Spec => []TypeOK
<1>1. Inv => TypeOK
  BY DEF Inv
<1>2. QED
  BY <1>1, Invariance, PTL

\* The human approval gate: in every process and under every fault, a request is
\* refused for a suspension only if an analyst approved the action that made it.
THEOREM SuspensionNeedsApproval == Spec => []SuspendsOnlyApproved
<1>1. Inv => SuspendsOnlyApproved
  <2> SUFFICES ASSUME Inv, NEW p \in Pod, NEW r \in Request,
                      AnsweringStep(Consulted(p, r)) = 1
               PROVE  Blocker(p, r) \in approved
    BY DEF SuspendsOnlyApproved
  <2> DEFINE seen == Consulted(p, r)
  <2>1. InForce(seen[1])
    BY FirstAnswers
  <2>2. seen[1] = SuspensionFor(p, r) /\ Blocker(p, r) = seen[1].id
    BY DEF Consulted, Blocker
  <2>3. Present(SuspensionFor(p, r))
    BY <2>1, <2>2 DEF InForce
  <2>4. r.principal \in Entity
    BY <2>3, AbsentTypes DEF SuspensionFor, Look, LookShared, Request
  <2>5. /\ Holds(local[p][S], approved) /\ Holds(fallback[p][S], approved)
        /\ Holds(redis[S], approved) /\ r.principal # NoId
    BY <2>4, EngineAssumption DEF Inv, Suspends
  <2>6. SuspensionFor(p, r) \in {local[p][S][r.principal], fallback[p][S][r.principal],
                                 redis[S][r.principal]}
    BY <2>5 DEF SuspensionFor, Look, LookShared, StoreGet, S
  <2>7. QED
    BY <2>2, <2>3, <2>4, <2>5, <2>6 DEF Holds
<1>2. QED
  BY <1>1, Invariance, PTL
-----------------------------------------------------------------------------
(* What the response agent shows.  A target enters a view with the action   *)
(* that puts it there, and leaves it when any action of the view goes.      *)

\* Only the revoked action stops being executed, and the view it was in forgets its
\* target.
LEMMA RevokeShows ==
    ASSUME Inv, ShowsNothingRevoked, NEW p \in Pod, NEW id \in Id, RevokeAction(p, id)
    PROVE  ShowsNothingRevoked'
<1> SUFFICES ASSUME NEW q \in Pod, NEW v \in View, NEW e \in shown'[q][v]
             PROVE  \E w \in Id : /\ ViewOf(w[2]) = v /\ subject'[w[1]] = e
                                   /\ status'[q][w] \in {"executed", "rejected"}
  BY DEF ShowsNothingRevoked
<1>1. /\ status' = [status EXCEPT ![p][id] = "revoked"] /\ subject' = subject
      /\ shown' = [shown EXCEPT ![p] = Hide(@, id[2], subject[id[1]])]
  BY DEF RevokeAction
<1>2. /\ e \in shown[q][v]
      /\ q = p /\ v = ViewOf(id[2]) => e # subject[id[1]]
  BY <1>1 DEF Hide, Inv, TypeOK
<1>3. PICK w \in Id : /\ ViewOf(w[2]) = v /\ subject[w[1]] = e
                      /\ status[q][w] \in {"executed", "rejected"}
  BY <1>2 DEF ShowsNothingRevoked
<1>4. ~(q = p /\ w = id)
  BY <1>2, <1>3
<1>5. status'[q][w] = status[q][w]
  BY <1>1, <1>4 DEF Inv, TypeOK
<1> QED
  BY <1>1, <1>3, <1>5

LEMMA ApproveShows ==
    ASSUME Inv, ShowsNothingRevoked, NEW p \in Pod, NEW id \in Id, ApproveAction(p, id)
    PROVE  ShowsNothingRevoked'
<1> SUFFICES ASSUME NEW q \in Pod, NEW v \in View, NEW e \in shown'[q][v]
             PROVE  \E w \in Id : /\ ViewOf(w[2]) = v /\ subject'[w[1]] = e
                                   /\ status'[q][w] \in {"executed", "rejected"}
  BY DEF ShowsNothingRevoked
<1>1. /\ status' = [status EXCEPT ![p][id] = "executed"] /\ subject' = subject
      /\ shown' = [shown EXCEPT ![p] = ShowAll(@, {id[2]}, subject[id[1]])]
  BY DEF ApproveAction
<1>2. \A w \in Id : status'[q][w] = status[q][w] \/ status'[q][w] = "executed"
  BY <1>1 DEF Inv, TypeOK
<1>3. \/ e \in shown[q][v]
      \/ q = p /\ v = ViewOf(id[2]) /\ e = subject[id[1]]
  BY <1>1 DEF ShowAll, Inv, TypeOK
<1>4. CASE e \in shown[q][v]
  BY <1>1, <1>2, <1>4 DEF ShowsNothingRevoked
<1>5. CASE q = p /\ v = ViewOf(id[2]) /\ e = subject[id[1]]
  BY <1>1, <1>5 DEF Inv, TypeOK
<1> QED
  BY <1>3, <1>4, <1>5

LEMMA ProcessShows ==
    ASSUME Inv, ShowsNothingRevoked, NEW p \in Pod, NEW i \in Incident, NEW f \in Subject,
           NEW alert, ProcessSecurityEvent(p, i, f, alert)
    PROVE  ShowsNothingRevoked'
<1> DEFINE auto == {k \in Planned(alert) : ~NeedsHuman(k)}
<1> SUFFICES ASSUME NEW q \in Pod, NEW v \in View, NEW e \in shown'[q][v]
             PROVE  \E w \in Id : /\ ViewOf(w[2]) = v /\ subject'[w[1]] = e
                                   /\ status'[q][w] \in {"executed", "rejected"}
  BY DEF ShowsNothingRevoked
<1>1. /\ subject[i] = NoId /\ subject' = [subject EXCEPT ![i] = f]
      /\ status' = [status EXCEPT ![p] = [id \in Id |->
             IF id[1] # i \/ id[2] \notin Planned(alert) THEN @[id]
             ELSE IF id[2] \in auto THEN "executed" ELSE "pending"]]
      /\ shown' = [shown EXCEPT ![p] = ShowAll(@, auto, f)]
  BY DEF ProcessSecurityEvent
<1>2. \/ e \in shown[q][v]
      \/ q = p /\ e = f /\ \E k \in auto : v = ViewOf(k)
  BY <1>1 DEF ShowAll, Inv, TypeOK
<1>3. CASE e \in shown[q][v]
  <2>1. PICK w \in Id : /\ ViewOf(w[2]) = v /\ subject[w[1]] = e
                        /\ status[q][w] \in {"executed", "rejected"}
    BY <1>3 DEF ShowsNothingRevoked
  <2>2. w[1] \in Incident /\ e \in Subject /\ NoId \notin Subject
    BY <1>3, EngineAssumption, ContainmentAssumption DEF Inv, TypeOK
  <2>3. w[1] # i
    BY <1>1, <2>1, <2>2
  <2> QED
    BY <1>1, <2>1, <2>2, <2>3 DEF Inv, TypeOK
<1>4. CASE q = p /\ e = f /\ \E k \in auto : v = ViewOf(k)
  <2>1. PICK k \in auto : v = ViewOf(k)
    BY <1>4
  <2>2. <<i, k>> \in Id
    <3>1. k \in PlanKind
      BY DEF Planned, PlanKind
    <3> QED
      BY <3>1, ContainmentAssumption
  <2>3. status'[q][<<i, k>>] = "executed" /\ subject'[i] = e
    BY <1>1, <1>4, <2>2 DEF Inv, TypeOK
  <2> QED
    BY <2>1, <2>2, <2>3
<1> QED
  BY <1>2, <1>3, <1>4

\* What the response agent shows as contained is due to an action it has carried out
\* and not revoked, in every process (active_rate_limits and its like against
\* actions_registry).
THEOREM ViewsAreEarned == Spec => []ShowsNothingRevoked
<1>1. Init => ShowsNothingRevoked
  BY DEF Init, ShowsNothingRevoked
<1>2. Inv /\ ShowsNothingRevoked /\ [Next]_vars => ShowsNothingRevoked'
  <2> SUFFICES ASSUME Inv, ShowsNothingRevoked, [Next]_vars PROVE ShowsNothingRevoked'
    OBVIOUS
  <2>1. ASSUME NEW p \in Pod, NEW id \in Incident \X Handled,
               ApproveAction(p, id) \/ RejectAction(p, id) \/ RevokeAction(p, id)
        PROVE  ShowsNothingRevoked'
    <3>1. id \in Id
      BY ContainmentAssumption
    <3>2. CASE RejectAction(p, id)
      <4>1. /\ subject' = subject /\ shown' = shown
            /\ \A q \in Pod, w \in Id : status'[q][w] \in {status[q][w], "rejected"}
        BY <3>1, <3>2 DEF RejectAction, Inv, TypeOK
      <4> QED
        BY <4>1 DEF ShowsNothingRevoked
    <3> QED
      BY <2>1, <3>1, <3>2, ApproveShows, RevokeShows
  <2>2. ASSUME NEW p \in Pod, Restart(p) PROVE ShowsNothingRevoked'
    <3>1. /\ subject' = subject
          /\ \A q \in Pod \ {p} : shown'[q] = shown[q] /\ status'[q] = status[q]
          /\ \A v \in View : shown'[p][v] = {}
      BY <2>2 DEF Restart, Inv, TypeOK
    <3> QED
      BY <3>1 DEF ShowsNothingRevoked
  <2>3. CASE UNCHANGED agentVars
    BY <2>3 DEF agentVars, ShowsNothingRevoked
  <2>4. \/ \E p \in Pod, r \in Request : Evaluate(p, r)
        \/ Tick \/ RedisFaulty \/ UNCHANGED vars
        => UNCHANGED agentVars
    BY DEF Evaluate, Tick, RedisFaulty, vars
  <2> QED
    BY <2>1, <2>2, <2>3, <2>4, ProcessShows DEF Next
<1> QED
  BY <1>1, <1>2, Invariance, PTL DEF Spec
-----------------------------------------------------------------------------
(* What an executed action keeps.  As long as no other action of its kind   *)
(* meets the same target, its entry stays where it was put, with the time   *)
(* that is left of its duration: in the tables of the process that executed *)
(* it, which no failure of Redis touches.                                   *)

\* An action that is executed, not over, and alone on its target
Carried(p, id) ==
    /\ status[p][id] = "executed" /\ life[id] >= 0
    /\ subject[id[1]] \notin Whitelisted
    /\ Rivals(id) = {}

EntryIn(p, id) == local[p][TableOf(ActionOf(id))][subject[id[1]]]

Kept ==
    \A p \in Pod, id \in Id :
        Carried(p, id) => EntryIn(p, id).id = id /\ EntryIn(p, id).left = life[id]

\* An action is known to the process that planned it and to no other.
OneKeeper ==
    \A p, q \in Pod, id \in Id :
        status[p][id] # "unknown" /\ status[q][id] # "unknown" => p = q

PendingSuspends ==
    \A p \in Pod, id \in Id : status[p][id] = "pending" => id[2] = "suspend_account"

ExecutedLives ==
    \A p \in Pod, id \in Id : status[p][id] = "executed" => life[id] # Never

\* The engine of a process registers actions its response agent knows.
RegistryKnown ==
    \A p \in Pod : \A act \in registry[p] :
        act = ActionOf(act.id) /\ status[p][act.id] # "unknown"

Links == OneKeeper /\ PendingSuspends /\ ExecutedLives /\ RegistryKnown
HoldInv == Inv /\ Links /\ Kept

\* The kinds of a plan have a table each.
LEMMA PlanTables ==
    ASSUME NEW a, NEW b, a.kind \in PlanKind, b.kind \in PlanKind, TableOf(a) = TableOf(b)
    PROVE  a.kind = b.kind
BY DEF TableOf, PlanKind

LEMMA PlanIds ==
    ASSUME NEW id \in Id
    PROVE  /\ id[1] \in Incident /\ id[2] \in PlanKind /\ id = <<id[1], id[2]>>
           /\ id[2] \in Kind
BY ContainmentAssumption DEF PlanKind, Kind

\* Two actions with one table and one target are rivals, once the other was carried out.
LEMMA RivalsMeet ==
    ASSUME NEW id \in Id, NEW other \in Id, other # id, life[other] # Never,
           TableOf(ActionOf(other)) = TableOf(ActionOf(id)),
           subject[other[1]] = subject[id[1]]
    PROVE  other \in Rivals(id)
<1>1. other[2] = id[2]
  BY PlanIds, PlanTables DEF ActionOf
<1> QED
  BY <1>1 DEF Rivals

-----------------------------------------------------------------------------
\* The steps that plan and carry out

\* An action of another incident has the rivals after a plan that it had, or more.
LEMMA ProcessRivals ==
    ASSUME Inv, NEW p \in Pod, NEW i \in Incident, NEW f \in Subject, NEW alert,
           ProcessSecurityEvent(p, i, f, alert),
           NEW id \in Id, id[1] # i, subject[id[1]] \in Subject
    PROVE  Rivals(id) \subseteq Rivals(id)'
<1> SUFFICES ASSUME NEW other \in Rivals(id) PROVE other \in Rivals(id)'
  OBVIOUS
<1>1. /\ other \in Id \ {id} /\ other[2] = id[2]
      /\ subject[other[1]] = subject[id[1]] /\ life[other] # Never
  BY DEF Rivals
<1>2. subject[i] = NoId /\ subject' = [subject EXCEPT ![i] = f] /\ NoId \notin Subject
  BY EngineAssumption, ContainmentAssumption DEF ProcessSecurityEvent
<1>3. other[1] # i
  BY <1>1, <1>2
<1>4. life'[other] = life[other]
  BY <1>1, <1>3 DEF ProcessSecurityEvent
<1>5. subject'[other[1]] = subject[other[1]] /\ subject'[id[1]] = subject[id[1]]
  BY <1>1, <1>2, <1>3, PlanIds DEF Inv, TypeOK
<1> QED
  BY <1>1, <1>4, <1>5 DEF Rivals

LEMMA ProcessCarries ==
    ASSUME HoldInv, NEW p \in Pod, NEW i \in Incident, NEW f \in Subject, NEW alert,
           ProcessSecurityEvent(p, i, f, alert)
    PROVE  HoldInv'
<1> DEFINE auto == {k \in Planned(alert) : ~NeedsHuman(k)}
           acts == {[id |-> <<i, k>>, kind |-> k, target |-> f] : k \in auto}
<1>t. EngineTypeOK /\ Inv
  BY DEF HoldInv, Inv, TypeOK
<1>i. Inv'
  BY <1>t, ProcessStep
<1>a. acts \in SUBSET Action
  BY AutoActions
<1>b. ApplyActions(p, acts, "executed")
  BY DEF ProcessSecurityEvent
<1>c. /\ subject[i] = NoId /\ subject' = [subject EXCEPT ![i] = f] /\ NoId \notin Subject
      /\ subject'[i] = f
  BY <1>t, EngineAssumption, ContainmentAssumption DEF ProcessSecurityEvent, Inv, TypeOK
<1>d. \A id \in Id : id[1] # i => /\ subject'[id[1]] = subject[id[1]]
                                  /\ life'[id] = life[id]
                                  /\ \A q \in Pod : status'[q][id] = status[q][id]
  BY <1>c, <1>t, PlanIds DEF ProcessSecurityEvent, Inv, TypeOK
<1>e. \A q \in Pod, id \in Id : id[1] = i => status[q][id] = "unknown"
  BY <1>t, <1>c DEF Inv, TargetsKnown
<1>f. \A q \in Pod, id \in Id :
        id[1] = i => \/ status'[q][id] = "unknown"
                     \/ q = p /\ id[2] \in Planned(alert) \ auto /\ status'[q][id] = "pending"
                     \/ q = p /\ id[2] \in auto /\ status'[q][id] = "executed"
  BY <1>t, <1>e DEF ProcessSecurityEvent, Inv, TypeOK
<1>g. \A id \in Id : id[1] = i /\ id[2] \in auto => life'[id] = Duration[id[2]]
  BY DEF ProcessSecurityEvent
<1>h. auto \subseteq {"rate_limit", "challenge_mfa", "quarantine_ip_temp"} /\ auto \subseteq PlanKind
  BY DEF Planned, NeedsHuman, PlanKind
<1>j. \A k \in auto : <<i, k>> \in Id /\ Duration[k] \in 1..MaxDuration
  BY <1>h, ContainmentAssumption, EngineAssumption DEF PlanKind, Kind
<1>1. Links'
  <2>1. OneKeeper'
    BY <1>d, <1>f, <1>e DEF HoldInv, Links, OneKeeper
  <2>2. PendingSuspends'
    <3>1. \A k \in Planned(alert) \ auto : k = "suspend_account"
      BY DEF Planned, NeedsHuman
    <3> HIDE DEF auto
    <3> QED
      BY <1>d, <1>f, <3>1 DEF HoldInv, Links, PendingSuspends
  <2>3. ExecutedLives'
    <3> HIDE DEF auto
    <3>1. \A n \in 1..MaxDuration : n # Never
      BY EngineAssumption DEF Never
    <3>2. ASSUME NEW id \in Id, id[1] = i, id[2] \in auto PROVE life'[id] # Never
      BY <1>g, <1>j, <3>1, <3>2
    <3>3. ASSUME NEW q \in Pod, NEW id \in Id, status'[q][id] = "executed"
          PROVE  life'[id] # Never
      <4>1. CASE id[1] = i
        BY <3>2, <3>3, <4>1, <1>f
      <4>2. CASE id[1] # i
        BY <3>3, <4>2, <1>d DEF HoldInv, Links, ExecutedLives
      <4> QED
        BY <4>1, <4>2
    <3> QED
      BY <3>3 DEF ExecutedLives
  <2>4. RegistryKnown'
    <3> SUFFICES ASSUME NEW q \in Pod, NEW act \in registry'[q]
                 PROVE  act = ActionOf(act.id)' /\ status'[q][act.id] # "unknown"
      BY DEF RegistryKnown
    <3>1. act \in registry[q] \/ (q = p /\ act \in acts)
      BY <1>b, <1>t DEF ApplyActions, EngineTypeOK
    <3>2. CASE act \in registry[q]
      <4>1. act = ActionOf(act.id) /\ status[q][act.id] # "unknown" /\ act.id \in Id
        BY <3>2, <1>t DEF HoldInv, Links, RegistryKnown, EngineTypeOK, Action
      <4>2. act.id[1] # i
        BY <4>1, <1>e
      <4> QED
        BY <4>1, <4>2, <1>d DEF ActionOf
    <3>3. CASE q = p /\ act \in acts
      <4>1. PICK k \in auto : act = [id |-> <<i, k>>, kind |-> k, target |-> f]
        BY <3>3
      <4>2. act = ActionOf(act.id)'
        BY <4>1, <1>c DEF ActionOf
      <4>3. status'[p][<<i, k>>] = "executed"
        BY <1>j, <1>t, <1>e DEF ProcessSecurityEvent, Inv, TypeOK
      <4> QED
        BY <3>3, <4>1, <4>2, <4>3
    <3> QED
      BY <3>1, <3>2, <3>3
  <2> QED
    BY <2>1, <2>2, <2>3, <2>4 DEF Links
<1>2. Kept'
  <2> SUFFICES ASSUME NEW q \in Pod, NEW id \in Id, Carried(q, id)'
               PROVE  EntryIn(q, id)'.id = id /\ EntryIn(q, id)'.left = life'[id]
    BY DEF Kept
  <2>c. /\ status'[q][id] = "executed" /\ life'[id] >= 0
        /\ subject'[id[1]] \notin Whitelisted /\ Rivals(id)' = {}
    BY DEF Carried
  <2>1. CASE id[1] = i
    <3> DEFINE act == [id |-> id, kind |-> id[2], target |-> f]
    <3>1. q = p /\ id[2] \in auto
      BY <2>1, <2>c, <1>f
    <3>2. act \in acts /\ act = ActionOf(id)' /\ act \in Action
      <4>1. id = <<i, id[2]>>
        BY <2>1, PlanIds
      <4>2. act \in acts
        BY <3>1, <4>1
      <4>3. act = ActionOf(id)'
        BY <2>1, <1>c DEF ActionOf
      <4> QED
        BY <4>2, <4>3, <1>a
    <3>3. Accepts(act, "executed")
      BY <3>1, <1>h, <2>c, <2>1, <1>c DEF Accepts, NeedsApproval
    <3>4. \A b \in acts : TableOf(b) = TableOf(act) => b = act
      <4> SUFFICES ASSUME NEW b \in acts, TableOf(b) = TableOf(act) PROVE b = act
        OBVIOUS
      <4>1. PICK k \in auto : b = [id |-> <<i, k>>, kind |-> k, target |-> f]
        OBVIOUS
      <4>2. k = id[2]
        BY <4>1, <1>h, <3>1, PlanTables
      <4> QED
        BY <4>1, <4>2, <2>1, PlanIds
    <3>5. local'[p][TableOf(act)][f] = EntryOf(act)
      <4> HIDE DEF acts
      <4> QED
        BY <1>t, <1>a, <1>b, <3>2, <3>3, <3>4, ApplyThere
    <3>6. TableOf(act) \notin {"suspended_accounts", "revoked_tokens"}
      BY <3>1, <1>h DEF TableOf
    <3> QED
      BY <3>1, <3>2, <3>5, <3>6, <2>1, <1>c, <1>g DEF EntryIn, EntryOf
  <2>2. CASE id[1] # i
    <3>1. /\ status[q][id] = "executed" /\ life'[id] = life[id]
          /\ subject'[id[1]] = subject[id[1]]
      BY <2>2, <2>c, <1>d
    <3>2. subject[id[1]] \in Subject
      BY <3>1, <1>t DEF Inv, TargetsKnown
    <3>3. Rivals(id) = {}
      BY <2>2, <2>c, <3>2, <1>t, ProcessRivals
    <3>4. Carried(q, id)
      BY <3>1, <3>3, <2>c DEF Carried
    <3>5. ActionOf(id)' = ActionOf(id) /\ TableOf(ActionOf(id)) \in Table
          /\ subject[id[1]] \in Entity
      BY <3>1, <1>t, KnownAction, EntryTypes, ContainmentAssumption DEF ActionOf
    <3>6. local'[q][TableOf(ActionOf(id))][subject[id[1]]]
            = local[q][TableOf(ActionOf(id))][subject[id[1]]]
      <4>1. ASSUME NEW act \in acts, TableOf(act) = TableOf(ActionOf(id)),
                   act.target = subject[id[1]]
            PROVE  FALSE
        <5>1. PICK k \in auto : act = [id |-> <<i, k>>, kind |-> k, target |-> f]
          OBVIOUS
        <5>2. k = id[2]
          BY <5>1, <4>1, <1>h, PlanTables, PlanIds DEF ActionOf
        <5>3. life'[<<i, k>>] # Never
          BY <1>g, <1>j, EngineAssumption DEF Never
        <5>4. <<i, k>> \in Rivals(id)'
          BY <5>1, <5>2, <5>3, <4>1, <3>1, <2>2, <1>j, <1>c DEF Rivals
        <5> QED
          BY <5>4, <2>c
      <4> DEFINE table == TableOf(ActionOf(id))
                 e == subject[id[1]]
      <4>2. \A act \in acts :
               ~(Accepts(act, "executed") /\ TableOf(act) = table /\ act.target = e)
        BY <4>1
      <4>3. table \in Table /\ e \in Entity
        BY <3>5
      <4> HIDE DEF acts, table, e
      <4>4. local'[q][table][e] = local[q][table][e]
        BY <4>2, <4>3, <1>t, <1>a, <1>b, ApplyElsewhere
      <4> QED
        BY <4>4 DEF table, e
    <3> QED
      BY <3>1, <3>4, <3>5, <3>6 DEF HoldInv, Kept, EntryIn
  <2> QED
    BY <2>1, <2>2
<1> QED
  BY <1>i, <1>1, <1>2 DEF HoldInv

LEMMA ApproveCarries ==
    ASSUME HoldInv, NEW p \in Pod, NEW id \in Id, ApproveAction(p, id)
    PROVE  HoldInv'
<1>t. EngineTypeOK /\ Inv /\ Inv'
  BY ApproveStep DEF HoldInv, Inv, TypeOK
<1>s. /\ status[p][id] = "pending" /\ id[2] = "suspend_account"
      /\ ActionOf(id) \in Action /\ subject[id[1]] \in Subject
  BY <1>t, KnownAction DEF ApproveAction, MayApprove, HoldInv, Links, PendingSuspends
<1>a. ApplyActions(p, {ActionOf(id)}, "executed") /\ {ActionOf(id)} \in SUBSET Action
  BY <1>s DEF ApproveAction
<1>b. /\ status' = [status EXCEPT ![p][id] = "executed"]
      /\ life' = [life EXCEPT ![id] = Forever] /\ subject' = subject
  BY DEF ApproveAction
<1>c. /\ \A q \in Pod, w \in Id : \/ status'[q][w] = status[q][w]
                                  \/ q = p /\ w = id
      /\ status'[p][id] = "executed"
      /\ \A w \in Id \ {id} : life'[w] = life[w]
      /\ life'[id] = Forever /\ Forever # Never
  BY <1>b, <1>t, EngineAssumption DEF Inv, TypeOK, Forever, Never
<1>d. \A w : ActionOf(w)' = ActionOf(w)
  BY <1>b DEF ActionOf
<1>1. Links'
  <2>1. OneKeeper'
    BY <1>c, <1>s DEF HoldInv, Links, OneKeeper
  <2>2. PendingSuspends' /\ ExecutedLives'
    BY <1>c DEF HoldInv, Links, PendingSuspends, ExecutedLives
  <2>3. RegistryKnown'
    <3>1. \A q \in Pod : \A act \in registry'[q] :
            act \in registry[q] \/ (q = p /\ act = ActionOf(id))
      BY <1>a, <1>t DEF ApplyActions, EngineTypeOK
    <3>2. \A q \in Pod : \A act \in registry[q] : act.id \in Id
      BY <1>t DEF EngineTypeOK, Action
    <3>3. ActionOf(id).id = id
      BY DEF ActionOf
    <3>4. \A q \in Pod : \A act \in registry[q] :
            act = ActionOf(act.id) /\ status[q][act.id] # "unknown"
      BY DEF HoldInv, Links, RegistryKnown
    <3> QED
      BY <1>c, <1>d, <3>1, <3>2, <3>3, <3>4 DEF RegistryKnown
  <2> QED
    BY <2>1, <2>2, <2>3 DEF Links
<1>2. Kept'
  <2> SUFFICES ASSUME NEW q \in Pod, NEW w \in Id, Carried(q, w)'
               PROVE  EntryIn(q, w)'.id = w /\ EntryIn(q, w)'.left = life'[w]
    BY DEF Kept
  <2>c. /\ status'[q][w] = "executed" /\ life'[w] >= 0
        /\ subject[w[1]] \notin Whitelisted /\ Rivals(w)' = {}
    BY <1>b DEF Carried
  <2>1. CASE w = id
    <3>1. q = p
      <4>1. q # p => status[q][id] = "executed"
        BY <1>c, <2>1, <2>c
      <4> QED
        BY <4>1, <1>s DEF HoldInv, Links, OneKeeper
    <3>2. ActionOf(id).kind = "suspend_account" /\ ActionOf(id).id = id
          /\ ActionOf(id).target = subject[id[1]]
      BY <1>s DEF ActionOf
    <3>3. Accepts(ActionOf(id), "executed")
      BY <3>2 DEF Accepts
    <3>4. local'[p][TableOf(ActionOf(id))][ActionOf(id).target] = EntryOf(ActionOf(id))
      BY <1>t, <1>a, <3>3, ApplyThere
    <3>5. TableOf(ActionOf(id)) = "suspended_accounts"
      BY <3>2 DEF TableOf
    <3> QED
      BY <1>b, <1>c, <1>d, <2>1, <3>1, <3>2, <3>4, <3>5 DEF EntryIn, EntryOf
  <2>2. CASE w # id
    <3>1. status[q][w] = "executed" /\ life'[w] = life[w]
      BY <2>2, <2>c, <1>c
    <3>2. Rivals(w) \subseteq Rivals(w)'
      BY <1>b, <1>c DEF Rivals
    <3>3. Carried(q, w)
      BY <2>c, <3>1, <3>2 DEF Carried
    <3>4. TableOf(ActionOf(w)) \in Table /\ subject[w[1]] \in Entity
      BY <3>1, <1>t, KnownAction, EntryTypes, ContainmentAssumption
    <3>5. ~(TableOf(ActionOf(id)) = TableOf(ActionOf(w))
            /\ subject[id[1]] = subject[w[1]])
      <4>1. ASSUME TableOf(ActionOf(id)) = TableOf(ActionOf(w)),
                   subject[id[1]] = subject[w[1]]
            PROVE  FALSE
        <5>1. id[2] = w[2]
          BY <4>1, PlanIds, PlanTables DEF ActionOf
        <5>2. id \in Rivals(w)'
          BY <1>b, <1>c, <2>2, <4>1, <5>1 DEF Rivals
        <5> QED
          BY <5>2, <2>c
      <4> QED
        BY <4>1
    <3>6. ActionOf(id).target = subject[id[1]]
      BY DEF ActionOf
    <3>7. local'[q][TableOf(ActionOf(w))][subject[w[1]]]
            = local[q][TableOf(ActionOf(w))][subject[w[1]]]
      BY <3>4, <3>5, <3>6, <1>t, <1>a, ApplyElsewhere
    <3>8. EntryIn(q, w).id = w /\ EntryIn(q, w).left = life[w]
      BY <3>3 DEF HoldInv, Kept
    <3>9. EntryIn(q, w)' = EntryIn(q, w)
      BY <1>b, <1>d, <3>7 DEF EntryIn
    <3> QED
      BY <3>1, <3>8, <3>9
  <2> QED
    BY <2>1, <2>2
<1> QED
  BY <1>t, <1>1, <1>2 DEF HoldInv

-----------------------------------------------------------------------------
\* The other steps of the analyst and of the process

\* An action that was carried out before or after a step that starts none was so
\* before it, with the same rivals.
LEMMA SameRivals ==
    ASSUME subject' = subject, NEW id \in Id,
           \A w \in Id : life'[w] = Never <=> life[w] = Never
    PROVE  Rivals(id)' = Rivals(id)
BY DEF Rivals

LEMMA RejectCarries ==
    ASSUME HoldInv, NEW p \in Pod, NEW id \in Id, RejectAction(p, id)
    PROVE  HoldInv'
<1>t. Inv /\ Inv'
  BY RejectStep DEF HoldInv
<1>a. /\ UNCHANGED <<local, registry, subject, life>>
      /\ status' = [status EXCEPT ![p][id] = "rejected"] /\ status[p][id] # "unknown"
  BY DEF RejectAction, engineVars, history
<1>b. \A q \in Pod, w \in Id :
        \/ status'[q][w] = status[q][w]
        \/ status'[q][w] = "rejected" /\ status[q][w] # "unknown"
  BY <1>a, <1>t DEF Inv, TypeOK
<1>c. \A w : ActionOf(w)' = ActionOf(w)
  BY <1>a DEF ActionOf
<1>d. RegistryKnown'
  <2>1. \A q \in Pod : \A act \in registry[q] : act.id \in Id
    BY <1>t DEF Inv, TypeOK, EngineTypeOK, Action
  <2> QED
    BY <1>a, <1>b, <1>c, <2>1 DEF HoldInv, Links, RegistryKnown
<1>1. Links'
  BY <1>a, <1>b, <1>d DEF HoldInv, Links, OneKeeper, PendingSuspends, ExecutedLives
<1>2. Kept'
  <2> SUFFICES ASSUME NEW q \in Pod, NEW w \in Id, Carried(q, w)'
               PROVE  EntryIn(q, w)'.id = w /\ EntryIn(q, w)'.left = life'[w]
    BY DEF Kept
  <2>1. Carried(q, w)
    BY <1>a, <1>b, SameRivals DEF Carried
  <2> QED
    BY <1>a, <1>c, <2>1 DEF HoldInv, Kept, EntryIn
<1> QED
  BY <1>t, <1>1, <1>2 DEF HoldInv

LEMMA RestartCarries ==
    ASSUME HoldInv, NEW p \in Pod, Restart(p)
    PROVE  HoldInv'
<1>t. Inv /\ Inv'
  BY RestartStep DEF HoldInv
<1>a. /\ UNCHANGED <<subject, life>>
      /\ \A q \in Pod \ {p} : /\ local'[q] = local[q] /\ registry'[q] = registry[q]
                              /\ status'[q] = status[q]
      /\ registry'[p] = {} /\ \A w \in Id : status'[p][w] = "unknown"
  BY <1>t DEF Restart, PodRestarts, history, Inv, TypeOK, EngineTypeOK
<1>c. \A w : ActionOf(w)' = ActionOf(w)
  BY <1>a DEF ActionOf
<1>1. Links'
  BY <1>a, <1>c DEF HoldInv, Links, OneKeeper, PendingSuspends, ExecutedLives, RegistryKnown
<1>2. Kept'
  <2> SUFFICES ASSUME NEW q \in Pod, NEW w \in Id, Carried(q, w)'
               PROVE  EntryIn(q, w)'.id = w /\ EntryIn(q, w)'.left = life'[w]
    BY DEF Kept
  <2>1. q # p /\ Carried(q, w)
    BY <1>a, SameRivals DEF Carried
  <2> QED
    BY <1>a, <1>c, <2>1 DEF HoldInv, Kept, EntryIn
<1> QED
  BY <1>t, <1>1, <1>2 DEF HoldInv

LEMMA RevokeCarries ==
    ASSUME HoldInv, NEW p \in Pod, NEW id \in Id, RevokeAction(p, id)
    PROVE  HoldInv'
<1>t. Inv /\ Inv' /\ EngineTypeOK
  BY RevokeStep DEF HoldInv, Inv, TypeOK
<1>a. /\ UNCHANGED <<subject, life>> /\ RollbackAction(p, id)
      /\ status' = [status EXCEPT ![p][id] = "revoked"] /\ status[p][id] = "executed"
  BY DEF RevokeAction, MayRevoke
<1>b. /\ \A q \in Pod, w \in Id : status'[q][w] = status[q][w] \/ (q = p /\ w = id)
      /\ status'[p][id] = "revoked" /\ life[id] # Never
  BY <1>a, <1>t DEF Inv, TypeOK, HoldInv, Links, ExecutedLives
<1>c. \A w : ActionOf(w)' = ActionOf(w)
  BY <1>a DEF ActionOf
<1>d. \A q \in Pod : registry'[q] \subseteq registry[q]
  <2>1. \/ registry' = registry
        \/ \E gone : registry' = [registry EXCEPT ![p] = @ \ gone]
    BY <1>a DEF RollbackAction, engineVars
  <2> QED
    BY <1>t, <2>1 DEF EngineTypeOK
<1>e. \A q \in Pod, t \in Table, e \in Entity :
        \/ local'[q][t][e] = local[q][t][e]
        \/ q = p /\ t = TableOf(ActionOf(id)) /\ e = subject[id[1]]
  <2>1. CASE \E act \in registry[p] : act.id = id
    <3> DEFINE act == CHOOSE a \in registry[p] : a.id = id
    <3>1. act \in registry[p] /\ act.id = id
      BY <2>1
    <3>2. act = ActionOf(id)
      BY <3>1 DEF HoldInv, Links, RegistryKnown
    <3>3. local' = [local EXCEPT ![p][TableOf(act)][act.target] = Absent]
      BY <1>a, <2>1 DEF RollbackAction
    <3> HIDE DEF act
    <3> QED
      BY <1>t, <3>2, <3>3 DEF ActionOf, EngineTypeOK
  <2>2. CASE ~ \E act \in registry[p] : act.id = id
    BY <1>a, <2>2 DEF RollbackAction, engineVars
  <2> QED
    BY <2>1, <2>2
<1>1. Links'
  <2>1. RegistryKnown'
    <3>1. \A q \in Pod : \A act \in registry[q] : act.id \in Id
      BY <1>t DEF EngineTypeOK, Action
    <3> QED
      BY <1>b, <1>c, <1>d, <3>1 DEF HoldInv, Links, RegistryKnown
  <2> QED
    BY <1>a, <1>b, <2>1 DEF HoldInv, Links, OneKeeper, PendingSuspends, ExecutedLives
<1>2. Kept'
  <2> SUFFICES ASSUME NEW q \in Pod, NEW w \in Id, Carried(q, w)'
               PROVE  EntryIn(q, w)'.id = w /\ EntryIn(q, w)'.left = life'[w]
    BY DEF Kept
  <2>1. Carried(q, w) /\ ~(q = p /\ w = id)
    BY <1>a, <1>b, SameRivals DEF Carried
  <2>2. status[q][w] = "executed" /\ Rivals(w) = {}
    BY <2>1 DEF Carried
  <2>3. TableOf(ActionOf(w)) \in Table /\ subject[w[1]] \in Entity
    BY <2>2, <1>t, KnownAction, EntryTypes, ContainmentAssumption
  <2>4. ~(q = p /\ TableOf(ActionOf(w)) = TableOf(ActionOf(id))
          /\ subject[w[1]] = subject[id[1]])
    BY <1>b, <2>1, <2>2, RivalsMeet
  <2>5. local'[q][TableOf(ActionOf(w))][subject[w[1]]]
          = local[q][TableOf(ActionOf(w))][subject[w[1]]]
    BY <1>e, <2>3, <2>4
  <2> QED
    BY <1>a, <1>c, <2>1, <2>5 DEF HoldInv, Kept, EntryIn
<1> QED
  BY <1>t, <1>1, <1>2 DEF HoldInv

-----------------------------------------------------------------------------
\* Requests, time, and the failures of Redis

\* What a step leaves that touches neither statuses nor registries
LEMMA QuietLinks ==
    ASSUME Links, UNCHANGED <<status, subject, registry>>,
           \A w \in Id : life'[w] = Never <=> life[w] = Never
    PROVE  Links'
<1>1. \A w : ActionOf(w)' = ActionOf(w)
  BY DEF ActionOf
<1> QED
  BY <1>1 DEF Links, OneKeeper, PendingSuspends, ExecutedLives, RegistryKnown

LEMMA EvaluateCarries ==
    ASSUME HoldInv, NEW p \in Pod, NEW r \in Request, Evaluate(p, r)
    PROVE  HoldInv'
<1>t. EngineTypeOK /\ Inv /\ Inv'
  BY OtherSteps DEF HoldInv, Inv, TypeOK
<1>a. EvaluateRequest(p, r) /\ UNCHANGED <<status, subject, registry, life>>
  BY DEF Evaluate, EvaluateRequest, agentVars, history
<1>c. \A w : ActionOf(w)' = ActionOf(w)
  BY <1>a DEF ActionOf
<1>1. Links'
  BY <1>a, QuietLinks DEF HoldInv
<1>2. Kept'
  <2> SUFFICES ASSUME NEW q \in Pod, NEW w \in Id, Carried(q, w)'
               PROVE  EntryIn(q, w)'.id = w /\ EntryIn(q, w)'.left = life'[w]
    BY DEF Kept
  <2>1. Carried(q, w)
    BY <1>a, SameRivals DEF Carried
  <2>2. EntryIn(q, w).id = w /\ EntryIn(q, w).left = life[w]
        /\ status[q][w] = "executed" /\ life[w] >= 0
    BY <2>1 DEF HoldInv, Kept, Carried
  <2>3. TableOf(ActionOf(w)) \in Table /\ subject[w[1]] \in Entity
    BY <2>2, <1>t, KnownAction, EntryTypes, ContainmentAssumption
  <2>4. Present(EntryIn(q, w)) /\ EntryIn(q, w).left >= 0
    BY <2>2, EngineAssumption DEF Present
  <2>5. EntryIn(q, w)' = EntryIn(q, w)
    BY <1>a, <1>c, <1>t, <2>3, <2>4, EvaluateKeeps DEF EntryIn
  <2> QED
    BY <1>a, <2>2, <2>5
<1> QED
  BY <1>t, <1>1, <1>2 DEF HoldInv

LEMMA TickCarries ==
    ASSUME HoldInv, Tick
    PROVE  HoldInv'
<1>t. EngineTypeOK /\ Inv /\ Inv'
  BY OtherSteps DEF HoldInv, Inv, TypeOK
<1>a. /\ EngineTick /\ UNCHANGED <<status, subject, registry>>
      /\ life' = [id \in Id |-> IF life[id] \in 0..MaxDuration THEN life[id] - 1
                                ELSE life[id]]
  BY DEF Tick, EngineTick, agentVars
<1>b. \A w \in Id : life[w] \in Never..Forever
  BY <1>t DEF Inv, TypeOK
<1>l. \A w \in Id : /\ life'[w] = Never <=> life[w] = Never
                    /\ life'[w] >= 0 => life[w] >= 0
  BY <1>a, <1>b, EngineAssumption DEF Never, Forever
<1>c. \A w : ActionOf(w)' = ActionOf(w)
  BY <1>a DEF ActionOf
<1>1. Links'
  BY <1>a, <1>l, QuietLinks DEF HoldInv
<1>2. Kept'
  <2> SUFFICES ASSUME NEW q \in Pod, NEW w \in Id, Carried(q, w)'
               PROVE  EntryIn(q, w)'.id = w /\ EntryIn(q, w)'.left = life'[w]
    BY DEF Kept
  <2>1. Carried(q, w)
    BY <1>a, <1>l, SameRivals DEF Carried
  <2>2. EntryIn(q, w).id = w /\ EntryIn(q, w).left = life[w]
        /\ status[q][w] = "executed"
    BY <2>1 DEF HoldInv, Kept, Carried
  <2>3. TableOf(ActionOf(w)) \in Table /\ subject[w[1]] \in Entity
    BY <2>2, <1>t, KnownAction, EntryTypes, ContainmentAssumption
  <2>4. EntryIn(q, w)' = Older(EntryIn(q, w))
    BY <1>a, <1>c, <2>3 DEF EntryIn, EngineTick, OlderTable
  <2>5. Present(EntryIn(q, w)) /\ EntryIn(q, w) \in Entry
    BY <1>t, <2>2, <2>3, EngineAssumption DEF Present, EntryIn, EngineTypeOK
  <2>6. Older(EntryIn(q, w)).id = w /\ Older(EntryIn(q, w)).left = life'[w]
    BY <1>a, <2>2, <2>5 DEF Older, Entry
  <2> QED
    BY <2>4, <2>6
<1> QED
  BY <1>t, <1>1, <1>2 DEF HoldInv

\* Steps that change no table of a process keep what is kept.
LEMMA QuietKeeps ==
    ASSUME Kept, UNCHANGED <<status, subject, life, local>>
    PROVE  Kept'
<1>1. ASSUME NEW id PROVE ActionOf(id)' = ActionOf(id) /\ Rivals(id)' = Rivals(id)
  BY DEF ActionOf, Rivals
<1>2. ASSUME NEW p, NEW id
      PROVE  (Carried(p, id)' <=> Carried(p, id)) /\ EntryIn(p, id)' = EntryIn(p, id)
  BY <1>1 DEF Carried, EntryIn
<1> QED
  BY <1>2 DEF Kept

LEMMA RedisFaultCarries ==
    ASSUME HoldInv, RedisFaulty
    PROVE  HoldInv'
<1>t. Inv'
  BY OtherSteps DEF HoldInv
<1>a. UNCHANGED <<status, subject, registry, life, local>>
  BY DEF RedisFaulty, RedisToggles, RedisRestarts, Reconnects, agentVars, history
<1>1. Links'
  BY <1>a, QuietLinks DEF HoldInv
<1>2. Kept'
  BY <1>a, QuietKeeps DEF HoldInv
<1> QED
  BY <1>t, <1>1, <1>2 DEF HoldInv

-----------------------------------------------------------------------------
\* The theorem

\* An executed action keeps its target out of the process that executed it for all its
\* duration (evaluate_request against execute_action), whatever happens to Redis and to
\* the other processes, unless another action of the kind was carried out for the target.
THEOREM ExecutedActionsHold == Spec => []HoldsWhereApplied
<1>1. Init => HoldInv
  <2> SUFFICES ASSUME Init PROVE HoldInv
    OBVIOUS
  <2>1. \A p \in Pod : registry[p] = {} /\ \A id \in Id : status[p][id] = "unknown"
    BY DEF Init, EngineInit
  <2>2. OneKeeper /\ PendingSuspends /\ ExecutedLives
    BY <2>1 DEF OneKeeper, PendingSuspends, ExecutedLives
  <2>3. RegistryKnown /\ Kept
    BY <2>1 DEF RegistryKnown, Kept, Carried
  <2> QED
    BY <2>2, <2>3, Initially DEF HoldInv, Links
<1>2. HoldInv /\ [Next]_vars => HoldInv'
  <2> SUFFICES ASSUME HoldInv, [Next]_vars PROVE HoldInv'
    OBVIOUS
  <2>1. ASSUME NEW p \in Pod, NEW id \in Incident \X Handled,
               ApproveAction(p, id) \/ RejectAction(p, id) \/ RevokeAction(p, id)
        PROVE  HoldInv'
    <3>1. id \in Id
      BY ContainmentAssumption
    <3> QED
      BY <2>1, <3>1, ApproveCarries, RejectCarries, RevokeCarries
  <2>2. CASE UNCHANGED vars
    <3>1. UNCHANGED <<status, subject, registry, life, local>>
      BY <2>2 DEF vars, engineVars, agentVars, history
    <3>2. Inv'
      BY <2>2 DEF vars, engineVars, agentVars, history, HoldInv, Inv, TypeOK, EngineTypeOK,
                  TargetsKnown, Suspends, Holds
    <3>3. Links'
      BY <3>1, QuietLinks DEF HoldInv
    <3>4. Kept'
      BY <3>1, QuietKeeps DEF HoldInv
    <3> QED
      BY <3>2, <3>3, <3>4 DEF HoldInv
  <2> QED
    BY <2>1, <2>2, ProcessCarries, RestartCarries, EvaluateCarries, TickCarries, RedisFaultCarries
       DEF Next
<1>3. HoldInv => HoldsWhereApplied
  <2> SUFFICES ASSUME HoldInv, NEW p \in Pod, NEW id \in Id,
                      status[p][id] = "executed", life[id] >= 0,
                      ActionOf(id).target \notin Whitelisted, Rivals(id) = {}
               PROVE  IsMitigated(p, RequestOf(ActionOf(id).target))
    BY DEF HoldsWhereApplied
  <2> DEFINE e == subject[id[1]]
             r == RequestOf(e)
  <2>1. ActionOf(id).target = e /\ ActionOf(id).kind = id[2] /\ id[2] \in PlanKind
    BY PlanIds DEF ActionOf
  <2>2. Carried(p, id)
    BY <2>1 DEF Carried
  <2>3. EntryIn(p, id).id = id /\ EntryIn(p, id).left = life[id]
    BY <2>2 DEF HoldInv, Kept
  <2>4. InForce(EntryIn(p, id)) /\ Present(EntryIn(p, id))
    BY <2>3, EngineAssumption DEF InForce, Present
  <2>5. e \in Entity /\ e # NoId /\ r.ip = e /\ r.principal = e
    BY KnownAction, EngineAssumption, ContainmentAssumption DEF HoldInv, RequestOf
  <2>6. CASE id[2] = "rate_limit"
    <3>1. EntryIn(p, id) = local[p]["dynamic_rate_limits"][e]
      BY <2>1, <2>6 DEF EntryIn, TableOf
    <3>2. Consulted(p, r)[6] = EntryIn(p, id)
      BY <2>4, <2>5, <3>1 DEF Consulted, ThrottleKey, Look
    <3> QED
      BY <2>1, <2>4, <3>2, InForceMitigates
  <2>7. CASE id[2] = "challenge_mfa"
    <3>1. EntryIn(p, id) = local[p]["mfa_enforced_principals"][e]
      BY <2>1, <2>7 DEF EntryIn, TableOf
    <3>2. Consulted(p, r)[5] = EntryIn(p, id)
      BY <2>5, <3>1 DEF Consulted, Look
    <3> QED
      BY <2>1, <2>4, <3>2, InForceMitigates
  <2>8. CASE id[2] = "suspend_account"
    <3>1. EntryIn(p, id) = local[p]["suspended_accounts"][e]
      BY <2>1, <2>8 DEF EntryIn, TableOf
    <3>2. Consulted(p, r)[1] = EntryIn(p, id)
      BY <2>4, <2>5, <3>1 DEF Consulted, SuspensionFor, Look
    <3> QED
      BY <2>1, <2>4, <3>2, InForceMitigates
  <2>9. CASE id[2] = "quarantine_ip_temp"
    <3>1. EntryIn(p, id) = local[p]["quarantined_ips"][e]
      BY <2>1, <2>9 DEF EntryIn, TableOf
    <3>2. Look(p, "quarantined_ips", r.ip) = EntryIn(p, id)
      BY <2>5, <3>1 DEF Look
    <3>3. QuarantineFor(p, r).entry = EntryIn(p, id)
      BY <2>4, <3>2, QuarantineFound
    <3>4. Consulted(p, r)[2] = EntryIn(p, id)
      BY <3>3 DEF Consulted
    <3> QED
      BY <2>1, <2>4, <3>4, InForceMitigates
  <2> QED
    BY <2>1, <2>6, <2>7, <2>8, <2>9 DEF PlanKind
<1> QED
  BY <1>1, <1>2, <1>3, PTL DEF Spec
=============================================================================
