----------------------------- MODULE Containment -----------------------------
(***************************************************************************)
(* The containment workflow of agents/response_agent.py and                *)
(* agents/orchestrator.py on top of MitigationEngine.  A process turns an  *)
(* alert into a plan: reversible actions are executed at once, suspending  *)
(* an account waits for an analyst, who approves, rejects or later revokes *)
(* through the API of the process the request happens to reach.            *)
(***************************************************************************)
EXTENDS MitigationEngine

CONSTANTS
    Incident,  \* the alerts that may be raised, one plan each
    Subject,   \* the entities alerts are about
    Alert,     \* the alerts the detection agent raises: [severity, category]
    Handled    \* bound: the kinds of action the analysts reject, approve or revoke

\* What analyze_event finds: each of its patterns has its severity, and the compound
\* anomaly is HIGH on two signals and CRITICAL on three.
Detectable ==
    {[severity |-> "HIGH", category |-> c] :
        c \in {"CREDENTIAL_STUFFING", "MASS_SCRAPING", "COMPOUND_ANOMALY"}}
    \cup {[severity |-> "CRITICAL", category |-> c] :
        c \in {"PRIVILEGE_ESCALATION", "COMPOUND_ANOMALY"}}

\* The kinds of action a plan may hold
PlanKind == {"rate_limit", "challenge_mfa", "quarantine_ip_temp", "suspend_account"}

ASSUME ContainmentAssumption ==
    /\ Id = Incident \X PlanKind
    /\ Subject \subseteq Entity \ Token
    /\ Alert \subseteq Detectable
    /\ Handled \subseteq PlanKind

VARIABLES
    status,    \* status[p][id]: approval_status in actions_registry of process p
    subject,   \* subject[i]: the target of the actions of incident i
    shown,     \* shown[p][v]: the targets in the response agent's own view v
    approved,  \* history: the actions an analyst approved
    revoked,   \* history: the actions that were revoked
    life       \* history: ticks until an action has run its duration, -1 once it has

agentVars == <<status, subject, shown>>
history == <<approved, revoked, life>>
vars == <<engineVars, agentVars, history>>

\* life of an action that was not carried out yet
Never == -2

\* "unknown" is an id the process never heard of, or forgot when it restarted.
Status == {"unknown", "pending", "executed", "rejected", "revoked"}

\* active_rate_limits, active_quarantined_ips, and active_challenges with its two values
View == {"rate_limits", "quarantined_ips", "mfa", "suspended"}

TypeOK ==
    /\ EngineTypeOK
    /\ status \in [Pod -> [Id -> Status]]
    /\ subject \in [Incident -> Subject \cup {NoId}]
    /\ shown \in [Pod -> [View -> SUBSET Subject]]
    /\ approved \in SUBSET Id /\ revoked \in SUBSET Id
    /\ life \in [Id -> Never..Forever]

Init ==
    /\ EngineInit
    /\ status = [p \in Pod |-> [id \in Id |-> "unknown"]]
    /\ subject = [i \in Incident |-> NoId]
    /\ shown = [p \in Pod |-> [v \in View |-> {}]]
    /\ approved = {} /\ revoked = {}
    /\ life = [id \in Id |-> Never]

ActionOf(id) == [id |-> id, kind |-> id[2], target |-> subject[id[1]]]

-----------------------------------------------------------------------------
\* formulate_response_plan and the tail of process_security_event

Planned(alert) ==
    {"rate_limit"}
    \cup (IF alert.category \in {"CREDENTIAL_STUFFING", "COMPOUND_ANOMALY"}
            THEN {"challenge_mfa"} ELSE {})
    \cup (IF alert.severity \in {"HIGH", "CRITICAL"} THEN {"quarantine_ip_temp"} ELSE {})
    \cup (IF alert.severity = "CRITICAL" \/ alert.category = "PRIVILEGE_ESCALATION"
            THEN {"suspend_account"} ELSE {})

\* Fault: HUMAN_APPROVAL_REQUIRED_ACTIONS lacks suspend_account.
NoneNeedHuman(kind) == kind \in {"block_cidr_organization"}
\* HUMAN_APPROVAL_REQUIRED_ACTIONS, applied by AgentAction.__post_init__
NeedsHuman(kind) == kind \in {"suspend_account", "block_cidr_organization"}

ViewOf(kind) ==
    CASE kind = "rate_limit" -> "rate_limits"
      [] kind = "quarantine_ip_temp" -> "quarantined_ips"
      [] kind = "challenge_mfa" -> "mfa"
      [] OTHER -> "suspended"

\* _apply_containment.  A challenge and a suspension of one target share a slot of
\* active_challenges: the later takes it from the earlier.
ShowAll(view, kinds, target) ==
    [v \in View |->
       IF v \in {ViewOf(k) : k \in kinds} THEN view[v] \cup {target}
       ELSE IF v = "mfa" /\ "suspend_account" \in kinds THEN view[v] \ {target}
       ELSE IF v = "suspended" /\ "challenge_mfa" \in kinds THEN view[v] \ {target}
       ELSE view[v]]

\* Fault: a suspension is not released.
HideUnlessSuspended(view, kind, target) ==
    [v \in View |-> IF v = ViewOf(kind) /\ kind # "suspend_account"
                    THEN view[v] \ {target} ELSE view[v]]
\* _release_containment
Hide(view, kind, target) ==
    [v \in View |->
       IF v = ViewOf(kind)
          \/ ({v, ViewOf(kind)} \subseteq {"mfa", "suspended"})
         THEN view[v] \ {target} ELSE view[v]]

\* Process p turns the alert of incident i about entity e into a plan.  What the
\* engine refuses is logged; the action stays EXECUTED.
ProcessSecurityEvent(p, i, e, alert) ==
    LET auto == {k \in Planned(alert) : ~NeedsHuman(k)}
        acts == {[id |-> <<i, k>>, kind |-> k, target |-> e] : k \in auto}
    IN  /\ subject[i] = NoId
        /\ subject' = [subject EXCEPT ![i] = e]
        /\ status' = [status EXCEPT ![p] = [id \in Id |->
             IF id[1] # i \/ id[2] \notin Planned(alert) THEN @[id]
             ELSE IF id[2] \in auto THEN "executed" ELSE "pending"]]
        /\ shown' = [shown EXCEPT ![p] = ShowAll(@, auto, e)]
        /\ ApplyActions(p, acts, "executed")
        /\ life' = [id \in Id |->
             IF id[1] = i /\ id[2] \in auto THEN Duration[id[2]] ELSE life[id]]
        /\ UNCHANGED <<approved, revoked>>

-----------------------------------------------------------------------------
\* The analyst's operations

MayApprove(p, id) == status[p][id] = "pending"

ApproveAction(p, id) ==
    /\ MayApprove(p, id)
    /\ status' = [status EXCEPT ![p][id] = "executed"]
    /\ shown' = [shown EXCEPT ![p] = ShowAll(@, {id[2]}, subject[id[1]])]
    /\ ApplyActions(p, {ActionOf(id)}, "executed")
    /\ approved' = approved \cup {id}
    /\ life' = [life EXCEPT ![id] = Forever]
    /\ UNCHANGED <<subject, revoked>>

\* reject_action asks nothing of the status and releases nothing.
RejectAction(p, id) ==
    /\ status[p][id] # "unknown"
    /\ status' = [status EXCEPT ![p][id] = "rejected"]
    /\ UNCHANGED <<engineVars, subject, shown, history>>

MayRevoke(p, id) == status[p][id] = "executed"

RevokeAction(p, id) ==
    /\ MayRevoke(p, id)
    /\ status' = [status EXCEPT ![p][id] = "revoked"]
    /\ shown' = [shown EXCEPT ![p] = Hide(@, id[2], subject[id[1]])]
    /\ RollbackAction(p, id)
    /\ revoked' = revoked \cup {id}
    /\ UNCHANGED <<subject, approved, life>>

-----------------------------------------------------------------------------
Evaluate(p, r) ==
    /\ EvaluateRequest(p, r)
    /\ UNCHANGED <<agentVars, history>>

Tick ==
    /\ EngineTick
    /\ life' = [id \in Id |-> IF life[id] \in 0..MaxDuration THEN life[id] - 1 ELSE life[id]]
    /\ UNCHANGED <<agentVars, approved, revoked>>

\* A restarted process has forgotten its actions.
Restart(p) ==
    /\ PodRestarts(p)
    /\ status' = [status EXCEPT ![p] = [id \in Id |-> "unknown"]]
    /\ shown' = [shown EXCEPT ![p] = [v \in View |-> {}]]
    /\ UNCHANGED <<subject, history>>

RedisFaulty ==
    /\ RedisToggles \/ RedisRestarts \/ \E p \in Pod : Reconnects(p)
    /\ UNCHANGED <<agentVars, history>>

Next ==
    \/ \E p \in Pod :
         \/ \E i \in Incident, e \in Subject, alert \in Alert :
              ProcessSecurityEvent(p, i, e, alert)
         \/ \E id \in Incident \X Handled :
              ApproveAction(p, id) \/ RejectAction(p, id) \/ RevokeAction(p, id)
         \/ \E r \in Request : Evaluate(p, r)
         \/ Restart(p)
    \/ Tick
    \/ RedisFaulty

Spec == Init /\ [][Next]_vars

-----------------------------------------------------------------------------
\* An account is suspended only by an action an analyst approved, in every process
\* and through every failure of Redis: requests are never refused on a suspension
\* that is merely proposed.
SuspendsOnlyApproved ==
    \A p \in Pod, r \in Request :
        AnsweringStep(Consulted(p, r)) = 1 => Blocker(p, r) \in approved

\* What the response agent shows as contained is due to an action it has carried out
\* and not revoked: its views and its registry are updated apart from each other.
ShowsNothingRevoked ==
    \A p \in Pod, v \in View : \A e \in shown[p][v] :
        \E id \in Id : /\ ViewOf(id[2]) = v /\ subject[id[1]] = e
                       /\ status[p][id] \in {"executed", "rejected"}

\* The actions that were carried out for the same target with the same kind
Rivals(id) ==
    {other \in Id \ {id} : /\ other[2] = id[2] /\ subject[other[1]] = subject[id[1]]
                           /\ life[other] # Never}

\* A request that comes from the target of an action, by its address and its name
RequestOf(e) == [ip |-> e, principal |-> e, token |-> NoId]

\* An executed action keeps its target out of the process that executed it for all
\* its duration, whatever happens to Redis, unless another action of the kind was
\* carried out for the same target.
HoldsWhereApplied ==
    \A p \in Pod, id \in Id :
        /\ status[p][id] = "executed" /\ life[id] >= 0
        /\ ActionOf(id).target \notin Whitelisted
        /\ Rivals(id) = {}
        => IsMitigated(p, RequestOf(ActionOf(id).target))

-----------------------------------------------------------------------------
\* A claim of the repository that the code does not meet

\* gateway/mitigation_engine.py:188, rollback_action "purges an active mitigation by
\* action_id": the entries of other actions stay.
RollbackPurgesOnlyItsAction ==
    [][\A p \in Pod, id \in Id, t \in Table, e \in Entity :
         id \in revoked' \ revoked /\ local[p][t][e].id # id
           => local'[p][t][e] = local[p][t][e]]_vars
=============================================================================
