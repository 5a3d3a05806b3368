------------------------------ MODULE Readiness ------------------------------
(***************************************************************************)
(* One gateway process from its start on: the rules it loads and reloads,  *)
(* the models it loads once, and the readiness probe of ha_dr.py, which    *)
(* looks at both.  A load balancer that heeds the probe sends requests to  *)
(* ready processes, and only a request makes a process look at the rules   *)
(* file.  The other checks of the probe cannot fail: mitigation engine and *)
(* rate limiter always exist, and an open breaker does not count.          *)
(***************************************************************************)
EXTENDS RulesEngine, ModelService

vars == <<rulesVars, modelVars>>

TypeOK == RulesTypeOK /\ ModelTypeOK

Init == RulesInit /\ ModelInit

\* The modules are imported in this order: the rules are loaded before the models.
Up == step = "done" /\ pc = "idle"

\* evaluate_readiness
Ready == rules # "none" /\ Health = "healthy"

Serves == Up /\ Evaluate /\ UNCHANGED modelVars

Starts ==
    \/ Load /\ UNCHANGED modelVars
    \/ pc = "idle" /\ LoadModels /\ UNCHANGED rulesVars

\* /api/ml/rollback and /api/ml/recover
Operates == Up /\ (RollsBack \/ Recovers) /\ UNCHANGED rulesVars

Restarts == RulesRestart /\ ModelRestart

Next ==
    \/ Serves
    \/ Starts
    \/ Operates
    \/ Restarts
    \/ Operator /\ UNCHANGED modelVars
    \/ Training /\ UNCHANGED rulesVars

\* A process goes on loading, and one that is ready again and again gets requests.
Fairness == WF_vars(Starts) /\ SF_vars(Ready /\ Serves)

Spec == Init /\ [][Next]_vars /\ Fairness

-----------------------------------------------------------------------------
\* The probe and get_health look at the model only, yet a ready process can score
\* requests, and with a model, a scaler and metadata of one training; unless files were
\* being saved, or left half saved, while it loaded them.
ReadyScores ==
    Up /\ Ready /\ ~overlap =>
        Operational /\ \A part \in Part : loaded[part] = loaded["model"]

\* A rules file that stays as it is is what a process works with in the end, if the
\* change brought a newer time and the process is ready again and again: one that is
\* not, for its models were rolled back or its rules were read while empty, gets no
\* requests and does not look at the file.
UpdateTakesEffect ==
    \A new \in Content \ {"absent"} :
        <>[](content = new /\ ~missed) /\ []<>(Up /\ Ready) =>
            <>[](Up => rules = Parsed(new))
=============================================================================
