------------------------------- MODULE Gateway -------------------------------
(***************************************************************************)
(* The request pipeline of gateway/app.py, security_pipeline_middleware,   *)
(* in one process.  The process runs one handler at a time and turns to    *)
(* another only where a handler awaits: for the body of its request and    *)
(* for the answer of the ERP.  Every action is what happens between two of *)
(* these points.  Beside the pipeline the module has the lockout of        *)
(* gateway/credential_defense.py and the containment of the agents, whose  *)
(* targets are pseudonyms; the breaker, the replay guard, the engine and   *)
(* the canary have modules of their own and only their verdicts appear.    *)
(***************************************************************************)
EXTENDS RiskEngine, FiniteSets

CONSTANTS
    Request,           \* handlers that may be under way
    Client,            \* client addresses
    User,              \* the users tokens are issued for
    Served,            \* the routes requests are for
    Severity,          \* severities of the rules, which may be loaded anew at any time
    FailureThreshold,  \* failure_threshold of CredentialDefense
    History,           \* earlier events the detection agent asks for, 4 at the least
    Nothing            \* no request

ASSUME GatewayAssumption ==
    /\ IsFiniteSet(Request)
    /\ Served \subseteq Route
    /\ Severity \subseteq Nat \ {0}
    /\ FailureThreshold \in Nat \ {0}
    /\ History \in Nat

VARIABLES
    stage,     \* stage[r]: what the handler of r awaits, "idle" without a handler
    job,       \* job[r]: whose request it is, for which route, and whether it writes
    said,      \* said[r]: the decision of the audit event of r
    failures,  \* failures[c]: failed logins from c in the last window_seconds
    seen,      \* seen[n]: events of n the detection agent may know, up to History
    contained, \* the targets with an action of the agents in force
    outcome,   \* history: the request answered last
    flagged    \* history: whether a check spoke against the request of r

agentVars == <<seen, contained>>
vars == <<stage, job, said, failures, agentVars, outcome, flagged>>

Job == [client : Client, user : User, route : Served, write : BOOLEAN]

\* The answers told apart, with 404 for every other; the gateway passes on any of the ERP.
Status == {"2xx", "400", "401", "403", "404", "413", "429", "500", "502", "503"}
Silent == "no event"

Outcome == [by : {"gateway", "ERP"}, status : Status, route : Served,
            said : Decision \cup {Silent}, assessed : Decision \cup {Silent},
            flagged : BOOLEAN]

ASSUME NothingAssumption == Nothing \notin Job \cup Outcome

Pseudonym(name) == <<"p", name>>
Name == Client \cup User

TypeOK ==
    /\ stage \in [Request -> {"idle", "body", "ERP"}]
    /\ job \in [Request -> Job \cup {Nothing}]
    /\ said \in [Request -> Decision \cup {Silent}]
    /\ failures \in [Client -> Nat]
    /\ seen \in [Name -> 0..History]
    /\ contained \subseteq {Pseudonym(n) : n \in Name}
    /\ outcome \in Outcome \cup {Nothing}
    /\ flagged \in [Request -> BOOLEAN]
    /\ \A r \in Request : stage[r] = "idle" <=> job[r] = Nothing

Init ==
    /\ stage = [r \in Request |-> "idle"]
    /\ job = [r \in Request |-> Nothing]
    /\ said = [r \in Request |-> Silent]
    /\ failures = [c \in Client |-> 0]
    /\ seen = [n \in Name |-> 0]
    /\ contained = {}
    /\ outcome = Nothing
    /\ flagged = [r \in Request |-> FALSE]

-----------------------------------------------------------------------------
\* The checks and what they find

AuthRequired(route) == route \notin {"login"} \cup Page

\* validate_route: pages are read only.
Catalogued(j) == j.write => j.route \notin Page

\* auth_anomaly of a token that does not verify
InvalidToken == {80, 85, 90, 95}

WafScore == {85, 90, 95}
ReplayThreat == {80, 85, 95}

\* Of check_bola_idor: whether the object may be another user's
HasOwner(j) == j.route \in {"users", "orders"}

\* What evaluate may return.  No rule looks at logins, the stock or SAP; a path of "/*"
\* may begin like that of another route.
RuleSeverity(j) ==
    {0} \cup (IF j.route \in {"login", "inventory", "sap"} THEN {} ELSE Severity)

\* Sums of 25 for the size, 20 for the latency and 15 for the hour of a request
AnomalyScore == {0, 15, 20, 25, 35, 40, 45, 60}

\* Of check_rate; 100 when the count is above 1000, which is answered with 429
RateSeverity == {0, 25, 50, 75, 100}

\* evaluate_request, asked for the names of client and user
IsMitigated(names) == names \cap contained # {}

\* Fault: the lockout begins one failure late.
LockedOutLate(c) == failures[c] > FailureThreshold
\* check_status of the client
LockedOut(c) == failures[c] >= FailureThreshold

\* The engine is asked again once the user of the token is known.
UserMitigated(j) == AuthRequired(j.route) /\ IsMitigated({j.client, j.user})

-----------------------------------------------------------------------------
\* Audit events and answers

\* What calculate_risk is given where only some of the checks have been made
Judged(j, waf, auth, rate, trust) ==
    [waf |-> waf, auth |-> auth, rate |-> rate, rule |-> 0, anomaly |-> 0,
     trust |-> trust, route |-> j.route]

\* analyze_event: what counts as a factor of a compound anomaly
Factors(score, rule, model) ==
    (IF score >= 5000 THEN {"score"} ELSE {}) \cup (IF rule > 0 THEN {"rule"} ELSE {})
      \cup (IF model THEN {"model"} ELSE {})

\* What the agents make of an event: they do not get it, they hold it against somebody
\* with a history, or it is enough alone, as two factors are or a writing access to the
\* users of a high score.
Notice(j, score, rule, model) ==
    LET factors == Factors(score, rule, model)
    IN IF Cardinality(factors) >= 2 \/ (score >= 5000 /\ j.route \in UserRoute /\ j.write)
         THEN "alone"
       ELSE IF score >= 3000 \/ factors # {} THEN "history" ELSE "none"

\* The buffers of earlier events
Remembering(name) == [seen EXCEPT ![name] = Smaller(History, @ + 1)]

\* emit_audit_event: the agents may contain whom the event is about, by the pseudonym it
\* has for him.  What they fail in is ignored.
Emit(name, notice) ==
    \/ UNCHANGED contained
    \/ /\ notice = "alone" \/ (notice = "history" /\ seen[name] = History)
       /\ contained' = contained \cup {Pseudonym(name)}

\* The handler of r ends with an answer of its own or of the ERP.
Finish(r, j, by, status, decision, assessed, bad) ==
    /\ outcome' = [by |-> by, status |-> status, route |-> j.route, said |-> decision,
                   assessed |-> assessed, flagged |-> bad]
    /\ stage' = [stage EXCEPT ![r] = "idle"]
    /\ job' = [job EXCEPT ![r] = Nothing]
    /\ said' = [said EXCEPT ![r] = Silent]
    /\ flagged' = [flagged EXCEPT ![r] = FALSE]

\* An answer without an audit event
Refuse(r, j, status, bad) ==
    /\ Finish(r, j, "gateway", status, Silent, Silent, bad)
    /\ UNCHANGED <<failures, agentVars>>

\* An answer whose audit event has the decision of the check and the score of s
RefuseAudited(r, j, status, decision, s) ==
    LET notice == Notice(j, Overall(s), 0, FALSE) IN
    /\ Finish(r, j, "gateway", status, decision, DecisionOf(s), TRUE)
    /\ Emit(j.client, notice)
    /\ seen' = IF notice = "none" THEN seen ELSE Remembering(j.client)
    /\ UNCHANGED failures

-----------------------------------------------------------------------------
\* A request arrives

TooLarge(r, j) == RefuseAudited(r, j, "413", "BLOCK", Judged(j, 85, 0, 30, 100))

\* The handler begins and awaits the body.
Accept(r, j) ==
    /\ stage' = [stage EXCEPT ![r] = "body"]
    /\ job' = [job EXCEPT ![r] = j]
    /\ UNCHANGED <<said, failures, agentVars, outcome, flagged>>

Arrive(r) ==
    /\ stage[r] = "idle"
    /\ \E j \in Job :
           IF IsMitigated({j.client}) THEN Refuse(r, j, "403", FALSE)
           ELSE TooLarge(r, j) \/ Accept(r, j)

-----------------------------------------------------------------------------
\* The body is there: the checks, in the order of the code

\* Credential defense
BruteForce(r) ==
    LET j == job[r]
    IN LockedOut(j.client) /\ RefuseAudited(r, j, "403", "BLOCK", Judged(j, 95, 0, 80, 100))

\* Inspection of URL, body and payload
WafBlock(r) ==
    \E w \in WafScore :
        RefuseAudited(r, job[r], "403", "BLOCK", Judged(job[r], w, 0, 0, 100))

\* No such route, method or schema, or a writing request without a key or timestamp
Malformed(r) ==
    Refuse(r, job[r], "400", TRUE)

\* The replay guard
Replayed(r) ==
    /\ job[r].write
    /\ \E w \in ReplayThreat :
           RefuseAudited(r, job[r], "403", "BLOCK", Judged(job[r], w, 0, 50, 100))

\* The token does not verify.
BadToken(r) ==
    /\ AuthRequired(job[r].route)
    /\ \E auth \in InvalidToken :
           RefuseAudited(r, job[r], "401", "CHALLENGE", Judged(job[r], 0, auth, 0, 100))

\* Whom the history and the agents know the request by
Known(j) == IF AuthRequired(j.route) THEN j.user ELSE j.client

\* What the checks that only add to the score may find
Findings(j) ==
    [bola : IF HasOwner(j) THEN BOOLEAN ELSE {FALSE}, rule : RuleSeverity(j),
     anomaly : AnomalyScore, rate : RateSeverity, mlAnomalous : BOOLEAN]

\* Fault: another user's object is no more than a suspicion.
SignalsWithWeakOwnership(j, f) ==
    [waf |-> IF f.bola THEN 75 ELSE 0, auth |-> 0, rate |-> f.rate, rule |-> f.rule,
     anomaly |-> f.anomaly, trust |-> IF AuthRequired(j.route) THEN 100 ELSE 85,
     route |-> j.route]
\* What calculate_risk is given in the end
FinalSignals(j, f) ==
    [waf |-> IF f.bola THEN 95 ELSE 0, auth |-> 0, rate |-> f.rate, rule |-> f.rule,
     anomaly |-> f.anomaly, trust |-> IF AuthRequired(j.route) THEN 100 ELSE 85,
     route |-> j.route]

\* What it comes to.  The model of the ML service adds nothing to the score, but its
\* verdict makes the event one the agents look at.
Verdict(j, f) ==
    LET s == FinalSignals(j, f)
    IN [of |-> j, decision |-> DecisionOf(s), bad |-> f.bola \/ f.rule >= 60,
        overLimit |-> f.rate = 100,
        notice |-> Notice(j, Overall(s), f.rule, f.mlAnomalous)]

Verdicts == UNION {{Verdict(j, f) : f \in Findings(j)} : j \in Job}

\* The decision is carried out; what is allowed may still be over the limit, or the
\* breaker open.
Enforce(r, v) ==
    LET Answer(status) == Finish(r, job[r], "gateway", status, v.decision, v.decision, v.bad)
    IN \/ v.decision = "BLOCK" /\ Answer("403")
       \/ v.decision = "CHALLENGE" /\ Answer("401")
       \/ /\ v.decision \in {"ALLOW", "LIMIT"}
          /\ IF v.overLimit THEN Answer("429")
             ELSE \/ Answer("503")
                  \/ /\ stage' = [stage EXCEPT ![r] = "ERP"]
                     /\ said' = [said EXCEPT ![r] = v.decision]
                     /\ flagged' = [flagged EXCEPT ![r] = v.bad]
                     /\ UNCHANGED <<job, outcome>>

\* The score is computed, audited and enforced.
Assess(r) ==
    /\ \E v \in {x \in Verdicts : x.of = job[r]} :
           Emit(Known(job[r]), v.notice) /\ Enforce(r, v)
    /\ seen' = Remembering(Known(job[r]))
    /\ UNCHANGED failures

Inspect(r) ==
    /\ stage[r] = "body"
    /\ \/ BruteForce(r)
       \/ /\ ~LockedOut(job[r].client)
          /\ \/ WafBlock(r) \/ Malformed(r)
             \/ /\ Catalogued(job[r])
                /\ \/ Replayed(r) \/ BadToken(r)
                   \/ IF UserMitigated(job[r]) THEN Refuse(r, job[r], "403", FALSE)
                      ELSE Assess(r)

-----------------------------------------------------------------------------
\* The ERP answers, or does not

\* The answer tells of a failed login.
CountsAsFailure(j, status) == j.route = "login" /\ status = "401"

Answered(r) ==
    LET j == job[r] IN
    /\ stage[r] = "ERP"
    /\ \E status \in Status :
           /\ Finish(r, j, "ERP", status, said[r], said[r], flagged[r])
           /\ failures' = IF CountsAsFailure(j, status)
                            THEN [failures EXCEPT ![j.client] = @ + 1] ELSE failures
    /\ UNCHANGED agentVars

\* The answer to the second attempt, made because the loop of the client was closed:
\* nobody looks whether it tells of a failed login.
AnsweredAgain(r) ==
    /\ stage[r] = "ERP"
    /\ \E status \in Status : Finish(r, job[r], "ERP", status, said[r], said[r], flagged[r])
    /\ UNCHANGED <<failures, agentVars>>

\* The first attempt fails, or the second: what that one raises is not caught.
Failed(r) ==
    /\ stage[r] = "ERP"
    /\ \E status \in {"502", "500"} :
           Finish(r, job[r], "gateway", status, said[r], said[r], flagged[r])
    /\ UNCHANGED <<failures, agentVars>>

-----------------------------------------------------------------------------
\* Fault: the failures of a client that is locked out are not purged.
ForgetUnlessLocked(c) ==
    /\ failures[c] \in 1..FailureThreshold - 1
    /\ failures' = [failures EXCEPT ![c] = @ - 1]
    /\ UNCHANGED <<stage, job, said, agentVars, outcome, flagged>>
\* The oldest failure leaves the window.
Forget(c) ==
    /\ failures[c] > 0
    /\ failures' = [failures EXCEPT ![c] = @ - 1]
    /\ UNCHANGED <<stage, job, said, agentVars, outcome, flagged>>

\* An action of the agents ends or is revoked.
Release(target) ==
    /\ target \in contained
    /\ contained' = contained \ {target}
    /\ UNCHANGED <<stage, job, said, failures, seen, outcome, flagged>>

Next ==
    \/ \E r \in Request :
          Arrive(r) \/ Inspect(r) \/ Answered(r) \/ AnsweredAgain(r) \/ Failed(r)
    \/ \E c \in Client : Forget(c)
    \/ \E n \in Name : Release(Pseudonym(n))

Spec == Init /\ [][Next]_vars

\* Time passes: failures grow old.
FairSpec == Spec /\ \A c \in Client : WF_vars(Forget(c))

-----------------------------------------------------------------------------
\* The logins from c the ERP has to answer
LoginsUnderWay(c) ==
    {r \in Request : stage[r] = "ERP" /\ job[r].client = c /\ job[r].route = "login"}

\* However logins overlap, the failures counted against a client and the logins he has
\* under way stay below the threshold and one for every further handler: the check and
\* the count are on either side of the call.  It bounds the wrong guesses of a client as
\* far as they are counted: those answered at a second attempt (app.py:967-989) are not.
CountedFailuresBounded ==
    \A c \in Client :
        failures[c] + Cardinality(LoginsUnderWay(c))
            <= FailureThreshold - 1 + Cardinality(Request)

\* What the ownership check or a rule of severity 60 or more spoke against is not
\* forwarded, however well it scores otherwise: the weights never outvote them.
NothingFlaggedForwarded ==
    \A r \in Request : stage[r] = "ERP" => ~flagged[r]

\* The audit event tells what happened: its decision is the one its own score asks for
\* and the one that was carried out.  What the ERP answers, whatever it is, answers a
\* request the event lets pass; what the gateway answers by itself is a 403 or 413 where
\* the event says BLOCK, a 401 where it says CHALLENGE, and else neither.  For the routes
\* outside /api/ a challenge may have a score that asks for less.
AuditTellsTheOutcome ==
    outcome # Nothing /\ outcome.said # Silent =>
        /\ \/ outcome.said = outcome.assessed
           \/ outcome.route = "sap" /\ outcome.said = "CHALLENGE"
        /\ outcome.by = "ERP" => outcome.said \in {"ALLOW", "LIMIT"}
        /\ outcome.by = "gateway" =>
             /\ outcome.said = "BLOCK" <=> outcome.status \in {"403", "413"}
             /\ outcome.said = "CHALLENGE" <=> outcome.status = "401"

\* Traffic, deviations from the baseline and rules of a severity below 60 are never
\* answered with 403 or 401 by the gateway, alone or together: that takes a check that
\* found more.
OnlyThreatsAreRefused ==
    outcome # Nothing /\ outcome.said \in {"BLOCK", "CHALLENGE"} => outcome.flagged

\* A lockout ends, whatever the client goes on to send: refused logins do not prolong it.
LockoutEnds == \A c \in Client : LockedOut(c) ~> ~LockedOut(c)

\* What the agents contained is kept from the ERP: README.md names "real-time IP banning"
\* and "account lockdowns".
ContainedIsRefused ==
    [][\A r \in Request :
          stage[r] = "body" /\ stage'[r] = "ERP"
            => Pseudonym(Known(job[r])) \notin contained]_vars

\* How an answer looks to the client
KindOf(status) ==
    IF status = "2xx" THEN "granted"
    ELSE IF status \in {"401", "403", "413"} THEN "denied" ELSE "failed"

\* The pipeline in the terms of AbstractGateway
Abstract == INSTANCE AbstractGateway WITH
    Handler <- Request,
    Nobody <- Nothing,
    Threshold <- FailureThreshold,
    place <- stage,
    whose <- [r \in Request |-> IF job[r] = Nothing THEN Nothing ELSE job[r].client],
    promised <- said,
    wrong <- failures,
    last <- IF outcome = Nothing THEN Nothing
            ELSE [kind |-> KindOf(outcome.status), verdict |-> outcome.said]

\* app.py implements the abstract gateway: whichever check answers, a request is granted
\* something only by the ERP, reaches it once and on an audited verdict in its favour,
\* for a client not locked out at that moment, and is denied on such a verdict by the
\* ERP alone.
ImplementsAbstractGateway == Abstract!Spec
=============================================================================
