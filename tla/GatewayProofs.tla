---------------------------- MODULE GatewayProofs ----------------------------
(***************************************************************************)
(* The score of RiskEngine for all severities, those above one hundred     *)
(* included; the pipeline of Gateway, which decides by it, for any number  *)
(* of handlers, clients and users; and, as a part of its own at the end,   *)
(* ReplayGuard, which the pipeline asks, for any number of processes and   *)
(* of requests, any skew and any faults.                                   *)
(***************************************************************************)
EXTENDS Gateway, ReplayGuard, FiniteSetTheorems, TLAPS

-----------------------------------------------------------------------------
(* The score *)

\* The terms of the composite are whole numbers within their weights.
LEMMA CompositeBounds ==
    ASSUME NEW s \in Signals
    PROVE  /\ Threat(s) \in Int /\ Threat(s) >= 0 /\ Threat(s) <= 4000
           /\ Sensitivity(s.route) \in Int
           /\ Sensitivity(s.route) >= 50 /\ Sensitivity(s.route) <= 90
           /\ Composite(s) \in Int /\ Composite(s) >= 1250
<1>1. /\ s.waf \in Nat /\ s.auth \in Nat /\ s.rate \in Nat /\ s.rule \in Nat
      /\ s.anomaly \in Nat /\ s.trust \in 0..100
  BY DEF Signals
<1>2. Threat(s) \in Int /\ Threat(s) >= 0 /\ Threat(s) <= 4000
  <2> DEFINE mean == 10 * (s.waf + s.auth + s.rate + s.rule)
             raw == IF s.waf >= 90 THEN Larger(40 * s.waf, mean)
                    ELSE IF s.rule >= 80 THEN Larger(40 * s.rule, mean)
                    ELSE IF s.auth >= 90 THEN Larger(40 * s.auth, mean)
                    ELSE Larger(mean, 20 * s.rule)
  <2>1. /\ mean \in Nat /\ 40 * s.waf \in Nat /\ 40 * s.rule \in Nat
        /\ 40 * s.auth \in Nat /\ 20 * s.rule \in Nat
    BY <1>1
  <2>2. Threat(s) = Smaller(4000, raw)
    BY DEF Threat
  <2> HIDE DEF mean
  <2>3. raw \in Nat
    BY <2>1 DEF Larger
  <2> HIDE DEF raw
  <2> QED
    BY <2>2, <2>3 DEF Smaller
<1>3. /\ Sensitivity(s.route) \in Int
      /\ Sensitivity(s.route) >= 50 /\ Sensitivity(s.route) <= 90
  BY DEF Sensitivity
<1>4. Smaller(100, s.anomaly) \in Int /\ Smaller(100, s.anomaly) >= 0
  BY <1>1 DEF Smaller
<1>5. Composite(s) \in Int /\ Composite(s) >= 1250
  BY <1>1, <1>2, <1>3, <1>4 DEF Composite
<1> QED
  BY <1>2, <1>3, <1>5

LEMMA BoundedRange ==
    ASSUME NEW s \in Signals
    PROVE  Bounded(s) \in Int /\ Bounded(s) >= 1250
  BY CompositeBounds DEF Bounded, Larger, Smaller

\* The score stays between 0 and 100 whatever the severities (tests/test_risk_engine.py
\* gives it values of up to 500).
THEOREM RiskIsBounded ==
    ASSUME NEW s \in Signals
    PROVE  /\ Overall(s) \in Int /\ Overall(s) >= 0 /\ Overall(s) <= 10000
           /\ DecisionOf(s) \in Decision
<1>1. Bounded(s) \in Int /\ Bounded(s) >= 1250
  BY BoundedRange
<1>2. Overall(s) \in Int /\ Overall(s) >= 0 /\ Overall(s) <= 10000
  BY <1>1 DEF Overall, Smaller
<1> QED
  BY <1>2 DEF DecisionOf, Decision

\* An attack the WAF is sure of, or a critical rule, blocks the request whatever else is
\* known in its favour.
THEOREM CriticalIsBlocked ==
    ASSUME NEW s \in Signals, s.waf >= 80 \/ s.rule >= 80
    PROVE  DecisionOf(s) = "BLOCK"
<1>1. Bounded(s) = Larger(Composite(s), 8500)
  BY DEF Bounded
<1>2. Overall(s) \in Int /\ Overall(s) >= 8500
  BY <1>1, CompositeBounds DEF Overall, Larger, Smaller
<1> QED
  BY <1>2 DEF DecisionOf

\* A rule of severity 60 or more keeps the request from the ERP.
THEOREM FiredRuleIsNotForwarded ==
    ASSUME NEW s \in Signals, s.rule >= 60
    PROVE  DecisionOf(s) \in {"CHALLENGE", "BLOCK"}
<1>1. Bounded(s) \in {Larger(Composite(s), 8500), Larger(Composite(s), 6500)}
  BY DEF Bounded
<1>2. Overall(s) \in Int /\ Overall(s) >= 6500
  BY <1>1, CompositeBounds DEF Overall, Larger, Smaller
<1> QED
  BY <1>2 DEF DecisionOf

\* A request whose only fault is its token is challenged, never blocked and never let
\* through, on the routes of the API.
THEOREM InvalidTokenIsChallenged ==
    ASSUME NEW s \in Signals, s.auth >= 80, TakesToken(s.route), s.waf < 75, s.rule < 60
    PROVE  DecisionOf(s) = "CHALLENGE"
<1>1. /\ s.waf \in Nat /\ s.rule \in Nat
  BY DEF Signals
<1>2. Bounded(s) = Smaller(7400, Larger(Composite(s), 6000))
  BY <1>1 DEF Bounded
<1>3. Overall(s) \in 6000..7400
  <2>1. Composite(s) \in Int
    BY CompositeBounds
  <2>2. Larger(Composite(s), 6000) \in Int /\ Larger(Composite(s), 6000) >= 6000
    BY <2>1 DEF Larger
  <2>3. Bounded(s) \in 6000..7400
    BY <1>2, <2>2 DEF Smaller
  <2> QED
    BY <2>3 DEF Overall, Smaller
<1> QED
  BY <1>3 DEF DecisionOf

\* Traffic and deviations from the baseline, which score 100 and 60 at the most, and rules
\* of a severity below 60, which no login is judged by, neither challenge nor block a
\* trusted request, not even together.
THEOREM LoadAloneIsLetThrough ==
    ASSUME NEW s \in Signals, s.waf = 0, s.auth = 0, s.rule < 60, s.rate <= 100,
           s.anomaly <= 60, s.trust >= 85, s.route = "login" => s.rule = 0
    PROVE  DecisionOf(s) \in {"ALLOW", "LIMIT"}
<1>1. s.rate \in Nat /\ s.rule \in Nat /\ s.anomaly \in Nat /\ s.trust \in 0..100
  BY DEF Signals
<1>2. Threat(s) \in Int /\ Threat(s) <= 1000 + 10 * s.rule
  <2> DEFINE mean == 10 * (s.rate + s.rule)
             half == 20 * s.rule
  <2>1. Threat(s) = Smaller(4000, Larger(mean, half))
    BY <1>1 DEF Threat
  <2>2. /\ mean \in Nat /\ mean <= 1000 + 10 * s.rule
        /\ half \in Nat /\ half <= 1000 + 10 * s.rule
    BY <1>1
  <2> HIDE DEF mean, half
  <2>3. Larger(mean, half) \in {mean, half}
    BY DEF Larger
  <2>4. Smaller(4000, Larger(mean, half)) \in Int
        /\ Smaller(4000, Larger(mean, half)) <= Larger(mean, half)
    BY <2>2, <2>3 DEF Smaller
  <2> QED
    BY <1>1, <2>1, <2>2, <2>3, <2>4
<1>3. Composite(s) \in Int /\ Composite(s) <= 5000
  <2>1. 10 * s.rule + 25 * Sensitivity(s.route) <= 2750
    <3>1. CASE s.route = "login"
      BY <1>1, <3>1 DEF Sensitivity
    <3>2. CASE s.route # "login"
      <4>1. Sensitivity(s.route) \in {50, 80, 85}
        BY <3>2 DEF Sensitivity
      <4> QED
        BY <1>1, <4>1
    <3> QED
      BY <3>1, <3>2
  <2>2. /\ 20 * (100 - s.trust) <= 300 /\ 15 * Smaller(100, s.anomaly) <= 900
        /\ Smaller(100, s.anomaly) \in Int
    BY <1>1 DEF Smaller
  <2>3. Composite(s) \in Int
    BY CompositeBounds
  <2>4. Composite(s) = Threat(s) + 25 * Sensitivity(s.route) + 20 * (100 - s.trust)
                         + 15 * Smaller(100, s.anomaly)
    BY DEF Composite
  <2>5. Sensitivity(s.route) \in Int
    BY CompositeBounds
  <2> QED
    BY <1>1, <1>2, <2>1, <2>2, <2>3, <2>4, <2>5
<1>4. Bounded(s) = Composite(s)
  BY <1>1 DEF Bounded
<1>5. Overall(s) \in Int /\ Overall(s) <= 5000
  BY <1>3, <1>4 DEF Overall, Smaller
<1> QED
  BY <1>5 DEF DecisionOf

-----------------------------------------------------------------------------
Rank(decision) ==
    CASE decision = "ALLOW" -> 0
      [] decision = "LIMIT" -> 1
      [] decision = "CHALLENGE" -> 2
      [] decision = "BLOCK" -> 3

\* A higher score never has the milder decision.
LEMMA RankFollowsScore ==
    ASSUME NEW s \in Signals, NEW t \in Signals, Overall(s) <= Overall(t)
    PROVE  Rank(DecisionOf(s)) <= Rank(DecisionOf(t))
<1>1. Overall(s) \in Int /\ Overall(t) \in Int
  BY RiskIsBounded
<1> QED
  BY <1>1 DEF DecisionOf, Rank

\* Once an attack is certain, a higher severity of it never softens the decision, though
\* it may lower the score: at 90 it takes the place of the severity of the rules.  The
\* same is not so of auth_anomaly, whose guarantee at 80 is a limit as well.
THEOREM MoreOfAnAttackIsNeverMilder ==
    ASSUME NEW s \in Signals, NEW w \in Nat, w >= s.waf
    PROVE  Rank(DecisionOf(s)) <= Rank(DecisionOf([s EXCEPT !.waf = w]))
<1> DEFINE t == [s EXCEPT !.waf = w]
<1>1. /\ s.waf \in Nat /\ s.auth \in Nat /\ s.rate \in Nat /\ s.rule \in Nat
      /\ s.anomaly \in Nat /\ s.trust \in 0..100
  BY DEF Signals
<1>2. /\ t \in Signals /\ t.waf = w
      /\ t.auth = s.auth /\ t.rate = s.rate /\ t.rule = s.rule /\ t.anomaly = s.anomaly
      /\ t.trust = s.trust /\ t.route = s.route
  BY <1>1 DEF Signals
<1> HIDE DEF t
<1>3. CASE w >= 80 \/ s.rule >= 80
  <2>1. DecisionOf(t) = "BLOCK"
    BY <1>2, <1>3, CriticalIsBlocked
  <2>2. DecisionOf(s) \in Decision
    BY RiskIsBounded
  <2> QED
    BY <2>1, <2>2 DEF Rank, Decision, t
<1>4. CASE w < 80 /\ s.rule < 80
  <2>1. Threat(s) <= Threat(t)
    BY <1>1, <1>2, <1>4 DEF Threat, Larger, Smaller
  <2>2. Composite(s) <= Composite(t)
    BY <1>1, <1>2, <2>1, CompositeBounds DEF Composite, Smaller
  <2>3. Bounded(s) <= Bounded(t)
    BY <1>1, <1>2, <1>4, <2>2, CompositeBounds DEF Bounded, Larger, Smaller
  <2>4. Overall(s) <= Overall(t)
    <3>1. Bounded(s) \in Int /\ Bounded(t) \in Int
      BY <1>2, CompositeBounds DEF Bounded, Larger, Smaller
    <3> QED
      BY <3>1, <2>3 DEF Overall, Smaller
  <2> QED
    BY <1>2, <2>4, RankFollowsScore DEF t
<1> QED
  BY <1>1, <1>3, <1>4

-----------------------------------------------------------------------------
(* The pipeline *)

\* What is at the ERP was let through by an audited decision, and nothing spoke
\* against it.
ForwardedInv ==
    \A r \in Request :
        stage[r] = "ERP" => said[r] \in {"ALLOW", "LIMIT"} /\ ~flagged[r]

IInv ==
    /\ TypeOK
    /\ ForwardedInv
    /\ AuditTellsTheOutcome
    /\ OnlyThreatsAreRefused

-----------------------------------------------------------------------------
\* A handler under way has a request.
LEMMA JobTyped ==
    ASSUME TypeOK, NEW r \in Request, stage[r] # "idle"
    PROVE  /\ job[r] \in Job
           /\ job[r].client \in Client /\ job[r].user \in User /\ job[r].route \in Served
           /\ job[r].write \in BOOLEAN
<1>1. job[r] \in Job
  BY DEF TypeOK
<1> QED
  BY <1>1 DEF Job

LEMMA JudgedTyped ==
    ASSUME NEW j \in Job, NEW waf \in Nat, NEW auth \in Nat, NEW rate \in Nat,
           NEW trust \in 0..100
    PROVE  /\ Judged(j, waf, auth, rate, trust) \in Signals
           /\ Judged(j, waf, auth, rate, trust).waf = waf
           /\ Judged(j, waf, auth, rate, trust).auth = auth
           /\ Judged(j, waf, auth, rate, trust).rule = 0
           /\ Judged(j, waf, auth, rate, trust).route = j.route
<1>1. j.route \in Route
  BY GatewayAssumption DEF Job
<1> QED
  BY <1>1 DEF Judged, Signals

\* The final score keeps a request from the ERP exactly if a check found something.
LEMMA VerdictSound ==
    ASSUME NEW j \in Job, NEW v \in Verdicts, v.of = j
    PROVE  /\ v.decision \in Decision
           /\ v.bad \in BOOLEAN
           /\ v.bad <=> v.decision \in {"CHALLENGE", "BLOCK"}
<1>1. PICK f \in Findings(j) : v = Verdict(j, f)
  <2>1. PICK k \in Job : v \in {Verdict(k, f) : f \in Findings(k)}
    BY DEF Verdicts
  <2>2. PICK f \in Findings(k) : v = Verdict(k, f)
    BY <2>1
  <2>3. k = j
    BY <2>2 DEF Verdict
  <2> QED
    BY <2>2, <2>3
<1> DEFINE s == FinalSignals(j, f)
<1>2. f.bola \in BOOLEAN
  BY DEF Findings
<1>3. f.rule \in Nat /\ (j.route = "login" => f.rule = 0)
  <2>1. PICK severity \in RuleSeverity(j) : severity = f.rule
    BY DEF Findings
  <2>2. severity \in Nat /\ (j.route = "login" => severity = 0)
    BY GatewayAssumption DEF RuleSeverity
  <2> QED
    BY <2>1, <2>2
<1>4. f.anomaly \in Nat /\ f.anomaly <= 60
  BY DEF Findings, AnomalyScore
<1>5. f.rate \in Nat /\ f.rate <= 100
  BY DEF Findings, RateSeverity
<1>6. j.route \in Route
  BY GatewayAssumption DEF Job
<1>7. /\ s.waf = IF f.bola THEN 95 ELSE 0
      /\ s.auth = 0 /\ s.rate = f.rate /\ s.rule = f.rule /\ s.anomaly = f.anomaly
      /\ s.route = j.route
      /\ s.trust = IF AuthRequired(j.route) THEN 100 ELSE 85
  BY DEF FinalSignals
<1>8. s \in Signals
  BY <1>2, <1>3, <1>4, <1>5, <1>6 DEF FinalSignals, Signals
<1>9. v.decision = DecisionOf(s) /\ v.bad = (f.bola \/ f.rule >= 60)
  BY <1>1 DEF Verdict
<1> HIDE DEF s
<1>10. DecisionOf(s) \in Decision
  BY <1>8, RiskIsBounded
<1>11. CASE f.bola
  <2>1. s.waf >= 80
    BY <1>7, <1>11
  <2>2. DecisionOf(s) = "BLOCK"
    BY <1>8, <2>1, CriticalIsBlocked
  <2> QED
    BY <1>9, <1>10, <1>11, <2>2
<1>12. CASE ~f.bola /\ f.rule >= 60
  <2>1. s.rule >= 60
    BY <1>3, <1>7, <1>12
  <2>2. DecisionOf(s) \in {"CHALLENGE", "BLOCK"}
    BY <1>8, <2>1, FiredRuleIsNotForwarded
  <2> QED
    BY <1>9, <1>10, <1>12, <2>2
<1>13. CASE ~f.bola /\ ~(f.rule >= 60)
  <2>1. /\ s.waf = 0 /\ s.auth = 0 /\ s.rule < 60 /\ s.rate <= 100 /\ s.anomaly <= 60
        /\ s.trust >= 85 /\ (s.route = "login" => s.rule = 0)
    BY <1>3, <1>4, <1>5, <1>7, <1>13
  <2>2. DecisionOf(s) \in {"ALLOW", "LIMIT"}
    BY <1>8, <2>1, LoadAloneIsLetThrough
  <2> QED
    BY <1>9, <1>10, <1>13, <2>2
<1> QED
  BY <1>2, <1>11, <1>12, <1>13

-----------------------------------------------------------------------------
\* An answer that keeps what the outcome has to satisfy keeps the invariant.
GoodOutcome(j, by, status, decision, assessed, bad) ==
    /\ decision # Silent =>
         /\ decision = assessed \/ (j.route = "sap" /\ decision = "CHALLENGE")
         /\ by = "ERP" => decision \in {"ALLOW", "LIMIT"}
         /\ by = "gateway" =>
              /\ decision = "BLOCK" <=> status \in {"403", "413"}
              /\ decision = "CHALLENGE" <=> status = "401"
    /\ decision \in {"BLOCK", "CHALLENGE"} => bad

LEMMA FinishKeeps ==
    ASSUME IInv, NEW r \in Request, NEW j \in Job, NEW by \in {"gateway", "ERP"},
           NEW status \in Status, NEW decision \in Decision \cup {Silent},
           NEW assessed \in Decision \cup {Silent}, NEW bad \in BOOLEAN,
           GoodOutcome(j, by, status, decision, assessed, bad),
           Finish(r, j, by, status, decision, assessed, bad),
           failures' \in [Client -> Nat],
           seen' \in [Name -> 0..History],
           contained' \subseteq {Pseudonym(n) : n \in Name}
    PROVE  IInv'
<1>1. j.route \in Served
  BY DEF Job
<1>2. /\ outcome'.by = by /\ outcome'.status = status /\ outcome'.route = j.route /\ outcome'.said = decision
      /\ outcome'.assessed = assessed /\ outcome'.flagged = bad
  BY DEF Finish
<1>3. outcome' \in Outcome
  BY <1>1 DEF Finish, Outcome
<1>4. /\ stage' \in [Request -> {"idle", "body", "ERP"}]
      /\ job' \in [Request -> Job \cup {Nothing}]
      /\ said' \in [Request -> Decision \cup {Silent}]
      /\ flagged' \in [Request -> BOOLEAN]
      /\ \A q \in Request : stage'[q] = "idle" <=> job'[q] = Nothing
  BY DEF IInv, TypeOK, Finish
<1>5. TypeOK'
  BY <1>3, <1>4 DEF TypeOK
<1>6. ForwardedInv'
  BY DEF IInv, TypeOK, ForwardedInv, Finish
<1>7. AuditTellsTheOutcome'
  BY <1>2 DEF AuditTellsTheOutcome, GoodOutcome
<1>8. OnlyThreatsAreRefused'
  BY <1>2 DEF OnlyThreatsAreRefused, GoodOutcome
<1> QED
  BY <1>5, <1>6, <1>7, <1>8 DEF IInv

LEMMA EmitTyped ==
    ASSUME TypeOK, NEW n \in Name, NEW notice, Emit(n, notice)
    PROVE  contained' \subseteq {Pseudonym(m) : m \in Name}
<1>1. Pseudonym(n) \in {Pseudonym(m) : m \in Name}
  OBVIOUS
<1>2. contained' \subseteq contained \cup {Pseudonym(n)}
  BY DEF Emit
<1> QED
  BY <1>1, <1>2 DEF TypeOK

LEMMA RemembersTyped ==
    ASSUME TypeOK, NEW n \in Name
    PROVE  Remembering(n) \in [Name -> 0..History]
<1>1. seen \in [Name -> 0..History] /\ seen[n] \in 0..History
  BY DEF TypeOK
<1>2. Smaller(History, seen[n] + 1) \in 0..History
  BY <1>1, GatewayAssumption DEF Smaller
<1> QED
  BY <1>1, <1>2 DEF Remembering

LEMMA RefuseKeeps ==
    ASSUME IInv, NEW r \in Request, NEW j \in Job, NEW status \in Status,
           NEW bad \in BOOLEAN, Refuse(r, j, status, bad)
    PROVE  IInv'
<1>1. GoodOutcome(j, "gateway", status, Silent, Silent, bad)
  BY DEF GoodOutcome, Silent
<1>2. /\ failures' \in [Client -> Nat] /\ seen' \in [Name -> 0..History]
      /\ contained' \subseteq {Pseudonym(n) : n \in Name}
  BY DEF IInv, TypeOK, Refuse, agentVars
<1>3. Finish(r, j, "gateway", status, Silent, Silent, bad)
  BY DEF Refuse
<1> QED
  BY <1>1, <1>2, <1>3, FinishKeeps

\* A refusal that is audited is sound if its score asks for what the check decided.
LEMMA RefuseAuditedKeeps ==
    ASSUME IInv, NEW r \in Request, NEW j \in Job, NEW status \in Status,
           NEW decision \in Decision, NEW s \in Signals,
           RefuseAudited(r, j, status, decision, s),
           decision = DecisionOf(s) \/ (j.route = "sap" /\ decision = "CHALLENGE"),
           decision = "BLOCK" <=> status \in {"403", "413"},
           decision = "CHALLENGE" <=> status = "401"
    PROVE  IInv'
<1>1. DecisionOf(s) \in Decision
  BY RiskIsBounded
<1>2. GoodOutcome(j, "gateway", status, decision, DecisionOf(s), TRUE)
  BY DEF GoodOutcome
<1>3. j.client \in Name
  BY DEF Job, Name
<1>4. /\ Finish(r, j, "gateway", status, decision, DecisionOf(s), TRUE)
      /\ Emit(j.client, Notice(j, Overall(s), 0, FALSE)) /\ UNCHANGED failures
      /\ seen' = seen \/ seen' = Remembering(j.client)
  BY DEF RefuseAudited
<1>5. contained' \subseteq {Pseudonym(n) : n \in Name}
  BY <1>3, <1>4, EmitTyped DEF IInv
<1>6. failures' \in [Client -> Nat] /\ seen' \in [Name -> 0..History]
  BY <1>3, <1>4, RemembersTyped DEF IInv, TypeOK
<1>7. decision \in Decision \cup {Silent} /\ DecisionOf(s) \in Decision \cup {Silent}
  BY <1>1
<1>8. TRUE \in BOOLEAN
  OBVIOUS
<1> QED
  BY <1>2, <1>4, <1>5, <1>6, <1>7, <1>8, FinishKeeps

-----------------------------------------------------------------------------
\* One lemma for every action.  What blocks is scored as an attack the WAF is sure of.
LEMMA ArriveKeeps ==
    ASSUME IInv, NEW r \in Request, Arrive(r)
    PROVE  IInv'
<1>1. PICK j \in Job : \/ Refuse(r, j, "403", FALSE)
                       \/ TooLarge(r, j)
                       \/ Accept(r, j)
  BY DEF Arrive
<1>2. CASE Refuse(r, j, "403", FALSE)
  BY <1>2, RefuseKeeps DEF Status
<1>3. CASE TooLarge(r, j)
  <2> DEFINE s == Judged(j, 85, 0, 30, 100)
  <2>1. s \in Signals /\ s.waf = 85
    BY JudgedTyped
  <2>2. RefuseAudited(r, j, "413", "BLOCK", s)
    BY <1>3 DEF TooLarge
  <2> HIDE DEF s
  <2>3. DecisionOf(s) = "BLOCK"
    BY <2>1, CriticalIsBlocked
  <2>4. "413" \in Status /\ "BLOCK" \in Decision
    BY DEF Status, Decision
  <2> QED
    BY <2>1, <2>2, <2>3, <2>4, RefuseAuditedKeeps
<1>4. CASE Accept(r, j)
  <2>1. j # Nothing
    BY NothingAssumption
  <2>2. TypeOK'
    BY <1>4, <2>1 DEF IInv, TypeOK, Accept, agentVars
  <2>3. ForwardedInv'
    BY <1>4 DEF IInv, TypeOK, ForwardedInv, Accept
  <2>4. UNCHANGED outcome
    BY <1>4 DEF Accept
  <2>5. AuditTellsTheOutcome' /\ OnlyThreatsAreRefused'
    BY <2>4 DEF IInv, AuditTellsTheOutcome, OnlyThreatsAreRefused
  <2> QED
    BY <2>2, <2>3, <2>5 DEF IInv
<1> QED
  BY <1>1, <1>2, <1>3, <1>4

\* A check that blocks with a severity of 80 or more of the WAF tells what it does.
LEMMA BlockKeeps ==
    ASSUME IInv, NEW r \in Request, stage[r] # "idle",
           NEW waf \in Nat, waf >= 80, NEW rate \in Nat,
           RefuseAudited(r, job[r], "403", "BLOCK", Judged(job[r], waf, 0, rate, 100))
    PROVE  IInv'
<1> DEFINE s == Judged(job[r], waf, 0, rate, 100)
<1>1. job[r] \in Job
  BY JobTyped DEF IInv
<1>2. s \in Signals /\ s.waf = waf
  <2>1. job[r].route \in Route
    BY <1>1, GatewayAssumption DEF Job
  <2> QED
    BY <2>1 DEF Judged, Signals
<1>3. RefuseAudited(r, job[r], "403", "BLOCK", s)
  OBVIOUS
<1> HIDE DEF s
<1>4. DecisionOf(s) = "BLOCK"
  BY <1>2, CriticalIsBlocked
<1>5. "403" \in Status /\ "BLOCK" \in Decision
  BY DEF Status, Decision
<1> QED
  BY <1>1, <1>2, <1>3, <1>4, <1>5, RefuseAuditedKeeps

LEMMA BadTokenKeeps ==
    ASSUME IInv, NEW r \in Request, stage[r] # "idle", BadToken(r)
    PROVE  IInv'
<1>1. PICK auth \in InvalidToken :
        RefuseAudited(r, job[r], "401", "CHALLENGE", Judged(job[r], 0, auth, 0, 100))
  BY DEF BadToken
<1> DEFINE s == Judged(job[r], 0, auth, 0, 100)
<1>2. job[r] \in Job
  BY JobTyped DEF IInv
<1>3. auth \in Nat /\ auth >= 80
  BY DEF InvalidToken
<1>4. s \in Signals /\ s.waf = 0 /\ s.auth = auth /\ s.rule = 0 /\ s.route = job[r].route
  <2>1. job[r].route \in Route
    BY <1>2, GatewayAssumption DEF Job
  <2> QED
    BY <1>3, <2>1 DEF Judged, Signals
<1>5. RefuseAudited(r, job[r], "401", "CHALLENGE", s)
  BY <1>1
<1> HIDE DEF s
<1>6. TakesToken(s.route) \/ job[r].route = "sap"
  BY <1>2, <1>4, GatewayAssumption DEF BadToken, AuthRequired, TakesToken, Page, Job, Route
<1>7. TakesToken(s.route) => DecisionOf(s) = "CHALLENGE"
  BY <1>3, <1>4, InvalidTokenIsChallenged
<1>8. "401" \in Status /\ "CHALLENGE" \in Decision
  BY DEF Status, Decision
<1> QED
  BY <1>2, <1>4, <1>5, <1>6, <1>7, <1>8, RefuseAuditedKeeps

LEMMA AssessKeeps ==
    ASSUME IInv, NEW r \in Request, stage[r] # "idle", Assess(r)
    PROVE  IInv'
<1>1. PICK v \in Verdicts : v.of = job[r] /\ Emit(Known(job[r]), v.notice) /\ Enforce(r, v)
  BY DEF Assess
<1>2. /\ job[r] \in Job
      /\ job[r].client \in Client /\ job[r].user \in User
  BY JobTyped DEF IInv
<1>3. /\ v.decision \in Decision /\ v.bad \in BOOLEAN
      /\ v.bad <=> v.decision \in {"CHALLENGE", "BLOCK"}
  BY <1>1, <1>2, VerdictSound
<1>4. Known(job[r]) \in Name
  BY <1>2 DEF Known, Name
<1>5. /\ contained' \subseteq {Pseudonym(n) : n \in Name}
      /\ failures' \in [Client -> Nat] /\ seen' \in [Name -> 0..History]
  BY <1>1, <1>4, EmitTyped, RemembersTyped DEF IInv, TypeOK, Assess
<1>6. ASSUME NEW status \in Status,
             Finish(r, job[r], "gateway", status, v.decision, v.decision, v.bad),
             v.decision = "BLOCK" <=> status \in {"403", "413"},
             v.decision = "CHALLENGE" <=> status = "401"
      PROVE  IInv'
  <2>1. GoodOutcome(job[r], "gateway", status, v.decision, v.decision, v.bad)
    BY <1>3, <1>6 DEF GoodOutcome
  <2> QED
    BY <1>2, <1>3, <1>5, <1>6, <2>1, FinishKeeps
<1>7. CASE \E status \in {"403", "401", "429", "503"} :
              /\ Finish(r, job[r], "gateway", status, v.decision, v.decision, v.bad)
              /\ status = "403" <=> v.decision = "BLOCK"
              /\ status = "401" <=> v.decision = "CHALLENGE"
  BY <1>6, <1>7 DEF Status
<1>8. CASE /\ v.decision \in {"ALLOW", "LIMIT"}
           /\ stage' = [stage EXCEPT ![r] = "ERP"]
           /\ said' = [said EXCEPT ![r] = v.decision]
           /\ flagged' = [flagged EXCEPT ![r] = v.bad]
           /\ UNCHANGED <<job, outcome>>
  <2>1. TypeOK'
    BY <1>2, <1>3, <1>5, <1>8, NothingAssumption DEF IInv, TypeOK
  <2>2. ForwardedInv'
    BY <1>3, <1>8 DEF IInv, TypeOK, ForwardedInv
  <2>3. AuditTellsTheOutcome' /\ OnlyThreatsAreRefused'
    BY <1>8 DEF IInv, AuditTellsTheOutcome, OnlyThreatsAreRefused
  <2> QED
    BY <2>1, <2>2, <2>3 DEF IInv
<1> QED
  BY <1>1, <1>7, <1>8 DEF Enforce

LEMMA InspectKeeps ==
    ASSUME IInv, NEW r \in Request, Inspect(r)
    PROVE  IInv'
<1>1. stage[r] # "idle"
  BY DEF Inspect
<1>2. job[r] \in Job
  BY <1>1, JobTyped DEF IInv
<1>3. CASE BruteForce(r)
  BY <1>1, <1>3, BlockKeeps DEF BruteForce
<1>4. CASE WafBlock(r)
  <2>1. PICK w \in WafScore :
          RefuseAudited(r, job[r], "403", "BLOCK", Judged(job[r], w, 0, 0, 100))
    BY <1>4 DEF WafBlock
  <2>2. w \in Nat /\ w >= 80
    BY DEF WafScore
  <2> QED
    BY <1>1, <2>1, <2>2, BlockKeeps
<1>5. CASE Malformed(r)
  <2>1. "400" \in Status /\ TRUE \in BOOLEAN
    BY DEF Status
  <2> QED
    BY <1>2, <1>5, <2>1, RefuseKeeps DEF Malformed
<1>6. CASE Replayed(r)
  <2>1. PICK w \in ReplayThreat :
          RefuseAudited(r, job[r], "403", "BLOCK", Judged(job[r], w, 0, 50, 100))
    BY <1>6 DEF Replayed
  <2>2. w \in Nat /\ w >= 80
    BY DEF ReplayThreat
  <2> QED
    BY <1>1, <2>1, <2>2, BlockKeeps
<1>7. CASE BadToken(r)
  BY <1>1, <1>7, BadTokenKeeps
<1>8. CASE Refuse(r, job[r], "403", FALSE)
  <2>1. "403" \in Status /\ FALSE \in BOOLEAN
    BY DEF Status
  <2> QED
    BY <1>2, <1>8, <2>1, RefuseKeeps
<1>9. CASE Assess(r)
  BY <1>1, <1>9, AssessKeeps
<1> QED
  BY <1>3, <1>4, <1>5, <1>6, <1>7, <1>8, <1>9 DEF Inspect

\* What the ERP was asked ends with the decision it was let through by.
LEMMA EndKeeps ==
    ASSUME IInv, NEW r \in Request, stage[r] = "ERP",
           NEW by \in {"gateway", "ERP"}, NEW status \in Status,
           by = "gateway" => status \in {"502", "500"},
           Finish(r, job[r], by, status, said[r], said[r], flagged[r]),
           failures' \in [Client -> Nat], UNCHANGED agentVars
    PROVE  IInv'
<1>1. job[r] \in Job
  BY JobTyped DEF IInv
<1>2. said[r] \in {"ALLOW", "LIMIT"} /\ flagged[r] \in BOOLEAN
  BY DEF IInv, ForwardedInv, TypeOK
<1>3. GoodOutcome(job[r], by, status, said[r], said[r], flagged[r])
  BY <1>2 DEF GoodOutcome
<1>4. said[r] \in Decision \cup {Silent}
  BY <1>2 DEF Decision
<1>5. contained' \subseteq {Pseudonym(n) : n \in Name} /\ seen' \in [Name -> 0..History]
  BY DEF IInv, TypeOK, agentVars
<1> QED
  BY <1>1, <1>2, <1>3, <1>4, <1>5, FinishKeeps

LEMMA AnsweredKeeps ==
    ASSUME IInv, NEW r \in Request, Answered(r) \/ AnsweredAgain(r) \/ Failed(r)
    PROVE  IInv'
<1>1. stage[r] = "ERP" /\ UNCHANGED agentVars
  BY DEF Answered, AnsweredAgain, Failed
<1>2. job[r].client \in Client
  BY <1>1, JobTyped DEF IInv
<1>3. failures' \in [Client -> Nat]
  <2>1. /\ failures \in [Client -> Nat]
        /\ [failures EXCEPT ![job[r].client] = @ + 1] \in [Client -> Nat]
    BY <1>2 DEF IInv, TypeOK
  <2>2. failures' \in {failures, [failures EXCEPT ![job[r].client] = @ + 1]}
    BY DEF Answered, AnsweredAgain, Failed
  <2> QED
    BY <2>1, <2>2
<1>4. PICK by \in {"gateway", "ERP"}, status \in Status :
        /\ by = "gateway" => status \in {"502", "500"}
        /\ Finish(r, job[r], by, status, said[r], said[r], flagged[r])
  BY DEF Answered, AnsweredAgain, Failed, Status
<1> QED
  BY <1>1, <1>3, <1>4, EndKeeps

\* What happens outside the handlers leaves them alone.
LEMMA OutsideKeeps ==
    ASSUME IInv,
           (\E c \in Client : Forget(c)) \/ (\E n \in Name : Release(Pseudonym(n)))
    PROVE  IInv'
<1>1. UNCHANGED <<stage, job, said, outcome, flagged>>
  BY DEF Forget, Release
<1>2. failures' \in [Client -> Nat] /\ seen' \in [Name -> 0..History]
  BY DEF IInv, TypeOK, Forget, Release, agentVars
<1>3. contained' \subseteq contained
  BY DEF Forget, Release, agentVars
<1>4. TypeOK'
  BY <1>1, <1>2, <1>3 DEF IInv, TypeOK
<1>5. ForwardedInv' /\ AuditTellsTheOutcome' /\ OnlyThreatsAreRefused'
  BY <1>1 DEF IInv, ForwardedInv, AuditTellsTheOutcome, OnlyThreatsAreRefused
<1> QED
  BY <1>4, <1>5 DEF IInv

-----------------------------------------------------------------------------
LEMMA Inductive == Spec => []IInv
<1>1. Init => IInv
  BY GatewayAssumption DEF Init, IInv, TypeOK, ForwardedInv, AuditTellsTheOutcome, OnlyThreatsAreRefused,
         Decision
<1>2. IInv /\ [Next]_vars => IInv'
  <2> SUFFICES ASSUME IInv, [Next]_vars PROVE IInv'
    OBVIOUS
  <2>1. ASSUME NEW r \in Request, Arrive(r) PROVE IInv'
    BY <2>1, ArriveKeeps
  <2>2. ASSUME NEW r \in Request, Inspect(r) PROVE IInv'
    BY <2>2, InspectKeeps
  <2>3. ASSUME NEW r \in Request, Answered(r) \/ AnsweredAgain(r) \/ Failed(r) PROVE IInv'
    BY <2>3, AnsweredKeeps
  <2>4. CASE (\E c \in Client : Forget(c)) \/ (\E n \in Name : Release(Pseudonym(n)))
    BY <2>4, OutsideKeeps
  <2>5. CASE UNCHANGED vars
    BY <2>5 DEF vars, agentVars, IInv, TypeOK, ForwardedInv, AuditTellsTheOutcome,
                OnlyThreatsAreRefused
  <2> QED
    BY <2>1, <2>2, <2>3, <2>4, <2>5 DEF Next
<1> QED
  BY <1>1, <1>2, PTL DEF Spec

\* Every handler has exactly the request it serves, for any number of them.
THEOREM TypeCorrect == Spec => []TypeOK
  BY Inductive, PTL DEF IInv

\* No weighting outvotes the ownership check or a rule of severity 60 or more: what they
\* spoke against never reaches the ERP, whatever rules are loaded.
THEOREM NothingFlagged == Spec => []NothingFlaggedForwarded
<1>1. IInv => NothingFlaggedForwarded
  BY DEF IInv, ForwardedInv, NothingFlaggedForwarded
<1> QED
  BY <1>1, Inductive, PTL

\* Every audit event has the decision its score asks for, and the one carried out: the
\* answer is the gateway's own for it, or any of the ERP to a request it lets pass.
THEOREM AuditTells == Spec => []AuditTellsTheOutcome
  BY Inductive, PTL DEF IInv

\* Traffic, deviations and rules of a severity below 60 are neither blocked nor
\* challenged, whatever rules are loaded.
THEOREM OnlyThreats == Spec => []OnlyThreatsAreRefused
  BY Inductive, PTL DEF IInv

-----------------------------------------------------------------------------
\* The lockout.  A step leaves the logins under way and the failures of a client as they
\* are or makes them fewer, or lets a login of his pass because he is not locked out, or
\* turns one login under way into one failure.
Eased(c) == /\ LoginsUnderWay(c)' \subseteq LoginsUnderWay(c)
            /\ failures'[c] <= failures[c]
Passed(c) == failures[c] < FailureThreshold /\ failures'[c] = failures[c]
Guessed(c) == \E r \in LoginsUnderWay(c) :
                 /\ LoginsUnderWay(c)' \subseteq LoginsUnderWay(c) \ {r}
                 /\ failures'[c] = failures[c] + 1

\* A handler that ends is not under way.
LEMMA FinishEases ==
    ASSUME TypeOK, NEW r \in Request, NEW j, NEW by, NEW status, NEW decision, NEW assessed,
           NEW bad, Finish(r, j, by, status, decision, assessed, bad), NEW c \in Client
    PROVE  LoginsUnderWay(c)' \subseteq LoginsUnderWay(c) \ {r}
<1>1. /\ stage'[r] = "idle"
      /\ \A q \in Request : q # r => stage'[q] = stage[q] /\ job'[q] = job[q]
  BY DEF TypeOK, Finish
<1> QED
  BY <1>1 DEF LoginsUnderWay

LEMMA RefusalEases ==
    ASSUME TypeOK, NEW r \in Request, NEW j, NEW c \in Client,
           \/ \E status, bad : Refuse(r, j, status, bad)
           \/ \E status, decision, s : RefuseAudited(r, j, status, decision, s)
    PROVE  Eased(c)
<1>1. failures' = failures
  BY DEF Refuse, RefuseAudited
<1>2. \E by, status, decision, assessed, bad : Finish(r, j, by, status, decision, assessed, bad)
  BY DEF Refuse, RefuseAudited
<1>3. LoginsUnderWay(c)' \subseteq LoginsUnderWay(c) \ {r}
  BY <1>2, FinishEases
<1>4. failures[c] \in Nat
  BY DEF TypeOK
<1> QED
  BY <1>1, <1>3, <1>4 DEF Eased

LEMMA ArriveEases ==
    ASSUME TypeOK, NEW r \in Request, Arrive(r), NEW c \in Client
    PROVE  Eased(c)
<1>1. PICK j \in Job : \/ Refuse(r, j, "403", FALSE)
                       \/ TooLarge(r, j)
                       \/ Accept(r, j)
  BY DEF Arrive
<1>2. CASE Refuse(r, j, "403", FALSE) \/ TooLarge(r, j)
  BY <1>2, RefusalEases DEF TooLarge
<1>3. CASE Accept(r, j)
  <2>1. /\ stage'[r] = "body" /\ failures' = failures
        /\ \A q \in Request : q # r => stage'[q] = stage[q] /\ job'[q] = job[q]
    BY <1>3 DEF TypeOK, Accept
  <2>2. LoginsUnderWay(c)' \subseteq LoginsUnderWay(c)
    BY <2>1 DEF LoginsUnderWay
  <2>3. failures[c] \in Nat
    BY DEF TypeOK
  <2> QED
    BY <2>1, <2>2, <2>3 DEF Eased
<1> QED
  BY <1>1, <1>2, <1>3

LEMMA InspectPasses ==
    ASSUME TypeOK, NEW r \in Request, Inspect(r), NEW c \in Client
    PROVE  Eased(c) \/ Passed(c)
<1>1. CASE \/ BruteForce(r) \/ WafBlock(r) \/ Malformed(r) \/ Replayed(r) \/ BadToken(r)
           \/ Refuse(r, job[r], "403", FALSE)
  BY <1>1, RefusalEases DEF BruteForce, WafBlock, Malformed, Replayed, BadToken
<1>2. CASE ~LockedOut(job[r].client) /\ Assess(r)
  <2>1. PICK v \in Verdicts : Enforce(r, v)
    BY <1>2 DEF Assess
  <2>2. failures' = failures /\ failures[c] \in Nat
    BY <1>2 DEF Assess, TypeOK
  <2>3. CASE \E by, status, decision, assessed, bad :
                Finish(r, job[r], by, status, decision, assessed, bad)
    <3>1. LoginsUnderWay(c)' \subseteq LoginsUnderWay(c) \ {r}
      BY <2>3, FinishEases
    <3> QED
      BY <2>2, <3>1 DEF Eased
  <2>4. CASE stage' = [stage EXCEPT ![r] = "ERP"] /\ UNCHANGED job
    <3>1. CASE job[r].client = c
      BY <1>2, <2>2, <3>1, GatewayAssumption DEF LockedOut, Passed
    <3>2. CASE job[r].client # c
      <4>1. \A q \in Request : q # r => stage'[q] = stage[q] /\ job'[q] = job[q]
        BY <2>4 DEF TypeOK
      <4>2. r \notin LoginsUnderWay(c)'
        BY <2>4, <3>2 DEF LoginsUnderWay
      <4>3. LoginsUnderWay(c)' \subseteq LoginsUnderWay(c)
        BY <4>1, <4>2 DEF LoginsUnderWay
      <4> QED
        BY <2>2, <4>3 DEF Eased
    <3> QED
      BY <3>1, <3>2
  <2> QED
    BY <2>1, <2>3, <2>4 DEF Enforce
<1> QED
  BY <1>1, <1>2 DEF Inspect

LEMMA AnswerGuesses ==
    ASSUME TypeOK, NEW r \in Request, Answered(r) \/ AnsweredAgain(r) \/ Failed(r),
           NEW c \in Client
    PROVE  Eased(c) \/ Guessed(c)
<1>1. stage[r] = "ERP" /\ failures[c] \in Nat
  BY DEF Answered, AnsweredAgain, Failed, TypeOK
<1>2. LoginsUnderWay(c)' \subseteq LoginsUnderWay(c) \ {r}
  <2>1. \E by, status, decision, assessed, bad :
          Finish(r, job[r], by, status, decision, assessed, bad)
    BY DEF Answered, AnsweredAgain, Failed
  <2> QED
    BY <2>1, FinishEases
<1>3. CASE failures' = failures
  BY <1>1, <1>2, <1>3 DEF Eased
<1>4. CASE /\ job[r].route = "login"
           /\ failures' = [failures EXCEPT ![job[r].client] = @ + 1]
  <2>1. CASE job[r].client = c
    <3>1. r \in LoginsUnderWay(c)
      BY <1>1, <1>4, <2>1 DEF LoginsUnderWay
    <3>2. failures'[c] = failures[c] + 1
      BY <1>4, <2>1 DEF TypeOK
    <3> QED
      BY <1>2, <3>1, <3>2 DEF Guessed
  <2>2. CASE job[r].client # c
    <3>1. failures'[c] = failures[c]
      BY <1>4, <2>2 DEF TypeOK
    <3> QED
      BY <1>1, <1>2, <3>1 DEF Eased
  <2> QED
    BY <2>1, <2>2
<1> QED
  BY <1>3, <1>4 DEF Answered, AnsweredAgain, Failed, CountsAsFailure

LEMMA OutsideEases ==
    ASSUME TypeOK, NEW c \in Client,
           \/ \E d \in Client : Forget(d)
           \/ \E n \in Name : Release(Pseudonym(n))
           \/ UNCHANGED vars
    PROVE  Eased(c)
<1>1. stage' = stage /\ job' = job
  BY DEF Forget, Release, vars
<1>2. failures'[c] <= failures[c]
  BY DEF Forget, Release, vars, TypeOK
<1> QED
  BY <1>1, <1>2 DEF Eased, LoginsUnderWay

\* What the three kinds of step do to the bound.
LEMMA BoundKept ==
    ASSUME TypeOK, TypeOK', CountedFailuresBounded, NEW c \in Client,
           Eased(c) \/ Passed(c) \/ Guessed(c)
    PROVE  failures'[c] + Cardinality(LoginsUnderWay(c))'
             <= FailureThreshold - 1 + Cardinality(Request)
<1> DEFINE L == LoginsUnderWay(c)
           M == LoginsUnderWay(c)'
           N == Cardinality(Request)
<1>1. /\ IsFiniteSet(L) /\ Cardinality(L) \in Nat
      /\ IsFiniteSet(M) /\ Cardinality(M) \in Nat /\ Cardinality(M) <= N /\ N \in Nat
  <2>1. L \subseteq Request /\ M \subseteq Request
    BY DEF LoginsUnderWay
  <2> HIDE DEF L, M
  <2>2. /\ IsFiniteSet(L) /\ IsFiniteSet(M) /\ Cardinality(M) <= N
    BY <2>1, GatewayAssumption, FS_Subset
  <2> QED
    BY <2>2, GatewayAssumption, FS_CardinalityType
<1>2. /\ failures[c] \in Nat /\ failures'[c] \in Nat /\ FailureThreshold \in Nat
      /\ failures[c] + Cardinality(L) <= FailureThreshold - 1 + N
  BY GatewayAssumption DEF TypeOK, CountedFailuresBounded
<1>3. CASE Eased(c)
  <2>1. M \subseteq L /\ failures'[c] <= failures[c]
    BY <1>3 DEF Eased
  <2> HIDE DEF L, M, N
  <2>2. Cardinality(M) <= Cardinality(L)
    BY <1>1, <2>1, FS_Subset
  <2> QED
    BY <1>1, <1>2, <2>1, <2>2 DEF M, N
<1>4. CASE Passed(c)
  <2>1. failures'[c] <= FailureThreshold - 1
    BY <1>2, <1>4 DEF Passed
  <2> QED
    BY <1>1, <1>2, <2>1
<1>5. CASE Guessed(c)
  <2>1. PICK r \in L : M \subseteq L \ {r} /\ failures'[c] = failures[c] + 1
    BY <1>5 DEF Guessed
  <2> HIDE DEF L, M, N
  <2>2. IsFiniteSet(L \ {r}) /\ Cardinality(L \ {r}) = Cardinality(L) - 1
    BY <1>1, <2>1, FS_RemoveElement
  <2>3. Cardinality(M) <= Cardinality(L \ {r})
    BY <2>1, <2>2, FS_Subset
  <2> QED
    BY <1>1, <1>2, <2>1, <2>2, <2>3 DEF M, N
<1> QED
  BY <1>3, <1>4, <1>5

\* For any number of handlers and any threshold the failures counted against a client and
\* his logins under way stay below the threshold and one for every further handler.
THEOREM CountedFailuresAreBounded == Spec => []CountedFailuresBounded
<1>1. Init => CountedFailuresBounded
  <2> SUFFICES ASSUME Init, NEW c \in Client
               PROVE  failures[c] + Cardinality(LoginsUnderWay(c))
                        <= FailureThreshold - 1 + Cardinality(Request)
    BY DEF CountedFailuresBounded
  <2>1. LoginsUnderWay(c) = {} /\ failures[c] = 0
    BY DEF Init, LoginsUnderWay
  <2>2. Cardinality(LoginsUnderWay(c)) = 0
    BY <2>1, FS_EmptySet
  <2>3. Cardinality(Request) \in Nat
    BY GatewayAssumption, FS_CardinalityType
  <2> QED
    BY <2>1, <2>2, <2>3, GatewayAssumption
<1>2. TypeOK /\ TypeOK' /\ CountedFailuresBounded /\ [Next]_vars => CountedFailuresBounded'
  <2> SUFFICES ASSUME TypeOK, TypeOK', CountedFailuresBounded, [Next]_vars, NEW c \in Client
               PROVE  failures'[c] + Cardinality(LoginsUnderWay(c))'
                        <= FailureThreshold - 1 + Cardinality(Request)
    BY DEF CountedFailuresBounded
  <2>1. Eased(c) \/ Passed(c) \/ Guessed(c)
    BY ArriveEases, InspectPasses, AnswerGuesses, OutsideEases DEF Next
  <2> QED
    BY <2>1, BoundKept
<1> QED
  BY <1>1, <1>2, TypeCorrect, PTL DEF Spec

-----------------------------------------------------------------------------
\* Refinement: every step of the pipeline is one of AbstractGateway or changes nothing
\* in it.

LEMMA Leaves ==
    ASSUME TypeOK, NEW r \in Request, NEW j \in Job, NEW by \in {"gateway", "ERP"},
           NEW status \in Status,
           NEW decision \in Decision \cup {Silent}, NEW assessed \in Decision \cup {Silent},
           NEW bad \in BOOLEAN, Finish(r, j, by, status, decision, assessed, bad)
    PROVE  Abstract!Leave(r, KindOf(status), decision)
<1>1. outcome' \in Outcome /\ outcome'.status = status /\ outcome'.said = decision
  BY DEF Finish, Outcome, Job
<1>2. outcome' # Nothing
  BY <1>1, NothingAssumption
<1>3. /\ stage' = [stage EXCEPT ![r] = "idle"] /\ said' = [said EXCEPT ![r] = Silent]
      /\ job' \in [Request -> Job \cup {Nothing}] /\ job'[r] = Nothing
      /\ \A q \in Request \ {r} : job'[q] = job[q]
  BY DEF Finish, TypeOK
<1>4. [q \in Request |-> IF job'[q] = Nothing THEN Nothing ELSE job'[q].client]
        = [[q \in Request |-> IF job[q] = Nothing THEN Nothing ELSE job[q].client]
             EXCEPT ![r] = Nothing]
  BY <1>3
<1> QED
  BY <1>1, <1>2, <1>3, <1>4 DEF Abstract!Leave, Abstract!Unsaid, Silent, KindOf

\* An answer the gateway gives by itself
LEMMA TurnsAway ==
    ASSUME TypeOK, NEW r \in Request, stage[r] # "ERP", failures' = failures,
           NEW j \in Job, NEW status \in Status,
           NEW decision \in Decision \cup {Silent}, NEW assessed \in Decision \cup {Silent},
           NEW bad \in BOOLEAN, Finish(r, j, "gateway", status, decision, assessed, bad),
           \/ status \in {"401", "403", "413"} /\ decision \in {"CHALLENGE", "BLOCK", Silent}
           \/ status \in {"400", "429", "503"} /\ decision \in {"ALLOW", "LIMIT", Silent}
    PROVE  Abstract!TurnAway(r)
<1>1. Abstract!Leave(r, KindOf(status), decision)
  BY Leaves
<1>2. CASE status \in {"401", "403", "413"} /\ decision \in {"CHALLENGE", "BLOCK", Silent}
  <2>1. KindOf(status) = "denied"
    BY <1>2 DEF KindOf
  <2> QED
    BY <1>1, <1>2, <2>1 DEF Abstract!TurnAway, Abstract!Unsaid, Silent
<1>3. CASE status \in {"400", "429", "503"} /\ decision \in {"ALLOW", "LIMIT", Silent}
  <2>1. KindOf(status) = "failed"
    BY <1>3 DEF KindOf
  <2> QED
    BY <1>1, <1>3, <2>1 DEF Abstract!TurnAway, Abstract!Unsaid, Abstract!Lenient, Silent
<1> QED
  BY <1>2, <1>3

LEMMA SilentRefusalTurnsAway ==
    ASSUME TypeOK, NEW r \in Request, stage[r] # "ERP", NEW j \in Job,
           NEW status \in {"400", "403"}, NEW bad \in BOOLEAN, Refuse(r, j, status, bad)
    PROVE  Abstract!TurnAway(r)
<1>1. Finish(r, j, "gateway", status, Silent, Silent, bad) /\ failures' = failures
  BY DEF Refuse
<1>2. status \in Status
  BY DEF Status
<1> QED
  BY <1>1, <1>2, TurnsAway

LEMMA AuditedRefusalTurnsAway ==
    ASSUME TypeOK, NEW r \in Request, stage[r] # "ERP", NEW j \in Job, NEW s,
           NEW status \in {"401", "403", "413"}, NEW decision \in {"CHALLENGE", "BLOCK"},
           RefuseAudited(r, j, status, decision, s)
    PROVE  Abstract!TurnAway(r)
<1>1. Finish(r, j, "gateway", status, decision, DecisionOf(s), TRUE) /\ failures' = failures
  BY DEF RefuseAudited
<1>2. status \in Status /\ decision \in Decision /\ DecisionOf(s) \in Decision
  BY DEF Status, Decision, DecisionOf
<1>3. TRUE \in BOOLEAN
  OBVIOUS
<1> QED
  BY <1>1, <1>2, <1>3, TurnsAway

LEMMA ArriveEnters ==
    ASSUME TypeOK, NEW r \in Request, Arrive(r)
    PROVE  Abstract!TurnAway(r) \/ \E c \in Client : Abstract!Enter(r, c)
<1>1. stage[r] = "idle" /\ FALSE \in BOOLEAN
  BY DEF Arrive
<1>2. PICK j \in Job : \/ Refuse(r, j, "403", FALSE)
                       \/ TooLarge(r, j)
                       \/ Accept(r, j)
  BY DEF Arrive
<1>3. CASE Refuse(r, j, "403", FALSE)
  BY <1>1, <1>3, SilentRefusalTurnsAway
<1>4. CASE TooLarge(r, j)
  BY <1>1, <1>4, AuditedRefusalTurnsAway DEF TooLarge
<1>5. CASE Accept(r, j)
  <2>1. j.client \in Client /\ j # Nothing
    BY NothingAssumption DEF Job
  <2>2. /\ stage' = [stage EXCEPT ![r] = "body"] /\ UNCHANGED <<said, failures, outcome>>
        /\ job' \in [Request -> Job \cup {Nothing}] /\ job'[r] = j
        /\ \A q \in Request \ {r} : job'[q] = job[q]
    BY <1>5 DEF Accept, TypeOK
  <2>3. [q \in Request |-> IF job'[q] = Nothing THEN Nothing ELSE job'[q].client]
          = [[q \in Request |-> IF job[q] = Nothing THEN Nothing ELSE job[q].client]
               EXCEPT ![r] = j.client]
    BY <2>1, <2>2
  <2>4. Abstract!Enter(r, j.client)
    BY <1>1, <2>2, <2>3 DEF Abstract!Enter
  <2> QED
    BY <2>1, <2>4
<1> QED
  BY <1>2, <1>3, <1>4, <1>5

LEMMA InspectForwards ==
    ASSUME TypeOK, NEW r \in Request, Inspect(r)
    PROVE  Abstract!TurnAway(r) \/ Abstract!Forward(r)
<1>1. stage[r] = "body" /\ job[r] \in Job /\ job[r].client \in Client
  BY JobTyped DEF Inspect
<1>2. CASE BruteForce(r) \/ WafBlock(r) \/ Replayed(r) \/ BadToken(r)
  BY <1>1, <1>2, AuditedRefusalTurnsAway DEF BruteForce, WafBlock, Replayed, BadToken
<1>3. CASE Malformed(r) \/ Refuse(r, job[r], "403", FALSE)
  BY <1>1, <1>3, SilentRefusalTurnsAway DEF Malformed
<1>4. CASE ~LockedOut(job[r].client) /\ Assess(r)
  <2>1. PICK v \in Verdicts : v.of = job[r] /\ Enforce(r, v)
    BY <1>4 DEF Assess
  <2>2. v.decision \in Decision /\ v.bad \in BOOLEAN
    BY <1>1, <2>1, VerdictSound
  <2>3. failures' = failures
    BY <1>4 DEF Assess
  <2>4. ASSUME NEW status \in Status,
               \/ status \in {"401", "403"} /\ v.decision \in {"CHALLENGE", "BLOCK"}
               \/ status \in {"429", "503"} /\ v.decision \in {"ALLOW", "LIMIT"},
               Finish(r, job[r], "gateway", status, v.decision, v.decision, v.bad)
        PROVE  Abstract!TurnAway(r)
    BY <1>1, <2>2, <2>3, <2>4, TurnsAway
  <2>5. ASSUME v.decision \in {"ALLOW", "LIMIT"}, stage' = [stage EXCEPT ![r] = "ERP"],
               said' = [said EXCEPT ![r] = v.decision], UNCHANGED <<job, outcome>>
        PROVE  Abstract!Forward(r)
    <3>1. failures[job[r].client] < FailureThreshold
      BY <1>1, <1>4, GatewayAssumption DEF LockedOut, TypeOK
    <3>2. job[r] # Nothing
      BY <1>1, NothingAssumption
    <3> QED
      BY <1>1, <2>3, <2>5, <3>1, <3>2 DEF Abstract!Forward, Abstract!Lenient
  <2>6. {"401", "403", "429", "503"} \subseteq Status
    BY DEF Status
  <2> QED
    BY <2>1, <2>4, <2>5, <2>6 DEF Enforce
<1> QED
  BY <1>1, <1>2, <1>3, <1>4 DEF Inspect

LEMMA AnswerReturns ==
    ASSUME TypeOK, NEW r \in Request, Answered(r) \/ AnsweredAgain(r) \/ Failed(r)
    PROVE  Abstract!Return(r)
<1>1. /\ stage[r] = "ERP" /\ job[r] \in Job /\ job[r] # Nothing
      /\ said[r] \in Decision \cup {Silent} /\ flagged[r] \in BOOLEAN
  BY JobTyped, NothingAssumption DEF Answered, AnsweredAgain, Failed, TypeOK
<1>2. PICK by \in {"gateway", "ERP"}, status \in Status :
        /\ Finish(r, job[r], by, status, said[r], said[r], flagged[r])
        /\ \/ failures' = failures
           \/ /\ status = "401"
              /\ failures' = [failures EXCEPT ![job[r].client] = @ + 1]
  BY DEF Answered, AnsweredAgain, Failed, CountsAsFailure, Status
<1>4. Abstract!Leave(r, KindOf(status), said[r])
  <2>1. PICK j \in Job, decision \in Decision \cup {Silent}, bad \in BOOLEAN :
          j = job[r] /\ decision = said[r] /\ bad = flagged[r]
    BY <1>1
  <2>2. Finish(r, j, by, status, decision, decision, bad)
    BY <1>2, <2>1
  <2>3. Abstract!Leave(r, KindOf(status), decision)
    BY <2>2, Leaves
  <2> QED
    BY <2>1, <2>3 DEF Abstract!Leave
<1>5. /\ KindOf(status) \in {"granted", "denied", "failed"}
      /\ status = "401" => KindOf(status) = "denied"
  BY DEF KindOf
<1> QED
  BY <1>1, <1>2, <1>4, <1>5 DEF Abstract!Return, Status

LEMMA StepOfGateway ==
    ASSUME TypeOK, [Next]_vars
    PROVE  [Abstract!Next]_(Abstract!gatewayVars)
<1>1. ASSUME NEW r \in Request, Arrive(r) PROVE Abstract!Next
  BY <1>1, ArriveEnters DEF Abstract!Next
<1>2. ASSUME NEW r \in Request, Inspect(r) PROVE Abstract!Next
  BY <1>2, InspectForwards DEF Abstract!Next
<1>3. ASSUME NEW r \in Request, Answered(r) \/ AnsweredAgain(r) \/ Failed(r)
      PROVE  Abstract!Next
  BY <1>3, AnswerReturns DEF Abstract!Next
<1>4. ASSUME NEW c \in Client, Forget(c) PROVE Abstract!Next
  <2>1. Abstract!Forgive(c)
    BY <1>4 DEF Forget, Abstract!Forgive
  <2> QED
    BY <2>1 DEF Abstract!Next
<1>5. ASSUME UNCHANGED <<stage, job, said, failures, outcome>>
      PROVE  UNCHANGED Abstract!gatewayVars
  BY <1>5 DEF Abstract!gatewayVars
<1>6. CASE (\E n \in Name : Release(Pseudonym(n))) \/ UNCHANGED vars
  BY <1>6, <1>5 DEF Release, vars, agentVars
<1> QED
  BY <1>1, <1>2, <1>3, <1>4, <1>6 DEF Next

\* app.py implements AbstractGateway for any number of handlers, clients, users and any
\* threshold: nothing is granted but by the ERP, nothing gets there but on a verdict in
\* its favour and for a client that is not locked out, and every answer of the ERP bears
\* the verdict the request went there on.
THEOREM ImplementsGateway == Spec => ImplementsAbstractGateway
<1>1. Init => Abstract!Init
  BY DEF Init, Abstract!Init, Abstract!Unsaid, Silent
<1> QED
  BY <1>1, StepOfGateway, TypeCorrect, PTL DEF Spec, ImplementsAbstractGateway, Abstract!Spec

-----------------------------------------------------------------------------
(* The replay guard: its types *)

LEMMA PlaceType == \A p \in Pod : Place(p) \in Pod \cup {Redis}
  BY DEF Place

LEMMA AnswerLostTypes ==
    ASSUME GuardTypeOK, NEW p \in Pod, NEW k \in Key, AnswerLost(p, k)
    PROVE  nonces' \in [Key -> 0..MaxSkew]
  <1>1. MaxSkew \in 0..MaxSkew
    BY ReplayAssumption
  <1>2. [nonces EXCEPT ![k] = MaxSkew] \in [Key -> 0..MaxSkew]
    BY <1>1 DEF GuardTypeOK
  <1> QED BY <1>2 DEF GuardTypeOK, AnswerLost

LEMMA RecordTypes ==
    ASSUME GuardTypeOK, NEW p \in Pod, NEW k \in Key, Record(p, k)
    PROVE  nonces' \in [Key -> 0..MaxSkew] /\ fallback' \in [Pod -> [Key -> -1..MaxSkew]]
  <1>1. MaxSkew \in 0..MaxSkew /\ MaxSkew \in -1..MaxSkew
    BY ReplayAssumption
  <1>2. [nonces EXCEPT ![k] = MaxSkew] \in [Key -> 0..MaxSkew]
    BY <1>1 DEF GuardTypeOK
  <1>3. [fallback EXCEPT ![p][k] = MaxSkew] \in [Pod -> [Key -> -1..MaxSkew]]
    BY <1>1 DEF GuardTypeOK
  <1> QED BY <1>2, <1>3, AnswerLostTypes DEF GuardTypeOK, Record

LEMMA KeyOf ==
    ASSUME GuardTypeOK, NEW op \in Op, key[op] # NoKey
    PROVE  key[op] \in Key
  BY DEF GuardTypeOK

LEMMA InitTypes == GuardInit => GuardTypeOK
  <1> SUFFICES ASSUME GuardInit PROVE GuardTypeOK
    OBVIOUS
  <1>1. nonces \in [Key -> 0..MaxSkew] /\ fallback \in [Pod -> [Key -> -1..MaxSkew]]
    BY ReplayAssumption DEF GuardInit
  <1>2. since \in [Op -> 0..Never]
    BY ReplayAssumption DEF GuardInit, Never
  <1> QED BY <1>1, <1>2 DEF GuardInit, GuardTypeOK

LEMMA NextTypes == GuardTypeOK /\ [GuardNext]_guardVars => GuardTypeOK'
  <1> SUFFICES ASSUME GuardTypeOK, [GuardNext]_guardVars PROVE GuardTypeOK'
    OBVIOUS
  <1>1. ASSUME NEW p \in Pod, NEW op \in Op, Pass(p, op) PROVE GuardTypeOK'
    <2>1. nonces' \in [Key -> 0..MaxSkew] /\ fallback' \in [Pod -> [Key -> -1..MaxSkew]]
      <3>1. CASE key[op] # NoKey
        BY <1>1, <3>1, KeyOf, RecordTypes DEF Pass
      <3>2. CASE key[op] = NoKey
        BY <1>1, <3>2 DEF Pass, GuardTypeOK
      <3> QED BY <3>1, <3>2
    <2>2. since' \in [Op -> 0..Never]
      BY <1>1, ReplayAssumption DEF Pass, GuardTypeOK, Never
    <2>3. witness' \in [Op -> Pod \cup {Redis}] /\ lost' \in [Op -> BOOLEAN]
      BY <1>1, PlaceType DEF Pass, GuardTypeOK
    <2> QED BY <1>1, <2>1, <2>2, <2>3 DEF Pass, GuardTypeOK, clientVars
  <1>2. CASE Tick
    <2>1. age' \in [Op -> -(MaxSkew + 1)..NoStamp]
      BY <1>2, ReplayAssumption DEF Tick, GuardTypeOK, Older, TooOld, NoStamp
    <2>2. nonces' \in [Key -> 0..MaxSkew]
      BY <1>2, ReplayAssumption DEF Tick, GuardTypeOK
    <2>3. fallback' \in [Pod -> [Key -> -1..MaxSkew]]
      <3>1. \A p \in Pod, k \in Key :
              (IF fallback[p][k] >= 0 THEN fallback[p][k] - 1 ELSE -1) \in -1..MaxSkew
        BY ReplayAssumption DEF GuardTypeOK
      <3> QED BY <1>2, <3>1 DEF Tick
    <2>4. since' \in [Op -> 0..Never]
      BY <1>2, ReplayAssumption DEF Tick, GuardTypeOK, Later, LongAgo, Never
    <2> QED BY <1>2, <2>1, <2>2, <2>3, <2>4 DEF Tick, GuardTypeOK
  <1>3. CASE RedisToggles
    BY <1>3 DEF RedisToggles, GuardTypeOK, clientVars, history
  <1>4. CASE RedisRestarts
    <2>1. nonces' \in [Key -> 0..MaxSkew] /\ lost' \in [Op -> BOOLEAN]
      BY <1>4, ReplayAssumption DEF RedisRestarts, LostBy, GuardTypeOK
    <2> QED BY <1>4, <2>1 DEF RedisRestarts, GuardTypeOK, clientVars
  <1>5. ASSUME NEW p \in Pod, PodRestarts(p) PROVE GuardTypeOK'
    <2>1. [k \in Key |-> -1] \in [Key -> -1..MaxSkew]
      BY ReplayAssumption
    <2>2. fallback' \in [Pod -> [Key -> -1..MaxSkew]]
      BY <1>5, <2>1 DEF PodRestarts, GuardTypeOK
    <2>3. connected' \in [Pod -> BOOLEAN] /\ lost' \in [Op -> BOOLEAN]
      BY <1>5 DEF PodRestarts, LostBy, GuardTypeOK
    <2> QED BY <1>5, <2>2, <2>3 DEF PodRestarts, GuardTypeOK, clientVars
  <1>6. ASSUME NEW p \in Pod, Reconnects(p) PROVE GuardTypeOK'
    BY <1>6 DEF Reconnects, GuardTypeOK, clientVars, history
  <1>7. ASSUME NEW p \in Pod, NEW op \in Op, RefuseKey(p, op) PROVE GuardTypeOK'
    <2>1. nonces' \in [Key -> 0..MaxSkew]
      BY <1>7, KeyOf, AnswerLostTypes DEF RefuseKey
    <2> QED BY <1>7, <2>1 DEF RefuseKey, GuardTypeOK, clientVars, history
  <1>8. CASE UNCHANGED guardVars
    BY <1>8 DEF guardVars, clientVars, storeVars, history, GuardTypeOK
  <1> QED BY <1>1, <1>2, <1>3, <1>4, <1>5, <1>6, <1>7, <1>8 DEF GuardNext

\* Ages, keys and what is remembered of them stay in their ranges.
THEOREM GuardTypeCorrect == GuardSpec => []GuardTypeOK
  BY InitTypes, NextTypes, PTL DEF GuardSpec

-----------------------------------------------------------------------------
(* The replay guard: the keys against the history.  A key that is there    *)
(* says that some request with it has been passed, and how long ago at     *)
(* most.  The other way round, the store that took the key of a request    *)
(* has what is left of its life, unless it lost its keys.                  *)

Used(k, longest) == \E op \in Op : key[op] = k /\ since[op] <= longest

KeysAreOfPassed ==
    \A k \in Key :
        /\ nonces[k] > 0 => Used(k, 2 * MaxSkew - nonces[k])
        /\ \A p \in Pod : fallback[p][k] >= 0 => Used(k, MaxSkew - fallback[p][k])

Kept(place, op) ==
    IF place = Redis THEN since[op] + nonces[key[op]] >= MaxSkew
                     ELSE since[op] + fallback[place][key[op]] >= MaxSkew

WitnessKeeps ==
    \A op \in Op : key[op] # NoKey /\ since[op] <= MaxSkew /\ ~lost[op] => Kept(witness[op], op)

KeysInv == KeysAreOfPassed /\ WitnessKeeps

LEMMA InitKeys == GuardInit => KeysInv
  BY ReplayAssumption DEF GuardInit, KeysInv, KeysAreOfPassed, WitnessKeeps, Never

LEMMA Numbers ==
    ASSUME GuardTypeOK
    PROVE  /\ \A op \in Op : since[op] \in Nat
           /\ \A k \in Key : nonces[k] \in 0..MaxSkew
           /\ \A p \in Pod, k \in Key : fallback[p][k] \in -1..MaxSkew
  BY ReplayAssumption DEF GuardTypeOK, Never

\* What a lost answer leaves in Redis
LEMMA AnswerLostSets ==
    ASSUME GuardTypeOK, NEW p \in Pod, NEW k \in Key, AnswerLost(p, k)
    PROVE  /\ nonces'[k] \in {nonces[k], MaxSkew}
           /\ \A l \in Key \ {k} : nonces'[l] = nonces[l]
  BY DEF AnswerLost, GuardTypeOK

\* What recording k leaves in the stores
LEMMA RecordSets ==
    ASSUME GuardTypeOK, NEW p \in Pod, NEW k \in Key, Record(p, k)
    PROVE  /\ nonces'[k] \in {nonces[k], MaxSkew}
           /\ \A l \in Key \ {k} : nonces'[l] = nonces[l]
           /\ \A q \in Pod : /\ fallback'[q][k] \in {fallback[q][k], MaxSkew}
                             /\ \A l \in Key \ {k} : fallback'[q][l] = fallback[q][l]
           /\ IF Place(p) = Redis THEN nonces'[k] = MaxSkew ELSE fallback'[p][k] = MaxSkew
  <1>1. CASE Place(p) = Redis
    BY <1>1 DEF Record, GuardTypeOK
  <1>2. CASE Place(p) # Redis
    <2>1. /\ nonces'[k] \in {nonces[k], MaxSkew}
          /\ \A l \in Key \ {k} : nonces'[l] = nonces[l]
      BY <1>2, AnswerLostSets DEF Record
    <2>2. fallback' = [fallback EXCEPT ![p][k] = MaxSkew]
      BY <1>2 DEF Record
    <2> QED BY <1>2, <2>1, <2>2 DEF GuardTypeOK
  <1> QED BY <1>1, <1>2

\* A request that is passed leaves its key in the store that decided.
LEMMA PassKeeps ==
    ASSUME GuardTypeOK, KeysInv, NEW p \in Pod, NEW op \in Op, Pass(p, op)
    PROVE  KeysInv'
  <1>1. /\ since'[op] = 0 /\ witness'[op] = Place(p)
        /\ \A o \in Op \ {op} : /\ since'[o] = since[o] /\ witness'[o] = witness[o]
                                /\ lost'[o] = lost[o]
        /\ key' = key
    BY DEF Pass, GuardTypeOK, clientVars
  <1>2. ASSUME NEW k \in Key, k # key[op]
        PROVE  nonces'[k] = nonces[k] /\ \A q \in Pod : fallback'[q][k] = fallback[q][k]
    <2>1. CASE key[op] # NoKey
      BY <1>2, <2>1, KeyOf, RecordSets DEF Pass
    <2>2. CASE key[op] = NoKey
      BY <2>2 DEF Pass
    <2> QED BY <2>1, <2>2
  <1>3. ASSUME key[op] # NoKey
        PROVE  /\ key[op] \in Key
               /\ nonces'[key[op]] \in {nonces[key[op]], MaxSkew}
               /\ \A q \in Pod : fallback'[q][key[op]] \in {fallback[q][key[op]], MaxSkew}
               /\ IF Place(p) = Redis THEN nonces'[key[op]] = MaxSkew
                                      ELSE fallback'[p][key[op]] = MaxSkew
    BY <1>3, KeyOf, RecordSets DEF Pass
  <1>4. KeysAreOfPassed'
    <2> SUFFICES ASSUME NEW k \in Key
                 PROVE  /\ nonces'[k] > 0 => Used(k, 2 * MaxSkew - nonces[k])'
                        /\ \A q \in Pod : fallback'[q][k] >= 0
                                            => Used(k, MaxSkew - fallback[q][k])'
      BY DEF KeysAreOfPassed
    <2>1. CASE k = key[op]
      <3>1. key[op] # NoKey
        BY <2>1, ReplayAssumption
      <3>2. 0 <= 2 * MaxSkew - nonces'[k]
        BY <1>3, <2>1, <3>1, Numbers, ReplayAssumption
      <3>3. \A q \in Pod : 0 <= MaxSkew - fallback'[q][k]
        BY <1>3, <2>1, <3>1, Numbers, ReplayAssumption
      <3> QED BY <1>1, <2>1, <3>2, <3>3 DEF Used
    <2>2. CASE k # key[op]
      <3>1. ASSUME NEW longest, Used(k, longest) PROVE \E o \in Op : key'[o] = k /\ since'[o] <= longest
        <4>1. PICK o \in Op : key[o] = k /\ since[o] <= longest
          BY <3>1 DEF Used
        <4> QED BY <1>1, <2>2, <4>1
      <3>2. nonces'[k] = nonces[k] /\ \A q \in Pod : fallback'[q][k] = fallback[q][k]
        BY <1>2, <2>2
      <3>3. nonces'[k] > 0 => Used(k, 2 * MaxSkew - nonces[k])'
        BY <3>1, <3>2 DEF Used, KeysInv, KeysAreOfPassed
      <3>4. ASSUME NEW q \in Pod, fallback'[q][k] >= 0
            PROVE  Used(k, MaxSkew - fallback[q][k])'
        BY <3>1, <3>2, <3>4 DEF Used, KeysInv, KeysAreOfPassed
      <3> QED BY <3>3, <3>4
    <2> QED BY <2>1, <2>2
  <1>5. WitnessKeeps'
    <2> SUFFICES ASSUME NEW o \in Op, key'[o] # NoKey, since'[o] <= MaxSkew, ~lost'[o]
                 PROVE  Kept(witness[o], o)'
      BY DEF WitnessKeeps
    <2>1. key[o] \in Key /\ key'[o] = key[o]
      BY <1>1, KeyOf
    <2>2. CASE o = op
      <3>1. IF Place(p) = Redis THEN nonces'[key[op]] = MaxSkew
                                ELSE fallback'[p][key[op]] = MaxSkew
        BY <1>1, <1>3, <2>2
      <3>2. Place(p) # Redis => Place(p) = p
        BY DEF Place
      <3> QED BY <1>1, <2>1, <2>2, <3>1, <3>2, ReplayAssumption DEF Kept
    <2>3. CASE o # op
      <3>1. Kept(witness[o], o) /\ witness[o] \in Pod \cup {Redis}
        BY <1>1, <2>3 DEF KeysInv, WitnessKeeps, GuardTypeOK
      <3>2. nonces'[key[o]] >= nonces[key[o]]
        BY <1>2, <1>3, <2>1, Numbers, ReplayAssumption
      <3>3. \A q \in Pod : fallback'[q][key[o]] >= fallback[q][key[o]]
        BY <1>2, <1>3, <2>1, Numbers, ReplayAssumption
      <3>4. since[o] \in Nat /\ nonces[key[o]] \in Int /\ nonces'[key[o]] \in Int
            /\ \A q \in Pod : /\ fallback[q][key[o]] \in Int /\ fallback'[q][key[o]] \in Int
        BY <1>2, <1>3, <2>1, Numbers, ReplayAssumption
      <3> QED BY <1>1, <2>1, <2>3, <3>1, <3>2, <3>3, <3>4, ReplayAssumption DEF Kept
    <2> QED BY <2>2, <2>3
  <1> QED BY <1>4, <1>5 DEF KeysInv

\* A refusal leaves a key in Redis only where the process has it already.
LEMMA RefuseKeyKeeps ==
    ASSUME GuardTypeOK, KeysInv, NEW p \in Pod, NEW op \in Op, RefuseKey(p, op)
    PROVE  KeysInv'
  <1>0. PICK k \in Key : k = key[op]
    BY KeyOf DEF RefuseKey
  <1>1. UNCHANGED <<key, fallback, since, witness, lost>>
    BY DEF RefuseKey, clientVars, history
  <1>2. /\ nonces'[k] \in {nonces[k], MaxSkew}
        /\ \A l \in Key \ {k} : nonces'[l] = nonces[l]
    BY <1>0, AnswerLostSets DEF RefuseKey
  <1>3. KeysAreOfPassed'
    <2>1. Used(k, MaxSkew - fallback[p][k]) /\ fallback[p][k] >= 0
      BY <1>0 DEF RefuseKey, Remembered, KeysInv, KeysAreOfPassed
    <2>2. PICK o \in Op : key[o] = k /\ since[o] <= MaxSkew - fallback[p][k]
      BY <2>1 DEF Used
    <2>3. since[o] <= 2 * MaxSkew - nonces'[k]
      <3>1. /\ since[o] \in Nat /\ fallback[p][k] \in Int
            /\ nonces[k] \in Int /\ nonces[k] <= MaxSkew
        BY <1>1, Numbers
      <3> QED BY <1>2, <2>1, <2>2, <3>1, ReplayAssumption
    <2>4. ASSUME NEW l \in Key, nonces'[l] > 0
          PROVE  \E x \in Op : key'[x] = l /\ since'[x] <= 2 * MaxSkew - nonces'[l]
      <3>1. CASE l = k
        BY <1>1, <2>2, <2>3, <3>1
      <3>2. CASE l # k
        <4>1. nonces'[l] = nonces[l]
          BY <1>2, <3>2
        <4>2. Used(l, 2 * MaxSkew - nonces[l])
          BY <2>4, <4>1 DEF KeysInv, KeysAreOfPassed
        <4> QED BY <1>1, <4>1, <4>2 DEF Used
      <3> QED BY <3>1, <3>2
    <2>5. ASSUME NEW l \in Key, NEW q \in Pod, fallback'[q][l] >= 0
          PROVE  \E x \in Op : key'[x] = l /\ since'[x] <= MaxSkew - fallback'[q][l]
      <3>1. Used(l, MaxSkew - fallback[q][l])
        BY <1>1, <2>5 DEF KeysInv, KeysAreOfPassed
      <3> QED BY <1>1, <3>1 DEF Used
    <2> QED BY <2>4, <2>5 DEF KeysAreOfPassed, Used
  <1>4. WitnessKeeps'
    <2> SUFFICES ASSUME NEW o \in Op, key[o] # NoKey, since[o] <= MaxSkew, ~lost[o]
                 PROVE  Kept(witness[o], o)'
      BY <1>1 DEF WitnessKeeps
    <2>1. key[o] \in Key /\ Kept(witness[o], o)
      BY KeyOf DEF KeysInv, WitnessKeeps
    <2>2. /\ nonces'[key[o]] >= nonces[key[o]] /\ since[o] \in Nat
          /\ nonces[key[o]] \in Int /\ nonces'[key[o]] \in Int
      BY <1>2, <2>1, Numbers, ReplayAssumption
    <2> QED BY <1>1, <2>1, <2>2, ReplayAssumption DEF Kept
  <1> QED BY <1>3, <1>4 DEF KeysInv

\* Keys and history age together.
LEMMA TickKeeps == ASSUME GuardTypeOK, KeysInv, Tick PROVE KeysInv'
  <1>1. /\ \A op \in Op : since[op] \in 0..Never
        /\ \A k \in Key : nonces[k] \in 0..MaxSkew
        /\ \A p \in Pod, k \in Key : fallback[p][k] \in -1..MaxSkew
    BY DEF GuardTypeOK
  <1>2. /\ \A op \in Op : since'[op] = Later(since[op])
        /\ \A k \in Key : nonces'[k] = IF nonces[k] > 0 THEN nonces[k] - 1 ELSE 0
        /\ \A p \in Pod, k \in Key : fallback'[p][k] =
             IF fallback[p][k] >= 0 THEN fallback[p][k] - 1 ELSE -1
        /\ key' = key /\ lost' = lost /\ witness' = witness
    BY DEF Tick
  <1>3. \A op \in Op : /\ since'[op] <= since[op] + 1 /\ since'[op] \in Int
                       /\ since'[op] <= MaxSkew => since'[op] = since[op] + 1
    BY <1>1, <1>2, ReplayAssumption DEF Later, LongAgo, Never
  <1>4. ASSUME NEW k \in Key, NEW longest \in Int, Used(k, longest)
        PROVE  \E op \in Op : key'[op] = k /\ since'[op] <= longest + 1
    <2>1. PICK op \in Op : key[op] = k /\ since[op] <= longest
      BY <1>4 DEF Used
    <2>2. since'[op] <= longest + 1
      BY <1>1, <1>3, <2>1, ReplayAssumption DEF Never
    <2> QED BY <1>2, <2>1, <2>2
  <1>5. KeysAreOfPassed'
    <2>1. ASSUME NEW k \in Key, nonces'[k] > 0
          PROVE  Used(k, 2 * MaxSkew - nonces[k])'
      <3>1. nonces[k] > 0 /\ nonces'[k] = nonces[k] - 1
        BY <1>1, <1>2, <2>1
      <3>2. Used(k, 2 * MaxSkew - nonces[k]) /\ 2 * MaxSkew - nonces[k] \in Int
        BY <1>1, <3>1, ReplayAssumption DEF KeysInv, KeysAreOfPassed
      <3>3. (2 * MaxSkew - nonces[k]) + 1 = 2 * MaxSkew - nonces'[k]
        BY <1>1, <3>1, ReplayAssumption
      <3> QED BY <1>4, <3>2, <3>3 DEF Used
    <2>2. ASSUME NEW k \in Key, NEW p \in Pod, fallback'[p][k] >= 0
          PROVE  Used(k, MaxSkew - fallback[p][k])'
      <3>1. fallback[p][k] >= 0 /\ fallback'[p][k] = fallback[p][k] - 1
        BY <1>1, <1>2, <2>2
      <3>2. Used(k, MaxSkew - fallback[p][k]) /\ MaxSkew - fallback[p][k] \in Int
        BY <1>1, <3>1, ReplayAssumption DEF KeysInv, KeysAreOfPassed
      <3>3. (MaxSkew - fallback[p][k]) + 1 = MaxSkew - fallback'[p][k]
        BY <1>1, <3>1, ReplayAssumption
      <3> QED BY <1>4, <3>2, <3>3 DEF Used
    <2> QED BY <2>1, <2>2 DEF KeysAreOfPassed
  <1>6. WitnessKeeps'
    <2> SUFFICES ASSUME NEW op \in Op, key[op] # NoKey, since'[op] <= MaxSkew, ~lost[op]
                 PROVE  Kept(witness[op], op)'
      BY <1>2 DEF WitnessKeeps
    <2>1. key[op] \in Key /\ key'[op] = key[op] /\ witness'[op] = witness[op]
      BY <1>2, KeyOf
    <2>2. since'[op] = since[op] + 1
      BY <1>3
    <2>3. Kept(witness[op], op)
      BY <1>1, <2>2, ReplayAssumption DEF KeysInv, WitnessKeeps, Never
    <2>4. CASE witness[op] = Redis
      BY <1>1, <1>2, <2>1, <2>2, <2>3, <2>4, ReplayAssumption DEF Kept, Never
    <2>5. CASE witness[op] # Redis
      <3>1. witness[op] \in Pod
        BY <2>5 DEF GuardTypeOK
      <3> QED BY <1>1, <1>2, <2>1, <2>2, <2>3, <2>5, <3>1, ReplayAssumption DEF Kept, Never
    <2> QED BY <2>4, <2>5
  <1> QED BY <1>5, <1>6 DEF KeysInv

\* A restart marks what its store had taken as lost.
LEMMA RestartsKeep ==
    ASSUME GuardTypeOK, KeysInv, RedisRestarts \/ \E p \in Pod : PodRestarts(p)
    PROVE  KeysInv'
  <1>1. CASE RedisRestarts
    <2>1. KeysAreOfPassed'
      BY <1>1 DEF RedisRestarts, clientVars, KeysInv, KeysAreOfPassed, Used
    <2>2. WitnessKeeps'
      <3> SUFFICES ASSUME NEW op \in Op, key'[op] # NoKey, since'[op] <= MaxSkew, ~lost'[op]
                   PROVE  Kept(witness[op], op)'
        BY DEF WitnessKeeps
      <3>1. witness[op] # Redis /\ ~lost[op]
        BY <1>1 DEF RedisRestarts, clientVars, LostBy, GuardTypeOK
      <3> QED BY <1>1, <3>1 DEF RedisRestarts, clientVars, KeysInv, WitnessKeeps, Kept
    <2> QED BY <2>1, <2>2 DEF KeysInv
  <1>2. ASSUME NEW p \in Pod, PodRestarts(p) PROVE KeysInv'
    <2>1. /\ \A q \in Pod \ {p} : fallback'[q] = fallback[q]
          /\ \A k \in Key : fallback'[p][k] = -1
          /\ UNCHANGED <<key, nonces, since, witness>> /\ lost' = LostBy(p)
      BY <1>2 DEF PodRestarts, GuardTypeOK, clientVars
    <2>2. KeysAreOfPassed'
      BY <2>1 DEF KeysInv, KeysAreOfPassed, Used
    <2>3. WitnessKeeps'
      <3> SUFFICES ASSUME NEW op \in Op, key'[op] # NoKey, since'[op] <= MaxSkew, ~lost'[op]
                   PROVE  Kept(witness[op], op)'
        BY DEF WitnessKeeps
      <3>1. witness[op] # p /\ ~lost[op]
        BY <2>1 DEF LostBy, GuardTypeOK
      <3>2. Kept(witness[op], op) /\ witness[op] \in Pod \cup {Redis}
        BY <2>1, <3>1 DEF KeysInv, WitnessKeeps, GuardTypeOK
      <3> QED BY <2>1, <3>1, <3>2 DEF Kept
    <2> QED BY <2>2, <2>3 DEF KeysInv
  <1> QED BY <1>1, <1>2

LEMMA NextKeys == GuardTypeOK /\ KeysInv /\ [GuardNext]_guardVars => KeysInv'
  <1> SUFFICES ASSUME GuardTypeOK, KeysInv, [GuardNext]_guardVars PROVE KeysInv'
    OBVIOUS
  <1>1. CASE UNCHANGED <<key, nonces, fallback, since, witness, lost>>
    BY <1>1 DEF KeysInv, KeysAreOfPassed, Used, WitnessKeeps, Kept
  <1>2. CASE RedisToggles \/ (\E p \in Pod : Reconnects(p)) \/ UNCHANGED guardVars
    BY <1>1, <1>2 DEF RedisToggles, Reconnects, guardVars, clientVars, storeVars, history
  <1> QED BY <1>2, PassKeeps, RefuseKeyKeeps, TickKeeps, RestartsKeep DEF GuardNext

LEMMA KeysHold == GuardSpec => [](GuardTypeOK /\ KeysInv)
  BY InitKeys, NextKeys, GuardTypeCorrect, PTL DEF GuardSpec

\* Where validate_request of replay_guard.py answers that a key is taken, some request
\* with this key, if not the one at hand, has passed the guard of some process, no
\* longer ago than the store can have it.
THEOREM NoUnusedKeyRefused == GuardSpec => []RefusedWasPassed
  <1>1. GuardTypeOK /\ KeysInv => RefusedWasPassed
    <2> SUFFICES ASSUME GuardTypeOK, KeysInv, NEW p \in Pod, NEW k \in Key, Remembered(p, k)
                 PROVE  \E op \in Op :
                          /\ key[op] = k
                          /\ since[op] <= IF Place(p) = Redis THEN 2 * MaxSkew ELSE MaxSkew
      BY DEF RefusedWasPassed
    <2>1. CASE Place(p) = Redis
      <3>1. nonces[k] > 0 /\ Used(k, 2 * MaxSkew - nonces[k])
        BY <2>1 DEF Remembered, KeysInv, KeysAreOfPassed
      <3>2. PICK op \in Op : key[op] = k /\ since[op] <= 2 * MaxSkew - nonces[k]
        BY <3>1 DEF Used
      <3>3. since[op] <= 2 * MaxSkew
        BY <3>1, <3>2, Numbers, ReplayAssumption
      <3> QED BY <2>1, <3>2, <3>3
    <2>2. CASE Place(p) # Redis
      <3>1. fallback[p][k] >= 0 /\ Used(k, MaxSkew - fallback[p][k])
        BY <2>2 DEF Remembered, KeysInv, KeysAreOfPassed
      <3>2. PICK op \in Op : key[op] = k /\ since[op] <= MaxSkew - fallback[p][k]
        BY <3>1 DEF Used
      <3>3. since[op] <= MaxSkew
        BY <3>1, <3>2, Numbers, ReplayAssumption
      <3> QED BY <2>2, <3>2, <3>3
    <2> QED BY <2>1, <2>2
  <1> QED BY <1>1, KeysHold, PTL

-----------------------------------------------------------------------------
(* The replay guard: single use *)

\* The key of a request that the store which took it still has, this store refuses.
LEMMA WitnessRefuses ==
    ASSUME GuardTypeOK, KeysInv, NEW p \in Pod, NEW op \in Op, key[op] # NoKey,
           since[op] < MaxSkew, ~lost[op], witness[op] = Place(p)
    PROVE  Remembered(p, key[op])
  <1>1. /\ key[op] \in Key /\ since[op] \in Nat /\ nonces[key[op]] \in Int
        /\ fallback[p][key[op]] \in Int
    BY KeyOf, Numbers, ReplayAssumption
  <1>2. Kept(Place(p), op)
    BY <1>1, ReplayAssumption DEF KeysInv, WitnessKeeps
  <1>3. CASE Place(p) = Redis
    BY <1>1, <1>2, <1>3, ReplayAssumption DEF Kept, Remembered
  <1>4. CASE Place(p) # Redis
    <2>1. Place(p) = p
      BY <1>4 DEF Place
    <2> QED BY <1>1, <1>2, <1>4, <2>1, ReplayAssumption DEF Kept, Remembered
  <1> QED BY <1>3, <1>4

\* While the store that took a key answers and keeps it, no process that asks this
\* store passes a request with the key, the same or another, before max_skew_seconds
\* are over (replay_guard.py:19).
THEOREM PassedOnce == GuardSpec => SingleUse
  <1>1. ASSUME GuardTypeOK, KeysInv, NEW p \in Pod, NEW op \in Op, NEW other \in Op,
               Pass(p, op), key[op] # NoKey, key[other] = key[op], since[other] < MaxSkew
        PROVE  lost[other] \/ witness[other] # Place(p)
    <2>1. ~Remembered(p, key[other])
      BY <1>1 DEF Pass
    <2> QED BY <1>1, <2>1, WitnessRefuses DEF GuardTypeOK
  <1>2. GuardTypeOK /\ KeysInv /\ [GuardNext]_guardVars =>
          [\A p \in Pod, op, other \in Op :
             /\ Pass(p, op)
             /\ key[op] # NoKey /\ key[other] = key[op] /\ since[other] < MaxSkew
             => lost[other] \/ witness[other] # Place(p)]_guardVars
    BY <1>1
  <1> QED BY <1>2, KeysHold, PTL DEF GuardSpec, SingleUse

\* A request whose timestamp was behind the gateway's clock when it was passed is never
\* passed again by a store that has kept its key: where the key is too old to be kept,
\* the timestamp is too old to be fresh.
THEOREM PassedOnceByStamp == GuardSpec => StampedOnce
  <1>1. ASSUME GuardTypeOK, KeysInv, NEW op \in Op, NEW p \in Pod, Pass(p, op),
               key[op] # NoKey, ~lost[op], witness[op] = Place(p), age[op] # NoStamp
        PROVE  age[op] - since[op] <= 0
    <2>1. age[op] \in Int /\ since[op] \in Nat
      BY <1>1, ReplayAssumption DEF GuardTypeOK, NoStamp, Never
    <2>2. age[op] <= MaxSkew
      BY <1>1, ReplayAssumption DEF Pass, Fresh
    <2>3. since[op] >= MaxSkew
      BY <1>1, <2>1, WitnessRefuses, ReplayAssumption DEF Pass
    <2> QED BY <2>1, <2>2, <2>3, ReplayAssumption
  <1>2. GuardTypeOK /\ KeysInv /\ [GuardNext]_guardVars =>
          [\A p \in Pod, op \in Op :
             /\ Pass(p, op) /\ key[op] # NoKey
             /\ since[op] # Never /\ ~lost[op] /\ witness[op] = Place(p)
             /\ age[op] # NoStamp
             => age[op] - since[op] <= 0]_guardVars
    BY <1>1
  <1> QED BY <1>2, KeysHold, PTL DEF GuardSpec, StampedOnce
=============================================================================
