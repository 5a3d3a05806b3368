----------------------------- MODULE RiskEngine -----------------------------
(***************************************************************************)
(* The risk score of gateway/risk_engine.py.  Severities and trust are     *)
(* whole numbers of percent; the score is counted in hundredths, the       *)
(* precision calculate_risk rounds it to, so that nothing is lost.         *)
(***************************************************************************)
EXTENDS Integers

Decision == {"ALLOW", "LIMIT", "CHALLENGE", "BLOCK"}

\* What "/*" of config/routes.yaml matches, read without a token: the public pages, and
\* paths below the routes of the API that are none of them, as /api/orders/ or /api/users
Page == {"page", "orders_page", "users_page"}
UserRoute == {"users", "users_page"}

\* The routes of the catalogue that reach the score: four under /api/, the SAP routes
\* of config/routes.yaml, which need a token too, and the pages
Route == {"login", "orders", "users", "inventory", "sap"} \cup Page

\* What a request is judged by
Signals ==
    [waf : Nat, auth : Nat, rate : Nat, rule : Nat, anomaly : Nat, trust : 0..100,
     route : Route]

Larger(a, b) == IF a >= b THEN a ELSE b
Smaller(a, b) == IF a <= b THEN a ELSE b

\* get_endpoint_sensitivity, in percent
Sensitivity(route) ==
    CASE route = "login" -> 90
      [] route \in {"orders", "orders_page"} -> 80
      [] route \in UserRoute -> 85
      [] OTHER -> 50

\* path.startswith("/api/") and path != "/api/auth/login"
TakesToken(route) == route \notin {"login", "sap", "page"}

\* threat_score with the weight 0.40, in hundredths of the whole: the mean of the four
\* severities weighs ten times their sum, a severity of its own forty times
Threat(s) ==
    LET mean == 10 * (s.waf + s.auth + s.rate + s.rule)
        raw == IF s.waf >= 90 THEN Larger(40 * s.waf, mean)
               ELSE IF s.rule >= 80 THEN Larger(40 * s.rule, mean)
               ELSE IF s.auth >= 90 THEN Larger(40 * s.auth, mean)
               ELSE Larger(mean, 20 * s.rule)
    IN Smaller(4000, raw)

\* The weighted composite
Composite(s) ==
    Threat(s) + 25 * Sensitivity(s.route) + 20 * (100 - s.trust)
      + 15 * Smaller(100, s.anomaly)

\* Fault: traffic over the limit is held to be an attack.
BoundedForAbuse(s) ==
    IF s.waf >= 80 \/ s.rule >= 80 \/ s.rate >= 100 THEN Larger(Composite(s), 8500)
    ELSE IF s.rule >= 60 THEN Larger(Composite(s), 6500)
    ELSE IF s.auth >= 80 /\ TakesToken(s.route)
           THEN IF s.waf < 75 THEN Smaller(7400, Larger(Composite(s), 6000))
                ELSE Larger(Composite(s), 8500)
    ELSE Composite(s)
\* Fault: an invalid token does not raise the score.
BoundedWithoutToken(s) ==
    IF s.waf >= 80 \/ s.rule >= 80 THEN Larger(Composite(s), 8500)
    ELSE IF s.rule >= 60 THEN Larger(Composite(s), 6500)
    ELSE Composite(s)
\* The hard boundary guarantees.  A severity of the rules below 60 is below 75 as well.
Bounded(s) ==
    IF s.waf >= 80 \/ s.rule >= 80 THEN Larger(Composite(s), 8500)
    ELSE IF s.rule >= 60 THEN Larger(Composite(s), 6500)
    ELSE IF s.auth >= 80 /\ TakesToken(s.route)
           THEN IF s.waf < 75 THEN Smaller(7400, Larger(Composite(s), 6000))
                ELSE Larger(Composite(s), 8500)
    ELSE Composite(s)

Overall(s) == Smaller(10000, Bounded(s))

\* The policy decision
DecisionOf(s) ==
    LET overall == Overall(s)
    IN IF overall <= 2000 THEN "ALLOW"
       ELSE IF overall <= 5000 THEN "LIMIT"
       ELSE IF overall <= 7500 THEN "CHALLENGE"
       ELSE "BLOCK"
=============================================================================
