------------------------------ MODULE MCTelemetry ------------------------------
EXTENDS Telemetry

\* A request for the stock that only the statistics speak against
Unusual(anomaly) ==
    [waf |-> 0, auth |-> 0, rate |-> 0, rule |-> 0, anomaly |-> anomaly, trust |-> 100,
     route |-> "inventory"]
Scored(s) == [signals |-> s, decision |-> DecisionOf(s)]

\* The most that is allowed, and the least that is limited
MCEvent == {Scored(Unusual(50)), Scored(Unusual(51))}
=============================================================================
