---- MODULE MCContainment ----
\* Model values for checking Containment.
EXTENDS Containment, TLC

MCId == Incident \X PlanKind

\* An action lasts one tick.  A challenge is over when the rest is, which no property
\* depends on.
MCDuration == [k \in Kind |-> 1]

\* The alerts of detection_agent.py: all are HIGH or CRITICAL.
HighStuffing == [severity |-> "HIGH", category |-> "CREDENTIAL_STUFFING"]
HighScraping == [severity |-> "HIGH", category |-> "MASS_SCRAPING"]
CriticalEscalation == [severity |-> "CRITICAL", category |-> "PRIVILEGE_ESCALATION"]

WorkflowAlerts == {HighStuffing, CriticalEscalation}
OneAlert == {HighScraping}

Symmetry == Permutations(Pod) \cup Permutations(Incident)
====
