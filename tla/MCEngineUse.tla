---- MODULE MCEngineUse ----
\* Model values for checking EngineUse.
EXTENDS EngineUse, TLC

\* Two addresses that are also names (the tables hold both), one address of the
\* whitelist and one token
CONSTANTS e1, e2, e3, t1

\* A quarantine lasts two ticks, so that one may outlive another; the rest last one.
MCDuration == [k \in Kind |-> IF k = "quarantine_ip_temp" THEN 2 ELSE 1]

On(kinds, target) == {act \in Action : act.kind \in kinds /\ act.target = target}

MCUse ==
    On({"quarantine_ip_temp", "revoke_session", "suspend_account",
        "block_cidr_organization"}, e1)
    \cup On({"quarantine_ip_temp"}, e2)
    \cup On({"quarantine_ip_temp"}, e3)
    \cup On({"revoke_session"}, t1)

\* Nothing is ever done about e3, and entries of tokens have no end: the requests
\* without them sweep all there is.
MCCome == {r \in Request : e3 \notin {r.ip, r.principal} /\ r.token = NoId}

Symmetry == Permutations(Pod) \cup Permutations(Id)
====
