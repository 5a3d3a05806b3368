---- MODULE MCAuditChain ----
\* Model values for checking AuditChain.
EXTENDS AuditChain, TLC

Symmetry == Permutations(Event) \cup Permutations(Worker)
====
