---- MODULE MCCanaryRouter ----
\* Values for checking CanaryRouter: one client in the first ten percent and one beyond
\* the half; a read route and a mutation route, the limits of the router being those of
\* reads.  Rates of 2% and 1% take hundreds of answers to tell apart; 50% and 40% keep
\* their order and can be met with four.
EXTENDS CanaryRouter

MCHash == [c \in Client |-> IF c = "early" THEN 5 ELSE 70]
MCGlobal == [p95 |-> 0, errors |-> 50]
MCBudget == [read |-> MCGlobal, mutation |-> [p95 |-> 1, errors |-> 40]]
MCWeightInput == {-50, 25, 150}
====
