---- MODULE MCCircuitBreaker ----
\* Model values for checking CircuitBreaker and its history variables.
EXTENDS CircuitBreakerHistory, TLC

\* Clients are interchangeable in every safety property.
Symmetry == Permutations(Request)
====
