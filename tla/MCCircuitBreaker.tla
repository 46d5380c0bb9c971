---- MODULE MCCircuitBreaker ----
EXTENDS CircuitBreaker, TLC
Callers3 == Permutations(Callers)
====
