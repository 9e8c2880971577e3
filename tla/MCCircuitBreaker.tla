-------------------------- MODULE MCCircuitBreaker --------------------------
(* CircuitBreaker on small instances.                                      *)
EXTENDS CircuitBreaker, TLC

\* Callers are interchangeable (all properties of these runs are safety).
Symmetry == Permutations(Caller)
=============================================================================
