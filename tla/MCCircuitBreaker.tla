-------------------------- MODULE MCCircuitBreaker --------------------------
(* The circuit breaker on a few hosts and hops.                            *)
EXTENDS CircuitBreaker, TLC

(* Hosts and hops are interchangeable.                                     *)
Symmetry == Permutations(Host) \cup Permutations(Hop)
=============================================================================
