--------------------------- MODULE MCCircuitBreaker ---------------------------
(* Model values and symmetry for CircuitBreaker. *)
EXTENDS CircuitBreaker, TLC

CONSTANTS c1, c2, c3

MCCallers == {c1, c2, c3}
MCSymmetry == Permutations(MCCallers)
=============================================================================
