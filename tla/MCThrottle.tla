----------------------------- MODULE MCThrottle -----------------------------
(* Instance of Throttle for TLC. *)
EXTENDS Throttle, TLC

CONSTANTS t1, t2

Symmetry == Permutations({t1, t2})
=============================================================================
