--------------------------- MODULE MCLoginLockout ---------------------------
(* Symmetric requests for TLC. *)
EXTENDS LoginLockout, TLC

Symmetry == Permutations(Request)
=============================================================================
