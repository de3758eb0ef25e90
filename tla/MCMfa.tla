------------------------------- MODULE MCMfa -------------------------------
(* Symmetric requests and challenges for TLC. *)
EXTENDS Mfa, TLC

Symmetry == Permutations(Request) \cup Permutations(Challenge)
=============================================================================
