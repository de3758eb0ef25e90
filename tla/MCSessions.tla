----------------------------- MODULE MCSessions -----------------------------
(* Symmetric tokens, sessions and requests for TLC. *)
EXTENDS Sessions, TLC

Symmetry == Permutations(Token) \cup Permutations(Session) \cup Permutations(Request)
=============================================================================
