---------------------------- MODULE MCAdminRoster ----------------------------
(* Symmetric accounts and requests for TLC, and the bodies they send.      *)
EXTENDS AdminRoster, TLC

Keep     == [role |-> "keep", active |-> "keep", password |-> FALSE]
MCBody   == {[Keep EXCEPT !.role = "user"],
             [role |-> "admin", active |-> "on", password |-> TRUE]}
Symmetry == Permutations(User) \cup Permutations(Request)
=============================================================================
