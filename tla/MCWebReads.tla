----------------------------- MODULE MCWebReads -----------------------------
(* Instances of WebReads for TLC. *)
EXTENDS WebReads, TLC

CONSTANTS r1, r2

RequestSymmetry == Permutations({r1, r2})

\* Everything is set; the protection of actions is off or on.
KeysOffOn == {{"provider", "site", "secret", "host"}, Fields}

\* Partial saves, each acceptable to one of those configurations.
PartialSaves == {[set |-> {"on"}, clear |-> {}], [set |-> {}, clear |-> {"site"}],
                 [set |-> {}, clear |-> {"provider", "host"}]}
=============================================================================
