----------------------------- MODULE MCJobQuota -----------------------------
(* Instances of JobQuota for TLC. *)
EXTENDS JobQuota, TLC

CONSTANTS u1, u2, r1, r2

\* Weeks begin at every other tick, a month at the third.
Since(resets) == [t \in 0..MaxTime |-> CHOOSE x \in resets : x <= t /\ \A y \in resets : y <= t => y <= x]
Calendar == ("week" :> Since({0, 2, 4})) @@ ("month" :> Since({0, 3}))

Limits(user, admin, panel) ==
  [a \in Role \cup {"panel"} |-> CASE a = "user" -> user [] a = "admin" -> admin [] OTHER -> panel]
Kinds(window, week, month) == ("window" :> window) @@ ("week" :> week) @@ ("month" :> month)

\* One configuration with every limit on, and one edit of it that changes the
\* window settings and lifts the weekly limits.
Tight == [window |-> 3, limit |-> Limits(Kinds(2, 1, 3), Kinds(2, 2, 3), Kinds(3, 2, 4))]
Loose == [window |-> 2, limit |-> Limits(Kinds(0, 0, 2), Kinds(3, 0, 0), Kinds(2, 0, 3))]
TightAndLoose == {Tight, Loose}

\* Accounts and requests are interchangeable.
Symmetry == {f @@ g : f \in Permutations({u1, u2}), g \in Permutations({r1, r2})}
=============================================================================
