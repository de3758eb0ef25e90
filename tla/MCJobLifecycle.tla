--------------------------- MODULE MCJobLifecycle ---------------------------
(* Instances of JobLifecycle for TLC. *)
EXTENDS JobLifecycleInv, TLC

CONSTANTS j1, j2, p1, p2, r1, r2

\* One request thread in each of two worker processes.
TwoProcesses == (r1 :> p1) @@ (r2 :> p2)

\* One request thread in all.
OneRequest == r1 :> p1

JobSymmetry == Permutations({j1, j2})

\* The two processes may be swapped, each with its request thread.
SwapProcesses == (p1 :> p2) @@ (p2 :> p1) @@ (r1 :> r2) @@ (r2 :> r1)
FullSymmetry  == JobSymmetry \cup {f @@ SwapProcesses : f \in JobSymmetry}
=============================================================================
