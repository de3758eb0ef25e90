---------------------------- MODULE ReadContract ----------------------------
(***************************************************************************)
(* What a read promises, without saying where it reads: the contents it    *)
(* returns were in the database at some moment between its beginning and   *)
(* its end.  Between two lives of the server, when nobody reads and no     *)
(* answer is in use, the database may become anything (a backup is         *)
(* restored, start-up repairs rows).                                       *)
(***************************************************************************)
CONSTANTS Request,   \* request threads
          Table,     \* what is read
          Nothing    \* no table, no answer

VARIABLES rows,      \* the contents of every table
          reading,   \* the table a request is reading
          seen,      \* the contents of that table since the read began
          answer     \* what the read returned, while the request uses it

vars == <<rows, reading, seen, answer>>

Init == /\ reading = [r \in Request |-> Nothing]
        /\ seen = [r \in Request |-> {}]
        /\ answer = [r \in Request |-> Nothing]

Write(t) == /\ \A u \in Table \ {t} : rows'[u] = rows[u]
            /\ seen' = [r \in Request |-> IF reading[r] = t THEN seen[r] \cup {rows'[t]}
                                          ELSE seen[r]]
            /\ UNCHANGED <<reading, answer>>

Begin(r, t) == /\ reading[r] = Nothing
               /\ reading' = [reading EXCEPT ![r] = t]
               /\ seen' = [seen EXCEPT ![r] = {rows[t]}]
               /\ answer' = [answer EXCEPT ![r] = Nothing]
               /\ UNCHANGED rows

Return(r) == /\ reading[r] # Nothing
             /\ reading' = [reading EXCEPT ![r] = Nothing]
             /\ \E v \in seen[r] : answer' = [answer EXCEPT ![r] = v]
             /\ UNCHANGED <<rows, seen>>

Forget(r) == /\ reading[r] = Nothing
             /\ seen' = [seen EXCEPT ![r] = {}]
             /\ answer' = [answer EXCEPT ![r] = Nothing]
             /\ UNCHANGED <<rows, reading>>

Restart == /\ reading' = [r \in Request |-> Nothing]
           /\ seen' = [r \in Request |-> {}]
           /\ answer' = [r \in Request |-> Nothing]

Next == \/ \E t \in Table : Write(t) \/ \E r \in Request : Begin(r, t)
        \/ \E r \in Request : Return(r) \/ Forget(r)
        \/ Restart

Spec == Init /\ [][Next]_vars
=============================================================================
