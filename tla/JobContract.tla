---------------------------- MODULE JobContract ----------------------------
(***************************************************************************)
(* What the service promises about a translation job, without saying how:  *)
(* no threads, no processes, no files, no requests in flight.  A job is    *)
(* accepted, claimed, publishes one output per target language, and ends   *)
(* completed, failed or canceled; only an ended job is removed.  A job is  *)
(* canceled only if somebody asked for it, and a restart of the server     *)
(* ends every job that had not ended.                                      *)
(***************************************************************************)
EXTENDS Integers

CONSTANTS Job,       \* job ids
          Targets    \* target languages of a job

VARIABLES status,    \* status of the job's row, or "unborn" / "gone"
          outputs,   \* outputs listed in the row
          asked      \* jobs whose cancellation was requested

vars == <<status, outputs, asked>>

Active   == {"queued", "processing", "canceling"}
Terminal == {"completed", "failed", "canceled"}

Init == /\ status = [j \in Job |-> "unborn"]
        /\ outputs = [j \in Job |-> 0]
        /\ asked = {}

Move(j, s) == status' = [status EXCEPT ![j] = s]

\* An upload is accepted whole: all of its jobs appear in one step.
Accept(B) == /\ \A j \in B : status[j] = "unborn"
             /\ status' = [j \in Job |-> IF j \in B THEN "queued" ELSE status[j]]
             /\ UNCHANGED <<outputs, asked>>

Claim(j) == /\ status[j] = "queued"
            /\ Move(j, "processing")
            /\ UNCHANGED <<outputs, asked>>

Publish(j) == /\ status[j] = "processing"
              /\ outputs[j] < Targets
              /\ outputs' = [outputs EXCEPT ![j] = @ + 1]
              /\ UNCHANGED <<status, asked>>

Complete(j) == /\ status[j] = "processing"
               /\ outputs[j] = Targets
               /\ Move(j, "completed")
               /\ UNCHANGED <<outputs, asked>>

Fail(j) == /\ status[j] \in {"queued", "processing"}
           /\ Move(j, "failed")
           /\ UNCHANGED <<outputs, asked>>

Ask(j) == /\ status[j] \in Active \cup Terminal
          /\ asked' = asked \cup {j}
          /\ UNCHANGED <<status, outputs>>

\* A job nobody works on yet is canceled by the request itself.
Withdraw(j) == /\ status[j] = "queued"
               /\ Move(j, "canceled")
               /\ asked' = asked \cup {j}
               /\ UNCHANGED outputs

BeginCancel(j) == /\ status[j] = "processing"
                  /\ j \in asked
                  /\ Move(j, "canceling")
                  /\ UNCHANGED <<outputs, asked>>

FinishCancel(j) == /\ status[j] = "canceling"
                   /\ j \in asked
                   /\ Move(j, "canceled")
                   /\ UNCHANGED <<outputs, asked>>

Remove(j) == /\ status[j] \in Terminal
             /\ Move(j, "gone")
             /\ UNCHANGED <<outputs, asked>>

Recovered(s) == IF s \in {"queued", "processing"} THEN "failed"
                ELSE IF s = "canceling" THEN "canceled" ELSE s

Recover == /\ status' = [j \in Job |-> Recovered(status[j])]
           /\ UNCHANGED <<outputs, asked>>

Next == \/ \E B \in SUBSET Job : Accept(B)
        \/ \E j \in Job : \/ Claim(j) \/ Publish(j) \/ Complete(j) \/ Fail(j)
                          \/ Ask(j) \/ Withdraw(j) \/ BeginCancel(j)
                          \/ FinishCancel(j) \/ Remove(j)
        \/ Recover

Spec == Init /\ [][Next]_vars
=============================================================================
