-------------------------- MODULE JobLifecycleInv --------------------------
(***************************************************************************)
(* The inductive invariant of JobLifecycle: what must hold between the     *)
(* row, the run, the files and the requests of a job for the properties of *)
(* JobLifecycle to survive every step.                                     *)
(***************************************************************************)
EXTENDS JobLifecycle

\* Where a run is, against what its row says and what its event says.
RunInv == \A j \in Job :
  /\ status[j] = "unborn" => pc[j] = "idle" /\ outputs[j] = 0
  /\ pc[j] \in Unclaimed => status[j] \in {"queued", "canceled", "gone"}
  /\ pc[j] \in Working => status[j] \in {"processing", "canceling"}
  /\ pc[j] \in {"abandon", "failcancel"} => status[j] \notin {"queued", "processing"}
  /\ flag[j] => status[j] \notin {"queued", "processing"}
  /\ status[j] \in {"canceling", "canceled"} => j \in asked
  /\ pc[j] \in {"waiting"} \cup OnThread => home[j] \in Proc
  /\ pc[j] = "idle" => home[j] = NoProc /\ ~flag[j]

\* What is on disk and in the row, against how far the run is.
DiskInv == \A j \in Job :
  /\ status[j] \in Active => folder[j] = "whole" \/ (j \in stranded /\ pc[j] = "idle")
  /\ status[j] = "gone" => folder[j] = "absent"
  /\ outputs[j] <= written[j]
  /\ pc[j] \in {"idle"} \cup Unclaimed => outputs[j] = 0 /\ written[j] = 0 /\ done[j] = 0
  /\ pc[j] \in Working \ {"publish"} => written[j] = done[j]
  /\ pc[j] = "publish" => written[j] = done[j] + 1
  /\ pc[j] \in {"translate", "write", "publish"} => done[j] < Targets
  /\ pc[j] = "finish" => done[j] = Targets
  /\ pc[j] \in Working /\ status[j] = "processing" => outputs[j] = done[j]

\* The uploads in progress: disjoint, unborn until the commit, queued at most after;
\* an upload that takes its files away has inserted no row it knows of.
UploadInv ==
  /\ \A r, s \in Request : r # s => batch[r] \cap batch[s] = {}
  /\ \A r \in Request :
       /\ staged[r] \subseteq batch[r]
       /\ op[r] \in {"none", "signal"} \cup Locking => batch[r] = {}
       /\ op[r] = "commit" => batch[r] \subseteq staged[r]
       /\ op[r] = "submit" => batch[r] \subseteq staged[r]
       /\ \A j \in batch[r] :
            /\ pc[j] = "idle"
            /\ op[r] = "submit" => status[j] \in {"queued", "canceled", "gone"}
            /\ op[r] = "submit" /\ status[j] \in Active => folder[j] = "whole"
            /\ op[r] = "unstage" => \/ status[j] \in {"unborn", "canceled", "gone"}
                                    \/ status[j] = "queued" /\ j \in stranded
            /\ op[r] \notin {"submit", "unstage"} => status[j] = "unborn"
       /\ \A j \in staged[r] : op[r] \notin {"submit", "unstage"} => folder[j] = "whole"

\* The cancel and delete requests in progress.
RequestInv == \A r \in Request :
  /\ op[r] \in {"signal"} \cup Locking => arg[r] \in Job
  /\ op[r] = "cancelRunning" => arg[r] \in asked
  /\ op[r] = "signal" => status[arg[r]] \in {"canceling", "canceled", "gone"}
  /\ op[r] \in {"deleteFiles", "deleteRow"} => status[arg[r]] \in Terminal \cup {"gone"}
  /\ op[r] = "deleteRow" => folder[arg[r]] = "absent"

\* The executor queues hold exactly once each job they hold.
QueueOk(p) ==
  /\ \A i \in 1..Len(queue[p]) : pc[queue[p][i]] = "waiting" /\ home[queue[p][i]] = p
  /\ \A i, k \in 1..Len(queue[p]) : i # k => queue[p][i] # queue[p][k]

QueueInv == \A p \in Proc : QueueOk(p)

\* The conjunction that every step preserves: the five relations above, and the
\* properties that are conjuncts of their own induction.
IndInv == /\ TypeOK /\ RunInv /\ DiskInv /\ UploadInv /\ RequestInv /\ QueueInv
          /\ Attended /\ CancelHonoured /\ OutputsOnDisk /\ FoldersAccounted /\ EventTracksRun
=============================================================================
