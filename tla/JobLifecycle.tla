---------------------------- MODULE JobLifecycle ----------------------------
(***************************************************************************)
(* A translation job from upload to removal: the row in the shared         *)
(* database, the job folder on disk, the requests that upload, cancel and  *)
(* delete it, and the executor thread that translates it, in several web   *)
(* worker processes that share only the database and the disk.             *)
(*                                                                         *)
(* Granularity.  A step is one database statement (or one transaction      *)
(* whose effect appears at its commit), one operation on the folder, or    *)
(* one use of the process-local cancel-event registry.  A transaction of   *)
(* several statements is split where another process can commit in         *)
(* between, as READ COMMITTED allows; db_lock keeps the transactions of    *)
(* one process apart.                                                      *)
(***************************************************************************)
EXTENDS Integers, Sequences, FiniteSets

CONSTANTS Job,         \* job ids (uuid4: never used twice)
          Proc,        \* web worker processes
          Request,     \* request threads
          Host,        \* the process each of them belongs to
          NoProc, NoJob,
          Workers,     \* JOB_WORKERS: executor threads of one process
          Targets,     \* number of target languages of a job
          FaultKinds,  \* which of the faults below may happen
          MaxFaults    \* how many of them, in one behaviour

ASSUME JobAssumption     == NoJob \notin Job
ASSUME ProcAssumption    == NoProc \notin Proc
ASSUME HostAssumption    == Host \in [Request -> Proc]
ASSUME WorkersAssumption == Workers \in Nat \ {0}
ASSUME TargetsAssumption == Targets \in Nat \ {0}
ASSUME FaultAssumption   == /\ FaultKinds \subseteq {"crash", "restart", "database", "ack", "file"}
                            /\ MaxFaults \in Nat

VARIABLES
  status,      \* jobs.status; "unborn" before the insert, "gone" after the delete
  outputs,     \* how many outputs jobs.outputs lists
  folder,      \* the job folder: "absent", "whole", or "partial" (a file lost)
  written,     \* how many output files were written into the folder
  op,          \* what the request served by a request thread does next
  arg,         \* the job it is about
  batch,       \* an upload's jobs still to be staged or submitted
  staged,      \* "pending": the upload's jobs whose source is saved
  queue,       \* executor work queue
  home,        \* process whose executor holds or runs the job
  pc,          \* where the job's run_job call is
  done,        \* len(outputs) in run_job
  flag,        \* the run's cancel_event is set
  registered,  \* cancel_events[job_id] is the run's event
  faults,      \* faults so far
  asked,       \* history: a user called cancel for the job
  acked,       \* history: a cancel call was answered 202
  stranded,    \* history: active, but a crash, a lost write of its outcome or a lost
               \* acknowledgement of its insert left it without a run
  leaked,      \* history: folder left behind by a failed or interrupted upload
  deleting     \* history: a delete call started removing the job's files

rowVars     == <<status, outputs>>
diskVars    == <<folder, written>>
requestVars == <<op, arg, batch, staged>>
threadVars  == <<queue, home, pc, done>>
eventVars   == <<flag, registered>>
history     == <<asked, acked, stranded, leaked, deleting>>
vars == <<rowVars, diskVars, requestVars, threadVars, eventVars, faults, history>>

Active   == {"queued", "processing", "canceling"}
Terminal == {"completed", "failed", "canceled"}
HasRow(j) == status[j] \in Active \cup Terminal

\* Stages of run_job: before the claim, between claim and outcome, and the
\* two exception handlers.
Unclaimed  == {"waiting", "read", "claim"}
Working    == {"load", "next", "translate", "write", "publish", "finish"}
Handling   == {"abandon", "failing", "failcancel"}
OnThread   == {"read", "claim", "cleanup"} \cup Working \cup Handling
Driven     == Unclaimed \cup Working \cup Handling

Init == /\ status = [j \in Job |-> "unborn"]
        /\ outputs = [j \in Job |-> 0]
        /\ folder = [j \in Job |-> "absent"]
        /\ written = [j \in Job |-> 0]
        /\ op = [r \in Request |-> "none"]
        /\ arg = [r \in Request |-> NoJob]
        /\ batch = [r \in Request |-> {}]
        /\ staged = [r \in Request |-> {}]
        /\ queue = [p \in Proc |-> <<>>]
        /\ home = [j \in Job |-> NoProc]
        /\ pc = [j \in Job |-> "idle"]
        /\ done = [j \in Job |-> 0]
        /\ flag = [j \in Job |-> FALSE]
        /\ registered = [j \in Job |-> FALSE]
        /\ faults = 0
        /\ asked = {} /\ acked = {} /\ stranded = {} /\ leaked = {} /\ deleting = {}

Fault(kind) == /\ kind \in FaultKinds
               /\ faults < MaxFaults
               /\ faults' = faults + 1

\* db_lock of process p: no request of p is between two statements of its
\* transaction.
Locking   == {"cancelRunning", "cancelRead", "deleteFiles", "deleteRow"}
DbFree(p) == \A r \in Request : Host[r] = p => op[r] \notin Locking

(***************************************************************************)
(* POST /api/jobs                                                          *)
(***************************************************************************)
Fresh(j) == /\ status[j] = "unborn"
            /\ folder[j] = "absent"
            /\ \A r \in Request : j \notin batch[r]

UploadStart(r, B) ==
  /\ op[r] = "none"
  /\ B # {} /\ \A j \in B : Fresh(j)
  /\ op' = [op EXCEPT ![r] = "stage"]
  /\ batch' = [batch EXCEPT ![r] = B]
  /\ staged' = [staged EXCEPT ![r] = {}]
  /\ UNCHANGED <<rowVars, diskVars, arg, threadVars, eventVars, faults, history>>

\* Mutant of Stage: the insert no longer waits for the last file.
StageEarly(r, j) ==
  /\ op[r] = "stage"
  /\ j \in batch[r] \ staged[r]
  /\ folder' = [folder EXCEPT ![j] = "whole"]
  /\ staged' = [staged EXCEPT ![r] = @ \cup {j}]
  /\ op' = [op EXCEPT ![r] = "commit"]
  /\ UNCHANGED <<rowVars, written, arg, batch, threadVars, eventVars, faults, history>>

\* mkdir and upload.save for the next file of the upload.
Stage(r, j) ==
  /\ op[r] = "stage"
  /\ j \in batch[r] \ staged[r]
  /\ folder' = [folder EXCEPT ![j] = "whole"]
  /\ staged' = [staged EXCEPT ![r] = @ \cup {j}]
  /\ op' = [op EXCEPT ![r] = IF batch[r] \subseteq staged[r] \cup {j} THEN "commit" ELSE "stage"]
  /\ UNCHANGED <<rowVars, written, arg, batch, threadVars, eventVars, faults, history>>

\* mkdir raises, or upload.save after it: the folder is not in "pending" yet.
StageError(r, j) ==
  /\ op[r] = "stage"
  /\ j \in batch[r] \ staged[r]
  /\ Fault("file")
  /\ \/ UNCHANGED <<folder, leaked>>
     \/ folder' = [folder EXCEPT ![j] = "partial"] /\ leaked' = leaked \cup {j}
  /\ op' = [op EXCEPT ![r] = "unstage"]
  /\ UNCHANGED <<rowVars, written, arg, batch, staged, threadVars, eventVars,
                 asked, acked, stranded, deleting>>

\* Quota and all inserts in one transaction.
Commit(r) ==
  /\ op[r] = "commit"
  /\ DbFree(Host[r])
  /\ status' = [j \in Job |-> IF j \in batch[r] THEN "queued" ELSE status[j]]
  /\ op' = [op EXCEPT ![r] = "submit"]
  /\ UNCHANGED <<outputs, diskVars, arg, batch, staged, threadVars, eventVars, faults, history>>

\* consume_job_quota refuses the upload: nothing is inserted.
Reject(r) ==
  /\ op[r] = "commit"
  /\ DbFree(Host[r])
  /\ op' = [op EXCEPT ![r] = "unstage"]
  /\ UNCHANGED <<rowVars, diskVars, arg, batch, staged, threadVars, eventVars, faults, history>>

\* The transaction raises and is rolled back.
CommitError(r) ==
  /\ op[r] = "commit"
  /\ DbFree(Host[r])
  /\ Fault("database")
  /\ op' = [op EXCEPT ![r] = "unstage"]
  /\ UNCHANGED <<rowVars, diskVars, arg, batch, staged, threadVars, eventVars, history>>

\* The transaction is committed, but the database answers with an error: the rows
\* are there, and the handler takes the files away.
CommitAckLost(r) ==
  /\ op[r] = "commit"
  /\ DbFree(Host[r])
  /\ Fault("ack")
  /\ status' = [j \in Job |-> IF j \in batch[r] THEN "queued" ELSE status[j]]
  /\ stranded' = stranded \cup batch[r]
  /\ op' = [op EXCEPT ![r] = "unstage"]
  /\ UNCHANGED <<outputs, diskVars, arg, batch, staged, threadVars, eventVars,
                 asked, acked, leaked, deleting>>

\* Mutant of Unstage: the error paths of the upload forget the pending folders.
UnstageNothing(r) ==
  /\ op[r] = "unstage"
  /\ op' = [op EXCEPT ![r] = "none"]
  /\ batch' = [batch EXCEPT ![r] = {}]
  /\ staged' = [staged EXCEPT ![r] = {}]
  /\ UNCHANGED <<rowVars, diskVars, arg, threadVars, eventVars, faults, history>>

\* rmtree of every pending folder, then the 429 or the exception.
Unstage(r) ==
  /\ op[r] = "unstage"
  /\ folder' = [j \in Job |-> IF j \in staged[r] THEN "absent" ELSE folder[j]]
  /\ op' = [op EXCEPT ![r] = "none"]
  /\ batch' = [batch EXCEPT ![r] = {}]
  /\ staged' = [staged EXCEPT ![r] = {}]
  /\ UNCHANGED <<rowVars, written, arg, threadVars, eventVars, faults, history>>

\* executor.submit(run_job, job_id), one job at a time, outside the lock.
Submit(r, j) ==
  /\ op[r] = "submit"
  /\ j \in batch[r]
  /\ queue' = [queue EXCEPT ![Host[r]] = Append(@, j)]
  /\ home' = [home EXCEPT ![j] = Host[r]]
  /\ pc' = [pc EXCEPT ![j] = "waiting"]
  /\ batch' = [batch EXCEPT ![r] = @ \ {j}]
  /\ staged' = [staged EXCEPT ![r] = @ \ {j}]
  /\ op' = [op EXCEPT ![r] = IF batch[r] = {j} THEN "none" ELSE "submit"]
  /\ UNCHANGED <<rowVars, diskVars, arg, done, eventVars, faults, history>>

(***************************************************************************)
(* run_job                                                                 *)
(***************************************************************************)
Goto(j, stage) == pc' = [pc EXCEPT ![j] = stage]

\* The executor starts the head of its queue; run_job registers its event.
StartRun(p, j) ==
  /\ queue[p] # <<>> /\ j = Head(queue[p])
  /\ Cardinality({k \in Job : home[k] = p /\ pc[k] \in OnThread}) < Workers
  /\ queue' = [queue EXCEPT ![p] = Tail(@)]
  /\ registered' = [registered EXCEPT ![j] = TRUE]
  /\ Goto(j, "read")
  /\ UNCHANGED <<rowVars, diskVars, requestVars, home, done, flag, faults, history>>

ReadRow(j) ==
  /\ pc[j] = "read"
  /\ flag' = [flag EXCEPT ![j] = @ \/ status[j] = "canceling"]
  /\ Goto(j, IF status[j] = "gone" THEN "cleanup"
             ELSE IF flag'[j] THEN "abandon" ELSE "claim")
  /\ UNCHANGED <<rowVars, diskVars, requestVars, queue, home, done, registered, faults, history>>

\* Mutant of Claim: an update without its condition on the status.
ClaimAlways(j) ==
  /\ pc[j] = "claim"
  /\ DbFree(home[j])
  /\ status' = [status EXCEPT ![j] = "processing"]
  /\ Goto(j, "load")
  /\ UNCHANGED <<outputs, diskVars, requestVars, queue, home, done, eventVars, faults, history>>

\* queued -> processing, or give up because somebody else moved the row.
Claim(j) ==
  /\ pc[j] = "claim"
  /\ DbFree(home[j])
  /\ IF status[j] = "queued"
       THEN status' = [status EXCEPT ![j] = "processing"] /\ Goto(j, "load")
       ELSE status' = status /\ Goto(j, "cleanup")
  /\ UNCHANGED <<outputs, diskVars, requestVars, queue, home, done, eventVars, faults, history>>

\* What the cancel monitor sees when it looks: the event, else the row.
StopSeen(j) == flag[j] \/ status[j] \notin {"queued", "processing"}

\* The monitor's poll is throttled: between two polls only the event counts,
\* so a run may go on although its row already says "canceling".
MayGoOn(j) == ~flag[j]

StopAt(j) == /\ StopSeen(j)
             /\ flag' = [flag EXCEPT ![j] = TRUE]
             /\ Goto(j, "abandon")

\* Read and parse the source, check for a cancel (a poll that raises counts as
\* "no"), read the settings and build the provider.
Load(j) ==
  /\ pc[j] = "load"
  /\ \/ /\ folder[j] = "whole"
        /\ MayGoOn(j)
        /\ Goto(j, "next")
        /\ UNCHANGED flag
     \/ folder[j] = "whole" /\ StopAt(j)
     \/ Goto(j, "failing") /\ UNCHANGED flag
  /\ UNCHANGED <<rowVars, diskVars, requestVars, queue, home, done, registered, faults, history>>

\* Loop head: the next target language, or the end of the loop.
NextTarget(j) ==
  /\ pc[j] = "next"
  /\ \/ done[j] < Targets /\ MayGoOn(j) /\ Goto(j, "translate") /\ UNCHANGED flag
     \/ done[j] < Targets /\ StopAt(j)
     \/ done[j] = Targets /\ Goto(j, "finish") /\ UNCHANGED flag
  /\ UNCHANGED <<rowVars, diskVars, requestVars, queue, home, done, registered, faults, history>>

\* Mutant of Translate: the output is reported before it is written.
TranslateUnwritten(j) ==
  /\ pc[j] = "translate"
  /\ \/ MayGoOn(j) /\ Goto(j, "publish") /\ UNCHANGED flag
     \/ StopAt(j)
     \/ Goto(j, "failing") /\ UNCHANGED flag
  /\ UNCHANGED <<rowVars, diskVars, requestVars, queue, home, done, registered, faults, history>>

\* translate_segments: a result, a cancellation, or an error that ends the job.
Translate(j) ==
  /\ pc[j] = "translate"
  /\ \/ MayGoOn(j) /\ Goto(j, "write") /\ UNCHANGED flag
     \/ StopAt(j)
     \/ Goto(j, "failing") /\ UNCHANGED flag
  /\ UNCHANGED <<rowVars, diskVars, requestVars, queue, home, done, registered, faults, history>>

Write(j) ==
  /\ pc[j] = "write"
  /\ folder[j] = "whole"
  /\ written' = [written EXCEPT ![j] = done[j] + 1]
  /\ Goto(j, "publish")
  /\ UNCHANGED <<rowVars, folder, requestVars, queue, home, done, eventVars, faults, history>>

WriteError(j) ==
  /\ pc[j] = "write"
  /\ Fault("file")
  /\ Goto(j, "failing")
  /\ UNCHANGED <<rowVars, diskVars, requestVars, queue, home, done, eventVars, history>>

\* report(outputs=...): only while the row still says "processing".
Publish(j) ==
  /\ pc[j] = "publish"
  /\ DbFree(home[j])
  /\ outputs' = [outputs EXCEPT ![j] = IF status[j] = "processing" THEN done[j] + 1 ELSE @]
  /\ done' = [done EXCEPT ![j] = @ + 1]
  /\ Goto(j, "next")
  /\ UNCHANGED <<status, diskVars, requestVars, queue, home, eventVars, faults, history>>

\* Mutant of Finish: the completion is written whatever the row says.
FinishAlways(j) ==
  /\ pc[j] = "finish"
  /\ DbFree(home[j])
  /\ status' = [status EXCEPT ![j] = "completed"]
  /\ outputs' = [outputs EXCEPT ![j] = done[j]]
  /\ Goto(j, "cleanup")
  /\ UNCHANGED <<diskVars, requestVars, queue, home, done, eventVars, faults, history>>

\* processing -> completed; if the row moved meanwhile the run is abandoned.
Finish(j) ==
  /\ pc[j] = "finish"
  /\ DbFree(home[j])
  /\ IF status[j] = "processing"
       THEN /\ status' = [status EXCEPT ![j] = "completed"]
            /\ outputs' = [outputs EXCEPT ![j] = done[j]]
            /\ Goto(j, "cleanup")
       ELSE UNCHANGED rowVars /\ Goto(j, "abandon")
  /\ UNCHANGED <<diskVars, requestVars, queue, home, done, eventVars, faults, history>>

\* Mutant of Abandon: it only ends rows no cancel request has touched.
AbandonUncanceled(j) ==
  /\ pc[j] \in {"abandon", "failcancel"}
  /\ DbFree(home[j])
  /\ status' = [status EXCEPT ![j] = IF @ \in {"queued", "processing"} THEN "canceled" ELSE @]
  /\ Goto(j, "cleanup")
  /\ UNCHANGED <<outputs, diskVars, requestVars, queue, home, done, eventVars, faults, history>>

\* except TranslationCanceled, and the last statement of except Exception.
Abandon(j) ==
  /\ pc[j] \in {"abandon", "failcancel"}
  /\ DbFree(home[j])
  /\ status' = [status EXCEPT ![j] = IF @ \in Active THEN "canceled" ELSE @]
  /\ Goto(j, "cleanup")
  /\ UNCHANGED <<outputs, diskVars, requestVars, queue, home, done, eventVars, faults, history>>

\* Mutant of Fail: the handler gives up when it may not write "failed".
FailOnly(j) ==
  /\ pc[j] = "failing"
  /\ DbFree(home[j])
  /\ status' = [status EXCEPT ![j] = IF ~flag[j] /\ @ \in {"queued", "processing"}
                                     THEN "failed" ELSE @]
  /\ Goto(j, "cleanup")
  /\ UNCHANGED <<outputs, diskVars, requestVars, queue, home, done, eventVars, faults, history>>

\* except Exception: a cancel seen by this run, or one that already moved the
\* row, wins over the failure.
Fail(j) ==
  /\ pc[j] = "failing"
  /\ DbFree(home[j])
  /\ IF ~flag[j] /\ status[j] \in {"queued", "processing"}
       THEN status' = [status EXCEPT ![j] = "failed"] /\ Goto(j, "cleanup")
       ELSE status' = status /\ Goto(j, "failcancel")
  /\ UNCHANGED <<outputs, diskVars, requestVars, queue, home, done, eventVars, faults, history>>

\* Mutant of Cleanup: the event stays in the registry.
CleanupKeepsEvent(j) ==
  /\ pc[j] = "cleanup"
  /\ flag' = [flag EXCEPT ![j] = FALSE]
  /\ done' = [done EXCEPT ![j] = 0]
  /\ home' = [home EXCEPT ![j] = NoProc]
  /\ Goto(j, "ended")
  /\ UNCHANGED <<rowVars, diskVars, requestVars, queue, registered, faults, history>>

\* finally: drop the event from the registry; the call and its locals are gone.
Cleanup(j) ==
  /\ pc[j] = "cleanup"
  /\ registered' = [registered EXCEPT ![j] = FALSE]
  /\ flag' = [flag EXCEPT ![j] = FALSE]
  /\ done' = [done EXCEPT ![j] = 0]
  /\ home' = [home EXCEPT ![j] = NoProc]
  /\ Goto(j, "ended")
  /\ UNCHANGED <<rowVars, diskVars, requestVars, queue, faults, history>>

\* A statement of the try block raises; its transaction is rolled back.
DbError(j) ==
  /\ pc[j] \in {"read", "claim", "load", "next", "publish", "finish"}
  /\ Fault("database")
  /\ Goto(j, "failing")
  /\ UNCHANGED <<rowVars, diskVars, requestVars, queue, home, done, eventVars, history>>

\* A statement of an exception handler raises: run_job ends, the row stays.
HandlerDbError(j) ==
  /\ pc[j] \in Handling
  /\ Fault("database")
  /\ stranded' = IF status[j] \in Active THEN stranded \cup {j} ELSE stranded
  /\ Goto(j, "cleanup")
  /\ UNCHANGED <<rowVars, diskVars, requestVars, queue, home, done, eventVars,
                 asked, acked, leaked, deleting>>

\* The request is answered, its locals are gone.
Answer(r) == /\ op' = [op EXCEPT ![r] = "none"]
             /\ arg' = [arg EXCEPT ![r] = NoJob]

(***************************************************************************)
(* POST /api/jobs/<id>/cancel                                              *)
(***************************************************************************)
\* First UPDATE, queued -> canceled: if it matches, the call commits, answers 202.
CancelQueued(r, j) ==
  /\ op[r] = "none"
  /\ DbFree(Host[r])
  /\ HasRow(j)
  /\ asked' = asked \cup {j}
  /\ IF status[j] = "queued"
       THEN /\ status' = [status EXCEPT ![j] = "canceled"]
            /\ acked' = acked \cup {j}
            /\ UNCHANGED <<op, arg>>
       ELSE /\ op' = [op EXCEPT ![r] = "cancelRunning"]
            /\ arg' = [arg EXCEPT ![r] = j]
            /\ UNCHANGED <<status, acked>>
  /\ UNCHANGED <<outputs, diskVars, batch, staged, threadVars, eventVars, faults,
                 stranded, leaked, deleting>>

\* Second UPDATE, processing -> canceling.
CancelRunning(r) ==
  /\ op[r] = "cancelRunning"
  /\ IF status[arg[r]] = "processing"
       THEN /\ status' = [status EXCEPT ![arg[r]] = "canceling"]
            /\ op' = [op EXCEPT ![r] = "signal"]
       ELSE /\ status' = status
            /\ op' = [op EXCEPT ![r] = "cancelRead"]
  /\ UNCHANGED <<outputs, diskVars, arg, batch, staged, threadVars, eventVars, faults, history>>

\* Neither matched: the row read last decides between 202, 409 and 404.
CancelRead(r) ==
  /\ op[r] = "cancelRead"
  /\ IF status[arg[r]] = "canceling"
       THEN op' = [op EXCEPT ![r] = "signal"] /\ arg' = arg
       ELSE Answer(r)
  /\ UNCHANGED <<rowVars, diskVars, batch, staged, threadVars, eventVars, faults, history>>

\* signal_local_cancel, after the commit, then the 202.
Signal(r) ==
  /\ op[r] = "signal"
  /\ flag' = [flag EXCEPT ![arg[r]] = @ \/ (home[arg[r]] = Host[r] /\ registered[arg[r]])]
  /\ acked' = acked \cup {arg[r]}
  /\ Answer(r)
  /\ UNCHANGED <<rowVars, diskVars, batch, staged, threadVars, registered, faults,
                 asked, stranded, leaked, deleting>>

(***************************************************************************)
(* DELETE /api/jobs/<id>                                                   *)
(***************************************************************************)
\* Mutant of DeleteCheck: a job being canceled counts as ended.
DeleteCheckCanceling(r, j) ==
  /\ op[r] = "none"
  /\ DbFree(Host[r])
  /\ status[j] \in Terminal \cup {"canceling"}
  /\ op' = [op EXCEPT ![r] = "deleteFiles"]
  /\ arg' = [arg EXCEPT ![r] = j]
  /\ UNCHANGED <<rowVars, diskVars, batch, staged, threadVars, eventVars, faults, history>>

\* The scope and status check at the head of the transaction.
DeleteCheck(r, j) ==
  /\ op[r] = "none"
  /\ DbFree(Host[r])
  /\ status[j] \in Terminal
  /\ op' = [op EXCEPT ![r] = "deleteFiles"]
  /\ arg' = [arg EXCEPT ![r] = j]
  /\ UNCHANGED <<rowVars, diskVars, batch, staged, threadVars, eventVars, faults, history>>

DeleteFiles(r) ==
  /\ op[r] = "deleteFiles"
  /\ folder' = [folder EXCEPT ![arg[r]] = "absent"]
  /\ deleting' = deleting \cup {arg[r]}
  /\ op' = [op EXCEPT ![r] = "deleteRow"]
  /\ UNCHANGED <<rowVars, written, arg, batch, staged, threadVars, eventVars, faults,
                 asked, acked, stranded, leaked>>

\* rmtree raises half way: 500, the row stays and the call can be repeated.
DeleteFilesError(r) ==
  /\ op[r] = "deleteFiles"
  /\ folder[arg[r]] # "absent"
  /\ Fault("file")
  /\ folder' = [folder EXCEPT ![arg[r]] = "partial"]
  /\ deleting' = deleting \cup {arg[r]}
  /\ Answer(r)
  /\ UNCHANGED <<rowVars, written, batch, staged, threadVars, eventVars,
                 asked, acked, stranded, leaked>>

DeleteRow(r) ==
  /\ op[r] = "deleteRow"
  /\ status' = [status EXCEPT ![arg[r]] = "gone"]
  /\ registered' = [registered EXCEPT ![arg[r]] = @ /\ home[arg[r]] # Host[r]]
  /\ Answer(r)
  /\ UNCHANGED <<outputs, diskVars, batch, staged, threadVars, flag, faults, history>>

\* A statement of cancel_job or delete_job raises: its transaction is rolled
\* back and the call answers 500; a delete has removed the folder already.
RequestDbError(r) ==
  /\ op[r] \in {"cancelRunning", "cancelRead", "deleteRow"}
  /\ Fault("database")
  /\ Answer(r)
  /\ UNCHANGED <<rowVars, diskVars, batch, staged, threadVars, eventVars, history>>

(***************************************************************************)
(* Processes that die                                                      *)
(***************************************************************************)
\* What the death of the processes P takes with it: requests, queues, runs,
\* event registries.  Rows and folders stay as they are.
Kill(P) ==
  /\ op' = [r \in Request |-> IF Host[r] \in P THEN "none" ELSE op[r]]
  /\ batch' = [r \in Request |-> IF Host[r] \in P THEN {} ELSE batch[r]]
  /\ staged' = [r \in Request |-> IF Host[r] \in P THEN {} ELSE staged[r]]
  /\ queue' = [p \in Proc |-> IF p \in P THEN <<>> ELSE queue[p]]
  /\ arg' = [r \in Request |-> IF Host[r] \in P THEN NoJob ELSE arg[r]]
  /\ pc' = [j \in Job |-> IF home[j] \in P THEN "dead" ELSE pc[j]]
  /\ done' = [j \in Job |-> IF home[j] \in P THEN 0 ELSE done[j]]
  /\ home' = [j \in Job |-> IF home[j] \in P THEN NoProc ELSE home[j]]
  /\ flag' = [j \in Job |-> flag[j] /\ home[j] \notin P]
  /\ registered' = [j \in Job |-> registered[j] /\ home[j] \notin P]
  /\ leaked' = leaked \cup {j \in Job : /\ status[j] = "unborn" /\ folder[j] # "absent"
                                        /\ \E r \in Request : Host[r] \in P /\ j \in staged[r]}
  /\ UNCHANGED <<outputs, diskVars, asked, acked, deleting>>

\* A worker process dies and is replaced; the replacement recovers nothing.
Crash(p) ==
  /\ Fault("crash")
  /\ Kill({p})
  /\ stranded' = stranded \cup {j \in Job : /\ status[j] \in Active
                                            /\ \/ home[j] = p
                                               \/ \E r \in Request : Host[r] = p /\ j \in batch[r]}
  /\ UNCHANGED status

\* The whole server stops; before it serves again, every active row is ended.
Restart ==
  /\ Fault("restart")
  /\ Kill(Proc)
  /\ status' = [j \in Job |-> IF status[j] \in {"queued", "processing"} THEN "failed"
                              ELSE IF status[j] = "canceling" THEN "canceled"
                              ELSE status[j]]
  /\ stranded' = {}

(***************************************************************************)
(* Specification                                                           *)
(***************************************************************************)
\* Steps of run_job and of a request that wait for db_lock, and the others.
LockStep(j) == Claim(j) \/ Publish(j) \/ Finish(j) \/ Abandon(j) \/ Fail(j)
FreeStep(j) == ReadRow(j) \/ Load(j) \/ NextTarget(j) \/ Translate(j) \/ Write(j) \/ Cleanup(j)

RequestLockStep(r) == Commit(r) \/ Reject(r)
RequestFreeStep(r) == \/ \E j \in Job : Stage(r, j) \/ Submit(r, j)
                      \/ Unstage(r)
                      \/ CancelRunning(r) \/ CancelRead(r) \/ Signal(r)
                      \/ DeleteFiles(r) \/ DeleteRow(r)

RequestStart(r) == \/ \E B \in SUBSET Job : UploadStart(r, B)
                   \/ \E j \in Job : CancelQueued(r, j) \/ DeleteCheck(r, j)

FaultStep == \/ \E r \in Request : \/ \E j \in Job : StageError(r, j)
                                   \/ CommitError(r) \/ CommitAckLost(r) \/ DeleteFilesError(r) \/ RequestDbError(r)
             \/ \E j \in Job : WriteError(j) \/ DbError(j) \/ HandlerDbError(j)
             \/ \E p \in Proc : Crash(p)
             \/ Restart

Next == \/ \E r \in Request : RequestStart(r) \/ RequestLockStep(r) \/ RequestFreeStep(r)
        \/ \E p \in Proc, j \in Job : StartRun(p, j)
        \/ \E j \in Job : LockStep(j) \/ FreeStep(j)
        \/ FaultStep

Spec == Init /\ [][Next]_vars

\* A request and a run, once begun, are scheduled; users need not act and faults
\* need not happen.  db_lock is released again and again and a waiting thread
\* gets it some time, hence strong fairness for the steps that wait for it.  A
\* run waits for nothing else but its own provider calls, which are bounded by
\* timeouts and retry budgets.
Fairness == /\ \A r \in Request : SF_vars(RequestLockStep(r)) /\ WF_vars(RequestFreeStep(r))
            /\ \A p \in Proc : WF_vars(\E j \in Job : StartRun(p, j))
            /\ \A j \in Job : SF_vars(LockStep(j)) /\ WF_vars(FreeStep(j))

FairSpec == Spec /\ Fairness

(***************************************************************************)
(* Properties                                                              *)
(***************************************************************************)
\* Types of the variables.
TypeOK ==
  /\ status \in [Job -> Active \cup Terminal \cup {"unborn", "gone"}]
  /\ outputs \in [Job -> 0..Targets]
  /\ folder \in [Job -> {"absent", "whole", "partial"}]
  /\ written \in [Job -> 0..Targets]
  /\ op \in [Request -> {"none", "stage", "commit", "unstage", "submit", "signal"} \cup Locking]
  /\ arg \in [Request -> Job \cup {NoJob}]
  /\ batch \in [Request -> SUBSET Job]
  /\ staged \in [Request -> SUBSET Job]
  /\ queue \in [Proc -> Seq(Job)]
  /\ home \in [Job -> Proc \cup {NoProc}]
  /\ pc \in [Job -> Driven \cup OnThread \cup {"idle", "ended", "dead"}]
  /\ done \in [Job -> 0..Targets]
  /\ flag \in [Job -> BOOLEAN]
  /\ registered \in [Job -> BOOLEAN]
  /\ faults \in 0..MaxFaults
  /\ asked \subseteq Job /\ acked \subseteq Job
  /\ stranded \subseteq Job /\ leaked \subseteq Job /\ deleting \subseteq Job

\* The upload that inserted the row has not yet handed the job to the executor.
AwaitingSubmit(j) == \E r \in Request : op[r] = "submit" /\ j \in batch[r]

\* A row that says "queued", "processing" or "canceling" has a run, or a request
\* about to start one, that will end it; only a dead process, a failed write of the
\* outcome or a lost acknowledgement of the insert leaves a row nobody will finish.  This is about the early
\* returns of run_job, its exception handlers, and cancellations and deletions
\* committed by other processes between its statements.
Attended == \A j \in Job : status[j] \in Active =>
              \/ pc[j] \in Driven
              \/ AwaitingSubmit(j)
              \/ j \in stranded

\* A cancellation answered with 202 is never undone: the job does not complete or
\* fail after it, whatever its run, the other processes or a restart do.
CancelHonoured == \A j \in acked : status[j] \in {"canceling", "canceled", "gone"}

\* A run never has its files pulled from under it: from the claim to the last
\* write its folder is whole and its row is neither ended nor deleted.
RunHoldsFiles == \A j \in Job : pc[j] \in Working =>
                   folder[j] = "whole" /\ status[j] \in {"processing", "canceling"}

\* Every output a row lists is a file that was written before it was listed and
\* is still there unless a delete call began; a completed job lists them all.
OutputsOnDisk == \A j \in Job : HasRow(j) =>
                   /\ outputs[j] <= written[j]
                   /\ outputs[j] > 0 /\ j \notin deleting => folder[j] = "whole"
                   /\ status[j] = "completed" => outputs[j] = Targets

\* A folder on disk belongs to a row or to an upload in progress, unless a failed
\* save or a dead process left it; above all, a deleted row leaves no folder.
FoldersAccounted == \A j \in Job : folder[j] # "absent" =>
                      \/ HasRow(j)
                      \/ \E r \in Request : j \in staged[r]
                      \/ j \in leaked

\* The registry holds an event exactly while a run can use it: none is left
\* behind after run_job, and a cancel request served by the run's own process
\* always finds it, so the run learns of the cancel without a poll.
EventTracksRun == \A j \in Job :
                    /\ registered[j] => pc[j] \in OnThread
                    /\ status[j] \in Active /\ pc[j] \in OnThread => registered[j]

\* The service keeps the contract: rows move only as JobContract allows.
Contract == INSTANCE JobContract WITH Job <- Job, Targets <- Targets,
                                      status <- status, outputs <- outputs, asked <- asked
ImplementsContract == Contract!Spec

\* Every accepted job ends, if its process lives and its outcome can be written.
EveryJobSettles == \A j \in Job :
                     status[j] \in Active ~> (status[j] \notin Active \/ j \in stranded)
=============================================================================
