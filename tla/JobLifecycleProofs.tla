------------------------- MODULE JobLifecycleProofs -------------------------
(***************************************************************************)
(* That JobLifecycleInv!IndInv is inductive, and the theorems that follow  *)
(* from it for every number of jobs, processes, request threads, executor  *)
(* threads, target languages and faults.                                   *)
(***************************************************************************)
EXTENDS JobLifecycleInv, TLAPS

\* A step of run_job before its finally touches its own stage and row only, and never
\* makes an ended row active.
LEMMA RunStepEffect == ASSUME TypeOK, NEW j \in Job, ReadRow(j) \/ Claim(j) \/ Load(j) \/
      NextTarget(j) \/ Translate(j) \/ Write(j) \/ WriteError(j) \/ Publish(j) \/ Finish(j)
      \/ Abandon(j) \/ Fail(j) \/ DbError(j) \/ HandlerDbError(j)
      PROVE /\ pc[j] \in OnThread \ {"cleanup"} /\ pc'[j] \in OnThread
            /\ UNCHANGED <<queue, home, registered>>
            /\ status'[j] \in Active => status[j] \in Active
            /\ \A k \in Job : k # j => pc'[k] = pc[k] /\ status'[k] = status[k]
BY DEF TypeOK, ReadRow, Claim, Load, NextTarget, Translate, Write, WriteError, Publish,
     Finish, Abandon, Fail, DbError, HandlerDbError, Goto, StopAt, MayGoOn, Active,
     OnThread, Working, Handling, rowVars, threadVars, eventVars

\* Every step keeps the types; that done and the counters stay in range needs DiskInv.
LEMMA TypeOKStep == ASSUME TypeOK, DiskInv, RequestInv, [Next]_vars PROVE TypeOK'
<1>1. CASE UNCHANGED <<status, outputs, folder, written, op, arg, batch, staged, queue,
        home, pc, done, flag, registered, asked, acked, stranded, leaked, deleting, faults>>
  BY <1>1 DEF TypeOK
<1>2. ASSUME NEW r \in Request, NEW B \in SUBSET Job, UploadStart(r, B) PROVE TypeOK'
  BY <1>2 DEF TypeOK, UploadStart, Fresh, rowVars, diskVars, threadVars, eventVars, history,
       Active, Terminal, Locking, Unclaimed, Working, Handling, OnThread, Driven
<1>3. ASSUME NEW r \in Request, NEW j \in Job, Stage(r, j) PROVE TypeOK'
  BY <1>3 DEF TypeOK, Stage, rowVars, threadVars, eventVars, history, Active, Terminal,
       Locking, Unclaimed, Working, Handling, OnThread, Driven
<1>4. ASSUME NEW r \in Request, NEW j \in Job, StageError(r, j) PROVE TypeOK'
  <2>1. faults' \in 0..MaxFaults
    BY <1>4, FaultAssumption DEF TypeOK, StageError, Fault
  <2>2. folder' \in [Job -> {"absent", "whole", "partial"}] /\ leaked' \subseteq Job
    BY <1>4 DEF TypeOK, StageError
  <2>3. op' = [op EXCEPT ![r] = "unstage"]
    BY <1>4 DEF StageError
  <2>4. UNCHANGED <<rowVars, written, arg, batch, staged, threadVars, eventVars, asked,
                    acked, stranded, deleting>>
    BY <1>4 DEF StageError
  <2> QED BY <2>1, <2>2, <2>3, <2>4 DEF TypeOK, rowVars, threadVars, eventVars
<1>5. ASSUME NEW r \in Request, Commit(r) PROVE TypeOK'
  BY <1>5 DEF TypeOK, Commit, diskVars, threadVars, eventVars, history, Active, Terminal,
       Locking, Unclaimed, Working, Handling, OnThread, Driven
<1>40. ASSUME NEW r \in Request, CommitAckLost(r) PROVE TypeOK'
  BY <1>40, FaultAssumption DEF TypeOK, CommitAckLost, Fault, diskVars, threadVars,
       eventVars, Active, Terminal, Locking, Unclaimed, Working, Handling, OnThread, Driven
<1>6. ASSUME NEW r \in Request, Reject(r) PROVE TypeOK'
  BY <1>6 DEF TypeOK, Reject, rowVars, diskVars, threadVars, eventVars, history, Active,
       Terminal, Locking, Unclaimed, Working, Handling, OnThread, Driven
<1>7. ASSUME NEW r \in Request, CommitError(r) PROVE TypeOK'
  BY <1>7, FaultAssumption DEF TypeOK, CommitError, Fault, rowVars, diskVars, threadVars,
       eventVars, history, Active, Terminal, Locking, Unclaimed, Working, Handling,
       OnThread, Driven
<1>8. ASSUME NEW r \in Request, Unstage(r) PROVE TypeOK'
  BY <1>8 DEF TypeOK, Unstage, rowVars, threadVars, eventVars, history, Active, Terminal,
       Locking, Unclaimed, Working, Handling, OnThread, Driven
<1>9. ASSUME NEW r \in Request, NEW j \in Job, Submit(r, j) PROVE TypeOK'
  <2>1. queue' \in [Proc -> Seq(Job)]
    <3>1. Append(queue[Host[r]], j) \in Seq(Job)
      BY HostAssumption DEF TypeOK
    <3>2. queue' = [queue EXCEPT ![Host[r]] = Append(queue[Host[r]], j)]
      BY <1>9 DEF Submit
    <3> QED BY <3>1, <3>2 DEF TypeOK
  <2>2. home' \in [Job -> Proc \cup {NoProc}]
    BY <1>9, HostAssumption DEF TypeOK, Submit
  <2>3. pc' \in [Job -> Driven \cup OnThread \cup {"idle", "ended", "dead"}]
    BY <1>9, HostAssumption DEF TypeOK, Submit, Unclaimed, Working, Handling, OnThread, Driven
  <2>4. batch' \in [Request -> SUBSET Job]
    BY <1>9, HostAssumption DEF TypeOK, Submit
  <2>5. staged' \in [Request -> SUBSET Job]
    BY <1>9, HostAssumption DEF TypeOK, Submit
  <2>6. op' \in [Request -> {"none", "stage", "commit", "unstage", "submit", "signal"} \cup Locking]
    BY <1>9, HostAssumption DEF TypeOK, Submit, Locking
  <2>7. UNCHANGED <<rowVars, diskVars, arg, done, eventVars, faults, history>>
    BY <1>9 DEF TypeOK, Submit, rowVars, diskVars
  <2> QED BY <2>1, <2>2, <2>3, <2>4, <2>5, <2>6, <2>7 DEF TypeOK, rowVars, diskVars, eventVars, history
<1>10. ASSUME NEW p \in Proc, NEW j \in Job, StartRun(p, j) PROVE TypeOK'
  BY <1>10 DEF TypeOK, StartRun, Goto, rowVars, diskVars, requestVars, history, Active,
       Terminal, Locking, Unclaimed, Working, Handling, OnThread, Driven
<1>11. ASSUME NEW j \in Job, ReadRow(j) PROVE TypeOK'
  BY <1>11 DEF TypeOK, ReadRow, Goto, rowVars, diskVars, requestVars, history, Active,
       Terminal, Locking, Unclaimed, Working, Handling, OnThread, Driven
<1>12. ASSUME NEW j \in Job, Claim(j) PROVE TypeOK'
  <2>1. UNCHANGED <<outputs, diskVars, requestVars, queue, home, done, eventVars, faults, history>>
    BY <1>12 DEF Claim
  <2>2. status' = status \/ status' = [status EXCEPT ![j] = "processing"]
    BY <1>12 DEF Claim
  <2>3. status' \in [Job -> Active \cup Terminal \cup {"unborn", "gone"}]
    BY <2>2 DEF TypeOK, Active
  <2>4. PICK stage \in {"load", "cleanup"} : pc' = [pc EXCEPT ![j] = stage]
    BY <1>12 DEF Claim, Goto
  <2>5. pc' \in [Job -> Driven \cup OnThread \cup {"idle", "ended", "dead"}]
    BY <2>4 DEF TypeOK, OnThread, Working
  <2> QED BY <2>1, <2>3, <2>5 DEF TypeOK, diskVars, requestVars, eventVars, history
<1>13. ASSUME NEW j \in Job, Load(j) PROVE TypeOK'
  <2>1. UNCHANGED <<rowVars, diskVars, requestVars, queue, home, done, registered, faults, history>>
    BY <1>13 DEF Load
  <2>2. flag' \in [Job -> BOOLEAN]
    BY <1>13 DEF TypeOK, Load, StopAt
  <2>3. PICK stage \in Working \cup Handling : pc' = [pc EXCEPT ![j] = stage]
    BY <1>13 DEF Load, StopAt, Goto, Working, Handling
  <2>4. pc' \in [Job -> Driven \cup OnThread \cup {"idle", "ended", "dead"}]
    BY <2>3 DEF TypeOK, Driven
  <2> QED BY <2>1, <2>2, <2>4 DEF TypeOK, rowVars, diskVars, requestVars, history
<1>14. ASSUME NEW j \in Job, NextTarget(j) PROVE TypeOK'
  <2>1. UNCHANGED <<rowVars, diskVars, requestVars, queue, home, done, registered, faults, history>>
    BY <1>14 DEF NextTarget
  <2>2. flag' \in [Job -> BOOLEAN]
    BY <1>14 DEF TypeOK, NextTarget, StopAt
  <2>3. PICK stage \in Working \cup Handling : pc' = [pc EXCEPT ![j] = stage]
    BY <1>14 DEF NextTarget, StopAt, Goto, Working, Handling
  <2>4. pc' \in [Job -> Driven \cup OnThread \cup {"idle", "ended", "dead"}]
    BY <2>3 DEF TypeOK, Driven
  <2> QED BY <2>1, <2>2, <2>4 DEF TypeOK, rowVars, diskVars, requestVars, history
<1>15. ASSUME NEW j \in Job, Translate(j) PROVE TypeOK'
  <2>1. UNCHANGED <<rowVars, diskVars, requestVars, queue, home, done, registered, faults, history>>
    BY <1>15 DEF Translate
  <2>2. flag' \in [Job -> BOOLEAN]
    BY <1>15 DEF TypeOK, Translate, StopAt
  <2>3. PICK stage \in Working \cup Handling : pc' = [pc EXCEPT ![j] = stage]
    BY <1>15 DEF Translate, StopAt, Goto, Working, Handling
  <2>4. pc' \in [Job -> Driven \cup OnThread \cup {"idle", "ended", "dead"}]
    BY <2>3 DEF TypeOK, Driven
  <2> QED BY <2>1, <2>2, <2>4 DEF TypeOK, rowVars, diskVars, requestVars, history
<1>16. ASSUME NEW j \in Job, Write(j) PROVE TypeOK'
  BY <1>16, TargetsAssumption DEF TypeOK, DiskInv, Write, Goto, rowVars, requestVars,
       eventVars, history, Active, Terminal, Locking, Unclaimed, Working, Handling,
       OnThread, Driven
<1>17. ASSUME NEW j \in Job, WriteError(j) PROVE TypeOK'
  BY <1>17, FaultAssumption DEF TypeOK, WriteError, Goto, Fault, rowVars, diskVars,
       requestVars, eventVars, history, Active, Terminal, Locking, Unclaimed, Working,
       Handling, OnThread, Driven
<1>18. ASSUME NEW j \in Job, Publish(j) PROVE TypeOK'
  BY <1>18, TargetsAssumption DEF TypeOK, DiskInv, Publish, Goto, diskVars, requestVars,
       eventVars, history, Active, Terminal, Locking, Unclaimed, Working, Handling,
       OnThread, Driven
<1>19. ASSUME NEW j \in Job, Finish(j) PROVE TypeOK'
  <2>1. status' \in [Job -> Active \cup Terminal \cup {"unborn", "gone"}]
    BY <1>19 DEF TypeOK, Finish, Goto, rowVars, Active, Terminal
  <2>2. outputs' \in [Job -> 0..Targets]
    BY <1>19 DEF TypeOK, Finish, Goto, rowVars
  <2>3. pc' \in [Job -> Driven \cup OnThread \cup {"idle", "ended", "dead"}]
    <3>1. pc' = [pc EXCEPT ![j] = "cleanup"] \/ pc' = [pc EXCEPT ![j] = "abandon"]
      BY <1>19 DEF Finish, Goto
    <3> QED BY <3>1 DEF TypeOK, Unclaimed, Working, Handling, OnThread, Driven
  <2>4. UNCHANGED <<diskVars, requestVars, queue, home, done, eventVars, faults, history>>
    BY <1>19 DEF TypeOK, Finish, Goto, rowVars, rowVars
  <2> QED BY <2>1, <2>2, <2>3, <2>4 DEF TypeOK, diskVars, requestVars, eventVars, history
<1>20. ASSUME NEW j \in Job, Abandon(j) PROVE TypeOK'
  BY <1>20 DEF TypeOK, Abandon, Goto, diskVars, requestVars, eventVars, history, Active,
       Terminal, Locking, Unclaimed, Working, Handling, OnThread, Driven
<1>21. ASSUME NEW j \in Job, Fail(j) PROVE TypeOK'
  BY <1>21 DEF TypeOK, Fail, Goto, diskVars, requestVars, eventVars, history, Active,
       Terminal, Locking, Unclaimed, Working, Handling, OnThread, Driven
<1>22. ASSUME NEW j \in Job, Cleanup(j) PROVE TypeOK'
  <2>1. registered' \in [Job -> BOOLEAN]
    BY <1>22, TargetsAssumption DEF TypeOK, Cleanup, Goto
  <2>2. flag' \in [Job -> BOOLEAN]
    BY <1>22, TargetsAssumption DEF TypeOK, Cleanup, Goto
  <2>3. done' \in [Job -> 0..Targets]
    BY <1>22, TargetsAssumption DEF TypeOK, Cleanup, Goto
  <2>4. home' \in [Job -> Proc \cup {NoProc}]
    BY <1>22, TargetsAssumption DEF TypeOK, Cleanup, Goto
  <2>5. pc' \in [Job -> Driven \cup OnThread \cup {"idle", "ended", "dead"}]
    BY <1>22, TargetsAssumption DEF TypeOK, Cleanup, Goto, Unclaimed, Working, Handling,
       OnThread, Driven
  <2>6. UNCHANGED <<rowVars, diskVars, requestVars, queue, faults, history>>
    BY <1>22 DEF TypeOK, Cleanup, Goto, rowVars
  <2> QED BY <2>1, <2>2, <2>3, <2>4, <2>5, <2>6 DEF TypeOK, rowVars, diskVars, requestVars, history
<1>23. ASSUME NEW j \in Job, DbError(j) PROVE TypeOK'
  BY <1>23, FaultAssumption DEF TypeOK, DbError, Goto, Fault, rowVars, diskVars,
       requestVars, eventVars, history, Active, Terminal, Locking, Unclaimed, Working,
       Handling, OnThread, Driven
<1>24. ASSUME NEW j \in Job, HandlerDbError(j) PROVE TypeOK'
  BY <1>24, FaultAssumption DEF TypeOK, HandlerDbError, Goto, Fault, rowVars, diskVars,
       requestVars, eventVars, Active, Terminal, Locking, Unclaimed, Working, Handling,
       OnThread, Driven
<1>25. ASSUME NEW r \in Request, NEW j \in Job, CancelQueued(r, j) PROVE TypeOK'
  <2>1. UNCHANGED <<outputs, diskVars, batch, staged, threadVars, eventVars, faults, stranded,
                    leaked, deleting>>
    BY <1>25 DEF CancelQueued
  <2>2. status' = status \/ status' = [status EXCEPT ![j] = "canceled"]
    BY <1>25 DEF CancelQueued
  <2>3. status' \in [Job -> Active \cup Terminal \cup {"unborn", "gone"}]
    BY <2>2 DEF TypeOK, Terminal
  <2>4. asked' \subseteq Job /\ acked' \subseteq Job
    BY <1>25 DEF TypeOK, CancelQueued
  <2>5. \/ op' = op /\ arg' = arg
        \/ op' = [op EXCEPT ![r] = "cancelRunning"] /\ arg' = [arg EXCEPT ![r] = j]
    BY <1>25 DEF CancelQueued
  <2>6. /\ op' \in [Request -> {"none", "stage", "commit", "unstage", "submit", "signal"} \cup Locking]
        /\ arg' \in [Request -> Job \cup {NoJob}]
    BY <2>5 DEF TypeOK, Locking
  <2> QED BY <2>1, <2>3, <2>4, <2>6 DEF TypeOK, diskVars, threadVars, eventVars
<1>26. ASSUME NEW r \in Request, CancelRunning(r) PROVE TypeOK'
  BY <1>26 DEF TypeOK, RequestInv, CancelRunning, diskVars, threadVars, eventVars, history,
       Active, Terminal, Locking, Unclaimed, Working, Handling, OnThread, Driven
<1>27. ASSUME NEW r \in Request, CancelRead(r) PROVE TypeOK'
  <2>1. UNCHANGED <<rowVars, diskVars, batch, staged, threadVars, eventVars, faults, history>>
    BY <1>27 DEF CancelRead
  <2>2. \/ op' = [op EXCEPT ![r] = "signal"] /\ arg' = arg
        \/ op' = [op EXCEPT ![r] = "none"] /\ arg' = [arg EXCEPT ![r] = NoJob]
    BY <1>27 DEF CancelRead, Answer
  <2>3. /\ op' \in [Request -> {"none", "stage", "commit", "unstage", "submit", "signal"} \cup Locking]
        /\ arg' \in [Request -> Job \cup {NoJob}]
    BY <2>2 DEF TypeOK
  <2> QED BY <2>1, <2>3 DEF TypeOK, rowVars, diskVars, threadVars, eventVars, history
<1>28. ASSUME NEW r \in Request, Signal(r) PROVE TypeOK'
  BY <1>28 DEF TypeOK, RequestInv, Signal, Answer, rowVars, diskVars, threadVars, Active,
       Terminal, Locking, Unclaimed, Working, Handling, OnThread, Driven
<1>29. ASSUME NEW r \in Request, NEW j \in Job, DeleteCheck(r, j) PROVE TypeOK'
  BY <1>29 DEF TypeOK, DeleteCheck, rowVars, diskVars, threadVars, eventVars, history,
       Active, Terminal, Locking, Unclaimed, Working, Handling, OnThread, Driven
<1>30. ASSUME NEW r \in Request, DeleteFiles(r) PROVE TypeOK'
  BY <1>30 DEF TypeOK, RequestInv, DeleteFiles, rowVars, threadVars, eventVars, Active,
       Terminal, Locking, Unclaimed, Working, Handling, OnThread, Driven
<1>31. ASSUME NEW r \in Request, DeleteFilesError(r) PROVE TypeOK'
  BY <1>31, FaultAssumption DEF TypeOK, RequestInv, DeleteFilesError, Answer, Fault,
       rowVars, threadVars, eventVars, Active, Terminal, Locking, Unclaimed, Working,
       Handling, OnThread, Driven
<1>32. ASSUME NEW r \in Request, DeleteRow(r) PROVE TypeOK'
  BY <1>32 DEF TypeOK, RequestInv, DeleteRow, Answer, diskVars, threadVars, history, Active,
       Terminal, Locking, Unclaimed, Working, Handling, OnThread, Driven
<1>33. ASSUME NEW r \in Request, RequestDbError(r) PROVE TypeOK'
  BY <1>33, FaultAssumption DEF TypeOK, RequestDbError, Fault, Answer, rowVars, diskVars,
       threadVars, eventVars, history, Active, Terminal, Locking, Unclaimed, Working,
       Handling, OnThread, Driven
<1>34. ASSUME NEW p \in Proc, Crash(p) PROVE TypeOK'
  <2>1. op' \in [Request -> {"none", "stage", "commit", "unstage", "submit", "signal"} \cup Locking]
    BY <1>34, TargetsAssumption, FaultAssumption DEF TypeOK, Crash, Kill, Locking
  <2>2. batch' \in [Request -> SUBSET Job]
    BY <1>34, TargetsAssumption, FaultAssumption DEF TypeOK, Crash, Kill
  <2>3. staged' \in [Request -> SUBSET Job]
    BY <1>34, TargetsAssumption, FaultAssumption DEF TypeOK, Crash, Kill
  <2>4. arg' \in [Request -> Job \cup {NoJob}]
    BY <1>34, TargetsAssumption, FaultAssumption DEF TypeOK, Crash, Kill
  <2>5. queue' \in [Proc -> Seq(Job)]
    BY <1>34, TargetsAssumption, FaultAssumption DEF TypeOK, Crash, Kill
  <2>6. pc' \in [Job -> Driven \cup OnThread \cup {"idle", "ended", "dead"}]
    BY <1>34, TargetsAssumption, FaultAssumption DEF TypeOK, Crash, Kill, Unclaimed, Working,
       Handling, OnThread, Driven
  <2>7. done' \in [Job -> 0..Targets]
    BY <1>34, TargetsAssumption, FaultAssumption DEF TypeOK, Crash, Kill
  <2>8. home' \in [Job -> Proc \cup {NoProc}]
    BY <1>34, TargetsAssumption, FaultAssumption DEF TypeOK, Crash, Kill
  <2>9. flag' \in [Job -> BOOLEAN]
    BY <1>34, TargetsAssumption, FaultAssumption DEF TypeOK, Crash, Kill
  <2>10. registered' \in [Job -> BOOLEAN]
    BY <1>34, TargetsAssumption, FaultAssumption DEF TypeOK, Crash, Kill
  <2>11. faults' \in 0..MaxFaults
    BY <1>34, TargetsAssumption, FaultAssumption DEF TypeOK, Crash, Kill, Fault
  <2>12. UNCHANGED <<status, outputs, diskVars, asked, acked, deleting>> /\ leaked' \subseteq Job /\ stranded' \subseteq Job
    BY <1>34 DEF TypeOK, Crash, Kill, history
  <2> QED BY <2>1, <2>2, <2>3, <2>4, <2>5, <2>6, <2>7, <2>8, <2>9, <2>10, <2>11, <2>12 DEF
         TypeOK, diskVars
<1>35. ASSUME Restart PROVE TypeOK'
  <2>1. status' \in [Job -> Active \cup Terminal \cup {"unborn", "gone"}]
    BY <1>35, TargetsAssumption, FaultAssumption DEF TypeOK, Restart, Kill, Active, Terminal
  <2>2. op' \in [Request -> {"none", "stage", "commit", "unstage", "submit", "signal"} \cup Locking]
    BY <1>35, TargetsAssumption, FaultAssumption DEF TypeOK, Restart, Kill, Locking
  <2>3. batch' \in [Request -> SUBSET Job]
    BY <1>35, TargetsAssumption, FaultAssumption DEF TypeOK, Restart, Kill
  <2>4. staged' \in [Request -> SUBSET Job]
    BY <1>35, TargetsAssumption, FaultAssumption DEF TypeOK, Restart, Kill
  <2>5. arg' \in [Request -> Job \cup {NoJob}]
    BY <1>35, TargetsAssumption, FaultAssumption DEF TypeOK, Restart, Kill
  <2>6. queue' \in [Proc -> Seq(Job)]
    BY <1>35, TargetsAssumption, FaultAssumption DEF TypeOK, Restart, Kill
  <2>7. pc' \in [Job -> Driven \cup OnThread \cup {"idle", "ended", "dead"}]
    BY <1>35, TargetsAssumption, FaultAssumption DEF TypeOK, Restart, Kill, Unclaimed, Working,
       Handling, OnThread, Driven
  <2>8. done' \in [Job -> 0..Targets]
    BY <1>35, TargetsAssumption, FaultAssumption DEF TypeOK, Restart, Kill
  <2>9. home' \in [Job -> Proc \cup {NoProc}]
    BY <1>35, TargetsAssumption, FaultAssumption DEF TypeOK, Restart, Kill
  <2>10. flag' \in [Job -> BOOLEAN]
    BY <1>35, TargetsAssumption, FaultAssumption DEF TypeOK, Restart, Kill
  <2>11. registered' \in [Job -> BOOLEAN]
    BY <1>35, TargetsAssumption, FaultAssumption DEF TypeOK, Restart, Kill
  <2>12. faults' \in 0..MaxFaults
    BY <1>35, TargetsAssumption, FaultAssumption DEF TypeOK, Restart, Kill, Fault
  <2>13. UNCHANGED <<outputs, diskVars, asked, acked, deleting>> /\ leaked' \subseteq Job /\ stranded' \subseteq Job
    BY <1>35 DEF TypeOK, Restart, Kill, history
  <2> QED BY <2>1, <2>2, <2>3, <2>4, <2>5, <2>6, <2>7, <2>8, <2>9, <2>10, <2>11, <2>12,
         <2>13 DEF TypeOK, diskVars
<1>36. CASE UNCHANGED vars
  BY <1>1, <1>36 DEF vars, rowVars, diskVars, requestVars, threadVars, eventVars, history
<1> QED BY <1>40, <1>2, <1>3, <1>4, <1>5, <1>6, <1>7, <1>8, <1>9, <1>10, <1>11, <1>12, <1>13,
       <1>14, <1>15, <1>16, <1>17, <1>18, <1>19, <1>20, <1>21, <1>22, <1>23, <1>24, <1>25,
       <1>26, <1>27, <1>28, <1>29, <1>30, <1>31, <1>32, <1>33, <1>34, <1>35, <1>36 DEF Next,
       RequestStart, RequestLockStep, RequestFreeStep, LockStep, FreeStep, FaultStep

\* RunInv is kept: a run only leaves the stages before the claim with the row in hand.
LEMMA RunInvStep == ASSUME TypeOK, RunInv, UploadInv, RequestInv, QueueInv, [Next]_vars
      PROVE RunInv'
<1>1. CASE UNCHANGED <<status, outputs, pc, flag, home, asked>>
  BY <1>1 DEF RunInv
<1>2. ASSUME NEW r \in Request, Commit(r) PROVE RunInv'
  BY <1>2 DEF TypeOK, RunInv, UploadInv, Commit, diskVars, threadVars, eventVars, history,
       Active, Terminal, Unclaimed, Working, OnThread, Handling, Locking
<1>40. ASSUME NEW r \in Request, CommitAckLost(r) PROVE RunInv'
  BY <1>40 DEF TypeOK, RunInv, UploadInv, CommitAckLost, Fault, diskVars, threadVars, eventVars, history,
       Active, Terminal, Unclaimed, Working, OnThread, Handling, Locking
<1>3. ASSUME NEW r \in Request, NEW j \in Job, Submit(r, j) PROVE RunInv'
  <2>1. pc[j] = "idle" /\ status[j] \in {"queued", "canceled", "gone"}
    BY <1>3 DEF UploadInv, Submit
  <2>2. UNCHANGED <<status, outputs, flag, asked>>
    BY <1>3 DEF Submit, rowVars, eventVars, history
  <2>3. /\ pc'[j] = "waiting" /\ home'[j] \in Proc
        /\ \A k \in Job : k # j => pc'[k] = pc[k] /\ home'[k] = home[k]
    BY <1>3, HostAssumption DEF TypeOK, Submit
  <2> QED BY <2>1, <2>2, <2>3 DEF RunInv, Unclaimed, Working, Handling, OnThread
<1>4. ASSUME NEW p \in Proc, NEW j \in Job, StartRun(p, j) PROVE RunInv'
  <2>1. pc[j] = "waiting"
    BY <1>4 DEF QueueInv, StartRun, QueueOk, TypeOK
  <2> QED BY <1>4, <2>1 DEF TypeOK, RunInv, StartRun, Goto, rowVars, diskVars, requestVars,
         history, Active, Terminal, Unclaimed, Working, OnThread, Handling, Locking
<1>5. ASSUME NEW j \in Job, ReadRow(j) PROVE RunInv'
  BY <1>5 DEF TypeOK, RunInv, ReadRow, Goto, rowVars, diskVars, requestVars, history,
       Active, Terminal, Unclaimed, Working, OnThread, Handling, Locking
<1>6. ASSUME NEW j \in Job, Claim(j) PROVE RunInv'
  BY <1>6 DEF TypeOK, RunInv, Claim, Goto, diskVars, requestVars, eventVars, history,
       Active, Terminal, Unclaimed, Working, OnThread, Handling, Locking
<1>7. ASSUME NEW j \in Job, Load(j) PROVE RunInv'
  BY <1>7 DEF TypeOK, RunInv, Load, Goto, MayGoOn, StopSeen, StopAt, rowVars, diskVars, requestVars,
       history, Active, Terminal, Unclaimed, Working, OnThread, Handling, Locking
<1>8. ASSUME NEW j \in Job, NextTarget(j) PROVE RunInv'
  BY <1>8 DEF TypeOK, RunInv, NextTarget, Goto, MayGoOn, StopSeen, StopAt, rowVars,
       diskVars, requestVars, history, Active, Terminal, Unclaimed, Working, OnThread,
       Handling, Locking
<1>9. ASSUME NEW j \in Job, Translate(j) PROVE RunInv'
  BY <1>9 DEF TypeOK, RunInv, Translate, Goto, MayGoOn, StopSeen, StopAt, rowVars, diskVars,
       requestVars, history, Active, Terminal, Unclaimed, Working, OnThread, Handling,
       Locking
<1>10. ASSUME NEW j \in Job, Write(j) PROVE RunInv'
  BY <1>10 DEF TypeOK, RunInv, Write, Goto, rowVars, requestVars, eventVars, history,
       Active, Terminal, Unclaimed, Working, OnThread, Handling, Locking
<1>11. ASSUME NEW j \in Job, WriteError(j) PROVE RunInv'
  BY <1>11 DEF TypeOK, RunInv, WriteError, Goto, rowVars, diskVars, requestVars, eventVars,
       history, Active, Terminal, Unclaimed, Working, OnThread, Handling, Locking
<1>12. ASSUME NEW j \in Job, Publish(j) PROVE RunInv'
  BY <1>12 DEF TypeOK, RunInv, Publish, Goto, diskVars, requestVars, eventVars, history,
       Active, Terminal, Unclaimed, Working, OnThread, Handling, Locking
<1>13. ASSUME NEW j \in Job, Finish(j) PROVE RunInv'
  BY <1>13 DEF TypeOK, RunInv, Finish, Goto, rowVars, diskVars, requestVars, eventVars,
       history, Active, Terminal, Unclaimed, Working, OnThread, Handling, Locking
<1>14. ASSUME NEW j \in Job, Abandon(j) PROVE RunInv'
  BY <1>14 DEF TypeOK, RunInv, Abandon, Goto, diskVars, requestVars, eventVars, history,
       Active, Terminal, Unclaimed, Working, OnThread, Handling, Locking
<1>15. ASSUME NEW j \in Job, Fail(j) PROVE RunInv'
  BY <1>15 DEF TypeOK, RunInv, Fail, Goto, diskVars, requestVars, eventVars, history,
       Active, Terminal, Unclaimed, Working, OnThread, Handling, Locking
<1>16. ASSUME NEW j \in Job, Cleanup(j) PROVE RunInv'
  BY <1>16 DEF TypeOK, RunInv, Cleanup, Goto, rowVars, diskVars, requestVars, history,
       Active, Terminal, Unclaimed, Working, OnThread, Handling, Locking
<1>17. ASSUME NEW j \in Job, DbError(j) PROVE RunInv'
  BY <1>17 DEF TypeOK, RunInv, DbError, Goto, rowVars, diskVars, requestVars, eventVars,
       history, Active, Terminal, Unclaimed, Working, OnThread, Handling, Locking
<1>18. ASSUME NEW j \in Job, HandlerDbError(j) PROVE RunInv'
  BY <1>18 DEF TypeOK, RunInv, HandlerDbError, Goto, rowVars, diskVars, requestVars,
       eventVars, Active, Terminal, Unclaimed, Working, OnThread, Handling, Locking
<1>19. ASSUME NEW r \in Request, NEW j \in Job, CancelQueued(r, j) PROVE RunInv'
  BY <1>19 DEF TypeOK, RunInv, CancelQueued, HasRow, diskVars, threadVars, eventVars,
       Active, Terminal, Unclaimed, Working, OnThread, Handling, Locking
<1>20. ASSUME NEW r \in Request, CancelRunning(r) PROVE RunInv'
  BY <1>20 DEF TypeOK, RunInv, RequestInv, CancelRunning, diskVars, threadVars, eventVars,
       history, Active, Terminal, Unclaimed, Working, OnThread, Handling, Locking
<1>21. ASSUME NEW r \in Request, Signal(r) PROVE RunInv'
  <2>1. status[arg[r]] \in {"canceling", "canceled", "gone"}
    BY <1>21 DEF RequestInv, Signal
  <2>2. \A k \in Job : flag'[k] => flag[k] \/ (k = arg[r] /\ home[k] \in Proc)
    BY <1>21, HostAssumption DEF TypeOK, Signal
  <2>3. UNCHANGED <<status, outputs, pc, home, asked>>
    BY <1>21 DEF Signal, rowVars, threadVars
  <2> QED BY <2>1, <2>2, <2>3, ProcAssumption DEF RunInv
<1>22. ASSUME NEW r \in Request, DeleteRow(r) PROVE RunInv'
  <2>1. arg[r] \in Job /\ status[arg[r]] \in Terminal \cup {"gone"}
    BY <1>22 DEF RequestInv, DeleteRow, Locking
  <2>2. UNCHANGED <<outputs, pc, flag, home, asked>>
    BY <1>22 DEF DeleteRow, threadVars, history
  <2>3. \A k \in Job : status'[k] = IF k = arg[r] THEN "gone" ELSE status[k]
    BY <1>22 DEF TypeOK, DeleteRow
  <2> QED BY <2>1, <2>2, <2>3 DEF RunInv, Terminal, Unclaimed
<1>23. ASSUME NEW p \in Proc, Crash(p) PROVE RunInv'
  BY <1>23, ProcAssumption DEF TypeOK, RunInv, Crash, Kill, diskVars, Active, Terminal,
       Unclaimed, Working, OnThread, Handling, Locking
<1>24. ASSUME Restart PROVE RunInv'
  BY <1>24, ProcAssumption DEF TypeOK, RunInv, Restart, Kill, diskVars, Active, Terminal,
       Unclaimed, Working, OnThread, Handling, Locking
<1>25. ASSUME NEW r \in Request, NEW B \in SUBSET Job, UploadStart(r, B) PROVE RunInv'
  BY <1>1, <1>25 DEF UploadStart, Fresh, rowVars, diskVars, threadVars, eventVars, history
<1>26. ASSUME NEW r \in Request, NEW j \in Job, Stage(r, j) \/ StageError(r, j) \/
        DeleteCheck(r, j) PROVE RunInv'
  BY <1>1, <1>26 DEF Stage, StageError, DeleteCheck, rowVars, diskVars, threadVars,
       eventVars, history
<1>27. ASSUME NEW r \in Request, Reject(r) \/ CommitError(r) \/ Unstage(r) \/ CancelRead(r)
        \/ DeleteFiles(r) \/ DeleteFilesError(r) \/ RequestDbError(r) PROVE RunInv'
  BY <1>1, <1>27 DEF Reject, CommitError, Unstage, CancelRead, DeleteFiles,
       DeleteFilesError, RequestDbError, Answer, rowVars, diskVars, threadVars, eventVars,
       history
<1>28. CASE UNCHANGED vars
  BY <1>1, <1>28 DEF vars, rowVars, threadVars, eventVars, history
<1> QED BY <1>40, <1>2, <1>3, <1>4, <1>5, <1>6, <1>7, <1>8, <1>9, <1>10, <1>11, <1>12, <1>13,
       <1>14, <1>15, <1>16, <1>17, <1>18, <1>19, <1>20, <1>21, <1>22, <1>23, <1>24, <1>25,
       <1>26, <1>27, <1>28 DEF Next, RequestStart, RequestLockStep, RequestFreeStep,
       LockStep, FreeStep, FaultStep

\* DiskInv is kept: the counters of the loop and the row's output list move together.
LEMMA DiskInvStep == ASSUME TypeOK, RunInv, DiskInv, UploadInv, RequestInv, QueueInv,
      [Next]_vars PROVE DiskInv'
<1>1. CASE UNCHANGED <<status, outputs, folder, written, pc, done, stranded>>
  BY <1>1 DEF DiskInv
<1>2. ASSUME NEW r \in Request, NEW j \in Job, Stage(r, j) PROVE DiskInv'
  <2>1. status[j] = "unborn" /\ pc[j] = "idle"
    BY <1>2 DEF UploadInv, Stage
  <2> QED BY <1>2, <2>1 DEF TypeOK, RunInv, DiskInv, Stage, rowVars, threadVars, eventVars,
         history, Active, Terminal, Unclaimed, Working, OnThread, Handling, Locking
<1>3. ASSUME NEW r \in Request, NEW j \in Job, StageError(r, j) PROVE DiskInv'
  <2>1. status[j] = "unborn" /\ pc[j] = "idle"
    BY <1>3 DEF UploadInv, StageError
  <2> QED BY <1>3, <2>1 DEF TypeOK, RunInv, DiskInv, StageError, rowVars, threadVars,
         eventVars, Active, Terminal, Unclaimed, Working, OnThread, Handling, Locking
<1>4. ASSUME NEW r \in Request, Commit(r) PROVE DiskInv'
  <2>1. /\ op[r] = "commit"
        /\ status' = [j \in Job |-> IF j \in batch[r] THEN "queued" ELSE status[j]]
        /\ UNCHANGED <<outputs, folder, written, pc, done, stranded>>
    BY <1>4 DEF Commit, diskVars, threadVars, history
  <2>2. \A j \in batch[r] : status[j] = "unborn" /\ pc[j] = "idle" /\ folder[j] = "whole"
    BY <2>1 DEF UploadInv
  <2> QED BY <2>1, <2>2 DEF TypeOK, DiskInv, Active, Unclaimed, Working
<1>40. ASSUME NEW r \in Request, CommitAckLost(r) PROVE DiskInv'
  <2>1. /\ op[r] = "commit" /\ op' = [op EXCEPT ![r] = "unstage"]
        /\ status' = [j \in Job |-> IF j \in batch[r] THEN "queued" ELSE status[j]]
        /\ stranded' = stranded \cup batch[r]
        /\ UNCHANGED <<outputs, folder, written, pc, done>>
    BY <1>40 DEF CommitAckLost, diskVars, threadVars, eventVars
  <2>2. \A j \in batch[r] : status[j] = "unborn" /\ pc[j] = "idle"
    BY <2>1 DEF UploadInv
  <2> QED BY <2>1, <2>2 DEF TypeOK, DiskInv, Active, Unclaimed, Working
<1>5. ASSUME NEW r \in Request, Unstage(r) PROVE DiskInv'
  <2>1. UNCHANGED <<status, outputs, written, pc, done, stranded>>
    BY <1>5 DEF Unstage, rowVars, threadVars, history
  <2>2. \A j \in Job : \/ folder'[j] = folder[j]
                       \/ /\ folder'[j] = "absent" /\ pc[j] = "idle"
                          /\ status[j] \in Active => j \in stranded
    BY <1>5 DEF TypeOK, UploadInv, Unstage, Active
  <2> QED BY <2>1, <2>2 DEF DiskInv
<1>6. ASSUME NEW r \in Request, NEW j \in Job, Submit(r, j) PROVE DiskInv'
  <2>1. /\ pc[j] = "idle"
        /\ status[j] \in Active => folder[j] = "whole"
        /\ UNCHANGED <<status, outputs, folder, written, done, stranded>>
    BY <1>6 DEF UploadInv, Submit, rowVars, diskVars, history
  <2>2. pc' = [pc EXCEPT ![j] = "waiting"]
    BY <1>6 DEF Submit
  <2> QED BY <2>1, <2>2 DEF TypeOK, DiskInv, Unclaimed, Working
<1>7. ASSUME NEW p \in Proc, NEW j \in Job, StartRun(p, j) PROVE DiskInv'
  <2>1. pc[j] = "waiting"
    BY <1>7 DEF QueueInv, StartRun, QueueOk, TypeOK
  <2>2. pc' = [pc EXCEPT ![j] = "read"]
    BY <1>7 DEF StartRun, Goto
  <2>3. UNCHANGED <<status, outputs, folder, written, done, stranded>>
    BY <1>7 DEF StartRun, rowVars, diskVars, history
  <2> QED BY <2>1, <2>2, <2>3 DEF TypeOK, DiskInv, Unclaimed, Working
<1>8. ASSUME NEW j \in Job, ReadRow(j) PROVE DiskInv'
  BY <1>8 DEF TypeOK, RunInv, DiskInv, ReadRow, Goto, rowVars, diskVars, requestVars,
       history, Active, Terminal, Unclaimed, Working, OnThread, Handling, Locking
<1>9. ASSUME NEW j \in Job, Claim(j) PROVE DiskInv'
  BY <1>9, TargetsAssumption DEF TypeOK, RunInv, DiskInv, Claim, Goto, diskVars,
       requestVars, eventVars, history, Active, Terminal, Unclaimed, Working, OnThread,
       Handling, Locking
<1>10. ASSUME NEW j \in Job, Load(j) PROVE DiskInv'
  BY <1>10 DEF TypeOK, RunInv, DiskInv, Load, Goto, MayGoOn, StopSeen, StopAt, rowVars, diskVars,
       requestVars, history, Active, Terminal, Unclaimed, Working, OnThread, Handling,
       Locking
<1>11. ASSUME NEW j \in Job, NextTarget(j) PROVE DiskInv'
  BY <1>11, TargetsAssumption DEF TypeOK, RunInv, DiskInv, NextTarget, Goto, MayGoOn,
       StopSeen, StopAt, rowVars, diskVars, requestVars, history, Active, Terminal,
       Unclaimed, Working, OnThread, Handling, Locking
<1>12. ASSUME NEW j \in Job, Translate(j) PROVE DiskInv'
  BY <1>12 DEF TypeOK, RunInv, DiskInv, Translate, Goto, MayGoOn, StopSeen, StopAt, rowVars,
       diskVars, requestVars, history, Active, Terminal, Unclaimed, Working, OnThread,
       Handling, Locking
<1>13. ASSUME NEW j \in Job, Write(j) PROVE DiskInv'
  BY <1>13, TargetsAssumption DEF TypeOK, RunInv, DiskInv, Write, Goto, rowVars,
       requestVars, eventVars, history, Active, Terminal, Unclaimed, Working, OnThread,
       Handling, Locking
<1>14. ASSUME NEW j \in Job, WriteError(j) PROVE DiskInv'
  BY <1>14 DEF TypeOK, RunInv, DiskInv, WriteError, Goto, rowVars, diskVars, requestVars,
       eventVars, history, Active, Terminal, Unclaimed, Working, OnThread, Handling, Locking
<1>15. ASSUME NEW j \in Job, Publish(j) PROVE DiskInv'
  BY <1>15, TargetsAssumption DEF TypeOK, RunInv, DiskInv, Publish, Goto, diskVars,
       requestVars, eventVars, history, Active, Terminal, Unclaimed, Working, OnThread,
       Handling, Locking
<1>16. ASSUME NEW j \in Job, Finish(j) PROVE DiskInv'
  BY <1>16, TargetsAssumption DEF TypeOK, RunInv, DiskInv, Finish, Goto, rowVars, diskVars,
       requestVars, eventVars, history, Active, Terminal, Unclaimed, Working, OnThread,
       Handling, Locking
<1>17. ASSUME NEW j \in Job, Abandon(j) PROVE DiskInv'
  BY <1>17 DEF TypeOK, RunInv, DiskInv, Abandon, Goto, diskVars, requestVars, eventVars,
       history, Active, Terminal, Unclaimed, Working, OnThread, Handling, Locking
<1>18. ASSUME NEW j \in Job, Fail(j) PROVE DiskInv'
  BY <1>18 DEF TypeOK, RunInv, DiskInv, Fail, Goto, diskVars, requestVars, eventVars,
       history, Active, Terminal, Unclaimed, Working, OnThread, Handling, Locking
<1>19. ASSUME NEW j \in Job, Cleanup(j) PROVE DiskInv'
  BY <1>19 DEF TypeOK, RunInv, DiskInv, Cleanup, Goto, rowVars, diskVars, requestVars,
       history, Active, Terminal, Unclaimed, Working, OnThread, Handling, Locking
<1>20. ASSUME NEW j \in Job, DbError(j) PROVE DiskInv'
  BY <1>20 DEF TypeOK, RunInv, DiskInv, DbError, Goto, rowVars, diskVars, requestVars,
       eventVars, history, Active, Terminal, Unclaimed, Working, OnThread, Handling, Locking
<1>21. ASSUME NEW j \in Job, HandlerDbError(j) PROVE DiskInv'
  BY <1>21 DEF TypeOK, RunInv, DiskInv, HandlerDbError, Goto, rowVars, diskVars,
       requestVars, eventVars, Active, Terminal, Unclaimed, Working, OnThread, Handling,
       Locking
<1>22. ASSUME NEW r \in Request, NEW j \in Job, CancelQueued(r, j) PROVE DiskInv'
  BY <1>22 DEF TypeOK, RunInv, DiskInv, CancelQueued, HasRow, diskVars, threadVars,
       eventVars, Active, Terminal, Unclaimed, Working, OnThread, Handling, Locking
<1>23. ASSUME NEW r \in Request, CancelRunning(r) PROVE DiskInv'
  BY <1>23 DEF TypeOK, RunInv, DiskInv, RequestInv, CancelRunning, diskVars, threadVars,
       eventVars, history, Active, Terminal, Unclaimed, Working, OnThread, Handling, Locking
<1>24. ASSUME NEW r \in Request, DeleteFiles(r) PROVE DiskInv'
  <2>1. arg[r] \in Job /\ status[arg[r]] \in Terminal \cup {"gone"}
    BY <1>24 DEF RequestInv, DeleteFiles, Locking
  <2> QED BY <1>24, <2>1 DEF TypeOK, RunInv, DiskInv, DeleteFiles, rowVars, threadVars,
         eventVars, Active, Terminal, Unclaimed, Working, OnThread, Handling, Locking
<1>25. ASSUME NEW r \in Request, DeleteFilesError(r) PROVE DiskInv'
  <2>1. arg[r] \in Job /\ status[arg[r]] \in Terminal \cup {"gone"}
    BY <1>25 DEF RequestInv, DeleteFilesError, Locking
  <2> QED BY <1>25, <2>1 DEF TypeOK, RunInv, DiskInv, DeleteFilesError, Answer, rowVars,
         threadVars, eventVars, Active, Terminal, Unclaimed, Working, OnThread, Handling,
         Locking
<1>26. ASSUME NEW r \in Request, DeleteRow(r) PROVE DiskInv'
  BY <1>26 DEF TypeOK, RunInv, DiskInv, RequestInv, DeleteRow, Answer, diskVars, threadVars,
       history, Active, Terminal, Unclaimed, Working, OnThread, Handling, Locking
<1>27. ASSUME NEW p \in Proc, Crash(p) PROVE DiskInv'
  <2>1. UNCHANGED <<status, outputs, folder, written>> /\ stranded \subseteq stranded'
    BY <1>27 DEF Crash, Kill, diskVars
  <2>2. \A j \in Job : \/ home[j] = p /\ pc'[j] = "dead"
                       \/ home[j] # p /\ pc'[j] = pc[j] /\ done'[j] = done[j]
    BY <1>27 DEF Crash, Kill
  <2>3. \A j \in Job : pc[j] = "idle" => home[j] # p
    BY ProcAssumption DEF RunInv
  <2> QED BY <2>1, <2>2, <2>3 DEF DiskInv, Unclaimed, Working
<1>28. ASSUME Restart PROVE DiskInv'
  BY <1>28 DEF TypeOK, RunInv, DiskInv, Restart, Kill, diskVars, Active, Terminal,
       Unclaimed, Working, OnThread, Handling, Locking
<1>29. ASSUME NEW r \in Request, NEW B \in SUBSET Job, UploadStart(r, B) PROVE DiskInv'
  BY <1>1, <1>29 DEF UploadStart, Fresh, rowVars, diskVars, threadVars, eventVars, history
<1>30. ASSUME NEW r \in Request, Reject(r) \/ CommitError(r) \/ CancelRead(r) \/ Signal(r)
        \/ RequestDbError(r) PROVE DiskInv'
  BY <1>1, <1>30 DEF Reject, CommitError, CancelRead, Signal, RequestDbError, Answer,
       rowVars, diskVars, threadVars, eventVars, history
<1>31. ASSUME NEW r \in Request, NEW j \in Job, DeleteCheck(r, j) PROVE DiskInv'
  BY <1>1, <1>31 DEF DeleteCheck, rowVars, diskVars, threadVars, eventVars, history
<1>32. CASE UNCHANGED vars
  BY <1>1, <1>32 DEF vars, rowVars, diskVars, threadVars, history
<1> QED BY <1>40, <1>2, <1>3, <1>4, <1>5, <1>6, <1>7, <1>8, <1>9, <1>10, <1>11, <1>12, <1>13,
       <1>14, <1>15, <1>16, <1>17, <1>18, <1>19, <1>20, <1>21, <1>22, <1>23, <1>24, <1>25,
       <1>26, <1>27, <1>28, <1>29, <1>30, <1>31, <1>32 DEF Next, RequestStart,
       RequestLockStep, RequestFreeStep, LockStep, FreeStep, FaultStep

\* UploadInv is kept: uuids are not reused, and nothing but the upload touches its jobs.
LEMMA UploadInvStep == ASSUME TypeOK, RunInv, UploadInv, RequestInv, QueueInv, [Next]_vars
      PROVE UploadInv'
<1>1. CASE UNCHANGED <<batch, staged, op, pc, status, folder, stranded>>
  BY <1>1 DEF UploadInv
<1>2. ASSUME NEW r \in Request, NEW B \in SUBSET Job, UploadStart(r, B) PROVE UploadInv'
  BY <1>2 DEF TypeOK, UploadInv, RunInv, UploadStart, Fresh, rowVars, diskVars, threadVars,
       eventVars, history, Active, Terminal, Handling, Locking
<1>3. ASSUME NEW r \in Request, NEW j \in Job, Stage(r, j) PROVE UploadInv'
  BY <1>3 DEF TypeOK, UploadInv, Stage, rowVars, threadVars, eventVars, history, Active,
       Terminal, Handling, Locking
<1>4. ASSUME NEW r \in Request, NEW j \in Job, StageError(r, j) PROVE UploadInv'
  BY <1>4 DEF TypeOK, UploadInv, StageError, rowVars, threadVars, eventVars, Active,
       Terminal, Handling, Locking
<1>5. ASSUME NEW r \in Request, Commit(r) PROVE UploadInv'
  BY <1>5 DEF TypeOK, UploadInv, Commit, diskVars, threadVars, eventVars, history, Active,
       Terminal, Handling, Locking
<1>40. ASSUME NEW r \in Request, CommitAckLost(r) PROVE UploadInv'
  <2>1. /\ op[r] = "commit" /\ op' = [op EXCEPT ![r] = "unstage"]
        /\ status' = [j \in Job |-> IF j \in batch[r] THEN "queued" ELSE status[j]]
        /\ stranded' = stranded \cup batch[r]
        /\ UNCHANGED <<batch, staged, pc, folder>>
    BY <1>40 DEF CommitAckLost, diskVars, threadVars, eventVars
  <2> QED BY <2>1 DEF TypeOK, UploadInv, Locking, Active
<1>6. ASSUME NEW r \in Request, Reject(r) PROVE UploadInv'
  BY <1>6 DEF TypeOK, UploadInv, Reject, rowVars, diskVars, threadVars, eventVars, history,
       Active, Terminal, Handling, Locking
<1>7. ASSUME NEW r \in Request, CommitError(r) PROVE UploadInv'
  BY <1>7 DEF TypeOK, UploadInv, CommitError, rowVars, diskVars, threadVars, eventVars,
       history, Active, Terminal, Handling, Locking
<1>8. ASSUME NEW r \in Request, Unstage(r) PROVE UploadInv'
  BY <1>8 DEF TypeOK, UploadInv, Unstage, rowVars, threadVars, eventVars, history, Active,
       Terminal, Handling, Locking
<1>9. ASSUME NEW r \in Request, NEW j \in Job, Submit(r, j) PROVE UploadInv'
  BY <1>9 DEF TypeOK, UploadInv, Submit, rowVars, diskVars, eventVars, history, Active,
       Terminal, Handling, Locking
<1>10. ASSUME NEW p \in Proc, NEW j \in Job, StartRun(p, j) PROVE UploadInv'
  <2>1. pc[j] = "waiting"
    BY <1>10 DEF QueueInv, StartRun, QueueOk, TypeOK
  <2> QED BY <1>10, <2>1 DEF TypeOK, UploadInv, StartRun, Goto, rowVars, diskVars,
         requestVars, history, Active, Terminal, Handling, Locking
<1>11. ASSUME NEW j \in Job, ReadRow(j) PROVE UploadInv'
  BY <1>11 DEF TypeOK, UploadInv, ReadRow, Goto, rowVars, diskVars, requestVars, history,
       Active, Terminal, Handling, Locking
<1>12. ASSUME NEW j \in Job, Claim(j) PROVE UploadInv'
  BY <1>12 DEF TypeOK, UploadInv, Claim, Goto, diskVars, requestVars, eventVars, history,
       Active, Terminal, Handling, Locking
<1>13. ASSUME NEW j \in Job, Load(j) PROVE UploadInv'
  BY <1>13 DEF TypeOK, UploadInv, Load, Goto, MayGoOn, StopSeen, StopAt, rowVars, diskVars,
       requestVars, history, Active, Terminal, Handling, Locking
<1>14. ASSUME NEW j \in Job, NextTarget(j) PROVE UploadInv'
  BY <1>14 DEF TypeOK, UploadInv, NextTarget, Goto, MayGoOn, StopSeen, StopAt, rowVars,
       diskVars, requestVars, history, Active, Terminal, Handling, Locking
<1>15. ASSUME NEW j \in Job, Translate(j) PROVE UploadInv'
  BY <1>15 DEF TypeOK, UploadInv, Translate, Goto, MayGoOn, StopSeen, StopAt, rowVars,
       diskVars, requestVars, history, Active, Terminal, Handling, Locking
<1>16. ASSUME NEW j \in Job, Write(j) PROVE UploadInv'
  BY <1>16 DEF TypeOK, UploadInv, Write, Goto, rowVars, requestVars, eventVars, history,
       Active, Terminal, Handling, Locking
<1>17. ASSUME NEW j \in Job, WriteError(j) PROVE UploadInv'
  BY <1>17 DEF TypeOK, UploadInv, WriteError, Goto, rowVars, diskVars, requestVars,
       eventVars, history, Active, Terminal, Handling, Locking
<1>18. ASSUME NEW j \in Job, Publish(j) PROVE UploadInv'
  BY <1>18 DEF TypeOK, UploadInv, Publish, Goto, diskVars, requestVars, eventVars, history,
       Active, Terminal, Handling, Locking
<1>19. ASSUME NEW j \in Job, Finish(j) PROVE UploadInv'
  BY <1>19 DEF TypeOK, UploadInv, Finish, Goto, rowVars, diskVars, requestVars, eventVars,
       history, Active, Terminal, Handling, Locking
<1>20. ASSUME NEW j \in Job, Abandon(j) PROVE UploadInv'
  BY <1>20 DEF TypeOK, UploadInv, Abandon, Goto, diskVars, requestVars, eventVars, history,
       Active, Terminal, Handling, Locking
<1>21. ASSUME NEW j \in Job, Fail(j) PROVE UploadInv'
  BY <1>21 DEF TypeOK, UploadInv, Fail, Goto, diskVars, requestVars, eventVars, history,
       Active, Terminal, Handling, Locking
<1>22. ASSUME NEW j \in Job, Cleanup(j) PROVE UploadInv'
  BY <1>22 DEF TypeOK, UploadInv, Cleanup, Goto, rowVars, diskVars, requestVars, history,
       Active, Terminal, Handling, Locking
<1>23. ASSUME NEW j \in Job, DbError(j) PROVE UploadInv'
  BY <1>23 DEF TypeOK, UploadInv, DbError, Goto, rowVars, diskVars, requestVars, eventVars,
       history, Active, Terminal, Handling, Locking
<1>24. ASSUME NEW j \in Job, HandlerDbError(j) PROVE UploadInv'
  BY <1>24 DEF TypeOK, UploadInv, HandlerDbError, Goto, rowVars, diskVars, requestVars,
       eventVars, Active, Terminal, Handling, Locking
<1>25. ASSUME NEW r \in Request, NEW j \in Job, CancelQueued(r, j) PROVE UploadInv'
  <2>1. \A k \in Job : status'[k] = status[k] \/ (status[k] = "queued" /\ status'[k] = "canceled")
    BY <1>25 DEF TypeOK, CancelQueued
  <2>2. \A q \in Request : op'[q] = op[q] \/ (op[q] = "none" /\ op'[q] = "cancelRunning")
    BY <1>25 DEF TypeOK, CancelQueued
  <2>3. UNCHANGED <<batch, staged, pc, folder, stranded>>
    BY <1>25 DEF CancelQueued, diskVars, threadVars
  <2> QED BY <2>1, <2>2, <2>3 DEF TypeOK, UploadInv, Locking, Active
<1>26. ASSUME NEW r \in Request, CancelRunning(r) PROVE UploadInv'
  <2>1. arg[r] \in Job /\ batch[r] = {}
    BY <1>26 DEF RequestInv, UploadInv, CancelRunning, Locking
  <2>2. UNCHANGED <<batch, staged, pc, folder, stranded>>
    BY <1>26 DEF CancelRunning, diskVars, threadVars, history
  <2>3. CASE status[arg[r]] = "processing"
    <3>1. status' = [status EXCEPT ![arg[r]] = "canceling"] /\ op' = [op EXCEPT ![r] = "signal"]
      BY <1>26, <2>3 DEF CancelRunning
    <3> QED BY <2>1, <2>2, <2>3, <3>1 DEF TypeOK, UploadInv, Locking, Active
  <2>4. CASE status[arg[r]] # "processing"
    <3>1. status' = status /\ op' = [op EXCEPT ![r] = "cancelRead"]
      BY <1>26, <2>4 DEF CancelRunning
    <3> QED BY <2>1, <2>2, <3>1 DEF TypeOK, UploadInv, Locking, Active
  <2> QED BY <2>3, <2>4
<1>27. ASSUME NEW r \in Request, CancelRead(r) PROVE UploadInv'
  BY <1>27 DEF TypeOK, UploadInv, CancelRead, Answer, rowVars, diskVars, threadVars,
       eventVars, history, Active, Terminal, Handling, Locking
<1>28. ASSUME NEW r \in Request, Signal(r) PROVE UploadInv'
  BY <1>28 DEF TypeOK, UploadInv, Signal, Answer, rowVars, diskVars, threadVars, Active,
       Terminal, Handling, Locking
<1>29. ASSUME NEW r \in Request, NEW j \in Job, DeleteCheck(r, j) PROVE UploadInv'
  BY <1>29 DEF TypeOK, UploadInv, DeleteCheck, rowVars, diskVars, threadVars, eventVars,
       history, Active, Terminal, Handling, Locking
<1>30. ASSUME NEW r \in Request, DeleteFiles(r) PROVE UploadInv'
  <2>1. arg[r] \in Job /\ status[arg[r]] \in Terminal \cup {"gone"}
    BY <1>30 DEF RequestInv, DeleteFiles, Locking
  <2> QED BY <1>30, <2>1 DEF TypeOK, UploadInv, DeleteFiles, rowVars, threadVars, eventVars,
         Active, Terminal, Handling, Locking
<1>31. ASSUME NEW r \in Request, DeleteFilesError(r) PROVE UploadInv'
  <2>1. arg[r] \in Job /\ status[arg[r]] \in Terminal \cup {"gone"}
    BY <1>31 DEF RequestInv, DeleteFilesError, Locking
  <2> QED BY <1>31, <2>1 DEF TypeOK, UploadInv, DeleteFilesError, Answer, rowVars,
         threadVars, eventVars, Active, Terminal, Handling, Locking
<1>32. ASSUME NEW r \in Request, DeleteRow(r) PROVE UploadInv'
  <2>1. arg[r] \in Job /\ status[arg[r]] \in Terminal \cup {"gone"}
    BY <1>32 DEF RequestInv, DeleteRow, Locking
  <2> QED BY <1>32, <2>1 DEF TypeOK, UploadInv, DeleteRow, Answer, diskVars, threadVars,
         history, Active, Terminal, Handling, Locking
<1>33. ASSUME NEW r \in Request, RequestDbError(r) PROVE UploadInv'
  BY <1>33 DEF TypeOK, UploadInv, RequestDbError, Answer, rowVars, diskVars, threadVars,
       eventVars, history, Active, Terminal, Handling, Locking
<1>34. ASSUME NEW p \in Proc, Crash(p) PROVE UploadInv'
  BY <1>34, ProcAssumption DEF TypeOK, UploadInv, RunInv, Crash, Kill, diskVars, Active,
       Terminal, Handling, Locking
<1>35. ASSUME Restart PROVE UploadInv'
  BY <1>35, ProcAssumption, HostAssumption DEF TypeOK, UploadInv, RunInv, Restart, Kill,
       diskVars, Active, Terminal, Handling, Locking
<1>36. CASE UNCHANGED vars
  BY <1>1, <1>36 DEF vars, rowVars, diskVars, requestVars, threadVars,
       history
<1> QED BY <1>40, <1>2, <1>3, <1>4, <1>5, <1>6, <1>7, <1>8, <1>9, <1>10, <1>11, <1>12, <1>13,
       <1>14, <1>15, <1>16, <1>17, <1>18, <1>19, <1>20, <1>21, <1>22, <1>23, <1>24, <1>25,
       <1>26, <1>27, <1>28, <1>29, <1>30, <1>31, <1>32, <1>33, <1>34, <1>35, <1>36 DEF Next,
       RequestStart, RequestLockStep, RequestFreeStep, LockStep, FreeStep, FaultStep

\* RequestInv is kept: between the statements of a request its row may only move on.
LEMMA RequestInvStep == ASSUME TypeOK, RunInv, UploadInv, RequestInv, [Next]_vars PROVE
      RequestInv'
<1>1. CASE UNCHANGED <<op, arg, asked, status, folder>>
  BY <1>1 DEF RequestInv
<1>2. ASSUME NEW r \in Request, NEW B \in SUBSET Job, UploadStart(r, B) PROVE RequestInv'
  BY <1>2 DEF TypeOK, RequestInv, UploadStart, Fresh, rowVars, diskVars, threadVars,
       eventVars, history, Active, Terminal, Locking, Handling
<1>3. ASSUME NEW r \in Request, NEW j \in Job, Stage(r, j) PROVE RequestInv'
  <2>1. status[j] = "unborn" /\ pc[j] = "idle"
    BY <1>3 DEF UploadInv, Stage
  <2> QED BY <1>3, <2>1 DEF TypeOK, RequestInv, Stage, rowVars, threadVars, eventVars,
         history, Active, Terminal, Locking, Handling
<1>4. ASSUME NEW r \in Request, NEW j \in Job, StageError(r, j) PROVE RequestInv'
  <2>1. status[j] = "unborn" /\ pc[j] = "idle"
    BY <1>4 DEF UploadInv, StageError
  <2> QED BY <1>4, <2>1 DEF TypeOK, RequestInv, StageError, rowVars, threadVars, eventVars,
         Active, Terminal, Locking, Handling
<1>5. ASSUME NEW r \in Request, Commit(r) PROVE RequestInv'
  BY <1>5 DEF TypeOK, RequestInv, UploadInv, Commit, diskVars, threadVars, eventVars,
       history, Active, Terminal, Locking, Handling
<1>40. ASSUME NEW r \in Request, CommitAckLost(r) PROVE RequestInv'
  <2>1. /\ op[r] = "commit" /\ op' = [op EXCEPT ![r] = "unstage"]
        /\ status' = [j \in Job |-> IF j \in batch[r] THEN "queued" ELSE status[j]]
        /\ stranded' = stranded \cup batch[r]
        /\ UNCHANGED <<arg, asked, folder, batch>>
    BY <1>40 DEF CommitAckLost, diskVars, threadVars, eventVars
  <2>2. \A j \in batch[r] : status[j] = "unborn"
    BY <2>1 DEF UploadInv
  <2> QED BY <2>1, <2>2 DEF TypeOK, RequestInv, Terminal, Locking
<1>6. ASSUME NEW r \in Request, Reject(r) PROVE RequestInv'
  BY <1>6 DEF TypeOK, RequestInv, Reject, rowVars, diskVars, threadVars, eventVars, history,
       Active, Terminal, Locking, Handling
<1>7. ASSUME NEW r \in Request, CommitError(r) PROVE RequestInv'
  BY <1>7 DEF TypeOK, RequestInv, CommitError, rowVars, diskVars, threadVars, eventVars,
       history, Active, Terminal, Locking, Handling
<1>8. ASSUME NEW r \in Request, Unstage(r) PROVE RequestInv'
  BY <1>8 DEF TypeOK, RequestInv, UploadInv, Unstage, rowVars, threadVars, eventVars,
       history, Active, Terminal, Locking, Handling
<1>9. ASSUME NEW r \in Request, NEW j \in Job, Submit(r, j) PROVE RequestInv'
  BY <1>9 DEF TypeOK, RequestInv, Submit, rowVars, diskVars, eventVars, history, Active,
       Terminal, Locking, Handling
<1>10. ASSUME NEW j \in Job, Claim(j) PROVE RequestInv'
  BY <1>10 DEF TypeOK, RequestInv, Claim, Goto, diskVars, requestVars, eventVars, history,
       Active, Terminal, Locking, Handling
<1>11. ASSUME NEW j \in Job, Finish(j) PROVE RequestInv'
  BY <1>11 DEF TypeOK, RequestInv, Finish, Goto, rowVars, diskVars, requestVars, eventVars,
       history, Active, Terminal, Locking, Handling
<1>12. ASSUME NEW j \in Job, Abandon(j) PROVE RequestInv'
  BY <1>12 DEF TypeOK, RequestInv, Abandon, Goto, diskVars, requestVars, eventVars, history,
       Active, Terminal, Locking, Handling
<1>13. ASSUME NEW j \in Job, Fail(j) PROVE RequestInv'
  BY <1>13 DEF TypeOK, RequestInv, Fail, Goto, diskVars, requestVars, eventVars, history,
       Active, Terminal, Locking, Handling
<1>14. ASSUME NEW r \in Request, NEW j \in Job, CancelQueued(r, j) PROVE RequestInv'
  <2>1. CASE status[j] = "queued"
    <3>1. /\ status' = [status EXCEPT ![j] = "canceled"]
          /\ asked' = asked \cup {j} /\ UNCHANGED <<op, arg, folder>>
      BY <1>14, <2>1 DEF CancelQueued, diskVars
    <3> QED BY <2>1, <3>1 DEF TypeOK, RequestInv, Locking, Terminal
  <2>2. CASE status[j] # "queued"
    <3>1. /\ op' = [op EXCEPT ![r] = "cancelRunning"] /\ arg' = [arg EXCEPT ![r] = j]
          /\ asked' = asked \cup {j} /\ UNCHANGED <<status, folder>>
      BY <1>14, <2>2 DEF CancelQueued, diskVars
    <3> QED BY <3>1 DEF TypeOK, RequestInv, Locking, Terminal
  <2> QED BY <2>1, <2>2
<1>15. ASSUME NEW r \in Request, CancelRunning(r) PROVE RequestInv'
  <2>1. arg[r] \in Job
    BY <1>15 DEF RequestInv, CancelRunning, Locking
  <2>2. UNCHANGED <<arg, asked, folder>>
    BY <1>15 DEF CancelRunning, diskVars, history
  <2>3. CASE status[arg[r]] = "processing"
    <3>1. status' = [status EXCEPT ![arg[r]] = "canceling"] /\ op' = [op EXCEPT ![r] = "signal"]
      BY <1>15, <2>3 DEF CancelRunning
    <3> QED BY <2>1, <2>2, <2>3, <3>1 DEF TypeOK, RequestInv, Locking, Terminal
  <2>4. CASE status[arg[r]] # "processing"
    <3>1. status' = status /\ op' = [op EXCEPT ![r] = "cancelRead"]
      BY <1>15, <2>4 DEF CancelRunning
    <3> QED BY <2>1, <2>2, <3>1 DEF TypeOK, RequestInv, Locking, Terminal
  <2> QED BY <2>3, <2>4
<1>16. ASSUME NEW r \in Request, CancelRead(r) PROVE RequestInv'
  BY <1>16 DEF TypeOK, RequestInv, CancelRead, Answer, rowVars, diskVars, threadVars,
       eventVars, history, Active, Terminal, Locking, Handling
<1>17. ASSUME NEW r \in Request, Signal(r) PROVE RequestInv'
  BY <1>17 DEF TypeOK, RequestInv, Signal, Answer, rowVars, diskVars, threadVars, Active,
       Terminal, Locking, Handling
<1>18. ASSUME NEW r \in Request, NEW j \in Job, DeleteCheck(r, j) PROVE RequestInv'
  BY <1>18 DEF TypeOK, RequestInv, DeleteCheck, rowVars, diskVars, threadVars, eventVars,
       history, Active, Terminal, Locking, Handling
<1>19. ASSUME NEW r \in Request, DeleteFiles(r) PROVE RequestInv'
  BY <1>19 DEF TypeOK, RequestInv, DeleteFiles, rowVars, threadVars, eventVars, Active,
       Terminal, Locking, Handling
<1>20. ASSUME NEW r \in Request, DeleteFilesError(r) PROVE RequestInv'
  BY <1>20 DEF TypeOK, RequestInv, DeleteFilesError, Answer, rowVars, threadVars, eventVars,
       Active, Terminal, Locking, Handling
<1>21. ASSUME NEW r \in Request, DeleteRow(r) PROVE RequestInv'
  BY <1>21 DEF TypeOK, RequestInv, DeleteRow, Answer, diskVars, threadVars, history, Active,
       Terminal, Locking, Handling
<1>22. ASSUME NEW r \in Request, RequestDbError(r) PROVE RequestInv'
  BY <1>22 DEF TypeOK, RequestInv, RequestDbError, Answer, rowVars, diskVars, threadVars,
       eventVars, history, Active, Terminal, Locking, Handling
<1>23. ASSUME NEW p \in Proc, Crash(p) PROVE RequestInv'
  BY <1>23 DEF TypeOK, RequestInv, Crash, Kill, diskVars, Active, Terminal, Locking,
       Handling
<1>24. ASSUME Restart PROVE RequestInv'
  BY <1>24 DEF TypeOK, RequestInv, Restart, Kill, diskVars, Active, Terminal, Locking,
       Handling
<1>25. ASSUME NEW p \in Proc, NEW j \in Job, StartRun(p, j) PROVE RequestInv'
  BY <1>1, <1>25 DEF StartRun, Goto, rowVars, diskVars, requestVars, history
<1>26. ASSUME NEW j \in Job, ReadRow(j) \/ Load(j) \/ NextTarget(j) \/ Translate(j) \/
        Write(j) \/ WriteError(j) \/ Publish(j) \/ Cleanup(j) \/ DbError(j) \/
        HandlerDbError(j) PROVE RequestInv'
  BY <1>1, <1>26 DEF ReadRow, Load, NextTarget, Translate, Write, WriteError, Publish,
       Cleanup, DbError, HandlerDbError, Goto, StopSeen, StopAt, MayGoOn, rowVars, diskVars,
       requestVars, eventVars, history
<1>27. CASE UNCHANGED vars
  BY <1>1, <1>27 DEF vars, rowVars, diskVars, requestVars, history
<1> QED BY <1>40, <1>2, <1>3, <1>4, <1>5, <1>6, <1>7, <1>8, <1>9, <1>10, <1>11, <1>12, <1>13,
       <1>14, <1>15, <1>16, <1>17, <1>18, <1>19, <1>20, <1>21, <1>22, <1>23, <1>24, <1>25,
       <1>26, <1>27 DEF Next, RequestStart, RequestLockStep, RequestFreeStep, LockStep,
       FreeStep, FaultStep

\* QueueInv is kept.
LEMMA QueueInvStep == ASSUME TypeOK, RunInv, UploadInv, QueueInv, [Next]_vars PROVE
      QueueInv'
<1>1. CASE UNCHANGED <<queue, pc, home>>
  BY <1>1 DEF QueueInv, QueueOk
<1>2. ASSUME NEW j \in Job, ReadRow(j) \/ Claim(j) \/ Load(j) \/ NextTarget(j) \/
        Translate(j) \/ Write(j) \/ WriteError(j) \/ Publish(j) \/ Finish(j) \/ Abandon(j)
        \/ Fail(j) \/ DbError(j) \/ HandlerDbError(j) PROVE QueueInv'
  <2>1. pc[j] # "waiting" /\ UNCHANGED <<queue, home>>
        /\ \A k \in Job : k # j => pc'[k] = pc[k]
    BY <1>2, RunStepEffect DEF OnThread, Working, Handling
  <2>2. \A p \in Proc : \A i \in 1..Len(queue[p]) : queue[p][i] \in Job
    BY DEF TypeOK
  <2> QED BY <2>1, <2>2 DEF QueueInv, QueueOk
<1>3. ASSUME NEW r \in Request, NEW j \in Job, Submit(r, j) PROVE QueueInv'
  <2> SUFFICES ASSUME NEW p \in Proc PROVE QueueOk(p)'
    BY DEF QueueInv
  <2>1. /\ \A k \in Job : k # j => pc'[k] = pc[k] /\ home'[k] = home[k]
        /\ pc'[j] = "waiting" /\ home'[j] = Host[r] /\ pc[j] = "idle"
    BY <1>3, HostAssumption DEF TypeOK, UploadInv, Submit
  <2>2. \A i \in 1..Len(queue[p]) : queue[p][i] \in Job /\ queue[p][i] # j
    BY <2>1 DEF TypeOK, QueueInv, QueueOk
  <2>3. CASE p # Host[r]
    <3>1. queue'[p] = queue[p]
      BY <1>3, <2>3, HostAssumption DEF TypeOK, Submit
    <3> QED BY <2>1, <2>2, <3>1 DEF QueueInv, QueueOk
  <2>4. CASE p = Host[r]
    <3>1. queue[p] \in Seq(Job) /\ queue'[p] = Append(queue[p], j)
      BY <1>3, <2>4 DEF TypeOK, Submit
    <3>2. /\ Len(queue[p]) \in Nat /\ Len(queue'[p]) = Len(queue[p]) + 1
          /\ \A i \in 1..Len(queue[p]) : queue'[p][i] = queue[p][i]
          /\ queue'[p][Len(queue[p]) + 1] = j
      BY <3>1
    <3>3. \A i \in 1..Len(queue'[p]) :
            \/ i \in 1..Len(queue[p]) /\ queue'[p][i] = queue[p][i]
            \/ i = Len(queue[p]) + 1 /\ queue'[p][i] = j
      BY <3>2
    <3>4. \A i \in 1..Len(queue[p]) : pc[queue[p][i]] = "waiting" /\ home[queue[p][i]] = p
      BY DEF QueueInv, QueueOk
    <3>5. \A i \in 1..Len(queue'[p]) : pc'[queue'[p][i]] = "waiting" /\ home'[queue'[p][i]] = p
      BY <2>1, <2>2, <2>4, <3>3, <3>4
    <3>6. \A i, k \in 1..Len(queue'[p]) : i # k => queue'[p][i] # queue'[p][k]
      BY <2>2, <3>3 DEF QueueInv, QueueOk
    <3> QED BY <3>5, <3>6 DEF QueueOk
  <2> QED BY <2>3, <2>4
<1>4. ASSUME NEW p \in Proc, NEW j \in Job, StartRun(p, j) PROVE QueueInv'
  <2> SUFFICES ASSUME NEW q \in Proc PROVE QueueOk(q)'
    BY DEF QueueInv
  <2>1. queue[p] \in Seq(Job) /\ queue[p] # <<>> /\ j = Head(queue[p])
    BY <1>4 DEF TypeOK, StartRun
  <2>2. /\ Len(queue[p]) \in Nat \ {0} /\ j = queue[p][1]
        /\ \A i \in 1..Len(queue[q]) : queue[q][i] \in Job
    BY <2>1 DEF TypeOK
  <2>3. home[j] = p /\ pc[j] = "waiting"
    BY <2>2 DEF QueueInv, QueueOk
  <2>4. home' = home /\ \A k \in Job : k # j => pc'[k] = pc[k]
    BY <1>4 DEF TypeOK, StartRun, Goto
  <2>5. CASE q # p
    <3>1. queue'[q] = queue[q]
      BY <1>4, <2>5 DEF TypeOK, StartRun
    <3> QED BY <2>2, <2>3, <2>4, <2>5, <3>1 DEF QueueInv, QueueOk
  <2>6. CASE q = p
    <3>1. queue'[p] = Tail(queue[p])
      BY <1>4 DEF TypeOK, StartRun
    <3>2. /\ Len(queue'[p]) = Len(queue[p]) - 1
          /\ \A i \in 1..Len(queue'[p]) : queue'[p][i] = queue[p][i + 1]
      BY <2>1, <3>1
    <3>3. \A i \in 1..Len(queue'[p]) : i + 1 \in 2..Len(queue[p]) /\ queue[p][i + 1] \in Job
      BY <2>2, <2>6, <3>2
    <3>4. \A i \in 2..Len(queue[p]) :
            queue[p][i] # j /\ pc[queue[p][i]] = "waiting" /\ home[queue[p][i]] = p
      BY <2>2 DEF QueueInv, QueueOk
    <3>5. \A i \in 1..Len(queue'[p]) : pc'[queue'[p][i]] = "waiting" /\ home'[queue'[p][i]] = p
      BY <2>4, <3>2, <3>3, <3>4
    <3>6. \A i, k \in 1..Len(queue'[p]) : i # k => queue'[p][i] # queue'[p][k]
      <4> SUFFICES ASSUME NEW i \in 1..Len(queue'[p]), NEW k \in 1..Len(queue'[p]), i # k
                   PROVE  queue[p][i + 1] # queue[p][k + 1]
        BY <3>2
      <4> QED BY <2>2, <3>3 DEF QueueInv, QueueOk
    <3> QED BY <2>6, <3>5, <3>6 DEF QueueOk
  <2> QED BY <2>5, <2>6
<1>5. ASSUME NEW j \in Job, Cleanup(j) PROVE QueueInv'
  <2> SUFFICES ASSUME NEW q \in Proc PROVE QueueOk(q)'
    BY DEF QueueInv
  <2>1. queue' = queue /\ \A k \in Job : k # j => pc'[k] = pc[k] /\ home'[k] = home[k]
    BY <1>5 DEF TypeOK, Cleanup, Goto
  <2>2. \A i \in 1..Len(queue[q]) : queue[q][i] \in Job
    BY DEF TypeOK
  <2>3. pc[j] # "waiting"
    BY <1>5 DEF Cleanup
  <2> QED BY <2>1, <2>2, <2>3 DEF QueueInv, QueueOk
<1>6. ASSUME NEW p \in Proc, Crash(p) PROVE QueueInv'
  <2> SUFFICES ASSUME NEW q \in Proc PROVE QueueOk(q)'
    BY DEF QueueInv
  <2>1. queue'[q] = IF q = p THEN <<>> ELSE queue[q]
    BY <1>6 DEF Crash, Kill
  <2>2. \A k \in Job : home[k] # p => pc'[k] = pc[k] /\ home'[k] = home[k]
    BY <1>6 DEF Crash, Kill
  <2>3. \A i \in 1..Len(queue[q]) : queue[q][i] \in Job
    BY DEF TypeOK
  <2> QED BY <2>1, <2>2, <2>3 DEF QueueInv, QueueOk
<1>7. ASSUME Restart PROVE QueueInv'
  BY <1>7 DEF TypeOK, QueueInv, Restart, Kill, diskVars, Handling, QueueOk
<1>8. ASSUME NEW r \in Request, NEW B \in SUBSET Job, UploadStart(r, B) PROVE QueueInv'
  BY <1>1, <1>8 DEF UploadStart, Fresh, rowVars, diskVars, threadVars, eventVars, history
<1>9. ASSUME NEW r \in Request, NEW j \in Job, Stage(r, j) \/ StageError(r, j) \/
        CancelQueued(r, j) \/ DeleteCheck(r, j) PROVE QueueInv'
  BY <1>1, <1>9 DEF Stage, StageError, CancelQueued, DeleteCheck, HasRow, rowVars, diskVars,
       threadVars, eventVars, history
<1>10. ASSUME NEW r \in Request, Commit(r) \/ Reject(r) \/ CommitError(r) \/ CommitAckLost(r) \/ Unstage(r) \/
        CancelRunning(r) \/ CancelRead(r) \/ Signal(r) \/ DeleteFiles(r) \/
        DeleteFilesError(r) \/ DeleteRow(r) \/ RequestDbError(r) PROVE QueueInv'
  BY <1>1, <1>10 DEF Commit, Reject, CommitError, CommitAckLost, Unstage, CancelRunning, CancelRead,
       Signal, DeleteFiles, DeleteFilesError, DeleteRow, RequestDbError, Answer, rowVars,
       diskVars, threadVars, eventVars, history
<1>11. CASE UNCHANGED vars
  BY <1>1, <1>11 DEF vars, threadVars
<1> QED BY <1>2, <1>3, <1>4, <1>5, <1>6, <1>7, <1>8, <1>9, <1>10, <1>11 DEF Next,
       RequestStart, RequestLockStep, RequestFreeStep, LockStep, FreeStep, FaultStep

\* A step that moves one job keeps Attended if that job still has its run, or has ended.
LEMMA AttendedMove ==
  ASSUME Attended, NEW j \in Job, UNCHANGED <<op, batch, stranded>>,
         \A k \in Job : k # j => status'[k] = status[k] /\ pc'[k] = pc[k],
         status'[j] \in Active => pc'[j] \in Driven
  PROVE  Attended'
BY DEF Attended, AwaitingSubmit

\* Attended is kept: every way out of run_job leaves the row ended, or in stranded.
LEMMA AttendedStep == ASSUME TypeOK, RunInv, UploadInv, RequestInv, QueueInv, Attended,
      [Next]_vars PROVE Attended'
<1>1. CASE UNCHANGED <<status, pc, op, batch, stranded>>
  BY <1>1 DEF Attended, AwaitingSubmit
<1>2. ASSUME NEW r \in Request, NEW B \in SUBSET Job, UploadStart(r, B) PROVE Attended'
  BY <1>2 DEF TypeOK, Attended, UploadInv, UploadStart, Fresh, rowVars, diskVars,
       threadVars, eventVars, history, Active, Terminal, Unclaimed, Working, Handling,
       Driven, Locking, AwaitingSubmit
<1>3. ASSUME NEW r \in Request, NEW j \in Job, Stage(r, j) PROVE Attended'
  BY <1>3 DEF TypeOK, Attended, UploadInv, Stage, rowVars, threadVars, eventVars, history,
       Active, Terminal, Unclaimed, Working, Handling, Driven, Locking, AwaitingSubmit
<1>4. ASSUME NEW r \in Request, NEW j \in Job, StageError(r, j) PROVE Attended'
  BY <1>4 DEF TypeOK, Attended, StageError, rowVars, threadVars, eventVars, Active,
       Terminal, Unclaimed, Working, Handling, Driven, Locking, AwaitingSubmit
<1>5. ASSUME NEW r \in Request, Commit(r) PROVE Attended'
  BY <1>5 DEF TypeOK, Attended, UploadInv, Commit, diskVars, threadVars, eventVars, history,
       Active, Terminal, Unclaimed, Working, Handling, Driven, Locking, AwaitingSubmit
<1>40. ASSUME NEW r \in Request, CommitAckLost(r) PROVE Attended'
  BY <1>40 DEF TypeOK, Attended, UploadInv, CommitAckLost, Fault, diskVars, threadVars, eventVars, history,
       Active, Terminal, Unclaimed, Working, Handling, Driven, Locking, AwaitingSubmit
<1>6. ASSUME NEW r \in Request, Reject(r) PROVE Attended'
  BY <1>6 DEF TypeOK, Attended, UploadInv, Reject, rowVars, diskVars, threadVars, eventVars,
       history, Active, Terminal, Unclaimed, Working, Handling, Driven, Locking,
       AwaitingSubmit
<1>7. ASSUME NEW r \in Request, CommitError(r) PROVE Attended'
  BY <1>7 DEF TypeOK, Attended, CommitError, rowVars, diskVars, threadVars, eventVars,
       history, Active, Terminal, Unclaimed, Working, Handling, Driven, Locking,
       AwaitingSubmit
<1>8. ASSUME NEW r \in Request, Unstage(r) PROVE Attended'
  BY <1>8 DEF TypeOK, Attended, UploadInv, Unstage, rowVars, threadVars, eventVars, history,
       Active, Terminal, Unclaimed, Working, Handling, Driven, Locking, AwaitingSubmit
<1>9. ASSUME NEW r \in Request, NEW j \in Job, Submit(r, j) PROVE Attended'
  BY <1>9 DEF TypeOK, Attended, UploadInv, Submit, rowVars, diskVars, eventVars, history,
       Active, Terminal, Unclaimed, Working, Handling, Driven, Locking, AwaitingSubmit
<1>10. ASSUME NEW p \in Proc, NEW j \in Job, StartRun(p, j) PROVE Attended'
  BY <1>10 DEF TypeOK, Attended, QueueInv, StartRun, Goto, rowVars, diskVars, requestVars,
       history, Active, Terminal, Unclaimed, Working, Handling, Driven, Locking,
       AwaitingSubmit
<1>11. ASSUME NEW j \in Job, ReadRow(j) PROVE Attended'
  BY <1>11 DEF TypeOK, Attended, ReadRow, Goto, rowVars, diskVars, requestVars, history,
       Active, Terminal, Unclaimed, Working, Handling, Driven, Locking, AwaitingSubmit
<1>12. ASSUME NEW j \in Job, Claim(j) PROVE Attended'
  <2>1. UNCHANGED <<op, batch, stranded>>
    BY <1>12 DEF Claim, requestVars, history
  <2>2. \A k \in Job : k # j => status'[k] = status[k] /\ pc'[k] = pc[k]
    BY <1>12 DEF TypeOK, Claim, Goto
  <2>3. status'[j] \in Active => pc'[j] \in Driven
    BY <1>12 DEF TypeOK, RunInv, Claim, Goto, Active, Unclaimed, Working, Handling, Driven
  <2> QED BY <2>1, <2>2, <2>3, AttendedMove
<1>13. ASSUME NEW j \in Job, Load(j) PROVE Attended'
  <2>1. UNCHANGED <<op, batch, stranded, status>>
    BY <1>13 DEF Load, rowVars, requestVars, history
  <2>2. PICK stage \in Working \cup Handling : pc' = [pc EXCEPT ![j] = stage]
    BY <1>13 DEF Load, StopAt, Goto, Working, Handling
  <2>3. pc'[j] \in Driven /\ \A k \in Job : k # j => pc'[k] = pc[k]
    BY <2>2 DEF TypeOK, Driven
  <2> QED BY <2>1, <2>3, AttendedMove
<1>14. ASSUME NEW j \in Job, NextTarget(j) PROVE Attended'
  <2>1. UNCHANGED <<op, batch, stranded, status>>
    BY <1>14 DEF NextTarget, rowVars, requestVars, history
  <2>2. PICK stage \in Working \cup Handling : pc' = [pc EXCEPT ![j] = stage]
    BY <1>14 DEF NextTarget, StopAt, Goto, Working, Handling
  <2>3. pc'[j] \in Driven /\ \A k \in Job : k # j => pc'[k] = pc[k]
    BY <2>2 DEF TypeOK, Driven
  <2> QED BY <2>1, <2>3, AttendedMove
<1>15. ASSUME NEW j \in Job, Translate(j) PROVE Attended'
  <2>1. UNCHANGED <<op, batch, stranded, status>>
    BY <1>15 DEF Translate, rowVars, requestVars, history
  <2>2. PICK stage \in Working \cup Handling : pc' = [pc EXCEPT ![j] = stage]
    BY <1>15 DEF Translate, StopAt, Goto, Working, Handling
  <2>3. pc'[j] \in Driven /\ \A k \in Job : k # j => pc'[k] = pc[k]
    BY <2>2 DEF TypeOK, Driven
  <2> QED BY <2>1, <2>3, AttendedMove
<1>16. ASSUME NEW j \in Job, Write(j) PROVE Attended'
  BY <1>16 DEF TypeOK, Attended, Write, Goto, rowVars, requestVars, eventVars, history,
       Active, Terminal, Unclaimed, Working, Handling, Driven, Locking, AwaitingSubmit
<1>17. ASSUME NEW j \in Job, WriteError(j) PROVE Attended'
  BY <1>17 DEF TypeOK, Attended, WriteError, Goto, rowVars, diskVars, requestVars,
       eventVars, history, Active, Terminal, Unclaimed, Working, Handling, Driven, Locking,
       AwaitingSubmit
<1>18. ASSUME NEW j \in Job, Publish(j) PROVE Attended'
  BY <1>18 DEF TypeOK, Attended, Publish, Goto, diskVars, requestVars, eventVars, history,
       Active, Terminal, Unclaimed, Working, Handling, Driven, Locking, AwaitingSubmit
<1>19. ASSUME NEW j \in Job, Finish(j) PROVE Attended'
  <2>1. UNCHANGED <<op, batch, stranded>>
    BY <1>19 DEF Finish, requestVars, history
  <2>2. \A k \in Job : k # j => status'[k] = status[k] /\ pc'[k] = pc[k]
    BY <1>19 DEF TypeOK, Finish, Goto, rowVars
  <2>3. status'[j] \in Active => pc'[j] \in Driven
    BY <1>19 DEF TypeOK, Finish, Goto, rowVars, Active, Unclaimed, Working, Handling, Driven
  <2> QED BY <2>1, <2>2, <2>3, AttendedMove
<1>20. ASSUME NEW j \in Job, Abandon(j) PROVE Attended'
  BY <1>20 DEF TypeOK, Attended, Abandon, Goto, diskVars, requestVars, eventVars, history,
       Active, Terminal, Unclaimed, Working, Handling, Driven, Locking, AwaitingSubmit
<1>21. ASSUME NEW j \in Job, Fail(j) PROVE Attended'
  <2>1. UNCHANGED <<op, batch, stranded>>
    BY <1>21 DEF Fail, requestVars, history
  <2>2. \A k \in Job : k # j => status'[k] = status[k] /\ pc'[k] = pc[k]
    BY <1>21 DEF TypeOK, Fail, Goto
  <2>3. status'[j] \in Active => pc'[j] \in Driven
    BY <1>21 DEF TypeOK, Fail, Goto, Active, Unclaimed, Working, Handling, Driven
  <2> QED BY <2>1, <2>2, <2>3, AttendedMove
<1>22. ASSUME NEW j \in Job, Cleanup(j) PROVE Attended'
  BY <1>22 DEF TypeOK, Attended, Cleanup, Goto, rowVars, diskVars, requestVars, history,
       Active, Terminal, Unclaimed, Working, Handling, Driven, Locking, AwaitingSubmit
<1>23. ASSUME NEW j \in Job, DbError(j) PROVE Attended'
  BY <1>23 DEF TypeOK, Attended, DbError, Goto, rowVars, diskVars, requestVars, eventVars,
       history, Active, Terminal, Unclaimed, Working, Handling, Driven, Locking,
       AwaitingSubmit
<1>24. ASSUME NEW j \in Job, HandlerDbError(j) PROVE Attended'
  BY <1>24 DEF TypeOK, Attended, HandlerDbError, Goto, rowVars, diskVars, requestVars,
       eventVars, Active, Terminal, Unclaimed, Working, Handling, Driven, Locking,
       AwaitingSubmit
<1>25. ASSUME NEW r \in Request, NEW j \in Job, CancelQueued(r, j) PROVE Attended'
  BY <1>25 DEF TypeOK, Attended, CancelQueued, HasRow, diskVars, threadVars, eventVars,
       Active, Terminal, Unclaimed, Working, Handling, Driven, Locking, AwaitingSubmit
<1>26. ASSUME NEW r \in Request, CancelRunning(r) PROVE Attended'
  <2>1. UNCHANGED <<pc, batch, stranded>>
    BY <1>26 DEF CancelRunning, threadVars, history
  <2>2. \A k \in Job : status'[k] \in Active => status[k] \in Active
    BY <1>26 DEF TypeOK, RequestInv, CancelRunning, Active
  <2>3. op[r] # "submit" /\ \A q \in Request : q # r => op'[q] = op[q]
    BY <1>26 DEF TypeOK, CancelRunning
  <2> QED BY <2>1, <2>2, <2>3 DEF Attended, AwaitingSubmit
<1>27. ASSUME NEW r \in Request, CancelRead(r) PROVE Attended'
  BY <1>27 DEF TypeOK, Attended, CancelRead, Answer, rowVars, diskVars, threadVars,
       eventVars, history, Active, Terminal, Unclaimed, Working, Handling, Driven, Locking,
       AwaitingSubmit
<1>28. ASSUME NEW r \in Request, Signal(r) PROVE Attended'
  BY <1>28 DEF TypeOK, Attended, Signal, Answer, rowVars, diskVars, threadVars, Active,
       Terminal, Unclaimed, Working, Handling, Driven, Locking, AwaitingSubmit
<1>29. ASSUME NEW r \in Request, NEW j \in Job, DeleteCheck(r, j) PROVE Attended'
  BY <1>29 DEF TypeOK, Attended, DeleteCheck, rowVars, diskVars, threadVars, eventVars,
       history, Active, Terminal, Unclaimed, Working, Handling, Driven, Locking,
       AwaitingSubmit
<1>30. ASSUME NEW r \in Request, DeleteFiles(r) PROVE Attended'
  BY <1>30 DEF TypeOK, Attended, DeleteFiles, rowVars, threadVars, eventVars, Active,
       Terminal, Unclaimed, Working, Handling, Driven, Locking, AwaitingSubmit
<1>31. ASSUME NEW r \in Request, DeleteFilesError(r) PROVE Attended'
  BY <1>31 DEF TypeOK, Attended, DeleteFilesError, Answer, rowVars, threadVars, eventVars,
       Active, Terminal, Unclaimed, Working, Handling, Driven, Locking, AwaitingSubmit
<1>32. ASSUME NEW r \in Request, DeleteRow(r) PROVE Attended'
  BY <1>32 DEF TypeOK, Attended, RequestInv, DeleteRow, Answer, diskVars, threadVars,
       history, Active, Terminal, Unclaimed, Working, Handling, Driven, Locking,
       AwaitingSubmit
<1>33. ASSUME NEW r \in Request, RequestDbError(r) PROVE Attended'
  BY <1>33 DEF TypeOK, Attended, RequestDbError, Answer, rowVars, diskVars, threadVars,
       eventVars, history, Active, Terminal, Unclaimed, Working, Handling, Driven, Locking,
       AwaitingSubmit
<1>34. ASSUME NEW p \in Proc, Crash(p) PROVE Attended'
  BY <1>34 DEF TypeOK, Attended, Crash, Kill, diskVars, Active, Terminal, Unclaimed,
       Working, Handling, Driven, Locking, AwaitingSubmit
<1>35. ASSUME Restart PROVE Attended'
  BY <1>35 DEF TypeOK, Attended, Restart, Kill, diskVars, Active, Terminal, Unclaimed,
       Working, Handling, Driven, Locking, AwaitingSubmit
<1>36. CASE UNCHANGED vars
  BY <1>1, <1>36 DEF vars, rowVars, requestVars, threadVars, history
<1> QED BY <1>40, <1>2, <1>3, <1>4, <1>5, <1>6, <1>7, <1>8, <1>9, <1>10, <1>11, <1>12, <1>13,
       <1>14, <1>15, <1>16, <1>17, <1>18, <1>19, <1>20, <1>21, <1>22, <1>23, <1>24, <1>25,
       <1>26, <1>27, <1>28, <1>29, <1>30, <1>31, <1>32, <1>33, <1>34, <1>35, <1>36 DEF Next,
       RequestStart, RequestLockStep, RequestFreeStep, LockStep, FreeStep, FaultStep

\* CancelHonoured is kept: all conditional updates refuse a canceled row.
LEMMA CancelHonouredStep == ASSUME TypeOK, UploadInv, RequestInv, CancelHonoured,
      [Next]_vars PROVE CancelHonoured'
<1>1. CASE UNCHANGED <<acked, status>>
  BY <1>1 DEF CancelHonoured
<1>2. ASSUME NEW r \in Request, Commit(r) PROVE CancelHonoured'
  BY <1>2 DEF TypeOK, CancelHonoured, UploadInv, Commit, diskVars, threadVars, eventVars,
       history, Active, Terminal, Locking
<1>40. ASSUME NEW r \in Request, CommitAckLost(r) PROVE CancelHonoured'
  BY <1>40 DEF TypeOK, CancelHonoured, UploadInv, CommitAckLost, Fault, diskVars, threadVars, eventVars,
       history, Active, Terminal, Locking
<1>3. ASSUME NEW j \in Job, Claim(j) PROVE CancelHonoured'
  BY <1>3 DEF TypeOK, CancelHonoured, Claim, Goto, diskVars, requestVars, eventVars,
       history, Active, Terminal, Locking
<1>4. ASSUME NEW j \in Job, Finish(j) PROVE CancelHonoured'
  BY <1>4 DEF TypeOK, CancelHonoured, Finish, Goto, rowVars, diskVars, requestVars,
       eventVars, history, Active, Terminal, Locking
<1>5. ASSUME NEW j \in Job, Abandon(j) PROVE CancelHonoured'
  BY <1>5 DEF TypeOK, CancelHonoured, Abandon, Goto, diskVars, requestVars, eventVars,
       history, Active, Terminal, Locking
<1>6. ASSUME NEW j \in Job, Fail(j) PROVE CancelHonoured'
  BY <1>6 DEF TypeOK, CancelHonoured, Fail, Goto, diskVars, requestVars, eventVars, history,
       Active, Terminal, Locking
<1>7. ASSUME NEW r \in Request, NEW j \in Job, CancelQueued(r, j) PROVE CancelHonoured'
  BY <1>7 DEF TypeOK, CancelHonoured, CancelQueued, HasRow, diskVars, threadVars, eventVars,
       Active, Terminal, Locking
<1>8. ASSUME NEW r \in Request, CancelRunning(r) PROVE CancelHonoured'
  BY <1>8 DEF TypeOK, CancelHonoured, RequestInv, CancelRunning, diskVars, threadVars,
       eventVars, history, Active, Terminal, Locking
<1>9. ASSUME NEW r \in Request, Signal(r) PROVE CancelHonoured'
  BY <1>9 DEF TypeOK, CancelHonoured, RequestInv, Signal, Answer, rowVars, diskVars,
       threadVars, Active, Terminal, Locking
<1>10. ASSUME NEW r \in Request, DeleteRow(r) PROVE CancelHonoured'
  BY <1>10 DEF TypeOK, CancelHonoured, RequestInv, DeleteRow, Answer, diskVars, threadVars,
       history, Active, Terminal, Locking
<1>11. ASSUME Restart PROVE CancelHonoured'
  BY <1>11 DEF TypeOK, CancelHonoured, Restart, Kill, diskVars, Active, Terminal, Locking
<1>12. ASSUME NEW r \in Request, NEW B \in SUBSET Job, UploadStart(r, B) PROVE
        CancelHonoured'
  BY <1>1, <1>12 DEF UploadStart, Fresh, rowVars, diskVars, threadVars, eventVars, history
<1>13. ASSUME NEW r \in Request, NEW j \in Job, Stage(r, j) \/ StageError(r, j) \/ Submit(r,
        j) \/ DeleteCheck(r, j) PROVE CancelHonoured'
  BY <1>1, <1>13 DEF Stage, StageError, Submit, DeleteCheck, rowVars, diskVars, threadVars,
       eventVars, history
<1>14. ASSUME NEW r \in Request, Reject(r) \/ CommitError(r) \/ Unstage(r) \/ CancelRead(r)
        \/ DeleteFiles(r) \/ DeleteFilesError(r) \/ RequestDbError(r) PROVE CancelHonoured'
  BY <1>1, <1>14 DEF Reject, CommitError, Unstage, CancelRead, DeleteFiles,
       DeleteFilesError, RequestDbError, Answer, rowVars, diskVars, threadVars, eventVars,
       history
<1>15. ASSUME NEW p \in Proc, NEW j \in Job, StartRun(p, j) PROVE CancelHonoured'
  BY <1>1, <1>15 DEF StartRun, Goto, rowVars, diskVars, requestVars, history
<1>16. ASSUME NEW j \in Job, ReadRow(j) \/ Load(j) \/ NextTarget(j) \/ Translate(j) \/
        Write(j) \/ WriteError(j) \/ Publish(j) \/ Cleanup(j) \/ DbError(j) \/
        HandlerDbError(j) PROVE CancelHonoured'
  BY <1>1, <1>16 DEF ReadRow, Load, NextTarget, Translate, Write, WriteError, Publish,
       Cleanup, DbError, HandlerDbError, Goto, StopSeen, StopAt, MayGoOn, rowVars, diskVars,
       requestVars, eventVars, history
<1>17. ASSUME NEW p \in Proc, Crash(p) PROVE CancelHonoured'
  BY <1>1, <1>17 DEF Crash, Kill, diskVars
<1>18. CASE UNCHANGED vars
  BY <1>1, <1>18 DEF vars, rowVars, history
<1> QED BY <1>40, <1>2, <1>3, <1>4, <1>5, <1>6, <1>7, <1>8, <1>9, <1>10, <1>11, <1>12, <1>13,
       <1>14, <1>15, <1>16, <1>17, <1>18 DEF Next, RequestStart, RequestLockStep,
       RequestFreeStep, LockStep, FreeStep, FaultStep

\* OutputsOnDisk is kept: files are written before they are listed.
LEMMA OutputsOnDiskStep == ASSUME TypeOK, RunInv, DiskInv, UploadInv, RequestInv,
      OutputsOnDisk, [Next]_vars PROVE OutputsOnDisk'
<1>1. CASE UNCHANGED <<status, outputs, written, deleting, folder>>
  BY <1>1 DEF OutputsOnDisk, HasRow
<1>2. ASSUME NEW r \in Request, NEW j \in Job, Stage(r, j) PROVE OutputsOnDisk'
  BY <1>2 DEF TypeOK, RunInv, DiskInv, OutputsOnDisk, UploadInv, Stage, rowVars, threadVars,
       eventVars, history, Active, Terminal, Working, Locking, HasRow
<1>3. ASSUME NEW r \in Request, NEW j \in Job, StageError(r, j) PROVE OutputsOnDisk'
  BY <1>3 DEF TypeOK, RunInv, DiskInv, OutputsOnDisk, UploadInv, StageError, rowVars,
       threadVars, eventVars, Active, Terminal, Working, Locking, HasRow
<1>4. ASSUME NEW r \in Request, Commit(r) PROVE OutputsOnDisk'
  BY <1>4 DEF TypeOK, RunInv, DiskInv, OutputsOnDisk, UploadInv, Commit, diskVars,
       threadVars, eventVars, history, Active, Terminal, Working, Locking, HasRow
<1>40. ASSUME NEW r \in Request, CommitAckLost(r) PROVE OutputsOnDisk'
  BY <1>40 DEF TypeOK, RunInv, DiskInv, OutputsOnDisk, UploadInv, CommitAckLost, Fault, diskVars,
       threadVars, eventVars, history, Active, Terminal, Working, Locking, HasRow
<1>5. ASSUME NEW r \in Request, Unstage(r) PROVE OutputsOnDisk'
  BY <1>5 DEF TypeOK, RunInv, DiskInv, OutputsOnDisk, UploadInv, Unstage, rowVars,
       threadVars, eventVars, history, Active, Terminal, Working, Locking, HasRow
<1>6. ASSUME NEW j \in Job, Claim(j) PROVE OutputsOnDisk'
  BY <1>6 DEF TypeOK, RunInv, DiskInv, OutputsOnDisk, Claim, Goto, diskVars, requestVars,
       eventVars, history, Active, Terminal, Working, Locking, HasRow
<1>7. ASSUME NEW j \in Job, Write(j) PROVE OutputsOnDisk'
  BY <1>7 DEF TypeOK, RunInv, DiskInv, OutputsOnDisk, Write, Goto, rowVars, requestVars,
       eventVars, history, Active, Terminal, Working, Locking, HasRow
<1>8. ASSUME NEW j \in Job, Publish(j) PROVE OutputsOnDisk'
  BY <1>8 DEF TypeOK, RunInv, DiskInv, OutputsOnDisk, Publish, Goto, diskVars, requestVars,
       eventVars, history, Active, Terminal, Working, Locking, HasRow
<1>9. ASSUME NEW j \in Job, Finish(j) PROVE OutputsOnDisk'
  <2>1. UNCHANGED <<folder, written, deleting>>
    BY <1>9 DEF Finish, diskVars, history
  <2>2. CASE status[j] = "processing"
    <3>1. status' = [status EXCEPT ![j] = "completed"] /\ outputs' = [outputs EXCEPT ![j] = done[j]]
      BY <1>9, <2>2 DEF Finish
    <3>2. done[j] = Targets /\ written[j] = Targets /\ folder[j] = "whole"
      BY <1>9, <2>2 DEF DiskInv, Finish, Working, Active
    <3> QED BY <2>1, <3>1, <3>2 DEF TypeOK, OutputsOnDisk, HasRow, Active, Terminal
  <2>3. CASE status[j] # "processing"
    <3>1. UNCHANGED <<status, outputs>>
      BY <1>9, <2>3 DEF Finish, rowVars
    <3> QED BY <2>1, <3>1 DEF OutputsOnDisk, HasRow
  <2> QED BY <2>2, <2>3
<1>10. ASSUME NEW j \in Job, Abandon(j) PROVE OutputsOnDisk'
  BY <1>10 DEF TypeOK, RunInv, DiskInv, OutputsOnDisk, Abandon, Goto, diskVars, requestVars,
       eventVars, history, Active, Terminal, Working, Locking, HasRow
<1>11. ASSUME NEW j \in Job, Fail(j) PROVE OutputsOnDisk'
  BY <1>11 DEF TypeOK, RunInv, DiskInv, OutputsOnDisk, Fail, Goto, diskVars, requestVars,
       eventVars, history, Active, Terminal, Working, Locking, HasRow
<1>12. ASSUME NEW r \in Request, NEW j \in Job, CancelQueued(r, j) PROVE OutputsOnDisk'
  BY <1>12 DEF TypeOK, RunInv, DiskInv, OutputsOnDisk, CancelQueued, diskVars, threadVars,
       eventVars, Active, Terminal, Working, Locking, HasRow
<1>13. ASSUME NEW r \in Request, CancelRunning(r) PROVE OutputsOnDisk'
  BY <1>13 DEF TypeOK, RunInv, DiskInv, OutputsOnDisk, RequestInv, CancelRunning, diskVars,
       threadVars, eventVars, history, Active, Terminal, Working, Locking, HasRow
<1>14. ASSUME NEW r \in Request, DeleteFiles(r) PROVE OutputsOnDisk'
  BY <1>14 DEF TypeOK, RunInv, DiskInv, OutputsOnDisk, RequestInv, DeleteFiles, rowVars,
       threadVars, eventVars, Active, Terminal, Working, Locking, HasRow
<1>15. ASSUME NEW r \in Request, DeleteFilesError(r) PROVE OutputsOnDisk'
  BY <1>15 DEF TypeOK, RunInv, DiskInv, OutputsOnDisk, RequestInv, DeleteFilesError, Answer,
       rowVars, threadVars, eventVars, Active, Terminal, Working, Locking, HasRow
<1>16. ASSUME NEW r \in Request, DeleteRow(r) PROVE OutputsOnDisk'
  BY <1>16 DEF TypeOK, RunInv, DiskInv, OutputsOnDisk, RequestInv, DeleteRow, Answer,
       diskVars, threadVars, history, Active, Terminal, Working, Locking, HasRow
<1>17. ASSUME Restart PROVE OutputsOnDisk'
  BY <1>17 DEF TypeOK, RunInv, DiskInv, OutputsOnDisk, Restart, Kill, diskVars, Active,
       Terminal, Working, Locking, HasRow
<1>18. ASSUME NEW r \in Request, NEW B \in SUBSET Job, UploadStart(r, B) PROVE
        OutputsOnDisk'
  BY <1>1, <1>18 DEF UploadStart, Fresh, rowVars, diskVars, threadVars, eventVars, history
<1>19. ASSUME NEW r \in Request, Reject(r) \/ CommitError(r) \/ CancelRead(r) \/ Signal(r)
        \/ RequestDbError(r) PROVE OutputsOnDisk'
  BY <1>1, <1>19 DEF Reject, CommitError, CancelRead, Signal, RequestDbError, Answer,
       rowVars, diskVars, threadVars, eventVars, history
<1>20. ASSUME NEW r \in Request, NEW j \in Job, Submit(r, j) \/ DeleteCheck(r, j) PROVE
        OutputsOnDisk'
  BY <1>1, <1>20 DEF Submit, DeleteCheck, rowVars, diskVars, threadVars, eventVars, history
<1>21. ASSUME NEW p \in Proc, NEW j \in Job, StartRun(p, j) PROVE OutputsOnDisk'
  BY <1>1, <1>21 DEF StartRun, Goto, rowVars, diskVars, requestVars, history
<1>22. ASSUME NEW j \in Job, ReadRow(j) \/ Load(j) \/ NextTarget(j) \/ Translate(j) \/
        WriteError(j) \/ Cleanup(j) \/ DbError(j) \/ HandlerDbError(j) PROVE OutputsOnDisk'
  BY <1>1, <1>22 DEF ReadRow, Load, NextTarget, Translate, WriteError, Cleanup, DbError,
       HandlerDbError, Goto, StopSeen, StopAt, MayGoOn, rowVars, diskVars, requestVars,
       eventVars, history
<1>23. ASSUME NEW p \in Proc, Crash(p) PROVE OutputsOnDisk'
  BY <1>1, <1>23 DEF Crash, Kill, diskVars
<1>24. CASE UNCHANGED vars
  BY <1>1, <1>24 DEF vars, rowVars, diskVars, history
<1> QED BY <1>40, <1>2, <1>3, <1>4, <1>5, <1>6, <1>7, <1>8, <1>9, <1>10, <1>11, <1>12, <1>13,
       <1>14, <1>15, <1>16, <1>17, <1>18, <1>19, <1>20, <1>21, <1>22, <1>23, <1>24 DEF Next,
       RequestStart, RequestLockStep, RequestFreeStep, LockStep, FreeStep, FaultStep

\* A step that leaves the folders and the uploads alone keeps FoldersAccounted if
\* it deletes no row.
LEMMA RowsKept ==
  ASSUME FoldersAccounted, UNCHANGED <<folder, staged, leaked>>,
         \A k \in Job : HasRow(k) => HasRow(k)'
  PROVE  FoldersAccounted'
BY DEF FoldersAccounted

\* FoldersAccounted is kept: the folder goes before its row.
LEMMA FoldersAccountedStep == ASSUME TypeOK, DiskInv, UploadInv, RequestInv,
      FoldersAccounted, [Next]_vars PROVE FoldersAccounted'
<1>1. CASE UNCHANGED <<folder, status, staged, leaked>>
  BY <1>1 DEF FoldersAccounted, HasRow
<1>2. ASSUME NEW r \in Request, NEW B \in SUBSET Job, UploadStart(r, B) PROVE
        FoldersAccounted'
  BY <1>2 DEF TypeOK, DiskInv, FoldersAccounted, UploadInv, UploadStart, Fresh, rowVars,
       diskVars, threadVars, eventVars, history, Active, Terminal, Locking, HasRow
<1>3. ASSUME NEW r \in Request, NEW j \in Job, Stage(r, j) PROVE FoldersAccounted'
  BY <1>3 DEF TypeOK, DiskInv, FoldersAccounted, UploadInv, Stage, rowVars, threadVars,
       eventVars, history, Active, Terminal, Locking, HasRow
<1>4. ASSUME NEW r \in Request, NEW j \in Job, StageError(r, j) PROVE FoldersAccounted'
  BY <1>4 DEF TypeOK, DiskInv, FoldersAccounted, UploadInv, StageError, rowVars, threadVars,
       eventVars, Active, Terminal, Locking, HasRow
<1>5. ASSUME NEW r \in Request, Commit(r) PROVE FoldersAccounted'
  BY <1>5 DEF TypeOK, DiskInv, FoldersAccounted, Commit, diskVars, threadVars, eventVars,
       history, Active, Terminal, Locking, HasRow
<1>40. ASSUME NEW r \in Request, CommitAckLost(r) PROVE FoldersAccounted'
  BY <1>40 DEF TypeOK, DiskInv, FoldersAccounted, CommitAckLost, Fault, diskVars, threadVars, eventVars,
       history, Active, Terminal, Locking, HasRow
<1>6. ASSUME NEW r \in Request, Unstage(r) PROVE FoldersAccounted'
  BY <1>6 DEF TypeOK, DiskInv, FoldersAccounted, UploadInv, Unstage, rowVars, threadVars,
       eventVars, history, Active, Terminal, Locking, HasRow
<1>7. ASSUME NEW r \in Request, NEW j \in Job, Submit(r, j) PROVE FoldersAccounted'
  BY <1>7 DEF TypeOK, DiskInv, FoldersAccounted, UploadInv, Submit, rowVars, diskVars,
       eventVars, history, Active, Terminal, Locking, HasRow
<1>8. ASSUME NEW j \in Job, Claim(j) PROVE FoldersAccounted'
  <2>1. UNCHANGED <<folder, staged, leaked>>
    BY <1>8 DEF Claim, diskVars, requestVars, history
  <2>2. \A k \in Job : HasRow(k) => HasRow(k)'
    BY <1>8 DEF TypeOK, Claim, HasRow, Active, Terminal
  <2> QED BY <2>1, <2>2, RowsKept
<1>9. ASSUME NEW j \in Job, Finish(j) PROVE FoldersAccounted'
  <2>1. UNCHANGED <<folder, staged, leaked>>
    BY <1>9 DEF Finish, diskVars, requestVars, history
  <2>2. \A k \in Job : HasRow(k) => HasRow(k)'
    BY <1>9 DEF TypeOK, Finish, rowVars, HasRow, Active, Terminal
  <2> QED BY <2>1, <2>2, RowsKept
<1>10. ASSUME NEW j \in Job, Abandon(j) PROVE FoldersAccounted'
  BY <1>10 DEF TypeOK, DiskInv, FoldersAccounted, Abandon, Goto, diskVars, requestVars,
       eventVars, history, Active, Terminal, Locking, HasRow
<1>11. ASSUME NEW j \in Job, Fail(j) PROVE FoldersAccounted'
  <2>1. UNCHANGED <<folder, staged, leaked>>
    BY <1>11 DEF Fail, diskVars, requestVars, history
  <2>2. \A k \in Job : HasRow(k) => HasRow(k)'
    BY <1>11 DEF TypeOK, Fail, HasRow, Active, Terminal
  <2> QED BY <2>1, <2>2, RowsKept
<1>12. ASSUME NEW r \in Request, NEW j \in Job, CancelQueued(r, j) PROVE FoldersAccounted'
  <2>1. UNCHANGED <<folder, staged, leaked>>
    BY <1>12 DEF CancelQueued, diskVars
  <2>2. \A k \in Job : HasRow(k) => HasRow(k)'
    BY <1>12 DEF TypeOK, CancelQueued, HasRow, Active, Terminal
  <2> QED BY <2>1, <2>2, RowsKept
<1>13. ASSUME NEW r \in Request, CancelRunning(r) PROVE FoldersAccounted'
  <2>1. UNCHANGED <<folder, staged, leaked>>
    BY <1>13 DEF CancelRunning, diskVars, history
  <2>2. \A k \in Job : HasRow(k) => HasRow(k)'
    BY <1>13 DEF TypeOK, CancelRunning, HasRow, Active, Terminal
  <2> QED BY <2>1, <2>2 DEF FoldersAccounted
<1>14. ASSUME NEW r \in Request, DeleteFiles(r) PROVE FoldersAccounted'
  BY <1>14 DEF TypeOK, DiskInv, FoldersAccounted, RequestInv, DeleteFiles, rowVars,
       threadVars, eventVars, Active, Terminal, Locking, HasRow
<1>15. ASSUME NEW r \in Request, DeleteFilesError(r) PROVE FoldersAccounted'
  BY <1>15 DEF TypeOK, DiskInv, FoldersAccounted, DeleteFilesError, Answer, rowVars,
       threadVars, eventVars, Active, Terminal, Locking, HasRow
<1>16. ASSUME NEW r \in Request, DeleteRow(r) PROVE FoldersAccounted'
  BY <1>16 DEF TypeOK, DiskInv, FoldersAccounted, RequestInv, DeleteRow, Answer, diskVars,
       threadVars, history, Active, Terminal, Locking, HasRow
<1>17. ASSUME NEW p \in Proc, Crash(p) PROVE FoldersAccounted'
  BY <1>17 DEF TypeOK, DiskInv, FoldersAccounted, Crash, Kill, diskVars, Active, Terminal,
       Locking, HasRow
<1>18. ASSUME Restart PROVE FoldersAccounted'
  BY <1>18 DEF TypeOK, DiskInv, FoldersAccounted, Restart, Kill, diskVars, Active, Terminal,
       Locking, HasRow
<1>19. ASSUME NEW r \in Request, Reject(r) \/ CommitError(r) \/ CancelRead(r) \/ Signal(r)
        \/ RequestDbError(r) PROVE FoldersAccounted'
  BY <1>1, <1>19 DEF Reject, CommitError, CancelRead, Signal, RequestDbError, Answer,
       rowVars, diskVars, threadVars, eventVars, history
<1>20. ASSUME NEW p \in Proc, NEW j \in Job, StartRun(p, j) PROVE FoldersAccounted'
  BY <1>1, <1>20 DEF StartRun, Goto, rowVars, diskVars, requestVars, history
<1>21. ASSUME NEW j \in Job, ReadRow(j) \/ Load(j) \/ NextTarget(j) \/ Translate(j) \/
        Write(j) \/ WriteError(j) \/ Publish(j) \/ Cleanup(j) \/ DbError(j) \/
        HandlerDbError(j) PROVE FoldersAccounted'
  BY <1>1, <1>21 DEF ReadRow, Load, NextTarget, Translate, Write, WriteError, Publish,
       Cleanup, DbError, HandlerDbError, Goto, StopSeen, StopAt, MayGoOn, rowVars, diskVars,
       requestVars, eventVars, history
<1>22. ASSUME NEW r \in Request, NEW j \in Job, DeleteCheck(r, j) PROVE FoldersAccounted'
  BY <1>1, <1>22 DEF DeleteCheck, rowVars, diskVars, threadVars, eventVars, history
<1>23. CASE UNCHANGED vars
  BY <1>1, <1>23 DEF vars, rowVars, diskVars, requestVars, history
<1> QED BY <1>40, <1>2, <1>3, <1>4, <1>5, <1>6, <1>7, <1>8, <1>9, <1>10, <1>11, <1>12, <1>13,
       <1>14, <1>15, <1>16, <1>17, <1>18, <1>19, <1>20, <1>21, <1>22, <1>23 DEF Next,
       RequestStart, RequestLockStep, RequestFreeStep, LockStep, FreeStep, FaultStep

\* EventTracksRun is kept: only the end of the run, or of its row, unregisters it.
LEMMA EventTracksRunStep == ASSUME TypeOK, UploadInv, RequestInv, QueueInv, EventTracksRun,
      [Next]_vars PROVE EventTracksRun'
<1>1. CASE UNCHANGED <<registered, pc, status>>
  BY <1>1 DEF EventTracksRun
<1>2. ASSUME NEW j \in Job, ReadRow(j) \/ Claim(j) \/ Load(j) \/ NextTarget(j) \/
        Translate(j) \/ Write(j) \/ WriteError(j) \/ Publish(j) \/ Finish(j) \/ Abandon(j)
        \/ Fail(j) \/ DbError(j) \/ HandlerDbError(j) PROVE EventTracksRun'
  <2>1. /\ pc[j] \in OnThread /\ pc'[j] \in OnThread /\ registered' = registered
        /\ status'[j] \in Active => status[j] \in Active
        /\ \A k \in Job : k # j => pc'[k] = pc[k] /\ status'[k] = status[k]
    BY <1>2, RunStepEffect
  <2> QED BY <2>1 DEF TypeOK, EventTracksRun
<1>3. ASSUME NEW r \in Request, Commit(r) PROVE EventTracksRun'
  BY <1>3 DEF TypeOK, EventTracksRun, UploadInv, Commit, diskVars, threadVars, eventVars,
       history, Active, Terminal, Handling, Working, OnThread, Locking
<1>40. ASSUME NEW r \in Request, CommitAckLost(r) PROVE EventTracksRun'
  BY <1>40 DEF TypeOK, EventTracksRun, UploadInv, CommitAckLost, Fault, diskVars, threadVars, eventVars,
       history, Active, Terminal, Handling, Working, OnThread, Locking
<1>4. ASSUME NEW r \in Request, NEW j \in Job, Submit(r, j) PROVE EventTracksRun'
  BY <1>4 DEF TypeOK, EventTracksRun, UploadInv, Submit, rowVars, diskVars, eventVars,
       history, Active, Terminal, Handling, Working, OnThread, Locking
<1>5. ASSUME NEW p \in Proc, NEW j \in Job, StartRun(p, j) PROVE EventTracksRun'
  BY <1>5 DEF TypeOK, EventTracksRun, QueueInv, StartRun, Goto, rowVars, diskVars,
       requestVars, history, Active, Terminal, Handling, Working, OnThread, Locking
<1>6. ASSUME NEW j \in Job, Cleanup(j) PROVE EventTracksRun'
  BY <1>6 DEF TypeOK, EventTracksRun, Cleanup, Goto, rowVars, diskVars, requestVars,
       history, Active, Terminal, Handling, Working, OnThread, Locking
<1>7. ASSUME NEW r \in Request, NEW j \in Job, CancelQueued(r, j) PROVE EventTracksRun'
  BY <1>7 DEF TypeOK, EventTracksRun, CancelQueued, HasRow, diskVars, threadVars, eventVars,
       Active, Terminal, Handling, Working, OnThread, Locking
<1>8. ASSUME NEW r \in Request, CancelRunning(r) PROVE EventTracksRun'
  BY <1>8 DEF TypeOK, EventTracksRun, RequestInv, CancelRunning, diskVars, threadVars,
       eventVars, history, Active, Terminal, Handling, Working, OnThread, Locking
<1>9. ASSUME NEW r \in Request, DeleteRow(r) PROVE EventTracksRun'
  <2>1. arg[r] \in Job /\ status[arg[r]] \in Terminal \cup {"gone"}
    BY <1>9 DEF RequestInv, DeleteRow, Locking
  <2>2. /\ status' = [status EXCEPT ![arg[r]] = "gone"] /\ pc' = pc
        /\ \A k \in Job : registered'[k] = (registered[k] /\ ~(k = arg[r] /\ home[k] = Host[r]))
    BY <1>9 DEF TypeOK, DeleteRow, threadVars
  <2> QED BY <2>1, <2>2 DEF TypeOK, EventTracksRun, Active
<1>10. ASSUME NEW p \in Proc, Crash(p) PROVE EventTracksRun'
  BY <1>10 DEF TypeOK, EventTracksRun, Crash, Kill, diskVars, Active, Terminal, Handling,
       Working, OnThread, Locking
<1>11. ASSUME Restart PROVE EventTracksRun'
  BY <1>11 DEF TypeOK, EventTracksRun, Restart, Kill, diskVars, Active, Terminal, Handling,
       Working, OnThread, Locking
<1>12. ASSUME NEW r \in Request, NEW B \in SUBSET Job, UploadStart(r, B) PROVE
        EventTracksRun'
  BY <1>1, <1>12 DEF UploadStart, Fresh, rowVars, diskVars, threadVars, eventVars, history
<1>13. ASSUME NEW r \in Request, NEW j \in Job, Stage(r, j) \/ StageError(r, j) \/
        DeleteCheck(r, j) PROVE EventTracksRun'
  BY <1>1, <1>13 DEF Stage, StageError, DeleteCheck, rowVars, diskVars, threadVars,
       eventVars, history
<1>14. ASSUME NEW r \in Request, Reject(r) \/ CommitError(r) \/ Unstage(r) \/ CancelRead(r)
        \/ Signal(r) \/ DeleteFiles(r) \/ DeleteFilesError(r) \/ RequestDbError(r) PROVE
        EventTracksRun'
  BY <1>1, <1>14 DEF Reject, CommitError, Unstage, CancelRead, Signal, DeleteFiles,
       DeleteFilesError, RequestDbError, Answer, rowVars, diskVars, threadVars, eventVars,
       history
<1>15. CASE UNCHANGED vars
  BY <1>1, <1>15 DEF vars, rowVars, threadVars, eventVars
<1> QED BY <1>40, <1>2, <1>3, <1>4, <1>5, <1>6, <1>7, <1>8, <1>9, <1>10, <1>11, <1>12, <1>13,
       <1>14, <1>15 DEF Next, RequestStart, RequestLockStep, RequestFreeStep, LockStep,
       FreeStep, FaultStep

\* Where a run is, RunInv and DiskInv give what RunHoldsFiles says of its files.
LEMMA RunHoldsFilesFollows == RunInv /\ DiskInv => RunHoldsFiles
BY DEF RunInv, DiskInv, RunHoldsFiles, Working, Active

\* The initial state satisfies the inductive invariant.
LEMMA IndInvInit == Init => IndInv
<1> SUFFICES ASSUME Init PROVE IndInv
  OBVIOUS
<1>1. TypeOK
  BY TargetsAssumption, FaultAssumption
     DEF Init, TypeOK, Active, Terminal, Driven, OnThread, Unclaimed, Working, Handling, Locking
<1>2. RunInv /\ DiskInv
  BY DEF Init, RunInv, DiskInv, Active, Unclaimed, Working, OnThread, Handling
<1>3. UploadInv /\ RequestInv
  BY DEF Init, UploadInv, RequestInv, Locking
<1>4. QueueInv
  BY DEF Init, QueueInv, QueueOk
<1>5. Attended /\ CancelHonoured /\ OutputsOnDisk /\ FoldersAccounted /\ EventTracksRun
  BY DEF Init, Attended, CancelHonoured, OutputsOnDisk, FoldersAccounted, EventTracksRun,
         HasRow, Active, Terminal
<1> QED BY <1>1, <1>2, <1>3, <1>4, <1>5 DEF IndInv

\* Every step keeps it.
LEMMA IndInvStep == IndInv /\ [Next]_vars => IndInv'
<1> SUFFICES ASSUME IndInv, [Next]_vars PROVE IndInv'
  OBVIOUS
<1> USE DEF IndInv
<1>1. TypeOK' /\ RunInv' /\ DiskInv'
  BY TypeOKStep, RunInvStep, DiskInvStep
<1>2. UploadInv' /\ RequestInv' /\ QueueInv'
  BY UploadInvStep, RequestInvStep, QueueInvStep
<1>3. Attended' /\ CancelHonoured' /\ EventTracksRun'
  BY AttendedStep, CancelHonouredStep, EventTracksRunStep
<1>4. OutputsOnDisk' /\ FoldersAccounted'
  BY OutputsOnDiskStep, FoldersAccountedStep
<1> QED BY <1>1, <1>2, <1>3, <1>4

\* The inductive invariant holds in every behaviour of the specification.
THEOREM Invariance == Spec => []IndInv
<1>1. Init => IndInv
  BY IndInvInit
<1>2. IndInv /\ [Next]_vars => IndInv'
  BY IndInvStep
<1> QED BY <1>1, <1>2, PTL DEF Spec

\* Every variable keeps its type.
THEOREM TypeCorrect == Spec => []TypeOK
<1>1. IndInv => TypeOK
  BY DEF IndInv
<1> QED BY <1>1, Invariance, PTL

\* No active row is left without a run, except by a dead process or a write of
\* the outcome that failed: no interleaving of upload, run, cancel and delete
\* requests of any number of processes loses a job.
THEOREM JobsAreAttended == Spec => []Attended
<1>1. IndInv => Attended
  BY DEF IndInv
<1> QED BY <1>1, Invariance, PTL

\* A cancellation answered with 202 is final, whatever happens to the run.
THEOREM CancelIsFinal == Spec => []CancelHonoured
<1>1. IndInv => CancelHonoured
  BY DEF IndInv
<1> QED BY <1>1, Invariance, PTL

\* No delete request takes the folder of a job that a run still works on.
THEOREM RunsKeepTheirFiles == Spec => []RunHoldsFiles
<1>1. IndInv => RunHoldsFiles
  BY RunHoldsFilesFollows DEF IndInv
<1> QED BY <1>1, Invariance, PTL

\* Every listed output can be downloaded until a delete call begins, and a
\* completed job lists all of them.
THEOREM OutputsAreServed == Spec => []OutputsOnDisk
<1>1. IndInv => OutputsOnDisk
  BY DEF IndInv
<1> QED BY <1>1, Invariance, PTL

\* Folders without a row come only from uploads in progress and from faults.
THEOREM NoFolderIsForgotten == Spec => []FoldersAccounted
<1>1. IndInv => FoldersAccounted
  BY DEF IndInv
<1> QED BY <1>1, Invariance, PTL

\* The registry leaks no event and never lacks the event of a live run.
THEOREM EventsTrackRuns == Spec => []EventTracksRun
<1>1. IndInv => EventTracksRun
  BY DEF IndInv
<1> QED BY <1>1, Invariance, PTL

\* Every step of the service is a step of the contract, or leaves the rows alone.
LEMMA ContractStep == ASSUME IndInv, [Next]_vars PROVE [Contract!Next]_Contract!vars
<1> USE DEF IndInv
<1>1. CASE UNCHANGED <<status, outputs, asked>>
  BY <1>1 DEF Contract!vars
<1>2. ASSUME NEW r \in Request, NEW B \in SUBSET Job, UploadStart(r, B) PROVE
        [Contract!Next]_Contract!vars
  BY <1>1, <1>2 DEF UploadStart, Fresh, rowVars, diskVars, threadVars, eventVars, history
<1>3. ASSUME NEW r \in Request, NEW j \in Job, Stage(r, j) \/ StageError(r, j) \/ Submit(r,
        j) \/ DeleteCheck(r, j) PROVE [Contract!Next]_Contract!vars
  BY <1>1, <1>3 DEF Stage, StageError, Submit, DeleteCheck, rowVars, diskVars, threadVars,
       eventVars, history
<1>4. ASSUME NEW r \in Request, Reject(r) \/ CommitError(r) \/ Unstage(r) \/ CancelRead(r)
        \/ Signal(r) \/ DeleteFiles(r) \/ DeleteFilesError(r) \/ RequestDbError(r) PROVE
        [Contract!Next]_Contract!vars
  BY <1>1, <1>4 DEF Reject, CommitError, Unstage, CancelRead, Signal, DeleteFiles,
       DeleteFilesError, RequestDbError, Answer, rowVars, diskVars, threadVars, eventVars,
       history
<1>5. ASSUME NEW p \in Proc, NEW j \in Job, StartRun(p, j) PROVE
        [Contract!Next]_Contract!vars
  BY <1>1, <1>5 DEF StartRun, Goto, rowVars, diskVars, requestVars, history
<1>6. ASSUME NEW j \in Job, ReadRow(j) \/ Load(j) \/ NextTarget(j) \/ Translate(j) \/
        Write(j) \/ WriteError(j) \/ Cleanup(j) \/ DbError(j) \/ HandlerDbError(j) PROVE
        [Contract!Next]_Contract!vars
  BY <1>1, <1>6 DEF ReadRow, Load, NextTarget, Translate, Write, WriteError, Cleanup,
       DbError, HandlerDbError, Goto, StopSeen, StopAt, MayGoOn, rowVars, diskVars,
       requestVars, eventVars, history
<1>7. ASSUME NEW p \in Proc, Crash(p) PROVE [Contract!Next]_Contract!vars
  BY <1>1, <1>7 DEF Crash, Kill, diskVars
<1>8. ASSUME NEW r \in Request, Commit(r) PROVE [Contract!Next]_Contract!vars
  <2>1. /\ batch[r] \in SUBSET Job /\ \A j \in batch[r] : status[j] = "unborn"
        /\ status' = [j \in Job |-> IF j \in batch[r] THEN "queued" ELSE status[j]]
        /\ UNCHANGED <<outputs, asked>>
    BY <1>8 DEF TypeOK, UploadInv, Commit, history
  <2>2. Contract!Accept(batch[r])
    BY <2>1 DEF Contract!Accept
  <2> QED BY <2>1, <2>2 DEF Contract!Next
<1>40. ASSUME NEW r \in Request, CommitAckLost(r) PROVE [Contract!Next]_Contract!vars
  <2>1. /\ batch[r] \in SUBSET Job /\ \A j \in batch[r] : status[j] = "unborn"
        /\ status' = [j \in Job |-> IF j \in batch[r] THEN "queued" ELSE status[j]]
        /\ UNCHANGED <<outputs, asked>>
    BY <1>40 DEF TypeOK, UploadInv, CommitAckLost, Fault, history
  <2>2. Contract!Accept(batch[r])
    BY <2>1 DEF Contract!Accept
  <2> QED BY <2>1, <2>2 DEF Contract!Next
<1>9. ASSUME NEW j \in Job, Claim(j) PROVE [Contract!Next]_Contract!vars
  <2>1. CASE status[j] = "queued"
    <3>1. Contract!Claim(j)
      BY <1>9, <2>1 DEF Claim, history, Contract!Claim, Contract!Move
    <3> QED BY <3>1 DEF Contract!Next
  <2>2. CASE status[j] # "queued"
    BY <1>9, <1>1, <2>2 DEF Claim, history
  <2> QED BY <2>1, <2>2
<1>10. ASSUME NEW j \in Job, Publish(j) PROVE [Contract!Next]_Contract!vars
  <2>1. CASE status[j] = "processing"
    <3>1. outputs[j] = done[j] /\ done[j] < Targets
      BY <1>10, <2>1 DEF DiskInv, Publish, Working
    <3>2. Contract!Publish(j)
      BY <1>10, <2>1, <3>1 DEF TypeOK, Publish, history, Contract!Publish
    <3> QED BY <3>2 DEF Contract!Next
  <2>2. CASE status[j] # "processing"
    BY <1>10, <1>1, <2>2 DEF TypeOK, Publish, history
  <2> QED BY <2>1, <2>2
<1>11. ASSUME NEW j \in Job, Finish(j) PROVE [Contract!Next]_Contract!vars
  <2>1. CASE status[j] = "processing"
    <3>1. outputs[j] = done[j] /\ done[j] = Targets
      BY <1>11, <2>1 DEF DiskInv, Finish, Working
    <3>2. Contract!Complete(j)
      BY <1>11, <2>1, <3>1 DEF TypeOK, Finish, history, Contract!Complete, Contract!Move
    <3> QED BY <3>2 DEF Contract!Next
  <2>2. CASE status[j] # "processing"
    BY <1>11, <1>1, <2>2 DEF Finish, rowVars, history
  <2> QED BY <2>1, <2>2
<1>12. ASSUME NEW j \in Job, Abandon(j) PROVE [Contract!Next]_Contract!vars
  <2>1. status[j] \notin {"queued", "processing"}
    BY <1>12 DEF RunInv, Abandon
  <2>2. CASE status[j] = "canceling"
    <3>1. j \in asked
      BY <2>2 DEF RunInv
    <3>2. Contract!FinishCancel(j)
      BY <1>12, <2>2, <3>1 DEF TypeOK, Abandon, Active, history, Contract!FinishCancel, Contract!Move
    <3> QED BY <3>2 DEF Contract!Next
  <2>3. CASE status[j] # "canceling"
    <3>1. status' = status
      BY <1>12, <2>1, <2>3 DEF TypeOK, Abandon, Active
    <3> QED BY <1>12, <1>1, <3>1 DEF Abandon, history
  <2> QED BY <2>2, <2>3
<1>13. ASSUME NEW j \in Job, Fail(j) PROVE [Contract!Next]_Contract!vars
  <2>1. CASE ~flag[j] /\ status[j] \in {"queued", "processing"}
    <3>1. Contract!Fail(j)
      BY <1>13, <2>1 DEF Fail, history, Contract!Fail, Contract!Move
    <3> QED BY <3>1 DEF Contract!Next
  <2>2. CASE ~(~flag[j] /\ status[j] \in {"queued", "processing"})
    BY <1>13, <1>1, <2>2 DEF Fail, history
  <2> QED BY <2>1, <2>2
<1>14. ASSUME NEW r \in Request, NEW j \in Job, CancelQueued(r, j) PROVE
        [Contract!Next]_Contract!vars
  <2>1. CASE status[j] = "queued"
    <3>1. Contract!Withdraw(j)
      BY <1>14, <2>1 DEF CancelQueued, Contract!Withdraw, Contract!Move
    <3> QED BY <3>1 DEF Contract!Next
  <2>2. CASE status[j] # "queued"
    <3>1. Contract!Ask(j)
      BY <1>14, <2>2 DEF CancelQueued, HasRow, Active, Terminal, Contract!Ask, Contract!Active, Contract!Terminal
    <3> QED BY <3>1 DEF Contract!Next
  <2> QED BY <2>1, <2>2
<1>15. ASSUME NEW r \in Request, CancelRunning(r) PROVE [Contract!Next]_Contract!vars
  <2>1. arg[r] \in Job /\ arg[r] \in asked
    BY <1>15 DEF RequestInv, CancelRunning, Locking
  <2>2. CASE status[arg[r]] = "processing"
    <3>1. Contract!BeginCancel(arg[r])
      BY <1>15, <2>1, <2>2 DEF CancelRunning, history, Contract!BeginCancel, Contract!Move
    <3> QED BY <2>1, <3>1 DEF Contract!Next
  <2>3. CASE status[arg[r]] # "processing"
    BY <1>15, <1>1, <2>3 DEF CancelRunning, history
  <2> QED BY <2>2, <2>3
<1>16. ASSUME NEW r \in Request, DeleteRow(r) PROVE [Contract!Next]_Contract!vars
  <2>1. arg[r] \in Job /\ status[arg[r]] \in Terminal \cup {"gone"}
    BY <1>16 DEF RequestInv, DeleteRow, Locking
  <2>2. CASE status[arg[r]] \in Terminal
    <3>1. Contract!Remove(arg[r])
      BY <1>16, <2>2 DEF DeleteRow, history, Terminal, Contract!Remove, Contract!Move, Contract!Terminal
    <3> QED BY <2>1, <3>1 DEF Contract!Next
  <2>3. CASE status[arg[r]] = "gone"
    <3>1. status' = status
      BY <1>16, <2>1, <2>3 DEF TypeOK, DeleteRow
    <3> QED BY <1>16, <1>1, <3>1 DEF DeleteRow, history
  <2> QED BY <2>1, <2>2, <2>3
<1>17. ASSUME Restart PROVE [Contract!Next]_Contract!vars
  <2>1. Contract!Recover
    BY <1>17 DEF Restart, Kill, Contract!Recover, Contract!Recovered
  <2> QED BY <2>1 DEF Contract!Next
<1>18. CASE UNCHANGED vars
  BY <1>1, <1>18 DEF vars, rowVars, history
<1> QED BY <1>40, <1>2, <1>3, <1>4, <1>5, <1>6, <1>7, <1>8, <1>9, <1>10, <1>11, <1>12, <1>13,
       <1>14, <1>15, <1>16, <1>17, <1>18 DEF Next, RequestStart, RequestLockStep,
       RequestFreeStep, LockStep, FreeStep, FaultStep

\* The service implements its contract: rows appear whole uploads at a time, move
\* only along the contract's transitions, are canceled only on request, and leave
\* only after they ended.
THEOREM ContractImplemented == Spec => ImplementsContract
<1>1. Init => Contract!Init
  BY DEF Init, Contract!Init
<1>2. IndInv /\ [Next]_vars => [Contract!Next]_Contract!vars
  BY ContractStep
<1> QED BY <1>1, <1>2, Invariance, PTL DEF Spec, ImplementsContract, Contract!Spec
=============================================================================
