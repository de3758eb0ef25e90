----------------------------- MODULE Downloads -----------------------------
(***************************************************************************)
(* The files of one job against the requests that read, pack and delete    *)
(* them: a run that publishes outputs one by one, downloads that cache an  *)
(* archive per list of outputs, a delete that empties the folder entry by  *)
(* entry, and readers of the row.  Requests are of different processes:    *)
(* db_lock, which is local to a process, orders none of them.              *)
(*                                                                         *)
(* Granularity: a step is one statement on the database or one call of the *)
(* file system.                                                            *)
(***************************************************************************)
EXTENDS ReadCache

CONSTANT Targets   \* target languages of the job

ASSUME TargetsAssumption == Targets \in Nat \ {0, 1}

VARIABLES folder,  \* whether the folder of the job exists
          dir,     \* its entries: <<"out", k>>, <<"zip", n>>, <<"tmp", request>>, <<"old", 1>>
          zips,    \* what the archive of the first n outputs holds
          running, \* whether a thread runs the job
          deleting \* history: whether a delete of these files has begun

fileVars == <<folder, dir, zips, running, deleting>>

Outs(n) == {<<"out", k>> : k \in 1..n}
Temps   == {e \in dir : e[1] = "tmp"}
Ended   == {"completed", "failed"}

FilesInit == /\ folder = TRUE
             /\ dir = Outs(rows.jobs.outs)
             /\ zips = [n \in 2..Targets |-> {}]
             /\ running = TRUE
             /\ deleting = FALSE

(***************************************************************************)
(* The run: each output is written to disk, then listed in the row.  A run *)
(* that fails or is canceled only writes the row (JobLifecycle); here the  *)
(* restart of the server ends a run early.                                 *)
(***************************************************************************)
RunWrite == /\ running
            /\ rows.jobs.outs < Targets
            /\ <<"out", rows.jobs.outs + 1>> \notin dir
            /\ dir' = dir \cup {<<"out", rows.jobs.outs + 1>>}
            /\ UNCHANGED <<cacheVars, folder, zips, running, deleting>>

\* Mutant of RunList: an output is listed before its file is there.
RunListFirst == /\ running
                /\ rows.jobs.outs < Targets
                /\ Commit("jobs", [rows.jobs EXCEPT !.outs = @ + 1])
                /\ UNCHANGED <<call, fileVars>>

RunList == /\ running
           /\ rows.jobs.outs < Targets
           /\ <<"out", rows.jobs.outs + 1>> \in dir
           /\ Commit("jobs", [rows.jobs EXCEPT !.outs = @ + 1])
           /\ UNCHANGED <<call, fileVars>>

RunComplete == /\ running
               /\ rows.jobs.outs = Targets
               /\ Commit("jobs", [rows.jobs EXCEPT !.status = "completed"])
               /\ running' = FALSE
               /\ UNCHANGED <<call, folder, dir, zips, deleting>>

Run == RunWrite \/ RunList \/ RunComplete

(***************************************************************************)
(* get_job, list_jobs: the row through the cache.                          *)
(***************************************************************************)
ReadJob(r) == /\ call[r].at = "idle"
              /\ BeginRead(r, "jobs", "answered")
              /\ UNCHANGED fileVars

(***************************************************************************)
(* download_output, download_all, build_archive                            *)
(***************************************************************************)
Move(r, at) == call' = [call EXCEPT ![r].at = at]
Stay        == UNCHANGED <<rows, rev, minted, redis>>

\* owned_job: the outputs listed now; one output is sent as it is.
Open(r) == /\ call[r].at = "idle"
           /\ rows.jobs.status # "gone"
           /\ \/ /\ rows.jobs.outs >= 2
                 /\ call' = [call EXCEPT ![r].at = "find", ![r].outs = rows.jobs.outs]
              \/ \E k \in 1..rows.jobs.outs :
                   call' = [call EXCEPT ![r].at = "file", ![r].outs = k]
           /\ UNCHANGED <<seen, fileVars>> /\ Stay

\* is_file of one output: 404 if it is not there.
CheckFile(r) == /\ call[r].at = "file"
                /\ Move(r, IF <<"out", call[r].outs>> \in dir THEN "sendFile" ELSE "missing")
                /\ UNCHANGED <<seen, fileVars>> /\ Stay

\* send_file opens it.  Nothing catches the error if it is gone by now: 500.
SendFile(r) == /\ call[r].at = "sendFile"
               /\ Move(r, IF <<"out", call[r].outs>> \in dir THEN "sentFile" ELSE "failed")
               /\ UNCHANGED <<seen, fileVars>> /\ Stay

\* The archive of exactly these outputs is there already, or it is built.
Find(r) == /\ call[r].at = "find"
           /\ Move(r, IF <<"zip", call[r].outs>> \in dir THEN "send" ELSE "make")
           /\ UNCHANGED <<seen, fileVars>> /\ Stay

\* mkstemp: 404 when the folder is gone.
Make(r) == /\ call[r].at = "make"
           /\ IF folder THEN Move(r, "pack") /\ dir' = dir \cup {<<"tmp", r>>}
                        ELSE Move(r, "missing") /\ UNCHANGED dir
           /\ UNCHANGED <<seen, folder, zips, running, deleting>> /\ Stay

\* bundle.write of the next output: a missing file ends the request with 404, after
\* `finally' has unlinked the temporary file.
Pack(r) ==
  /\ call[r].at = "pack"
  /\ LET k == Cardinality(call[r].done) + 1
     IN  IF k > call[r].outs
           THEN Move(r, "publish") /\ UNCHANGED dir
         ELSE IF <<"out", k>> \in dir
           THEN /\ call' = [call EXCEPT ![r].done = @ \cup {<<"out", k>>}]
                /\ UNCHANGED dir
         ELSE Move(r, "drop") /\ UNCHANGED dir
  /\ UNCHANGED <<seen, folder, zips, running, deleting>> /\ Stay

Drop(r) == /\ call[r].at = "drop"
           /\ dir' = dir \ {<<"tmp", r>>}
           /\ Move(r, "missing")
           /\ UNCHANGED <<seen, folder, zips, running, deleting>> /\ Stay

\* os.replace: 404 when the temporary file was deleted meanwhile.
Publish(r) == /\ call[r].at = "publish"
              /\ IF <<"tmp", r>> \in dir
                   THEN /\ dir' = (dir \ {<<"tmp", r>>}) \cup {<<"zip", call[r].outs>>}
                        /\ zips' = [zips EXCEPT ![call[r].outs] = call[r].done]
                        /\ Move(r, "send")
                   ELSE Move(r, "missing") /\ UNCHANGED <<dir, zips>>
              /\ UNCHANGED <<seen, folder, running, deleting>> /\ Stay

\* Mutant of SendArchive: the archive is known by its job only.
SendAny(r) == /\ call[r].at = "send"
              /\ \E n \in 2..Targets :
                   /\ <<"zip", n>> \in dir
                   /\ call' = [call EXCEPT ![r].at = "sent", ![r].done = zips[n]]
              /\ UNCHANGED <<seen, fileVars>> /\ Stay

\* send_file opens the archive, found or just built, outside of the `try': 500 if it
\* is gone by now.
SendArchive(r) ==
  /\ call[r].at = "send"
  /\ IF <<"zip", call[r].outs>> \in dir
       THEN call' = [call EXCEPT ![r].at = "sent", ![r].done = zips[call[r].outs]]
       ELSE Move(r, "failed")
  /\ UNCHANGED <<seen, fileVars>> /\ Stay

\* The response has gone out.
Sent(r) == /\ call[r].at \in {"sentFile", "sent", "missing", "failed"}
           /\ End(r)
           /\ UNCHANGED fileVars /\ Stay

(***************************************************************************)
(* delete_job                                                              *)
(***************************************************************************)
\* The row must be there and ended.
Delete(r) == /\ call[r].at = "idle"
             /\ rows.jobs.status \in Ended
             /\ Move(r, "exists")
             /\ deleting' = TRUE
             /\ UNCHANGED <<seen, folder, dir, zips, running>> /\ Stay

FolderExists(r) == /\ call[r].at = "exists"
                   /\ Move(r, IF folder THEN "list" ELSE "deleteRow")
                   /\ UNCHANGED <<seen, fileVars>> /\ Stay

\* rmtree lists the folder: 500 if another request removed it.
List(r) == /\ call[r].at = "list"
           /\ call' = [call EXCEPT ![r] = IF folder THEN [@ EXCEPT !.at = "unlink", !.done = dir]
                                                    ELSE Idle]
           /\ UNCHANGED <<seen, fileVars>> /\ Stay

\* One entry of the listing; one that is gone already is skipped.
Unlink(r) == /\ call[r].at = "unlink"
             /\ \E e \in call[r].done :
                  /\ dir' = dir \ {e}
                  /\ call' = [call EXCEPT ![r].done = @ \ {e}]
             /\ UNCHANGED <<seen, folder, zips, running, deleting>> /\ Stay

\* An entry cannot be unlinked: 500, and the row stays.
UnlinkError(r) == /\ call[r].at = "unlink"
                  /\ call[r].done # {}
                  /\ End(r)
                  /\ UNCHANGED fileVars /\ Stay

\* Mutant of Rmdir: errors of rmtree are ignored.
RmdirIgnored(r) == /\ call[r].at = "unlink"
                   /\ call[r].done = {}
                   /\ Move(r, "deleteRow")
                   /\ folder' = (folder /\ dir # {})
                   /\ UNCHANGED <<seen, dir, zips, running, deleting>> /\ Stay

\* A folder that got a new entry since it was listed, or that another request
\* removed, is an error too.
Rmdir(r) == /\ call[r].at = "unlink"
            /\ call[r].done = {}
            /\ IF folder /\ dir = {}
                 THEN folder' = FALSE /\ Move(r, "deleteRow")
                 ELSE call' = [call EXCEPT ![r] = Idle] /\ UNCHANGED folder
            /\ UNCHANGED <<seen, dir, zips, running, deleting>> /\ Stay

DeleteRow(r) == /\ call[r].at = "deleteRow"
                /\ Commit("jobs", [status |-> "gone", outs |-> 0])
                /\ call' = [call EXCEPT ![r] = Idle]
                /\ UNCHANGED fileVars

DownloadStep(r) == \/ CheckFile(r) \/ SendFile(r) \/ Find(r) \/ Make(r) \/ Pack(r) \/ Drop(r)
                   \/ Publish(r) \/ SendArchive(r) \/ Sent(r)
                   \/ FolderExists(r) \/ List(r) \/ Unlink(r) \/ UnlinkError(r)
                   \/ Rmdir(r) \/ DeleteRow(r)

(***************************************************************************)
(* The server stops, with whatever temporary file a request was writing.   *)
(***************************************************************************)
FilesStop == /\ dir' = (dir \ Temps) \cup {<<"old", 1>> : e \in Temps}
             /\ running' = FALSE
             /\ UNCHANGED <<folder, zips, deleting>>
=============================================================================
