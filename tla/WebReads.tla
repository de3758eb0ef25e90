------------------------------ MODULE WebReads ------------------------------
(***************************************************************************)
(* Reads, settings and downloads together: they share the request threads, *)
(* the revisions and Redis.  The server may stop at any moment, be         *)
(* restored from a backup of the database and the files while Redis keeps  *)
(* its entries, and start again.                                           *)
(***************************************************************************)
EXTENDS Settings, Downloads

CONSTANTS InitConfigs,  \* captcha configurations the database may begin with
          InitOuts,     \* outputs the job has published by then
          MaxCalls,     \* bound: requests in all
          MaxStops      \* bound: stops of the server

ASSUME BoundsAssumption == MaxCalls \in Nat /\ MaxStops \in Nat /\ InitOuts \in 0..Targets
ASSUME InitAssumption   == \A c \in InitConfigs : c \subseteq Fields /\ Usable(c)

VARIABLES backup,  \* the rows at the time of the backup
          calls,   \* requests begun
          stops,   \* stops of the server
          up       \* whether the server runs

vars == <<cacheVars, lock, fileVars, backup, calls, stops, up>>

Job(s, n) == [status |-> s, outs |-> n]

\* The backup is the database as it is now, with the revisions of now.
Init == /\ \E c \in InitConfigs :
             CacheInit([settings |-> [config |-> c], jobs |-> Job("processing", InitOuts)])
        /\ lock = NoRequest
        /\ FilesInit
        /\ backup = rows
        /\ calls = 0 /\ stops = 0 /\ up = TRUE

OfServer == UNCHANGED <<backup, calls, stops, up>>
OfFiles  == UNCHANGED <<fileVars, backup, calls, stops, up>>
OfLocks  == UNCHANGED <<lock, backup, calls, stops, up>>

\* A request arrives.
Arrive(r) == /\ up
             /\ calls < MaxCalls
             /\ calls' = calls + 1
             /\ \/ /\ ReadSettings(r) \/ Verify(r) \/ \E p \in Payload \cup {Nothing} : Edit(r, p)
                   /\ UNCHANGED fileVars
                \/ (ReadJob(r) \/ Open(r) \/ Delete(r)) /\ UNCHANGED lock
             /\ UNCHANGED <<backup, stops, up>>

Stop == /\ up
        /\ stops < MaxStops
        /\ CacheStop
        /\ FilesStop
        /\ lock' = NoRequest
        /\ stops' = stops + 1
        /\ up' = FALSE
        /\ UNCHANGED <<backup, calls>>

Restore == /\ ~up
           /\ rows' = backup
           /\ rev' = [t \in Table |-> IF t = "settings" THEN 1 ELSE 2]
           /\ folder' = TRUE
           /\ dir' = Outs(backup.jobs.outs)
           /\ deleting' = FALSE
           /\ UNCHANGED <<minted, redis, call, seen, zips, running, lock, backup, calls, stops, up>>

\* Recovery fails a job that was being translated.
Start == /\ ~up
         /\ CacheStart([rows EXCEPT !.jobs.status = IF @ = "processing" THEN "failed" ELSE @])
         /\ up' = TRUE
         /\ UNCHANGED <<lock, fileVars, backup, calls, stops>>

Next == \/ \E r \in Request : \/ Arrive(r)
                              \/ ReadStep(r) /\ OfLocks /\ UNCHANGED fileVars
                              \/ SettingsStep(r) /\ OfFiles
                              \/ DownloadStep(r) /\ OfLocks
        \/ Run /\ OfLocks
        \/ Stop \/ Restore \/ Start

Spec == Init /\ [][Next]_vars

(***************************************************************************)
(* Properties                                                              *)
(***************************************************************************)
TypeOK == /\ rows.settings.config \subseteq Fields
          /\ rows.jobs.status \in {"processing", "completed", "failed", "gone"}
          /\ rows.jobs.outs \in 0..Targets
          /\ \A t \in Table : rev[t] \in 1..minted
          /\ minted \in 2..MaxRevisions
          /\ lock \in Request \cup {NoRequest}
          /\ dir \subseteq ({"out", "zip"} \X (1..Targets)) \cup ({"tmp"} \X Request)
                           \cup {<<"old", 1>>}
          /\ folder \in BOOLEAN /\ deleting \in BOOLEAN /\ running \in BOOLEAN /\ up \in BOOLEAN

Contract == INSTANCE ReadContract WITH
              reading <- [r \in Request |-> Reading(r)],
              answer  <- [r \in Request |-> Answer(r)]

\* Every answer through the cache was in the database between the beginning of the
\* read and its end: whatever writers, other readers, a Redis that comes and goes
\* and a restored backup do to the entries (cached_rows, bump_cache_revision).
ImplementsReads == Contract!Spec

\* No interleaving of partial saves and removals of the secret leaves a captcha
\* that is required and cannot be verified (captcha_settings_error, lock_settings).
CaptchaUsable == Usable(rows.settings.config)

\* A protected action goes through unverified, or fails for a captcha that is not
\* configured, only if during its last read no captcha was required
\* (verify_captcha, verify_token).
CaptchaEnforced ==
  \A r \in Request : call[r].at \in {"admitted", "unavailable"} =>
                       \E c \in seen[r] : ~Required(c.config)

\* An archive holds exactly the outputs the row listed when it was asked for,
\* whether it was built by this request or another one, and a request for listed
\* outputs is refused (404, or 500 between a look at a file and its sending) only
\* after a delete of the job began: an output is on disk before it is listed, and
\* nothing else takes away what a download is packing or sends (run_job, download_output,
\* download_all, build_archive).
ArchiveExact ==
  /\ \A r \in Request : /\ call[r].at = "sent" => call[r].done = Outs(call[r].outs)
                        /\ call[r].at \in {"missing", "failed"} => deleting
  /\ \A n \in 2..Targets : <<"zip", n>> \in dir => zips[n] = Outs(n)

\* A deleted job leaves no file, whatever downloads were packing; a temporary file
\* belongs to a request that packs (delete_job, build_archive).
NothingLeftBehind ==
  /\ TypeOK
  /\ ~folder => dir = {}
  /\ rows.jobs.status = "gone" => ~folder
  /\ \A e \in Temps : call[e[2]].at \in {"pack", "publish", "drop"}
=============================================================================
