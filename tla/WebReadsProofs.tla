--------------------------- MODULE WebReadsProofs ---------------------------
(***************************************************************************)
(* Reads through the cache implement ReadContract, a captcha stays usable  *)
(* and enforced, archives are exact and a delete leaves nothing behind,    *)
(* for any number of requests, payloads, targets and revisions.            *)
(***************************************************************************)
EXTENDS WebReads, FiniteSetTheorems, TLAPS

-----------------------------------------------------------------------------
(* The inductive invariant *)

SettingsRow == [config : SUBSET Fields]
JobRow      == [status : {"processing", "completed", "failed", "gone"}, outs : 0..Targets]
Contents    == SettingsRow \cup JobRow
Entry       == ({"out", "zip"} \X (1..Targets)) \cup ({"tmp"} \X Request) \cup {<<"old", 1>>}

InEdit    == {"lock", "check", "write", "reread"}
InCheck   == {"decide", "ask"}
Answered  == {"answered", "admitted", "unavailable"}
InFile    == {"file", "sendFile"}
Packing   == {"pack", "publish", "drop"}
InArchive == {"find", "make", "send"} \cup Packing
InDelete  == {"exists", "list", "unlink", "deleteRow"}
Over      == {"sentFile", "sent", "missing", "failed"}
Places    == {"idle"} \cup InFile \cup Over \cup InRead \cup InEdit \cup InCheck
             \cup Answered \cup InArchive \cup InDelete

Calls == [at : Places, then : {"idle", "answered", "decide", "ask"},
          table : Table \cup {Nothing}, key : 0..MaxRevisions,
          snap : Contents \cup {Nothing}, value : Contents \cup {Nothing},
          arg : Payload \cup {Nothing}, outs : 0..Targets, done : SUBSET Entry]

Types ==
  /\ TypeOK
  /\ rows \in [settings : SettingsRow, jobs : JobRow]
  /\ backup \in [settings : SettingsRow, jobs : JobRow]
  /\ rev \in [Table -> 1..MaxRevisions]
  /\ redis \in [1..MaxRevisions -> Contents \cup {Nothing}]
  /\ call \in [Request -> Calls]
  /\ seen \in [Request -> SUBSET Contents]
  /\ zips \in [2..Targets -> SUBSET Entry]

\* A revision belongs to one table, nothing is stored under one that is not given out,
\* and what is stored under a current one is current.
CacheOK ==
  /\ rev["settings"] # rev["jobs"]
  /\ \A k \in 1..MaxRevisions : k > minted => redis[k] = Nothing
  /\ up => \A t \in Table : redis[rev[t]] \in {Nothing, rows[t]}

\* What a read has of its table in hand.
Held(r) == IF call[r].at = "store" THEN call[r].value ELSE call[r].snap

\* Whatever a read can still return was seen since it began: what it or another read
\* of the same revision holds, what is stored under that revision, what is there now.
ReadOK(r) ==
  call[r].at \in InRead =>
    LET t == call[r].table
        k == call[r].key
    IN  /\ t \in Table /\ k \in 1..minted /\ call[r].then # "idle"
        /\ rows[t] \in seen[r]
        /\ redis[k] \in seen[r] \cup {Nothing}
        /\ \A u \in Table : rev[u] = k => u = t /\ Held(r) = rows[t]
        /\ \A q \in Request : call[q].at \in InRead /\ call[q].key = k =>
             call[q].table = t /\ Held(q) \in seen[r]

\* Outside of a read a request has a value only to answer with or to decide on, and
\* it was seen; nobody is at work while the server is down.
UseOK(r) ==
  /\ call[r].at \notin InRead \cup InCheck \cup Answered => call[r].value = Nothing
  /\ call[r].at \in InCheck => call[r].value \in seen[r]
  /\ ~up => call[r] = Idle /\ seen[r] = {}

\* The stored settings are usable, those of the backup too.
CaptchaOK == Usable(rows.settings.config) /\ Usable(backup.settings.config)

\* A change of the settings is checked and written under the lock, and every state of
\* them that a read of a protected action may see is usable.
ChangeOK(r) ==
  /\ call[r].at \in {"check", "write"} => lock = r
  /\ call[r].at = "write" => IF call[r].arg = Nothing THEN ~Required(rows.settings.config)
                                                     ELSE ~Rejected(rows.settings.config, call[r].arg)
  /\ call[r].at \in InRead /\ call[r].then \in InCheck => call[r].table = "settings"
  /\ call[r].at \in InCheck \/ (call[r].at \in InRead /\ call[r].table = "settings") =>
       \A c \in seen[r] : Usable(c.config)
  /\ call[r].at \in {"admitted", "unavailable"} => \E c \in seen[r] : ~Required(c.config)

\* Until a delete begins, what is listed is on disk and what a download is packing is
\* left alone; a delete begins when no thread runs the job any more.
FilesOK ==
  /\ \A n \in 2..Targets : <<"zip", n>> \in dir => zips[n] = Outs(n)
  /\ ~folder => dir = {}
  /\ rows.jobs.status = "gone" => ~folder
  /\ rows.jobs.status = "processing" => ~deleting
  /\ running => up /\ rows.jobs.status = "processing"
  /\ backup.jobs = Job("processing", InitOuts)
  /\ \A e \in Temps : call[e[2]].at \in Packing
  /\ ~deleting => folder /\ Outs(rows.jobs.outs) \subseteq dir

DownloadOK(r) ==
  /\ call[r].at \in InArchive \cup {"sent"} => call[r].outs \in 2..Targets
  /\ call[r].at \in InFile => call[r].outs \in 1..Targets
  /\ ~deleting /\ call[r].at \in InArchive \cup InFile => call[r].outs <= rows.jobs.outs
  /\ ~deleting /\ call[r].at \in {"pack", "publish"} => <<"tmp", r>> \in dir
  /\ ~deleting /\ call[r].at = "send" => <<"zip", call[r].outs>> \in dir
  /\ call[r].at \in {"idle", "find", "make"} => call[r].done = {}
  /\ call[r].at = "pack" => \E n \in 0..call[r].outs : call[r].done = Outs(n)
  /\ call[r].at \in {"publish", "sent"} => call[r].done = Outs(call[r].outs)
  /\ call[r].at \in {"missing", "failed", "drop"} => deleting
  /\ call[r].at \in InDelete => deleting
  /\ call[r].at = "deleteRow" => ~folder

ReadInv    == CacheOK /\ \A r \in Request : ReadOK(r) /\ UseOK(r)
CaptchaInv == CaptchaOK /\ \A r \in Request : ChangeOK(r)
FileInv    == FilesOK /\ \A r \in Request : DownloadOK(r)

IndInv == Types /\ ReadInv /\ CaptchaInv /\ FileInv

-----------------------------------------------------------------------------
(* Lemmas                                                                   *)

\* What a request does with its own entry of `call' leaves the others alone.
Others(r) == \A q \in Request \ {r} : call'[q] = call[q]

\* The ways in which a request changes its entry, by name.
Loaded(r, v)     == call' = [call EXCEPT ![r].at = "store", ![r].value = v, ![r].snap = Nothing]
ArgSet(r, x, p)  == call' = [call EXCEPT ![r].at = x, ![r].arg = p]
OutsSet(r, x, n) == call' = [call EXCEPT ![r].at = x, ![r].outs = n]
DoneSet(r, x, d) == \/ call' = [call EXCEPT ![r].at = x, ![r].done = d]
                    \/ call' = [call EXCEPT ![r].done = d] /\ x = call[r].at

\* The fields of an entry by their types.
LEMMA Fielded ==
  ASSUME Types, NEW r \in Request
  PROVE  /\ call[r] \in Calls
         /\ call[r].at \in Places /\ call[r].then \in {"idle", "answered", "decide", "ask"}
         /\ call[r].table \in Table \cup {Nothing} /\ call[r].key \in 0..MaxRevisions
         /\ call[r].snap \in Contents \cup {Nothing} /\ call[r].value \in Contents \cup {Nothing}
         /\ call[r].arg \in Payload \cup {Nothing} /\ call[r].outs \in 0..Targets
         /\ call[r].done \subseteq Entry
         /\ seen[r] \subseteq Contents
<1>1. call[r] \in Calls /\ seen[r] \subseteq Contents
  BY DEF Types
<1> QED
  BY <1>1 DEF Calls

\* A request moves on.
LEMMA MoveFacts ==
  ASSUME Types, NEW r \in Request, NEW x \in Places, call' = [call EXCEPT ![r].at = x]
  PROVE  /\ call' \in [Request -> Calls] /\ Others(r)
         /\ call'[r] = [call[r] EXCEPT !.at = x]
         /\ call'[r].at = x /\ call'[r].then = call[r].then /\ call'[r].table = call[r].table
         /\ call'[r].key = call[r].key /\ call'[r].snap = call[r].snap
         /\ call'[r].value = call[r].value /\ call'[r].arg = call[r].arg
         /\ call'[r].outs = call[r].outs /\ call'[r].done = call[r].done
<1>1. call'[r] = [call[r] EXCEPT !.at = x] /\ call[r] \in Calls /\ Others(r)
  BY DEF Types, Others
<1>2. call'[r] \in Calls
  BY <1>1, Fielded DEF Calls
<1>3. call' \in [Request -> Calls]
  BY <1>2 DEF Types, Others
<1> QED
  BY <1>1, <1>2, <1>3 DEF Calls

\* A request begins to read.
LEMMA BeginFacts ==
  ASSUME Types, NEW r \in Request, NEW t \in Table, NEW then \in {"answered", "decide", "ask"},
         BeginRead(r, t, then)
  PROVE  /\ call' \in [Request -> Calls] /\ Others(r)
         /\ call'[r].at \in {"get", "load"} /\ call'[r].then = then /\ call'[r].table = t
         /\ call'[r].key = rev[t] /\ call'[r].snap = rows[t] /\ call'[r].value = Nothing
         /\ call'[r].arg = call[r].arg /\ call'[r].outs = call[r].outs /\ call'[r].done = call[r].done
         /\ rows[t] \in Contents
<1>1. PICK at \in {"get", "load"} :
        call' = [call EXCEPT ![r].at = at, ![r].then = then, ![r].table = t,
                             ![r].key = rev[t], ![r].snap = rows[t], ![r].value = Nothing]
  BY DEF BeginRead
<1>2. call'[r] = [call[r] EXCEPT !.at = at, !.then = then, !.table = t,
                                 !.key = rev[t], !.snap = rows[t], !.value = Nothing]
  BY <1>1 DEF Types
<1>3. rows[t] \in Contents /\ rev[t] \in 0..MaxRevisions
  BY DEF Types, Table, Contents
<1>4. call[r] \in Calls /\ Others(r)
  BY <1>1 DEF Types, Others
<1>5. /\ call'[r].at = at /\ call'[r].then = then /\ call'[r].table = t
      /\ call'[r].key = rev[t] /\ call'[r].snap = rows[t] /\ call'[r].value = Nothing
      /\ call'[r].arg = call[r].arg /\ call'[r].outs = call[r].outs /\ call'[r].done = call[r].done
  BY <1>2, <1>4 DEF Calls
<1>6. call'[r] \in Calls
  <2>1. at \in Places
    BY DEF Places, InRead
  <2> QED
    BY <1>2, <1>3, <1>4, <2>1 DEF Calls
<1>7. call' \in [Request -> Calls]
  BY <1>1, <1>4, <1>6 DEF Types, Others
<1> QED
  BY <1>3, <1>4, <1>5, <1>7

\* A read returns.
LEMMA DeliverFacts ==
  ASSUME Types, NEW r \in Request, NEW v \in Contents \cup {Nothing},
         Deliver(r , v), call[r].then # "idle"
  PROVE  /\ call' \in [Request -> Calls] /\ Others(r)
         /\ call'[r].at = call[r].then /\ call'[r].then = call[r].then /\ call'[r].table = call[r].table
         /\ call'[r].key = 0 /\ call'[r].snap = Nothing /\ call'[r].value = v
         /\ call'[r].arg = call[r].arg /\ call'[r].outs = call[r].outs /\ call'[r].done = call[r].done
<1>1. call'[r] = [call[r] EXCEPT !.at = call[r].then, !.value = v, !.key = 0, !.snap = Nothing]
      /\ call[r] \in Calls /\ Others(r)
  BY DEF Types, Others, Deliver
<1>2. /\ call'[r].at = call[r].then /\ call'[r].then = call[r].then /\ call'[r].table = call[r].table
      /\ call'[r].key = 0 /\ call'[r].snap = Nothing /\ call'[r].value = v
      /\ call'[r].arg = call[r].arg /\ call'[r].outs = call[r].outs /\ call'[r].done = call[r].done
  BY <1>1 DEF Calls
<1>3. call'[r] \in Calls
  <2>1. call[r].then \in Places /\ 0 \in 0..MaxRevisions
    BY Fielded, RevisionsAssumption DEF Places, InCheck, Answered
  <2> QED
    BY <1>1, <2>1 DEF Calls
<1>4. call' \in [Request -> Calls]
  BY <1>1, <1>3 DEF Types, Deliver
<1> QED
  BY <1>1, <1>2, <1>4

LEMMA IdleCall == Idle \in Calls
BY RevisionsAssumption, TargetsAssumption DEF Idle, Calls, Places

\* A request is over.
LEMMA IdleFacts ==
  ASSUME Types, NEW r \in Request, call' = [call EXCEPT ![r] = Idle]
  PROVE  /\ call' \in [Request -> Calls] /\ Others(r)
         /\ call'[r].at = "idle" /\ call'[r].value = Nothing /\ call'[r].done = {}
BY IdleCall DEF Types, Others, Idle

\* The rows are loaded.
LEMMA LoadFacts ==
  ASSUME Types, NEW r \in Request, NEW v \in Contents \cup {Nothing},
         Loaded(r, v)
  PROVE  /\ call' \in [Request -> Calls] /\ Others(r)
         /\ call'[r].at = "store" /\ call'[r].then = call[r].then /\ call'[r].table = call[r].table
         /\ call'[r].key = call[r].key /\ call'[r].snap = Nothing /\ call'[r].value = v
         /\ call'[r].arg = call[r].arg /\ call'[r].outs = call[r].outs /\ call'[r].done = call[r].done
<1>1. call'[r] = [call[r] EXCEPT !.at = "store", !.value = v, !.snap = Nothing]
      /\ call[r] \in Calls /\ Others(r)
  BY DEF Types, Others, Loaded
<1>2. /\ call'[r].at = "store" /\ call'[r].then = call[r].then /\ call'[r].table = call[r].table
      /\ call'[r].key = call[r].key /\ call'[r].snap = Nothing /\ call'[r].value = v
      /\ call'[r].arg = call[r].arg /\ call'[r].outs = call[r].outs /\ call'[r].done = call[r].done
  BY <1>1 DEF Calls
<1>3. call'[r] \in Calls
  <2>1. "store" \in Places
    BY DEF Places, InRead
  <2> QED
    BY <1>1, <2>1 DEF Calls
<1>4. call' \in [Request -> Calls]
  BY <1>1, <1>3 DEF Types, Loaded
<1> QED
  BY <1>1, <1>2, <1>4

\* A change of the settings takes its payload, or puts it away.
LEMMA ArgFacts ==
  ASSUME Types, NEW r \in Request, NEW x \in Places, NEW p \in Payload \cup {Nothing},
         ArgSet(r, x, p)
  PROVE  /\ call' \in [Request -> Calls] /\ Others(r)
         /\ call'[r].at = x /\ call'[r].then = call[r].then /\ call'[r].table = call[r].table
         /\ call'[r].key = call[r].key /\ call'[r].snap = call[r].snap /\ call'[r].value = call[r].value
         /\ call'[r].arg = p /\ call'[r].outs = call[r].outs /\ call'[r].done = call[r].done
<1>1. call'[r] = [call[r] EXCEPT !.at = x, !.arg = p] /\ call[r] \in Calls /\ Others(r)
  BY DEF Types, Others, ArgSet
<1>2. /\ call'[r].at = x /\ call'[r].then = call[r].then /\ call'[r].table = call[r].table
      /\ call'[r].key = call[r].key /\ call'[r].snap = call[r].snap /\ call'[r].value = call[r].value
      /\ call'[r].arg = p /\ call'[r].outs = call[r].outs /\ call'[r].done = call[r].done
  BY <1>1 DEF Calls
<1>3. call'[r] \in Calls
  BY <1>1 DEF Calls
<1>4. call' \in [Request -> Calls]
  BY <1>1, <1>3 DEF Types, ArgSet
<1> QED
  BY <1>1, <1>2, <1>4

\* A download learns how many outputs are listed.
LEMMA OutsFacts ==
  ASSUME Types, NEW r \in Request, NEW x \in Places, NEW n \in 0..Targets,
         OutsSet(r, x, n)
  PROVE  /\ call' \in [Request -> Calls] /\ Others(r)
         /\ call'[r].at = x /\ call'[r].then = call[r].then /\ call'[r].table = call[r].table
         /\ call'[r].key = call[r].key /\ call'[r].snap = call[r].snap /\ call'[r].value = call[r].value
         /\ call'[r].arg = call[r].arg /\ call'[r].outs = n /\ call'[r].done = call[r].done
<1>1. call'[r] = [call[r] EXCEPT !.at = x, !.outs = n] /\ call[r] \in Calls /\ Others(r)
  BY DEF Types, Others, OutsSet
<1>2. /\ call'[r].at = x /\ call'[r].then = call[r].then /\ call'[r].table = call[r].table
      /\ call'[r].key = call[r].key /\ call'[r].snap = call[r].snap /\ call'[r].value = call[r].value
      /\ call'[r].arg = call[r].arg /\ call'[r].outs = n /\ call'[r].done = call[r].done
  BY <1>1 DEF Calls
<1>3. call'[r] \in Calls
  BY <1>1 DEF Calls
<1>4. call' \in [Request -> Calls]
  BY <1>1, <1>3 DEF Types, OutsSet
<1> QED
  BY <1>1, <1>2, <1>4

\* A download or a delete goes on with a set of entries.
LEMMA DoneFacts ==
  ASSUME Types, NEW r \in Request, NEW x \in Places, NEW d \in SUBSET Entry,
         DoneSet(r, x, d)
  PROVE  /\ call' \in [Request -> Calls] /\ Others(r)
         /\ call'[r].at = x /\ call'[r].then = call[r].then /\ call'[r].table = call[r].table
         /\ call'[r].key = call[r].key /\ call'[r].snap = call[r].snap /\ call'[r].value = call[r].value
         /\ call'[r].arg = call[r].arg /\ call'[r].outs = call[r].outs /\ call'[r].done = d
<1>1. call'[r] = [call[r] EXCEPT !.at = x, !.done = d] /\ call[r] \in Calls /\ Others(r)
  BY DEF Types, Others, DoneSet
<1>2. /\ call'[r].at = x /\ call'[r].then = call[r].then /\ call'[r].table = call[r].table
      /\ call'[r].key = call[r].key /\ call'[r].snap = call[r].snap /\ call'[r].value = call[r].value
      /\ call'[r].arg = call[r].arg /\ call'[r].outs = call[r].outs /\ call'[r].done = d
  BY <1>1 DEF Calls
<1>3. call'[r] \in Calls
  BY <1>1 DEF Calls
<1>4. call' \in [Request -> Calls]
  BY <1>1, <1>3 DEF Types, DoneSet
<1> QED
  BY <1>1, <1>2, <1>4

-----------------------------------------------------------------------------
(* What a step leaves alone *)

\* The types of a step that commits nothing.
LEMMA TypesQuiet ==
  ASSUME Types, UNCHANGED <<rows, rev, minted, backup, up>>,
         redis' \in [1..MaxRevisions -> Contents \cup {Nothing}],
         call' \in [Request -> Calls], seen' \in [Request -> SUBSET Contents],
         lock' \in Request \cup {NoRequest}, dir' \subseteq Entry, zips' \in [2..Targets -> SUBSET Entry],
         folder' \in BOOLEAN, deleting' \in BOOLEAN, running' \in BOOLEAN
  PROVE  Types'
BY DEF Types, TypeOK, Entry

\* The types of a transaction.
LEMMA TypesCommit ==
  ASSUME Types, NEW t \in Table, NEW c \in Contents, Commit(t, c),
         t = "settings" => c \in SettingsRow, t = "jobs" => c \in JobRow,
         call' \in [Request -> Calls], lock' \in Request \cup {NoRequest},
         UNCHANGED <<folder, dir, zips, deleting, backup, up>>, running' \in BOOLEAN
  PROVE  /\ Types'
         /\ rows'[t] = c /\ \A u \in Table \ {t} : rows'[u] = rows[u]
         /\ rev'[t] = minted + 1 /\ \A u \in Table \ {t} : rev'[u] = rev[u]
         /\ minted' = minted + 1 /\ redis' = redis /\ minted \in Nat /\ minted + 1 <= MaxRevisions
         /\ \A r \in Request : seen'[r] = IF Reading(r) = t THEN seen[r] \cup {c} ELSE seen[r]
<1>1. /\ minted < MaxRevisions /\ minted' = minted + 1
      /\ rows' = [rows EXCEPT ![t] = c] /\ rev' = [rev EXCEPT ![t] = minted + 1]
      /\ seen' = [r \in Request |-> IF Reading(r) = t THEN seen[r] \cup {c} ELSE seen[r]]
      /\ redis' = redis
  BY DEF Commit
<1>2. minted \in Nat /\ minted + 1 \in 2..MaxRevisions /\ minted \in 2..MaxRevisions
  BY <1>1, RevisionsAssumption DEF Types, TypeOK
<1>3. rows' \in [settings : SettingsRow, jobs : JobRow] /\ rows'[t] = c
      /\ \A u \in Table \ {t} : rows'[u] = rows[u]
  BY <1>1 DEF Types, Table
<1>4. /\ rev' \in [Table -> 1..MaxRevisions] /\ rev'[t] = minted + 1
      /\ \A u \in Table \ {t} : rev'[u] = rev[u]
      /\ \A u \in Table : rev'[u] \in 1..(minted + 1)
  BY <1>1, <1>2, RevisionsAssumption DEF Types, TypeOK
<1>5. seen' \in [Request -> SUBSET Contents]
  BY <1>1 DEF Types
<1>6. /\ rows'.settings.config \subseteq Fields
      /\ rows'.jobs.status \in {"processing", "completed", "failed", "gone"}
      /\ rows'.jobs.outs \in 0..Targets
  BY <1>3 DEF SettingsRow, JobRow
<1>7. TypeOK'
  BY <1>1, <1>2, <1>4, <1>6 DEF Types, TypeOK
<1> QED
  BY <1>1, <1>2, <1>3, <1>4, <1>5, <1>7 DEF Types

\* Requests that neither were reading nor begin to.
StaysOut(q) == call'[q] = call[q] \/ (call[q].at \notin InRead /\ call'[q].at \notin InRead)

LEMMA ReadsQuiet ==
  ASSUME IndInv, UNCHANGED <<rows, rev, minted, redis, up>>,
         \A q \in Request : StaysOut(q) /\ UseOK(q)',
         \A q \in Request : call[q].at \in InRead => seen'[q] = seen[q]
  PROVE  ReadInv'
<1>1. CacheOK'
  BY DEF IndInv, ReadInv, CacheOK
<1>2. ASSUME NEW r \in Request, call'[r].at \in InRead
      PROVE  ReadOK(r)'
  <2>1. call'[r] = call[r] /\ call[r].at \in InRead /\ seen'[r] = seen[r] /\ ReadOK(r)
    BY <1>2 DEF StaysOut, IndInv, ReadInv
  <2>2. \A q \in Request : call'[q].at \in InRead => call'[q] = call[q]
    BY DEF StaysOut
  <2> QED
    BY <2>1, <2>2 DEF ReadOK, Held
<1> QED
  BY <1>1, <1>2 DEF ReadInv, ReadOK

\* A commit makes every read of its table out of date, whose key is then nobody's
\* revision, and shows it the new contents.
LEMMA ReadsCommit ==
  ASSUME IndInv, Types', NEW t \in Table, NEW c \in Contents, UNCHANGED up,
         rows'[t] = c, \A u \in Table \ {t} : rows'[u] = rows[u],
         rev'[t] = minted + 1, \A u \in Table \ {t} : rev'[u] = rev[u],
         minted' = minted + 1, redis' = redis, minted \in Nat, minted + 1 <= MaxRevisions,
         \A r \in Request : seen'[r] = IF Reading(r) = t THEN seen[r] \cup {c} ELSE seen[r],
         \A q \in Request : StaysOut(q) /\ UseOK(q)'
  PROVE  ReadInv'
<1>1. \A u \in Table : rev[u] \in 1..minted /\ rev[u] \in 1..MaxRevisions
  BY DEF IndInv, Types, TypeOK
<1>2. CacheOK'
  <2>1. redis[minted + 1] = Nothing
    BY DEF IndInv, ReadInv, CacheOK
  <2>2. rev'["settings"] # rev'["jobs"]
    BY <1>1 DEF IndInv, ReadInv, CacheOK, Table
  <2>3. \A k \in 1..MaxRevisions : k > minted' => redis'[k] = Nothing
    BY DEF IndInv, ReadInv, CacheOK
  <2>4. up' => \A u \in Table : redis'[rev'[u]] \in {Nothing, rows'[u]}
    BY <2>1 DEF IndInv, ReadInv, CacheOK
  <2> QED
    BY <2>2, <2>3, <2>4 DEF CacheOK
<1>3. ASSUME NEW r \in Request, call'[r].at \in InRead
      PROVE  ReadOK(r)'
  <2>1. call'[r] = call[r] /\ call[r].at \in InRead /\ ReadOK(r)
    BY <1>3 DEF StaysOut, IndInv, ReadInv
  <2>2. \A q \in Request : call'[q].at \in InRead => call'[q] = call[q]
    BY DEF StaysOut
  <2>3. seen[r] \subseteq seen'[r] /\ Reading(r) = call[r].table
    BY <2>1 DEF Reading
  <2>4. call[r].key \in 1..minted /\ call[r].table \in Table /\ call[r].key \in 1..minted'
    BY <2>1 DEF ReadOK
  <2>5. rows'[call[r].table] \in seen'[r]
    BY <2>1, <2>3, <2>4 DEF ReadOK
  <2>6. \A u \in Table : rev'[u] = call[r].key => u # t /\ rev[u] = call[r].key
    BY <2>4
  <2> QED
    BY <2>1, <2>2, <2>3, <2>4, <2>5, <2>6 DEF ReadOK, Held
<1> QED
  BY <1>2, <1>3 DEF ReadInv, ReadOK

\* Steps that do not touch what a captcha depends on: requests with nothing to do with
\* it may move, readers of the jobs may see new ones.
AwayFromCaptcha(q) ==
  \/ call'[q] = call[q] /\ (seen'[q] = seen[q] \/ Reading(q) = "jobs")
  \/ /\ call'[q].at \notin {"check", "write", "admitted", "unavailable"} \cup InCheck
     /\ call'[q].at \notin InRead \/ (call'[q].table = "jobs" /\ call'[q].then = "answered")

LEMMA AwayQuiet ==
  ASSUME IndInv, rows'.settings = rows.settings, UNCHANGED lock,
         NEW r \in Request, AwayFromCaptcha(r)
  PROVE  ChangeOK(r)'
<1>0. Reading(r) = "jobs" => call[r].at \in InRead /\ call[r].table = "jobs"
  BY NothingAssumption DEF Reading, Table
<1>1. ASSUME call'[r].at \in {"check", "write", "admitted", "unavailable"}
      PROVE  call'[r] = call[r] /\ seen'[r] = seen[r]
  <2>1. call'[r].at \notin InRead
    BY <1>1 DEF InRead
  <2> QED
    BY <1>0, <1>1, <2>1 DEF AwayFromCaptcha
<1>2. ASSUME call'[r].at \in InCheck \/ (call'[r].at \in InRead /\ call'[r].table = "settings")
      PROVE  call'[r] = call[r] /\ seen'[r] = seen[r]
  <2>1. call'[r].at \in InCheck => call'[r].at \notin InRead
    BY DEF InCheck, InRead
  <2>2. call'[r] = call[r] /\ (seen'[r] = seen[r] \/ Reading(r) = "jobs")
    BY <1>2, <2>1 DEF AwayFromCaptcha
  <2> QED
    BY <1>0, <1>2, <2>1, <2>2
<1>3. ASSUME call'[r].at \in InRead, call'[r].then \in InCheck
      PROVE  call'[r].table = "settings"
  <2>1. call'[r] = call[r]
    BY <1>3 DEF AwayFromCaptcha, InCheck
  <2> QED
    BY <1>3, <2>1 DEF IndInv, CaptchaInv, ChangeOK
<1>4. ChangeOK(r)
  BY DEF IndInv, CaptchaInv
<1> QED
  BY <1>1, <1>2, <1>3, <1>4 DEF ChangeOK

LEMMA CaptchaQuiet ==
  ASSUME IndInv, rows'.settings = rows.settings, UNCHANGED <<backup, lock>>,
         \A q \in Request : AwayFromCaptcha(q) \/ ChangeOK(q)'
  PROVE  CaptchaInv'
<1>1. CaptchaOK'
  BY DEF IndInv, CaptchaInv, CaptchaOK
<1>2. \A q \in Request : ChangeOK(q)'
  BY AwayQuiet
<1> QED
  BY <1>1, <1>2 DEF CaptchaInv

\* Steps of requests that have nothing to do with the files.
AwayFromFiles(q) ==
  \/ call'[q] = call[q]
  \/ /\ {call[q].at, call'[q].at} \cap (InFile \cup Over \cup InArchive \cup InDelete) = {}
     /\ call'[q].at = "idle" => call'[q].done = {}

LEMMA FilesQuiet ==
  ASSUME IndInv, UNCHANGED fileVars, rows'.jobs = rows.jobs, UNCHANGED <<backup, up>>,
         \A q \in Request : AwayFromFiles(q)
  PROVE  FileInv'
<1>1. UNCHANGED <<folder, dir, zips, running, deleting>>
  BY DEF fileVars
<1>2. \A e \in Temps : e[2] \in Request
  BY DEF IndInv, Types, TypeOK, Temps
<1>3. FilesOK'
  <2>1. \A e \in Temps : call'[e[2]].at \in Packing
    BY <1>2 DEF IndInv, FileInv, FilesOK, AwayFromFiles, InArchive
  <2> QED
    BY <1>1, <2>1 DEF IndInv, FileInv, FilesOK, Temps
<1>4. ASSUME NEW r \in Request
      PROVE  DownloadOK(r)'
  <2>1. CASE call'[r] = call[r]
    BY <1>1, <2>1 DEF IndInv, FileInv, DownloadOK
  <2>2. CASE call'[r] # call[r]
    BY <2>2 DEF AwayFromFiles, DownloadOK, InArchive, InDelete, Packing, Over
  <2> QED
    BY <2>1, <2>2
<1> QED
  BY <1>3, <1>4 DEF FileInv

-----------------------------------------------------------------------------
(* Reads *)

LEMMA BeginStep ==
  ASSUME IndInv, up, NEW r \in Request, NEW t \in Table, NEW then \in {"answered", "decide", "ask"},
         BeginRead(r, t, then), call[r].at \notin InRead, UNCHANGED up
  PROVE  ReadInv' /\ seen' \in [Request -> SUBSET Contents]
         /\ seen'[r] = {rows[t]} /\ \A q \in Request \ {r} : seen'[q] = seen[q]
<1>1. Types
  BY DEF IndInv
<1>2. /\ Others(r) /\ call'[r].at \in {"get", "load"} /\ call'[r].then = then
      /\ call'[r].table = t /\ call'[r].key = rev[t] /\ call'[r].snap = rows[t]
      /\ rows[t] \in Contents
  BY <1>1, BeginFacts
<1>3. /\ seen' = [seen EXCEPT ![r] = {rows[t]}]
      /\ UNCHANGED <<rows, rev, minted, redis>>
  BY DEF BeginRead
<1>4. /\ seen' \in [Request -> SUBSET Contents]
      /\ seen'[r] = {rows[t]} /\ \A q \in Request \ {r} : seen'[q] = seen[q]
  BY <1>1, <1>2, <1>3 DEF Types
<1>5. CacheOK'
  BY <1>3 DEF IndInv, ReadInv, CacheOK
<1>6. call'[r].at \in InRead /\ Held(r)' = rows[t]
  BY <1>2 DEF InRead, Held
<1>7. rev[t] \in 1..minted /\ \A u \in Table : rev[u] = rev[t] => u = t
  BY DEF IndInv, ReadInv, CacheOK, Types, TypeOK, Table
<1>8. \A q \in Request \ {r} : call'[q] = call[q] /\ (Held(q)' = Held(q))
  BY <1>2 DEF Others, Held
\* Who reads under the same revision has the same rows.
<1>9. ASSUME NEW q \in Request \ {r}, call[q].at \in InRead, call[q].key = rev[t]
      PROVE  call[q].table = t /\ Held(q) = rows[t] /\ rows[t] \in seen[q]
  BY <1>9 DEF IndInv, ReadInv, ReadOK
<1>10. ReadOK(r)'
  <2>1. redis[rev[t]] \in {Nothing, rows[t]}
    BY DEF IndInv, ReadInv, CacheOK
  <2>2. \A q \in Request : call'[q].at \in InRead /\ call'[q].key = rev[t] =>
           call'[q].table = t /\ Held(q)' = rows[t]
    BY <1>2, <1>6, <1>8, <1>9
  <2> QED
    BY <1>2, <1>3, <1>4, <1>6, <1>7, <2>1, <2>2 DEF ReadOK
<1>11. ASSUME NEW q \in Request \ {r}, call'[q].at \in InRead
       PROVE  ReadOK(q)'
  <2>1. ReadOK(q) /\ call'[q] = call[q] /\ seen'[q] = seen[q]
    BY <1>4, <1>8 DEF IndInv, ReadInv
  <2>2. ASSUME NEW p \in Request, call'[p].at \in InRead, call'[p].key = call[q].key
        PROVE  call'[p].table = call[q].table /\ Held(p)' \in seen[q]
    <3>1. CASE p = r
      BY <1>2, <1>6, <1>8, <1>9, <1>11, <2>2, <3>1
    <3>2. CASE p # r
      BY <1>8, <1>11, <2>1, <2>2, <3>2 DEF ReadOK
    <3> QED
      BY <3>1, <3>2
  <2> QED
    BY <1>3, <1>8, <1>11, <2>1, <2>2 DEF ReadOK
<1>12. \A q \in Request : UseOK(q)'
  <2>1. UseOK(r)'
    BY <1>6 DEF UseOK, InRead, InCheck, Answered
  <2>2. \A q \in Request \ {r} : UseOK(q)'
    BY <1>4, <1>8 DEF IndInv, ReadInv, UseOK
  <2> QED
    BY <2>1, <2>2
<1> QED
  BY <1>4, <1>5, <1>10, <1>11, <1>12 DEF ReadInv, ReadOK

\* A read of the settings or of the jobs begins.
LEMMA BeginAny ==
  ASSUME IndInv, up, NEW r \in Request, NEW t \in Table, NEW then \in {"answered", "decide", "ask"},
         BeginRead(r, t, then), call[r].at \in {"idle", "reread", "decide"},
         t = "jobs" => then = "answered", UNCHANGED <<lock, backup, fileVars, up>>
  PROVE  IndInv'
<1>1. call[r].at \notin InRead /\ Types
  BY DEF InRead, IndInv
<1>2. /\ ReadInv' /\ seen' \in [Request -> SUBSET Contents]
      /\ seen'[r] = {rows[t]} /\ \A q \in Request \ {r} : seen'[q] = seen[q]
  BY <1>1, BeginStep
<1>3. /\ call' \in [Request -> Calls] /\ Others(r)
      /\ call'[r].at \in {"get", "load"} /\ call'[r].then = then /\ call'[r].table = t
  BY <1>1, BeginFacts
<1>4. UNCHANGED <<rows, rev, minted, redis>>
  BY DEF BeginRead
<1>5. UNCHANGED <<folder, dir, zips, running, deleting>>
  BY DEF fileVars
<1>6. Types'
  BY <1>1, <1>2, <1>3, <1>4, <1>5, TypesQuiet DEF Types, TypeOK, Entry
<1>7. CaptchaInv'
  <2>1. ChangeOK(r)' \/ AwayFromCaptcha(r)
    <3>1. CASE t = "settings"
      BY <1>2, <1>3, <3>1 DEF ChangeOK, IndInv, CaptchaInv, CaptchaOK, InCheck
    <3>2. CASE t = "jobs"
      BY <1>3, <3>2 DEF AwayFromCaptcha, InCheck
    <3> QED
      BY <3>1, <3>2 DEF Table
  <2>2. \A q \in Request \ {r} : AwayFromCaptcha(q)
    BY <1>2, <1>3 DEF AwayFromCaptcha, Others
  <2> QED
    BY <1>4, <2>1, <2>2, CaptchaQuiet
<1>8. FileInv'
  <2>1. \A q \in Request : AwayFromFiles(q)
    BY <1>3 DEF AwayFromFiles, Others, InArchive, InDelete, Packing, InFile, Over
  <2> QED
    BY <1>4, <2>1, FilesQuiet
<1> QED
  BY <1>2, <1>6, <1>7, <1>8 DEF IndInv

\* A read goes on: it holds what it held or the rows of now.
LEMMA ReadOnStep ==
  ASSUME IndInv, NEW r \in Request, call[r].at \in InRead, call'[r].at \in InRead,
         call' \in [Request -> Calls], Others(r),
         call'[r].then = call[r].then, call'[r].table = call[r].table, call'[r].key = call[r].key,
         Held(r)' \in {Held(r), rows[call[r].table]},
         UNCHANGED <<rows, rev, minted, redis, seen, lock, backup, fileVars, up>>
  PROVE  IndInv'
<1>1. Types
  BY DEF IndInv
<1>2. UNCHANGED <<folder, dir, zips, running, deleting>>
  BY DEF fileVars
<1>3. Types'
  BY <1>1, <1>2, TypesQuiet DEF Types, TypeOK, Entry
<1>4. CacheOK'
  BY DEF IndInv, ReadInv, CacheOK
<1>5. \A q \in Request \ {r} : call'[q] = call[q] /\ Held(q)' = Held(q)
  BY DEF Others, Held
<1>6. ASSUME NEW q \in Request, call'[q].at \in InRead
      PROVE  ReadOK(q)'
  <2>1. /\ ReadOK(q) /\ call[q].at \in InRead
        /\ call'[q].then = call[q].then /\ call'[q].table = call[q].table /\ call'[q].key = call[q].key
    BY <1>5, <1>6 DEF IndInv, ReadInv
  <2>2. \A u \in Table : rev[u] = call[q].key => u = call[q].table /\ Held(q)' = rows[call[q].table]
    BY <1>5, <2>1 DEF ReadOK
  <2>3. ASSUME NEW p \in Request, call'[p].at \in InRead, call'[p].key = call[q].key
        PROVE  call'[p].table = call[q].table /\ Held(p)' \in seen[q]
    <3>1. call[p].at \in InRead /\ call[p].key = call[q].key /\ call'[p].table = call[p].table
      BY <1>5, <2>3
    <3>2. call[p].table = call[q].table /\ Held(p) \in seen[q] /\ rows[call[q].table] \in seen[q]
      BY <2>1, <3>1 DEF ReadOK
    <3> QED
      BY <1>5, <3>1, <3>2
  <2> QED
    BY <1>6, <2>1, <2>2, <2>3 DEF ReadOK
<1>7. \A q \in Request : UseOK(q)'
  <2>1. up
    BY DEF IndInv, ReadInv, UseOK, Idle, InRead
  <2>2. UseOK(r)'
    BY <2>1 DEF UseOK, InRead, InCheck
  <2>3. \A q \in Request \ {r} : UseOK(q)'
    BY <1>5 DEF IndInv, ReadInv, UseOK
  <2> QED
    BY <2>2, <2>3
<1>8. CaptchaInv'
  <2>1. ChangeOK(r)'
    BY DEF IndInv, CaptchaInv, ChangeOK, InRead, InCheck
  <2>2. \A q \in Request \ {r} : AwayFromCaptcha(q)
    BY <1>5 DEF AwayFromCaptcha
  <2> QED
    BY <2>1, <2>2, CaptchaQuiet
<1>9. FileInv'
  <2>1. \A q \in Request : AwayFromFiles(q)
    BY <1>5 DEF AwayFromFiles, InArchive, InDelete, InRead, Packing, InFile, Over
  <2> QED
    BY <2>1, FilesQuiet
<1> QED
  BY <1>3, <1>4, <1>6, <1>7, <1>8, <1>9 DEF IndInv, ReadInv, ReadOK

\* A read has a revision that was given out.
LEMMA Keyed ==
  ASSUME Types, NEW r \in Request, ReadOK(r), call[r].at \in InRead
  PROVE  call[r].key \in 1..minted /\ call[r].key \in 1..MaxRevisions
<1>1. call[r].key \in 1..minted
  BY DEF ReadOK
<1>2. minted \in 2..MaxRevisions
  BY DEF Types, TypeOK
<1> QED
  BY <1>1, <1>2, RevisionsAssumption

\* A read returns what was seen since it began, and perhaps stores it.
LEMMA DeliverStep ==
  ASSUME IndInv, NEW r \in Request, call[r].at \in InRead, NEW v \in seen[r], Deliver(r, v),
         \/ UNCHANGED redis
         \/ v = Held(r) /\ redis' = [redis EXCEPT ![call[r].key] = v],
         UNCHANGED <<rows, rev, minted, seen, lock, backup, fileVars, up>>
  PROVE  IndInv'
<1>1. Types /\ ReadOK(r) /\ call[r].then # "idle"
  BY DEF IndInv, ReadInv, ReadOK
<1>2. UNCHANGED <<folder, dir, zips, running, deleting>> /\ v \in Contents
  BY <1>1, Fielded DEF fileVars
<1>3. /\ call' \in [Request -> Calls] /\ Others(r)
      /\ call'[r].at = call[r].then /\ call'[r].then = call[r].then
      /\ call'[r].table = call[r].table /\ call'[r].value = v
  BY <1>1, <1>2, DeliverFacts
<1>4. call[r].then \in {"answered", "decide", "ask"}
  BY <1>1, Fielded
<1>5. call[r].key \in 1..MaxRevisions /\ call[r].key \in 1..minted
  BY <1>1, Keyed
<1>6. redis' \in [1..MaxRevisions -> Contents \cup {Nothing}]
      /\ \A k \in 1..MaxRevisions : redis'[k] = redis[k] \/ (k = call[r].key /\ v = Held(r) /\ redis'[k] = v)
  BY <1>1, <1>2, <1>5 DEF Types
<1>7. Types'
  BY <1>1, <1>2, <1>3, <1>6, TypesQuiet DEF Types, TypeOK, Entry
<1>8. CacheOK'
  <2>1. \A k \in 1..MaxRevisions : k > minted => redis'[k] = Nothing
    BY <1>1, <1>5, <1>6 DEF IndInv, ReadInv, CacheOK, Types, TypeOK
  <2>2. ASSUME up, NEW u \in Table
        PROVE  redis'[rev[u]] \in {Nothing, rows[u]}
    BY <1>1, <1>6, <2>2 DEF IndInv, ReadInv, CacheOK, ReadOK, Types
  <2> QED
    BY <2>1, <2>2 DEF IndInv, ReadInv, CacheOK
<1>9. ASSUME NEW q \in Request, call'[q].at \in InRead
      PROVE  ReadOK(q)'
  <2>1. q # r
    BY <1>3, <1>4, <1>9 DEF InRead
  <2>2. call'[q] = call[q] /\ ReadOK(q)
        /\ \A p \in Request : call'[p].at \in InRead => call'[p] = call[p]
    BY <1>3, <1>4, <2>1 DEF Others, InRead, IndInv, ReadInv
  <2>3. redis'[call[q].key] \in seen[q] \cup {Nothing}
    <3>1. call[q].key \in 1..MaxRevisions
      BY <1>1, <1>9, <2>2, Keyed
    <3> QED
      BY <1>6, <1>9, <2>2, <3>1 DEF ReadOK
  <2> QED
    BY <1>9, <2>2, <2>3 DEF ReadOK, Held
<1>10. \A q \in Request : UseOK(q)'
  <2>1. up
    BY DEF IndInv, ReadInv, UseOK, Idle, InRead
  <2>2. UseOK(r)'
    BY <1>3, <1>4, <2>1 DEF UseOK, InCheck, Answered
  <2>3. \A q \in Request \ {r} : UseOK(q)'
    BY <1>3 DEF IndInv, ReadInv, UseOK, Others
  <2> QED
    BY <2>2, <2>3
<1>11. CaptchaInv'
  <2>1. ChangeOK(r)'
    BY <1>3, <1>4 DEF IndInv, CaptchaInv, ChangeOK, InRead, InCheck
  <2>2. \A q \in Request \ {r} : AwayFromCaptcha(q)
    BY <1>3 DEF AwayFromCaptcha, Others
  <2> QED
    BY <2>1, <2>2, CaptchaQuiet
<1>12. FileInv'
  <2>1. \A q \in Request : AwayFromFiles(q)
    BY <1>3, <1>4 DEF AwayFromFiles, Others, InArchive, InDelete, InRead, Packing, InFile, Over
  <2> QED
    BY <2>1, FilesQuiet
<1> QED
  BY <1>7, <1>8, <1>9, <1>10, <1>11, <1>12 DEF IndInv, ReadInv, ReadOK

LEMMA ReadStepInv ==
  ASSUME IndInv, NEW r \in Request, ReadStep(r), UNCHANGED <<lock, backup, fileVars, up>>
  PROVE  IndInv'
<1>1. Types /\ (call[r].at \in InRead => ReadOK(r))
  BY DEF IndInv, ReadInv
<1>2. CASE GetHit(r)
  <2>1. call[r].at \in InRead /\ redis[call[r].key] # Nothing /\ Deliver(r, redis[call[r].key])
        /\ UNCHANGED <<rows, rev, minted, redis, seen>>
    BY <1>2 DEF GetHit, InRead
  <2>2. redis[call[r].key] \in seen[r]
    BY <1>1, <2>1 DEF ReadOK
  <2> QED
    BY <2>1, <2>2, DeliverStep
<1>3. CASE GetMiss(r)
  <2>1. call[r].at = "get" /\ call' = [call EXCEPT ![r].at = "load"] /\ "load" \in Places
        /\ UNCHANGED <<rows, rev, minted, redis, seen>>
    BY <1>3 DEF GetMiss, Places, InRead
  <2>2. /\ call' \in [Request -> Calls] /\ Others(r)
        /\ call'[r].at = "load" /\ call'[r].then = call[r].then /\ call'[r].table = call[r].table
        /\ call'[r].key = call[r].key /\ call'[r].snap = call[r].snap
    BY <1>1, <2>1, MoveFacts
  <2>3. call[r].at \in InRead /\ call'[r].at \in InRead /\ Held(r)' = Held(r)
    BY <2>1, <2>2 DEF InRead, Held
  <2> QED
    BY <2>1, <2>2, <2>3, ReadOnStep
<1>4. CASE Load(r)
  <2>1. call[r].at = "load" /\ UNCHANGED <<rows, rev, minted, redis, seen>>
    BY <1>4 DEF Load
  <2>2. PICK v \in {call[r].snap, rows[call[r].table]} : Loaded(r, v)
    BY <1>4 DEF Load, Loaded
  <2>3. call[r].at \in InRead /\ Held(r) = call[r].snap
    BY <2>1 DEF InRead, Held
  <2>4. v \in Contents \cup {Nothing}
    BY <1>1, <2>2, <2>3, Fielded DEF ReadOK
  <2>5. /\ call' \in [Request -> Calls] /\ Others(r)
        /\ call'[r].at = "store" /\ call'[r].then = call[r].then /\ call'[r].table = call[r].table
        /\ call'[r].key = call[r].key /\ call'[r].value = v
    BY <1>1, <2>2, <2>4, LoadFacts
  <2>6. call'[r].at \in InRead /\ Held(r)' \in {Held(r), rows[call[r].table]}
    BY <2>2, <2>3, <2>5 DEF InRead, Held
  <2> QED
    BY <2>1, <2>3, <2>5, <2>6, ReadOnStep
<1>5. CASE Store(r)
  <2>1. call[r].at \in InRead /\ Held(r) = call[r].value /\ Deliver(r, call[r].value)
        /\ UNCHANGED <<rows, rev, minted, seen>>
    BY <1>5 DEF Store, InRead, Held
  <2>2. Held(r) \in seen[r]
    BY <1>1, <2>1 DEF ReadOK
  <2>3. UNCHANGED redis \/ redis' = [redis EXCEPT ![call[r].key] = Held(r)]
    BY <1>5, <2>1 DEF Store
  <2> QED
    BY <2>1, <2>2, <2>3, DeliverStep
<1> QED
  BY <1>2, <1>3, <1>4, <1>5 DEF ReadStep

-----------------------------------------------------------------------------
(* Settings *)

\* A step of a request that neither reads nor downloads.
LEMMA OffFiles ==
  ASSUME IndInv, NEW r \in Request, call[r].at \notin InRead, call'[r].at \notin InRead,
         {call[r].at, call'[r].at} \cap (InFile \cup Over \cup InArchive \cup InDelete) = {},
         call'[r].at = "idle" => call'[r].done = {},
         call' \in [Request -> Calls], Others(r),
         seen' \in [Request -> SUBSET Contents], \A q \in Request \ {r} : seen'[q] = seen[q],
         UseOK(r)', UNCHANGED <<rows, rev, minted, redis, backup, up, fileVars>>,
         lock' \in Request \cup {NoRequest}
  PROVE  Types' /\ ReadInv' /\ FileInv'
<1>1. UNCHANGED <<folder, dir, zips, running, deleting>> /\ Types
  BY DEF fileVars, IndInv
<1>2. Types'
  BY <1>1, TypesQuiet DEF Types, TypeOK, Entry
<1>3. ReadInv'
  <2>1. \A q \in Request : StaysOut(q)
    BY DEF StaysOut, Others
  <2>2. \A q \in Request \ {r} : UseOK(q)'
    BY DEF Others, IndInv, ReadInv, UseOK
  <2>3. \A q \in Request : call[q].at \in InRead => seen'[q] = seen[q]
    OBVIOUS
  <2> QED
    BY <2>1, <2>2, <2>3, ReadsQuiet
<1>4. FileInv'
  <2>1. \A q \in Request : AwayFromFiles(q)
    BY DEF AwayFromFiles, Others
  <2> QED
    BY <2>1, FilesQuiet
<1> QED
  BY <1>2, <1>3, <1>4

\* The requests that do not move do not mind what the settings lock does, unless they
\* change the settings.
LEMMA OtherChange ==
  ASSUME IndInv, rows'.settings = rows.settings, NEW r \in Request, Others(r),
         NEW q \in Request \ {r}, seen'[q] = seen[q],
         lock' = lock \/ call[q].at \notin {"check", "write"}
  PROVE  ChangeOK(q)'
BY DEF Others, IndInv, CaptchaInv, ChangeOK

\* Who changes the settings holds the lock.
LEMMA OneChange ==
  ASSUME IndInv, NEW q \in Request, call[q].at \in {"check", "write"}
  PROVE  lock = q
BY DEF IndInv, CaptchaInv, ChangeOK

\* Removing the secret of a captcha nobody needs, or a save that was not rejected,
\* leaves the settings usable.
LEMMA RemovedUsable ==
  ASSUME NEW c, Usable(c), ~Required(c)
  PROVE  Usable(c \ {"secret"})
BY DEF Usable, Required

LEMMA MergedUsable ==
  ASSUME NEW c \in SUBSET Fields, NEW p \in Payload, Usable(c), ~Rejected(c, p)
  PROVE  Usable(Merged(c, p)) /\ Merged(c, p) \subseteq Fields
<1>1. Merged(c, p) \subseteq Fields
  BY PayloadAssumption DEF Merged
<1>2. Required(Merged(c, p)) => "site" \in Merged(c, p) /\ SecretSet(Merged(c, p))
  BY SecretAssumption DEF Rejected, Merged, SecretSet, Required
<1>3. "provider" \in Merged(c, p) => "host" \in Merged(c, p)
  BY DEF Rejected
<1> QED
  BY <1>1, <1>2, <1>3 DEF Usable

\* A handler ends.
LEMMA EndFacts ==
  ASSUME Types, NEW r \in Request, End(r)
  PROVE  /\ call' \in [Request -> Calls] /\ Others(r)
         /\ call'[r] = Idle /\ call'[r].at = "idle" /\ call'[r].value = Nothing /\ call'[r].done = {}
         /\ seen' \in [Request -> SUBSET Contents] /\ seen'[r] = {}
         /\ \A q \in Request \ {r} : seen'[q] = seen[q]
<1>1. call' = [call EXCEPT ![r] = Idle] /\ seen' = [seen EXCEPT ![r] = {}]
  BY DEF End
<1> QED
  BY <1>1, IdleCall DEF Types, Others, Idle

LEMMA IdleOK ==
  ASSUME NEW r \in Request, call'[r] = Idle, seen'[r] = {} \/ up'
  PROVE  UseOK(r)' /\ ChangeOK(r)'
BY DEF UseOK, ChangeOK, Idle, InRead, InCheck, Answered

\* An end of a handler of the settings.
LEMMA EndStep ==
  ASSUME IndInv, NEW r \in Request, call[r].at \notin InRead,
         call[r].at \notin InFile \cup Over \cup InArchive \cup InDelete, End(r),
         UNCHANGED <<rows, rev, minted, redis, backup, up, fileVars>>,
         \/ lock' = lock
         \/ lock' = NoRequest /\ call[r].at \in {"check", "write"}
  PROVE  IndInv'
<1>1. Types /\ lock \in Request \cup {NoRequest}
  BY DEF IndInv, Types, TypeOK
<1>2. /\ call' \in [Request -> Calls] /\ Others(r)
      /\ call'[r] = Idle /\ call'[r].at = "idle" /\ call'[r].done = {}
      /\ seen' \in [Request -> SUBSET Contents] /\ seen'[r] = {}
      /\ \A q \in Request \ {r} : seen'[q] = seen[q]
  BY <1>1, EndFacts
<1>3. UseOK(r)' /\ ChangeOK(r)'
  BY <1>2, IdleOK
<1>4. Types' /\ ReadInv' /\ FileInv'
  BY <1>1, <1>2, <1>3, OffFiles DEF InRead, InArchive, InDelete, Packing, InFile, Over
<1>5. CaptchaInv'
  <2>1. \A q \in Request \ {r} : lock' = lock \/ call[q].at \notin {"check", "write"}
    BY OneChange
  <2>2. \A q \in Request \ {r} : ChangeOK(q)'
    BY <1>2, <2>1, OtherChange
  <2> QED
    BY <1>3, <2>2 DEF IndInv, CaptchaInv, CaptchaOK
<1> QED
  BY <1>4, <1>5 DEF IndInv

LEMMA EditStep ==
  ASSUME IndInv, up, NEW r \in Request, NEW p \in Payload \cup {Nothing}, Edit(r, p),
         UNCHANGED <<backup, up, fileVars>>
  PROVE  IndInv'
<1>1. /\ Types /\ call[r].at = "idle" /\ ArgSet(r, "lock", p) /\ "lock" \in Places
      /\ UNCHANGED <<rows, rev, minted, redis, seen, lock>>
  BY DEF IndInv, Edit, ArgSet, Places, InEdit
<1>2. /\ call' \in [Request -> Calls] /\ Others(r)
      /\ call'[r].at = "lock" /\ call'[r].value = call[r].value
  BY <1>1, ArgFacts
<1>3. UseOK(r)'
  BY <1>1, <1>2 DEF IndInv, ReadInv, UseOK, InRead, InCheck, Answered
<1>4. Types' /\ ReadInv' /\ FileInv'
  BY <1>1, <1>2, <1>3, OffFiles
     DEF InRead, InArchive, InDelete, Types, TypeOK, Packing, InFile, Over
<1>5. CaptchaInv'
  <2>1. AwayFromCaptcha(r)
    BY <1>2 DEF AwayFromCaptcha, InCheck, InRead
  <2>2. \A q \in Request \ {r} : AwayFromCaptcha(q)
    BY <1>1, <1>2 DEF AwayFromCaptcha, Others
  <2> QED
    BY <1>1, <2>1, <2>2, CaptchaQuiet
<1> QED
  BY <1>4, <1>5 DEF IndInv

\* A step of the settings that only moves the request.
LEMMA MoveStep ==
  ASSUME IndInv, up, NEW r \in Request, NEW x \in {"check", "write", "admitted", "unavailable"},
         call' = [call EXCEPT ![r].at = x], call[r].at \in {"lock", "check", "decide", "ask"},
         x \in {"check", "write"} <=> call[r].at \in {"lock", "check"},
         ChangeOK(r)', UNCHANGED <<rows, rev, minted, redis, seen, backup, up, fileVars>>,
         \/ lock' = lock
         \/ lock = NoRequest /\ lock' = r
  PROVE  IndInv'
<1>1. Types /\ x \in Places /\ call[r].at \notin InRead /\ x \notin InRead
  BY DEF IndInv, Places, InEdit, Answered, InRead
<1>2. /\ call' \in [Request -> Calls] /\ Others(r)
      /\ call'[r].at = x /\ call'[r].value = call[r].value
  BY <1>1, MoveFacts
<1>3. UseOK(r)'
  BY <1>1, <1>2 DEF IndInv, ReadInv, UseOK, InCheck, Answered
<1>4. lock' \in Request \cup {NoRequest} /\ seen' \in [Request -> SUBSET Contents]
  BY <1>1 DEF Types, TypeOK
<1>5. Types' /\ ReadInv' /\ FileInv'
  BY <1>1, <1>2, <1>3, <1>4, OffFiles DEF InArchive, InDelete, Packing, InFile, Over
<1>6. CaptchaInv'
  <2>1. \A q \in Request \ {r} : lock' = lock \/ call[q].at \notin {"check", "write"}
    BY OneChange, NoneAssumption
  <2>2. \A q \in Request \ {r} : ChangeOK(q)'
    BY <1>2, <2>1, OtherChange
  <2> QED
    BY <2>2 DEF IndInv, CaptchaInv, CaptchaOK
<1> QED
  BY <1>5, <1>6 DEF IndInv

LEMMA LockStep ==
  ASSUME IndInv, up, NEW r \in Request, LockSettings(r), UNCHANGED <<backup, up, fileVars>>
  PROVE  IndInv'
<1>1. /\ call[r].at = "lock" /\ lock = NoRequest /\ lock' = r
      /\ call' = [call EXCEPT ![r].at = "check"]
      /\ UNCHANGED <<rows, rev, minted, redis, seen>>
  BY DEF LockSettings
<1>2. call'[r].at = "check"
  BY <1>1, MoveFacts DEF IndInv, Places, InEdit
<1>3. ChangeOK(r)'
  BY <1>1, <1>2 DEF ChangeOK, InRead, InCheck
<1> QED
  BY <1>1, <1>3, MoveStep

LEMMA CheckStep ==
  ASSUME IndInv, up, NEW r \in Request, CheckSettings(r), UNCHANGED <<backup, up, fileVars>>
  PROVE  IndInv'
<1> DEFINE refused == IF call[r].arg = Nothing THEN Required(rows.settings.config)
                                              ELSE Rejected(rows.settings.config, call[r].arg)
<1>1. /\ call[r].at = "check" /\ UNCHANGED <<rows, rev, minted, redis>>
      /\ IF refused THEN End(r) /\ lock' = NoRequest
                    ELSE call' = [call EXCEPT ![r].at = "write"] /\ UNCHANGED <<seen, lock>>
  BY DEF CheckSettings
<1>2. CASE refused
  BY <1>1, <1>2, EndStep DEF InRead, InArchive, InDelete, Packing, InFile, Over
<1>3. CASE ~refused
  <2>1. call' = [call EXCEPT ![r].at = "write"] /\ UNCHANGED <<seen, lock>>
    BY <1>1, <1>3
  <2>2. call'[r].at = "write" /\ call'[r].arg = call[r].arg
    BY <2>1, MoveFacts DEF IndInv, Places, InEdit
  <2>3. lock = r
    BY <1>1, OneChange
  <2>4. ChangeOK(r)'
    BY <1>1, <1>3, <2>1, <2>2, <2>3 DEF ChangeOK, InRead, InCheck
  <2> QED
    BY <1>1, <2>1, <2>4, MoveStep
<1> QED
  BY <1>2, <1>3

LEMMA DecideStep ==
  ASSUME IndInv, up, NEW r \in Request, Decide(r), UNCHANGED <<backup, up, fileVars>>
  PROVE  IndInv'
<1>1. call[r].at = "decide" /\ UNCHANGED lock
  BY DEF Decide
<1>2. CASE Required(call[r].value.config)
  BY <1>1, <1>2, BeginAny DEF Decide, Table
<1>3. CASE ~Required(call[r].value.config)
  <2>1. call' = [call EXCEPT ![r].at = "admitted"] /\ UNCHANGED <<rows, rev, minted, redis, seen>>
    BY <1>3 DEF Decide
  <2>2. call'[r].at = "admitted"
    BY <2>1, MoveFacts DEF IndInv, Places, Answered
  <2>3. call[r].value \in seen[r]
    BY <1>1 DEF IndInv, ReadInv, UseOK, InCheck
  <2>4. ChangeOK(r)'
    BY <1>3, <2>1, <2>2, <2>3 DEF ChangeOK, InRead, InCheck
  <2> QED
    BY <1>1, <2>1, <2>4, MoveStep
<1> QED
  BY <1>2, <1>3

\* Where the keys are missing, the settings are usable only because nobody needs them.
LEMMA AskStep ==
  ASSUME IndInv, up, NEW r \in Request, Ask(r), UNCHANGED <<backup, up, fileVars>>
  PROVE  IndInv'
<1> DEFINE keys == "site" \in call[r].value.config /\ SecretSet(call[r].value.config)
<1>1. /\ call[r].at = "ask" /\ UNCHANGED <<rows, rev, minted, redis, lock>>
      /\ IF keys THEN End(r)
                 ELSE call' = [call EXCEPT ![r].at = "unavailable"] /\ UNCHANGED seen
  BY DEF Ask
<1>2. CASE keys
  BY <1>1, <1>2, EndStep DEF InRead, InArchive, InDelete, Packing, InFile, Over
<1>3. CASE ~keys
  <2>1. call' = [call EXCEPT ![r].at = "unavailable"] /\ UNCHANGED seen
    BY <1>1, <1>3
  <2>2. call'[r].at = "unavailable"
    BY <2>1, MoveFacts DEF IndInv, Places, Answered
  <2>3. call[r].value \in seen[r] /\ Usable(call[r].value.config)
    BY <1>1 DEF IndInv, ReadInv, UseOK, CaptchaInv, ChangeOK, InCheck
  <2>4. ~Required(call[r].value.config)
    BY <1>3, <2>3 DEF Usable
  <2>5. ChangeOK(r)'
    BY <2>1, <2>2, <2>3, <2>4 DEF ChangeOK, InRead, InCheck
  <2> QED
    BY <1>1, <2>1, <2>5, MoveStep
<1> QED
  BY <1>2, <1>3

\* A change of the settings is committed: it is usable, and so is what anybody sees.
LEMMA WriteStep ==
  ASSUME IndInv, up, NEW r \in Request, WriteSettings(r), UNCHANGED <<backup, up, fileVars>>
  PROVE  IndInv'
<1> DEFINE old == rows.settings.config
           new == IF call[r].arg = Nothing THEN old \ {"secret"} ELSE Merged(old, call[r].arg)
           c   == [config |-> new]
<1>1. /\ call[r].at = "write" /\ Commit("settings", c) /\ lock' = NoRequest
      /\ ArgSet(r, "reread", Nothing)
  BY DEF WriteSettings, ArgSet
<1>2. Types /\ lock = r /\ "settings" \in Table /\ "reread" \in Places
      /\ UNCHANGED <<folder, dir, zips, running, deleting>> /\ running \in BOOLEAN
  BY <1>1, OneChange DEF IndInv, Table, Places, InEdit, fileVars, Types, TypeOK
<1>3. /\ call' \in [Request -> Calls] /\ Others(r)
      /\ call'[r].at = "reread" /\ call'[r].value = call[r].value
  BY <1>1, <1>2, ArgFacts
<1>4. Usable(new) /\ new \subseteq Fields
  <2>1. old \subseteq Fields /\ Usable(old)
    BY DEF IndInv, Types, TypeOK, CaptchaInv, CaptchaOK
  <2>2. call[r].arg = Nothing => ~Required(old)
    BY <1>1 DEF IndInv, CaptchaInv, ChangeOK
  <2>3. call[r].arg # Nothing => call[r].arg \in Payload /\ ~Rejected(old, call[r].arg)
    BY <1>1, <1>2, Fielded DEF IndInv, CaptchaInv, ChangeOK
  <2> QED
    BY <2>1, <2>2, <2>3, RemovedUsable, MergedUsable
<1>5. c \in SettingsRow /\ c \in Contents /\ c.config = new
  BY <1>4 DEF SettingsRow, Contents
<1>6. /\ Types'
      /\ rows'["settings"] = c /\ \A u \in Table \ {"settings"} : rows'[u] = rows[u]
      /\ rev'["settings"] = minted + 1 /\ \A u \in Table \ {"settings"} : rev'[u] = rev[u]
      /\ minted' = minted + 1 /\ redis' = redis /\ minted \in Nat /\ minted + 1 <= MaxRevisions
      /\ \A q \in Request : seen'[q] = IF Reading(q) = "settings" THEN seen[q] \cup {c} ELSE seen[q]
  BY <1>1, <1>2, <1>3, <1>5, TypesCommit
<1>7. UseOK(r)'
  BY <1>1, <1>3 DEF IndInv, ReadInv, UseOK, InRead, InCheck, Answered
<1>8. \A q \in Request \ {r} : UseOK(q)'
  BY <1>3, <1>6 DEF IndInv, ReadInv, UseOK, Others
<1>9. ReadInv'
  <2>1. \A q \in Request : StaysOut(q)
    BY <1>1, <1>3 DEF StaysOut, Others, InRead
  <2> QED
    BY <1>2, <1>5, <1>6, <1>7, <1>8, <2>1, ReadsCommit
<1>10. CaptchaInv'
  <2>1. ChangeOK(r)'
    BY <1>3 DEF ChangeOK, InRead, InCheck
  <2>2. ASSUME NEW q \in Request \ {r}
        PROVE  ChangeOK(q)'
    <3>1. ChangeOK(q) /\ call'[q] = call[q] /\ call[q].at \notin {"check", "write"}
      BY <1>2, <1>3, OneChange DEF IndInv, CaptchaInv, Others
    <3>2. seen[q] \subseteq seen'[q] /\ \A d \in seen'[q] : d \in seen[q] \/ Usable(d.config)
      BY <1>4, <1>5, <1>6
    <3> QED
      BY <3>1, <3>2 DEF ChangeOK
  <2>3. CaptchaOK'
    BY <1>4, <1>5, <1>6 DEF IndInv, CaptchaInv, CaptchaOK
  <2> QED
    BY <2>1, <2>2, <2>3 DEF CaptchaInv
<1>11. FileInv'
  <2>1. \A q \in Request : AwayFromFiles(q)
    BY <1>1, <1>3 DEF AwayFromFiles, Others, InArchive, InDelete, Packing, InFile, Over
  <2>2. rows'.jobs = rows.jobs
    BY <1>6 DEF Table
  <2> QED
    BY <2>1, <2>2, FilesQuiet
<1> QED
  BY <1>6, <1>9, <1>10, <1>11 DEF IndInv

LEMMA Working ==
  ASSUME IndInv, NEW r \in Request, call[r].at # "idle"
  PROVE  up
BY DEF IndInv, ReadInv, UseOK, Idle

LEMMA SettingsStepInv ==
  ASSUME IndInv, NEW r \in Request, SettingsStep(r), UNCHANGED <<backup, up, fileVars>>
  PROVE  IndInv'
<1>1. up
  BY Working
     DEF SettingsStep, LockSettings, CheckSettings, WriteSettings, Reread,
          Decide, Ask , Finish, Answering
<1>2. CASE LockSettings(r)
  BY <1>1, <1>2, LockStep
<1>3. CASE CheckSettings(r)
  BY <1>1, <1>3, CheckStep
<1>4. CASE WriteSettings(r)
  BY <1>1, <1>4, WriteStep
<1>5. CASE Reread(r)
  BY <1>1, <1>5, BeginAny DEF Reread, Table
<1>6. CASE Decide(r)
  BY <1>1, <1>6, DecideStep
<1>7. CASE Ask(r)
  BY <1>1, <1>7, AskStep
<1>8. CASE Finish(r)
  <2>1. /\ call[r].at \in Answering /\ End(r) /\ UNCHANGED <<rows, rev, minted, redis, lock>>
    BY <1>8 DEF Finish
  <2> QED
    BY <2>1, EndStep DEF Answering, InRead, InArchive, InDelete, Packing, InFile, Over
<1> QED
  BY <1>2, <1>3, <1>4, <1>5, <1>6, <1>7, <1>8 DEF SettingsStep

-----------------------------------------------------------------------------
(* Files *)

\* The first n outputs.
LEMMA OutsMember ==
  ASSUME NEW n \in 0..Targets, NEW e
  PROVE  e \in Outs(n) <=> \E k \in 1..n : e = <<"out", k>>
BY DEF Outs

LEMMA OutsGrow ==
  ASSUME NEW m \in Nat, NEW n \in Nat
  PROVE  /\ Outs(0) = {}
         /\ Outs(n + 1) = Outs(n) \cup {<<"out", n + 1>>}
         /\ m <= n => Outs(m) \subseteq Outs(n)
         /\ 1 <= m /\ m <= n => <<"out", m>> \in Outs(n)
<1>1. Outs(0) = {}
  BY DEF Outs
<1>2. Outs(n + 1) = Outs(n) \cup {<<"out", n + 1>>}
  <2>1. 1..(n + 1) = 1..n \cup {n + 1}
    OBVIOUS
  <2> QED
    BY <2>1 DEF Outs
<1>3. m <= n => Outs(m) \subseteq Outs(n)
  <2>1. m <= n => 1..m \subseteq 1..n
    OBVIOUS
  <2> QED
    BY <2>1 DEF Outs
<1>4. 1 <= m /\ m <= n => <<"out", m>> \in Outs(n)
  BY DEF Outs
<1> QED
  BY <1>1, <1>2, <1>3, <1>4

LEMMA OutsEntries ==
  ASSUME NEW n \in 0..Targets
  PROVE  Outs(n) \subseteq Entry
<1>1. 1..n \subseteq 1..Targets
  BY TargetsAssumption
<1> QED
  BY <1>1 DEF Outs, Entry

LEMMA OutsCount ==
  ASSUME NEW n \in Nat
  PROVE  IsFiniteSet(Outs(n)) /\ Cardinality(Outs(n)) = n
<1> DEFINE F == [k \in 1..n |-> <<"out", k>>]
<1>1. ExistsBijection(1..n, Outs(n))
  <2>1. F \in [1..n -> Outs(n)] /\ \A k \in 1..n : F[k] = <<"out", k>>
    BY DEF Outs
  <2>2. \A e \in Outs(n) : \E k \in 1..n : F[k] = e
    BY <2>1 DEF Outs
  <2>3. \A j, k \in 1..n : F[j] = F[k] => j = k
    BY <2>1
  <2> HIDE DEF F
  <2> QED
    BY <2>1, <2>2, <2>3 DEF ExistsBijection, Bijection, Injection, Surjection, IsInjective
<1>2. IsFiniteSet(1..n) /\ Cardinality(1..n) = n
  BY FS_Interval
<1> QED
  BY <1>1, <1>2, FS_Bijection

\* What a step leaves alone for a request that does not move.
LEMMA StaysDownload ==
  ASSUME IndInv, NEW q \in Request, call'[q] = call[q], deleting => deleting',
         rows'.jobs.outs \in 0..Targets, ~deleting' => rows.jobs.outs <= rows'.jobs.outs,
         ~deleting' /\ <<"tmp", q>> \in dir => <<"tmp", q>> \in dir',
         ~deleting' /\ <<"zip", call[q].outs>> \in dir => <<"zip", call[q].outs>> \in dir',
         folder' => folder
  PROVE  DownloadOK(q)'
<1>1. DownloadOK(q) /\ call[q].outs \in Int /\ rows.jobs.outs \in Int /\ Types
  BY Fielded DEF IndInv, FileInv, Types, TypeOK
<1> QED
  BY <1>1 DEF DownloadOK

\* A step of a request that has nothing to do with the settings or with reads.
LEMMA OffSettings ==
  ASSUME IndInv, up, NEW r \in Request,
         call[r].at \notin InRead \cup InCheck \cup Answered,
         call'[r].at \notin InRead \cup InCheck \cup InEdit \cup Answered,
         call' \in [Request -> Calls], Others(r), call'[r].value = Nothing,
         seen' \in [Request -> SUBSET Contents], \A q \in Request \ {r} : seen'[q] = seen[q],
         UNCHANGED <<rows, rev, minted, redis, backup, up, lock, running>>,
         dir' \subseteq Entry, zips' \in [2..Targets -> SUBSET Entry],
         folder' \in BOOLEAN, deleting' \in BOOLEAN
  PROVE  Types' /\ ReadInv' /\ CaptchaInv'
<1>1. Types'
  BY TypesQuiet DEF IndInv, Types, TypeOK
<1>2. ReadInv'
  <2>1. \A q \in Request : StaysOut(q)
    BY DEF StaysOut, Others
  <2>2. \A q \in Request : UseOK(q)'
    BY DEF Others, IndInv, ReadInv, UseOK
  <2>3. \A q \in Request : call[q].at \in InRead => seen'[q] = seen[q]
    OBVIOUS
  <2> QED
    BY <2>1, <2>2, <2>3, ReadsQuiet
<1>3. CaptchaInv'
  <2>1. \A q \in Request : AwayFromCaptcha(q)
    BY DEF AwayFromCaptcha, Others, InEdit, Answered
  <2> QED
    BY <2>1, CaptchaQuiet
<1> QED
  BY <1>1, <1>2, <1>3

\* The places of a request that downloads or deletes.
AtFiles == {"idle"} \cup InFile \cup Over \cup InArchive \cup InDelete

LEMMA FilesFrame ==
  ASSUME IndInv, up, NEW r \in Request, call[r].at \in AtFiles, call'[r].at \in AtFiles,
         call' \in [Request -> Calls], Others(r), call'[r].value \in {call[r].value, Nothing},
         seen' \in [Request -> SUBSET Contents], \A q \in Request \ {r} : seen'[q] = seen[q],
         UNCHANGED <<rows, rev, minted, redis, backup, up, lock, running>>,
         dir' \subseteq Entry, zips' \in [2..Targets -> SUBSET Entry],
         folder' \in BOOLEAN, deleting' \in BOOLEAN,
         deleting => deleting', folder' => folder,
         ~deleting' => dir \ {<<"tmp", r>>} \subseteq dir',
         FilesOK', DownloadOK(r)'
  PROVE  IndInv'
<1>1. /\ call[r].at \notin InRead \cup InCheck \cup Answered
      /\ call'[r].at \notin InRead \cup InCheck \cup InEdit \cup Answered
  BY DEF AtFiles, InRead, InCheck, InEdit, Answered, InArchive, InDelete, Packing, InFile, Over
<1>2. call[r].value = Nothing
  BY <1>1 DEF IndInv, ReadInv, UseOK
<1>3. Types' /\ ReadInv' /\ CaptchaInv'
  BY <1>1, <1>2, OffSettings
<1>4. ASSUME NEW q \in Request \ {r}
      PROVE  DownloadOK(q)'
  <2>1. /\ <<"tmp", q>> # <<"tmp", r>> /\ <<"zip", call[q].outs>> # <<"tmp", r>>
        /\ call'[q] = call[q]
    BY DEF Others
  <2>2. rows'.jobs.outs \in 0..Targets /\ rows'.jobs.outs <= rows'.jobs.outs
    BY <1>3, TargetsAssumption DEF Types, TypeOK
  <2> QED
    BY <2>1, <2>2, StaysDownload
<1> QED
  BY <1>3, <1>4 DEF IndInv, FileInv

\* A temporary file is another request's, which has not moved, or this one's.
LEMMA TempOwned ==
  ASSUME IndInv, NEW r \in Request, Others(r), NEW e \in Temps', e \in dir \/ e = <<"tmp", r>>,
         <<"tmp", r>> \in dir' => call'[r].at \in Packing
  PROVE  call'[e[2]].at \in Packing
<1>1. e \in dir' /\ e[1] = "tmp"
  BY DEF Temps
<1>2. CASE e = <<"tmp", r>>
  BY <1>1, <1>2
<1>3. CASE e # <<"tmp", r>>
  <2>1. e \in Temps /\ e \in Entry
    BY <1>1, <1>3 DEF Temps, IndInv, Types, TypeOK, Entry
  <2>2. e[2] \in Request \ {r} /\ e = <<"tmp", e[2]>>
    BY <1>1, <1>3, <2>1 DEF Entry
  <2> QED
    BY <2>1, <2>2 DEF IndInv, FileInv, FilesOK, Others
<1> QED
  BY <1>2, <1>3

\* What a request that has moved leaves to show of the files.
LEMMA FilesKept ==
  ASSUME IndInv, NEW r \in Request, Others(r), UNCHANGED <<rows, backup, up, fileVars>>,
         <<"tmp", r>> \in dir => call'[r].at \in Packing
  PROVE  FilesOK'
<1>1. UNCHANGED <<folder, dir, zips, running, deleting>>
  BY DEF fileVars
<1>2. \A e \in Temps' : call'[e[2]].at \in Packing
  BY <1>1, TempOwned DEF Temps
<1> QED
  BY <1>1, <1>2 DEF IndInv, FileInv, FilesOK

\* Listed outputs are on disk until a delete begins.
LEMMA Listed ==
  ASSUME IndInv, ~deleting, NEW k \in Nat, 1 <= k, k <= rows.jobs.outs
  PROVE  <<"out", k>> \in dir
<1>1. Outs(rows.jobs.outs) \subseteq dir /\ rows.jobs.outs \in Nat
  BY TargetsAssumption DEF IndInv, FileInv, FilesOK, Types, TypeOK
<1> QED
  BY <1>1, OutsGrow

LEMMA OpenStep ==
  ASSUME IndInv, up, NEW r \in Request, Open(r), UNCHANGED <<backup, up, lock>>
  PROVE  IndInv'
<1>1. /\ Types /\ call[r].at = "idle" /\ UNCHANGED <<rows, rev, minted, redis, seen, fileVars>>
      /\ UNCHANGED <<folder, dir, zips, running, deleting>>
      /\ rows.jobs.outs \in 0..Targets
  BY DEF IndInv, Open, Stay, fileVars, Types, TypeOK
<1>2. PICK x \in {"find", "file"}, n \in 0..Targets :
        /\ OutsSet(r, x, n) /\ n <= rows.jobs.outs
        /\ x = "find" => n >= 2
        /\ x = "file" => n >= 1
  <2>1. \/ rows.jobs.outs >= 2 /\ OutsSet(r, "find", rows.jobs.outs)
        \/ \E k \in 1..rows.jobs.outs : OutsSet(r, "file", k)
    BY DEF Open, OutsSet
  <2>2. \A k \in 1..rows.jobs.outs : k \in 0..Targets /\ k <= rows.jobs.outs /\ k >= 1
    BY <1>1, TargetsAssumption
  <2>3. rows.jobs.outs <= rows.jobs.outs
    BY <1>1
  <2>4. CASE rows.jobs.outs >= 2 /\ OutsSet(r, "find", rows.jobs.outs)
    BY <1>1, <2>3, <2>4
  <2>5. CASE \E k \in 1..rows.jobs.outs : OutsSet(r, "file", k)
    BY <2>2, <2>5
  <2> QED
    BY <2>1, <2>4, <2>5
<1>3. /\ call' \in [Request -> Calls] /\ Others(r)
      /\ call'[r].at = x /\ call'[r].value = call[r].value
      /\ call'[r].outs = n /\ call'[r].done = call[r].done
  BY <1>1, <1>2, OutsFacts DEF Places, InArchive, InFile
<1>4. DownloadOK(r)'
  <2>1. call[r].done = {} /\ n \in Int /\ rows'.jobs.outs = rows.jobs.outs
    <3>1. DownloadOK(r)
      BY DEF IndInv, FileInv
    <3>2. call[r].done = {}
      BY <1>1, <3>1 DEF DownloadOK
    <3> QED
      BY <1>1, <3>2, TargetsAssumption
  <2>2. CASE x = "find"
    BY <1>2, <1>3, <2>1, <2>2 DEF DownloadOK, InArchive, InDelete
  <2>3. CASE x = "file"
    BY <1>2, <1>3, <2>1, <2>3 DEF DownloadOK, InArchive, InDelete, Packing
  <2> QED
    BY <2>2, <2>3
<1>5. FilesOK'
  <2>1. <<"tmp", r>> \notin dir
    BY <1>1 DEF IndInv, FileInv, FilesOK, Temps, Packing
  <2> QED
    BY <1>1, <1>3, <2>1, FilesKept
<1> QED
  BY <1>1, <1>3, <1>4, <1>5, FilesFrame DEF AtFiles, InArchive, Types, TypeOK, Entry, InFile

\* A download moves on without a change to the files.
LEMMA DownloadMoves ==
  ASSUME IndInv, up, NEW r \in Request, call[r].at \in AtFiles \ Packing,
         call' \in [Request -> Calls], Others(r), call'[r].at \in AtFiles,
         call'[r].value \in {call[r].value, Nothing}, DownloadOK(r)',
         seen' \in [Request -> SUBSET Contents], \A q \in Request \ {r} : seen'[q] = seen[q],
         UNCHANGED <<rows, rev, minted, redis, backup, up, lock, fileVars>>
  PROVE  IndInv'
<1>1. UNCHANGED <<folder, dir, zips, running, deleting>> /\ Types
  BY DEF fileVars, IndInv
<1>2. FilesOK'
  <2>1. <<"tmp", r>> \notin dir
    BY DEF IndInv, FileInv, FilesOK, Temps
  <2> QED
    BY <2>1, FilesKept
<1> QED
  BY <1>1, <1>2, FilesFrame DEF Types, TypeOK, Entry

\* It only goes to another place.
LEMMA DownloadGoes ==
  ASSUME IndInv, up, NEW r \in Request, call[r].at \in AtFiles \ Packing,
         NEW x \in AtFiles \ Packing, Move(r, x), Stay,
         UNCHANGED <<seen, fileVars, backup, up, lock>>,
         /\ x = "sendFile" => call[r].at = "file"
         /\ x = "make" => call[r].at = "find"
         /\ x = "send" => call[r].at = "find" /\ (~deleting => <<"zip", call[r].outs>> \in dir)
         /\ x \in {"missing", "failed", "list", "deleteRow"} => deleting
         /\ x = "deleteRow" => ~folder
         /\ x \in {"sendFile", "make", "send", "sentFile", "missing", "failed", "list", "deleteRow"}
  PROVE  IndInv'
<1>1. /\ Types /\ DownloadOK(r) /\ call' = [call EXCEPT ![r].at = x]
      /\ UNCHANGED <<rows, rev, minted, redis, seen, folder, dir, zips, running, deleting>>
  BY DEF IndInv, FileInv, Move, Stay, fileVars
<1>2. x \in Places
  BY DEF AtFiles, Places
<1>3. /\ call' \in [Request -> Calls] /\ Others(r)
      /\ call'[r].at = x /\ call'[r].value = call[r].value
      /\ call'[r].outs = call[r].outs /\ call'[r].done = call[r].done
  BY <1>1, <1>2, MoveFacts
<1>4. DownloadOK(r)'
  BY <1>1, <1>3 DEF DownloadOK, InArchive, InDelete, InFile
<1> QED
  BY <1>1, <1>3, <1>4, DownloadMoves DEF Types

\* An output that a request sends as it is is listed.
LEMMA FileListed ==
  ASSUME IndInv, NEW r \in Request, call[r].at \in InFile, <<"out", call[r].outs>> \notin dir
  PROVE  deleting
<1>1. call[r].outs \in 1..Targets /\ (~deleting => call[r].outs <= rows.jobs.outs)
  BY DEF IndInv, FileInv, DownloadOK
<1> QED
  BY <1>1, Listed

LEMMA CheckFileStep ==
  ASSUME IndInv, up, NEW r \in Request, CheckFile(r), UNCHANGED <<backup, up, lock>>
  PROVE  IndInv'
<1>1. /\ call[r].at = "file" /\ Stay /\ UNCHANGED <<seen, fileVars>>
      /\ Move(r, IF <<"out", call[r].outs>> \in dir THEN "sendFile" ELSE "missing")
  BY DEF CheckFile
<1>2. <<"out", call[r].outs>> \notin dir => deleting
  BY <1>1, FileListed DEF InFile
<1> QED
  BY <1>1, <1>2, DownloadGoes DEF AtFiles, InFile, Over, Packing

LEMMA SendFileStep ==
  ASSUME IndInv, up, NEW r \in Request, SendFile(r), UNCHANGED <<backup, up, lock>>
  PROVE  IndInv'
<1>1. /\ call[r].at = "sendFile" /\ Stay /\ UNCHANGED <<seen, fileVars>>
      /\ Move(r, IF <<"out", call[r].outs>> \in dir THEN "sentFile" ELSE "failed")
  BY DEF SendFile
<1>2. <<"out", call[r].outs>> \notin dir => deleting
  BY <1>1, FileListed DEF InFile
<1> QED
  BY <1>1, <1>2, DownloadGoes DEF AtFiles, InFile, Over, Packing

LEMMA FindStep ==
  ASSUME IndInv, up, NEW r \in Request, Find(r), UNCHANGED <<backup, up, lock>>
  PROVE  IndInv'
<1>1. /\ call[r].at = "find" /\ Stay /\ UNCHANGED <<seen, fileVars>>
      /\ Move(r, IF <<"zip", call[r].outs>> \in dir THEN "send" ELSE "make")
  BY DEF Find
<1> QED
  BY <1>1, DownloadGoes DEF AtFiles, InArchive, Packing

\* What is sent is the archive of the outputs that were listed; only a delete takes it
\* away.
LEMMA SendArchiveStep ==
  ASSUME IndInv, up, NEW r \in Request, SendArchive(r), UNCHANGED <<backup, up, lock>>
  PROVE  IndInv'
<1>1. /\ Types /\ call[r].at = "send" /\ DownloadOK(r) /\ Stay /\ UNCHANGED <<seen, fileVars>>
      /\ UNCHANGED <<rows, rev, minted, redis>>
  BY DEF IndInv, FileInv, SendArchive, Stay
<1>2. call[r].outs \in 2..Targets /\ (~deleting => <<"zip", call[r].outs>> \in dir)
  BY <1>1 DEF DownloadOK, InArchive
<1>3. CASE <<"zip", call[r].outs>> \in dir
  <2>1. DoneSet(r, "sent", zips[call[r].outs])
    BY <1>3 DEF SendArchive, DoneSet
  <2>2. zips[call[r].outs] = Outs(call[r].outs)
    BY <1>2, <1>3 DEF IndInv, FileInv, FilesOK
  <2>3. zips[call[r].outs] \in SUBSET Entry
    BY <1>1, <1>2 DEF Types
  <2>4. /\ call' \in [Request -> Calls] /\ Others(r)
        /\ call'[r].at = "sent" /\ call'[r].value = call[r].value
        /\ call'[r].outs = call[r].outs /\ call'[r].done = zips[call[r].outs]
    BY <1>1, <2>1, <2>3, DoneFacts DEF Places, Over
  <2>5. DownloadOK(r)'
    BY <1>2, <2>2, <2>4 DEF DownloadOK, InArchive, InDelete, InFile, Packing
  <2> QED
    BY <1>1, <2>4, <2>5, DownloadMoves DEF AtFiles, InArchive, Over, Packing, Types
<1>4. CASE <<"zip", call[r].outs>> \notin dir
  <2>1. Move(r, "failed") /\ deleting
    BY <1>2, <1>4 DEF SendArchive
  <2> QED
    BY <1>1, <2>1, DownloadGoes DEF AtFiles, InArchive, Over, Packing
<1> QED
  BY <1>3, <1>4

LEMMA MakeStep ==
  ASSUME IndInv, up, NEW r \in Request, Make(r), UNCHANGED <<backup, up, lock>>
  PROVE  IndInv'
<1>1. /\ Types /\ call[r].at = "make" /\ DownloadOK(r)
      /\ UNCHANGED <<rows, rev, minted, redis, seen, folder, zips, running, deleting>>
  BY DEF IndInv, FileInv, Make, Stay
<1>2. call[r].outs \in 2..Targets /\ (~deleting => call[r].outs <= rows.jobs.outs)
      /\ call[r].done = {}
  BY <1>1 DEF DownloadOK, InArchive
<1>3. CASE folder
  <2>1. call' = [call EXCEPT ![r].at = "pack"] /\ dir' = dir \cup {<<"tmp", r>>}
    BY <1>3 DEF Make, Move
  <2>2. /\ call' \in [Request -> Calls] /\ Others(r)
        /\ call'[r].at = "pack" /\ call'[r].value = call[r].value
        /\ call'[r].outs = call[r].outs /\ call'[r].done = call[r].done
    BY <1>1, <2>1, MoveFacts DEF Places, InArchive, Packing
  <2>3. call'[r].done = Outs(0) /\ 0 \in 0..call[r].outs
    BY <1>2, <2>2, TargetsAssumption DEF Outs
  <2>4. DownloadOK(r)'
    BY <1>1, <1>2, <2>1, <2>2, <2>3 DEF DownloadOK, InArchive, InDelete
  <2>5. FilesOK'
    <3>1. \A n \in 2..Targets : <<"zip", n>> \in dir' => <<"zip", n>> \in dir
      BY <2>1
    <3>2. \A e \in Temps' : call'[e[2]].at \in Packing
      BY <2>1, <2>2, TempOwned DEF Temps, Packing
    <3> QED
      BY <1>1, <1>3, <2>1, <3>1, <3>2 DEF IndInv, FileInv, FilesOK
  <2>6. dir' \subseteq Entry
    BY <1>1, <2>1 DEF Types, TypeOK, Entry
  <2> QED
    BY <1>1, <2>1, <2>2, <2>4, <2>5, <2>6, FilesFrame DEF AtFiles, InArchive, Types, TypeOK, Packing
<1>4. CASE ~folder
  <2>1. call' = [call EXCEPT ![r].at = "missing"] /\ UNCHANGED dir
    BY <1>4 DEF Make, Move
  <2>2. /\ call' \in [Request -> Calls] /\ Others(r)
        /\ call'[r].at = "missing" /\ call'[r].value = call[r].value
    BY <1>1, <2>1, MoveFacts DEF Places, Over
  <2>3. deleting /\ UNCHANGED fileVars
    BY <1>1, <1>4, <2>1 DEF IndInv, FileInv, FilesOK, fileVars
  <2>4. DownloadOK(r)'
    BY <1>1, <2>2, <2>3 DEF DownloadOK, InArchive, InDelete, Packing, InFile
  <2> QED
    BY <1>1, <2>2, <2>3, <2>4, DownloadMoves DEF AtFiles, InArchive, Types, Packing, Over
<1> QED
  BY <1>3, <1>4

LEMMA PackStep ==
  ASSUME IndInv, up, NEW r \in Request, Pack(r), UNCHANGED <<backup, up, lock>>
  PROVE  IndInv'
<1>1. /\ Types /\ call[r].at = "pack" /\ DownloadOK(r) /\ FilesOK
      /\ UNCHANGED <<rows, rev, minted, redis, seen, folder, zips, running, deleting>>
  BY DEF IndInv, FileInv, Pack, Stay
<1>2. call[r].outs \in 2..Targets /\ (~deleting => call[r].outs <= rows.jobs.outs)
  BY <1>1 DEF DownloadOK, InArchive, Packing
<1>3. PICK n \in 0..call[r].outs : call[r].done = Outs(n)
  BY <1>1 DEF DownloadOK
<1>4. /\ n \in Nat /\ n <= call[r].outs /\ Cardinality(call[r].done) = n
      /\ call[r].outs \in Nat /\ n \in 0..Targets
  BY <1>2, <1>3, OutsCount, TargetsAssumption
<1>5. CASE n + 1 > call[r].outs
  <2>1. call' = [call EXCEPT ![r].at = "publish"] /\ UNCHANGED dir
    BY <1>4, <1>5 DEF Pack, Move
  <2>2. /\ call' \in [Request -> Calls] /\ Others(r)
        /\ call'[r].at = "publish" /\ call'[r].value = call[r].value
        /\ call'[r].outs = call[r].outs /\ call'[r].done = call[r].done
    BY <1>1, <2>1, MoveFacts DEF Places, InArchive, Packing
  <2>3. n = call[r].outs
    BY <1>4, <1>5
  <2>4. DownloadOK(r)'
    BY <1>1, <1>2, <1>3, <2>1, <2>2, <2>3 DEF DownloadOK, InArchive, InDelete
  <2>5. FilesOK'
    BY <1>1, <2>1, <2>2, FilesKept DEF fileVars, Packing
  <2> QED
    BY <1>1, <2>1, <2>2, <2>4, <2>5, FilesFrame
       DEF AtFiles, InArchive, Types, TypeOK, Entry, Packing
<1>6. CASE n + 1 <= call[r].outs /\ <<"out", n + 1>> \in dir
  <2>1. DoneSet(r, "pack", call[r].done \cup {<<"out", n + 1>>}) /\ UNCHANGED dir
    BY <1>1, <1>4, <1>6 DEF Pack, DoneSet
  <2>2. call[r].done \cup {<<"out", n + 1>>} = Outs(n + 1) /\ n + 1 \in 0..call[r].outs
    BY <1>3, <1>4, <1>6, OutsGrow
  <2>3. Outs(n + 1) \in SUBSET Entry
    BY <1>2, <1>4, <1>6, OutsEntries, TargetsAssumption
  <2>4. /\ call' \in [Request -> Calls] /\ Others(r)
        /\ call'[r].at = "pack" /\ call'[r].value = call[r].value
        /\ call'[r].outs = call[r].outs /\ call'[r].done = Outs(n + 1)
    <3>1. DoneSet(r, "pack", Outs(n + 1)) /\ "pack" \in Places
      BY <2>1, <2>2 DEF Places, InArchive, Packing
    <3> QED
      BY <1>1, <2>3, <3>1, DoneFacts
  <2>5. DownloadOK(r)'
    BY <1>1, <1>2, <2>1, <2>2, <2>4 DEF DownloadOK, InArchive, InDelete
  <2>6. FilesOK'
    BY <1>1, <2>1, <2>4, FilesKept DEF fileVars, Packing
  <2> QED
    BY <1>1, <2>1, <2>4, <2>5, <2>6, FilesFrame
       DEF AtFiles, InArchive, Types, TypeOK, Entry, Packing
<1>7. CASE n + 1 <= call[r].outs /\ <<"out", n + 1>> \notin dir
  <2>1. call' = [call EXCEPT ![r].at = "drop"] /\ UNCHANGED dir
    BY <1>4, <1>7 DEF Pack, Move
  <2>2. /\ call' \in [Request -> Calls] /\ Others(r)
        /\ call'[r].at = "drop" /\ call'[r].value = call[r].value
        /\ call'[r].outs = call[r].outs
    BY <1>1, <2>1, MoveFacts DEF Places, InArchive, Packing
  <2>3. deleting
    <3>1. ~deleting => n + 1 <= rows.jobs.outs
      BY <1>1, <1>2, <1>4, <1>7 DEF Types, TypeOK
    <3> QED
      BY <1>4, <1>7, <3>1, Listed
  <2>4. DownloadOK(r)'
    BY <1>1, <1>2, <2>2, <2>3 DEF DownloadOK, InArchive, InDelete
  <2>5. FilesOK'
    BY <1>1, <2>1, <2>2, FilesKept DEF fileVars, Packing
  <2> QED
    BY <1>1, <2>1, <2>2, <2>4, <2>5, FilesFrame
       DEF AtFiles, InArchive, Packing, Types, TypeOK, Entry
<1> QED
  BY <1>4, <1>5, <1>6, <1>7

LEMMA DropStep ==
  ASSUME IndInv, up, NEW r \in Request, Drop(r), UNCHANGED <<backup, up, lock>>
  PROVE  IndInv'
<1>1. /\ Types /\ call[r].at = "drop" /\ DownloadOK(r) /\ FilesOK
      /\ call' = [call EXCEPT ![r].at = "missing"] /\ dir' = dir \ {<<"tmp", r>>}
      /\ UNCHANGED <<rows, rev, minted, redis, seen, folder, zips, running, deleting>>
  BY DEF IndInv, FileInv, Drop, Move, Stay
<1>2. /\ call' \in [Request -> Calls] /\ Others(r)
      /\ call'[r].at = "missing" /\ call'[r].value = call[r].value
  BY <1>1, MoveFacts DEF Places, Over
<1>3. deleting
  BY <1>1 DEF DownloadOK
<1>4. DownloadOK(r)'
  BY <1>1, <1>2, <1>3 DEF DownloadOK, InArchive, InDelete, Packing
<1>5. FilesOK'
  <2>1. \A e \in Temps' : call'[e[2]].at \in Packing
    BY <1>1, <1>2, TempOwned DEF Temps
  <2> QED
    BY <1>1, <1>3, <2>1 DEF FilesOK
<1> QED
  BY <1>1, <1>2, <1>4, <1>5, FilesFrame DEF AtFiles, InArchive, Over, Packing, Types, TypeOK, Entry

\* The archive of the listed outputs, and of no others, is there from now on.
LEMMA PublishStep ==
  ASSUME IndInv, up, NEW r \in Request, Publish(r), UNCHANGED <<backup, up, lock>>
  PROVE  IndInv'
<1>1. /\ Types /\ call[r].at = "publish" /\ DownloadOK(r) /\ FilesOK
      /\ UNCHANGED <<rows, rev, minted, redis, seen, folder, running, deleting>>
  BY DEF IndInv, FileInv, Publish, Stay
<1>2. /\ call[r].outs \in 2..Targets /\ (~deleting => <<"tmp", r>> \in dir)
      /\ call[r].done = Outs(call[r].outs)
  BY <1>1 DEF DownloadOK, InArchive, Packing
<1>3. CASE <<"tmp", r>> \in dir
  <2>1. /\ dir' = (dir \ {<<"tmp", r>>}) \cup {<<"zip", call[r].outs>>}
        /\ zips' = [zips EXCEPT ![call[r].outs] = call[r].done]
        /\ call' = [call EXCEPT ![r].at = "send"]
    BY <1>3 DEF Publish, Move
  <2>2. /\ call' \in [Request -> Calls] /\ Others(r)
        /\ call'[r].at = "send" /\ call'[r].value = call[r].value
        /\ call'[r].outs = call[r].outs /\ call'[r].done = call[r].done
    BY <1>1, <2>1, MoveFacts DEF Places, InArchive
  <2>3. DownloadOK(r)'
    BY <1>1, <1>2, <2>1, <2>2 DEF DownloadOK, InArchive, InDelete, Packing
  <2>4. /\ zips' \in [2..Targets -> SUBSET Entry]
        /\ \A n \in 2..Targets : zips'[n] = zips[n] \/ (n = call[r].outs /\ zips'[n] = Outs(n))
        /\ zips'[call[r].outs] = Outs(call[r].outs)
    <3>1. call[r].done \subseteq Entry
      BY <1>1, Fielded
    <3> QED
      BY <1>1, <1>2, <2>1, <3>1 DEF Types
  <2>5. FilesOK'
    <3>1. \A n \in 2..Targets : <<"zip", n>> \in dir' => <<"zip", n>> \in dir \/ n = call[r].outs
      BY <2>1
    <3>2. \A e \in Temps' : call'[e[2]].at \in Packing
      <4>1. <<"tmp", r>> \notin dir' /\ \A e \in Temps' : e \in dir
        BY <2>1 DEF Temps
      <4> QED
        BY <2>2, <4>1, TempOwned
    <3>3. folder
      BY <1>1, <1>3 DEF FilesOK
    <3>4. ~deleting => Outs(rows.jobs.outs) \subseteq dir'
      BY <1>1, <2>1 DEF FilesOK, Outs
    <3>5. \A n \in 2..Targets : <<"zip", n>> \in dir' => zips'[n] = Outs(n)
      BY <1>1, <2>4, <3>1 DEF FilesOK
    <3> QED
      BY <1>1, <3>2, <3>3, <3>4, <3>5 DEF FilesOK
  <2>6. dir' \subseteq Entry
    BY <1>1, <1>2, <2>1 DEF Types, TypeOK, Entry
  <2> QED
    BY <1>1, <2>1, <2>2, <2>3, <2>4, <2>5, <2>6, FilesFrame
       DEF AtFiles, InArchive, Types, TypeOK, Packing
<1>4. CASE <<"tmp", r>> \notin dir
  <2>1. call' = [call EXCEPT ![r].at = "missing"] /\ UNCHANGED <<dir, zips>>
    BY <1>4 DEF Publish, Move
  <2>2. /\ call' \in [Request -> Calls] /\ Others(r)
        /\ call'[r].at = "missing" /\ call'[r].value = call[r].value
    BY <1>1, <2>1, MoveFacts DEF Places, Over, InArchive
  <2>3. DownloadOK(r)'
    BY <1>1, <1>2, <1>4, <2>2 DEF DownloadOK, InArchive, InDelete, Packing, InFile
  <2>4. FilesOK'
    BY <1>1, <1>4, <2>1, <2>2, FilesKept DEF fileVars
  <2> QED
    BY <1>1, <2>1, <2>2, <2>3, <2>4, FilesFrame
       DEF AtFiles, InArchive, Types, TypeOK, Entry, Packing, Over
<1> QED
  BY <1>3, <1>4

LEMMA SentStep ==
  ASSUME IndInv, up, NEW r \in Request, Sent(r), UNCHANGED <<backup, up, lock>>
  PROVE  IndInv'
<1>1. /\ Types /\ call[r].at \in Over /\ End(r)
      /\ UNCHANGED <<rows, rev, minted, redis, fileVars>>
  BY DEF IndInv, Sent, Stay, Over
<1>2. /\ call' \in [Request -> Calls] /\ Others(r)
      /\ call'[r].at = "idle" /\ call'[r].value = Nothing /\ call'[r].done = {}
      /\ seen' \in [Request -> SUBSET Contents] /\ \A q \in Request \ {r} : seen'[q] = seen[q]
  BY <1>1, EndFacts
<1>3. DownloadOK(r)'
  BY <1>2 DEF DownloadOK, InArchive, InDelete, Packing, InFile
<1> QED
  BY <1>1, <1>2, <1>3, DownloadMoves DEF AtFiles, Over, Packing

\* A delete begins: nothing that is listed is promised any more.
LEMMA DeleteStep ==
  ASSUME IndInv, up, NEW r \in Request, Delete(r), UNCHANGED <<backup, up, lock>>
  PROVE  IndInv'
<1>1. /\ Types /\ call[r].at = "idle" /\ FilesOK /\ rows.jobs.status \in Ended
      /\ deleting' = TRUE
      /\ UNCHANGED <<rows, rev, minted, redis, seen, folder, dir, zips, running>>
  BY DEF IndInv, FileInv, Delete, Stay
<1>2. call' = [call EXCEPT ![r].at = "exists"] /\ "exists" \in Places
  BY DEF Delete, Move, Places, InDelete
<1>3. /\ call' \in [Request -> Calls] /\ Others(r)
      /\ call'[r].at = "exists" /\ call'[r].value = call[r].value
  BY <1>1, <1>2, MoveFacts
<1>4. DownloadOK(r)'
  BY <1>1, <1>3 DEF DownloadOK, InArchive, InDelete, InFile, Packing
<1>5. FilesOK'
  <2>1. <<"tmp", r>> \notin dir
    BY <1>1 DEF FilesOK, Temps, Packing
  <2>2. \A e \in Temps' : call'[e[2]].at \in Packing
    BY <1>1, <1>3, <2>1, TempOwned DEF Temps
  <2> QED
    BY <1>1, <2>2 DEF FilesOK, Ended
<1> QED
  BY <1>1, <1>3, <1>4, <1>5, FilesFrame DEF AtFiles, InDelete, Types, TypeOK, Entry

LEMMA FolderExistsStep ==
  ASSUME IndInv, up, NEW r \in Request, FolderExists(r), UNCHANGED <<backup, up, lock>>
  PROVE  IndInv'
<1>1. /\ call[r].at = "exists" /\ Stay /\ UNCHANGED <<seen, fileVars>>
      /\ Move(r, IF folder THEN "list" ELSE "deleteRow")
  BY DEF FolderExists
<1>2. deleting
  BY <1>1 DEF IndInv, FileInv, DownloadOK, InDelete
<1> QED
  BY <1>1, <1>2, DownloadGoes DEF AtFiles, InDelete, Packing

LEMMA ListStep ==
  ASSUME IndInv, up, NEW r \in Request, List(r), UNCHANGED <<backup, up, lock>>
  PROVE  IndInv'
<1>1. /\ Types /\ call[r].at = "list" /\ DownloadOK(r) /\ deleting
      /\ UNCHANGED <<rows, rev, minted, redis, seen, fileVars>>
  BY DEF IndInv, FileInv, List, Stay, DownloadOK, InDelete
<1>2. CASE folder
  <2>1. call' = [call EXCEPT ![r] = [call[r] EXCEPT !.at = "unlink", !.done = dir]]
    BY <1>2 DEF List
  <2>2. dir \in SUBSET Entry /\ "unlink" \in Places
    BY <1>1 DEF Types, TypeOK, Entry, Places, InDelete
  <2>3. DoneSet(r, "unlink", dir)
    <3>1. call \in [Request -> Calls] /\ call[r] \in Calls
      BY <1>1 DEF Types
    <3> QED
      BY <2>1, <3>1 DEF DoneSet
  <2>4. /\ call' \in [Request -> Calls] /\ Others(r)
        /\ call'[r].at = "unlink" /\ call'[r].value = call[r].value
    BY <1>1, <2>2, <2>3, DoneFacts
  <2>5. DownloadOK(r)'
    BY <1>1, <2>4 DEF DownloadOK, InArchive, InDelete, InFile, Packing, fileVars
  <2> QED
    BY <1>1, <2>4, <2>5, DownloadMoves DEF AtFiles, InDelete, Packing, Types
<1>3. CASE ~folder
  <2>1. call' = [call EXCEPT ![r] = Idle]
    BY <1>3 DEF List
  <2>2. /\ call' \in [Request -> Calls] /\ Others(r)
        /\ call'[r].at = "idle" /\ call'[r].value = Nothing /\ call'[r].done = {}
    BY <1>1, <2>1, IdleFacts
  <2>3. DownloadOK(r)'
    BY <2>2 DEF DownloadOK, InArchive, InDelete, InFile, Packing
  <2> QED
    BY <1>1, <2>2, <2>3, DownloadMoves DEF AtFiles, InDelete, Packing, Types
<1> QED
  BY <1>2, <1>3

LEMMA UnlinkStep ==
  ASSUME IndInv, up, NEW r \in Request, Unlink(r), UNCHANGED <<backup, up, lock>>
  PROVE  IndInv'
<1>1. /\ Types /\ call[r].at = "unlink" /\ DownloadOK(r) /\ FilesOK
      /\ UNCHANGED <<rows, rev, minted, redis, seen, folder, zips, running, deleting>>
  BY DEF IndInv, FileInv, Unlink, Stay
<1>2. PICK e \in call[r].done : dir' = dir \ {e} /\ DoneSet(r, "unlink", call[r].done \ {e})
  BY <1>1 DEF Unlink, DoneSet
<1>3. call[r].done \ {e} \in SUBSET Entry /\ "unlink" \in Places /\ deleting
  BY <1>1, Fielded DEF Places, InDelete, DownloadOK
<1>4. /\ call' \in [Request -> Calls] /\ Others(r)
      /\ call'[r].at = "unlink" /\ call'[r].value = call[r].value
  BY <1>1, <1>2, <1>3, DoneFacts
<1>5. DownloadOK(r)'
  BY <1>1, <1>3, <1>4 DEF DownloadOK, InArchive, InDelete, Packing, InFile
<1>6. FilesOK'
  <2>1. <<"tmp", r>> \notin dir
    BY <1>1 DEF FilesOK, Temps, Packing
  <2>2. \A t \in Temps' : call'[t[2]].at \in Packing
    BY <1>2, <1>4, <2>1, TempOwned DEF Temps
  <2> QED
    BY <1>1, <1>2, <1>3, <2>2 DEF FilesOK
<1>7. dir' \subseteq Entry
  BY <1>1, <1>2 DEF Types, TypeOK, Entry
<1> QED
  BY <1>1, <1>3, <1>4, <1>5, <1>6, <1>7, FilesFrame DEF AtFiles, InDelete, Types, TypeOK

LEMMA UnlinkErrorStep ==
  ASSUME IndInv, up, NEW r \in Request, UnlinkError(r), UNCHANGED <<backup, up, lock>>
  PROVE  IndInv'
<1>1. /\ Types /\ call[r].at = "unlink" /\ End(r)
      /\ UNCHANGED <<rows, rev, minted, redis, fileVars>>
  BY DEF IndInv, UnlinkError, Stay
<1>2. /\ call' \in [Request -> Calls] /\ Others(r)
      /\ call'[r].at = "idle" /\ call'[r].value = Nothing /\ call'[r].done = {}
      /\ seen' \in [Request -> SUBSET Contents] /\ \A q \in Request \ {r} : seen'[q] = seen[q]
  BY <1>1, EndFacts
<1>3. DownloadOK(r)'
  BY <1>2 DEF DownloadOK, InArchive, InDelete, Packing, InFile
<1> QED
  BY <1>1, <1>2, <1>3, DownloadMoves DEF AtFiles, InDelete, Packing

\* The folder goes only when it is empty.
LEMMA RmdirStep ==
  ASSUME IndInv, up, NEW r \in Request, Rmdir(r), UNCHANGED <<backup, up, lock>>
  PROVE  IndInv'
<1>1. /\ Types /\ call[r].at = "unlink" /\ DownloadOK(r) /\ FilesOK /\ deleting
      /\ UNCHANGED <<rows, rev, minted, redis, seen, dir, zips, running, deleting>>
  BY DEF IndInv, FileInv, Rmdir, Stay, DownloadOK, InDelete
<1>2. CASE folder /\ dir = {}
  <2>1. folder' = FALSE /\ call' = [call EXCEPT ![r].at = "deleteRow"]
    BY <1>2 DEF Rmdir, Move
  <2>2. /\ call' \in [Request -> Calls] /\ Others(r)
        /\ call'[r].at = "deleteRow" /\ call'[r].value = call[r].value
    BY <1>1, <2>1, MoveFacts DEF Places, InDelete
  <2>3. DownloadOK(r)'
    BY <1>1, <2>1, <2>2 DEF DownloadOK, InArchive, InDelete, Packing, InFile
  <2>4. FilesOK'
    BY <1>1, <1>2, <2>1 DEF FilesOK, Temps
  <2> QED
    BY <1>1, <2>1, <2>2, <2>3, <2>4, FilesFrame DEF AtFiles, InDelete, Types, TypeOK, Entry
<1>3. CASE ~(folder /\ dir = {})
  <2>1. call' = [call EXCEPT ![r] = Idle] /\ UNCHANGED fileVars
    BY <1>1, <1>3 DEF Rmdir, fileVars
  <2>2. /\ call' \in [Request -> Calls] /\ Others(r)
        /\ call'[r].at = "idle" /\ call'[r].value = Nothing /\ call'[r].done = {}
    BY <1>1, <2>1, IdleFacts
  <2>3. DownloadOK(r)'
    BY <2>2 DEF DownloadOK, InArchive, InDelete, Packing, InFile
  <2> QED
    BY <1>1, <2>1, <2>2, <2>3, DownloadMoves DEF AtFiles, InDelete, Types, Packing
<1> QED
  BY <1>2, <1>3

-----------------------------------------------------------------------------
(* Commits of the job row, the run, and the server *)

LEMMA JobCommit ==
  ASSUME IndInv, up, NEW c \in JobRow, Commit("jobs", c), call' \in [Request -> Calls],
         \A q \in Request : call'[q] = call[q] \/ (call[q].at \in AtFiles /\ call'[q] = Idle),
         UNCHANGED <<folder, dir, zips, deleting, lock, backup, up>>, running' \in BOOLEAN
  PROVE  Types' /\ ReadInv' /\ CaptchaInv' /\ rows'.jobs = c
<1>1. c \in Contents /\ "jobs" \in Table /\ lock' \in Request \cup {NoRequest} /\ Types
  BY DEF Contents, Table, IndInv, Types, TypeOK
<1>2. /\ Types'
      /\ rows'["jobs"] = c /\ \A u \in Table \ {"jobs"} : rows'[u] = rows[u]
      /\ rev'["jobs"] = minted + 1 /\ \A u \in Table \ {"jobs"} : rev'[u] = rev[u]
      /\ minted' = minted + 1 /\ redis' = redis /\ minted \in Nat /\ minted + 1 <= MaxRevisions
      /\ \A q \in Request : seen'[q] = IF Reading(q) = "jobs" THEN seen[q] \cup {c} ELSE seen[q]
  BY <1>1, TypesCommit
<1>3. ReadInv'
  <2>1. \A q \in Request : StaysOut(q)
    BY DEF StaysOut, AtFiles, Idle, InRead, InArchive, InDelete, Packing, InFile, Over
  <2>2. ASSUME NEW q \in Request
        PROVE  UseOK(q)'
    <3>1. CASE call'[q] = Idle
      BY <3>1 DEF UseOK, Idle, InCheck
    <3>2. CASE call'[q] = call[q]
      BY <1>2, <3>2 DEF IndInv, ReadInv, UseOK
    <3> QED
      BY <3>1, <3>2
  <2> QED
    BY <1>1, <1>2, <2>1, <2>2, ReadsCommit
<1>4. CaptchaInv'
  <2>1. rows'.settings = rows.settings
    BY <1>2 DEF Table
  <2>2. ASSUME NEW q \in Request
        PROVE  AwayFromCaptcha(q)
    <3>1. CASE call'[q] = Idle
      BY <3>1 DEF AwayFromCaptcha, Idle, InCheck, InRead
    <3>2. CASE call'[q] = call[q]
      BY <1>2, <3>2 DEF AwayFromCaptcha
    <3> QED
      BY <3>1, <3>2
  <2> QED
    BY <2>1, <2>2, CaptchaQuiet
<1> QED
  BY <1>2, <1>3, <1>4

LEMMA DeleteRowStep ==
  ASSUME IndInv, up, NEW r \in Request, DeleteRow(r), UNCHANGED <<backup, up, lock>>
  PROVE  IndInv'
<1> DEFINE c == [status |-> "gone", outs |-> 0]
<1>1. /\ Types /\ call[r].at = "deleteRow" /\ DownloadOK(r) /\ FilesOK /\ Commit("jobs", c)
      /\ call' = [call EXCEPT ![r] = Idle]
      /\ UNCHANGED <<folder, dir, zips, running, deleting>>
  BY DEF IndInv, FileInv, DeleteRow, fileVars
<1>2. c \in JobRow /\ c.status = "gone" /\ c.outs = 0 /\ running \in BOOLEAN
  BY <1>1, TargetsAssumption DEF JobRow, Types, TypeOK
<1>3. /\ call' \in [Request -> Calls] /\ Others(r) /\ call'[r] = Idle
      /\ call'[r].at = "idle" /\ call'[r].done = {}
  BY <1>1, IdleFacts DEF Types
<1>4. \A q \in Request : call'[q] = call[q] \/ (call[q].at \in AtFiles /\ call'[q] = Idle)
  BY <1>1, <1>3 DEF Others, AtFiles, InDelete
<1> HIDE DEF c
<1>5. Types' /\ ReadInv' /\ CaptchaInv' /\ rows'.jobs = c
  BY <1>1, <1>2, <1>3, <1>4, JobCommit
<1>6. ~folder /\ deleting
  BY <1>1 DEF DownloadOK, InDelete
<1>7. FilesOK'
  <2>1. <<"tmp", r>> \notin dir
    BY <1>1 DEF FilesOK, Temps, Packing
  <2>2. \A e \in Temps' : call'[e[2]].at \in Packing
    BY <1>1, <1>3, <2>1, TempOwned DEF Temps
  <2> QED
    BY <1>1, <1>2, <1>5, <1>6, <2>2 DEF FilesOK
<1>8. ASSUME NEW q \in Request
      PROVE  DownloadOK(q)'
  <2>1. CASE q = r
    BY <1>3, <2>1 DEF DownloadOK, InArchive, InDelete, Packing, InFile
  <2>2. CASE q # r
    <3>1. call'[q] = call[q] /\ rows'.jobs.outs \in 0..Targets
      BY <1>3, <1>5, <2>2 DEF Others, Types, TypeOK
    <3> QED
      BY <1>1, <1>6, <3>1, StaysDownload
  <2> QED
    BY <2>1, <2>2
<1> QED
  BY <1>5, <1>7, <1>8 DEF IndInv, FileInv

LEMMA DownloadStepInv ==
  ASSUME IndInv, NEW r \in Request, DownloadStep(r), UNCHANGED <<backup, up, lock>>
  PROVE  IndInv'
<1>1. up
  BY Working
     DEF DownloadStep, CheckFile, SendFile, Find, Make, Pack, Drop, Publish, SendArchive, Sent,
                 FolderExists, List, Unlink, UnlinkError, Rmdir, DeleteRow
<1> QED
  BY <1>1, CheckFileStep, SendFileStep, FindStep, MakeStep, PackStep, DropStep, PublishStep,
     SendArchiveStep, SentStep, FolderExistsStep, ListStep, UnlinkStep, UnlinkErrorStep, RmdirStep, DeleteRowStep
     DEF DownloadStep

\* An output is on disk before it is listed, and a job that is run is not being deleted.
LEMMA RunStep ==
  ASSUME IndInv, Run, UNCHANGED <<backup, up, lock>>
  PROVE  IndInv'
<1>1. /\ Types /\ FilesOK /\ running /\ up /\ rows.jobs.status = "processing" /\ ~deleting /\ folder
      /\ rows.jobs.outs \in Nat /\ rows.jobs.outs \in 0..Targets
      /\ UNCHANGED call
  BY TargetsAssumption
     DEF IndInv, FileInv, FilesOK, Types, TypeOK, Run, RunWrite, RunList, RunComplete, cacheVars
<1>2. \A q \in Request : call'[q] = call[q]
  BY <1>1
<1>3. CASE RunWrite
  <2>1. /\ UNCHANGED <<rows, rev, minted, redis, call, seen, folder, zips, running, deleting>>
        /\ rows.jobs.outs < Targets
        /\ dir' = dir \cup {<<"out", rows.jobs.outs + 1>>}
    BY <1>3 DEF RunWrite, cacheVars
  <2>2. rows.jobs.outs + 1 \in 1..Targets
    BY <1>1, <2>1, TargetsAssumption
  <2>3. dir' \subseteq Entry
    BY <1>1, <2>1, <2>2 DEF Types, TypeOK, Entry
  <2>4. Types'
    BY <1>1, <2>1, <2>3, TypesQuiet DEF Types, TypeOK
  <2>5. ReadInv' /\ CaptchaInv'
    <3>1. \A q \in Request : StaysOut(q) /\ UseOK(q)' /\ AwayFromCaptcha(q)
      BY <1>2, <2>1 DEF IndInv, ReadInv, UseOK, StaysOut, AwayFromCaptcha
    <3> QED
      BY <2>1, <3>1, ReadsQuiet, CaptchaQuiet
  <2>6. FilesOK'
    <3>1. Temps' = Temps /\ \A n \in 2..Targets : <<"zip", n>> \in dir' => <<"zip", n>> \in dir
      BY <2>1 DEF Temps
    <3> QED
      BY <1>1, <2>1, <3>1 DEF FilesOK
  <2>7. \A q \in Request : DownloadOK(q)'
    <3>1. rows'.jobs.outs \in 0..Targets /\ rows.jobs.outs <= rows'.jobs.outs
      BY <1>1, <2>1
    <3> QED
      BY <1>2, <2>1, <3>1, StaysDownload
  <2> QED
    BY <2>4, <2>5, <2>6, <2>7 DEF IndInv, FileInv
<1>4. CASE RunList
  <2> DEFINE c == [rows.jobs EXCEPT !.outs = rows.jobs.outs + 1]
  <2>1. /\ Commit("jobs", c) /\ UNCHANGED <<folder, dir, zips, running, deleting>>
        /\ rows.jobs.outs < Targets /\ <<"out", rows.jobs.outs + 1>> \in dir
    BY <1>4 DEF RunList, fileVars
  <2>2. rows.jobs.outs + 1 \in 0..Targets /\ rows.jobs \in JobRow
    BY <1>1, <2>1, TargetsAssumption DEF Types
  <2>3. c \in JobRow /\ c.outs = rows.jobs.outs + 1 /\ c.status = "processing"
    BY <1>1, <2>2 DEF JobRow
  <2> HIDE DEF c
  <2>4. Types' /\ ReadInv' /\ CaptchaInv' /\ rows'.jobs = c
    BY <1>1, <1>2, <2>1, <2>3, JobCommit DEF Types, TypeOK
  <2>5. FilesOK'
    <3>1. Outs(c.outs) \subseteq dir
      BY <1>1, <2>1, <2>3, OutsGrow DEF FilesOK
    <3> QED
      BY <1>1, <2>1, <2>3, <2>4, <3>1 DEF FilesOK, Temps
  <2>6. \A q \in Request : DownloadOK(q)'
    <3>1. rows'.jobs.outs \in 0..Targets /\ rows.jobs.outs <= rows'.jobs.outs
      BY <1>1, <2>2, <2>3, <2>4
    <3> QED
      BY <1>2, <2>1, <3>1, StaysDownload
  <2> QED
    BY <2>4, <2>5, <2>6 DEF IndInv, FileInv
<1>5. CASE RunComplete
  <2> DEFINE c == [rows.jobs EXCEPT !.status = "completed"]
  <2>1. /\ Commit("jobs", c) /\ UNCHANGED <<folder, dir, zips, deleting>> /\ running' = FALSE
    BY <1>5 DEF RunComplete
  <2>2. c \in JobRow /\ c.outs = rows.jobs.outs /\ c.status = "completed"
    BY <1>1 DEF Types, JobRow
  <2> HIDE DEF c
  <2>3. Types' /\ ReadInv' /\ CaptchaInv' /\ rows'.jobs = c
    BY <1>1, <1>2, <2>1, <2>2, JobCommit DEF Types
  <2>4. FilesOK'
    BY <1>1, <2>1, <2>2, <2>3 DEF FilesOK, Temps
  <2>5. \A q \in Request : DownloadOK(q)'
    <3>1. rows'.jobs.outs \in 0..Targets /\ rows.jobs.outs <= rows'.jobs.outs
      BY <1>1, <2>2, <2>3
    <3> QED
      BY <1>2, <2>1, <3>1, StaysDownload
  <2> QED
    BY <2>3, <2>4, <2>5 DEF IndInv, FileInv
<1> QED
  BY <1>3, <1>4, <1>5 DEF Run

LEMMA IdleDownload ==
  ASSUME NEW r \in Request, call'[r] = Idle
  PROVE  DownloadOK(r)'
BY DEF DownloadOK, Idle, InArchive, InDelete, Packing, InFile

\* Nobody is at work while the server is down.
LEMMA Down ==
  ASSUME IndInv, ~up
  PROVE  \A r \in Request : call[r] = Idle /\ seen[r] = {}
BY DEF IndInv, ReadInv, UseOK

\* A server with no request at work.
LEMMA Resting ==
  ASSUME Types', CacheOK', CaptchaOK', FilesOK',
         \A r \in Request : call'[r] = Idle /\ seen'[r] = {}
  PROVE  IndInv'
<1>1. ASSUME NEW r \in Request
      PROVE  ReadOK(r)' /\ UseOK(r)' /\ ChangeOK(r)' /\ DownloadOK(r)'
  <2>1. call'[r] = Idle /\ seen'[r] = {} /\ call'[r].at = "idle"
    BY DEF Idle
  <2>2. ReadOK(r)'
    BY <2>1 DEF ReadOK, InRead
  <2> QED
    BY <2>1, <2>2, IdleOK, IdleDownload
<1> QED
  BY <1>1 DEF IndInv, ReadInv, CaptchaInv, FileInv

\* The server stops: temporary files lose their owners.
LEMMA StopStep ==
  ASSUME IndInv, Stop
  PROVE  IndInv'
<1>1. /\ up' = FALSE /\ running' = FALSE /\ lock' = NoRequest
      /\ dir' = (dir \ Temps) \cup {<<"old", 1>> : e \in Temps}
      /\ call' = [r \in Request |-> Idle] /\ seen' = [r \in Request |-> {}]
      /\ UNCHANGED <<rows, rev, minted, redis, folder, zips, deleting, backup>>
  BY DEF Stop, CacheStop, FilesStop
<1>2. /\ call' \in [Request -> Calls] /\ seen' \in [Request -> SUBSET Contents]
      /\ \A r \in Request : call'[r] = Idle /\ seen'[r] = {}
  BY <1>1, IdleCall
<1>3. Types'
  <2>1. dir' \subseteq Entry
    BY <1>1 DEF IndInv, Types, TypeOK, Entry
  <2> QED
    BY <1>1, <1>2, <2>1 DEF IndInv, Types, TypeOK, Entry
<1>4. CacheOK' /\ CaptchaOK'
  BY <1>1 DEF IndInv, ReadInv, CacheOK, CaptchaInv, CaptchaOK
<1>5. FilesOK'
  <2>1. Temps' = {}
    BY <1>1 DEF Temps
  <2>2. \A n \in 2..Targets : <<"zip", n>> \in dir' => <<"zip", n>> \in dir
    BY <1>1
  <2>3. FilesOK /\ (dir = {} => dir' = {})
    BY <1>1 DEF IndInv, FileInv, Temps
  <2>4. \A n \in 0..Targets : Outs(n) \subseteq dir => Outs(n) \subseteq dir'
    BY <1>1 DEF Outs, Temps
  <2> QED
    BY <1>1, <2>1, <2>2, <2>3, <2>4 DEF FilesOK, IndInv, Types, TypeOK
<1> QED
  BY <1>2, <1>3, <1>4, <1>5, Resting

\* A restored database meets whatever Redis kept; nobody reads until the revisions
\* are bumped.
LEMMA RestoreStep ==
  ASSUME IndInv, Restore
  PROVE  IndInv'
<1>1. /\ ~up /\ rows' = backup /\ rev' = [t \in Table |-> IF t = "settings" THEN 1 ELSE 2]
      /\ folder' = TRUE /\ dir' = Outs(backup.jobs.outs) /\ deleting' = FALSE
      /\ UNCHANGED <<minted, redis, call, seen, zips, running, lock, backup, up>>
      /\ Types /\ FilesOK /\ backup.jobs = Job("processing", InitOuts)
  BY DEF Restore, IndInv, FileInv, FilesOK
<1>2. \A r \in Request : call'[r] = Idle /\ seen'[r] = {}
  BY <1>1, Down
<1>3. backup.jobs.outs = InitOuts /\ backup.jobs.status = "processing" /\ InitOuts \in 0..Targets
  BY <1>1, BoundsAssumption DEF Job
<1>4. minted \in 2..MaxRevisions /\ MaxRevisions \in Nat
  BY <1>1, RevisionsAssumption DEF Types, TypeOK
<1>5. rev' \in [Table -> 1..MaxRevisions] /\ \A t \in Table : rev'[t] \in 1..minted
  BY <1>1, <1>4
<1>6. dir' \subseteq Entry
  BY <1>1, <1>3, OutsEntries
<1>7. Types'
  <2>1. backup.settings.config \subseteq Fields
    BY <1>1 DEF Types, SettingsRow
  <2> QED
    BY <1>1, <1>3, <1>4, <1>5, <1>6, <2>1 DEF Types, TypeOK, Entry
<1>8. CacheOK' /\ CaptchaOK'
  BY <1>1 DEF IndInv, ReadInv, CacheOK, CaptchaInv, CaptchaOK, Table
<1>9. FilesOK'
  <2>1. Temps' = {} /\ \A n \in 2..Targets : <<"zip", n>> \notin dir'
    BY <1>1 DEF Temps, Outs
  <2>2. ~running'
    BY <1>1 DEF FilesOK
  <2> QED
    BY <1>1, <1>3, <2>1, <2>2 DEF FilesOK
<1> QED
  BY <1>1, <1>2, <1>7, <1>8, <1>9, Resting

LEMMA StartStep ==
  ASSUME IndInv, Start
  PROVE  IndInv'
<1> DEFINE c == [rows EXCEPT !.jobs.status =
                      IF rows.jobs.status = "processing" THEN "failed" ELSE rows.jobs.status]
<1>1. /\ ~up /\ up' = TRUE /\ rows' = c /\ minted + 2 <= MaxRevisions /\ minted' = minted + 2
      /\ rev' = [t \in Table |-> IF t = "settings" THEN minted + 1 ELSE minted + 2]
      /\ UNCHANGED <<redis, call, seen, lock, folder, dir, zips, running, deleting, backup>>
      /\ Types /\ FilesOK
  BY DEF Start, CacheStart, fileVars, IndInv, FileInv
<1>2. \A r \in Request : call'[r] = Idle /\ seen'[r] = {}
  BY <1>1, Down
<1>3. /\ rows' \in [settings : SettingsRow, jobs : JobRow] /\ rows'.settings = rows.settings
      /\ rows'.jobs.outs = rows.jobs.outs /\ rows'.jobs.status # "processing"
      /\ rows'.jobs.status = "gone" => rows.jobs.status = "gone"
  BY <1>1 DEF Types, JobRow
<1>4. minted \in 2..MaxRevisions /\ MaxRevisions \in Nat /\ minted' \in 2..MaxRevisions
  BY <1>1, RevisionsAssumption DEF Types, TypeOK
<1>5. rev' \in [Table -> 1..MaxRevisions]
      /\ \A t \in Table : rev'[t] \in 1..minted' /\ rev'[t] > minted
  BY <1>1, <1>4
<1>6. Types'
  <2>1. /\ rows'.settings.config \subseteq Fields
        /\ rows'.jobs.status \in {"processing", "completed", "failed", "gone"}
        /\ rows'.jobs.outs \in 0..Targets
    BY <1>3 DEF SettingsRow, JobRow
  <2> QED
    BY <1>1, <1>3, <1>4, <1>5, <2>1 DEF Types, TypeOK
<1>7. CacheOK'
  <2>1. rev'["settings"] # rev'["jobs"]
    BY <1>1, <1>4 DEF Table
  <2>2. \A k \in 1..MaxRevisions : k > minted => redis[k] = Nothing
    BY DEF IndInv, ReadInv, CacheOK
  <2>3. \A k \in 1..MaxRevisions : k > minted' => k > minted
    BY <1>1, <1>4
  <2> QED
    BY <1>1, <1>5, <2>1, <2>2, <2>3 DEF CacheOK
<1>8. CaptchaOK'
  BY <1>1, <1>3 DEF IndInv, CaptchaInv, CaptchaOK
<1>9. FilesOK'
  <2>1. ~running /\ Temps' = Temps
    BY <1>1 DEF FilesOK, Temps
  <2> QED
    BY <1>1, <1>3, <2>1 DEF FilesOK
<1> QED
  BY <1>1, <1>2, <1>6, <1>7, <1>8, <1>9, Resting

LEMMA ArriveStep ==
  ASSUME IndInv, NEW r \in Request, Arrive(r)
  PROVE  IndInv'
<1>1. up /\ UNCHANGED <<backup, up>>
  BY DEF Arrive
<1>2. CASE ReadSettings(r) /\ UNCHANGED fileVars
  BY <1>1, <1>2, BeginAny DEF ReadSettings, Table
<1>3. CASE Verify(r) /\ UNCHANGED fileVars
  BY <1>1, <1>3, BeginAny DEF Verify, Table
<1>4. CASE (\E p \in Payload \cup {Nothing} : Edit(r, p)) /\ UNCHANGED fileVars
  BY <1>1, <1>4, EditStep
<1>5. CASE ReadJob(r) /\ UNCHANGED lock
  BY <1>1, <1>5, BeginAny DEF ReadJob, Table
<1>6. CASE Open(r) /\ UNCHANGED lock
  BY <1>1, <1>6, OpenStep
<1>7. CASE Delete(r) /\ UNCHANGED lock
  BY <1>1, <1>7, DeleteStep
<1> QED
  BY <1>2, <1>3, <1>4, <1>5, <1>6, <1>7 DEF Arrive

LEMMA IndInvInit ==
  ASSUME Init
  PROVE  IndInv
<1>1. PICK c \in InitConfigs :
        rows = [settings |-> [config |-> c], jobs |-> Job("processing", InitOuts)]
  BY DEF Init, CacheInit
<1>2. /\ rev = [t \in Table |-> IF t = "settings" THEN 1 ELSE 2] /\ minted = 2
      /\ redis = [k \in 1..MaxRevisions |-> Nothing]
      /\ call = [r \in Request |-> Idle] /\ seen = [r \in Request |-> {}]
      /\ lock = NoRequest /\ backup = rows /\ up = TRUE
      /\ folder = TRUE /\ dir = Outs(rows.jobs.outs) /\ zips = [n \in 2..Targets |-> {}]
      /\ running = TRUE /\ deleting = FALSE
  BY DEF Init, CacheInit, FilesInit
<1>3. /\ c \subseteq Fields /\ Usable(c) /\ rows.settings.config = c
      /\ rows.jobs = Job("processing", InitOuts)
      /\ rows.jobs.status = "processing" /\ rows.jobs.outs = InitOuts /\ InitOuts \in 0..Targets
  BY <1>1, InitAssumption, BoundsAssumption DEF Job
<1>4. rows \in [settings : SettingsRow, jobs : JobRow]
  BY <1>1, <1>3 DEF SettingsRow, JobRow, Job
<1>5. minted \in 2..MaxRevisions /\ rev \in [Table -> 1..MaxRevisions]
      /\ \A t \in Table : rev[t] \in 1..minted
  BY <1>2, RevisionsAssumption
<1>6. dir \subseteq Entry
  BY <1>2, <1>3, OutsEntries
<1>7. \A r \in Request : call[r] = Idle /\ seen[r] = {} /\ call[r].at = "idle"
  BY <1>2 DEF Idle
<1>8. Types
  BY <1>2, <1>3, <1>4, <1>5, <1>6, IdleCall DEF Types, TypeOK, Entry
<1>9. ReadInv
  <2>1. CacheOK
    BY <1>2, <1>5 DEF CacheOK, Table
  <2>2. ASSUME NEW r \in Request
        PROVE  ReadOK(r) /\ UseOK(r)
    BY <1>2, <1>7 DEF ReadOK, UseOK, Idle, InRead, InCheck
  <2> QED
    BY <2>1, <2>2 DEF ReadInv
<1>10. CaptchaInv
  <2>1. CaptchaOK
    BY <1>2, <1>3 DEF CaptchaOK
  <2>2. ASSUME NEW r \in Request
        PROVE  ChangeOK(r)
    BY <1>7 DEF ChangeOK, InRead, InCheck
  <2> QED
    BY <2>1, <2>2 DEF CaptchaInv
<1>11. FileInv
  <2>1. Temps = {} /\ \A n \in 2..Targets : <<"zip", n>> \notin dir
    BY <1>2 DEF Temps, Outs
  <2>2. FilesOK
    BY <1>2, <1>3, <2>1 DEF FilesOK
  <2>3. ASSUME NEW r \in Request
        PROVE  DownloadOK(r)
    BY <1>7 DEF DownloadOK, Idle, InArchive, InDelete, Packing, InFile
  <2> QED
    BY <2>2, <2>3 DEF FileInv
<1> QED
  BY <1>8, <1>9, <1>10, <1>11 DEF IndInv

LEMMA IndInvNext ==
  ASSUME IndInv, Next
  PROVE  IndInv'
<1>1. ASSUME NEW r \in Request, ReadStep(r) /\ OfLocks /\ UNCHANGED fileVars
      PROVE  IndInv'
  BY <1>1, ReadStepInv DEF OfLocks
<1>2. ASSUME NEW r \in Request, SettingsStep(r) /\ OfFiles
      PROVE  IndInv'
  BY <1>2, SettingsStepInv DEF OfFiles
<1>3. ASSUME NEW r \in Request, DownloadStep(r) /\ OfLocks
      PROVE  IndInv'
  BY <1>3, DownloadStepInv DEF OfLocks
<1>4. CASE Run /\ OfLocks
  BY <1>4, RunStep DEF OfLocks
<1> QED
  BY <1>1, <1>2, <1>3, <1>4, ArriveStep, StopStep, RestoreStep, StartStep DEF Next

LEMMA IndInvStutter ==
  ASSUME IndInv, UNCHANGED vars
  PROVE  IndInv'
<1>1. UNCHANGED <<rows, rev, minted, redis, call, seen, lock, folder,
        dir, zips , running, deleting, backup, up>>
  BY DEF vars, cacheVars, fileVars
<1>2. Types' /\ CacheOK' /\ CaptchaOK' /\ FilesOK'
  BY <1>1
     DEF IndInv, ReadInv, CaptchaInv, FileInv, Types, TypeOK, CacheOK, CaptchaOK, FilesOK, Temps
<1>3. ASSUME NEW r \in Request
      PROVE  ReadOK(r)' /\ UseOK(r)' /\ ChangeOK(r)' /\ DownloadOK(r)'
  <2>1. ReadOK(r)'
    BY <1>1 DEF IndInv, ReadInv, ReadOK, Held
  <2>2. UseOK(r)'
    BY <1>1 DEF IndInv, ReadInv, UseOK
  <2>3. ChangeOK(r)'
    BY <1>1 DEF IndInv, CaptchaInv, ChangeOK
  <2>4. DownloadOK(r)'
    BY <1>1 DEF IndInv, FileInv, DownloadOK
  <2> QED
    BY <2>1, <2>2, <2>3, <2>4
<1> QED
  BY <1>2, <1>3 DEF IndInv, ReadInv, CaptchaInv, FileInv

-----------------------------------------------------------------------------
(* Theorems *)

\* What reads hold, who changes the settings and what lies in the folder, in every
\* reachable state.
THEOREM Invariance == Spec => []IndInv
<1>1. Init => IndInv
  BY IndInvInit
<1>2. IndInv /\ [Next]_vars => IndInv'
  BY IndInvNext, IndInvStutter
<1> QED
  BY <1>1, <1>2, PTL DEF Spec

\* save_settings and delete_key, however they interleave, never store a captcha that
\* is required and cannot be verified.
THEOREM CaptchaStaysUsable == Spec => []CaptchaUsable
<1>1. IndInv => CaptchaUsable
  BY DEF IndInv, CaptchaInv, CaptchaOK, CaptchaUsable
<1> QED
  BY <1>1, Invariance, PTL

\* verify_captcha lets an action through unverified, or fails it for missing keys, only
\* if no captcha was required at some moment of its last read.
THEOREM CaptchaIsEnforced == Spec => []CaptchaEnforced
<1>1. IndInv => CaptchaEnforced
  BY DEF IndInv, CaptchaInv, ChangeOK, CaptchaEnforced
<1> QED
  BY <1>1, Invariance, PTL

\* download_all sends the outputs listed when it was asked for, no more and no fewer;
\* listed outputs are refused, with 404 or 500, only once a delete has begun.
THEOREM ArchivesAreExact == Spec => []ArchiveExact
<1>1. IndInv => ArchiveExact
  BY DEF IndInv, FileInv, FilesOK, DownloadOK, ArchiveExact
<1> QED
  BY <1>1, Invariance, PTL

\* delete_job removes the row only after the folder, whatever downloads were packing.
THEOREM DeletesAreClean == Spec => []NothingLeftBehind
<1>1. IndInv => NothingLeftBehind
  BY DEF IndInv, Types, FileInv, FilesOK, NothingLeftBehind, Packing
<1> QED
  BY <1>1, Invariance, PTL

-----------------------------------------------------------------------------
(* The refinement of ReadContract *)

\* A request whose read and whose answer are as they were.
Unread(q) == Reading(q)' = Reading(q) /\ Answer(q)' = Answer(q)

\* Outside of a read a request keeps its answer or, idle, has none.
LEMMA UnreadMove ==
  ASSUME NEW q, \/ call'[q] = call[q]
                \/ /\ call[q].at \notin InRead /\ call'[q].at \notin InRead
                   /\ call'[q].value = call[q].value
  PROVE  Unread(q)
BY DEF Unread, Reading, Answer

LEMMA MapStutter ==
  ASSUME UNCHANGED <<rows, seen>>, \A q \in Request : Unread(q)
  PROVE  UNCHANGED Contract!vars
BY DEF Contract!vars, Unread

\* A step of a request outside of its reads that neither commits nor forgets.
LEMMA MapMove ==
  ASSUME UNCHANGED <<rows, seen>>, NEW r \in Request, Others(r),
         call[r].at \notin InRead, call'[r].at \notin InRead, call'[r].value = call[r].value
  PROVE  UNCHANGED Contract!vars
<1>1. \A q \in Request : Unread(q)
  BY UnreadMove DEF Others
<1> QED
  BY <1>1, MapStutter

LEMMA MapBegin ==
  ASSUME Types, NEW r \in Request, NEW t \in Table, NEW then \in {"answered", "decide", "ask"},
         BeginRead(r, t, then), call[r].at \notin InRead
  PROVE  Contract!Next
<1>1. /\ Others(r) /\ call'[r].at \in InRead /\ call'[r].table = t
  BY BeginFacts DEF InRead
<1>2. seen' = [seen EXCEPT ![r] = {rows[t]}] /\ rows' = rows
  BY DEF BeginRead
<1>3. Reading(r) = Nothing /\ Reading(r)' = t /\ Answer(r)' = Nothing
  BY <1>1 DEF Reading, Answer
<1>4. \A q \in Request \ {r} : Unread(q)
  BY <1>1, UnreadMove DEF Others
<1>5. /\ [q \in Request |-> Reading(q)]' = [[q \in Request |-> Reading(q)] EXCEPT ![r] = t]
      /\ [q \in Request |-> Answer(q)]' = [[q \in Request |-> Answer(q)] EXCEPT ![r] = Nothing]
  BY <1>3, <1>4 DEF Unread
<1>6. Contract!Begin(r, t)
  BY <1>2, <1>3, <1>5 DEF Contract!Begin
<1> QED
  BY <1>6 DEF Contract!Next

\* A read returns contents that were seen.
LEMMA MapReturn ==
  ASSUME IndInv, NEW r \in Request, call[r].at \in InRead, NEW v \in seen[r], Deliver(r, v),
         UNCHANGED <<rows, seen>>
  PROVE  Contract!Next
<1>1. Types /\ ReadOK(r) /\ v \in Contents
  BY Fielded DEF IndInv, ReadInv
<1>2. /\ call[r].then # "idle" /\ call[r].then \in {"idle", "answered", "decide", "ask"}
      /\ call[r].table \in Table
  BY <1>1, Fielded DEF ReadOK
<1>3. Others(r) /\ call'[r].at = call[r].then /\ call'[r].value = v
  BY <1>1, <1>2, DeliverFacts
<1>4. Reading(r) # Nothing /\ Reading(r)' = Nothing /\ Answer(r)' = v
  <2>1. call'[r].at \notin InRead
    BY <1>2, <1>3 DEF InRead
  <2> QED
    BY <1>2, <1>3, <2>1, NothingAssumption DEF Reading, Answer
<1>5. \A q \in Request \ {r} : Unread(q)
  BY <1>3, UnreadMove DEF Others
<1>6. /\ [q \in Request |-> Reading(q)]' = [[q \in Request |-> Reading(q)] EXCEPT ![r] = Nothing]
      /\ [q \in Request |-> Answer(q)]' = [[q \in Request |-> Answer(q)] EXCEPT ![r] = v]
  BY <1>4, <1>5 DEF Unread
<1>7. Contract!Return(r)
  BY <1>4, <1>6 DEF Contract!Return
<1> QED
  BY <1>7 DEF Contract!Next

LEMMA MapEnd ==
  ASSUME Types, NEW r \in Request, End(r), call[r].at \notin InRead, UNCHANGED rows
  PROVE  Contract!Next
<1>1. Others(r) /\ call'[r].at = "idle" /\ call'[r].value = Nothing
  BY EndFacts
<1>2. seen' = [seen EXCEPT ![r] = {}]
  BY DEF End
<1>3. Reading(r) = Nothing /\ Reading(r)' = Nothing /\ Answer(r)' = Nothing
  BY <1>1 DEF Reading, Answer, InRead
<1>4. \A q \in Request \ {r} : Unread(q)
  BY <1>1, UnreadMove DEF Others
<1>5. /\ [q \in Request |-> Reading(q)]' = [q \in Request |-> Reading(q)]
      /\ [q \in Request |-> Answer(q)]' = [[q \in Request |-> Answer(q)] EXCEPT ![r] = Nothing]
  BY <1>3, <1>4 DEF Unread
<1>6. Contract!Forget(r)
  BY <1>2, <1>3, <1>5 DEF Contract!Forget
<1> QED
  BY <1>6 DEF Contract!Next

\* A commit is a write that every reader of the table sees.
LEMMA MapCommit ==
  ASSUME Types, NEW t \in Table, NEW c, Commit(t, c), \A q \in Request : Unread(q)
  PROVE  Contract!Next
<1>1. /\ rows' = [rows EXCEPT ![t] = c]
      /\ seen' = [r \in Request |-> IF Reading(r) = t THEN seen[r] \cup {c} ELSE seen[r]]
  BY DEF Commit
<1>2. rows'[t] = c /\ \A u \in Table \ {t} : rows'[u] = rows[u]
  BY <1>1 DEF Types, Table
<1>3. seen' = [r \in Request |-> IF [q \in Request |-> Reading(q)][r] = t
                                    THEN seen[r] \cup {rows'[t]} ELSE seen[r]]
  BY <1>1, <1>2
<1>4. Contract!Write(t)
  BY <1>2, <1>3 DEF Contract!Write, Unread
<1> QED
  BY <1>4 DEF Contract!Next

\* Between two lives of the server nobody reads and nobody has an answer.
LEMMA MapRestart ==
  ASSUME \A r \in Request : call'[r] = Idle, seen' = [r \in Request |-> {}]
  PROVE  Contract!Next
<1>1. \A r \in Request : Reading(r)' = Nothing /\ Answer(r)' = Nothing
  BY DEF Reading, Answer, Idle, InRead
<1>2. Contract!Restart
  BY <1>1 DEF Contract!Restart
<1> QED
  BY <1>2 DEF Contract!Next

LEMMA ReadStepMaps ==
  ASSUME IndInv, NEW r \in Request, ReadStep(r)
  PROVE  Contract!Next \/ UNCHANGED Contract!vars
<1>1. Types /\ ReadOK(r)
  BY DEF IndInv, ReadInv
<1>2. CASE GetHit(r)
  <2>1. call[r].at \in InRead /\ redis[call[r].key] # Nothing /\ Deliver(r, redis[call[r].key])
        /\ UNCHANGED <<rows, seen>>
    BY <1>2 DEF GetHit, InRead
  <2>2. redis[call[r].key] \in seen[r]
    BY <1>1, <2>1 DEF ReadOK
  <2> QED
    BY <2>1, <2>2, MapReturn
<1>3. CASE GetMiss(r) \/ Load(r)
  <2>1. call[r].at \in InRead /\ UNCHANGED <<rows, seen>>
    BY <1>3 DEF GetMiss, Load, InRead
  <2>2. Others(r) /\ call'[r].at \in InRead /\ call'[r].table = call[r].table
    <3>1. CASE GetMiss(r)
      BY <1>1, <3>1, MoveFacts DEF GetMiss, Places, InRead
    <3>2. CASE Load(r)
      <4>1. PICK v \in {call[r].snap, rows[call[r].table]} : Loaded(r, v)
        BY <3>2 DEF Load, Loaded
      <4>2. v \in Contents \cup {Nothing}
        BY <1>1, <2>1, <4>1, Fielded DEF ReadOK
      <4> QED
        BY <1>1, <4>1, <4>2, LoadFacts DEF InRead
    <3> QED
      BY <1>3, <3>1, <3>2
  <2>3. \A q \in Request \ {r} : Unread(q)
    BY <2>2, UnreadMove DEF Others
  <2>4. Unread(r)
    BY <2>1, <2>2 DEF Unread, Reading, Answer
  <2> QED
    BY <2>1, <2>3, <2>4, MapStutter
<1>4. CASE Store(r)
  <2>1. call[r].at \in InRead /\ Held(r) = call[r].value /\ Deliver(r, call[r].value)
        /\ UNCHANGED <<rows, seen>>
    BY <1>4 DEF Store, InRead, Held
  <2>2. Held(r) \in seen[r]
    BY <1>1, <2>1 DEF ReadOK
  <2> QED
    BY <2>1, <2>2, MapReturn
<1> QED
  BY <1>2, <1>3, <1>4 DEF ReadStep

\* A place to move to, and the move, outside of reads.
LEMMA MapPlace ==
  ASSUME Types, NEW r \in Request, NEW x \in Places \ InRead, call[r].at \notin InRead,
         call' = [call EXCEPT ![r].at = x], UNCHANGED <<rows, seen>>
  PROVE  UNCHANGED Contract!vars
<1>1. Others(r) /\ call'[r].at = x /\ call'[r].value = call[r].value
  BY MoveFacts
<1> QED
  BY <1>1, MapMove

LEMMA SettingsStepMaps ==
  ASSUME IndInv, NEW r \in Request, SettingsStep(r)
  PROVE  Contract!Next \/ UNCHANGED Contract!vars
<1>1. Types
  BY DEF IndInv
<1>2. CASE LockSettings(r)
  BY <1>1, <1>2, MapPlace DEF LockSettings, Places, InEdit, InRead
<1>3. CASE CheckSettings(r)
  <2>1. /\ call[r].at \notin InRead /\ UNCHANGED rows
        /\ End(r) \/ (call' = [call EXCEPT ![r].at = "write"] /\ UNCHANGED seen)
    BY <1>3 DEF CheckSettings, InRead
  <2>2. "write" \in Places \ InRead
    BY DEF Places, InEdit, InRead
  <2> QED
    BY <1>1, <2>1, <2>2, MapEnd, MapPlace
<1>4. CASE WriteSettings(r)
  <2> DEFINE old == rows.settings.config
             c   == [config |-> IF call[r].arg = Nothing THEN old \ {"secret"}
                                                     ELSE Merged(old, call[r].arg)]
  <2>1. call[r].at = "write" /\ Commit("settings", c) /\ ArgSet(r, "reread", Nothing)
    BY <1>4 DEF WriteSettings, ArgSet
  <2>2. Others(r) /\ call'[r].at = "reread" /\ call'[r].value = call[r].value
    BY <1>1, <2>1, ArgFacts DEF Places, InEdit
  <2>3. \A q \in Request : Unread(q)
    BY <2>1, <2>2, UnreadMove DEF Others, InRead
  <2> QED
    BY <1>1, <2>1, <2>3, MapCommit DEF Table
<1>5. CASE Reread(r)
  BY <1>1, <1>5, MapBegin DEF Reread, Table, InRead
<1>6. CASE Decide(r)
  <2>1. call[r].at \notin InRead
    BY <1>6 DEF Decide, InRead
  <2>2. \/ BeginRead(r, "settings", "ask")
        \/ call' = [call EXCEPT ![r].at = "admitted"] /\ UNCHANGED <<rows, seen>>
    BY <1>6 DEF Decide
  <2>3. "admitted" \in Places \ InRead
    BY DEF Places, Answered, InRead
  <2> QED
    BY <1>1, <2>1, <2>2, <2>3, MapBegin, MapPlace DEF Table
<1>7. CASE Ask(r)
  <2>1. /\ call[r].at \notin InRead /\ UNCHANGED rows
        /\ End(r) \/ (call' = [call EXCEPT ![r].at = "unavailable"] /\ UNCHANGED seen)
    BY <1>7 DEF Ask, InRead
  <2>2. "unavailable" \in Places \ InRead
    BY DEF Places, Answered, InRead
  <2> QED
    BY <1>1, <2>1, <2>2, MapEnd, MapPlace
<1>8. CASE Finish(r)
  BY <1>1, <1>8, MapEnd DEF Finish, Answering, InRead
<1> QED
  BY <1>2, <1>3, <1>4, <1>5, <1>6, <1>7, <1>8 DEF SettingsStep

LEMMA DownloadStepMaps ==
  ASSUME IndInv, NEW r \in Request, DownloadStep(r)
  PROVE  Contract!Next \/ UNCHANGED Contract!vars
<1>1. Types
  BY DEF IndInv
<1>2. CASE \/ CheckFile(r) \/ SendFile(r) \/ Find(r) \/ Make(r) \/ Drop(r) \/ Publish(r)
           \/ FolderExists(r)
  <2>1. PICK x \in AtFiles :
          call[r].at \notin InRead /\ call' = [call EXCEPT ![r].at = x] /\ UNCHANGED <<rows, seen>>
    BY <1>2 DEF CheckFile, SendFile, Find, Make, Drop, Publish, FolderExists, Move, Stay, InRead,
                AtFiles, InFile, Over, InArchive, InDelete, Packing
  <2>2. x \in Places \ InRead
    BY DEF AtFiles, Places, InFile, Over, InArchive, InDelete, Packing, InRead
  <2> QED
    BY <1>1, <2>1, <2>2, MapPlace
<1>3. CASE SendArchive(r)
  <2>1. call[r].at = "send" /\ UNCHANGED <<rows, seen>> /\ call[r].outs \in 2..Targets
    BY <1>3 DEF SendArchive, Stay, IndInv, FileInv, DownloadOK, InArchive
  <2>2. CASE DoneSet(r, "sent", zips[call[r].outs])
    <3>1. zips[call[r].outs] \in SUBSET Entry
      BY <1>1, <2>1 DEF Types
    <3>2. Others(r) /\ call'[r].at = "sent" /\ call'[r].value = call[r].value
      BY <1>1, <2>2, <3>1, DoneFacts DEF Places, Over
    <3> QED
      BY <2>1, <3>2, MapMove DEF InRead
  <2>3. CASE call' = [call EXCEPT ![r].at = "failed"]
    BY <1>1, <2>1, <2>3, MapPlace DEF Places, Over, InRead
  <2> QED
    BY <1>3, <2>2, <2>3 DEF SendArchive, Move, DoneSet
<1>4. CASE Pack(r)
  <2>1. call[r].at = "pack" /\ UNCHANGED <<rows, seen>> /\ call[r].outs \in 2..Targets
    BY <1>4 DEF Pack, Stay, IndInv, FileInv, DownloadOK, InArchive, Packing
  <2>2. \/ \E x \in {"publish", "drop"} : call' = [call EXCEPT ![r].at = x]
        \/ DoneSet(r, "pack", call[r].done \cup {<<"out", Cardinality(call[r].done) + 1>>})
           /\ <<"out", Cardinality(call[r].done) + 1>> \in dir
    BY <1>4, <2>1 DEF Pack, Move, DoneSet
  <2>3. CASE \E x \in {"publish", "drop"} : call' = [call EXCEPT ![r].at = x]
    BY <1>1, <2>1, <2>3, MapPlace DEF Places, InArchive, InRead, Packing
  <2>4. CASE /\ DoneSet(r, "pack", call[r].done \cup {<<"out", Cardinality(call[r].done) + 1>>})
             /\ <<"out", Cardinality(call[r].done) + 1>> \in dir
    <3>1. call[r].done \cup {<<"out", Cardinality(call[r].done) + 1>>} \in SUBSET Entry
      BY <1>1, <2>4, Fielded DEF Types, TypeOK, Entry
    <3>2. Others(r) /\ call'[r].at = "pack" /\ call'[r].value = call[r].value
      BY <1>1, <2>4, <3>1, DoneFacts DEF Places, InArchive, Packing
    <3> QED
      BY <2>1, <3>2, MapMove DEF InRead
  <2> QED
    BY <2>2, <2>3, <2>4
<1>5. CASE Sent(r) \/ UnlinkError(r)
  BY <1>1, <1>5, MapEnd DEF Sent, UnlinkError, Stay, InRead
<1>6. CASE Unlink(r)
  <2>1. call[r].at = "unlink" /\ UNCHANGED <<rows, seen>>
    BY <1>6 DEF Unlink, Stay
  <2>2. PICK e \in call[r].done : DoneSet(r, "unlink", call[r].done \ {e})
    BY <1>6, <2>1 DEF Unlink, DoneSet
  <2>3. call[r].done \ {e} \in SUBSET Entry
    BY <1>1, Fielded
  <2>4. Others(r) /\ call'[r].at = "unlink" /\ call'[r].value = call[r].value
    BY <1>1, <2>2, <2>3, DoneFacts DEF Places, InDelete
  <2> QED
    BY <2>1, <2>4, MapMove DEF InRead
<1>7. CASE List(r) \/ Rmdir(r)
  <2>1. call[r].at \in {"list", "unlink"} /\ UNCHANGED <<rows, seen>> /\ call[r].value = Nothing
    BY <1>7 DEF List, Rmdir, Stay, IndInv, ReadInv, UseOK, InRead, InCheck, Answered
  <2>2. CASE call' = [call EXCEPT ![r].at = "deleteRow"]
    BY <1>1, <2>1, <2>2, MapPlace DEF Places, InDelete, InRead
  <2>3. CASE call' = [call EXCEPT ![r] = Idle]
    <3>1. Others(r) /\ call'[r].at = "idle" /\ call'[r].value = Nothing
      BY <1>1, <2>3, IdleFacts
    <3> QED
      BY <2>1, <3>1, MapMove DEF InRead
  <2>4. CASE call' = [call EXCEPT ![r] = [call[r] EXCEPT !.at = "unlink", !.done = dir]]
    <3>1. Others(r) /\ call'[r].at = "unlink" /\ call'[r].value = call[r].value
      BY <1>1, <2>4 DEF Types, Calls, Others
    <3> QED
      BY <2>1, <3>1, MapMove DEF InRead
  <2> QED
    BY <1>7, <2>2, <2>3, <2>4 DEF List, Rmdir, Move
<1>8. CASE DeleteRow(r)
  <2>1. call[r].at = "deleteRow" /\ call[r].value = Nothing
    BY <1>8 DEF DeleteRow, IndInv, ReadInv, UseOK, InRead, InCheck, Answered
  <2>2. Commit("jobs", [status |-> "gone", outs |-> 0]) /\ call' = [call EXCEPT ![r] = Idle]
    BY <1>8 DEF DeleteRow
  <2>3. Others(r) /\ call'[r].at = "idle" /\ call'[r].value = Nothing
    BY <1>1, <2>2, IdleFacts
  <2>4. \A q \in Request : Unread(q)
    BY <2>1, <2>3, UnreadMove DEF Others, InRead
  <2> QED
    BY <1>1, <2>2, <2>4, MapCommit DEF Table
<1> QED
  BY <1>2, <1>3, <1>4, <1>5, <1>6, <1>7, <1>8 DEF DownloadStep

LEMMA ArriveMaps ==
  ASSUME IndInv, NEW r \in Request, Arrive(r)
  PROVE  Contract!Next \/ UNCHANGED Contract!vars
<1>1. Types
  BY DEF IndInv
<1>2. CASE ReadSettings(r)
  BY <1>1, <1>2, MapBegin DEF ReadSettings, Table, InRead
<1>3. CASE Verify(r)
  BY <1>1, <1>3, MapBegin DEF Verify, Table, InRead
<1>4. CASE ReadJob(r)
  BY <1>1, <1>4, MapBegin DEF ReadJob, Table, InRead
<1>5. ASSUME NEW p \in Payload \cup {Nothing}, Edit(r, p)
      PROVE  UNCHANGED Contract!vars
  <2>1. call[r].at = "idle" /\ ArgSet(r, "lock", p) /\ UNCHANGED <<rows, seen>>
    BY <1>5 DEF Edit, ArgSet
  <2>2. Others(r) /\ call'[r].at = "lock" /\ call'[r].value = call[r].value
    BY <1>1, <2>1, ArgFacts DEF Places, InEdit
  <2> QED
    BY <2>1, <2>2, MapMove DEF InRead
<1>6. CASE Open(r)
  <2>1. call[r].at = "idle" /\ UNCHANGED <<rows, seen>> /\ rows.jobs.outs \in 0..Targets
    BY <1>1, <1>6 DEF Open, Stay, Types, TypeOK
  <2>2. \/ OutsSet(r, "find", rows.jobs.outs)
        \/ \E k \in 1..rows.jobs.outs : OutsSet(r, "file", k)
    BY <1>6 DEF Open, OutsSet
  <2>3. \A k \in 1..rows.jobs.outs : k \in 0..Targets
    BY <2>1, TargetsAssumption
  <2>4. PICK x \in {"find", "file"}, n \in 0..Targets : OutsSet(r, x, n)
    BY <2>1, <2>2, <2>3
  <2>5. Others(r) /\ call'[r].at = x /\ call'[r].value = call[r].value
    BY <1>1, <2>4, OutsFacts DEF Places, InArchive, InFile
  <2> QED
    BY <2>1, <2>5, MapMove DEF InRead
<1>7. CASE Delete(r)
  <2>1. call[r].at = "idle" /\ UNCHANGED <<rows, seen>>
    BY <1>7 DEF Delete, Stay
  <2>2. call' = [call EXCEPT ![r].at = "exists"]
    BY <1>7 DEF Delete, Move
  <2> QED
    BY <1>1, <2>1, <2>2, MapPlace DEF Places, InDelete, InRead
<1> QED
  BY <1>2, <1>3, <1>4, <1>5, <1>6, <1>7 DEF Arrive

LEMMA RunMaps ==
  ASSUME IndInv, Run
  PROVE  Contract!Next \/ UNCHANGED Contract!vars
<1>1. Types /\ UNCHANGED call
  BY DEF IndInv, Run, RunWrite, RunList, RunComplete, cacheVars
<1>2. \A q \in Request : Unread(q)
  BY <1>1, UnreadMove
<1>3. CASE RunWrite
  BY <1>2, <1>3, MapStutter DEF RunWrite, cacheVars
<1>4. ASSUME NEW c, Commit("jobs", c)
      PROVE  Contract!Next
  BY <1>1, <1>2, <1>4, MapCommit DEF Table
<1> QED
  BY <1>3, <1>4 DEF Run, RunList, RunComplete

LEMMA ServerMaps ==
  ASSUME IndInv, Stop \/ Restore \/ Start
  PROVE  Contract!Next
<1>1. seen \in [Request -> SUBSET Contents]
  BY DEF IndInv, Types
<1>2. CASE Stop
  BY <1>2, MapRestart DEF Stop, CacheStop
<1>3. CASE Restore \/ Start
  <2>1. ~up /\ UNCHANGED <<call, seen>>
    BY <1>3 DEF Restore, Start, CacheStart
  <2>2. \A r \in Request : call'[r] = Idle /\ seen'[r] = {}
    BY <2>1, Down
  <2>3. seen' = [r \in Request |-> {}]
    BY <1>1, <2>1, <2>2
  <2> QED
    BY <2>2, <2>3, MapRestart
<1> QED
  BY <1>2, <1>3

\* cached_rows implements reads of the database: every answer was in it while the read
\* was going on.
THEOREM ReadsImplementContract == Spec => ImplementsReads
<1>1. Init => Contract!Init
  <2>1. ASSUME Init
        PROVE  Contract!Init
    <3>1. call = [r \in Request |-> Idle] /\ seen = [r \in Request |-> {}]
      BY <2>1 DEF Init, CacheInit
    <3>2. \A r \in Request : Reading(r) = Nothing /\ Answer(r) = Nothing
      BY <3>1 DEF Reading, Answer, Idle, InRead
    <3> QED
      BY <3>1, <3>2 DEF Contract!Init
  <2> QED
    BY <2>1
<1>2. ASSUME IndInv, Next
      PROVE  Contract!Next \/ UNCHANGED Contract!vars
  BY <1>2, ArriveMaps, ReadStepMaps, SettingsStepMaps, DownloadStepMaps, RunMaps, ServerMaps
     DEF Next
<1>3. ASSUME UNCHANGED vars
      PROVE  UNCHANGED Contract!vars
  <2>1. UNCHANGED <<rows, seen, call>>
    BY <1>3 DEF vars, cacheVars
  <2> QED
    BY <2>1, UnreadMove, MapStutter
<1>4. IndInv /\ [Next]_vars => [Contract!Next]_(Contract!vars)
  BY <1>2, <1>3
<1> QED
  BY <1>1, <1>4, Invariance, PTL DEF Spec, ImplementsReads, Contract!Spec
=============================================================================
