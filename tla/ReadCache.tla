----------------------------- MODULE ReadCache -----------------------------
(***************************************************************************)
(* cached_rows: reads of settings and jobs through Redis.  Every write     *)
(* gives its table a new revision in the same transaction; a read takes    *)
(* the revision first and looks for the rows under it.  Redis may be away, *)
(* lose an entry or miss a write at any time.                              *)
(*                                                                         *)
(* Granularity: a step is one statement of a read, one call of Redis, or   *)
(* one committed transaction of a writer.                                  *)
(***************************************************************************)
EXTENDS Integers, FiniteSets

CONSTANTS Request,        \* request threads of all worker processes
          MaxRevisions,   \* bound: revisions given out
          Nothing         \* no value

Table == {"settings", "jobs"}

ASSUME RevisionsAssumption == MaxRevisions \in Nat \ {0, 1}
ASSUME NothingAssumption   == Nothing \notin Table

VARIABLES rows,     \* committed contents of each table
          rev,      \* committed revision of each table (cache_revisions)
          minted,   \* revisions given out so far; none is given out twice
          redis,    \* the entry under each revision, or Nothing
          call,     \* what each request thread is doing
          seen      \* history: contents of its table since its read began

cacheVars == <<rows, rev, minted, redis, call, seen>>

\* A thread between requests.  `then' is where a handler goes on after a read,
\* `done' what a handler with several steps has behind it; the rest is what a
\* handler remembers.
Idle == [at |-> "idle", then |-> "idle", table |-> Nothing, key |-> 0, snap |-> Nothing,
         value |-> Nothing, arg |-> Nothing, outs |-> 0, done |-> {}]

InRead     == {"get", "load", "store"}
Reading(r) == IF call[r].at \in InRead THEN call[r].table ELSE Nothing
Answer(r)  == IF call[r].at \in InRead THEN Nothing ELSE call[r].value

\* Revisions are unique, so the first life of the database and a restored one
\* differ only in what is put under the revisions of the backup.
CacheInit(contents) ==
  /\ rows = contents
  /\ rev = [t \in Table |-> IF t = "settings" THEN 1 ELSE 2]
  /\ minted = 2
  /\ redis = [k \in 1..MaxRevisions |-> Nothing]
  /\ call = [r \in Request |-> Idle]
  /\ seen = [r \in Request |-> {}]

\* Mutant of Commit: the revision is left as it is.
CommitUnmarked(t, contents) ==
  /\ minted < MaxRevisions
  /\ rows' = [rows EXCEPT ![t] = contents]
  /\ seen' = [r \in Request |-> IF Reading(r) = t THEN seen[r] \cup {contents} ELSE seen[r]]
  /\ minted' = minted + 1
  /\ UNCHANGED <<rev, redis>>

\* A transaction that writes a table and bumps its revision.
Commit(t, contents) ==
  /\ minted < MaxRevisions
  /\ minted' = minted + 1
  /\ rows' = [rows EXCEPT ![t] = contents]
  /\ rev' = [rev EXCEPT ![t] = minted + 1]
  /\ seen' = [r \in Request |-> IF Reading(r) = t THEN seen[r] \cup {contents} ELSE seen[r]]
  /\ UNCHANGED redis

\* cached_rows begins: its connection reads the revision, and in a database with
\* snapshots the rows it will see from now on.  While Redis is thought to be away
\* the rows are loaded at once.
BeginRead(r, t, then) ==
  /\ \E at \in {"get", "load"} :
       call' = [call EXCEPT ![r].at = at, ![r].then = then, ![r].table = t,
                            ![r].key = rev[t], ![r].snap = rows[t], ![r].value = Nothing]
  /\ seen' = [seen EXCEPT ![r] = {rows[t]}]
  /\ UNCHANGED <<rows, rev, minted, redis>>

Deliver(r, v) ==
  call' = [call EXCEPT ![r].at = call[r].then, ![r].value = v, ![r].key = 0, ![r].snap = Nothing]

\* client.get: a hit, a miss (no entry, or it expired), or Redis fails.
GetHit(r) == /\ call[r].at = "get"
             /\ redis[call[r].key] # Nothing
             /\ Deliver(r, redis[call[r].key])
             /\ UNCHANGED <<rows, rev, minted, redis, seen>>

GetMiss(r) == /\ call[r].at = "get"
              /\ call' = [call EXCEPT ![r].at = "load"]
              /\ UNCHANGED <<rows, rev, minted, redis, seen>>

\* loader(): the rows of the snapshot, or (READ COMMITTED) of this moment.
Load(r) == /\ call[r].at = "load"
           /\ \E v \in {call[r].snap, rows[call[r].table]} :
                call' = [call EXCEPT ![r].at = "store", ![r].value = v, ![r].snap = Nothing]
           /\ UNCHANGED <<rows, rev, minted, redis, seen>>

\* client.set, which may fail and is left out while Redis is thought to be away; the
\* rows are returned either way.
Store(r) == /\ call[r].at = "store"
            /\ \/ redis' = [redis EXCEPT ![call[r].key] = call[r].value]
               \/ UNCHANGED redis
            /\ Deliver(r, call[r].value)
            /\ UNCHANGED <<rows, rev, minted, seen>>

ReadStep(r) == GetHit(r) \/ GetMiss(r) \/ Load(r) \/ Store(r)

\* The handler is done.
End(r) == /\ call' = [call EXCEPT ![r] = Idle]
          /\ seen' = [seen EXCEPT ![r] = {}]

\* The server stops: its requests are gone, Redis keeps what it has.
CacheStop == /\ call' = [r \in Request |-> Idle]
             /\ seen' = [r \in Request |-> {}]
             /\ UNCHANGED <<rows, rev, minted, redis>>

\* Mutant of CacheStart: revisions are bumped only with a write.
CacheStartUnmarked(contents) ==
  /\ minted + 2 <= MaxRevisions
  /\ minted' = minted + 2
  /\ rows' = contents
  /\ UNCHANGED <<rev, redis, call, seen>>

\* _seed_and_recover and encrypt_existing_api_keys at start-up: rows are repaired
\* and every revision is bumped, whether or not anything was written.
CacheStart(contents) ==
  /\ minted + 2 <= MaxRevisions
  /\ minted' = minted + 2
  /\ rev' = [t \in Table |-> IF t = "settings" THEN minted + 1 ELSE minted + 2]
  /\ rows' = contents
  /\ UNCHANGED <<redis, call, seen>>

=============================================================================
