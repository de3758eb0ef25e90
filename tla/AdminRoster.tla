----------------------------- MODULE AdminRoster -----------------------------
(***************************************************************************)
(* The users table as the setup form, self-registration and the            *)
(* administrators of several web workers change it.  Who may act is read   *)
(* when a request arrives, the change is written several statements later, *)
(* and only changes of existing accounts hold the roster lock in between.  *)
(*                                                                         *)
(* One action is one SQL statement, or a transaction whose statements      *)
(* nobody can come between.  A transaction's writes show at its commit.    *)
(*                                                                         *)
(* The jobs table is here as far as delete_user reads it.                  *)
(***************************************************************************)
EXTENDS Integers, FiniteSets

CONSTANTS User,       \* account ids; uuid4 never gives one twice
          Request,    \* requests that may be in progress at a time
          Job,        \* ids of jobs
          Body,       \* bodies of PATCH requests
          Nobody,     \* no account, or no request
          MaxVersion  \* bound on token_version

\* "keep" is a field the body leaves out.  A body that keeps everything stands
\* for one that only unlocks.
Role   == {"user", "admin"}
Change == [role : Role \cup {"keep"}, active : {"on", "off", "keep"}, password : BOOLEAN]

ASSUME BodyAssumption    == Body \subseteq Change
ASSUME UserAssumption    == IsFiniteSet(User) /\ Nobody \notin User
ASSUME RequestAssumption == Nobody \notin Request
ASSUME VersionAssumption == MaxVersion \in Nat

VARIABLES
  account,  \* users: id |-> the row
  setupKey, \* settings: the _auth_setup_complete row exists
  roster,   \* the request whose transaction holds the roster row
  pc,       \* where a request is
  actor,    \* the account its token names
  version,  \* the actor's token_version when the handler read it
  task,     \* what it was asked to do
  revoked,  \* history: a roster change hit the actor after it was read
  job,      \* jobs: none, active or ended
  owner     \* jobs.user_id

requests == <<pc, actor, version, task, revoked>>
jobs     == <<job, owner>>
vars     == <<account, setupKey, roster, requests, jobs>>

Account == [state : {"unused", "present", "deleted"}, role : Role, active : BOOLEAN, ver : Nat]
Blank   == [state |-> "unused", role |-> "user", active |-> FALSE, ver |-> 0]

NoTask == [kind |-> "none"]
Task   == {NoTask} \cup [kind : {"delete"}, target : User]
          \cup [kind : {"update"}, target : User, change : Body]

Present      == {u \in User : account[u].state = "present"}
ActiveAdmins == {u \in Present : account[u].role = "admin" /\ account[u].active}

\* Where a request has read its actor, and where it holds the roster row.
WithTask == {"ready", "locked", "rechecked", "decided"}
Locking  == WithTask \ {"ready"}

TypeOK ==
  /\ account \in [User -> Account]
  /\ setupKey \in BOOLEAN
  /\ roster \in Request \cup {Nobody}
  /\ pc \in [Request -> {"idle", "counted", "open", "arrived", "admin", "uploading",
                         "ready", "locked", "rechecked", "decided"}]
  /\ actor \in [Request -> User \cup {Nobody}]
  /\ version \in [Request -> Nat]
  /\ task \in [Request -> Task]
  /\ revoked \in [Request -> BOOLEAN]
  /\ job \in [Job -> {"none", "active", "ended"}]
  /\ owner \in [Job -> User \cup {Nobody}]

Init ==
  /\ account = [u \in User |-> Blank]
  /\ setupKey = FALSE
  /\ roster = Nobody
  /\ pc = [r \in Request |-> "idle"]
  /\ actor = [r \in Request |-> Nobody]
  /\ version = [r \in Request |-> 0]
  /\ task = [r \in Request |-> NoTask]
  /\ revoked = [r \in Request |-> FALSE]
  /\ job = [j \in Job |-> "none"]
  /\ owner = [j \in Job |-> Nobody]

-----------------------------------------------------------------------------
(* Steps every handler shares. *)

Goto(r, label) ==
  /\ pc' = [pc EXCEPT ![r] = label]
  /\ UNCHANGED <<actor, version, task, revoked>>

Done(r) ==
  /\ pc' = [pc EXCEPT ![r] = "idle"]
  /\ actor' = [actor EXCEPT ![r] = Nobody]
  /\ version' = [version EXCEPT ![r] = 0]
  /\ task' = [task EXCEPT ![r] = NoTask]
  /\ revoked' = [revoked EXCEPT ![r] = FALSE]

Release(r) == roster' = IF roster = r THEN Nobody ELSE roster

\* insert_user
Inserted(u, role) ==
  /\ account[u].state = "unused"
  /\ account' = [account EXCEPT ![u] = [state |-> "present", role |-> role,
                                        active |-> TRUE, ver |-> 0]]

\* A worker dies, the database fails, an INSERT collides on the username, or
\* the body is refused: the transaction rolls back.
Fail(r) ==
  /\ pc[r] # "idle"
  /\ Done(r)
  /\ Release(r)
  /\ UNCHANGED <<account, setupKey, jobs>>

-----------------------------------------------------------------------------
(* The first administrator: the setup form, and bootstrap_admin in every *)
(* worker that starts with ADMIN_PASSWORD.                               *)

SetupCount(r) ==
  /\ pc[r] = "idle"
  /\ Present = {}
  /\ Goto(r, "counted")
  /\ UNCHANGED <<account, setupKey, roster, jobs>>

\* Mutant: the setup does not insert the key row.
SetupKeyUnused == TRUE

\* The key row makes the second of two concurrent setups collide.
SetupKeyFree == ~setupKey

SetupCommit(r) ==
  /\ pc[r] = "counted"
  /\ Done(r)
  /\ \/ /\ SetupKeyFree
        /\ setupKey' = TRUE
        /\ \E u \in User :
             /\ Inserted(u, "admin")
             /\ owner' = [j \in Job |-> IF job[j] # "none" /\ owner[j] = Nobody
                                          THEN u ELSE owner[j]]
     \/ /\ ~SetupKeyFree
        /\ UNCHANGED <<account, setupKey, owner>>
  /\ UNCHANGED <<roster, job>>

-----------------------------------------------------------------------------
(* Self-registration. *)

RegisterCheck(r) ==
  /\ pc[r] = "idle"
  /\ Present # {}
  /\ Goto(r, "open")
  /\ UNCHANGED <<account, setupKey, roster, jobs>>

RegisterCommit(r) ==
  /\ pc[r] = "open"
  /\ \E u \in User : Inserted(u, "user")
  /\ Done(r)
  /\ UNCHANGED <<setupKey, roster, jobs>>

-----------------------------------------------------------------------------
(* A request with a token: the token is current, then the handler reads on. *)

Arrive(r, u) ==
  /\ pc[r] = "idle"
  /\ u \in Present /\ account[u].active
  /\ pc' = [pc EXCEPT ![r] = "arrived"]
  /\ actor' = [actor EXCEPT ![r] = u]
  /\ UNCHANGED <<account, setupKey, roster, version, task, revoked, jobs>>

AdminRequired(r) ==
  /\ pc[r] = "arrived"
  /\ IF actor[r] \in Present /\ account[actor[r]].role = "admin"
       THEN Goto(r, "admin") ELSE Done(r)
  /\ UNCHANGED <<account, setupKey, roster, jobs>>

\* create_user takes no lock and does not look at the actor again.
CreateUser(r) ==
  /\ pc[r] = "admin"
  /\ \E u \in User, role \in Role : Inserted(u, role)
  /\ Done(r)
  /\ UNCHANGED <<setupKey, roster, jobs>>

OwnAccountKept(a, t) ==
  \/ t.target # a
  \/ t.kind = "update" /\ t.change.active # "off" /\ t.change.role # "user"

\* The actor is read again, the body validated, one's own removal refused.
ReadActor(r, t) ==
  /\ pc[r] = "admin"
  /\ IF actor[r] \in Present /\ OwnAccountKept(actor[r], t)
       THEN /\ pc' = [pc EXCEPT ![r] = "ready"]
            /\ version' = [version EXCEPT ![r] = account[actor[r]].ver]
            /\ task' = [task EXCEPT ![r] = t]
            /\ UNCHANGED <<actor, revoked>>
       ELSE Done(r)
  /\ UNCHANGED <<account, setupKey, roster, jobs>>

-----------------------------------------------------------------------------
(* update_user and delete_user, from lock_admin_roster on. *)

\* Mutant: lock_admin_roster is left out.
RosterUnlocked == TRUE

RosterFree == roster = Nobody

LockRoster(r) ==
  /\ pc[r] = "ready"
  /\ RosterFree
  /\ roster' = r
  /\ Goto(r, "locked")
  /\ UNCHANGED <<account, setupKey, jobs>>

\* Mutants: the version is not compared, the actor is not read again.
StillAdminByRole(r) == actor[r] \in ActiveAdmins
ActorTrusted(r)     == TRUE

\* actor_still_admin
StillAdmin(r) == actor[r] \in ActiveAdmins /\ account[actor[r]].ver = version[r]

Recheck(r) ==
  /\ pc[r] = "locked"
  /\ IF StillAdmin(r)
       THEN Goto(r, "rechecked") /\ UNCHANGED roster
       ELSE Done(r) /\ Release(r)
  /\ UNCHANGED <<account, setupKey, jobs>>

RemovesAdmin(t) ==
  /\ t.target \in ActiveAdmins
  /\ t.kind = "update" => t.change.active = "off" \/ t.change.role = "user"

ActiveJobs(u) == {j \in Job : job[j] = "active" /\ owner[j] = u}

Allowed(t) ==
  /\ t.target \in Present
  /\ RemovesAdmin(t) => Cardinality(ActiveAdmins) > 1
  /\ t.kind = "delete" => ActiveJobs(t.target) = {}

Decide(r) ==
  /\ pc[r] = "rechecked"
  /\ IF Allowed(task[r])
       THEN Goto(r, "decided") /\ UNCHANGED roster
       ELSE Done(r) /\ Release(r)
  /\ UNCHANGED <<account, setupKey, jobs>>

Bumps(c) == c.role # "keep" \/ c.active # "keep" \/ c.password

Changed(a, c) ==
  [state  |-> a.state,
   role   |-> IF c.role = "keep" THEN a.role ELSE c.role,
   active |-> IF c.active = "keep" THEN a.active ELSE c.active = "on",
   ver    |-> IF Bumps(c) THEN a.ver + 1 ELSE a.ver]

\* The history: requests that have read an actor who is now changed.
Hit(r, u) ==
  [q \in Request |-> q # r /\ (revoked[q] \/ (pc[q] \in WithTask /\ actor[q] = u))]

Commit(r) ==
  /\ pc' = [pc EXCEPT ![r] = "idle"]
  /\ actor' = [actor EXCEPT ![r] = Nobody]
  /\ version' = [version EXCEPT ![r] = 0]
  /\ task' = [task EXCEPT ![r] = NoTask]
  /\ Release(r)

UpdateCommit(r) ==
  LET t == task[r] IN
  /\ pc[r] = "decided" /\ t.kind = "update"
  /\ account[t.target].ver < MaxVersion
  /\ account' = [account EXCEPT ![t.target] = Changed(@, t.change)]
  /\ revoked' = IF Bumps(t.change) THEN Hit(r, t.target) ELSE [revoked EXCEPT ![r] = FALSE]
  /\ Commit(r)
  /\ UNCHANGED <<setupKey, jobs>>

DeleteCommit(r) ==
  LET t == task[r] IN
  /\ pc[r] = "decided" /\ t.kind = "delete"
  /\ account' = [account EXCEPT ![t.target] = [Blank EXCEPT !.state = "deleted"]]
  /\ owner' = [j \in Job |-> IF owner[j] = t.target THEN Nobody ELSE owner[j]]
  /\ revoked' = Hit(r, t.target)
  /\ Commit(r)
  /\ UNCHANGED <<setupKey, job>>

-----------------------------------------------------------------------------
(* What else touches the rows: session rotation by the multi-factor pages, *)
(* uploads (their INSERT needs the owner's row), and jobs that end.        *)

RotateSession(u) ==
  /\ u \in Present /\ account[u].active
  /\ account[u].ver < MaxVersion
  /\ account' = [account EXCEPT ![u].ver = @ + 1]
  /\ UNCHANGED <<setupKey, roster, requests, jobs>>

UploadRead(r) ==
  /\ pc[r] = "arrived"
  /\ actor[r] \in Present
  /\ Goto(r, "uploading")
  /\ UNCHANGED <<account, setupKey, roster, jobs>>

UploadCommit(r) ==
  /\ pc[r] = "uploading"
  /\ actor[r] \in Present
  /\ \E j \in Job : /\ job[j] = "none"
                    /\ job' = [job EXCEPT ![j] = "active"]
                    /\ owner' = [owner EXCEPT ![j] = actor[r]]
  /\ Done(r)
  /\ UNCHANGED <<account, setupKey, roster>>

JobEnds(j) ==
  /\ job[j] = "active"
  /\ job' = [job EXCEPT ![j] = "ended"]
  /\ UNCHANGED <<account, setupKey, roster, requests, owner>>

Handler(r) ==
  \/ SetupCount(r) \/ SetupCommit(r) \/ RegisterCheck(r) \/ RegisterCommit(r)
  \/ \E u \in User : Arrive(r, u)
  \/ AdminRequired(r) \/ CreateUser(r)
  \/ \E t \in Task \ {NoTask} : ReadActor(r, t)
  \/ LockRoster(r) \/ Recheck(r) \/ Decide(r) \/ UpdateCommit(r) \/ DeleteCommit(r)
  \/ UploadRead(r) \/ UploadCommit(r) \/ Fail(r)

Next == \/ \E r \in Request : Handler(r)
        \/ \E u \in User : RotateSession(u)
        \/ \E j \in Job : JobEnds(j)

Spec == Init /\ [][Next]_vars

-----------------------------------------------------------------------------
(* Properties *)

\* From the first setup on there is an administrator who can sign in, whatever
\* demotions, deactivations and deletions of each other the administrators
\* send at the same time (update_user, delete_user).
AdminRemains == setupKey => ActiveAdmins # {}

\* A change of an existing account is only decided for an actor who is an
\* active administrator at that moment, and whom no roster change touched
\* since the handler read the row: not even one that removed the actor and
\* another that put the actor back.
ActorAuthorised == \A r \in Request : pc[r] = "decided" =>
                     actor[r] \in ActiveAdmins /\ ~revoked[r]

\* Once anybody has an account, only a request that was let in as an
\* administrator's makes an administrator: no second setup gets through.
AdminsMakeAdmins ==
  [][Present # {} =>
       \A u \in User : u \notin ActiveAdmins /\ u \in ActiveAdmins'
         => \E r \in Request : pc[r] \in {"admin", "decided"} /\ pc'[r] = "idle"]_vars

\* "Cancel or finish this user's active jobs first": a job that is still
\* active belongs to somebody.
ActiveJobsOwned == \A j \in Job : job[j] = "active" => owner[j] \in Present

\* What these rest on: of the tables,
SetupIsMarked == Present # {} => setupKey

\* and of every request: what it knows, that the roster row is its own, and
\* that what it has checked so far still stands.
SetupSeen(r)      == pc[r] \notin {"idle", "counted"} => setupKey
LockIsHeld(r)     == pc[r] \in Locking <=> roster = r
ActorKnown(r)     == pc[r] \in WithTask \cup {"arrived", "admin", "uploading"}
                       => actor[r] \in User
TaskKnown(r)      == pc[r] \in WithTask => task[r] # NoTask
VersionBehind(r)  == pc[r] \in WithTask =>
                       /\ account[actor[r]].state # "unused"
                       /\ actor[r] \in Present => version[r] <= account[actor[r]].ver
RevokedShows(r)   == revoked[r] =>
                       /\ pc[r] \in WithTask
                       /\ actor[r] \notin Present \/ version[r] < account[actor[r]].ver
ActorHeld(r)      == pc[r] \in {"rechecked", "decided"}
                       => actor[r] \in ActiveAdmins /\ ~revoked[r]
DecisionStands(r) == pc[r] = "decided" =>
                       /\ task[r].target \in Present
                       /\ RemovesAdmin(task[r]) => \E u \in ActiveAdmins : u # task[r].target

RequestInv(r) == /\ SetupSeen(r) /\ LockIsHeld(r) /\ ActorKnown(r) /\ TaskKnown(r)
                 /\ VersionBehind(r) /\ RevokedShows(r) /\ ActorHeld(r) /\ DecisionStands(r)

IndInv == /\ TypeOK /\ AdminRemains /\ SetupIsMarked
          /\ \A r \in Request : RequestInv(r)
=============================================================================
