-------------------------- MODULE AdminRosterProofs --------------------------
(***************************************************************************)
(* An administrator remains, and no administrator acts after losing the    *)
(* role, for every set of accounts, requests and bodies.                   *)
(***************************************************************************)
EXTENDS AdminRoster, FiniteSetTheorems, TLAPS

\* What no step but a commit of update_user or delete_user does to a row:
\* an account that is there keeps its role and stays active, its version does
\* not go back, and an id that was given away is not given again.
Kept == \A u \in User :
  /\ u \in Present => /\ u \in Present'
                      /\ account'[u].role = account[u].role
                      /\ account'[u].active = account[u].active
                      /\ account'[u].ver >= account[u].ver
  /\ account[u].state = "deleted" => account'[u] = account[u]

SameRequest(q) == /\ pc'[q] = pc[q] /\ actor'[q] = actor[q] /\ version'[q] = version[q]
                  /\ task'[q] = task[q] /\ revoked'[q] = revoked[q]
                  /\ (roster' = q) <=> (roster = q)

LEMMA IndInvInit == Init => IndInv
<1> SUFFICES ASSUME Init PROVE IndInv
  OBVIOUS
<1>1. TypeOK
  BY DEF Init, TypeOK, Account, Role, Blank, Task, NoTask
<1>2. Present = {} /\ ~setupKey
  BY DEF Init, Present, Blank
<1>3. ASSUME NEW r \in Request PROVE RequestInv(r)
  BY RequestAssumption DEF Init, RequestInv, SetupSeen, LockIsHeld, ActorKnown, TaskKnown,
     VersionBehind, RevokedShows, ActorHeld, DecisionStands, WithTask, Locking
<1> QED
  BY <1>1, <1>2, <1>3 DEF IndInv, AdminRemains, SetupIsMarked

\* Accounts that are kept keep an administrator.
LEMMA KeptAdmins ==
  ASSUME TypeOK, TypeOK', Kept
  PROVE  ActiveAdmins \subseteq ActiveAdmins'
BY DEF TypeOK, Kept, ActiveAdmins, Present

\* A request that does not move is not hurt by a step that keeps the accounts.
LEMMA Bystander ==
  ASSUME TypeOK, TypeOK', Kept, setupKey => setupKey', NEW q \in Request, RequestInv(q), SameRequest(q)
  PROVE  RequestInv(q)'
<1>1. ActiveAdmins \subseteq ActiveAdmins'
  BY KeptAdmins
<1>2. SetupSeen(q)' /\ LockIsHeld(q)' /\ ActorKnown(q)' /\ TaskKnown(q)'
  BY DEF RequestInv, SameRequest, SetupSeen, LockIsHeld, ActorKnown, TaskKnown
<1>3. pc[q] \in WithTask => actor[q] \in User /\ task[q] # NoTask
  BY DEF RequestInv, ActorKnown, TaskKnown
<1>4. ASSUME NEW u \in User
      PROVE  /\ u \notin Present /\ account[u].state # "unused"
                  => u \notin Present' /\ account'[u].state # "unused"
             /\ u \in Present => /\ u \in Present' /\ account'[u].state # "unused"
                                 /\ account[u].ver \in Nat /\ account'[u].ver \in Nat
                                 /\ account'[u].ver >= account[u].ver
  BY <1>4 DEF Kept, TypeOK, Account, Present
<1>5. VersionBehind(q)'
  <2> SUFFICES ASSUME pc'[q] \in WithTask
               PROVE  /\ account'[actor[q]].state # "unused"
                      /\ actor[q] \in Present' => version[q] <= account'[actor[q]].ver
    BY DEF SameRequest, VersionBehind
  <2>1. /\ actor[q] \in User /\ version[q] \in Nat
        /\ account[actor[q]].state # "unused"
        /\ actor[q] \in Present => version[q] <= account[actor[q]].ver
    BY <1>3 DEF RequestInv, SameRequest, VersionBehind, TypeOK
  <2> QED
    BY <2>1, <1>4
<1>6. RevokedShows(q)'
  <2> SUFFICES ASSUME revoked[q]
               PROVE  /\ pc[q] \in WithTask
                      /\ actor[q] \notin Present' \/ version[q] < account'[actor[q]].ver
    BY DEF SameRequest, RevokedShows
  <2>1. /\ pc[q] \in WithTask
        /\ actor[q] \notin Present \/ version[q] < account[actor[q]].ver
    BY DEF RequestInv, RevokedShows
  <2>2. actor[q] \in User /\ account[actor[q]].state # "unused" /\ version[q] \in Nat
    BY <2>1, <1>3 DEF RequestInv, VersionBehind, TypeOK
  <2> QED
    BY <2>1, <2>2, <1>4
<1>7. ActorHeld(q)'
  BY <1>1 DEF RequestInv, SameRequest, ActorHeld
<1>8. DecisionStands(q)'
  <2> SUFFICES ASSUME pc[q] = "decided"
               PROVE  /\ task[q].target \in Present'
                      /\ (task[q].target \in ActiveAdmins' /\
                          (task[q].kind = "update" => task[q].change.active = "off"
                                                       \/ task[q].change.role = "user"))
                           => \E u \in ActiveAdmins' : u # task[q].target
    BY DEF SameRequest, DecisionStands, RemovesAdmin
  <2>1. /\ task[q].target \in Present
        /\ RemovesAdmin(task[q]) => \E u \in ActiveAdmins : u # task[q].target
    BY DEF RequestInv, DecisionStands
  <2>2. task[q].target \in User
    BY <2>1 DEF Present
  <2>3. task[q].target \in Present' /\ (task[q].target \in ActiveAdmins' => task[q].target \in ActiveAdmins)
    BY <2>1, <2>2 DEF Kept, ActiveAdmins
  <2> QED
    BY <2>1, <2>3, <1>1 DEF RemovesAdmin
<1> QED
  BY <1>2, <1>5, <1>6, <1>7, <1>8 DEF RequestInv

\* A request that ends knows nothing any more.
LEMMA Ended ==
  ASSUME NEW r \in Request, pc'[r] = "idle", roster' # r, ~revoked'[r]
  PROVE  RequestInv(r)'
BY DEF RequestInv, SetupSeen, LockIsHeld, ActorKnown, TaskKnown, VersionBehind,
   RevokedShows, ActorHeld, DecisionStands, WithTask, Locking


-----------------------------------------------------------------------------
\* Every step keeps the types.

LEMMA ChangedType ==
  ASSUME NEW a \in Account, NEW c \in Change
  PROVE  /\ Changed(a, c) \in Account
         /\ Changed(a, c).state = a.state
         /\ Changed(a, c).ver >= a.ver
         /\ Bumps(c) => Changed(a, c).ver > a.ver
         /\ ~Bumps(c) => /\ Changed(a, c).role = a.role
                        /\ Changed(a, c).active = a.active
         /\ Changed(a, c).role # a.role => c.role # "keep"
<1>1. Changed(a, c) \in Account
  <2>1. /\ a.state \in {"unused", "present", "deleted"} /\ a.role \in Role
        /\ a.active \in BOOLEAN /\ a.ver \in Nat /\ a.ver + 1 \in Nat
    BY DEF Account
  <2>2. c.role \in Role \cup {"keep"}
    BY DEF Change
  <2>3. (IF c.role = "keep" THEN a.role ELSE c.role) \in Role
    BY <2>1, <2>2
  <2>4. (IF c.active = "keep" THEN a.active ELSE c.active = "on") \in BOOLEAN
    BY <2>1
  <2>5. (IF Bumps(c) THEN a.ver + 1 ELSE a.ver) \in Nat
    BY <2>1
  <2> QED
    BY <2>1, <2>3, <2>4, <2>5, Zenon DEF Changed, Account
<1>2. a.ver \in Nat
  BY DEF Account
<1>3. /\ Changed(a, c).state = a.state
      /\ Changed(a, c).ver = IF Bumps(c) THEN a.ver + 1 ELSE a.ver
      /\ Changed(a, c).role # a.role => c.role # "keep"
      /\ ~Bumps(c) => Changed(a, c).role = a.role /\ Changed(a, c).active = a.active
  BY SMT DEF Changed, Bumps
<1> QED
  BY <1>1, <1>2, <1>3

LEMMA StaysAdmin ==
  ASSUME NEW a \in Account, NEW c \in Change, a.role = "admin", a.active,
         c.role # "user", c.active # "off"
  PROVE  Changed(a, c).role = "admin" /\ Changed(a, c).active
<1>1. c.role \in {"keep", "admin"} /\ c.active \in {"keep", "on"}
  BY DEF Change, Role
<1>2. Changed(a, c).role = "admin"
  BY <1>1 DEF Changed
<1>3. CASE c.active = "keep"
  <2>1. Changed(a, c).active = a.active
    BY <1>3, Zenon DEF Changed
  <2> QED
    BY <1>2, <2>1
<1>4. CASE c.active = "on"
  <2>1. Changed(a, c).active = (c.active = "on")
    BY <1>4, Zenon DEF Changed
  <2> QED
    BY <1>2, <1>4, <2>1
<1> QED
  BY <1>1, <1>2, <1>3, <1>4

\* What Goto, Done and Release leave.
LEMMA GotoType ==
  ASSUME TypeOK, NEW r \in Request,
         NEW label \in {"counted", "open", "admin", "uploading", "locked", "rechecked", "decided"},
         Goto(r, label)
  PROVE  /\ pc' \in [Request -> {"idle", "counted", "open", "arrived", "admin", "uploading",
                                 "ready", "locked", "rechecked", "decided"}]
         /\ UNCHANGED <<actor, version, task, revoked>>
BY DEF TypeOK, Goto

LEMMA DoneType ==
  ASSUME TypeOK, NEW r \in Request, Done(r)
  PROVE  /\ pc' \in [Request -> {"idle", "counted", "open", "arrived", "admin", "uploading",
                                 "ready", "locked", "rechecked", "decided"}]
         /\ actor' \in [Request -> User \cup {Nobody}]
         /\ version' \in [Request -> Nat]
         /\ task' \in [Request -> Task]
         /\ revoked' \in [Request -> BOOLEAN]
BY DEF TypeOK, Done, NoTask, Task

LEMMA InsertedType ==
  ASSUME TypeOK, NEW u \in User, NEW role \in Role, Inserted(u, role)
  PROVE  /\ account' \in [User -> Account]
         /\ account'[u] = [state |-> "present", role |-> role, active |-> TRUE, ver |-> 0]
         /\ \A v \in User : v # u => account'[v] = account[v]
BY DEF TypeOK, Inserted, Account

LEMMA TypeStep == ASSUME IndInv, [Next]_vars PROVE TypeOK'
<1> USE DEF IndInv
<1>1. CASE UNCHANGED vars
  BY <1>1 DEF TypeOK, vars, requests, jobs
<1>2. ASSUME NEW r \in Request, SetupCount(r) PROVE TypeOK'
  BY <1>2 DEF TypeOK, SetupCount, Goto, jobs
<1>3. ASSUME NEW r \in Request, SetupCommit(r) PROVE TypeOK'
  <2>1. account' \in [User -> Account] /\ setupKey' \in BOOLEAN
    BY <1>3, InsertedType DEF TypeOK, SetupCommit, Role
  <2>2. owner' \in [Job -> User \cup {Nobody}]
    BY <1>3 DEF TypeOK, SetupCommit
  <2> QED
    BY <1>3, <2>1, <2>2, DoneType DEF TypeOK, SetupCommit
<1>4. ASSUME NEW r \in Request, RegisterCheck(r) PROVE TypeOK'
  BY <1>4 DEF TypeOK, RegisterCheck, Goto, jobs
<1>5. ASSUME NEW r \in Request, RegisterCommit(r) PROVE TypeOK'
  BY <1>5, DoneType DEF TypeOK, RegisterCommit, Inserted, Account, Role, jobs
<1>6. ASSUME NEW r \in Request, NEW u \in User, Arrive(r, u) PROVE TypeOK'
  BY <1>6 DEF TypeOK, Arrive, jobs
<1>7. ASSUME NEW r \in Request, AdminRequired(r) PROVE TypeOK'
  BY <1>7, GotoType, DoneType DEF TypeOK, AdminRequired, jobs
<1>8. ASSUME NEW r \in Request, CreateUser(r) PROVE TypeOK'
  BY <1>8, DoneType DEF TypeOK, CreateUser, Inserted, Account, Role, jobs
<1>9. ASSUME NEW r \in Request, NEW t \in Task, ReadActor(r, t) PROVE TypeOK'
  <2>1. actor[r] \in User => account[actor[r]].ver \in Nat
    BY DEF TypeOK, Account
  <2> QED
    BY <1>9, <2>1, DoneType DEF TypeOK, ReadActor, Present, jobs
<1>10. ASSUME NEW r \in Request, LockRoster(r) PROVE TypeOK'
  BY <1>10 DEF TypeOK, LockRoster, Goto, jobs
<1>11. ASSUME NEW r \in Request, Recheck(r) PROVE TypeOK'
  <2>1. roster' \in Request \cup {Nobody} /\ UNCHANGED <<account, setupKey, jobs>>
    BY <1>11 DEF TypeOK, Recheck, Release
  <2> QED
    BY <1>11, <2>1, GotoType, DoneType DEF TypeOK, Recheck, jobs
<1>12. ASSUME NEW r \in Request, Decide(r) PROVE TypeOK'
  <2>1. roster' \in Request \cup {Nobody} /\ UNCHANGED <<account, setupKey, jobs>>
    BY <1>12 DEF TypeOK, Decide, Release
  <2> QED
    BY <1>12, <2>1, GotoType, DoneType DEF TypeOK, Decide, jobs
<1>13. ASSUME NEW r \in Request, UpdateCommit(r) PROVE TypeOK'
  <2>1. task[r].target \in User /\ task[r].change \in Change
    BY <1>13, BodyAssumption DEF TypeOK, UpdateCommit, Task, NoTask
  <2>2. Changed(account[task[r].target], task[r].change) \in Account
    BY <2>1, ChangedType DEF TypeOK
  <2>3. revoked' \in [Request -> BOOLEAN]
    BY <1>13 DEF TypeOK, UpdateCommit, Hit
  <2> QED
    BY <1>13, <2>1, <2>2, <2>3 DEF TypeOK, UpdateCommit, Commit, Release, NoTask, Task, jobs
<1>14. ASSUME NEW r \in Request, DeleteCommit(r) PROVE TypeOK'
  <2>1. revoked' \in [Request -> BOOLEAN]
    BY <1>14 DEF TypeOK, DeleteCommit, Hit
  <2> QED
    BY <1>14, <2>1 DEF TypeOK, DeleteCommit, Commit, Release, NoTask, Task, Blank, Account, Role
<1>15. ASSUME NEW u \in User, RotateSession(u) PROVE TypeOK'
  BY <1>15 DEF TypeOK, RotateSession, Account, requests, jobs
<1>16. ASSUME NEW r \in Request, UploadRead(r) PROVE TypeOK'
  BY <1>16 DEF TypeOK, UploadRead, Goto, jobs
<1>17. ASSUME NEW r \in Request, UploadCommit(r) PROVE TypeOK'
  BY <1>17 DEF TypeOK, UploadCommit, Done, NoTask, Task, Present
<1>18. ASSUME NEW j \in Job, JobEnds(j) PROVE TypeOK'
  BY <1>18 DEF TypeOK, JobEnds, requests
<1>19. ASSUME NEW r \in Request, Fail(r) PROVE TypeOK'
  BY <1>19, DoneType DEF TypeOK, Fail, Release, jobs
<1> QED
  BY <1>1, <1>2, <1>3, <1>4, <1>5, <1>6, <1>7, <1>8, <1>9, <1>10, <1>11, <1>12, <1>13,
     <1>14, <1>15, <1>16, <1>17, <1>18, <1>19 DEF Next, Handler

-----------------------------------------------------------------------------
(* The invariant is inductive. *)

LEMMA SameAccounts == ASSUME TypeOK, account' = account PROVE Kept
BY DEF TypeOK, Account, Kept, Present

LEMMA InsertKeeps ==
  ASSUME TypeOK, NEW u \in User, NEW role \in Role, Inserted(u, role)
  PROVE  Kept /\ u \in Present' /\ (role = "admin" => u \in ActiveAdmins')
<1>1. account[u].state = "unused" /\ u \notin Present
  BY DEF Inserted, Present
<1>2. /\ account'[u].state = "present" /\ account'[u].role = role /\ account'[u].active = TRUE
      /\ \A v \in User : v # u => account'[v] = account[v]
  <2>1. /\ account'[u] = [state |-> "present", role |-> role, active |-> TRUE, ver |-> 0]
        /\ \A v \in User : v # u => account'[v] = account[v]
    BY InsertedType
  <2> QED
    BY <2>1
<1>3. \A v \in User : account[v].ver \in Nat
  BY DEF TypeOK, Account
<1> QED
  BY <1>1, <1>2, <1>3 DEF Kept, Present, ActiveAdmins

\* A step that keeps the accounts and moves one request needs only that
\* request looked at.
LEMMA OneMoves ==
  ASSUME IndInv, TypeOK', Kept, setupKey => setupKey', Present' # {} => setupKey',
         ~setupKey /\ setupKey' => ActiveAdmins' # {},
         NEW r \in Request, RequestInv(r)',
         \A q \in Request : q # r => SameRequest(q)
  PROVE  IndInv'
<1>1. ASSUME NEW q \in Request PROVE RequestInv(q)'
  BY Bystander DEF IndInv
<1>2. AdminRemains'
  BY KeptAdmins DEF IndInv, AdminRemains
<1> QED
  BY <1>1, <1>2 DEF IndInv, SetupIsMarked

\* The same for a step that leaves the tables alone.
LEMMA OneMovesOnly ==
  ASSUME IndInv, TypeOK', account' = account, setupKey' = setupKey,
         NEW r \in Request, RequestInv(r)',
         \A q \in Request : q # r => SameRequest(q)
  PROVE  IndInv'
<1>1. Kept /\ (Present' # {} => setupKey')
  BY SameAccounts DEF IndInv, SetupIsMarked, Present
<1> QED
  BY <1>1, OneMoves

\* A request that ends leaves the others as they are.
LEMMA Ends ==
  ASSUME IndInv, NEW r \in Request, Done(r),
         Release(r) \/ (UNCHANGED roster /\ pc[r] \notin Locking)
  PROVE  RequestInv(r)' /\ \A q \in Request : q # r => SameRequest(q)
<1>1. pc'[r] = "idle" /\ ~revoked'[r]
  BY DEF IndInv, TypeOK, Done
<1>2. roster' # r
  BY RequestAssumption DEF IndInv, RequestInv, LockIsHeld, Release
<1>3. \A q \in Request : q # r => ((roster' = q) <=> (roster = q))
  BY RequestAssumption DEF Release
<1>4. \A q \in Request : q # r => /\ pc'[q] = pc[q] /\ actor'[q] = actor[q]
                                  /\ version'[q] = version[q] /\ task'[q] = task[q]
                                  /\ revoked'[q] = revoked[q]
  BY DEF IndInv, TypeOK, Done
<1> QED
  BY <1>1, <1>2, <1>3, <1>4, Ended DEF SameRequest

\* A request that goes on without the roster row changing hands.
LEMMA GoesOn ==
  ASSUME TypeOK, NEW r \in Request, NEW label, Goto(r, label), UNCHANGED roster
  PROVE  /\ pc'[r] = label
         /\ actor'[r] = actor[r] /\ version'[r] = version[r]
         /\ task'[r] = task[r] /\ revoked'[r] = revoked[r]
         /\ \A q \in Request : q # r => SameRequest(q)
BY DEF TypeOK, Goto, SameRequest

LEMMA SetupCountStep ==
  ASSUME IndInv, TypeOK', NEW r \in Request, SetupCount(r) PROVE IndInv'
<1>1. pc'[r] = "counted" /\ roster' = roster /\ revoked'[r] = revoked[r]
      /\ \A q \in Request : q # r => SameRequest(q)
  BY GoesOn DEF SetupCount, IndInv
<1>2. roster # r /\ ~revoked[r]
  BY DEF SetupCount, IndInv, RequestInv, LockIsHeld, RevokedShows, WithTask, Locking
<1>3. RequestInv(r)'
  BY <1>1, <1>2 DEF RequestInv, SetupSeen, LockIsHeld, ActorKnown, TaskKnown, VersionBehind,
     RevokedShows, ActorHeld, DecisionStands, WithTask, Locking
<1> QED
  BY <1>1, <1>3, OneMovesOnly DEF SetupCount

LEMMA SetupCommitStep ==
  ASSUME IndInv, TypeOK', NEW r \in Request, SetupCommit(r) PROVE IndInv'
<1>1. RequestInv(r)' /\ \A q \in Request : q # r => SameRequest(q)
  BY Ends DEF SetupCommit, Locking, WithTask
<1>2. CASE account' = account /\ setupKey' = setupKey
  BY <1>1, <1>2, OneMovesOnly
<1>3. CASE setupKey' = TRUE /\ \E u \in User : Inserted(u, "admin")
  <2>1. PICK u \in User : Inserted(u, "admin")
    BY <1>3
  <2>2. Kept /\ u \in ActiveAdmins'
    BY <2>1, InsertKeeps DEF IndInv, Role
  <2> QED
    BY <1>1, <1>3, <2>2, OneMoves
<1> QED
  BY <1>2, <1>3 DEF SetupCommit

LEMMA RegisterCheckStep ==
  ASSUME IndInv, TypeOK', NEW r \in Request, RegisterCheck(r) PROVE IndInv'
<1>1. pc'[r] = "open" /\ roster' = roster /\ revoked'[r] = revoked[r]
      /\ \A q \in Request : q # r => SameRequest(q)
  BY GoesOn DEF RegisterCheck, IndInv
<1>2. roster # r /\ ~revoked[r] /\ setupKey'
  BY DEF RegisterCheck, IndInv, SetupIsMarked, RequestInv, LockIsHeld, RevokedShows,
     WithTask, Locking
<1>3. RequestInv(r)'
  BY <1>1, <1>2 DEF RequestInv, SetupSeen, LockIsHeld, ActorKnown, TaskKnown, VersionBehind,
     RevokedShows, ActorHeld, DecisionStands, WithTask, Locking
<1> QED
  BY <1>1, <1>3, OneMovesOnly DEF RegisterCheck

\* An account for somebody else, by registration or by an administrator.
LEMMA InsertStep ==
  ASSUME IndInv, TypeOK', NEW r \in Request, pc[r] \in {"open", "admin"},
         NEW u \in User, NEW role \in Role, Inserted(u, role), Done(r),
         UNCHANGED <<setupKey, roster>>
  PROVE  IndInv'
<1>1. RequestInv(r)' /\ \A q \in Request : q # r => SameRequest(q)
  BY Ends DEF Locking, WithTask
<1>2. setupKey /\ setupKey'
  BY DEF IndInv, RequestInv, SetupSeen
<1>3. Kept
  BY InsertKeeps DEF IndInv
<1> QED
  BY <1>1, <1>2, <1>3, OneMoves

LEMMA ArriveStep ==
  ASSUME IndInv, TypeOK', NEW r \in Request, NEW u \in User, Arrive(r, u) PROVE IndInv'
<1>1. /\ pc[r] = "idle" /\ pc'[r] = "arrived" /\ actor'[r] = u /\ revoked'[r] = revoked[r]
      /\ roster' = roster /\ setupKey' = setupKey /\ Present # {}
      /\ \A q \in Request : q # r => SameRequest(q)
  BY DEF Arrive, SameRequest, IndInv, TypeOK
<1>2. roster # r /\ ~revoked[r] /\ setupKey
  BY <1>1 DEF IndInv, SetupIsMarked, RequestInv, LockIsHeld, RevokedShows, WithTask, Locking
<1>3. RequestInv(r)'
  BY <1>1, <1>2 DEF RequestInv, SetupSeen, LockIsHeld, ActorKnown, TaskKnown, VersionBehind,
     RevokedShows, ActorHeld, DecisionStands, WithTask, Locking
<1> QED
  BY <1>1, <1>3, OneMovesOnly DEF Arrive

\* From a step without a task to the next.
LEMMA OnwardStep ==
  ASSUME IndInv, TypeOK', NEW r \in Request, pc[r] = "arrived",
         NEW label \in {"admin", "uploading"}, Goto(r, label),
         UNCHANGED <<account, setupKey, roster>>
  PROVE  IndInv'
<1>1. /\ pc'[r] = label /\ actor'[r] = actor[r] /\ revoked'[r] = revoked[r]
      /\ \A q \in Request : q # r => SameRequest(q)
  BY GoesOn DEF IndInv
<1>2. roster # r /\ ~revoked[r] /\ setupKey /\ actor[r] \in User
  BY DEF IndInv, RequestInv, SetupSeen, LockIsHeld, ActorKnown, RevokedShows, WithTask, Locking
<1>3. RequestInv(r)'
  BY <1>1, <1>2 DEF RequestInv, SetupSeen, LockIsHeld, ActorKnown, TaskKnown, VersionBehind,
     RevokedShows, ActorHeld, DecisionStands, WithTask, Locking
<1> QED
  BY <1>1, <1>3, OneMovesOnly

LEMMA EndStep ==
  ASSUME IndInv, TypeOK', NEW r \in Request, Done(r),
         Release(r) \/ (UNCHANGED roster /\ pc[r] \notin Locking),
         UNCHANGED <<account, setupKey>>
  PROVE  IndInv'
BY Ends, OneMovesOnly

LEMMA ReadActorStep ==
  ASSUME IndInv, TypeOK', NEW r \in Request, NEW t \in Task \ {NoTask}, ReadActor(r, t)
  PROVE  IndInv'
<1>1. CASE Done(r)
  BY <1>1, EndStep DEF ReadActor, Locking, WithTask
<1>2. CASE ~Done(r)
  <2>1. /\ pc[r] = "admin" /\ pc'[r] = "ready" /\ actor[r] \in Present
        /\ actor'[r] = actor[r] /\ version'[r] = account[actor[r]].ver
        /\ task'[r] = t /\ revoked'[r] = revoked[r]
        /\ UNCHANGED <<account, setupKey, roster>>
        /\ \A q \in Request : q # r => SameRequest(q)
    BY <1>2 DEF ReadActor, SameRequest, IndInv, TypeOK
  <2>2. roster # r /\ ~revoked[r] /\ setupKey /\ actor[r] \in User
    BY <2>1 DEF IndInv, RequestInv, SetupSeen, LockIsHeld, ActorKnown, RevokedShows,
       WithTask, Locking
  <2>3. account[actor[r]].state # "unused" /\ version'[r] <= account'[actor[r]].ver
    BY <2>1, <2>2 DEF Present, IndInv, TypeOK, Account
  <2>4. RequestInv(r)'
    BY <2>1, <2>2, <2>3 DEF RequestInv, SetupSeen, LockIsHeld, ActorKnown, TaskKnown,
       VersionBehind, RevokedShows, ActorHeld, DecisionStands, WithTask, Locking
  <2> QED
    BY <2>1, <2>4, OneMovesOnly
<1> QED
  BY <1>1, <1>2

\* A request moves on inside its transaction: what it knew stays true.
LEMMA KnownStays ==
  ASSUME IndInv, NEW r \in Request, pc[r] \in WithTask, pc'[r] \in WithTask,
         actor'[r] = actor[r], version'[r] = version[r], task'[r] = task[r],
         revoked'[r] = revoked[r], UNCHANGED <<account, setupKey>>
  PROVE  SetupSeen(r)' /\ ActorKnown(r)' /\ TaskKnown(r)' /\ VersionBehind(r)' /\ RevokedShows(r)'
<1>1. Present' = Present
  BY DEF Present
<1> QED
  BY <1>1 DEF IndInv, RequestInv, SetupSeen, ActorKnown, TaskKnown, VersionBehind,
     RevokedShows, WithTask

LEMMA LockRosterStep ==
  ASSUME IndInv, TypeOK', NEW r \in Request, LockRoster(r) PROVE IndInv'
<1>1. /\ pc[r] = "ready" /\ pc'[r] = "locked" /\ roster = Nobody /\ roster' = r
      /\ actor'[r] = actor[r] /\ version'[r] = version[r]
      /\ task'[r] = task[r] /\ revoked'[r] = revoked[r]
      /\ UNCHANGED <<account, setupKey>>
      /\ \A q \in Request : q # r => SameRequest(q)
  BY RequestAssumption DEF LockRoster, RosterFree, Goto, SameRequest, IndInv, TypeOK
<1>2. LockIsHeld(r)' /\ ActorHeld(r)' /\ DecisionStands(r)'
  BY <1>1 DEF LockIsHeld, ActorHeld, DecisionStands, WithTask, Locking
<1>3. RequestInv(r)'
  BY <1>1, <1>2, KnownStays DEF RequestInv, WithTask
<1> QED
  BY <1>1, <1>3, OneMovesOnly

LEMMA RecheckStep ==
  ASSUME IndInv, TypeOK', NEW r \in Request, Recheck(r) PROVE IndInv'
<1>1. CASE Done(r) /\ Release(r)
  BY <1>1, EndStep DEF Recheck
<1>2. CASE StillAdmin(r) /\ Goto(r, "rechecked") /\ UNCHANGED roster
  <2>1. /\ pc[r] = "locked" /\ pc'[r] = "rechecked" /\ roster' = roster
        /\ actor'[r] = actor[r] /\ version'[r] = version[r]
        /\ task'[r] = task[r] /\ revoked'[r] = revoked[r]
        /\ UNCHANGED <<account, setupKey>>
        /\ \A q \in Request : q # r => SameRequest(q)
    BY <1>2, GoesOn DEF Recheck, IndInv
  <2>2. roster = r
    BY <2>1 DEF IndInv, RequestInv, LockIsHeld, WithTask, Locking
  <2>3. actor[r] \in ActiveAdmins /\ actor[r] \in User /\ account[actor[r]].ver \in Nat
    BY <1>2 DEF StillAdmin, ActiveAdmins, Present, IndInv, TypeOK, Account
  <2>4. ~revoked[r]
    BY <1>2, <2>3 DEF StillAdmin, ActiveAdmins, IndInv, RequestInv, RevokedShows
  <2>5. ActiveAdmins' = ActiveAdmins
    BY <2>1 DEF ActiveAdmins, Present
  <2>6. LockIsHeld(r)' /\ ActorHeld(r)' /\ DecisionStands(r)'
    BY <2>1, <2>2, <2>3, <2>4, <2>5 DEF LockIsHeld, ActorHeld, DecisionStands, WithTask, Locking
  <2>7. RequestInv(r)'
    BY <2>1, <2>6, KnownStays DEF RequestInv, WithTask
  <2> QED
    BY <2>1, <2>7, OneMovesOnly
<1> QED
  BY <1>1, <1>2 DEF Recheck

\* More than one administrator means one besides any account.
LEMMA AnotherAdmin ==
  ASSUME Cardinality(ActiveAdmins) > 1, NEW v
  PROVE  \E u \in ActiveAdmins : u # v
<1> SUFFICES ASSUME ActiveAdmins \subseteq {v} PROVE FALSE
  OBVIOUS
<1>1. IsFiniteSet({v}) /\ Cardinality({v}) = 1
  BY FS_Singleton
<1>2. IsFiniteSet(ActiveAdmins) /\ Cardinality(ActiveAdmins) <= 1
  BY <1>1, FS_Subset
<1>3. Cardinality(ActiveAdmins) \in Nat
  BY <1>2, FS_CardinalityType
<1> QED
  BY <1>2, <1>3

LEMMA DecideStep ==
  ASSUME IndInv, TypeOK', NEW r \in Request, Decide(r) PROVE IndInv'
<1>1. CASE Done(r) /\ Release(r)
  BY <1>1, EndStep DEF Decide
<1>2. CASE Allowed(task[r]) /\ Goto(r, "decided") /\ UNCHANGED roster
  <2>1. /\ pc[r] = "rechecked" /\ pc'[r] = "decided" /\ roster' = roster
        /\ actor'[r] = actor[r] /\ version'[r] = version[r]
        /\ task'[r] = task[r] /\ revoked'[r] = revoked[r]
        /\ UNCHANGED <<account, setupKey>>
        /\ \A q \in Request : q # r => SameRequest(q)
    BY <1>2, GoesOn DEF Decide, IndInv
  <2>2. Present' = Present /\ ActiveAdmins' = ActiveAdmins
    BY <2>1 DEF ActiveAdmins, Present
  <2>3. roster = r /\ actor[r] \in ActiveAdmins /\ ~revoked[r]
    BY <2>1 DEF IndInv, RequestInv, LockIsHeld, ActorHeld, WithTask, Locking
  <2>4. LockIsHeld(r)' /\ ActorHeld(r)'
    BY <2>1, <2>2, <2>3 DEF LockIsHeld, ActorHeld, WithTask, Locking
  <2>5. DecisionStands(r)'
    BY <1>2, <2>1, <2>2, AnotherAdmin DEF DecisionStands, Allowed, RemovesAdmin
  <2>6. RequestInv(r)'
    BY <2>1, <2>4, <2>5, KnownStays DEF RequestInv, WithTask
  <2> QED
    BY <2>1, <2>6, OneMovesOnly
<1> QED
  BY <1>1, <1>2 DEF Decide

\* A commit of update_user or delete_user finds no other request inside its
\* own transaction, and marks those that have read the account it changes.
LEMMA CommitRequests ==
  ASSUME IndInv, TypeOK', NEW r \in Request, pc[r] = "decided", Commit(r), setupKey' = setupKey,
         NEW v \in User, v \in Present,
         \A u \in User : u # v => account'[u] = account[u],
         account'[v].state # "unused",
         v \in Present' => account'[v].ver >= account[v].ver,
         \A q \in Request : revoked'[q] =>
            /\ q # r
            /\ \/ revoked[q]
               \/ /\ pc[q] \in WithTask /\ actor[q] = v
                  /\ v \in Present' => account'[v].ver > account[v].ver
  PROVE  \A q \in Request : RequestInv(q)'
<1>1. roster = r /\ roster' = Nobody
  BY DEF IndInv, RequestInv, LockIsHeld, WithTask, Locking, Commit, Release
<1>2. RequestInv(r)'
  <2>1. pc'[r] = "idle" /\ ~revoked'[r] /\ roster' # r
    BY <1>1, RequestAssumption DEF Commit, IndInv, TypeOK
  <2> QED
    BY <2>1, Ended
<1>3. ASSUME NEW q \in Request, q # r PROVE RequestInv(q)'
  <2>1. /\ pc'[q] = pc[q] /\ actor'[q] = actor[q] /\ version'[q] = version[q]
        /\ task'[q] = task[q] /\ version[q] \in Nat
    BY <1>3 DEF Commit, IndInv, TypeOK
  <2>2. pc[q] \notin Locking /\ roster' # q
    BY <1>1, <1>3, RequestAssumption DEF IndInv, RequestInv, LockIsHeld
  <2>3. SetupSeen(q)' /\ LockIsHeld(q)' /\ ActorKnown(q)' /\ TaskKnown(q)'
        /\ ActorHeld(q)' /\ DecisionStands(q)'
    BY <2>1, <2>2 DEF IndInv, RequestInv, SetupSeen, LockIsHeld, ActorKnown, TaskKnown,
       ActorHeld, DecisionStands, WithTask, Locking
  <2>4. \A u \in User : /\ account[u].ver \in Nat /\ account'[u].ver \in Nat
                        /\ account[u].state # "unused" => account'[u].state # "unused"
                        /\ u \in Present' => u \in Present /\ account'[u].ver >= account[u].ver
    BY DEF IndInv, TypeOK, Account, Present
  <2>5. pc[q] \in WithTask => /\ actor[q] \in User /\ account[actor[q]].state # "unused"
                              /\ actor[q] \in Present => version[q] <= account[actor[q]].ver
    BY DEF IndInv, RequestInv, ActorKnown, VersionBehind
  <2>6. VersionBehind(q)'
    <3> SUFFICES ASSUME pc[q] \in WithTask
                 PROVE  /\ account'[actor[q]].state # "unused"
                        /\ actor[q] \in Present' => version[q] <= account'[actor[q]].ver
      BY <2>1 DEF VersionBehind
    <3> QED
      BY <2>1, <2>4, <2>5
  <2>7. RevokedShows(q)'
    <3> SUFFICES ASSUME revoked'[q]
                 PROVE  /\ pc[q] \in WithTask
                        /\ actor[q] \notin Present' \/ version[q] < account'[actor[q]].ver
      BY <2>1 DEF RevokedShows
    <3>1. CASE revoked[q]
      <4>1. pc[q] \in WithTask /\ (actor[q] \notin Present \/ version[q] < account[actor[q]].ver)
        BY <3>1 DEF IndInv, RequestInv, RevokedShows
      <4> QED
        BY <4>1, <2>1, <2>4, <2>5
    <3>2. CASE /\ pc[q] \in WithTask /\ actor[q] = v
               /\ v \in Present' => account'[v].ver > account[v].ver
      BY <3>2, <2>1, <2>4, <2>5
    <3> QED
      BY <3>1, <3>2
  <2> QED
    BY <2>3, <2>6, <2>7 DEF RequestInv
<1> QED
  BY <1>2, <1>3

LEMMA UpdateCommitStep ==
  ASSUME IndInv, TypeOK', NEW r \in Request, UpdateCommit(r) PROVE IndInv'
<1> DEFINE v == task[r].target
           c == task[r].change
<1>1. /\ pc[r] = "decided" /\ task[r].kind = "update" /\ Commit(r) /\ setupKey' = setupKey
      /\ account' = [account EXCEPT ![v] = Changed(account[v], c)]
      /\ revoked' = IF Bumps(c) THEN Hit(r, v) ELSE [revoked EXCEPT ![r] = FALSE]
  BY DEF UpdateCommit
<1>2. v \in Present /\ v \in User /\ c \in Change /\ setupKey
  <2>1. v \in Present /\ setupKey
    BY <1>1 DEF IndInv, RequestInv, DecisionStands, SetupSeen
  <2>2. c \in Change
    BY <1>1, BodyAssumption DEF IndInv, TypeOK, Task, NoTask
  <2> QED
    BY <2>1, <2>2 DEF Present
<1>3. account[v] \in Account /\ account'[v] = Changed(account[v], c)
      /\ \A u \in User : u # v => account'[u] = account[u]
  BY <1>1, <1>2 DEF IndInv, TypeOK
<1>4. /\ account'[v].state = account[v].state
      /\ account'[v].ver >= account[v].ver
      /\ Bumps(c) => account'[v].ver > account[v].ver
  BY <1>2, <1>3, ChangedType
<1>5. \A q \in Request : RequestInv(q)'
  <2>1. \A q \in Request : revoked'[q] =>
            /\ q # r
            /\ \/ revoked[q]
               \/ pc[q] \in WithTask /\ actor[q] = v /\ Bumps(c)
    BY <1>1 DEF Hit, IndInv, TypeOK
  <2> HIDE DEF v, c
  <2> QED
    BY <1>1, <1>2, <1>3, <1>4, <2>1, CommitRequests DEF Present
<1>6. AdminRemains'
  <2>1. CASE RemovesAdmin(task[r])
    <3>1. PICK u \in ActiveAdmins : u # v
      BY <1>1, <2>1 DEF IndInv, RequestInv, DecisionStands
    <3>2. account'[u] = account[u]
      BY <1>3, <3>1 DEF ActiveAdmins, Present
    <3> QED
      BY <3>1, <3>2 DEF AdminRemains, ActiveAdmins, Present
  <2>2. CASE ~RemovesAdmin(task[r])
    <3>1. PICK u \in ActiveAdmins : TRUE
      BY <1>2 DEF IndInv, AdminRemains
    <3>2. CASE u # v
      <4>1. account'[u] = account[u]
        BY <1>3, <3>1, <3>2 DEF ActiveAdmins, Present
      <4> QED
        BY <3>1, <4>1 DEF AdminRemains, ActiveAdmins, Present
    <3>3. CASE u = v
      <4>1. c.active # "off" /\ c.role # "user"
        BY <1>1, <2>2, <3>3 DEF RemovesAdmin
      <4>2. account[v].role = "admin" /\ account[v].active
        BY <3>1, <3>3 DEF ActiveAdmins
      <4>3. account'[v].role = "admin" /\ account'[v].active
        BY <1>2, <1>3, <4>1, <4>2, StaysAdmin
      <4> QED
        BY <1>2, <1>4, <4>3 DEF AdminRemains, ActiveAdmins, Present
    <3> QED
      BY <3>2, <3>3
  <2> QED
    BY <2>1, <2>2
<1> QED
  BY <1>1, <1>2, <1>5, <1>6 DEF IndInv, SetupIsMarked

LEMMA DeleteCommitStep ==
  ASSUME IndInv, TypeOK', NEW r \in Request, DeleteCommit(r) PROVE IndInv'
<1> DEFINE v == task[r].target
<1>1. /\ pc[r] = "decided" /\ task[r].kind = "delete" /\ Commit(r) /\ setupKey' = setupKey
      /\ account' = [account EXCEPT ![v] = [Blank EXCEPT !.state = "deleted"]]
      /\ revoked' = Hit(r, v)
  BY DEF DeleteCommit
<1>2. v \in Present /\ v \in User /\ setupKey
  BY <1>1 DEF IndInv, RequestInv, DecisionStands, SetupSeen, Present
<1>3. account'[v].state = "deleted" /\ \A u \in User : u # v => account'[u] = account[u]
  BY <1>1, <1>2 DEF IndInv, TypeOK, Blank
<1>4. \A q \in Request : RequestInv(q)'
  <2>1. \A q \in Request : revoked'[q] =>
            q # r /\ (revoked[q] \/ (pc[q] \in WithTask /\ actor[q] = v))
    BY <1>1 DEF Hit
  <2>2. v \notin Present'
    BY <1>3 DEF Present
  <2> HIDE DEF v
  <2> QED
    BY <1>1, <1>2, <1>3, <2>1, <2>2, CommitRequests
<1>5. AdminRemains'
  <2>1. PICK u \in ActiveAdmins : u # v
    <3>1. CASE v \in ActiveAdmins
      BY <1>1, <3>1 DEF IndInv, RequestInv, DecisionStands, RemovesAdmin
    <3>2. CASE v \notin ActiveAdmins
      BY <1>2, <3>2 DEF IndInv, AdminRemains
    <3> QED
      BY <3>1, <3>2
  <2>2. account'[u] = account[u]
    BY <1>3, <2>1 DEF ActiveAdmins, Present
  <2> QED
    BY <2>1, <2>2 DEF AdminRemains, ActiveAdmins, Present
<1> QED
  BY <1>1, <1>2, <1>4, <1>5 DEF IndInv, SetupIsMarked

\* Steps outside the requests.
LEMMA OutsideStep ==
  ASSUME IndInv, TypeOK', Kept, Present' = Present, UNCHANGED <<setupKey, roster, requests>>
  PROVE  IndInv'
<1>1. ASSUME NEW q \in Request PROVE RequestInv(q)'
  BY Bystander DEF IndInv, SameRequest, requests
<1>2. AdminRemains' /\ SetupIsMarked'
  BY KeptAdmins DEF IndInv, AdminRemains, SetupIsMarked
<1> QED
  BY <1>1, <1>2 DEF IndInv

LEMMA IndInvNext == IndInv /\ [Next]_vars => IndInv'
<1> SUFFICES ASSUME IndInv, [Next]_vars PROVE IndInv'
  OBVIOUS
<1> USE TypeStep
<1>1. CASE UNCHANGED vars
  <2>1. Kept /\ Present' = Present
    BY <1>1, SameAccounts DEF IndInv, vars, Present
  <2> QED
    BY <1>1, <2>1, OutsideStep DEF vars
<1>2. ASSUME NEW r \in Request, Handler(r) PROVE IndInv'
  <2>1. CASE SetupCount(r) \/ SetupCommit(r) \/ RegisterCheck(r)
    BY <2>1, SetupCountStep, SetupCommitStep, RegisterCheckStep
  <2>2. CASE RegisterCommit(r) \/ CreateUser(r)
    BY <2>2, InsertStep DEF RegisterCommit, CreateUser, Role
  <2>3. CASE \E u \in User : Arrive(r, u)
    BY <2>3, ArriveStep
  <2>4. CASE AdminRequired(r)
    BY <2>4, OnwardStep, EndStep DEF AdminRequired, Locking, WithTask
  <2>5. CASE \E t \in Task \ {NoTask} : ReadActor(r, t)
    BY <2>5, ReadActorStep
  <2>6. CASE LockRoster(r) \/ Recheck(r) \/ Decide(r)
    BY <2>6, LockRosterStep, RecheckStep, DecideStep
  <2>7. CASE UpdateCommit(r) \/ DeleteCommit(r)
    BY <2>7, UpdateCommitStep, DeleteCommitStep
  <2>8. CASE UploadRead(r)
    BY <2>8, OnwardStep DEF UploadRead
  <2>9. CASE UploadCommit(r) \/ Fail(r)
    BY <2>9, EndStep DEF UploadCommit, Fail, Locking, WithTask
  <2> QED
    BY <1>2, <2>1, <2>2, <2>3, <2>4, <2>5, <2>6, <2>7, <2>8, <2>9 DEF Handler
<1>3. ASSUME NEW u \in User, RotateSession(u) PROVE IndInv'
  <2>1. Kept /\ Present' = Present
    BY <1>3 DEF RotateSession, Kept, Present, IndInv, TypeOK, Account
  <2> QED
    BY <1>3, <2>1, OutsideStep DEF RotateSession
<1>4. ASSUME NEW j \in Job, JobEnds(j) PROVE IndInv'
  <2>1. Kept /\ Present' = Present
    BY <1>4, SameAccounts DEF JobEnds, IndInv, Present
  <2> QED
    BY <1>4, <2>1, OutsideStep DEF JobEnds
<1> QED
  BY <1>1, <1>2, <1>3, <1>4 DEF Next

\* The invariant holds in every reachable state.
THEOREM Invariance == Spec => []IndInv
<1> QED
  BY IndInvInit, IndInvNext, PTL DEF Spec

\* From the first setup on there is an administrator who can sign in, whatever
\* the administrators of any number of workers do to each other.
THEOREM AnAdminRemains == Spec => []AdminRemains
<1>1. IndInv => AdminRemains
  BY DEF IndInv
<1> QED
  BY <1>1, Invariance, PTL

\* update_user and delete_user are decided for an actor who is an active
\* administrator and whom no other of them has touched since it was read.
THEOREM ActorsAreAuthorised == Spec => []ActorAuthorised
<1>1. IndInv => ActorAuthorised
  BY DEF IndInv, RequestInv, ActorHeld, ActorAuthorised
<1> QED
  BY <1>1, Invariance, PTL

\* Once anybody has an account, only a request that was let in as an
\* administrator's makes an administrator.
THEOREM OnlyAdminsMakeAdmins == Spec => AdminsMakeAdmins
<1> DEFINE ByAdmin == \E r \in Request : pc[r] \in {"admin", "decided"} /\ pc'[r] = "idle"
           Made == Present # {} =>
                     \A u \in User : u \notin ActiveAdmins /\ u \in ActiveAdmins' => ByAdmin
<1>1. ASSUME IndInv, [Next]_vars PROVE Made
  <2> USE <1>1
  <2> SUFFICES ASSUME Present # {}, NEW u \in User, u \notin ActiveAdmins, u \in ActiveAdmins',
                      ~ByAdmin
               PROVE  FALSE
    OBVIOUS
  <2>1. account' # account
    BY DEF ActiveAdmins, Present
  <2>2. CASE \E r \in Request : Handler(r)
    <3>1. PICK r \in Request : Handler(r)
      BY <2>2
    <3>2. CASE SetupCommit(r)
      <4>1. setupKey
        BY DEF IndInv, SetupIsMarked
      <4> QED
        BY <2>1, <3>2, <4>1 DEF SetupCommit, SetupKeyFree
    <3>3. CASE RegisterCommit(r)
      <4>1. PICK v \in User : Inserted(v, "user")
        BY <3>3 DEF RegisterCommit
      <4>2. account'[v].role = "user" /\ \A w \in User : w # v => account'[w] = account[w]
        <5>1. "user" \in Role
          BY DEF Role
        <5>2. /\ account'[v] = [state |-> "present", role |-> "user", active |-> TRUE, ver |-> 0]
              /\ \A w \in User : w # v => account'[w] = account[w]
          BY <4>1, <5>1, InsertedType DEF IndInv
        <5> QED
          BY <5>2
      <4> QED
        BY <4>2 DEF ActiveAdmins, Present
    <3>4. CASE CreateUser(r)
      <4>1. pc[r] = "admin" /\ pc'[r] = "idle"
        BY <3>4 DEF CreateUser, Done, IndInv, TypeOK
      <4> QED
        BY <4>1
    <3>5. CASE UpdateCommit(r) \/ DeleteCommit(r)
      <4>1. pc[r] = "decided" /\ pc'[r] = "idle"
        BY <3>5 DEF UpdateCommit, DeleteCommit, Commit, IndInv, TypeOK
      <4> QED
        BY <4>1
    <3> QED
      BY <2>1, <3>1, <3>2, <3>3, <3>4, <3>5 DEF Handler, SetupCount, RegisterCheck, Arrive,
         AdminRequired, ReadActor, LockRoster, Recheck, Decide, UploadRead, UploadCommit, Fail
  <2>3. CASE \E v \in User : RotateSession(v)
    <3>1. PICK v \in User : RotateSession(v)
      BY <2>3
    <3>2. account'[u].state = account[u].state /\ account'[u].role = account[u].role
          /\ account'[u].active = account[u].active
      BY <3>1 DEF RotateSession, IndInv, TypeOK, Account
    <3> QED
      BY <3>2 DEF ActiveAdmins, Present
  <2>4. CASE \E j \in Job : JobEnds(j)
    BY <2>1, <2>4 DEF JobEnds
  <2> QED
    BY <2>1, <2>2, <2>3, <2>4 DEF Next, vars
<1>2. IndInv /\ [Next]_vars => [Made]_vars
  BY <1>1
<1> QED
  BY <1>2, Invariance, PTL DEF Spec, AdminsMakeAdmins
=============================================================================
