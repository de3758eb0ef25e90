------------------------------ MODULE JobQuota ------------------------------
(***************************************************************************)
(* consume_job_quota: how many translation jobs an account and the whole   *)
(* panel may submit in a configurable window and in calendar periods.      *)
(* Uploads and settings edits of all web workers meet in two tables, the   *)
(* limits (settings) and the counters (rate_limit_buckets), and are        *)
(* serialized by a lock on one row of the first.                           *)
(*                                                                         *)
(* Time is a clock that ticks while anybody waits.  Start is the calendar: *)
(* Start[p][t] is when the period p that holds time t began.  Periods may  *)
(* differ in length and need not nest, as weeks and months do not; time 0  *)
(* is some moment long ago at which all of them began.                     *)
(***************************************************************************)
EXTENDS Integers

CONSTANTS User,       \* accounts
          Panel,      \* the scope that covers all of them
          Request,    \* uploads that may be in progress at a time
          Nobody,     \* holder of the lock while it is free
          Period,     \* calendar periods
          Start,      \* the calendar
          Config,     \* contents of the settings that RATE_LIMIT_KEYS name
          MaxAmount,  \* files of an upload
          MaxTime,    \* bound on the clock
          MaxUploads, \* bound on the uploads accepted in one behaviour
          MaxClears   \* bound on the changes of the window settings

Role  == {"user", "admin"}
Kind  == Period \cup {"window"}
Scope == User \cup {Panel}

\* A setting has a window length and, for each role and for the panel, a limit
\* per kind of period; 0 is unlimited.
ASSUME ConfigAssumption == \A c \in Config :
                             /\ c.window \in Nat \ {0}
                             /\ c.limit \in [Role \cup {"panel"} -> [Kind -> Nat]]
ASSUME ScopeAssumption  == Panel \notin User /\ "window" \notin Period /\ Nobody \notin Request
ASSUME BoundAssumption  == MaxAmount \in Nat \ {0} /\ MaxTime \in Nat
                           /\ MaxUploads \in Nat /\ MaxClears \in Nat

\* A period begins before all of its times and is the same for all of them, and
\* a later time is not in an earlier period.
ASSUME CalendarAssumption ==
  /\ Start \in [Period -> [0..MaxTime -> 0..MaxTime]]
  /\ \A p \in Period, t \in 0..MaxTime :
       /\ Start[p][t] <= t
       /\ Start[p][Start[p][t]] = Start[p][t]
       /\ \A u \in t..MaxTime : Start[p][t] <= Start[p][u]

VARIABLES
  now,      \* the clock
  config,   \* settings: the limits in force
  rows,     \* rate_limit_buckets: scope and kind |-> start and use
  role,     \* users.role
  lock,     \* the request whose transaction holds the panel_job_limit row
  step,     \* where an upload is
  who,      \* its account; Panel while there is none
  as,       \* the role of the account when the upload began
  amount,   \* number of its files
  stamp,    \* the time it read after it got the lock
  seen,     \* the rows it read
  accepted, \* history: files accepted for a scope and kind; for a calendar period by
            \* the start of the period, for "window" from each time on and since the
            \* window counters were last cleared
  uploads,  \* history: the uploads accepted
  clears    \* history: how often the window counters were cleared

tables   == <<config, rows, role>>
requests == <<step, who, as, amount, stamp, seen>>
history  == <<accepted, uploads, clears>>
vars     == <<now, tables, lock, requests, history>>

Empty == [k \in {} |-> [start |-> 0, used |-> 0]]

Init == /\ now = 0
        /\ config \in Config
        /\ rows = Empty
        /\ role \in [User -> Role]
        /\ lock = Nobody
        /\ step = [r \in Request |-> "idle"]
        /\ who = [r \in Request |-> Panel]
        /\ as = [r \in Request |-> "user"]
        /\ amount = [r \in Request |-> 0]
        /\ stamp = [r \in Request |-> 0]
        /\ seen = [r \in Request |-> Empty]
        /\ accepted = [c \in Scope \X Kind |-> [t \in 0..MaxTime |-> 0]]
        /\ uploads = 0 /\ clears = 0

Tick == /\ now < MaxTime
        /\ now' = now + 1
        /\ UNCHANGED <<tables, lock, requests, history>>

(***************************************************************************)
(* POST /api/jobs                                                          *)
(***************************************************************************)
\* The account row is read when the request begins.
Upload(r, u, n) ==
  /\ step[r] = "idle"
  /\ uploads < MaxUploads
  /\ step' = [step EXCEPT ![r] = "lock"]
  /\ who' = [who EXCEPT ![r] = u]
  /\ as' = [as EXCEPT ![r] = role[u]]
  /\ amount' = [amount EXCEPT ![r] = n]
  /\ UNCHANGED <<now, tables, lock, stamp, seen, history>>

\* Mutant of Lock: the counters are read without the row lock.
LockNothing(r) == /\ step[r] = "lock"
                  /\ lock' = lock
                  /\ step' = [step EXCEPT ![r] = "read"]
                  /\ UNCHANGED <<now, tables, who, as, amount, stamp, seen, history>>

\* The first statement waits for the row lock.
Lock(r) == /\ step[r] = "lock"
           /\ lock = Nobody
           /\ lock' = r
           /\ step' = [step EXCEPT ![r] = "read"]
           /\ UNCHANGED <<now, tables, who, as, amount, stamp, seen, history>>

\* The clock and the counters are read after that.
Read(r) == /\ step[r] = "read"
           /\ stamp' = [stamp EXCEPT ![r] = now]
           /\ seen' = [seen EXCEPT ![r] = rows]
           /\ step' = [step EXCEPT ![r] = "decide"]
           /\ UNCHANGED <<now, tables, lock, who, as, amount, history>>

\* Where the calendar period that holds time t began.
PeriodStart(p, t) == Start[p][t]

\* bucket() for the window, and its calendar counterpart: where the counter that
\* counts at time t started and what it holds.  An expired or missing one is new.
Bucket(table, s, k, t) ==
  LET known == <<s, k>> \in DOMAIN table
      row   == table[<<s, k>>]
  IN  IF k = "window"
        THEN IF known /\ t < row.start + config.window THEN row ELSE [start |-> t, used |-> 0]
        ELSE IF known /\ row.start = PeriodStart(k, t) THEN row
                                                       ELSE [start |-> PeriodStart(k, t), used |-> 0]

Limit(s, k, a) == config.limit[IF s = Panel THEN "panel" ELSE a][k]

\* The checks of one upload, and the counters it would write.
Checks(r) == {who[r], Panel} \X Kind

\* Mutant of Exceeded: the files of the upload itself are forgotten.
ExceededBefore(r) == \E c \in Checks(r) :
                       LET limit == Limit(c[1], c[2], as[r])
                       IN  limit > 0 /\ Bucket(seen[r], c[1], c[2], stamp[r]).used >= limit

Exceeded(r) == \E c \in Checks(r) :
                 LET limit == Limit(c[1], c[2], as[r])
                 IN  limit > 0 /\ Bucket(seen[r], c[1], c[2], stamp[r]).used + amount[r] > limit

Consumed(r) == [c \in DOMAIN rows \cup Checks(r) |->
                  IF c \in Checks(r)
                    THEN LET b == Bucket(seen[r], c[1], c[2], stamp[r])
                         IN  [start |-> b.start, used |-> b.used + amount[r]]
                    ELSE rows[c]]

\* What the upload adds to the history.
Counts(k, at, t) == IF k = "window" THEN t <= at ELSE t = PeriodStart(k, at)
Counted(r) == [c \in Scope \X Kind |-> [t \in 0..MaxTime |->
                 accepted[c][t]
                   + IF c \in Checks(r) /\ Counts(c[2], stamp[r], t) THEN amount[r] ELSE 0]]

\* Mutant of Release: the next request of the thread finds the old amount.
ReleaseKeepsAmount(r) == /\ lock' = Nobody
                         /\ step' = [step EXCEPT ![r] = "idle"]
                         /\ who' = [who EXCEPT ![r] = Panel]
                         /\ as' = [as EXCEPT ![r] = "user"]
                         /\ stamp' = [stamp EXCEPT ![r] = 0]
                         /\ seen' = [seen EXCEPT ![r] = Empty]
                         /\ UNCHANGED <<now, config, role, amount, clears>>

\* The transaction ends: the lock and the locals of the request are gone.
Release(r) == /\ lock' = Nobody
              /\ step' = [step EXCEPT ![r] = "idle"]
              /\ who' = [who EXCEPT ![r] = Panel]
              /\ as' = [as EXCEPT ![r] = "user"]
              /\ amount' = [amount EXCEPT ![r] = 0]
              /\ stamp' = [stamp EXCEPT ![r] = 0]
              /\ seen' = [seen EXCEPT ![r] = Empty]
              /\ UNCHANGED <<now, config, role, clears>>

\* Every limit allows the whole upload: counters and jobs commit together.
Consume(r) ==
  /\ step[r] = "decide"
  /\ ~Exceeded(r)
  /\ rows' = Consumed(r)
  /\ accepted' = Counted(r)
  /\ uploads' = uploads + 1
  /\ Release(r)

\* Some limit does not: nothing is consumed.
Refuse(r) ==
  /\ step[r] = "decide"
  /\ Exceeded(r)
  /\ Release(r)
  /\ UNCHANGED <<rows, accepted, uploads>>

\* A job insert of the same transaction raises: the counters roll back with it.
RollBack(r) ==
  /\ step[r] = "decide"
  /\ ~Exceeded(r)
  /\ Release(r)
  /\ UNCHANGED <<rows, accepted, uploads>>

(***************************************************************************)
(* PUT /api/settings, PATCH /api/users                                     *)
(***************************************************************************)
WindowPart(c) == <<c.window, [a \in DOMAIN c.limit |-> c.limit[a]["window"]]>>

\* lock_settings takes the same row; a change of the window settings clears the
\* window counters and leaves calendar usage alone.
SaveSettings(c) ==
  /\ lock = Nobody
  /\ c # config
  /\ config' = c
  /\ IF WindowPart(c) # WindowPart(config)
       THEN /\ clears < MaxClears
            /\ rows' = [k \in {x \in DOMAIN rows : x[2] # "window"} |-> rows[k]]
            /\ accepted' = [k \in Scope \X Kind |->
                           IF k[2] = "window" THEN [t \in 0..MaxTime |-> 0] ELSE accepted[k]]
            /\ clears' = clears + 1
       ELSE UNCHANGED <<rows, accepted, clears>>
  /\ UNCHANGED <<now, role, lock, requests, uploads>>

ChangeRole(u) ==
  /\ role' = [role EXCEPT ![u] = IF @ = "user" THEN "admin" ELSE "user"]
  /\ UNCHANGED <<now, config, rows, lock, requests, history>>

(***************************************************************************)
(* Specification                                                           *)
(***************************************************************************)
Step(r) == Lock(r) \/ Read(r) \/ Consume(r) \/ Refuse(r) \/ RollBack(r)

Next == \/ Tick
        \/ \E r \in Request : Step(r) \/ \E u \in User, n \in 1..MaxAmount : Upload(r, u, n)
        \/ \E c \in Config : SaveSettings(c)
        \/ \E u \in User : ChangeRole(u)

Spec == Init /\ [][Next]_vars

(***************************************************************************)
(* Properties                                                              *)
(***************************************************************************)
\* Types of the variables; the lock is held exactly while a request needs it.
TypeOK ==
  /\ now \in 0..MaxTime
  /\ config \in Config
  /\ DOMAIN rows \subseteq Scope \X Kind
  /\ \A c \in DOMAIN rows : rows[c].start \in 0..MaxTime /\ rows[c].used \in Nat \ {0}
  /\ role \in [User -> Role]
  /\ lock \in Request \cup {Nobody}
  /\ step \in [Request -> {"idle", "lock", "read", "decide"}]
  /\ \A r \in Request : step[r] \in {"read", "decide"} => lock = r
  /\ who \in [Request -> Scope] /\ as \in [Request -> Role]
  /\ amount \in [Request -> 0..MaxAmount]
  /\ \A r \in Request : amount[r] = 0 <=> step[r] = "idle"
  /\ stamp \in [Request -> 0..MaxTime] /\ DOMAIN seen = Request
  /\ accepted \in [Scope \X Kind -> [0..MaxTime -> Nat]]
  /\ uploads \in Nat /\ clears \in Nat

\* The counters say what was accepted, no more and no less: each holds what was
\* accepted in its calendar period, or in its window since the last change of the
\* window settings, nothing was accepted after its end, and where there is no
\* counter nothing was accepted.  Rejected and rolled-back uploads, settings edits,
\* role changes and other workers do not disturb them.
Over(c, start, t) == IF c[2] = "window" THEN t >= start + config.window ELSE t > start

Exact(c) ==
  IF c \in DOMAIN rows
    THEN /\ rows[c].used = accepted[c][rows[c].start]
         /\ \A t \in 0..MaxTime : Over(c, rows[c].start, t) => accepted[c][t] = 0
    ELSE \A t \in 0..MaxTime : accepted[c][t] = 0

UsageExact == TypeOK /\ \A c \in Scope \X Kind : Exact(c)

\* No upload is accepted that takes a window or a calendar period over the limit in
\* force: everything accepted in it, under whatever settings and role, counts.
LimitsKept ==
  [][ \A r \in Request :
        step[r] = "decide" /\ step'[r] # "decide" /\ uploads' # uploads =>
          \A s \in {who[r], Panel}, k \in Kind :
            LET limit == Limit(s, k, as[r])
                from  == IF k = "window" THEN rows'[<<s, k>>].start ELSE PeriodStart(k, stamp[r])
            IN  limit > 0 => accepted'[<<s, k>>][from] <= limit
    ]_vars
=============================================================================
