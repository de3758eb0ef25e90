---------------------------- MODULE LoginLockout ----------------------------
(***************************************************************************)
(* Password sign-ins to one account: the failure counter and the lock in   *)
(* its row, the attempts per client address in the memory of a worker      *)
(* process, and requests that check a password slowly and in parallel.     *)
(*                                                                         *)
(* A request takes its steps one SQL statement, or one locked use of the   *)
(* limiter, at a time; hashing the password is the time between two steps. *)
(* The clock ticks whenever it likes.                                      *)
(***************************************************************************)
EXTENDS Integers, Sequences, FiniteSets

CONSTANTS Request,       \* sign-in requests that may be in progress at a time
          Address,       \* client addresses
          Nowhere,       \* no address
          FailureLimit,  \* LOGIN_FAILURE_LIMIT
          RateLimit,     \* LOGIN_RATE_LIMIT
          LockTime,      \* LOGIN_LOCK_MINUTES, of the lock and of the limiter
          MaxTime,       \* bound on the clock
          MaxChanges,    \* bound on what administrators do to the account
          MaxFaults     \* bound on database errors and crashes of the process

ASSUME AddressAssumption == Nowhere \notin Address
ASSUME LimitAssumption   == /\ FailureLimit \in Nat \ {0} /\ RateLimit \in Nat \ {0}
                            /\ LockTime \in Nat \ {0}
ASSUME BoundAssumption   == MaxTime \in Nat \ {0} /\ MaxChanges \in Nat /\ MaxFaults \in Nat

VARIABLES
  now,       \* the clock
  count,     \* users.failed_login_count
  locked,    \* users.locked_until; 0 is NULL
  version,   \* users.token_version and password_hash
  active,    \* users.active
  attempts,  \* AttemptLimiter.attempts: address |-> time |-> how many
  pc,        \* where a request is
  from,      \* its address
  marker,    \* the time of the attempt it reserved there
  seen,      \* the row it read
  right,     \* its password is that of the row it read
  changes, faults,  \* how many there were
  guesses,   \* history: times of reserved guesses since the counter was last reset
  failed     \* history: how many of them failed

row      == <<count, locked, version, active>>
request  == <<pc, from, marker, seen, right>>
vars     == <<now, row, attempts, request, changes, faults, guesses, failed>>

NoRow == [locked |-> 0, version |-> 0]

TypeOK ==
  /\ now \in 1..MaxTime
  /\ count \in 0..FailureLimit
  /\ locked \in 0..(MaxTime + LockTime)
  /\ version \in 0..MaxChanges /\ active \in BOOLEAN
  /\ attempts \in [Address -> [1..MaxTime -> Nat]]
  /\ pc \in [Request -> {"idle", "captcha", "read", "reserve", "verify", "release"}]
  /\ from \in [Request -> Address \cup {Nowhere}]
  /\ marker \in [Request -> 0..MaxTime]
  /\ seen \in [Request -> [locked : 0..(MaxTime + LockTime), version : 0..MaxChanges]]
  /\ right \in [Request -> BOOLEAN]
  /\ changes \in 0..MaxChanges /\ faults \in 0..MaxFaults
  /\ guesses \in Seq(1..MaxTime)
  /\ failed \in [Address -> [1..MaxTime -> Nat]]

Each(v) == [r \in Request |-> v]
NoAttempts == [a \in Address |-> [t \in 1..MaxTime |-> 0]]

Init ==
  /\ now = 1
  /\ count = 0 /\ locked = 0 /\ version = 0 /\ active = TRUE
  /\ attempts = NoAttempts /\ failed = NoAttempts
  /\ pc = Each("idle") /\ from = Each(Nowhere) /\ marker = Each(0)
  /\ seen = Each(NoRow) /\ right = Each(FALSE)
  /\ changes = 0 /\ faults = 0
  /\ guesses = <<>>

-----------------------------------------------------------------------------
(* The limiter of client addresses. *)

\* What a count of attempts has in the window that begins at t: each attempt is its
\* time and its number among those of that time.
InWindow(c, t) == UNION {{x} \X (1..c[x]) : x \in {y \in 1..MaxTime : t <= y /\ y < t + LockTime}}

\* _recent: the attempts of an address that still count.  It drops the others whenever
\* it is called; here they stay, and nobody looks at them again.
Recent(a) == InWindow(attempts[a], now - LockTime + 1)

Limited(a) == Cardinality(Recent(a)) >= RateLimit

\* Mutant: only limited(), before the captcha, looks at the limit.
NeverFull(a) == FALSE

\* reserve looks again, in the step that records the attempt.
Full(a) == Limited(a)

Finish(r) ==
  /\ pc' = [pc EXCEPT ![r] = "idle"]
  /\ from' = [from EXCEPT ![r] = Nowhere]
  /\ marker' = [marker EXCEPT ![r] = 0]
  /\ seen' = [seen EXCEPT ![r] = NoRow]
  /\ right' = [right EXCEPT ![r] = FALSE]

\* "Invalid username or password"
Refuse(r) ==
  /\ Finish(r)
  /\ failed' = [failed EXCEPT ![from[r]][marker[r]] = @ + 1]

Arrive(r, a) ==
  /\ pc[r] = "idle"
  /\ ~Limited(a)
  /\ pc' = [pc EXCEPT ![r] = "captcha"]
  /\ from' = [from EXCEPT ![r] = a]
  /\ UNCHANGED <<now, row, attempts, marker, seen, right, changes, faults, guesses, failed>>

\* The captcha service has answered.
ReserveAddress(r) ==
  /\ pc[r] = "captcha"
  /\ IF Full(from[r])
       THEN Finish(r) /\ UNCHANGED attempts
       ELSE /\ attempts' = [attempts EXCEPT ![from[r]][now] = @ + 1]
            /\ pc' = [pc EXCEPT ![r] = "read"]
            /\ marker' = [marker EXCEPT ![r] = now]
            /\ UNCHANGED <<from, seen, right>>
  /\ UNCHANGED <<now, row, changes, faults, guesses, failed>>

\* A successful login does not count; any attempt of the same moment will do.
ReleaseAddress(r) ==
  /\ pc[r] = "release"
  /\ attempts' = [attempts EXCEPT ![from[r]][marker[r]] = IF @ > 0 THEN @ - 1 ELSE @]
  /\ Finish(r)
  /\ UNCHANGED <<now, row, changes, faults, guesses, failed>>

-----------------------------------------------------------------------------
(* The account. *)

\* The row is read: nothing to check when there is none of that name, when it
\* is inactive or locked.
ReadRow(r) ==
  /\ pc[r] = "read"
  /\ \/ /\ active /\ locked <= now
        /\ pc' = [pc EXCEPT ![r] = "reserve"]
        /\ seen' = [seen EXCEPT ![r] = [locked |-> locked, version |-> version]]
        /\ \E known \in BOOLEAN : right' = [right EXCEPT ![r] = known]
        /\ UNCHANGED <<from, marker, failed>>
     \/ Refuse(r)
  /\ UNCHANGED <<now, row, attempts, changes, faults, guesses>>

\* Mutants: the lock is not looked at again, nor is the counter.
LocksIgnored(r) == TRUE
NoCounter       == TRUE

\* observed_lock_condition
Observed(r) == locked = 0 \/ locked = seen[r].locked

BelowLimit == count < FailureLimit

\* reserve_account_login_attempt
ReserveGuess(r) ==
  /\ pc[r] = "reserve"
  /\ IF active /\ BelowLimit /\ Observed(r)
       THEN /\ count' = count + 1
            /\ guesses' = Append(guesses, now)
            /\ pc' = [pc EXCEPT ![r] = "verify"]
            /\ UNCHANGED <<from, marker, seen, right, failed>>
       ELSE Refuse(r) /\ UNCHANGED <<count, guesses>>
  /\ UNCHANGED <<now, locked, version, active, attempts, changes, faults>>

\* lock_exhausted_account, after a wrong password
Wrong(r) ==
  /\ pc[r] = "verify" /\ ~right[r]
  /\ IF count >= FailureLimit
       THEN locked' = now + LockTime /\ count' = 0
       ELSE UNCHANGED <<locked, count>>
  /\ Refuse(r)
  /\ UNCHANGED <<now, version, active, attempts, changes, faults, guesses>>

\* Mutant: the lock is cleared whatever it is.
UnchangedSince(r) == active /\ version = seen[r].version

StillAsSeen(r) == active /\ version = seen[r].version /\ Observed(r)

\* The right password resets the counter if the row is as it was read.
Right(r) ==
  /\ pc[r] = "verify" /\ right[r]
  /\ IF StillAsSeen(r)
       THEN /\ count' = 0 /\ locked' = 0 /\ guesses' = <<>>
            /\ pc' = [pc EXCEPT ![r] = "release"]
            /\ UNCHANGED <<from, marker, seen, right, failed>>
       ELSE Refuse(r) /\ UNCHANGED <<count, locked, guesses>>
  /\ UNCHANGED <<now, version, active, attempts, changes, faults>>

-----------------------------------------------------------------------------
(* Administrators, faults and time. *)

Unlock ==
  /\ changes < MaxChanges /\ changes' = changes + 1
  /\ count' = 0 /\ locked' = 0 /\ guesses' = <<>>
  /\ UNCHANGED <<now, version, active, attempts, request, faults, failed>>

\* A new password, role or activity.
ChangeAccount ==
  /\ changes < MaxChanges /\ changes' = changes + 1
  /\ version' = version + 1
  /\ active' \in BOOLEAN
  /\ UNCHANGED <<now, count, locked, attempts, request, faults, guesses, failed>>

\* The captcha is refused, or its service cannot be reached.
CaptchaFails(r) ==
  /\ pc[r] = "captcha"
  /\ Finish(r)
  /\ UNCHANGED <<now, row, attempts, changes, faults, guesses, failed>>

\* A statement fails: the request ends and what it has reserved stays.
Drop(r) ==
  /\ pc[r] \in {"read", "reserve", "verify"}
  /\ faults < MaxFaults /\ faults' = faults + 1
  /\ Finish(r)
  /\ UNCHANGED <<now, row, attempts, changes, guesses, failed>>

\* The process dies with its requests and its limiter.
Crash ==
  /\ faults < MaxFaults /\ faults' = faults + 1
  /\ pc' = Each("idle") /\ from' = Each(Nowhere) /\ marker' = Each(0)
  /\ seen' = Each(NoRow) /\ right' = Each(FALSE)
  /\ attempts' = NoAttempts /\ failed' = NoAttempts
  /\ UNCHANGED <<now, row, changes, guesses>>

Tick ==
  /\ now < MaxTime /\ now' = now + 1
  /\ UNCHANGED <<row, attempts, request, changes, faults, guesses, failed>>

Step(r) == \/ \E a \in Address : Arrive(r, a)
           \/ CaptchaFails(r) \/ ReserveAddress(r) \/ ReadRow(r) \/ ReserveGuess(r)
           \/ Wrong(r) \/ Right(r) \/ ReleaseAddress(r)

Next == (\E r \in Request : Step(r) \/ Drop(r)) \/ Unlock \/ ChangeAccount \/ Crash \/ Tick

Spec == Init /\ [][Next]_vars

-----------------------------------------------------------------------------
(* Properties *)

\* "at most LOGIN_FAILURE_LIMIT guesses can be evaluated per lock period no
\* matter how many requests run in parallel" (reserve_account_login_attempt):
\* unless a login succeeds or an administrator unlocks the account, a guess and the
\* LOGIN_FAILURE_LIMIT-th after it are a lock's length apart.
AccountBounded ==
  \A i \in 1..(Len(guesses) - FailureLimit) : guesses[i] + LockTime <= guesses[i + FailureLimit]

\* Nor does an address fail more than LOGIN_RATE_LIMIT times in a window of the limiter,
\* wherever it begins and however many of its requests wait for the captcha service at
\* once (AttemptLimiter.reserve).
AddressBounded ==
  \A a \in Address, t \in 1..MaxTime : Cardinality(InWindow(failed[a], t)) <= RateLimit

GuessesBounded == TypeOK /\ AccountBounded /\ AddressBounded

\* A lock that still runs is only lifted by an administrator: a success that
\* was being verified when the lock was set does not clear it.
LockKept ==
  [][locked > now /\ locked' # locked => locked' > locked \/ changes' # changes]_vars

\* lock_exhausted_account: "Lock an account whose reserved attempts reached the
\* limit": when no password is being verified the counter is below the limit,
\* or no sign-in could be tried and no lock would ever end.
ExhaustedIsLocked == (\A r \in Request : pc[r] # "verify") => count < FailureLimit
=============================================================================
