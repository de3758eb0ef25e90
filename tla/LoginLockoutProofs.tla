------------------------- MODULE LoginLockoutProofs -------------------------
(***************************************************************************)
(* The sign-in throttle for any number of requests, addresses and guesses  *)
(* and for every limit: the guesses of a lock period and the failures of   *)
(* an address in a window stay limited however many requests run side by   *)
(* side, and no success lifts a lock that was set meanwhile.               *)
(***************************************************************************)
EXTENDS LoginLockout, FiniteSetTheorems, TLAPS

-----------------------------------------------------------------------------
(* The inductive invariant *)

\* A lock lasts no longer than its length, and the rows that requests have read were
\* not locked when they read them.
LocksSeen ==
  /\ locked <= now + LockTime
  /\ \A r \in Request : seen[r].locked <= now

\* The counter counts the last guesses; those before them lie a lock's length behind
\* now, or behind the end of the lock that they have caused.
GuessesCounted ==
  /\ count <= Len(guesses)
  /\ \A i \in 1..Len(guesses) : guesses[i] > 0 /\ guesses[i] <= now
  /\ \A i \in 1..(Len(guesses) - count) :
       guesses[i] + LockTime <= now \/ guesses[i] + LockTime <= locked

AccountInv == version <= changes /\ LocksSeen /\ GuessesCounted /\ AccountBounded

\* Where a request is, and where it comes from.
Placed(r) ==
  /\ IF pc[r] = "idle" THEN from[r] = Nowhere ELSE from[r] \in Address
  /\ IF pc[r] \in {"idle", "captcha"} THEN marker[r] = 0 ELSE marker[r] \in 1..now

\* Requests whose attempt of that moment neither failed nor was released: the limiter
\* counts them and every failure, and no attempt of the future.
Pending(a, t) == {r \in Request : from[r] = a /\ marker[r] = t}

Counted(a, t) ==
  /\ IsFiniteSet(Pending(a, t))
  /\ failed[a][t] + Cardinality(Pending(a, t)) <= attempts[a][t]
  /\ t > now => attempts[a][t] = 0

\* No window has too many attempts, from the first that reaches the first moment on.
Limiting(a, t) ==
  /\ IsFiniteSet(InWindow(attempts[a], t))
  /\ Cardinality(InWindow(attempts[a], t)) <= RateLimit

Starts == (1 - LockTime)..MaxTime

AddressInv ==
  /\ \A r \in Request : Placed(r)
  /\ \A a \in Address, t \in 1..MaxTime : Counted(a, t)
  /\ \A a \in Address, t \in Starts : Limiting(a, t)

IndInv == TypeOK /\ AccountInv /\ AddressInv

-----------------------------------------------------------------------------
(* Lemmas *)

\* The constants as numbers.
LEMMA Limits ==
  /\ FailureLimit \in Nat /\ FailureLimit > 0
  /\ RateLimit \in Nat /\ RateLimit > 0
  /\ LockTime \in Nat /\ LockTime > 0
  /\ MaxTime \in Nat /\ MaxTime > 0 /\ MaxChanges \in Nat /\ MaxFaults \in Nat
BY LimitAssumption, BoundAssumption

\* What the account's part rests on, without the bounds of the instance.
LEMMA AccountTyped ==
  ASSUME TypeOK
  PROVE  /\ now \in Nat /\ now > 0 /\ now <= MaxTime
         /\ count \in 0..FailureLimit /\ locked \in Nat
         /\ version \in Nat /\ changes \in Nat /\ guesses \in Seq(Nat)
         /\ \A i \in 1..Len(guesses) : guesses[i] \in Nat
         /\ seen \in [Request -> [locked : Nat, version : Nat]]
<1>1. /\ now \in 1..MaxTime /\ count \in 0..FailureLimit /\ locked \in 0..(MaxTime + LockTime)
      /\ version \in 0..MaxChanges /\ changes \in 0..MaxChanges /\ guesses \in Seq(1..MaxTime)
      /\ seen \in [Request -> [locked : 0..(MaxTime + LockTime), version : 0..MaxChanges]]
  BY DEF TypeOK
<1>2. /\ now \in Nat /\ now > 0 /\ now <= MaxTime /\ locked \in Nat
      /\ version \in Nat /\ changes \in Nat
  BY <1>1, Limits
<1>3. guesses \in Seq(Nat) /\ \A i \in 1..Len(guesses) : guesses[i] \in Nat
  BY <1>1, Limits
<1>4. 0..(MaxTime + LockTime) \subseteq Nat /\ 0..MaxChanges \subseteq Nat
  BY Limits
<1>5. seen \in [Request -> [locked : Nat, version : Nat]]
  BY <1>1, <1>4
<1> QED
  BY <1>1, <1>2, <1>3, <1>5

\* The account's part of the state, and what a step can do to it.
account == <<count, locked, guesses>>

\* A request ends and forgets the row that it has read, or keeps it.
Forgets == \E r \in Request : seen' = [seen EXCEPT ![r] = NoRow]
Reads   == \E r \in Request : /\ active /\ locked <= now
                              /\ seen' = [seen EXCEPT ![r] = [locked |-> locked, version |-> version]]
ForgetsAll == seen' = Each(NoRow)

LEMMA SeenSteps ==
  ASSUME Next
  PROVE  \/ UNCHANGED seen
         \/ Forgets \/ ForgetsAll
         \/ Reads /\ UNCHANGED <<now, account, version, changes>>
<1>1. ASSUME NEW r \in Request, Finish(r) \/ Refuse(r)
      PROVE  Forgets
  BY <1>1 DEF Finish, Refuse, Forgets
<1>2. ASSUME NEW r \in Request, Step(r) \/ Drop(r)
      PROVE  \/ UNCHANGED seen
             \/ Forgets
             \/ Reads /\ UNCHANGED <<now, account, version, changes>>
  <2>1. ASSUME ReadRow(r)
        PROVE  Forgets \/ (Reads /\ UNCHANGED <<now, account, version, changes>>)
    BY <1>1, <2>1 DEF ReadRow, Reads, row, account
  <2>2. ASSUME ~ReadRow(r)
        PROVE  UNCHANGED seen \/ Forgets
    BY <1>1, <1>2, <2>2 DEF Step, Arrive, CaptchaFails, ReserveAddress, ReserveGuess, Wrong, Right,
                            ReleaseAddress, Drop
  <2> QED
    BY <2>1, <2>2
<1> QED
  BY <1>2 DEF Next, Unlock, ChangeAccount, Crash, Tick, ForgetsAll, request

\* The account moves by a guess, by a lock, by a success, and by an administrator.
Guess(r) ==
  /\ BelowLimit /\ Observed(r)
  /\ count' = count + 1 /\ guesses' = Append(guesses, now) /\ UNCHANGED <<now, locked>>
Locks  == locked' = now + LockTime /\ count' = 0 /\ UNCHANGED <<now, guesses>>
Resets == count' = 0 /\ locked' = 0 /\ guesses' = <<>> /\ UNCHANGED now

LEMMA AccountSteps ==
  ASSUME Next
  PROVE  \/ UNCHANGED account /\ now' = now
         \/ UNCHANGED account /\ now < MaxTime /\ now' = now + 1
         \/ \E r \in Request : Guess(r) \/ (Resets /\ Observed(r))
         \/ Locks
         \/ Resets /\ changes' = changes + 1
<1>1. ASSUME NEW r \in Request, Step(r) \/ Drop(r)
      PROVE  \/ UNCHANGED account /\ now' = now
             \/ Guess(r) \/ (Resets /\ Observed(r))
             \/ Locks
  <2>1. ReserveGuess(r) => (UNCHANGED account /\ now' = now) \/ Guess(r)
    BY DEF ReserveGuess, Guess, account
  <2>2. Wrong(r) => (UNCHANGED account /\ now' = now) \/ Locks
    BY DEF Wrong, Locks, account
  <2>3. Right(r) => (UNCHANGED account /\ now' = now) \/ (Resets /\ Observed(r))
    BY DEF Right, StillAsSeen, Resets, account
  <2>4. \/ \E a \in Address : Arrive(r, a)
        \/ CaptchaFails(r) \/ ReserveAddress(r) \/ ReadRow(r) \/ ReleaseAddress(r) \/ Drop(r)
        => UNCHANGED account /\ now' = now
    BY DEF Arrive, CaptchaFails, ReserveAddress, ReadRow, ReleaseAddress, Drop, account, row
  <2> QED
    BY <1>1, <2>1, <2>2, <2>3, <2>4 DEF Step
<1>2. Unlock => Resets /\ changes' = changes + 1
  BY DEF Unlock, Resets
<1>3. ChangeAccount \/ Crash => UNCHANGED account /\ now' = now
  BY DEF ChangeAccount, Crash, account, row
<1>4. Tick => UNCHANGED account /\ now < MaxTime /\ now' = now + 1
  BY DEF Tick, account, row
<1> QED
  BY <1>1, <1>2, <1>3, <1>4 DEF Next

\* The rest of the row, and the counts of what administrators do and of faults.
LEMMA RowSteps ==
  ASSUME Next, TypeOK, version <= changes
  PROVE  /\ version' \in 0..MaxChanges /\ active' \in BOOLEAN
         /\ changes' \in 0..MaxChanges /\ faults' \in 0..MaxFaults
         /\ version' <= changes'
<1>1. /\ version \in 0..MaxChanges /\ active \in BOOLEAN
      /\ changes \in 0..MaxChanges /\ faults \in 0..MaxFaults
  BY DEF TypeOK
<1>2. ASSUME NEW r \in Request, Step(r)
      PROVE  UNCHANGED <<version, active, changes, faults>>
  BY <1>2 DEF Step, Arrive, CaptchaFails, ReserveAddress, ReadRow, ReserveGuess, Wrong, Right,
              ReleaseAddress, row
<1>3. (\E r \in Request : Drop(r)) \/ Crash =>
        /\ UNCHANGED <<version, active, changes>>
        /\ faults < MaxFaults /\ faults' = faults + 1
  BY DEF Drop, Crash, row
<1>4. Unlock => /\ UNCHANGED <<version, active, faults>>
                /\ changes < MaxChanges /\ changes' = changes + 1
  BY DEF Unlock
<1>5. ChangeAccount => /\ active' \in BOOLEAN /\ faults' = faults
                       /\ changes < MaxChanges /\ changes' = changes + 1
                       /\ version' = version + 1
  BY DEF ChangeAccount
<1>6. Tick => UNCHANGED <<version, active, changes, faults>>
  BY DEF Tick, row
<1> QED
  BY <1>1, <1>2, <1>3, <1>4, <1>5, <1>6, Limits DEF Next

-----------------------------------------------------------------------------
(* Locks and guesses *)

\* The types of the account.
LEMMA AccountTypesStep ==
  ASSUME TypeOK, version <= changes, Next
  PROVE  /\ now' \in 1..MaxTime /\ now' >= now
         /\ count' \in 0..FailureLimit /\ locked' \in 0..(MaxTime + LockTime)
         /\ guesses' \in Seq(1..MaxTime)
         /\ seen' \in [Request -> [locked : 0..(MaxTime + LockTime), version : 0..MaxChanges]]
<1>1. /\ now \in 1..MaxTime /\ count \in 0..FailureLimit /\ locked \in 0..(MaxTime + LockTime)
      /\ guesses \in Seq(1..MaxTime) /\ version \in 0..MaxChanges
      /\ seen \in [Request -> [locked : 0..(MaxTime + LockTime), version : 0..MaxChanges]]
  BY DEF TypeOK
<1>2. /\ now' \in 1..MaxTime /\ now' >= now
      /\ count' \in 0..FailureLimit /\ locked' \in 0..(MaxTime + LockTime)
      /\ guesses' \in Seq(1..MaxTime)
  <2>1. CASE UNCHANGED account /\ now' = now
    BY <1>1, <2>1, Limits DEF account
  <2>2. CASE UNCHANGED account /\ now < MaxTime /\ now' = now + 1
    BY <1>1, <2>2, Limits DEF account
  <2>3. CASE \E r \in Request : Guess(r)
    BY <1>1, <2>3, Limits DEF Guess, BelowLimit
  <2>4. CASE Resets
    BY <1>1, <2>4, Limits DEF Resets
  <2>5. CASE Locks
    BY <1>1, <2>5, Limits DEF Locks
  <2> QED
    BY <2>1, <2>2, <2>3, <2>4, <2>5, AccountSteps
<1>3. seen' \in [Request -> [locked : 0..(MaxTime + LockTime), version : 0..MaxChanges]]
  <2>1. NoRow \in [locked : 0..(MaxTime + LockTime), version : 0..MaxChanges]
    BY Limits DEF NoRow
  <2>2. [locked |-> locked, version |-> version] \in [locked : 0..(MaxTime + LockTime), version : 0..MaxChanges]
    BY <1>1
  <2> QED
    BY <1>1, <2>1, <2>2, SeenSteps DEF Forgets, ForgetsAll, Reads, Each
<1> QED
  BY <1>2, <1>3

\* The provers need this of numbers, not of the state.
LEMMA LaterStill ==
  ASSUME NEW x \in Nat, NEW y \in Nat, NEW z \in Nat, NEW length \in Nat,
         x <= y + length, y <= z
  PROVE  x <= z + length
OBVIOUS

\* Locks are no longer than they may be, and rows are read when none runs.
LEMMA LocksStep ==
  ASSUME TypeOK, version <= changes, LocksSeen, Next
  PROVE  LocksSeen'
<1>1. /\ now \in Nat /\ now > 0 /\ locked \in Nat /\ locked <= now + LockTime
      /\ seen \in [Request -> [locked : Nat, version : Nat]]
      /\ \A r \in Request : seen[r].locked \in Nat /\ seen[r].locked <= now
  BY AccountTyped DEF LocksSeen
<1>2. now' \in {now, now + 1} /\ locked' \in {locked, 0, now + LockTime}
  BY AccountSteps DEF account, Guess, Locks, Resets
<1>3. locked' <= now' + LockTime
  <2>1. LockTime \in Nat /\ now \in Nat /\ now' \in Nat /\ now' >= now
    BY <1>1, <1>2, Limits
  <2>2. locked' \in Nat /\ locked' <= now + LockTime
    BY <1>1, <1>2, <2>1
  <2> QED
    BY <2>1, <2>2, LaterStill
<1>4. ASSUME NEW r \in Request
      PROVE  seen'[r].locked \in {seen[r].locked, 0} \/ seen'[r].locked <= now
  <2>1. CASE Forgets
    BY <1>1, <2>1 DEF Forgets, NoRow
  <2>2. CASE Reads
    BY <1>1, <2>2 DEF Reads
  <2>3. CASE ForgetsAll
    BY <2>3 DEF ForgetsAll, Each, NoRow
  <2> QED
    BY <2>1, <2>2, <2>3, SeenSteps
<1>5. ASSUME NEW r \in Request
      PROVE  seen'[r].locked <= now'
  <2>1. seen'[r].locked \in Nat
    BY AccountTypesStep, Limits
  <2> QED
    BY <1>1, <1>2, <1>4, <2>1
<1> QED
  BY <1>3, <1>5 DEF LocksSeen

\* A guess is tried only when no lock runs.
LEMMA ObservedUnlocked ==
  ASSUME TypeOK, LocksSeen, NEW r \in Request, Observed(r)
  PROVE  locked <= now
<1>1. now \in Nat /\ locked \in Nat /\ seen[r].locked <= now
  BY AccountTyped DEF LocksSeen
<1> QED
  BY <1>1 DEF Observed

\* A guess is counted, and the FailureLimit-th before it is older than a lock.
LEMMA GuessStep ==
  ASSUME TypeOK, LocksSeen, GuessesCounted, AccountBounded, NEW r \in Request, Guess(r)
  PROVE  GuessesCounted' /\ AccountBounded'
<1> DEFINE n == Len(guesses)
<1>1. /\ now \in Nat /\ now > 0 /\ locked \in Nat /\ count \in Nat /\ count < FailureLimit
      /\ n \in Nat /\ count <= n /\ locked <= now
      /\ count' = count + 1 /\ now' = now /\ locked' = locked
  BY ObservedUnlocked, AccountTyped, Limits DEF Guess, BelowLimit, GuessesCounted
<1>2. /\ Len(guesses') = n + 1 /\ guesses'[n + 1] = now
      /\ \A i \in 1..n : guesses'[i] = guesses[i] /\ guesses[i] \in Nat
  BY <1>1, AccountTyped DEF Guess
<1>3. ASSUME NEW i \in 1..(n - count)
      PROVE  i \in 1..n /\ guesses[i] + LockTime <= now
  <2>1. i \in 1..n
    BY <1>1
  <2>2. guesses[i] + LockTime <= now \/ guesses[i] + LockTime <= locked
    BY DEF GuessesCounted
  <2>3. guesses[i] \in Nat
    BY <1>2, <2>1
  <2> QED
    BY <1>1, <2>1, <2>2, <2>3, Limits
<1>4. ASSUME NEW i \in 1..(n + 1), i # n + 1
      PROVE  i \in 1..n
  BY <1>1, <1>4
<1>5. \A i \in 1..(n + 1) : guesses'[i] > 0 /\ guesses'[i] <= now
  BY <1>1, <1>2, <1>4 DEF GuessesCounted
<1>6. (n + 1) - (count + 1) = n - count /\ count + 1 <= n + 1
  BY <1>1
<1>7. GuessesCounted'
  <2>1. \A i \in 1..(Len(guesses') - count') : guesses'[i] + LockTime <= now
    BY <1>1, <1>2, <1>3, <1>6
  <2> QED
    BY <1>1, <1>2, <1>5, <1>6, <2>1 DEF GuessesCounted
<1>8. ASSUME NEW i \in 1..(Len(guesses') - FailureLimit)
      PROVE  guesses'[i] + LockTime <= guesses'[i + FailureLimit]
  <2>1. i \in Nat /\ i >= 1 /\ i + FailureLimit <= n + 1 /\ FailureLimit > 0 /\ FailureLimit \in Nat
    BY <1>1, <1>2, Limits
  <2>2. i \in 1..n
    BY <1>1, <2>1
  <2>3. CASE i + FailureLimit = n + 1
    <3>1. i \in 1..(n - count)
      BY <1>1, <2>1, <2>3
    <3> QED
      BY <1>2, <1>3, <2>2, <2>3, <3>1
  <2>4. CASE i + FailureLimit # n + 1
    <3>1. i \in 1..(n - FailureLimit) /\ i + FailureLimit \in 1..n
      BY <1>1, <2>1, <2>4
    <3>2. guesses[i] + LockTime <= guesses[i + FailureLimit]
      BY <3>1 DEF AccountBounded
    <3> QED
      BY <1>2, <2>2, <3>1, <3>2
  <2> QED
    BY <2>3, <2>4
<1> QED
  BY <1>7, <1>8 DEF AccountBounded

\* Every other step leaves the guesses, or explains them by a lock, or forgets them.
LEMMA GuessesStep ==
  ASSUME TypeOK, LocksSeen, GuessesCounted, AccountBounded, Next
  PROVE  GuessesCounted' /\ AccountBounded'
<1>1. /\ now \in Nat /\ count \in Nat /\ locked \in Nat /\ Len(guesses) \in Nat
      /\ \A i \in 1..Len(guesses) : guesses[i] \in Nat
  BY AccountTyped, Limits
<1>2. CASE UNCHANGED account /\ now' \in {now, now + 1}
  <2>1. count' = count /\ locked' = locked /\ guesses' = guesses
    BY <1>2 DEF account
  <2>2. \A x \in Nat : x <= now => x <= now'
    BY <1>1, <1>2
  <2>3. \A i \in 1..(Len(guesses) - count) : i \in 1..Len(guesses)
    BY <1>1
  <2>4. \A i \in 1..Len(guesses) : guesses[i] + LockTime \in Nat
    BY <1>1, Limits
  <2> QED
    BY <1>1, <2>1, <2>2, <2>3, <2>4 DEF GuessesCounted, AccountBounded
<1>3. CASE Locks
  <2>1. count' = 0 /\ guesses' = guesses /\ now' = now /\ locked' = now + LockTime
    BY <1>3 DEF Locks
  <2>2. \A i \in 1..Len(guesses) : guesses[i] + LockTime <= now + LockTime
    BY <1>1, Limits DEF GuessesCounted
  <2>3. Len(guesses) - 0 = Len(guesses) /\ 0 <= Len(guesses)
    BY <1>1
  <2> QED
    BY <2>1, <2>2, <2>3 DEF GuessesCounted, AccountBounded
<1>4. CASE Resets
  <2>1. count' = 0 /\ guesses' = <<>> /\ Len(guesses') = 0
    BY <1>4 DEF Resets
  <2>2. 1..Len(guesses') = {} /\ 1..(Len(guesses') - count') = {}
        /\ 1..(Len(guesses') - FailureLimit) = {}
    BY <2>1, Limits
  <2> QED
    BY <2>1, <2>2 DEF GuessesCounted, AccountBounded
<1> QED
  BY <1>2, <1>3, <1>4, GuessStep, AccountSteps

-----------------------------------------------------------------------------
(* Attempts of addresses *)

\* What lies in a window.
LEMMA WindowElements ==
  ASSUME NEW c, NEW t \in Int
  PROVE  \A m : m \in InWindow(c, t) <=>
           \E x \in 1..MaxTime : t <= x /\ x < t + LockTime /\ m \in {x} \X (1..c[x])
BY DEF InWindow

LEMMA WindowSubset ==
  ASSUME NEW c \in [1..MaxTime -> Nat], NEW d \in [1..MaxTime -> Nat], NEW t \in Int,
         \A x \in 1..MaxTime : d[x] <= c[x]
  PROVE  InWindow(d, t) \in SUBSET InWindow(c, t)
<1>1. ASSUME NEW x \in 1..MaxTime
      PROVE  1..d[x] \subseteq 1..c[x]
  <2>1. d[x] \in Nat /\ c[x] \in Nat /\ d[x] <= c[x]
    OBVIOUS
  <2> QED
    BY <2>1
<1>2. ASSUME NEW x \in 1..MaxTime, NEW m \in {x} \X (1..d[x])
      PROVE  m \in {x} \X (1..c[x])
  BY <1>1, <1>2
<1> QED
  BY <1>2, WindowElements

\* One more attempt is one more element of the windows that it lies in.
LEMMA WindowAdd ==
  ASSUME NEW c \in [1..MaxTime -> Nat], NEW d \in [1..MaxTime -> Nat], NEW x \in 1..MaxTime, NEW t \in Int,
         d[x] = c[x] + 1, \A y \in 1..MaxTime : y # x => d[y] = c[y]
  PROVE  /\ t <= x /\ x < t + LockTime => InWindow(d, t) = InWindow(c, t) \cup {<<x, c[x] + 1>>}
         /\ ~(t <= x /\ x < t + LockTime) => InWindow(d, t) = InWindow(c, t)
<1>1. c[x] \in Nat
  OBVIOUS
<1>2. 1..(c[x] + 1) = (1..c[x]) \cup {c[x] + 1}
  BY <1>1
<1>3. {x} \X (1..d[x]) = ({x} \X (1..c[x])) \cup {<<x, c[x] + 1>>}
  BY <1>2
<1>4. ASSUME NEW m \in InWindow(d, t)
      PROVE  m \in InWindow(c, t) \/ (t <= x /\ x < t + LockTime /\ m = <<x, c[x] + 1>>)
  <2>1. PICK y \in 1..MaxTime : t <= y /\ y < t + LockTime /\ m \in {y} \X (1..d[y])
    BY <1>4, WindowElements
  <2>2. CASE y = x
    <3>1. m \in {x} \X (1..c[x]) \/ m = <<x, c[x] + 1>>
      BY <1>3, <2>1, <2>2
    <3> QED
      BY <2>1, <2>2, <3>1, WindowElements
  <2>3. CASE y # x
    <3>1. m \in {y} \X (1..c[y])
      BY <2>1, <2>3
    <3> QED
      BY <2>1, <3>1, WindowElements
  <2> QED
    BY <2>2, <2>3
<1>5. ASSUME NEW m \in InWindow(c, t)
      PROVE  m \in InWindow(d, t)
  <2>1. PICK y \in 1..MaxTime : t <= y /\ y < t + LockTime /\ m \in {y} \X (1..c[y])
    BY <1>5, WindowElements
  <2>2. m \in {y} \X (1..d[y])
    <3>1. CASE y = x
      BY <1>3, <2>1, <3>1
    <3>2. CASE y # x
      BY <2>1, <3>2
    <3> QED
      BY <3>1, <3>2
  <2> QED
    BY <2>1, <2>2, WindowElements
<1>6. ASSUME t <= x, x < t + LockTime
      PROVE  <<x, c[x] + 1>> \in InWindow(d, t)
  <2>1. <<x, c[x] + 1>> \in {x} \X (1..d[x])
    BY <1>3
  <2> QED
    BY <1>6, <2>1, WindowElements
<1>7. ASSUME t <= x, x < t + LockTime
      PROVE  InWindow(d, t) = InWindow(c, t) \cup {<<x, c[x] + 1>>}
  BY <1>4, <1>5, <1>6, <1>7
<1>8. ASSUME ~(t <= x /\ x < t + LockTime)
      PROVE  InWindow(d, t) = InWindow(c, t)
  BY <1>4, <1>5, <1>8
<1> QED
  BY <1>7, <1>8

\* A window that now lies in has attempts only that the limiter still counts.
LEMMA WindowRecent ==
  ASSUME NEW c \in [1..MaxTime -> Nat], NEW n \in Nat, NEW t \in Int,
         t <= n, n < t + LockTime,
         \A x \in 1..MaxTime : x > n => c[x] = 0
  PROVE  InWindow(c, t) \in SUBSET InWindow(c, n - LockTime + 1)
<1>1. n - LockTime + 1 \in Int
  BY Limits
<1>2. ASSUME NEW x \in 1..MaxTime, t <= x, x < t + LockTime, NEW m \in {x} \X (1..c[x])
      PROVE  n - LockTime + 1 <= x /\ x < (n - LockTime + 1) + LockTime
  <2>1. c[x] # 0
    <3>1. 1..c[x] # {}
      BY <1>2
    <3> QED
      BY <3>1
  <2>2. x \in Nat /\ x <= n
    BY <2>1
  <2> QED
    BY <1>2, <2>2, Limits
<1> QED
  BY <1>1, <1>2, WindowElements

LEMMA NothingInWindow ==
  ASSUME NEW t \in Int
  PROVE  InWindow([x \in 1..MaxTime |-> 0], t) = {}
<1>1. \A x \in 1..MaxTime : {x} \X (1..[y \in 1..MaxTime |-> 0][x]) = {}
  OBVIOUS
<1> QED
  BY <1>1, WindowElements

\* A failure is an attempt that counts.
LEMMA FailuresCounted ==
  ASSUME TypeOK, AddressInv, NEW a \in Address, NEW t \in 1..MaxTime
  PROVE  failed[a][t] <= attempts[a][t]
<1>1. failed[a][t] \in Nat /\ attempts[a][t] \in Nat
  BY DEF TypeOK
<1>2. Cardinality(Pending(a, t)) \in Nat
  BY FS_CardinalityType DEF AddressInv, Counted
<1> QED
  BY <1>1, <1>2 DEF AddressInv, Counted

\* What a step does to requests and addresses.
Ends(r) == /\ pc' = [pc EXCEPT ![r] = "idle"]
           /\ from' = [from EXCEPT ![r] = Nowhere] /\ marker' = [marker EXCEPT ![r] = 0]
counts == <<attempts, failed>>

Comes(r, a) == /\ pc[r] = "idle" /\ pc' = [pc EXCEPT ![r] = "captcha"]
               /\ from' = [from EXCEPT ![r] = a]
               /\ UNCHANGED <<now, marker, counts>>
Reserves(r) == /\ pc[r] = "captcha" /\ pc' = [pc EXCEPT ![r] = "read"]
               /\ ~Full(from[r])
               /\ attempts' = [attempts EXCEPT ![from[r]][now] = @ + 1]
               /\ marker' = [marker EXCEPT ![r] = now]
               /\ UNCHANGED <<now, from, failed>>
GoesOn(r)   == /\ pc[r] \notin {"idle", "captcha"}
               /\ \E p \in {"reserve", "verify", "release"} : pc' = [pc EXCEPT ![r] = p]
               /\ UNCHANGED <<now, from, marker, counts>>
Fails(r)    == /\ pc[r] \notin {"idle", "captcha"} /\ Ends(r)
               /\ failed' = [failed EXCEPT ![from[r]][marker[r]] = @ + 1]
               /\ UNCHANGED <<now, attempts>>
Releases(r) == /\ pc[r] \notin {"idle", "captcha"} /\ Ends(r)
               /\ attempts' = [attempts EXCEPT ![from[r]][marker[r]] = IF @ > 0 THEN @ - 1 ELSE @]
               /\ UNCHANGED <<now, failed>>
Leaves(r)   == Ends(r) /\ UNCHANGED <<now, counts>>
AllEnd      == /\ pc' = Each("idle") /\ from' = Each(Nowhere) /\ marker' = Each(0)
               /\ attempts' = NoAttempts /\ failed' = NoAttempts /\ UNCHANGED now
Waits       == UNCHANGED <<pc, from, marker, counts>>

LEMMA AddressSteps ==
  ASSUME Next
  PROVE  \/ \E r \in Request : \/ \E a \in Address : Comes(r, a)
                               \/ Reserves(r) \/ GoesOn(r) \/ Fails(r) \/ Releases(r) \/ Leaves(r)
         \/ AllEnd \/ Waits
<1>1. ASSUME NEW r \in Request, NEW a \in Address, Arrive(r, a)
      PROVE  Comes(r, a)
  BY <1>1 DEF Arrive, Comes, counts
<1>2. ASSUME NEW r \in Request, ReserveAddress(r)
      PROVE  Reserves(r) \/ Leaves(r)
  BY <1>2 DEF ReserveAddress, Reserves, Leaves, Ends, Finish, counts
<1>3. ASSUME NEW r \in Request, ReadRow(r) \/ ReserveGuess(r) \/ Wrong(r) \/ Right(r)
      PROVE  GoesOn(r) \/ Fails(r)
  BY <1>3 DEF ReadRow, ReserveGuess, Wrong, Right, Refuse, Finish, GoesOn, Fails, Ends, counts
<1>4. ASSUME NEW r \in Request, ReleaseAddress(r)
      PROVE  Releases(r)
  BY <1>4 DEF ReleaseAddress, Releases, Ends, Finish
<1>5. ASSUME NEW r \in Request, CaptchaFails(r) \/ Drop(r)
      PROVE  Leaves(r)
  BY <1>5 DEF CaptchaFails, Drop, Leaves, Ends, Finish, counts
<1>6. Crash => AllEnd
  BY DEF Crash, AllEnd
<1>7. Unlock \/ ChangeAccount \/ Tick => Waits
  BY DEF Unlock, ChangeAccount, Tick, Waits, request, counts
<1> QED
  BY <1>1, <1>2, <1>3, <1>4, <1>5, <1>6, <1>7 DEF Next, Step

\* One count of one address is changed.
LEMMA CountChanged ==
  ASSUME NEW counters \in [Address -> [1..MaxTime -> Nat]],
         NEW b \in Address, NEW y \in 1..MaxTime, NEW v \in Nat
  PROVE  /\ [counters EXCEPT ![b][y] = v] \in [Address -> [1..MaxTime -> Nat]]
         /\ \A a \in Address, x \in 1..MaxTime :
              [counters EXCEPT ![b][y] = v][a][x] = IF a = b /\ x = y THEN v ELSE counters[a][x]
OBVIOUS

LEMMA CountTypes ==
  ASSUME NEW counters \in [Address -> [1..MaxTime -> Nat]], NEW b \in Address, NEW y \in 1..MaxTime
  PROVE  counters[b][y] \in Nat
<1>1. counters[b] \in [1..MaxTime -> Nat]
  OBVIOUS
<1> QED
  BY <1>1

\* The types of requests and addresses.
AddressTypes ==
  /\ attempts \in [Address -> [1..MaxTime -> Nat]]
  /\ failed \in [Address -> [1..MaxTime -> Nat]]
  /\ pc \in [Request -> {"idle", "captcha", "read", "reserve", "verify", "release"}]
  /\ from \in [Request -> Address \cup {Nowhere}]
  /\ marker \in [Request -> 0..MaxTime]

LEMMA AddressTypesStep ==
  ASSUME TypeOK, AddressInv, Next
  PROVE  AddressTypes'
<1>1. /\ attempts \in [Address -> [1..MaxTime -> Nat]]
      /\ failed \in [Address -> [1..MaxTime -> Nat]]
      /\ pc \in [Request -> {"idle", "captcha", "read", "reserve", "verify", "release"}]
      /\ from \in [Request -> Address \cup {Nowhere}]
      /\ marker \in [Request -> 0..MaxTime] /\ now \in 1..MaxTime
  BY DEF TypeOK
<1>2. 0 \in 0..MaxTime /\ now \in 0..MaxTime
  BY <1>1, Limits
<1>3. ASSUME NEW r \in Request, NEW a \in Address, Comes(r, a)
      PROVE  AddressTypes'
  BY <1>1, <1>3 DEF Comes, counts, AddressTypes
<1>4. ASSUME NEW r \in Request, Reserves(r)
      PROVE  AddressTypes'
  <2>1. from[r] \in Address
    BY <1>4 DEF Reserves, AddressInv, Placed
  <2>6. attempts[from[r]][now] \in Nat
    BY <1>1, <2>1, CountTypes
  <2>5. attempts[from[r]][now] + 1 \in Nat
    BY <2>6
  <2>2. attempts' = [attempts EXCEPT ![from[r]][now] = attempts[from[r]][now] + 1]
    BY <1>4 DEF Reserves
  <2>3. attempts' \in [Address -> [1..MaxTime -> Nat]]
    BY <1>1, <2>1, <2>2, <2>5, CountChanged
  <2> QED
    BY <1>1, <1>2, <1>4, <2>3 DEF Reserves, AddressTypes
<1>5. ASSUME NEW r \in Request, GoesOn(r)
      PROVE  AddressTypes'
  BY <1>1, <1>5 DEF GoesOn, counts, AddressTypes
<1>6. ASSUME NEW r \in Request, Fails(r)
      PROVE  AddressTypes'
  <2>1. from[r] \in Address /\ marker[r] \in 1..MaxTime
    BY <1>1, <1>6 DEF Fails, AddressInv, Placed
  <2> DEFINE v == failed[from[r]][marker[r]] + 1
  <2>2. v \in Nat
    <3>1. failed[from[r]][marker[r]] \in Nat
      BY <1>1, <2>1, CountTypes
    <3> QED
      BY <3>1
  <2>3. failed' = [failed EXCEPT ![from[r]][marker[r]] = v]
    BY <1>6 DEF Fails
  <2> HIDE DEF v
  <2>4. failed' \in [Address -> [1..MaxTime -> Nat]]
    BY <1>1, <2>1, <2>2, <2>3, CountChanged
  <2> QED
    BY <1>1, <1>2, <1>6, <2>4 DEF Fails, Ends, AddressTypes
<1>7. ASSUME NEW r \in Request, Releases(r)
      PROVE  AddressTypes'
  <2>1. from[r] \in Address /\ marker[r] \in 1..MaxTime
    BY <1>1, <1>7 DEF Releases, AddressInv, Placed
  <2> DEFINE v == IF attempts[from[r]][marker[r]] > 0 THEN attempts[from[r]][marker[r]] - 1
                                                           ELSE attempts[from[r]][marker[r]]
  <2>2. v \in Nat
    <3>1. attempts[from[r]][marker[r]] \in Nat
      BY <1>1, <2>1, CountTypes
    <3> QED
      BY <3>1
  <2>3. attempts' = [attempts EXCEPT ![from[r]][marker[r]] = v]
    BY <1>7 DEF Releases
  <2> HIDE DEF v
  <2>4. attempts' \in [Address -> [1..MaxTime -> Nat]]
    BY <1>1, <2>1, <2>2, <2>3, CountChanged
  <2> QED
    BY <1>1, <1>2, <1>7, <2>4 DEF Releases, Ends, AddressTypes
<1>8. ASSUME NEW r \in Request, Leaves(r)
      PROVE  AddressTypes'
  BY <1>1, <1>2, <1>8 DEF Leaves, Ends, counts, AddressTypes
<1>9. AllEnd => AddressTypes'
  BY <1>2 DEF AllEnd, Each, NoAttempts, AddressTypes
<1>10. Waits => AddressTypes'
  BY <1>1 DEF Waits, counts, AddressTypes
<1> QED
  BY <1>3, <1>4, <1>5, <1>6, <1>7, <1>8, <1>9, <1>10, AddressSteps

LEMMA RightStep ==
  ASSUME TypeOK, Next
  PROVE  right' \in [Request -> BOOLEAN]
<1>1. right \in [Request -> BOOLEAN]
  BY DEF TypeOK
<1>2. ASSUME NEW r \in Request, Step(r) \/ Drop(r)
      PROVE  \/ right' = right
             \/ \E known \in BOOLEAN : right' = [right EXCEPT ![r] = known]
  <2>1. Finish(r) => \E known \in BOOLEAN : right' = [right EXCEPT ![r] = known]
    BY DEF Finish
  <2> QED
    BY <1>2, <2>1 DEF Step, Arrive, CaptchaFails, ReserveAddress, ReadRow, ReserveGuess, Wrong,
                      Right, Refuse, ReleaseAddress, Drop
<1>3. ASSUME NEW r \in Request, NEW known \in BOOLEAN, right' = [right EXCEPT ![r] = known]
      PROVE  right' \in [Request -> BOOLEAN]
  BY <1>1, <1>3
<1>4. Unlock \/ ChangeAccount \/ Tick => right' = right
  BY DEF Unlock, ChangeAccount, Tick, request
<1>5. Crash => right' \in [Request -> BOOLEAN]
  BY DEF Crash, Each
<1> QED
  BY <1>1, <1>2, <1>3, <1>4, <1>5 DEF Next

\* Where requests are.
LEMMA PlacedStep ==
  ASSUME TypeOK, \A r \in Request : Placed(r), Next
  PROVE  \A r \in Request : Placed(r)'
<1>1. /\ pc \in [Request -> {"idle", "captcha", "read", "reserve", "verify", "release"}]
      /\ from \in [Request -> Address \cup {Nowhere}]
      /\ marker \in [Request -> 0..MaxTime] /\ now \in Nat /\ now > 0
  BY AccountTyped DEF TypeOK
<1>2. now' \in Nat /\ now' >= now
  BY <1>1, AccountSteps DEF Guess, Locks, Resets
<1>3. ASSUME NEW q \in Request, pc'[q] = pc[q], from'[q] = from[q], marker'[q] = marker[q]
      PROVE  Placed(q)'
  <2>1. \A m \in 1..now : m \in 1..now'
    BY <1>1, <1>2
  <2> QED
    BY <1>3, <2>1 DEF Placed
<1>4. ASSUME NEW q \in Request, pc'[q] = "idle", from'[q] = Nowhere, marker'[q] = 0
      PROVE  Placed(q)'
  BY <1>4 DEF Placed
<1>5. ASSUME NEW r \in Request, NEW q \in Request, Ends(r)
      PROVE  Placed(q)'
  <2>1. CASE q = r
    BY <1>1, <1>4, <1>5, <2>1 DEF Ends
  <2>2. CASE q # r
    BY <1>1, <1>3, <1>5, <2>2 DEF Ends
  <2> QED
    BY <2>1, <2>2
<1>6. ASSUME NEW r \in Request, NEW a \in Address, Comes(r, a), NEW q \in Request
      PROVE  Placed(q)'
  <2>1. CASE q = r
    <3>1. pc'[q] = "captcha" /\ from'[q] = a /\ marker'[q] = 0
      BY <1>1, <1>6, <2>1 DEF Comes, Placed
    <3> QED
      BY <3>1 DEF Placed
  <2>2. CASE q # r
    BY <1>1, <1>3, <1>6, <2>2 DEF Comes
  <2> QED
    BY <2>1, <2>2
<1>7. ASSUME NEW r \in Request, Reserves(r), NEW q \in Request
      PROVE  Placed(q)'
  <2>1. CASE q = r
    <3>1. pc'[q] = "read" /\ from'[q] \in Address /\ marker'[q] = now /\ now' = now
      BY <1>1, <1>7, <2>1 DEF Reserves, Placed
    <3> QED
      BY <1>1, <3>1 DEF Placed
  <2>2. CASE q # r
    BY <1>1, <1>3, <1>7, <2>2 DEF Reserves
  <2> QED
    BY <2>1, <2>2
<1>8. ASSUME NEW r \in Request, GoesOn(r), NEW q \in Request
      PROVE  Placed(q)'
  <2>1. CASE q = r
    <3>1. /\ pc'[q] \notin {"idle", "captcha"} /\ from'[q] \in Address
          /\ marker'[q] \in 1..now /\ now' = now
      BY <1>1, <1>8, <2>1 DEF GoesOn, Placed
    <3> QED
      BY <3>1 DEF Placed
  <2>2. CASE q # r
    BY <1>1, <1>3, <1>8, <2>2 DEF GoesOn
  <2> QED
    BY <2>1, <2>2
<1>9. AllEnd => \A q \in Request : Placed(q)'
  BY <1>4 DEF AllEnd, Each
<1>10. Waits => \A q \in Request : Placed(q)'
  BY <1>3 DEF Waits
<1> QED
  BY <1>5, <1>6, <1>7, <1>8, <1>9, <1>10, AddressSteps DEF Fails, Releases, Leaves

\* The counts of an address, as one request makes or ends an attempt.
LEMMA FinitePlusOne ==
  ASSUME NEW S, IsFiniteSet(S), NEW x
  PROVE  /\ IsFiniteSet(S \cup {x}) /\ Cardinality(S) \in Nat
         /\ Cardinality(S \cup {x}) <= Cardinality(S) + 1
<1>1. Cardinality(S) \in Nat
  BY FS_CardinalityType
<1>2. /\ IsFiniteSet(S \cup {x})
      /\ Cardinality(S \cup {x}) = IF x \in S THEN Cardinality(S) ELSE Cardinality(S) + 1
  BY FS_AddElement
<1> QED
  BY <1>1, <1>2

LEMMA OnePendingMore ==
  ASSUME NEW r \in Request, NEW a \in Address, NEW t \in Nat,
         IsFiniteSet(Pending(a, t)), Pending(a, t)' \in SUBSET (Pending(a, t) \cup {r})
  PROVE  /\ IsFiniteSet(Pending(a, t)') /\ Cardinality(Pending(a, t)) \in Nat
         /\ Cardinality(Pending(a, t)') \in Nat
         /\ Cardinality(Pending(a, t)') <= Cardinality(Pending(a, t)) + 1
<1>1. /\ IsFiniteSet(Pending(a, t) \cup {r}) /\ Cardinality(Pending(a, t)) \in Nat
      /\ Cardinality(Pending(a, t) \cup {r}) <= Cardinality(Pending(a, t)) + 1
  BY FinitePlusOne
<1>2. /\ IsFiniteSet(Pending(a, t)')
      /\ Cardinality(Pending(a, t)') <= Cardinality(Pending(a, t) \cup {r})
  BY <1>1, FS_Subset
<1>3. Cardinality(Pending(a, t)') \in Nat /\ Cardinality(Pending(a, t) \cup {r}) \in Nat
  BY <1>1, <1>2, FS_CardinalityType
<1> QED
  BY <1>1, <1>2, <1>3

LEMMA OnePendingLess ==
  ASSUME NEW r \in Request, NEW a \in Address, NEW t \in Nat,
         IsFiniteSet(Pending(a, t)), r \in Pending(a, t), Pending(a, t)' = Pending(a, t) \ {r}
  PROVE  /\ IsFiniteSet(Pending(a, t)') /\ Cardinality(Pending(a, t)) \in Nat
         /\ Cardinality(Pending(a, t)') \in Nat
         /\ Cardinality(Pending(a, t)') = Cardinality(Pending(a, t)) - 1
BY FS_RemoveElement, FS_CardinalityType

\* As attempts and failures of a moment change with those pending, they stay covered.
LEMMA CountedStep ==
  ASSUME TypeOK, AddressInv, Next, NEW a \in Address, NEW t \in 1..MaxTime
  PROVE  Counted(a, t)'
<1>1. /\ attempts \in [Address -> [1..MaxTime -> Nat]] /\ failed \in [Address -> [1..MaxTime -> Nat]]
      /\ attempts[a][t] \in Nat /\ failed[a][t] \in Nat
      /\ pc \in [Request -> {"idle", "captcha", "read", "reserve", "verify", "release"}]
      /\ from \in [Request -> Address \cup {Nowhere}] /\ marker \in [Request -> 0..MaxTime]
      /\ now \in 1..MaxTime /\ now \in Nat /\ t \in Nat /\ t > 0 /\ a # Nowhere
  <2>1. /\ attempts \in [Address -> [1..MaxTime -> Nat]]
        /\ failed \in [Address -> [1..MaxTime -> Nat]]
        /\ pc \in [Request -> {"idle", "captcha", "read", "reserve", "verify", "release"}]
        /\ from \in [Request -> Address \cup {Nowhere}] /\ marker \in [Request -> 0..MaxTime]
        /\ now \in 1..MaxTime
    BY DEF TypeOK
  <2>2. attempts[a][t] \in Nat /\ failed[a][t] \in Nat
    BY <2>1, CountTypes
  <2>3. now \in Nat /\ t \in Nat /\ t > 0
    BY <2>1, Limits
  <2> QED
    BY <2>1, <2>2, <2>3, AddressAssumption
<1>2. now' \in Nat /\ now' >= now
  BY <1>1, AccountSteps DEF Guess, Locks, Resets
<1>3. /\ IsFiniteSet(Pending(a, t)) /\ Cardinality(Pending(a, t)) \in Nat
      /\ failed[a][t] + Cardinality(Pending(a, t)) <= attempts[a][t]
      /\ t > now => attempts[a][t] = 0
  BY FS_CardinalityType DEF AddressInv, Counted
<1>4. ASSUME Pending(a, t)' \in SUBSET Pending(a, t), UNCHANGED <<attempts[a][t], failed[a][t]>>
      PROVE  Counted(a, t)'
  <2>1. /\ IsFiniteSet(Pending(a, t)') /\ Cardinality(Pending(a, t)') \in Nat
        /\ Cardinality(Pending(a, t)') <= Cardinality(Pending(a, t))
    BY <1>3, <1>4, FS_Subset, FS_CardinalityType
  <2> QED
    BY <1>1, <1>2, <1>3, <1>4, <2>1 DEF Counted
<1>5. ASSUME NEW r \in Request, Ends(r)
      PROVE  Pending(a, t)' = Pending(a, t) \ {r}
  <2>1. \A q \in Request : q # r => from'[q] = from[q] /\ marker'[q] = marker[q]
    BY <1>1, <1>5 DEF Ends
  <2>2. marker'[r] = 0
    BY <1>1, <1>5 DEF Ends
  <2> QED
    BY <1>1, <2>1, <2>2 DEF Pending
<1>6. ASSUME NEW r \in Request, NEW b \in Address, Comes(r, b)
      PROVE  Counted(a, t)'
  <2>1. \A q \in Request : q # r => from'[q] = from[q]
    BY <1>1, <1>6 DEF Comes
  <2>2. marker' = marker /\ marker[r] = 0
    BY <1>6 DEF Comes, AddressInv, Placed
  <2>3. Pending(a, t)' = Pending(a, t)
    BY <1>1, <2>1, <2>2 DEF Pending
  <2> QED
    BY <1>4, <1>6, <2>3 DEF Comes, counts
<1>7. ASSUME NEW r \in Request, Reserves(r)
      PROVE  Counted(a, t)'
  <2>1. /\ \A q \in Request : q # r => marker'[q] = marker[q]
        /\ from' = from /\ marker'[r] = now /\ failed' = failed /\ now' = now
    BY <1>1, <1>7 DEF Reserves
  <2>2. from[r] \in Address /\ marker[r] = 0
    BY <1>7 DEF Reserves, AddressInv, Placed
  <2>3. attempts'[a][t] = IF a = from[r] /\ t = now THEN attempts[a][t] + 1 ELSE attempts[a][t]
    BY <1>1, <1>7, <2>2 DEF Reserves
  <2>4. CASE a = from[r] /\ t = now
    <3>1. Pending(a, t)' \in SUBSET (Pending(a, t) \cup {r})
      BY <2>1 DEF Pending
    <3> QED
      BY <1>1, <1>3, <2>1, <2>3, <2>4, <3>1, OnePendingMore DEF Counted
  <2>5. CASE ~(a = from[r] /\ t = now)
    <3>1. Pending(a, t)' \in SUBSET Pending(a, t)
      BY <2>1, <2>5 DEF Pending
    <3> QED
      BY <1>4, <2>1, <2>3, <2>5, <3>1
  <2> QED
    BY <2>4, <2>5
<1>8. ASSUME NEW r \in Request, GoesOn(r)
      PROVE  Counted(a, t)'
  BY <1>4, <1>8 DEF GoesOn, counts, Pending
<1>9. ASSUME NEW r \in Request, Fails(r) \/ Releases(r)
      PROVE  Counted(a, t)'
  <2>1. from[r] \in Address /\ marker[r] \in 1..now /\ now' = now
    BY <1>9 DEF Fails, Releases, AddressInv, Placed
  <2>2. marker[r] \in 1..MaxTime
    BY <1>1, <2>1
  <2>3. Pending(a, t)' = Pending(a, t) \ {r}
    BY <1>5, <1>9 DEF Fails, Releases
  <2>4. CASE a = from[r] /\ t = marker[r]
    <3>1. r \in Pending(a, t)
      BY <2>4 DEF Pending
    <3>2. /\ IsFiniteSet(Pending(a, t)') /\ Cardinality(Pending(a, t)') \in Nat
          /\ Cardinality(Pending(a, t)') = Cardinality(Pending(a, t)) - 1
      BY <1>1, <1>3, <2>3, <3>1, OnePendingLess
    <3>3. CASE Fails(r)
      <4>1. failed'[a][t] = failed[a][t] + 1 /\ attempts' = attempts
        BY <1>1, <2>1, <2>2, <2>4, <3>3 DEF Fails
      <4> QED
        BY <1>1, <1>3, <2>1, <3>2, <4>1 DEF Counted
    <3>4. CASE Releases(r)
      <4>1. attempts[a][t] > 0
        BY <1>1, <1>3, <3>2
      <4>2. attempts'[a][t] = attempts[a][t] - 1 /\ failed' = failed
        BY <1>1, <2>1, <2>2, <2>4, <3>4, <4>1 DEF Releases
      <4>3. t <= now
        BY <1>1, <2>1, <2>4
      <4> QED
        BY <1>1, <1>3, <2>1, <3>2, <4>1, <4>2, <4>3 DEF Counted
    <3> QED
      BY <1>9, <3>3, <3>4
  <2>5. CASE ~(a = from[r] /\ t = marker[r])
    <3>1. Fails(r) => attempts'[a][t] = attempts[a][t] /\ failed'[a][t] = failed[a][t]
      BY <1>1, <2>1, <2>2, <2>5 DEF Fails
    <3>2. Releases(r) => attempts'[a][t] = attempts[a][t] /\ failed'[a][t] = failed[a][t]
      BY <1>1, <2>1, <2>2, <2>5 DEF Releases
    <3> QED
      BY <1>4, <1>9, <2>3, <3>1, <3>2
  <2> QED
    BY <2>4, <2>5
<1>10. ASSUME NEW r \in Request, Leaves(r)
       PROVE  Counted(a, t)'
  BY <1>4, <1>5, <1>10 DEF Leaves, counts
<1>11. AllEnd => Counted(a, t)'
  <2> SUFFICES ASSUME AllEnd
               PROVE  Counted(a, t)'
    OBVIOUS
  <2>1. Pending(a, t)' = {}
    BY <1>1 DEF AllEnd, Each, Pending
  <2>2. attempts'[a][t] = 0 /\ failed'[a][t] = 0
    BY <1>1 DEF AllEnd, NoAttempts
  <2> QED
    BY <2>1, <2>2, FS_EmptySet DEF Counted
<1>12. Waits => Counted(a, t)'
  BY <1>4 DEF Waits, counts, Pending
<1> QED
  BY <1>6, <1>7, <1>8, <1>9, <1>10, <1>11, <1>12, AddressSteps

\* Nothing is added to a full window.
LEMMA LimitingStep ==
  ASSUME TypeOK, AddressInv, Next, NEW a \in Address, NEW t \in Starts
  PROVE  Limiting(a, t)'
<1>1. /\ attempts \in [Address -> [1..MaxTime -> Nat]] /\ attempts[a] \in [1..MaxTime -> Nat]
      /\ pc \in [Request -> {"idle", "captcha", "read", "reserve", "verify", "release"}]
      /\ now \in 1..MaxTime /\ now \in Nat /\ t \in Int
  <2>1. /\ attempts \in [Address -> [1..MaxTime -> Nat]] /\ now \in 1..MaxTime
        /\ pc \in [Request -> {"idle", "captcha", "read", "reserve", "verify", "release"}]
    BY DEF TypeOK
  <2>2. attempts[a] \in [1..MaxTime -> Nat]
    BY <2>1
  <2>3. now \in Nat /\ t \in Int
    BY <2>1, Limits DEF Starts
  <2> QED
    BY <2>1, <2>2, <2>3
<1>2. /\ IsFiniteSet(InWindow(attempts[a], t)) /\ Cardinality(InWindow(attempts[a], t)) \in Nat
      /\ Cardinality(InWindow(attempts[a], t)) <= RateLimit
  BY FS_CardinalityType DEF AddressInv, Limiting
<1>3. ASSUME attempts' = attempts
      PROVE  Limiting(a, t)'
  BY <1>2, <1>3 DEF Limiting
<1>4. ASSUME NEW r \in Request, Reserves(r)
      PROVE  Limiting(a, t)'
  <2>1. from[r] \in Address /\ ~Limited(from[r])
    BY <1>4 DEF Reserves, Full, AddressInv, Placed
  <2>2. CASE a # from[r]
    <3>1. attempts'[a] = attempts[a]
      BY <1>1, <1>4, <2>1, <2>2 DEF Reserves
    <3> QED
      BY <1>2, <3>1 DEF Limiting
  <2>3. CASE a = from[r] /\ ~(t <= now /\ now < t + LockTime)
    <3>1. /\ attempts'[a] \in [1..MaxTime -> Nat]
          /\ attempts'[a][now] = attempts[a][now] + 1
          /\ \A x \in 1..MaxTime : x # now => attempts'[a][x] = attempts[a][x]
      BY <1>1, <1>4, <2>1, <2>3, AddressTypesStep DEF Reserves, AddressTypes
    <3>2. InWindow(attempts'[a], t) = InWindow(attempts[a], t)
      BY <1>1, <2>3, <3>1, WindowAdd
    <3> QED
      BY <1>2, <3>2 DEF Limiting
  <2>4. CASE a = from[r] /\ t <= now /\ now < t + LockTime
    <3>1. /\ attempts'[a] \in [1..MaxTime -> Nat]
          /\ attempts'[a][now] = attempts[a][now] + 1
          /\ \A x \in 1..MaxTime : x # now => attempts'[a][x] = attempts[a][x]
      BY <1>1, <1>4, <2>1, <2>4, AddressTypesStep DEF Reserves, AddressTypes
    <3>2. InWindow(attempts'[a], t) = InWindow(attempts[a], t) \cup {<<now, attempts[a][now] + 1>>}
      BY <1>1, <2>4, <3>1, WindowAdd
    <3>3. now - LockTime + 1 \in Starts
      BY <1>1, Limits DEF Starts
    <3>4. \A x \in 1..MaxTime : x > now => attempts[a][x] = 0
      BY DEF AddressInv, Counted
    <3>5. InWindow(attempts[a], t) \in SUBSET Recent(a)
      BY <1>1, <2>4, <3>4, WindowRecent DEF Recent
    <3>6. IsFiniteSet(Recent(a)) /\ Cardinality(Recent(a)) \in Nat /\ Cardinality(Recent(a)) < RateLimit
      <4>1. IsFiniteSet(Recent(a))
        BY <3>3 DEF AddressInv, Limiting, Recent
      <4>2. Cardinality(Recent(a)) \in Nat
        BY <4>1, FS_CardinalityType
      <4>3. ~(Cardinality(Recent(a)) >= RateLimit)
        BY <2>1, <2>4 DEF Limited
      <4> QED
        BY <4>1, <4>2, <4>3, Limits
    <3>7. Cardinality(InWindow(attempts[a], t)) <= Cardinality(Recent(a))
      BY <3>5, <3>6, FS_Subset
    <3>8. /\ IsFiniteSet(InWindow(attempts'[a], t))
          /\ Cardinality(InWindow(attempts'[a], t)) <= Cardinality(InWindow(attempts[a], t)) + 1
      BY <1>2, <3>2, FinitePlusOne
    <3>9. Cardinality(InWindow(attempts'[a], t)) \in Nat
      BY <3>8, FS_CardinalityType
    <3>10. Cardinality(InWindow(attempts'[a], t)) <= RateLimit
      BY <1>2, <3>6, <3>7, <3>8, <3>9, Limits
    <3> QED
      BY <3>8, <3>10 DEF Limiting
  <2> QED
    BY <2>2, <2>3, <2>4
<1>5. ASSUME NEW r \in Request, Releases(r)
      PROVE  Limiting(a, t)'
  <2>1. attempts'[a] \in [1..MaxTime -> Nat]
    BY AddressTypesStep DEF AddressTypes
  <2>2. from[r] \in Address
    BY <1>5 DEF Releases, AddressInv, Placed
  <2>3. ASSUME NEW x \in 1..MaxTime
        PROVE  attempts'[a][x] <= attempts[a][x]
    <3>1. attempts[a][x] \in Nat
      BY <1>1
    <3>2. \/ attempts'[a][x] = attempts[a][x]
          \/ attempts[a][x] > 0 /\ attempts'[a][x] = attempts[a][x] - 1
      BY <1>1, <1>5, <2>2 DEF Releases
    <3> QED
      BY <3>1, <3>2
  <2>4. InWindow(attempts'[a], t) \in SUBSET InWindow(attempts[a], t)
    BY <1>1, <2>1, <2>3, WindowSubset
  <2>5. /\ IsFiniteSet(InWindow(attempts'[a], t))
        /\ Cardinality(InWindow(attempts'[a], t)) \in Nat
        /\ Cardinality(InWindow(attempts'[a], t)) <= Cardinality(InWindow(attempts[a], t))
    BY <1>2, <2>4, FS_Subset, FS_CardinalityType
  <2>6. Cardinality(InWindow(attempts'[a], t)) <= RateLimit
    BY <1>2, <2>5, Limits
  <2> QED
    BY <2>5, <2>6 DEF Limiting
<1>6. AllEnd => Limiting(a, t)'
  <2> SUFFICES ASSUME AllEnd
               PROVE  Limiting(a, t)'
    OBVIOUS
  <2>1. attempts'[a] = [x \in 1..MaxTime |-> 0]
    BY DEF AllEnd, NoAttempts
  <2>2. InWindow(attempts'[a], t) = {}
    BY <1>1, <2>1, NothingInWindow
  <2> QED
    BY <2>2, FS_EmptySet, Limits DEF Limiting
<1> QED
  BY <1>3, <1>4, <1>5, <1>6, AddressSteps DEF Comes, GoesOn, Fails, Leaves, Waits, counts

-----------------------------------------------------------------------------
(* Together *)

LEMMA IndInvInit == Init => IndInv
<1> SUFFICES ASSUME Init
             PROVE  IndInv
  OBVIOUS
<1>1. /\ now = 1 /\ count = 0 /\ locked = 0 /\ version = 0 /\ changes = 0 /\ guesses = <<>>
      /\ seen = [r \in Request |-> NoRow]
  BY DEF Init, Each
<1>2. /\ pc = [r \in Request |-> "idle"] /\ from = [r \in Request |-> Nowhere]
      /\ marker = [r \in Request |-> 0]
      /\ attempts = [a \in Address |-> [x \in 1..MaxTime |-> 0]]
      /\ failed = [a \in Address |-> [x \in 1..MaxTime |-> 0]]
  BY DEF Init, Each, NoAttempts
<1>3. TypeOK
  <2>1. NoRow \in [locked : 0..(MaxTime + LockTime), version : 0..MaxChanges]
    BY Limits DEF NoRow
  <2>2. /\ now \in 1..MaxTime /\ count \in 0..FailureLimit /\ locked \in 0..(MaxTime + LockTime)
        /\ version \in 0..MaxChanges /\ changes \in 0..MaxChanges /\ guesses \in Seq(1..MaxTime)
    BY <1>1, Limits
  <2>3. active \in BOOLEAN /\ faults \in 0..MaxFaults /\ right \in [Request -> BOOLEAN]
    BY Limits DEF Init, Each
  <2>4. /\ pc \in [Request -> {"idle", "captcha", "read", "reserve", "verify", "release"}]
        /\ from \in [Request -> Address \cup {Nowhere}] /\ marker \in [Request -> 0..MaxTime]
        /\ attempts \in [Address -> [1..MaxTime -> Nat]]
        /\ failed \in [Address -> [1..MaxTime -> Nat]]
    BY <1>2, Limits
  <2>5. seen \in [Request -> [locked : 0..(MaxTime + LockTime), version : 0..MaxChanges]]
    BY <1>1, <2>1
  <2> QED
    BY <2>2, <2>3, <2>4, <2>5 DEF TypeOK
<1>4. LocksSeen
  BY <1>1, Limits DEF LocksSeen, NoRow
<1>5. Len(guesses) = 0 /\ 1..Len(guesses) = {} /\ 1..(Len(guesses) - count) = {}
      /\ 1..(Len(guesses) - FailureLimit) = {}
  BY <1>1, Limits
<1>6. GuessesCounted /\ AccountBounded
  BY <1>1, <1>5 DEF GuessesCounted, AccountBounded
<1>7. \A r \in Request : Placed(r)
  BY <1>2 DEF Placed
<1>8. ASSUME NEW a \in Address, NEW t \in 1..MaxTime
      PROVE  Counted(a, t)
  <2>1. Pending(a, t) = {}
    BY <1>2 DEF Pending
  <2> QED
    BY <1>2, <2>1, FS_EmptySet DEF Counted
<1>9. ASSUME NEW a \in Address, NEW t \in Starts
      PROVE  Limiting(a, t)
  <2>1. InWindow(attempts[a], t) = {}
    BY <1>2, NothingInWindow, Limits DEF Starts
  <2> QED
    BY <2>1, FS_EmptySet, Limits DEF Limiting
<1> QED
  BY <1>1, <1>3, <1>4, <1>6, <1>7, <1>8, <1>9 DEF IndInv, AccountInv, AddressInv

LEMMA Inductive == IndInv /\ [Next]_vars => IndInv'
<1>1. ASSUME IndInv, Next
      PROVE  IndInv'
  <2>1. TypeOK /\ AddressInv /\ version <= changes
    BY <1>1 DEF IndInv, AccountInv
  <2>2. TypeOK'
    BY <1>1, <2>1, RowSteps, AccountTypesStep, AddressTypesStep, RightStep DEF TypeOK, AddressTypes
  <2>3. AccountInv'
    BY <1>1, <2>1, RowSteps, LocksStep, GuessesStep DEF IndInv, AccountInv
  <2>4. AddressInv'
    <3>1. Starts' = Starts
      BY DEF Starts
    <3> QED
      BY <1>1, <2>1, <3>1, PlacedStep, CountedStep, LimitingStep DEF AddressInv
  <2> QED
    BY <2>2, <2>3, <2>4 DEF IndInv
<1>2. ASSUME IndInv, UNCHANGED vars
      PROVE  IndInv'
  <2>1. TypeOK'
    BY <1>2 DEF IndInv, TypeOK, vars, row, request
  <2>2. AccountInv'
    BY <1>2 DEF IndInv, AccountInv, LocksSeen, GuessesCounted, AccountBounded, vars, row, request
  <2>3. UNCHANGED <<now, pc, from, marker, attempts, failed>>
    BY <1>2 DEF vars, request
  <2>4. /\ \A r \in Request : Placed(r)' <=> Placed(r)
        /\ \A a \in Address, t \in 1..MaxTime : Counted(a, t)' <=> Counted(a, t)
        /\ \A a \in Address, t \in Starts : Limiting(a, t)' <=> Limiting(a, t)
    BY <2>3 DEF Placed, Counted, Pending, Limiting
  <2>5. AddressInv'
    BY <1>2, <2>4 DEF IndInv, AddressInv, Starts
  <2> QED
    BY <2>1, <2>2, <2>5 DEF IndInv
<1> QED
  BY <1>1, <1>2


-----------------------------------------------------------------------------
(* The theorems *)

\* The invariant: locks and the rows that requests have read, the counter and the
\* guesses it stands for, the attempts of an address and the requests that made them.
THEOREM Invariance == Spec => []IndInv
BY IndInvInit, Inductive, PTL DEF Spec

\* "at most LOGIN_FAILURE_LIMIT guesses can be evaluated per lock period no matter how
\* many requests run in parallel", and at most LOGIN_RATE_LIMIT failures of an address
\* fall into a window of the limiter, wherever it begins.
THEOREM GuessesAreBounded == Spec => []GuessesBounded
<1>1. IndInv => GuessesBounded
  <2> SUFFICES ASSUME IndInv
               PROVE  GuessesBounded
    OBVIOUS
  <2>1. ASSUME NEW a \in Address, NEW t \in 1..MaxTime
        PROVE  Cardinality(InWindow(failed[a], t)) <= RateLimit
    <3>1. /\ attempts[a] \in [1..MaxTime -> Nat] /\ failed[a] \in [1..MaxTime -> Nat]
          /\ t \in Starts /\ t \in Int
      BY Limits DEF IndInv, TypeOK, Starts
    <3>2. \A x \in 1..MaxTime : failed[a][x] <= attempts[a][x]
      BY <3>1, FailuresCounted DEF IndInv
    <3>3. InWindow(failed[a], t) \in SUBSET InWindow(attempts[a], t)
      BY <3>1, <3>2, WindowSubset
    <3>4. /\ IsFiniteSet(InWindow(attempts[a], t))
          /\ Cardinality(InWindow(attempts[a], t)) <= RateLimit
      BY <3>1 DEF IndInv, AddressInv, Limiting
    <3>5. /\ Cardinality(InWindow(failed[a], t)) \in Nat
          /\ Cardinality(InWindow(attempts[a], t)) \in Nat
          /\ Cardinality(InWindow(failed[a], t)) <= Cardinality(InWindow(attempts[a], t))
      BY <3>3, <3>4, FS_Subset, FS_CardinalityType
    <3> QED
      BY <3>4, <3>5, Limits
  <2> QED
    BY <2>1 DEF IndInv, AccountInv, GuessesBounded, AddressBounded
<1> QED
  BY <1>1, Invariance, PTL

\* A lock that still runs is lifted by an administrator only.
THEOREM LocksAreKept == Spec => LockKept
<1>1. IndInv /\ [Next]_vars =>
        [locked > now /\ locked' # locked => locked' > locked \/ changes' # changes]_vars
  <2> SUFFICES ASSUME IndInv, Next, locked > now, locked' # locked
               PROVE  locked' > locked \/ changes' # changes
    OBVIOUS
  <2>1. /\ now \in Nat /\ locked \in Nat /\ locked <= now + LockTime /\ changes \in Nat
    BY AccountTyped DEF IndInv, AccountInv, LocksSeen
  <2>2. \A r \in Request : ~Observed(r)
    BY <2>1, ObservedUnlocked DEF IndInv, AccountInv
  <2>3. Locks \/ changes' = changes + 1
    BY <2>2, AccountSteps DEF account, Guess
  <2> QED
    BY <2>1, <2>3, Limits DEF Locks
<1> QED
  BY <1>1, Invariance, PTL DEF Spec, LockKept
=============================================================================
