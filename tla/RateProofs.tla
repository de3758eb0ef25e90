--------------------------- MODULE RateProofs ---------------------------
(***************************************************************************)
(* The two limits on how fast the program works keep what they promise:    *)
(* consume_job_quota for the uploads of all workers, for every set of      *)
(* accounts, periods and limits, and the pacing gate for the requests of   *)
(* one job, for every interval and every set of threads.                   *)
(***************************************************************************)
EXTENDS JobQuota, Throttle, TLAPS

\* A calendar counter starts with its period.
Started == \A c \in DOMAIN rows : c[2] # "window" => Start[c[2]][rows[c].start] = rows[c].start

Counters == \A c \in Scope \X Kind : Exact(c)

\* Nothing was accepted and no counter started after time t.
Past(t) == \A c \in Scope \X Kind :
             /\ \A x \in 0..MaxTime : x > t => accepted[c][x] = 0
             /\ c \in DOMAIN rows => rows[c].start <= t

\* What an upload has read is still true when it decides.
ReadIsCurrent == \A r \in Request :
                   step[r] = "decide" => seen[r] = rows /\ stamp[r] <= now /\ Past(stamp[r])

QuotaInv == TypeOK /\ Started /\ Counters /\ Past(now) /\ ReadIsCurrent

(***************************************************************************)
(* Lemmas                                                                  *)
(***************************************************************************)
\* The calendar, at one time and at two.
LEMMA CalendarFacts ==
  ASSUME NEW p \in Period, NEW t \in 0..MaxTime
  PROVE  /\ Start[p][t] \in 0..MaxTime /\ Start[p][t] <= t
         /\ Start[p][Start[p][t]] = Start[p][t]
         /\ \A u \in t..MaxTime : Start[p][t] <= Start[p][u]
BY CalendarAssumption

\* The types that arithmetic needs.
LEMMA Times ==
  ASSUME TypeOK
  PROVE  /\ now \in Nat /\ MaxTime \in Nat /\ now <= MaxTime
         /\ config.window \in Nat \ {0}
         /\ \A r \in Request : stamp[r] \in 0..MaxTime /\ amount[r] \in Nat
         /\ \A c \in Scope \X Kind : \A t \in 0..MaxTime : accepted[c][t] \in Nat
         /\ \A c \in DOMAIN rows : rows[c].start \in Nat /\ rows[c].used \in Nat
<1>1. MaxTime \in Nat /\ MaxAmount \in Nat
  BY BoundAssumption
<1>2. config.window \in Nat \ {0}
  BY ConfigAssumption DEF TypeOK
<1>3. /\ now \in 0..MaxTime
      /\ stamp \in [Request -> 0..MaxTime] /\ amount \in [Request -> 0..MaxAmount]
      /\ accepted \in [Scope \X Kind -> [0..MaxTime -> Nat]]
      /\ \A c \in DOMAIN rows : rows[c].start \in 0..MaxTime /\ rows[c].used \in Nat \ {0}
  BY DEF TypeOK
<1> QED
  BY <1>1, <1>2, <1>3

LEMMA Kinds ==
  ASSUME NEW c \in Scope \X Kind
  PROVE  c = <<c[1], c[2]>> /\ c[2] \in Kind /\ (c[2] # "window" => c[2] \in Period)
BY DEF Kind

\* The counter that counts when an upload decides, found or renewed: it holds what
\* was accepted in its time, and the decision falls into that.
LEMMA BucketExact ==
  ASSUME QuotaInv, NEW r \in Request, step[r] = "decide", NEW c \in Scope \X Kind,
         NEW b, b = Bucket(seen[r], c[1], c[2], stamp[r])
  PROVE  /\ b.start \in 0..MaxTime /\ b.used \in Nat /\ b.start <= stamp[r]
         /\ b.used = accepted[c][b.start]
         /\ \A t \in 0..MaxTime : Over(c, b.start, t) => accepted[c][t] = 0
         /\ c[2] = "window" => stamp[r] < b.start + config.window
         /\ c[2] # "window" => b.start = Start[c[2]][stamp[r]]
<1> DEFINE T == stamp[r]
<1>1. /\ T \in 0..MaxTime /\ T \in Nat /\ MaxTime \in Nat
      /\ config.window \in Nat \ {0}
  BY Times DEF QuotaInv
<1>2. c = <<c[1], c[2]>> /\ (c[2] # "window" => c[2] \in Period)
  BY Kinds
<1>3. seen[r] = rows /\ Past(T)
  BY DEF QuotaInv, ReadIsCurrent
<1>4. Exact(c)
  BY DEF QuotaInv, Counters
<1>5. c \in DOMAIN rows => /\ rows[c].start \in 0..MaxTime /\ rows[c].start \in Nat
                           /\ rows[c].used \in Nat /\ rows[c].start <= T
  BY <1>3, Times DEF QuotaInv, TypeOK, Past
<1>6. b = Bucket(rows, c[1], c[2], T)
  BY <1>3
<1> HIDE DEF T
<1>7. CASE c[2] = "window"
  <2>1. CASE c \in DOMAIN rows /\ T < rows[c].start + config.window
    <3>1. b = rows[c]
      BY <1>2, <1>6, <1>7, <2>1 DEF Bucket, PeriodStart
    <3> QED
      BY <1>4, <1>5, <1>7, <2>1, <3>1 DEF Exact, T
  <2>2. CASE ~(c \in DOMAIN rows /\ T < rows[c].start + config.window)
    <3>1. b = [start |-> T, used |-> 0]
      BY <1>2, <1>6, <1>7, <2>2 DEF Bucket, PeriodStart
    <3>2. \A t \in 0..MaxTime : t >= T => accepted[c][t] = 0
      <4>1. CASE c \in DOMAIN rows
        BY <1>1, <1>4, <1>5, <1>7, <2>2, <4>1 DEF Exact, Over
      <4>2. CASE c \notin DOMAIN rows
        BY <1>4, <4>2 DEF Exact
      <4> QED
        BY <4>1, <4>2
    <3> QED
      BY <1>1, <1>7, <3>1, <3>2 DEF Over, T
  <2> QED
    BY <2>1, <2>2
<1>8. CASE c[2] # "window"
  <2> DEFINE P == Start[c[2]][T]
  <2>1. P \in 0..MaxTime /\ P \in Nat /\ P <= T
    BY <1>1, <1>2, <1>8, CalendarFacts
  <2> HIDE DEF P
  <2>2. CASE c \in DOMAIN rows /\ rows[c].start = P
    <3>1. b = rows[c]
      BY <1>2, <1>6, <1>8, <2>2 DEF Bucket, PeriodStart, P
    <3> QED
      BY <1>4, <1>5, <1>8, <2>1, <2>2, <3>1 DEF Exact, T, P
  <2>3. CASE ~(c \in DOMAIN rows /\ rows[c].start = P)
    <3>1. b = [start |-> P, used |-> 0]
      BY <1>2, <1>6, <1>8, <2>3 DEF Bucket, PeriodStart, P
    <3>2. \A t \in 0..MaxTime : t >= P => accepted[c][t] = 0
      <4>1. CASE c \in DOMAIN rows
        <5>1. Start[c[2]][rows[c].start] = rows[c].start
          BY <1>8, <4>1 DEF QuotaInv, Started
        <5>2. T \in (rows[c].start)..MaxTime
          BY <1>1, <1>5, <4>1
        <5>3. rows[c].start <= P
          BY <1>2, <1>5, <1>8, <4>1, <5>1, <5>2, CalendarFacts DEF P
        <5>4. rows[c].start < P
          BY <1>5, <2>1, <2>3, <4>1, <5>3
        <5> QED
          BY <1>1, <1>4, <1>5, <1>8, <2>1, <4>1, <5>4 DEF Exact, Over
      <4>2. CASE c \notin DOMAIN rows
        BY <1>4, <4>2 DEF Exact
      <4> QED
        BY <4>1, <4>2
    <3> QED
      BY <1>1, <1>8, <2>1, <3>1, <3>2 DEF Over, T, P
  <2> QED
    BY <2>2, <2>3
<1> QED
  BY <1>7, <1>8

\* What an upload writes and what the history says of it, scope by scope.
LEMMA Written ==
  ASSUME TypeOK, NEW r \in Request, Consume(r), NEW c \in Scope \X Kind,
         NEW b, b = Bucket(seen[r], c[1], c[2], stamp[r])
  PROVE  /\ c \in Checks(r) =>
              /\ c \in DOMAIN rows'
              /\ rows'[c].start = b.start /\ rows'[c].used = b.used + amount[r]
              /\ \A t \in 0..MaxTime :
                   accepted'[c][t] = accepted[c][t] + IF Counts(c[2], stamp[r], t) THEN amount[r] ELSE 0
         /\ c \notin Checks(r) =>
              /\ c \in DOMAIN rows' <=> c \in DOMAIN rows
              /\ c \in DOMAIN rows => rows'[c] = rows[c]
              /\ \A t \in 0..MaxTime : accepted'[c][t] = accepted[c][t]
<1>1. rows' = Consumed(r) /\ accepted' = Counted(r)
  BY DEF Consume
<1>2. \A t \in 0..MaxTime :
        accepted'[c][t] = accepted[c][t] + IF c \in Checks(r) /\ Counts(c[2], stamp[r], t) THEN amount[r] ELSE 0
  BY <1>1 DEF Counted
<1>3. \A t \in 0..MaxTime : accepted[c][t] \in Nat
  BY Times
<1>4. CASE c \in Checks(r)
  BY <1>1, <1>2, <1>4 DEF Consumed
<1>5. CASE c \notin Checks(r)
  <2>1. c \in DOMAIN rows' <=> c \in DOMAIN rows
    BY <1>1, <1>5 DEF Consumed
  <2>2. c \in DOMAIN rows => rows'[c] = rows[c]
    BY <1>1, <1>5 DEF Consumed
  <2>3. \A t \in 0..MaxTime : accepted'[c][t] = accepted[c][t]
    BY <1>2, <1>3, <1>5
  <2> QED
    BY <1>5, <2>1, <2>2, <2>3
<1> QED
  BY <1>4, <1>5

\* An upload checks counters of its account and of the panel.
LEMMA ChecksInScope ==
  ASSUME TypeOK, NEW r \in Request
  PROVE  Checks(r) \subseteq Scope \X Kind
<1>1. who[r] \in Scope /\ Panel \in Scope
  BY DEF TypeOK, Scope
<1> QED
  BY <1>1 DEF Checks

\* An accepted upload counts in its own window or period and in no later one.
LEMMA AcceptedExact ==
  ASSUME QuotaInv, NEW r \in Request, Consume(r), NEW c \in Checks(r),
         NEW b, b = Bucket(seen[r], c[1], c[2], stamp[r])
  PROVE  /\ c \in Scope \X Kind
         /\ accepted'[c][b.start] = b.used + amount[r]
         /\ \A t \in 0..MaxTime : Over(c, b.start, t) => accepted'[c][t] = 0
         /\ \A t \in 0..MaxTime : t > stamp[r] => accepted'[c][t] = accepted[c][t]
<1>1. c \in Scope \X Kind /\ (c[2] # "window" => c[2] \in Period)
  BY ChecksInScope, Kinds DEF QuotaInv
<1>2. /\ b.start \in 0..MaxTime /\ b.used \in Nat /\ b.start <= stamp[r]
      /\ b.used = accepted[c][b.start]
      /\ \A t \in 0..MaxTime : Over(c, b.start, t) => accepted[c][t] = 0
      /\ c[2] = "window" => stamp[r] < b.start + config.window
      /\ c[2] # "window" => b.start = Start[c[2]][stamp[r]]
  <2>1. step[r] = "decide"
    BY DEF Consume
  <2> QED
    BY <1>1, <2>1, BucketExact
<1>3. \A t \in 0..MaxTime :
        accepted'[c][t] = accepted[c][t] + IF Counts(c[2], stamp[r], t) THEN amount[r] ELSE 0
  BY <1>1, Written DEF QuotaInv
<1>4. /\ amount[r] \in Nat /\ stamp[r] \in Nat /\ MaxTime \in Nat /\ config.window \in Nat
      /\ \A t \in 0..MaxTime : accepted[c][t] \in Nat
  BY <1>1, Times DEF QuotaInv
<1>5. Counts(c[2], stamp[r], b.start)
  BY <1>2 DEF Counts, PeriodStart
<1>6. \A t \in 0..MaxTime : Over(c, b.start, t) => ~Counts(c[2], stamp[r], t)
  BY <1>2, <1>4 DEF Counts, PeriodStart, Over
<1>7. \A t \in 0..MaxTime : t > stamp[r] => ~Counts(c[2], stamp[r], t)
  BY <1>2, <1>4 DEF Counts, PeriodStart
<1>8. \A t \in 0..MaxTime : ~Counts(c[2], stamp[r], t) => accepted'[c][t] = accepted[c][t]
  BY <1>3, <1>4
<1>9. accepted'[c][b.start] = b.used + amount[r]
  BY <1>2, <1>3, <1>5
<1> QED
  BY <1>1, <1>2, <1>6, <1>7, <1>8, <1>9

\* A counter that a step leaves alone stays exact.
LEMMA ExactKept ==
  ASSUME NEW c \in Scope \X Kind, Exact(c), config'.window = config.window,
         c \in DOMAIN rows' <=> c \in DOMAIN rows,
         c \in DOMAIN rows => rows'[c] = rows[c],
         \A t \in 0..MaxTime : accepted'[c][t] = accepted[c][t],
         c \in DOMAIN rows => rows[c].start \in 0..MaxTime
  PROVE  Exact(c)'
<1>1. CASE c \in DOMAIN rows
  BY <1>1 DEF Exact, Over
<1>2. CASE c \notin DOMAIN rows
  BY <1>2 DEF Exact
<1> QED
  BY <1>1, <1>2

\* The lock makes the deciding upload the only one.
LEMMA OneDecides ==
  ASSUME TypeOK, NEW r \in Request, NEW q \in Request,
         step[r] \in {"read", "decide"}, step[q] \in {"read", "decide"}
  PROVE  q = r
BY DEF TypeOK

\* What the end of a transaction leaves of the requests has its types.
LEMMA ReleaseTypes ==
  ASSUME TypeOK, NEW r \in Request, step[r] = "decide", Release(r)
  PROVE  /\ now' \in 0..MaxTime /\ config' \in Config /\ role' \in [User -> Role]
         /\ lock' \in Request \cup {Nobody} /\ clears' \in Nat
         /\ step' \in [Request -> {"idle", "lock", "read", "decide"}]
         /\ \A q \in Request : step'[q] \in {"read", "decide"} => lock' = q
         /\ who' \in [Request -> Scope] /\ as' \in [Request -> Role]
         /\ amount' \in [Request -> 0..MaxAmount]
         /\ \A q \in Request : amount'[q] = 0 <=> step'[q] = "idle"
         /\ stamp' \in [Request -> 0..MaxTime] /\ DOMAIN seen' = Request
<1>1. /\ 0 \in 0..MaxTime /\ 0 \in 0..MaxAmount
      /\ Panel \in Scope /\ "user" \in Role
  BY BoundAssumption DEF Scope, Role
<1>2. /\ step \in [Request -> {"idle", "lock", "read", "decide"}]
      /\ who \in [Request -> Scope] /\ as \in [Request -> Role]
      /\ amount \in [Request -> 0..MaxAmount] /\ stamp \in [Request -> 0..MaxTime]
      /\ \A q \in Request : amount[q] = 0 <=> step[q] = "idle"
      /\ \A q \in Request : step[q] \in {"read", "decide"} => q = r
  BY OneDecides DEF TypeOK
<1>3. /\ now' \in 0..MaxTime /\ config' \in Config /\ role' \in [User -> Role]
      /\ lock' \in Request \cup {Nobody} /\ clears' \in Nat
  BY DEF TypeOK, Release
<1>4. step' = [step EXCEPT ![r] = "idle"] /\ amount' = [amount EXCEPT ![r] = 0]
  BY DEF Release
<1>5. step' \in [Request -> {"idle", "lock", "read", "decide"}]
  BY <1>2, <1>4
<1>6. amount' \in [Request -> 0..MaxAmount]
  BY <1>1, <1>2, <1>4
<1>7. /\ \A q \in Request : amount'[q] = 0 <=> step'[q] = "idle"
      /\ \A q \in Request : step'[q] \notin {"read", "decide"}
  BY <1>2, <1>4
<1>8. who' \in [Request -> Scope]
  BY <1>1, <1>2 DEF Release
<1>9. as' \in [Request -> Role]
  BY <1>1, <1>2 DEF Release
<1>10. stamp' \in [Request -> 0..MaxTime]
  BY <1>1, <1>2 DEF Release
<1>11. DOMAIN seen' = Request
  BY DEF Release, TypeOK
<1> QED
  BY <1>3, <1>11, <1>5, <1>6, <1>7, <1>8, <1>9, <1>10

LEMMA TypeOKConsume ==
  ASSUME QuotaInv, NEW r \in Request, Consume(r)
  PROVE  TypeOK'
<1>1. Release(r) /\ step[r] = "decide" /\ uploads' = uploads + 1
  BY DEF Consume
<1>2. DOMAIN rows' \subseteq Scope \X Kind
  <2>1. DOMAIN rows' = DOMAIN rows \cup Checks(r)
    BY DEF Consume, Consumed
  <2> QED
    BY <2>1, ChecksInScope DEF QuotaInv, TypeOK
<1>3. ASSUME NEW c \in DOMAIN rows'
      PROVE  rows'[c].start \in 0..MaxTime /\ rows'[c].used \in Nat \ {0}
  <2> DEFINE b == Bucket(seen[r], c[1], c[2], stamp[r])
  <2>1. c \in Scope \X Kind
    BY <1>2
  <2>2. b.start \in 0..MaxTime /\ b.used \in Nat
    BY <1>1, <2>1, BucketExact
  <2>3. amount[r] \in Nat /\ amount[r] # 0
    BY <1>1, Times DEF QuotaInv, TypeOK
  <2>4. CASE c \in Checks(r)
    <3>1. rows'[c].start = b.start /\ rows'[c].used = b.used + amount[r]
      BY <2>1, <2>4, Written DEF QuotaInv
    <3> HIDE DEF b
    <3> QED
      BY <2>2, <2>3, <3>1
  <2>5. CASE c \notin Checks(r)
    <3>1. c \in DOMAIN rows /\ rows'[c] = rows[c]
      BY <2>1, <2>5, Written DEF QuotaInv
    <3> QED
      BY <3>1 DEF QuotaInv, TypeOK
  <2> QED
    BY <2>4, <2>5
<1>4. accepted' \in [Scope \X Kind -> [0..MaxTime -> Nat]]
  <2>1. \A c \in Scope \X Kind : \A t \in 0..MaxTime :
          accepted[c][t] + (IF c \in Checks(r) /\ Counts(c[2], stamp[r], t) THEN amount[r] ELSE 0) \in Nat
    BY Times DEF QuotaInv
  <2> QED
    BY <2>1 DEF Consume, Counted
<1>5. uploads' \in Nat
  BY <1>1 DEF QuotaInv, TypeOK
<1> QED
  BY <1>1, <1>2, <1>3, <1>4, <1>5, ReleaseTypes DEF QuotaInv, TypeOK

LEMMA ConsumeStep ==
  ASSUME QuotaInv, NEW r \in Request, Consume(r)
  PROVE  QuotaInv'
<1>1. /\ Release(r) /\ step[r] = "decide"
      /\ now' = now /\ config' = config
      /\ stamp[r] <= now /\ Past(now) /\ now \in Nat /\ stamp[r] \in Nat
  BY Times DEF Consume, Release, QuotaInv, ReadIsCurrent
<1>2. TypeOK'
  BY TypeOKConsume
<1>3. ASSUME NEW c \in Scope \X Kind
      PROVE  /\ Exact(c)'
             /\ \A x \in 0..MaxTime : x > now => accepted'[c][x] = 0
             /\ c \in DOMAIN rows' => /\ rows'[c].start <= now
                                      /\ c[2] # "window" => Start[c[2]][rows'[c].start] = rows'[c].start
  <2> DEFINE b == Bucket(seen[r], c[1], c[2], stamp[r])
  <2>1. /\ b.start \in 0..MaxTime /\ b.start <= stamp[r]
        /\ c[2] # "window" => b.start = Start[c[2]][stamp[r]]
    BY <1>1, BucketExact
  <2>2. \A x \in 0..MaxTime : x > now => accepted[c][x] = 0
    BY <1>1 DEF Past
  <2>3. CASE c \in Checks(r)
    <3>1. /\ accepted'[c][b.start] = b.used + amount[r]
          /\ \A t \in 0..MaxTime : Over(c, b.start, t) => accepted'[c][t] = 0
          /\ \A t \in 0..MaxTime : t > stamp[r] => accepted'[c][t] = accepted[c][t]
      BY <2>3, AcceptedExact
    <3>2. /\ c \in DOMAIN rows'
          /\ rows'[c].start = b.start /\ rows'[c].used = b.used + amount[r]
      BY <2>3, Written DEF QuotaInv
    <3>3. c[2] # "window" => Start[c[2]][b.start] = b.start
      BY <2>1, Kinds, CalendarFacts, Times DEF QuotaInv
    <3> HIDE DEF b
    <3>4. Exact(c)'
      BY <1>1, <2>1, <3>1, <3>2 DEF Exact, Over
    <3>5. ASSUME NEW x \in 0..MaxTime, x > now PROVE accepted'[c][x] = 0
      <4>1. x > stamp[r] /\ accepted[c][x] = 0
        BY <1>1, <2>2, <3>5
      <4> QED
        BY <3>1, <4>1
    <3>6. rows'[c].start <= now
      BY <1>1, <2>1, <3>2
    <3> QED
      BY <3>2, <3>3, <3>4, <3>5, <3>6
  <2>4. CASE c \notin Checks(r)
    <3>1. /\ c \in DOMAIN rows' <=> c \in DOMAIN rows
          /\ c \in DOMAIN rows => rows'[c] = rows[c]
          /\ \A t \in 0..MaxTime : accepted'[c][t] = accepted[c][t]
      BY <2>4, Written DEF QuotaInv
    <3>2. Exact(c)'
      BY <1>1, <3>1, ExactKept DEF QuotaInv, Counters, TypeOK
    <3> QED
      BY <1>1, <2>2, <3>1, <3>2 DEF Past, QuotaInv, Started
  <2> QED
    BY <2>3, <2>4
<1>4. Started' /\ Counters' /\ Past(now)'
  BY <1>1, <1>2, <1>3 DEF Started, Counters, Past, TypeOK
<1>5. ReadIsCurrent'
  <2>1. \A q \in Request : step'[q] # "decide"
    BY <1>1, OneDecides DEF Release, QuotaInv, TypeOK
  <2> QED
    BY <2>1 DEF ReadIsCurrent
<1> QED
  BY <1>2, <1>4, <1>5 DEF QuotaInv

\* A step that accepts nothing and touches neither counters nor limits.
LEMMA CountersKept ==
  ASSUME QuotaInv, UNCHANGED <<config, rows, accepted>>, now' \in Nat, now' >= now
  PROVE  Started' /\ Counters' /\ Past(now)'
<1>1. now \in Nat /\ MaxTime \in Nat /\ \A c \in DOMAIN rows : rows[c].start \in Nat
  BY Times DEF QuotaInv
<1>2. Counters'
  BY ExactKept DEF QuotaInv, Counters, TypeOK
<1>3. ASSUME NEW c \in Scope \X Kind
      PROVE  /\ \A x \in 0..MaxTime : x > now' => accepted'[c][x] = 0
             /\ c \in DOMAIN rows' => rows'[c].start <= now'
  BY <1>1, <1>3 DEF QuotaInv, Past
<1>4. Past(now)'
  BY <1>3 DEF Past
<1>5. Started'
  BY DEF QuotaInv, Started
<1> QED
  BY <1>2, <1>4, <1>5

\* The counters are read under the lock.
LEMMA ReadStep ==
  ASSUME QuotaInv, NEW r \in Request, Read(r)
  PROVE  QuotaInv'
<1>1. now \in Nat /\ now' = now /\ now \in 0..MaxTime
  BY Times DEF Read, QuotaInv, TypeOK
<1>2. Started' /\ Counters' /\ Past(now)'
  BY <1>1, CountersKept DEF Read, tables, history
<1>3. TypeOK'
  <2>1. step' = [step EXCEPT ![r] = "decide"] /\ step[r] = "read"
    BY DEF Read
  <2>2. /\ step' \in [Request -> {"idle", "lock", "read", "decide"}]
        /\ \A q \in Request : step'[q] \in {"read", "decide"} => lock = q
        /\ \A q \in Request : amount[q] = 0 <=> step'[q] = "idle"
    BY <2>1 DEF QuotaInv, TypeOK
  <2>3. stamp' \in [Request -> 0..MaxTime]
    BY <1>1 DEF Read, QuotaInv, TypeOK
  <2> QED
    BY <2>2, <2>3 DEF Read, QuotaInv, TypeOK, tables, history
<1>4. ASSUME NEW q \in Request, step'[q] = "decide"
      PROVE  seen'[q] = rows' /\ stamp'[q] <= now' /\ Past(stamp[q])'
  <2>1. step[r] = "read" /\ step[q] \in {"read", "decide"}
    BY <1>4 DEF Read, QuotaInv, TypeOK
  <2>2. q = r
    BY <2>1, OneDecides DEF QuotaInv
  <2>3. stamp'[q] = now /\ seen'[q] = rows /\ rows' = rows
    BY <2>2 DEF Read, QuotaInv, TypeOK, tables
  <2> QED
    BY <1>1, <1>2, <2>3 DEF Past
<1> QED
  BY <1>2, <1>3, <1>4 DEF QuotaInv, ReadIsCurrent

\* Other steps of requests, and the clock, leave what was read as it is.
LEMMA QuietStep ==
  ASSUME QuotaInv, UNCHANGED <<config, rows, accepted, seen, stamp>>, TypeOK', now' >= now,
         \A q \in Request : step'[q] = "decide" => step[q] = "decide"
  PROVE  QuotaInv'
<1>1. now \in Nat /\ now' \in Nat
  BY BoundAssumption DEF QuotaInv, TypeOK
<1>2. Started' /\ Counters' /\ Past(now)'
  BY <1>1, CountersKept
<1>3. ASSUME NEW q \in Request, step'[q] = "decide"
      PROVE  seen'[q] = rows' /\ stamp'[q] <= now' /\ Past(stamp[q])'
  <2>1. seen[q] = rows /\ stamp[q] <= now /\ Past(stamp[q])
    BY <1>3 DEF QuotaInv, ReadIsCurrent
  <2>2. stamp[q] \in Nat
    BY BoundAssumption DEF QuotaInv, TypeOK
  <2> QED
    BY <1>1, <2>1, <2>2 DEF Past
<1> QED
  BY <1>2, <1>3 DEF QuotaInv, ReadIsCurrent

\* A refused or rolled-back upload: the request is released, nothing else moves.
LEMMA ReleaseStep ==
  ASSUME QuotaInv, NEW r \in Request, step[r] = "decide", Release(r),
         UNCHANGED <<rows, accepted, uploads>>
  PROVE  QuotaInv'
<1>1. now' = now /\ config' = config /\ now \in Nat
  BY Times DEF Release, QuotaInv
<1>2. TypeOK'
  BY ReleaseTypes DEF QuotaInv, TypeOK
<1>3. Started' /\ Counters' /\ Past(now)'
  BY <1>1, CountersKept
<1>4. ReadIsCurrent'
  <2>1. \A q \in Request : step'[q] # "decide"
    BY OneDecides DEF Release, QuotaInv, TypeOK
  <2> QED
    BY <2>1 DEF ReadIsCurrent
<1> QED
  BY <1>2, <1>3, <1>4 DEF QuotaInv

LEMMA UploadStep ==
  ASSUME QuotaInv, NEW r \in Request, NEW u \in User, NEW n \in 1..MaxAmount, Upload(r, u, n)
  PROVE  QuotaInv'
<1>1. n \in 0..MaxAmount /\ n # 0 /\ u \in Scope /\ role[u] \in Role
  BY BoundAssumption DEF Scope, QuotaInv, TypeOK
<1>2. step' = [step EXCEPT ![r] = "lock"] /\ amount' = [amount EXCEPT ![r] = n]
  BY DEF Upload
<1>3. /\ step' \in [Request -> {"idle", "lock", "read", "decide"}]
      /\ amount' \in [Request -> 0..MaxAmount]
      /\ \A q \in Request : step'[q] \in {"read", "decide"} => lock = q
      /\ \A q \in Request : amount'[q] = 0 <=> step'[q] = "idle"
  BY <1>1, <1>2 DEF QuotaInv, TypeOK
<1>4. who' \in [Request -> Scope]
  BY <1>1 DEF Upload, QuotaInv, TypeOK
<1>5. as' \in [Request -> Role]
  BY <1>1 DEF Upload, QuotaInv, TypeOK
<1>6. TypeOK'
  BY <1>3, <1>4, <1>5 DEF Upload, QuotaInv, TypeOK, tables, history
<1>7. \A q \in Request : step'[q] = "decide" => step[q] = "decide"
  BY <1>2 DEF QuotaInv, TypeOK
<1>8. now' = now /\ now \in Nat
  BY Times DEF Upload, QuotaInv
<1> QED
  BY <1>6, <1>7, <1>8, QuietStep DEF Upload, tables, history

LEMMA LockStep ==
  ASSUME QuotaInv, NEW r \in Request, Lock(r)
  PROVE  QuotaInv'
<1>1. step' = [step EXCEPT ![r] = "read"] /\ step[r] = "lock" /\ lock = Nobody /\ lock' = r
  BY DEF Lock
<1>2. \A q \in Request : step[q] \notin {"read", "decide"}
  BY <1>1, ScopeAssumption DEF QuotaInv, TypeOK
<1>3. /\ step' \in [Request -> {"idle", "lock", "read", "decide"}]
      /\ \A q \in Request : step'[q] \in {"read", "decide"} => lock' = q
      /\ \A q \in Request : amount[q] = 0 <=> step'[q] = "idle"
      /\ \A q \in Request : step'[q] = "decide" => step[q] = "decide"
  BY <1>1, <1>2 DEF QuotaInv, TypeOK
<1>4. TypeOK'
  BY <1>1, <1>3 DEF Lock, QuotaInv, TypeOK, tables, history
<1>5. now' = now /\ now \in Nat
  BY Times DEF Lock, QuotaInv
<1> QED
  BY <1>3, <1>4, <1>5, QuietStep DEF Lock, tables, history

\* A settings edit: the window counters and what they stand for are cleared together,
\* or the window has the length it had; calendar counters stay.
LEMMA SettingsStep ==
  ASSUME QuotaInv, NEW c \in Config, SaveSettings(c)
  PROVE  QuotaInv'
<1>1. /\ UNCHANGED <<now, role, lock, requests, uploads>> /\ config' = c
      /\ lock = Nobody /\ now \in Nat /\ MaxTime \in Nat
  BY Times DEF SaveSettings, QuotaInv
<1>2. ReadIsCurrent'
  <2>1. \A q \in Request : step'[q] # "decide"
    BY <1>1, ScopeAssumption DEF QuotaInv, TypeOK, requests
  <2> QED
    BY <2>1 DEF ReadIsCurrent
<1>3. CASE WindowPart(c) # WindowPart(config)
  <2>1. /\ rows' = [k \in {x \in DOMAIN rows : x[2] # "window"} |-> rows[k]]
        /\ accepted' = [k \in Scope \X Kind |->
                       IF k[2] = "window" THEN [t \in 0..MaxTime |-> 0] ELSE accepted[k]]
        /\ clears' = clears + 1
    BY <1>3 DEF SaveSettings
  <2>2. accepted' \in [Scope \X Kind -> [0..MaxTime -> Nat]]
    BY <2>1 DEF QuotaInv, TypeOK
  <2>3. TypeOK'
    <3>1. /\ DOMAIN rows' \subseteq Scope \X Kind
          /\ \A k \in DOMAIN rows' : rows'[k].start \in 0..MaxTime /\ rows'[k].used \in Nat \ {0}
      BY <2>1 DEF QuotaInv, TypeOK
    <3>2. clears' \in Nat
      BY <2>1 DEF QuotaInv, TypeOK
    <3> QED
      BY <1>1, <2>2, <3>1, <3>2 DEF QuotaInv, TypeOK, requests
  <2>4. ASSUME NEW k \in Scope \X Kind
        PROVE  /\ Exact(k)'
               /\ \A x \in 0..MaxTime : x > now => accepted'[k][x] = 0
               /\ k \in DOMAIN rows' => rows'[k].start <= now
    <3>1. Exact(k) /\ Past(now)
      BY DEF QuotaInv, Counters
    <3>2. CASE k[2] = "window"
      <4>1. k \notin DOMAIN rows' /\ \A x \in 0..MaxTime : accepted'[k][x] = 0
        BY <2>1, <3>2
      <4> QED
        BY <4>1 DEF Exact
    <3>3. CASE k[2] # "window"
      <4>1. /\ accepted'[k] = accepted[k]
            /\ k \in DOMAIN rows' <=> k \in DOMAIN rows
            /\ k \in DOMAIN rows => rows'[k] = rows[k]
        BY <2>1, <3>3
      <4>2. Exact(k)'
        BY <3>1, <3>3, <4>1 DEF Exact, Over
      <4> QED
        BY <3>1, <4>1, <4>2 DEF Past
    <3> QED
      BY <3>2, <3>3
  <2>5. Counters' /\ Past(now)'
    BY <1>1, <2>4 DEF Counters, Past
  <2>6. Started'
    BY <2>1 DEF QuotaInv, Started
  <2> QED
    BY <1>2, <2>3, <2>5, <2>6 DEF QuotaInv
<1>4. CASE WindowPart(c) = WindowPart(config)
  <2>1. UNCHANGED <<rows, accepted, clears>>
    BY <1>4 DEF SaveSettings
  <2>2. config'.window = config.window
    BY <1>1, <1>4 DEF WindowPart
  <2>3. TypeOK'
    BY <1>1, <2>1 DEF QuotaInv, TypeOK, requests
  <2>4. Counters'
    BY <2>1, <2>2, ExactKept DEF QuotaInv, Counters, TypeOK
  <2>5. Started' /\ Past(now)'
    BY <1>1, <2>1 DEF QuotaInv, Started, Past
  <2> QED
    BY <1>2, <2>3, <2>4, <2>5 DEF QuotaInv
<1> QED
  BY <1>3, <1>4

LEMMA QuotaInvStep ==
  ASSUME QuotaInv, [Next]_vars
  PROVE  QuotaInv'
<1>1. now \in Nat /\ MaxTime \in Nat
  BY Times DEF QuotaInv
<1>2. CASE Tick
  <2>1. now' \in 0..MaxTime
    BY <1>1, <1>2 DEF Tick
  <2>2. TypeOK'
    BY <1>2, <2>1 DEF Tick, QuotaInv, TypeOK, tables, requests, history
  <2> QED
    BY <1>1, <1>2, <2>2, QuietStep DEF Tick, tables, requests, history
<1>3. ASSUME NEW r \in Request, Step(r) PROVE QuotaInv'
  <2>1. CASE Refuse(r) \/ RollBack(r)
    BY <2>1, ReleaseStep DEF Refuse, RollBack
  <2> QED
    BY <1>3, <2>1, LockStep, ReadStep, ConsumeStep DEF Step
<1>4. ASSUME NEW r \in Request, NEW u \in User, NEW n \in 1..MaxAmount, Upload(r, u, n)
      PROVE  QuotaInv'
  BY <1>4, UploadStep
<1>5. ASSUME NEW c \in Config, SaveSettings(c) PROVE QuotaInv'
  BY <1>5, SettingsStep
<1>6. ASSUME NEW u \in User, ChangeRole(u) PROVE QuotaInv'
  <2>1. role' \in [User -> Role]
    BY <1>6 DEF ChangeRole, QuotaInv, TypeOK, Role
  <2>2. TypeOK'
    BY <1>6, <2>1 DEF ChangeRole, QuotaInv, TypeOK, requests, history
  <2> QED
    BY <1>1, <1>6, <2>2, QuietStep DEF ChangeRole, requests, history
<1>7. CASE UNCHANGED vars
  <2>1. TypeOK'
    BY <1>7 DEF vars, QuotaInv, TypeOK, tables, requests, history
  <2> QED
    BY <1>1, <1>7, <2>1, QuietStep DEF vars, tables, requests, history
<1> QED
  BY <1>2, <1>3, <1>4, <1>5, <1>6, <1>7 DEF Next

LEMMA QuotaInvInit ==
  ASSUME Init
  PROVE  QuotaInv
<1>1. /\ rows = Empty /\ now = 0 /\ MaxTime \in Nat /\ MaxAmount \in Nat
      /\ accepted = [c \in Scope \X Kind |-> [t \in 0..MaxTime |-> 0]]
  BY BoundAssumption DEF Init
<1>2. DOMAIN rows = {}
  BY <1>1 DEF Empty
<1>3. accepted \in [Scope \X Kind -> [0..MaxTime -> Nat]]
  BY <1>1
<1>4. TypeOK
  BY <1>1, <1>2, <1>3 DEF Init, TypeOK, Scope, Role
<1>5. Started /\ Counters /\ Past(now)
  BY <1>1, <1>2 DEF Started, Counters, Exact, Past
<1>6. ReadIsCurrent
  BY DEF Init, ReadIsCurrent
<1> QED
  BY <1>4, <1>5, <1>6 DEF QuotaInv

\* The bookkeeping of consume_job_quota is sound in every reachable state.
THEOREM QuotaInvariance == Spec => []QuotaInv
<1>1. Init => QuotaInv
  BY QuotaInvInit
<1>2. QuotaInv /\ [Next]_vars => QuotaInv'
  BY QuotaInvStep
<1> QED
  BY <1>1, <1>2, PTL DEF Spec

\* Counters and history agree for every set of accounts, every calendar, every
\* limit and every length of a run: no charge of consume_job_quota is lost or
\* made twice.
THEOREM CountersAreExact == Spec => []UsageExact
<1>1. QuotaInv => UsageExact
  BY DEF QuotaInv, Counters, UsageExact
<1> QED
  BY <1>1, QuotaInvariance, PTL

\* An upload that consume_job_quota accepts leaves every window and every calendar
\* period within the limit in force, for the account and for the panel.
THEOREM LimitsHold == Spec => LimitsKept
<1> DEFINE Kept == \A r \in Request :
             step[r] = "decide" /\ step'[r] # "decide" /\ uploads' # uploads =>
               \A s \in {who[r], Panel}, k \in Kind :
                 LET limit == Limit(s, k, as[r])
                     from  == IF k = "window" THEN rows'[<<s, k>>].start
                                              ELSE PeriodStart(k, stamp[r])
                 IN  limit > 0 => accepted'[<<s, k>>][from] <= limit
<1>1. ASSUME QuotaInv, [Next]_vars PROVE [Kept]_vars
  <2> SUFFICES ASSUME NEW r \in Request, step[r] = "decide", uploads' # uploads,
                      NEW s \in {who[r], Panel}, NEW k \in Kind, Limit(s, k, as[r]) > 0
               PROVE  accepted'[<<s, k>>][IF k = "window" THEN rows'[<<s, k>>].start
                                                          ELSE PeriodStart(k, stamp[r])]
                        <= Limit(s, k, as[r])
    OBVIOUS
  <2> DEFINE c == <<s, k>>
             b == Bucket(seen[r], s, k, stamp[r])
             l == Limit(s, k, as[r])
  <2>1. PICK q \in Request : Consume(q)
    BY <1>1 DEF Next, Step, vars, Tick, Upload, Lock, Read, Refuse, RollBack, SaveSettings,
                ChangeRole, history
  <2>2. Consume(r)
    <3>1. q = r
      <4>1. step[q] = "decide"
        BY <2>1 DEF Consume
      <4> QED
        BY <1>1, <4>1, OneDecides DEF QuotaInv
    <3> QED
      BY <2>1, <3>1
  <2>3. c \in Checks(r) /\ c[1] = s /\ c[2] = k
    BY DEF Checks
  <2>4. c \in Scope \X Kind /\ TypeOK
    BY <1>1, <2>3, ChecksInScope DEF QuotaInv
  <2>5. /\ b.used \in Nat /\ b.start \in 0..MaxTime
        /\ k # "window" => b.start = Start[k][stamp[r]]
    BY <1>1, <2>3, <2>4, BucketExact
  <2>6. accepted'[c][b.start] = b.used + amount[r]
    BY <1>1, <2>2, <2>3, AcceptedExact
  <2>7. stamp[r] \in 0..MaxTime /\ amount[r] \in Nat /\ MaxTime \in Nat /\ l \in Nat
    <3>1. config \in Config /\ as[r] \in Role
      BY <2>4 DEF TypeOK
    <3>2. config.limit \in [Role \cup {"panel"} -> [Kind -> Nat]]
      BY <3>1, ConfigAssumption
    <3>3. l \in Nat
      BY <3>1, <3>2 DEF Limit
    <3> QED
      BY <2>4, <3>3, Times
  <2>8. b.used + amount[r] <= l
    <3>1. ~Exceeded(r)
      BY <2>2 DEF Consume
    <3>2. ~(b.used + amount[r] > l)
      BY <2>3, <3>1 DEF Exceeded
    <3> DEFINE x == b.used
    <3>3. x \in Nat /\ ~(x + amount[r] > l)
      BY <2>5, <3>2
    <3> HIDE DEF x, l
    <3>4. x + amount[r] <= l
      BY <2>7, <3>3
    <3> QED
      BY <3>4 DEF x
  <2>9. rows'[c].start = b.start
    BY <2>2, <2>3, <2>4, Written
  <2> QED
    BY <2>5, <2>6, <2>8, <2>9 DEF PeriodStart
<1> QED
  BY <1>1, QuotaInvariance, PTL DEF Spec, LimitsKept

(***************************************************************************)
(* The pacing gate                                                         *)
(***************************************************************************)

\* The later of two times is one of them and not before either.
LEMMA LaterBounds ==
  ASSUME NEW a \in Nat, NEW b \in Nat
  PROVE  Later(a, b) \in Nat /\ Later(a, b) >= a /\ Later(a, b) >= b
BY DEF Later

\* One interval more: the only multiplication the proof needs.
LEMMA OneMore ==
  ASSUME NEW n \in Int
  PROVE  Interval * (n + 1) = Interval * n + Interval /\ Interval * 0 = 0
BY IntervalAssumption

LEMMA GateInit ==
  ASSUME ThrottleInit
  PROVE  IndInv
<1>1. ThrottleTypeOK
  <2>1. sends \in Seq(0..MaxClock)
    BY DEF ThrottleInit
  <2>2. /\ monotonic \in 0..MaxClock /\ canceled \in BOOLEAN
        /\ blockedUntil \in Nat /\ nextSlot \in Nat
        /\ waiting \subseteq Thread
        /\ pauses \subseteq [from : Nat, until : Nat]
    BY DEF ThrottleInit
  <2> QED
    BY <2>1, <2>2 DEF ThrottleTypeOK
<1>2. Len(sends) = 0 /\ pauses = {}
  BY DEF ThrottleInit
<1>3. Gate /\ Paced /\ PausesKept
  BY <1>2 DEF Gate, Paced, PausesKept
<1> QED
  BY <1>1, <1>3 DEF IndInv

\* What a step that lets no request through and asks for no pause leaves alone.
LEMMA GateQuietStep ==
  ASSUME IndInv, ThrottleTypeOK', monotonic' >= monotonic,
         UNCHANGED <<blockedUntil, nextSlot, sends, pauses>>
  PROVE  IndInv'
<1>1. Gate'
  <2>1. /\ monotonic \in Nat /\ monotonic' \in Nat
        /\ \A i \in 1..Len(sends) : sends[i] \in Nat
        /\ \A p \in pauses : p.from \in Nat
    BY ClockAssumption DEF IndInv, ThrottleTypeOK
  <2>2. \A i \in 1..Len(sends) : sends[i] <= monotonic'
    BY <2>1 DEF IndInv, Gate
  <2>3. \A p \in pauses : p.from <= monotonic'
    BY <2>1 DEF IndInv, Gate
  <2> QED
    BY <2>2, <2>3 DEF IndInv, Gate
<1>2. Paced' /\ PausesKept'
  BY DEF IndInv, Paced, PausesKept
<1> QED
  BY <1>1, <1>2 DEF IndInv

LEMMA PassStep ==
  ASSUME IndInv, NEW t \in Thread, Pass(t)
  PROVE  IndInv'
<1> DEFINE n == Len(sends)
<1>1. /\ monotonic \in Nat /\ monotonic \in 0..MaxClock /\ blockedUntil \in Nat /\ nextSlot \in Nat
      /\ sends \in Seq(0..MaxClock) /\ n \in Nat
      /\ \A i \in 1..n : sends[i] \in Nat
      /\ Interval \in Nat
  BY IntervalAssumption, ClockAssumption DEF IndInv, ThrottleTypeOK
<1>2. monotonic >= nextSlot /\ monotonic >= blockedUntil
  BY <1>1, LaterBounds DEF Pass, Later
<1>3. /\ Len(sends') = n + 1
      /\ sends'[n + 1] = monotonic
      /\ \A i \in 1..n : sends'[i] = sends[i]
      /\ sends' \in Seq(0..MaxClock)
  BY <1>1 DEF Pass
<1>4. /\ nextSlot' = monotonic + Interval
      /\ UNCHANGED <<monotonic, blockedUntil, canceled, pauses>>
  BY <1>1, <1>2 DEF Pass, Later
<1>5. ThrottleTypeOK'
  BY <1>1, <1>3, <1>4 DEF IndInv, ThrottleTypeOK, Pass
<1>6. \A i \in 1..n : sends[i] + Interval * (n + 1 - i) <= nextSlot
  BY DEF IndInv, Gate
<1>7. Gate'
  <2>1. ASSUME NEW i \in 1..(n + 1)
        PROVE  sends'[i] <= monotonic /\ sends'[i] + Interval * (n + 1 + 1 - i) <= monotonic + Interval
    <3>1. CASE i = n + 1
      BY <1>1, <1>3, <3>1, OneMore
    <3>2. CASE i \in 1..n
      <4>1. Interval * ((n + 1 - i) + 1) = Interval * (n + 1 - i) + Interval
        BY <1>1, <3>2, OneMore
      <4>2. (n + 1 - i) + 1 = n + 1 + 1 - i
        BY <1>1, <3>2
      <4>3. Interval * (n + 1 - i) \in Nat
        BY <1>1, <3>2
      <4>4. sends[i] <= monotonic
        BY <3>2 DEF IndInv, Gate
      <4> QED
        BY <1>1, <1>2, <1>3, <1>6, <3>2, <4>1, <4>2, <4>3, <4>4
    <3> QED
      BY <1>1, <3>1, <3>2
  <2> QED
    BY <1>1, <1>3, <1>4, <2>1 DEF IndInv, Gate
<1>8. Paced'
  <2> SUFFICES ASSUME NEW i \in 1..(n + 1), NEW k \in 1..(n + 1), i <= k
               PROVE  sends'[i] + Interval * (k - i) <= sends'[k]
    BY <1>3 DEF Paced
  <2>1. CASE k \in 1..n
    <3>1. i \in 1..n
      BY <1>1, <2>1
    <3> QED
      BY <1>3, <2>1, <3>1 DEF IndInv, Paced
  <2>2. CASE k = n + 1 /\ i \in 1..n
    BY <1>1, <1>2, <1>3, <1>6, <2>2
  <2>3. CASE k = n + 1 /\ i = n + 1
    <3>1. k - i = 0
      BY <1>1, <2>3
    <3> QED
      BY <1>1, <1>3, <2>3, <3>1, OneMore
  <2> QED
    BY <1>1, <2>1, <2>2, <2>3
<1>9. PausesKept'
  <2>1. \A p \in pauses : p.until <= monotonic /\ p.until \in Nat
    BY <1>1, <1>2 DEF IndInv, Gate, ThrottleTypeOK
  <2> QED
    BY <1>1, <1>3, <1>4, <2>1 DEF IndInv, PausesKept
<1> QED
  BY <1>5, <1>7, <1>8, <1>9 DEF IndInv

LEMMA PenaliseStep ==
  ASSUME IndInv, NEW t \in Thread, NEW d \in Delay, Penalise(t, d)
  PROVE  IndInv'
<1>1. monotonic \in Nat /\ blockedUntil \in Nat /\ d \in Nat /\ monotonic + d \in Nat
  BY DelayAssumption, ClockAssumption DEF IndInv, ThrottleTypeOK
<1>2. blockedUntil' \in Nat /\ blockedUntil' >= blockedUntil /\ blockedUntil' >= monotonic + d
  BY <1>1, LaterBounds DEF Penalise
<1>3. ThrottleTypeOK'
  BY <1>1, <1>2 DEF IndInv, ThrottleTypeOK, Penalise
<1>4. Gate'
  BY <1>1, <1>2 DEF IndInv, ThrottleTypeOK, Gate, Penalise
<1>5. Paced'
  BY DEF IndInv, Paced, Penalise
<1>6. PausesKept'
  <2>1. \A i \in 1..Len(sends) : sends[i] <= monotonic /\ sends[i] \in Nat
    BY ClockAssumption DEF IndInv, Gate, ThrottleTypeOK
  <2> QED
    BY <1>1, <2>1 DEF IndInv, PausesKept, Penalise
<1> QED
  BY <1>3, <1>4, <1>5, <1>6 DEF IndInv

LEMMA GateStep ==
  ASSUME IndInv, [ThrottleNext]_throttleVars
  PROVE  IndInv'
<1>1. monotonic \in Nat
  BY ClockAssumption DEF IndInv, ThrottleTypeOK
<1>2. CASE ThrottleTick
  BY <1>1, <1>2, GateQuietStep, ClockAssumption DEF ThrottleTick, IndInv, ThrottleTypeOK
<1>3. CASE Cancel
  BY <1>1, <1>3, GateQuietStep DEF Cancel, IndInv, ThrottleTypeOK
<1>4. ASSUME NEW t \in Thread, Enter(t) \/ GiveUp(t) PROVE IndInv'
  BY <1>1, <1>4, GateQuietStep DEF Enter, GiveUp, IndInv, ThrottleTypeOK
<1>5. ASSUME NEW t \in Thread, Pass(t) PROVE IndInv'
  BY <1>5, PassStep
<1>6. ASSUME NEW t \in Thread, NEW d \in Delay, Penalise(t, d) PROVE IndInv'
  BY <1>6, PenaliseStep
<1>7. CASE UNCHANGED throttleVars
  BY <1>1, <1>7, GateQuietStep DEF throttleVars, IndInv, ThrottleTypeOK
<1> QED
  BY <1>2, <1>3, <1>4, <1>5, <1>6, <1>7 DEF ThrottleNext

\* The gate's bookkeeping is sound in every reachable state.
THEOREM GateInvariance == ThrottleSpec => []IndInv
<1>1. ThrottleInit => IndInv
  BY GateInit
<1>2. IndInv /\ [ThrottleNext]_throttleVars => IndInv'
  BY GateStep
<1> QED
  BY <1>1, <1>2, PTL DEF ThrottleSpec

\* Requests of one job never exceed the configured rate, over any stretch of them:
\* Throttle.wait hands out slots one interval apart and saves none up.
THEOREM RateIsKept == ThrottleSpec => []Paced
<1>1. IndInv => Paced
  BY DEF IndInv
<1> QED
  BY <1>1, GateInvariance, PTL

\* No request is sent during a pause that Throttle.penalise was asked for.
THEOREM PausesAreKept == ThrottleSpec => []PausesKept
<1>1. IndInv => PausesKept
  BY DEF IndInv
<1> QED
  BY <1>1, GateInvariance, PTL
=============================================================================
