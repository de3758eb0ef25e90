----------------------------- MODULE MfaProofs -----------------------------
(***************************************************************************)
(* The second factor proved for any number of requests and challenges and  *)
(* for every length and limit: codes are accepted once and in order, an    *)
(* enrolment leaves no unproven token, both budgets and the emails stay    *)
(* limited, a code that is kept was sent, and one that reached its owner   *)
(* stays good.                                                             *)
(***************************************************************************)
EXTENDS Mfa, FiniteSetTheorems, TLAPS

-----------------------------------------------------------------------------
(* The inductive invariant *)

Codes == [kind : {"totp", "email", "recovery", "wrong"},
          of : Challenge \cup {None} \cup Nat,
          nr : Int \cup RecoveryNr]

AccountTypes ==
  /\ now \in Nat /\ version \in Version /\ active \in BOOLEAN
  /\ tokens \subseteq BOOLEAN
  /\ faults \in Nat

FactorTypes ==
  /\ method \in Method \cup {""} /\ secret \in Challenge \cup {None}
  /\ lastStep \in Int
  /\ recovery \subseteq Recoveries
  /\ accepted \in Seq(Codes)

RequestTypes ==
  /\ pc \in [Request -> {"idle", "begin", "deliver", "forget"}]
  /\ seen \in [Request -> Version] /\ mailing \in [Request -> Challenge \cup {None}]
  /\ delivered \subseteq Challenge /\ lost \subseteq Challenge

\* A budget counts its last failures; those before them lie a lock's length behind
\* now, or behind the end of the lock that they have caused.
Budget(s) ==
  /\ failures[s] <= Len(wrong[s])
  /\ \A i \in 1..Len(wrong[s]) : wrong[s][i] <= now
  /\ \A i \in 1..(Len(wrong[s]) - failures[s]) :
       wrong[s][i] + LockTime <= now \/ wrong[s][i] + LockTime <= lockedUntil[s]
  /\ lockedUntil[s] > 0 => Len(wrong[s]) >= FailureLimit
  /\ Apart(wrong[s], FailureLimit, LockTime)

BudgetInv ==
  /\ failures \in [Scope -> 0..(FailureLimit - 1)] /\ lockedUntil \in [Scope -> Nat]
  /\ wrong \in [Scope -> Seq(Nat)]
  /\ \A s \in Scope : Budget(s)

\* The emails of the window come last, those before it not later than its start, and
\* those before the window before it lie a whole window behind its start.
MailInv ==
  /\ now >= SendWindow
  /\ nextSend \in Nat /\ sendWindow \in Nat /\ sendCount \in 0..SendLimit
  /\ sends \in Seq(Nat) /\ sendCount <= Len(sends)
  /\ sendCount = 0 => sends = <<>> /\ sendWindow = 0
  /\ sendWindow <= now
  /\ \A i \in 1..Len(sends) :
       /\ sends[i] <= now /\ sends[i] + SendGap <= nextSend
       /\ i <= Len(sends) - sendCount + 1 => sends[i] <= sendWindow
       /\ i <= Len(sends) - sendCount + 1 - SendLimit => sends[i] + SendWindow <= sendWindow
  /\ Apart(sends, 1, SendGap)
  /\ Apart(sends, 2 * SendLimit - 1, SendWindow)

\* One challenge of a purpose is kept, with an id that is not given away again; one
\* that has a code is for email, and one for signing in fits the factor while its
\* version is current.
RowInv ==
  /\ challenge \in [Challenge -> Row \cup {NoRow}] /\ issued \subseteq Challenge
  /\ \A c \in Held :
       /\ c \in issued
       /\ challenge[c].hash => challenge[c].method = "email"
       /\ challenge[c].purpose = "login" /\ challenge[c].version = version
            => challenge[c].method = method
       /\ challenge[c].version <= version
  /\ \A c, d \in Held : challenge[c].purpose = challenge[d].purpose => c = d

\* A code that was accepted cannot be accepted again: its challenge is gone for good,
\* and the secret has moved past its step or the recovery code is struck off.
Gone(c) == c \in issued /\ challenge[c] = NoRow

Spent(code) ==
  \/ \E c \in Challenge, t \in Int :
       code = Totp(c, t) /\ Gone(c) /\ (c = secret => t <= lastStep)
  \/ \E c \in Challenge : code = Email(c) /\ Gone(c)
  \/ \E v \in Version, n \in RecoveryNr :
       code = Recovery(v, n) /\ v < version /\ code \notin recovery

CodeInv ==
  /\ secret # None => Gone(secret)
  /\ \A code \in recovery : code.of < version
  /\ \A i \in 1..Len(accepted) : Spent(accepted[i])
  /\ CodesAcceptedOnce

\* Requests send codes of their own, each once.
Mailer(r) == pc[r] \in {"deliver", "forget"}

SendInv ==
  /\ delivered \subseteq issued
  /\ \A r \in Request : IF Mailer(r) THEN mailing[r] \in issued \ delivered ELSE mailing[r] = None
  /\ \A q, r \in Request : Mailer(q) /\ Mailer(r) /\ mailing[q] = mailing[r] => q = r
  /\ HashMeansSent

IndInv == /\ AccountTypes /\ FactorTypes /\ RequestTypes
          /\ BudgetInv /\ MailInv /\ RowInv /\ CodeInv /\ SendInv
          /\ TokensProven

-----------------------------------------------------------------------------
(* Lemmas *)

\* The constants as numbers.
LEMMA Limits ==
  /\ Life \in Nat /\ Life > 0 /\ FailureLimit \in Nat /\ FailureLimit > 0
  /\ LockTime \in Nat /\ LockTime > 0 /\ SendGap \in Nat /\ SendGap > 0
  /\ SendWindow \in Nat /\ SendWindow > 0 /\ SendLimit \in Nat /\ SendLimit > 0
  /\ MaxVersion \in Nat /\ MaxFaults \in Nat /\ MaxEvents \in Nat
BY LimitAssumption, BoundAssumption

\* A row that is there is no empty one.
LEMMA NoRowIsNoRow == NoRow \notin Row /\ NoRow.purpose \notin Purpose
BY DEF NoRow, Row, Purpose

-----------------------------------------------------------------------------
(* What a step can do to each part of the state *)

\* A budget moves by a failure while it is open, by a success, or by an unlock.
LEMMA BudgetSteps ==
  ASSUME AccountTypes, Next
  PROVE  \/ UNCHANGED budgets /\ now' \in {now, now + 1}
         \/ Unlock /\ now' = now
         \/ \E s \in Scope : Open(s) /\ Failed(s)
         \/ \E s \in Scope : ResetFailures(s) /\ now' = now
<1>1. ASSUME NEW r \in Request,
             \/ SignIn(r) \/ BeginLogin(r) \/ Sent(r) \/ NotSent(r) \/ Forget(r) \/ Die(r)
             \/ \E m \in Method : Setup(r, m)
             \/ ManagementEmail(r)
             \/ \E c \in Challenge : Resend(r, c)
      PROVE  (UNCHANGED budgets /\ now' = now) \/ (Open("manage") /\ Failed("manage"))
  BY <1>1 DEF SignIn, BeginLogin, Sent, NotSent, Forget, Die, Setup, ManagementEmail, Resend,
              MayManage
<1>2. ASSUME NEW code \in Code, NEW c \in Challenge \cup {None}, NEW b \in BOOLEAN,
             VerifyLogin(c, code) \/ Confirm(c, code) \/ ChangeMethod(c, code, b)
      PROVE  \E s \in Scope : \/ Open(s) /\ Failed(s)
                              \/ ResetFailures(s) /\ now' = now
  BY <1>2 DEF VerifyLogin, Confirm, ChangeMethod, MayManage, Scope
<1>3. ASSUME Purge \/ Tick \/ \E unlock \in BOOLEAN : ChangeUser(unlock)
      PROVE  (UNCHANGED budgets /\ now' \in {now, now + 1}) \/ (Unlock /\ now' = now)
  BY <1>3 DEF Purge, ChangeUser, Tick
<1>4. "manage" \in Scope
  BY DEF Scope
<1> QED
  BY <1>1, <1>2, <1>3, <1>4 DEF Next

\* Emails are counted when they are allowed.
LEMMA MailSteps ==
  ASSUME AccountTypes, Next
  PROVE  \/ UNCHANGED mail /\ now' \in {now, now + 1}
         \/ EmailAllowed /\ CountEmail /\ now' = now
<1>1. ASSUME NEW s \in Scope, Failed(s)
      PROVE  UNCHANGED mail /\ now' = now
  BY <1>1 DEF Failed
<1>2. "login" \in Scope /\ "manage" \in Scope
  BY DEF Scope
<1>3. ASSUME NEW r \in Request,
             \/ SignIn(r) \/ BeginLogin(r) \/ Sent(r) \/ NotSent(r) \/ Forget(r) \/ Die(r)
             \/ \E m \in Method : Setup(r, m)
             \/ ManagementEmail(r)
             \/ \E c \in Challenge : Resend(r, c)
      PROVE  (UNCHANGED mail /\ now' = now) \/ (EmailAllowed /\ CountEmail /\ now' = now)
  BY <1>1, <1>2, <1>3 DEF SignIn, BeginLogin, Sent, NotSent, Forget, Die, Setup,
                          ManagementEmail, Resend
<1>4. ASSUME NEW code \in Code, NEW c \in Challenge \cup {None}, NEW b \in BOOLEAN,
             VerifyLogin(c, code) \/ Confirm(c, code) \/ ChangeMethod(c, code, b)
      PROVE  UNCHANGED mail /\ now' = now
  BY <1>1, <1>2, <1>4 DEF VerifyLogin, Confirm, ChangeMethod
<1>5. ASSUME Purge \/ Tick \/ \E unlock \in BOOLEAN : ChangeUser(unlock)
      PROVE  UNCHANGED mail /\ now' \in {now, now + 1}
  BY <1>5 DEF Purge, ChangeUser, Tick
<1> QED
  BY <1>3, <1>4, <1>5 DEF Next

\* Rows that only go away, and all of them.
Shrinks == /\ challenge' \in [Challenge -> Row \cup {NoRow}]
           /\ \A c \in Challenge : challenge'[c] \in {challenge[c], NoRow}
           /\ UNCHANGED <<issued, method, version>>

Clears == challenge' = [c \in Challenge |-> NoRow] /\ version' = version + 1 /\ UNCHANGED issued

\* A row that loses its code.
Withdraws(r) == Forget(r) /\ UNCHANGED <<issued, method, version>>

\* A new row, which fits the factor if it is for signing in.
Creates(c, p, m, send) ==
  /\ CreateChallenge(c, p, m, send) /\ UNCHANGED <<now, method, version>>
  /\ p = "login" => m = method

LEMMA RowSteps ==
  ASSUME AccountTypes, RowInv, Next
  PROVE  \/ Shrinks
         \/ Clears
         \/ challenge' = challenge /\ version' = version + 1 /\ UNCHANGED <<issued, method>>
         \/ \E r \in Request : Withdraws(r)
         \/ \E c \in Challenge, p \in Purpose, m \in Method, send \in BOOLEAN :
              Creates(c, p, m, send)
<1> USE DEF Purpose, Method
<1>1. ASSUME NEW s \in Scope, Failed(s)
      PROVE  Shrinks
  BY <1>1 DEF Failed, Shrinks, RowInv, users, factor
<1>2. "login" \in Scope /\ "manage" \in Scope
  BY DEF Scope
<1>3. UNCHANGED <<challenge, issued, method, version>> => Shrinks
  BY DEF Shrinks, RowInv
<1>4. ASSUME NEW r \in Request, SignIn(r) \/ Sent(r) \/ NotSent(r) \/ Die(r)
      PROVE  Shrinks
  BY <1>3, <1>4 DEF SignIn, Sent, NotSent, Die, users, factor
<1>5. ASSUME NEW r \in Request, Forget(r)
      PROVE  Withdraws(r)
  BY <1>5 DEF Forget, Withdraws, users, factor
<1>6. ASSUME NEW r \in Request, BeginLogin(r)
      PROVE  \/ Shrinks
             \/ \E c \in Challenge, send \in BOOLEAN : method \in Method /\ Creates(c, "login", method, send)
  BY <1>3, <1>6 DEF BeginLogin, Creates, users, factor
<1>7. ASSUME NEW r \in Request, NEW m \in Method, Setup(r, m)
      PROVE  Shrinks \/ \E c \in Challenge : Creates(c, "enroll", m, TRUE)
  BY <1>1, <1>2, <1>7 DEF Setup, Creates, users, factor
<1>8. ASSUME NEW r \in Request, ManagementEmail(r)
      PROVE  Shrinks \/ \E c \in Challenge : Creates(c, "manage", "email", TRUE)
  BY <1>1, <1>2, <1>8 DEF ManagementEmail, Creates, users, factor
<1>9. ASSUME NEW r \in Request, NEW c \in Challenge, Resend(r, c)
      PROVE  \E d \in Challenge, p \in Purpose : Creates(d, p, "email", TRUE)
  <2>1. PICK p \in Purpose :
          /\ Usable(c, p) /\ challenge[c].method = "email"
          /\ \E d \in Challenge : CreateChallenge(d, p, "email", TRUE)
    BY <1>9 DEF Resend
  <2>2. c \in Held
    BY <2>1, NoRowIsNoRow DEF Usable, Held
  <2>3. p = "login" => "email" = method
    BY <2>1, <2>2 DEF Usable, RowInv
  <2> QED
    BY <1>9, <2>1, <2>3 DEF Resend, Creates, users, factor
<1>10. ASSUME NEW code \in Code, NEW c \in Challenge, VerifyLogin(c, code)
       PROVE  Shrinks
  <2>1. CASE Proves(code, c)
    BY <1>10, <2>1 DEF VerifyLogin, Shrinks, RowInv, users, factor
  <2>2. CASE ~Proves(code, c)
    BY <1>1, <1>2, <1>10, <2>2 DEF VerifyLogin
  <2> QED
    BY <2>1, <2>2
<1>11. ASSUME NEW code \in Code, NEW c \in Challenge \cup {None}, NEW b \in BOOLEAN,
              Confirm(c, code) \/ ChangeMethod(c, code, b)
       PROVE  Shrinks \/ Clears
  BY <1>1, <1>2, <1>11 DEF Confirm, ChangeMethod, RotateSession, Clears
<1>12. Purge => Shrinks
  BY DEF Purge, Shrinks, RowInv, users, factor
<1>13. ASSUME NEW unlock \in BOOLEAN, ChangeUser(unlock)
       PROVE  \/ Shrinks
              \/ challenge' = challenge /\ version' = version + 1 /\ UNCHANGED <<issued, method>>
  BY <1>3, <1>13 DEF ChangeUser, users, factor
<1>14. Tick => Shrinks
  BY <1>3 DEF Tick, users, factor
<1>15. ASSUME NEW r \in Request, \E m \in Method : Setup(r, m)
       PROVE  Shrinks \/ \E c \in Challenge, p \in Purpose, m \in Method, send \in BOOLEAN :
                           Creates(c, p, m, send)
  BY <1>7, <1>15
<1> QED
  BY <1>4, <1>5, <1>6, <1>8, <1>9, <1>10, <1>11, <1>12, <1>13, <1>14, <1>15 DEF Next

-----------------------------------------------------------------------------
(* The budgets and the emails *)

LEMMA AppendElements ==
  ASSUME NEW s \in Seq(Nat), NEW x \in Nat
  PROVE  /\ Append(s, x) \in Seq(Nat) /\ Len(Append(s, x)) = Len(s) + 1
         /\ \A i \in 1..Len(s) : Append(s, x)[i] = s[i]
         /\ Append(s, x)[Len(s) + 1] = x
         /\ Len(s) \in Nat /\ \A i \in 1..Len(s) : s[i] \in Nat
OBVIOUS

\* One more element keeps elements apart if the one that is n before it is far enough.
LEMMA AppendApart ==
  ASSUME NEW s \in Seq(Nat), NEW x \in Nat, NEW n \in Nat \ {0}, NEW time \in Nat,
         Apart(s, n, time),
         \A i \in 1..Len(s) : i = Len(s) + 1 - n => s[i] + time <= x
  PROVE  Apart(Append(s, x), n, time)
<1> DEFINE t == Append(s, x)
<1>1. /\ Len(t) = Len(s) + 1 /\ Len(s) \in Nat
      /\ \A i \in 1..Len(s) : t[i] = s[i]
      /\ t[Len(s) + 1] = x
  BY AppendElements
<1> HIDE DEF t
<1>2. ASSUME NEW i \in 1..(Len(t) - n)
      PROVE  t[i] + time <= t[i + n]
  <2>1. i \in 1..Len(s) /\ i + n \in 1..(Len(s) + 1)
    BY <1>1
  <2>2. CASE i + n = Len(s) + 1
    <3>1. i = Len(s) + 1 - n
      BY <1>1, <2>2
    <3> QED
      BY <1>1, <2>1, <2>2, <3>1
  <2>3. CASE i + n # Len(s) + 1
    <3>1. /\ i \in Int /\ n \in Int /\ Len(s) \in Int
          /\ 1 <= i /\ i + n <= Len(s) + 1 /\ 1 <= i + n
      BY <1>1, <2>1
    <3>2. i + n <= Len(s)
      BY <2>3, <3>1
    <3>3. i + n \in 1..Len(s) /\ i \in 1..(Len(s) - n)
      BY <3>1, <3>2
    <3>4. s[i] + time <= s[i + n]
      BY <3>3 DEF Apart
    <3> QED
      BY <1>1, <2>1, <3>3, <3>4
  <2> QED
    BY <2>2, <2>3
<1> QED
  BY <1>2 DEF Apart, t

LEMMA BudgetFails ==
  ASSUME AccountTypes, BudgetInv, NEW s \in Scope, Open(s), Failed(s)
  PROVE  BudgetInv'
<1> DEFINE w == wrong[s]
           n == failures[s] + 1
<1>1. /\ now \in Nat /\ now' = now
      /\ failures[s] \in 0..(FailureLimit - 1) /\ lockedUntil[s] \in Nat /\ w \in Seq(Nat)
      /\ failures[s] \in Nat /\ Len(w) \in Nat /\ n \in Nat
      /\ lockedUntil[s] <= now
  BY Limits, AppendElements DEF AccountTypes, BudgetInv, Open, Failed
<1>2. /\ wrong'[s] = Append(w, now)
      /\ failures'[s] = IF Exhausted(n) THEN 0 ELSE n
      /\ lockedUntil'[s] = IF Exhausted(n) THEN now + LockTime ELSE 0
      /\ \A u \in Scope \ {s} : /\ wrong'[u] = wrong[u] /\ failures'[u] = failures[u]
                                /\ lockedUntil'[u] = lockedUntil[u]
  BY DEF Failed, BudgetInv
<1>3. /\ failures' \in [Scope -> 0..(FailureLimit - 1)] /\ lockedUntil' \in [Scope -> Nat]
      /\ wrong' \in [Scope -> Seq(Nat)]
  BY <1>1, Limits, AppendElements DEF Failed, BudgetInv, Exhausted
<1>4. ASSUME NEW u \in Scope \ {s}
      PROVE  Budget(u)'
  BY <1>1, <1>2 DEF BudgetInv, Budget, Apart
<1>5. Budget(s)'
  <2>1. Budget(s)
    BY DEF BudgetInv
  <2>2. /\ wrong'[s] \in Seq(Nat) /\ Len(wrong'[s]) = Len(w) + 1
        /\ \A i \in 1..Len(w) : wrong'[s][i] = w[i] /\ w[i] \in Nat
        /\ wrong'[s][Len(w) + 1] = now
    BY <1>1, <1>2, AppendElements
  <2>3. \A i \in 1..Len(w) : w[i] <= now
    BY <2>1 DEF Budget
  <2>4. \A i \in 1..(Len(w) - failures[s]) : w[i] + LockTime <= now
    <3>1. ASSUME NEW i \in 1..(Len(w) - failures[s])
          PROVE  w[i] + LockTime <= now
      <4>1. w[i] + LockTime <= now \/ w[i] + LockTime <= lockedUntil[s]
        BY <2>1 DEF Budget
      <4>2. i \in 1..Len(w)
        BY <1>1
      <4>3. w[i] \in Nat
        BY <2>2, <4>2
      <4> QED
        BY <1>1, <4>1, <4>3, Limits
    <3> QED
      BY <3>1
  <2>5. failures[s] <= Len(w)
    BY <2>1 DEF Budget
  <2>6. \A i \in 1..(Len(w) + 1) : wrong'[s][i] <= now /\ wrong'[s][i] \in Nat
    <3>1. ASSUME NEW i \in 1..(Len(w) + 1), i # Len(w) + 1
          PROVE  i \in 1..Len(w)
      BY <1>1, <3>1
    <3>2. now <= now
      BY <1>1
    <3> QED
      BY <1>1, <2>2, <2>3, <3>1, <3>2
  <2>7. Apart(wrong'[s], FailureLimit, LockTime)
    <3>1. \A i \in 1..Len(w) : i = Len(w) + 1 - FailureLimit => w[i] + LockTime <= now
      BY <1>1, <2>4, <2>5, Limits
    <3>2. Apart(w, FailureLimit, LockTime)
      BY <2>1 DEF Budget
    <3>3. FailureLimit \in Nat \ {0} /\ LockTime \in Nat
      BY Limits
    <3>4. Apart(Append(w, now), FailureLimit, LockTime)
      BY <1>1, <3>1, <3>2, <3>3, AppendApart
    <3> QED
      BY <1>2, <3>4
  <2>8. CASE Exhausted(n)
    <3>1. n >= FailureLimit
      BY <2>8 DEF Exhausted
    <3>2. /\ failures'[s] = 0 /\ lockedUntil'[s] = now + LockTime
          /\ Len(wrong'[s]) >= FailureLimit
      BY <1>1, <1>2, <2>2, <2>5, <2>8, <3>1, Limits
    <3>3. \A i \in 1..(Len(w) + 1) : wrong'[s][i] + LockTime <= lockedUntil'[s]
      <4>1. ASSUME NEW x \in Nat, x <= now
            PROVE  x + LockTime <= now + LockTime
        BY <1>1, <4>1, Limits
      <4> QED
        BY <2>6, <3>2, <4>1
    <3>4. Len(wrong'[s]) - failures'[s] = Len(w) + 1 /\ failures'[s] <= Len(wrong'[s])
      BY <1>1, <2>2, <3>2
    <3>5. \A i \in 1..Len(wrong'[s]) : wrong'[s][i] <= now'
      BY <1>1, <2>2, <2>6
    <3> QED
      BY <2>2, <2>7, <3>2, <3>3, <3>4, <3>5 DEF Budget
  <2>9. CASE ~Exhausted(n)
    <3>1. failures'[s] = n /\ lockedUntil'[s] = 0
      BY <1>2, <2>9
    <3>2. Len(wrong'[s]) - failures'[s] = Len(w) - failures[s] /\ failures'[s] <= Len(wrong'[s])
      <4>1. Len(wrong'[s]) = Len(w) + 1 /\ failures'[s] = failures[s] + 1
        BY <2>2, <3>1
      <4>2. ASSUME NEW x \in Nat, NEW y \in Nat, x <= y
            PROVE  (y + 1) - (x + 1) = y - x /\ x + 1 <= y + 1
        BY <4>2
      <4> QED
        BY <1>1, <2>5, <4>1, <4>2
    <3>3. ASSUME NEW i \in 1..(Len(wrong'[s]) - failures'[s])
          PROVE  wrong'[s][i] + LockTime <= now'
      <4>1. i \in 1..(Len(w) - failures[s]) /\ i \in 1..Len(w)
        BY <1>1, <3>2
      <4> QED
        BY <1>1, <2>2, <2>4, <4>1
    <3>4. \A i \in 1..Len(wrong'[s]) : wrong'[s][i] <= now'
      BY <1>1, <2>2, <2>6
    <3>5. ~(lockedUntil'[s] > 0)
      BY <3>1
    <3> QED
      BY <1>1, <2>7, <3>2, <3>3, <3>4, <3>5 DEF Budget
  <2> QED
    BY <2>8, <2>9
<1> QED
  BY <1>3, <1>4, <1>5 DEF BudgetInv

LEMMA BudgetSucceeds ==
  ASSUME AccountTypes, BudgetInv, NEW s \in Scope, ResetFailures(s), now' = now
  PROVE  BudgetInv'
<1>1. /\ wrong'[s] = <<>> /\ failures'[s] = 0 /\ lockedUntil'[s] = 0
      /\ \A u \in Scope \ {s} : /\ wrong'[u] = wrong[u] /\ failures'[u] = failures[u]
                                /\ lockedUntil'[u] = lockedUntil[u]
      /\ failures' \in [Scope -> 0..(FailureLimit - 1)] /\ lockedUntil' \in [Scope -> Nat]
      /\ wrong' \in [Scope -> Seq(Nat)]
  BY Limits DEF ResetFailures, BudgetInv
<1>2. Budget(s)'
  BY <1>1, Limits DEF Budget, Apart
<1>3. ASSUME NEW u \in Scope \ {s}
      PROVE  Budget(u)'
  BY <1>1 DEF BudgetInv, Budget, Apart
<1> QED
  BY <1>1, <1>2, <1>3 DEF BudgetInv

LEMMA BudgetsUnlocked ==
  ASSUME AccountTypes, Unlock, now' = now
  PROVE  BudgetInv'
<1>1. ASSUME NEW s \in Scope
      PROVE  Budget(s)'
  BY <1>1, Limits DEF Unlock, Budget, Apart
<1>2. /\ failures' \in [Scope -> 0..(FailureLimit - 1)] /\ lockedUntil' \in [Scope -> Nat]
      /\ wrong' \in [Scope -> Seq(Nat)]
  BY Limits DEF Unlock
<1> QED
  BY <1>1, <1>2 DEF BudgetInv

LEMMA BudgetStep ==
  ASSUME AccountTypes, BudgetInv, Next
  PROVE  BudgetInv'
<1>1. CASE UNCHANGED budgets /\ now' \in {now, now + 1}
  <2>1. ASSUME NEW s \in Scope
        PROVE  Budget(s)'
    <3>1. Budget(s) /\ wrong[s] \in Seq(Nat) /\ lockedUntil[s] \in Nat /\ failures[s] \in Nat
      BY Limits DEF BudgetInv
    <3>2. /\ Len(wrong[s]) \in Nat /\ \A i \in 1..Len(wrong[s]) : wrong[s][i] \in Nat
          /\ now \in Nat /\ now' >= now
      BY <1>1, <3>1 DEF AccountTypes
    <3>3. \A i \in 1..(Len(wrong[s]) - failures[s]) : i \in 1..Len(wrong[s])
      BY <3>1, <3>2
    <3>4. now' \in Nat /\ LockTime \in Nat
      BY <1>1, <3>2, Limits
    <3> QED
      BY <1>1, <3>1, <3>2, <3>3, <3>4 DEF Budget, budgets, Apart
  <2> QED
    BY <1>1, <2>1 DEF BudgetInv, budgets
<1>2. CASE \E s \in Scope : Open(s) /\ Failed(s)
  BY <1>2, BudgetFails
<1>3. CASE \E s \in Scope : ResetFailures(s) /\ now' = now
  BY <1>3, BudgetSucceeds
<1>4. CASE Unlock /\ now' = now
  BY <1>4, BudgetsUnlocked
<1> QED
  BY <1>1, <1>2, <1>3, <1>4, BudgetSteps

LEMMA MailStep ==
  ASSUME AccountTypes, MailInv, Next
  PROVE  MailInv'
<1>1. /\ now \in Nat /\ nextSend \in Nat /\ sendWindow \in Nat /\ sendCount \in Nat
      /\ sends \in Seq(Nat) /\ Len(sends) \in Nat
      /\ \A i \in 1..Len(sends) : sends[i] \in Nat
  BY Limits DEF AccountTypes, MailInv
<1>2. CASE UNCHANGED mail /\ now' \in {now, now + 1}
  BY <1>1, <1>2, Limits DEF MailInv, mail, Apart
<1>3. CASE EmailAllowed /\ CountEmail /\ now' = now
  <2> DEFINE m == Len(sends)
  <2>1. /\ sends' = Append(sends, now) /\ sends' \in Seq(Nat) /\ Len(sends') = m + 1
        /\ \A i \in 1..m : sends'[i] = sends[i]
        /\ sends'[m + 1] = now
    BY <1>1, <1>3, AppendElements DEF CountEmail
  <2>2. \A i \in 1..m : sends[i] <= now /\ sends[i] + SendGap <= now
    BY <1>1, <1>3, Limits DEF EmailAllowed, MailInv
  <2>3. Apart(sends', 1, SendGap)
    <3>1. \A i \in 1..Len(sends) : i = Len(sends) + 1 - 1 => sends[i] + SendGap <= now
      BY <2>2
    <3>2. Apart(sends, 1, SendGap) /\ 1 \in Nat \ {0} /\ SendGap \in Nat
      BY Limits DEF MailInv
    <3>3. Apart(Append(sends, now), 1, SendGap)
      BY <1>1, <3>1, <3>2, AppendApart
    <3> QED
      BY <2>1, <3>3
  <2>4. /\ sendCount <= SendLimit /\ sendCount <= m /\ sendWindow <= now
        /\ sendCount = 0 => m = 0 /\ FreshWindow
        /\ \A i \in 1..m : i <= m - sendCount + 1 => sends[i] <= sendWindow
        /\ \A i \in 1..m : i <= m - sendCount + 1 - SendLimit => sends[i] + SendWindow <= sendWindow
    BY <1>1, Limits DEF MailInv, FreshWindow
  <2>5. nextSend' = now + SendGap
    BY <1>3 DEF CountEmail
  <2>6. \A i \in 1..(m + 1) : sends'[i] <= now /\ sends'[i] + SendGap <= nextSend'
    BY <1>1, <2>1, <2>2, <2>5, Limits
  <2>7. CASE FreshWindow
    <3>1. sendWindow' = now /\ sendCount' = 1 /\ sendWindow + SendWindow <= now
      BY <1>3, <2>7 DEF CountEmail, FreshWindow
    <3>2. ASSUME NEW i \in 1..m, i <= m + 1 - sendCount
          PROVE  sends[i] + SendWindow <= now
      <4>1. sends[i] <= sendWindow /\ sends[i] \in Nat
        BY <1>1, <2>4, <3>2
      <4> QED
        BY <1>1, <3>1, <4>1, Limits
    <3>3. \A i \in 1..m : (i <= m + 1 - SendLimit \/ i = m + 1 - (2 * SendLimit - 1))
                             => sends[i] + SendWindow <= now
      <4>1. ASSUME NEW i \in 1..m, i <= m + 1 - SendLimit \/ i = m + 1 - (2 * SendLimit - 1)
            PROVE  i <= m + 1 - sendCount
        <5>1. i \in Int /\ m \in Int /\ SendLimit \in Int /\ sendCount \in Int /\ SendLimit > 0
          BY <1>1, Limits
        <5>2. sendCount <= SendLimit
          BY <2>4
        <5>3. CASE i <= m + 1 - SendLimit
          BY <5>1, <5>2, <5>3
        <5>4. CASE i = m + 1 - (2 * SendLimit - 1)
          BY <5>1, <5>2, <5>4
        <5> QED
          BY <4>1, <5>3, <5>4
      <4> QED
        BY <3>2, <4>1
    <3>4. Apart(sends', 2 * SendLimit - 1, SendWindow)
      <4>1. /\ 2 * SendLimit - 1 \in Nat \ {0} /\ SendWindow \in Nat
            /\ Apart(sends, 2 * SendLimit - 1, SendWindow)
        BY Limits DEF MailInv
      <4>2. Apart(Append(sends, now), 2 * SendLimit - 1, SendWindow)
        BY <1>1, <3>3, <4>1, AppendApart
      <4> QED
        BY <2>1, <4>2
    <3>5. \A i \in 1..Len(sends)' :
            /\ i <= Len(sends)' - sendCount' + 1 => sends'[i] <= sendWindow'
            /\ i <= Len(sends)' - sendCount' + 1 - SendLimit => sends'[i] + SendWindow <= sendWindow'
      BY <1>1, <2>1, <2>6, <3>1, <3>3, Limits
    <3>6. /\ nextSend' \in Nat /\ sendCount' \in 0..SendLimit /\ sendWindow' \in Nat
          /\ sendCount' <= Len(sends)' /\ sendCount' # 0
      BY <1>1, <2>1, <2>5, <3>1, Limits
    <3> QED
      BY <1>1, <1>3, <2>1, <2>3, <2>6, <3>1, <3>4, <3>5, <3>6 DEF MailInv
  <2>8. CASE ~FreshWindow
    <3>1. sendWindow' = sendWindow /\ sendCount' = sendCount + 1 /\ sendCount < SendLimit
      BY <1>3, <2>8 DEF CountEmail, EmailAllowed
    <3>2. ASSUME NEW i \in 1..m, i = m + 1 - (2 * SendLimit - 1)
          PROVE  sends[i] + SendWindow <= now
      <4>1. i \in Int /\ m \in Int /\ SendLimit \in Int /\ sendCount \in Int
        BY <1>1, Limits
      <4>2. i <= m - sendCount + 1 - SendLimit
        BY <3>1, <3>2, <4>1
      <4>3. sends[i] + SendWindow <= sendWindow /\ sends[i] \in Nat
        BY <1>1, <2>4, <4>2
      <4> QED
        BY <1>1, <2>4, <4>3, Limits
    <3>3. Apart(sends', 2 * SendLimit - 1, SendWindow)
      <4>1. /\ 2 * SendLimit - 1 \in Nat \ {0} /\ SendWindow \in Nat
            /\ Apart(sends, 2 * SendLimit - 1, SendWindow)
        BY Limits DEF MailInv
      <4>2. Apart(Append(sends, now), 2 * SendLimit - 1, SendWindow)
        BY <1>1, <3>2, <4>1, AppendApart
      <4> QED
        BY <2>1, <4>2
    <3>4. sendCount > 0
      BY <1>1, <2>4, <2>8
    <3>5. \A i \in 1..Len(sends)' :
            /\ i <= Len(sends)' - sendCount' + 1 => sends'[i] <= sendWindow'
            /\ i <= Len(sends)' - sendCount' + 1 - SendLimit => sends'[i] + SendWindow <= sendWindow'
      BY <1>1, <2>1, <2>4, <3>1, <3>4, Limits
    <3>6. /\ nextSend' \in Nat /\ sendCount' \in 0..SendLimit /\ sendWindow' \in Nat
          /\ sendCount' <= Len(sends)' /\ sendCount' # 0
      BY <1>1, <2>1, <2>4, <2>5, <3>1, Limits
    <3> QED
      BY <1>1, <1>3, <2>1, <2>3, <2>4, <2>6, <3>1, <3>3, <3>5, <3>6 DEF MailInv
  <2> QED
    BY <2>7, <2>8
<1> QED
  BY <1>2, <1>3, MailSteps

-----------------------------------------------------------------------------
(* The challenges *)

\* A row that stays as it is, goes, or loses its code.
Lowers(d) ==
  \/ challenge'[d] \in {challenge[d], NoRow}
  \/ /\ challenge[d] \in Row /\ challenge'[d] \in Row
     /\ challenge'[d].version = challenge[d].version
     /\ challenge'[d].purpose = challenge[d].purpose
     /\ challenge'[d].method = challenge[d].method
     /\ challenge'[d].expires = challenge[d].expires
     /\ ~challenge'[d].hash

\* What create_challenge leaves in the table.
LEMMA CreateEffect ==
  ASSUME AccountTypes, RowInv,
         NEW c \in Challenge, NEW p \in Purpose, NEW m \in Method, NEW send \in BOOLEAN,
         CreateChallenge(c, p, m, send)
  PROVE  /\ c \notin issued /\ issued' = issued \cup {c} /\ challenge[c] = NoRow
         /\ challenge' \in [Challenge -> Row \cup {NoRow}]
         /\ challenge'[c] \in Row /\ challenge'[c] # NoRow
         /\ challenge'[c].version = version /\ challenge'[c].purpose = p
         /\ challenge'[c].method = m /\ challenge'[c].hash = (m = "email" /\ send)
         /\ challenge'[c].expires > now
         /\ \A d \in Challenge \ {c} :
              /\ challenge'[d] \in {challenge[d], NoRow}
              /\ challenge[d] # NoRow /\ challenge[d].purpose = p => challenge'[d] = NoRow
              /\ challenge'[d] # challenge[d] =>
                   challenge[d].purpose = p \/ challenge[d].expires <= now
<1> DEFINE life == now + IF p = "enroll" /\ m = "totp" THEN 2 * Life ELSE Life
           row == [version |-> version, purpose |-> p, method |-> m,
                   hash |-> m = "email" /\ send, expires |-> life]
<1>1. life \in Nat /\ life > now
  BY Limits DEF AccountTypes
<1> HIDE DEF life
<1>2. row \in Row
  BY <1>1 DEF Row, AccountTypes
<1>3. row # NoRow
  BY <1>2, NoRowIsNoRow
<1>4. challenge' =
        [d \in Challenge |->
           IF d = c THEN row
           ELSE IF challenge[d] # NoRow /\ (challenge[d].purpose = p \/ challenge[d].expires <= now)
             THEN NoRow ELSE challenge[d]]
  BY DEF CreateChallenge, life
<1>5. c \notin issued /\ issued' = issued \cup {c}
  BY DEF CreateChallenge
<1>6. challenge[c] = NoRow
  BY <1>5 DEF RowInv, Held
<1>7. challenge' \in [Challenge -> Row \cup {NoRow}]
  BY <1>2, <1>4 DEF RowInv
<1>8. challenge'[c] = row
  BY <1>4
<1>9. /\ row.version = version /\ row.purpose = p /\ row.method = m
      /\ row.hash = (m = "email" /\ send) /\ row.expires = life
  OBVIOUS
<1> HIDE DEF row
<1>10. \A d \in Challenge \ {c} :
         /\ challenge'[d] \in {challenge[d], NoRow}
         /\ challenge[d] # NoRow /\ challenge[d].purpose = p => challenge'[d] = NoRow
         /\ challenge'[d] # challenge[d] =>
              challenge[d].purpose = p \/ challenge[d].expires <= now
  BY <1>4
<1> QED
  BY <1>1, <1>2, <1>3, <1>5, <1>6, <1>7, <1>8, <1>9, <1>10

\* What forget_unsent_code leaves.
LEMMA ForgetEffect ==
  ASSUME RowInv, SendInv, NEW r \in Request, Forget(r)
  PROVE  /\ mailing[r] \in Challenge
         /\ challenge' \in [Challenge -> Row \cup {NoRow}]
         /\ \A d \in Challenge : Lowers(d)
         /\ \A d \in Challenge \ {mailing[r]} : challenge'[d] = challenge[d]
         /\ challenge'[mailing[r]] # NoRow => ~challenge'[mailing[r]].hash
<1> DEFINE c == mailing[r]
<1>1. c \in Challenge
  BY DEF SendInv, Mailer, Forget, RowInv
<1>2. challenge \in [Challenge -> Row \cup {NoRow}]
  BY DEF RowInv
<1>3. challenge' = IF challenge[c] = NoRow THEN challenge
                   ELSE [challenge EXCEPT ![c].hash = FALSE]
  BY DEF Forget
<1> HIDE DEF c
<1>4. CASE challenge[c] = NoRow
  BY <1>1, <1>2, <1>3, <1>4 DEF Lowers, c
<1>5. CASE challenge[c] # NoRow
  <2>1. challenge[c] \in Row
    BY <1>1, <1>2, <1>5
  <2> DEFINE row == [challenge[c] EXCEPT !.hash = FALSE]
  <2>2. /\ row \in Row /\ ~row.hash
        /\ row.version = challenge[c].version /\ row.purpose = challenge[c].purpose
        /\ row.method = challenge[c].method /\ row.expires = challenge[c].expires
    BY <2>1 DEF Row
  <2>3. challenge' = [challenge EXCEPT ![c] = row]
    BY <1>3, <1>5
  <2> HIDE DEF row
  <2>4. /\ challenge'[c] = row
        /\ \A d \in Challenge \ {c} : challenge'[d] = challenge[d]
        /\ challenge' \in [Challenge -> Row \cup {NoRow}]
    BY <1>1, <1>2, <2>2, <2>3
  <2> QED
    BY <1>1, <2>1, <2>2, <2>4 DEF Lowers, c
<1> QED
  BY <1>4, <1>5

\* No id comes back.
LEMMA GoneStays ==
  ASSUME AccountTypes, RowInv, SendInv, Next
  PROVE  \A c \in Challenge : Gone(c) => Gone(c)'
<1>1. ASSUME Shrinks
      PROVE  \A c \in Challenge : Gone(c) => Gone(c)'
  BY <1>1 DEF Shrinks, Gone
<1>2. ASSUME Clears
      PROVE  \A c \in Challenge : Gone(c) => Gone(c)'
  BY <1>2 DEF Clears, Gone
<1>3. ASSUME NEW r \in Request, Withdraws(r)
      PROVE  \A c \in Challenge : Gone(c) => Gone(c)'
  <2>1. /\ \A d \in Challenge : Lowers(d)
        /\ issued' = issued
    BY <1>3, ForgetEffect DEF Withdraws
  <2> QED
    BY <2>1, NoRowIsNoRow DEF Lowers, Gone
<1>4. ASSUME NEW c \in Challenge, NEW p \in Purpose, NEW m \in Method, NEW send \in BOOLEAN,
             Creates(c, p, m, send)
      PROVE  \A d \in Challenge : Gone(d) => Gone(d)'
  <2>1. /\ c \notin issued /\ issued' = issued \cup {c}
        /\ \A d \in Challenge \ {c} : challenge'[d] \in {challenge[d], NoRow}
    BY <1>4, CreateEffect DEF Creates
  <2> QED
    BY <2>1 DEF Gone
<1>5. ASSUME UNCHANGED <<challenge, issued>>
      PROVE  \A d \in Challenge : Gone(d) => Gone(d)'
  BY <1>5 DEF Gone
<1> QED
  BY <1>1, <1>2, <1>3, <1>4, <1>5, RowSteps

LEMMA RowsLowered ==
  ASSUME AccountTypes, RowInv, UNCHANGED <<issued, method, version>>,
         challenge' \in [Challenge -> Row \cup {NoRow}],
         \A d \in Challenge : Lowers(d)
  PROVE  RowInv'
<1>1. ASSUME NEW c \in Challenge, challenge'[c] # NoRow
      PROVE  /\ c \in Held
             /\ challenge'[c].purpose = challenge[c].purpose
             /\ challenge'[c].version = challenge[c].version
             /\ challenge'[c].method = challenge[c].method
             /\ challenge'[c].hash => challenge[c].hash
  BY <1>1, NoRowIsNoRow DEF Lowers, Held
<1>2. ASSUME NEW c \in Held'
      PROVE  /\ c \in issued'
             /\ challenge'[c].hash => challenge'[c].method = "email"
             /\ challenge'[c].purpose = "login" /\ challenge'[c].version = version'
                  => challenge'[c].method = method'
             /\ challenge'[c].version <= version'
  <2>1. c \in Challenge /\ challenge'[c] # NoRow
    BY DEF Held
  <2>2. /\ c \in issued
        /\ challenge[c].hash => challenge[c].method = "email"
        /\ challenge[c].purpose = "login" /\ challenge[c].version = version
             => challenge[c].method = method
        /\ challenge[c].version <= version
    BY <1>1, <2>1 DEF RowInv
  <2> QED
    BY <1>1, <2>1, <2>2
<1>3. ASSUME NEW c \in Held', NEW d \in Held', challenge'[c].purpose = challenge'[d].purpose
      PROVE  c = d
  <2>1. /\ c \in Challenge /\ challenge'[c] # NoRow
        /\ d \in Challenge /\ challenge'[d] # NoRow
    BY DEF Held
  <2>2. c \in Held /\ d \in Held /\ challenge[c].purpose = challenge[d].purpose
    BY <1>1, <1>3, <2>1
  <2> QED
    BY <2>2 DEF RowInv
<1>4. issued' \subseteq Challenge
  BY DEF RowInv
<1> QED
  BY <1>2, <1>3, <1>4 DEF RowInv

LEMMA RowsCreated ==
  ASSUME AccountTypes, RowInv,
         NEW c \in Challenge, NEW p \in Purpose, NEW m \in Method, NEW send \in BOOLEAN,
         Creates(c, p, m, send)
  PROVE  RowInv'
<1>1. version' = version /\ method' = method /\ (p = "login" => m = method) /\ version \in Nat
  BY DEF Creates, AccountTypes, Version
<1>2. /\ issued' = issued \cup {c}
      /\ challenge' \in [Challenge -> Row \cup {NoRow}]
      /\ challenge'[c].version = version /\ challenge'[c].purpose = p
      /\ challenge'[c].method = m
      /\ challenge'[c].hash = (m = "email" /\ send)
      /\ \A d \in Challenge \ {c} :
           /\ challenge'[d] \in {challenge[d], NoRow}
           /\ challenge[d] # NoRow /\ challenge[d].purpose = p => challenge'[d] = NoRow
  BY CreateEffect DEF Creates
<1>3. ASSUME NEW d \in Held', d # c
      PROVE  /\ d \in Held /\ challenge'[d] = challenge[d]
             /\ challenge[d].purpose # p
  BY <1>2, <1>3 DEF Held
<1>4. challenge'[c].hash => m = "email"
  BY <1>2
<1>5. ASSUME NEW d \in Held'
      PROVE  /\ d \in issued'
             /\ challenge'[d].hash => challenge'[d].method = "email"
             /\ challenge'[d].purpose = "login" /\ challenge'[d].version = version'
                  => challenge'[d].method = method'
             /\ challenge'[d].version <= version'
  <2>1. CASE d = c
    BY <1>1, <1>2, <1>4, <2>1
  <2>2. CASE d # c
    BY <1>1, <1>2, <1>3, <2>2 DEF RowInv
  <2> QED
    BY <2>1, <2>2
<1>6. ASSUME NEW d \in Held', NEW e \in Held', challenge'[d].purpose = challenge'[e].purpose
      PROVE  d = e
  BY <1>2, <1>3, <1>6 DEF RowInv
<1>7. issued' \subseteq Challenge
  BY <1>2 DEF RowInv
<1> QED
  BY <1>2, <1>5, <1>6, <1>7 DEF RowInv

LEMMA RowStep ==
  ASSUME AccountTypes, RowInv, SendInv, Next
  PROVE  RowInv'
<1>1. ASSUME Shrinks
      PROVE  RowInv'
  BY <1>1, RowsLowered DEF Shrinks, Lowers
<1>2. ASSUME Clears
      PROVE  RowInv'
  BY <1>2 DEF Clears, RowInv, Held
<1>3. ASSUME challenge' = challenge, version' = version + 1, UNCHANGED <<issued, method>>
      PROVE  RowInv'
  <2>1. /\ version \in Nat /\ Held' = Held
        /\ \A c \in Held : challenge[c] \in Row /\ challenge[c].version \in Nat
    BY <1>3 DEF AccountTypes, Version, Held, RowInv, Row
  <2>2. \A c \in Held : challenge[c].version # version' /\ challenge[c].version <= version'
    BY <1>3, <2>1 DEF RowInv
  <2> QED
    BY <1>3, <2>1, <2>2 DEF RowInv
<1>4. ASSUME NEW r \in Request, Withdraws(r)
      PROVE  RowInv'
  BY <1>4, ForgetEffect, RowsLowered DEF Withdraws
<1> QED
  BY <1>1, <1>2, <1>3, <1>4, RowsCreated, RowSteps

-----------------------------------------------------------------------------
(* The codes *)

\* A code that was accepted before stays spent when versions grow, no recovery code
\* of an older version is made, and the secret moves forward, is dropped, or is one
\* whose challenge was still held.
LEMMA SpentStays ==
  ASSUME AccountTypes, FactorTypes, NEW code, Spent(code),
         \A c \in Challenge : Gone(c) => Gone(c)',
         version' \in Nat, version' >= version, lastStep' \in Int,
         \A old \in recovery' : old \in recovery \/ old.of = version,
         \/ secret' = secret /\ lastStep' >= lastStep
         \/ secret' = None
         \/ ~Gone(secret')
  PROVE  Spent(code)'
<1>0. version \in Nat /\ lastStep \in Int /\ Version \subseteq Nat /\ None \notin Challenge
  <2>1. version \in Nat /\ Version \subseteq Nat
    BY DEF AccountTypes, Version
  <2>2. lastStep \in Int
    BY DEF FactorTypes
  <2> QED
    BY <2>1, <2>2, IdAssumption
<1>1. ASSUME NEW c \in Challenge, NEW t \in Int,
             code = Totp(c, t), Gone(c), c = secret => t <= lastStep
      PROVE  Spent(code)'
  <2>1. c = secret' => t <= lastStep'
    BY <1>0, <1>1
  <2> QED
    BY <1>1, <2>1 DEF Spent
<1>2. ASSUME NEW c \in Challenge, code = Email(c), Gone(c)
      PROVE  Spent(code)'
  BY <1>2 DEF Spent
<1>3. ASSUME NEW v \in Version, NEW n \in RecoveryNr,
             code = Recovery(v, n), v < version, code \notin recovery
      PROVE  Spent(code)'
  <2>1. code.of = v /\ v \in Nat /\ v # version /\ v < version'
    BY <1>0, <1>3 DEF Recovery
  <2> QED
    BY <1>3, <2>1 DEF Spent
<1> QED
  BY <1>1, <1>2, <1>3 DEF Spent

\* Recovery codes are of their kind and of a version that is over.
LEMMA RecoveryCodes ==
  ASSUME FactorTypes, CodeInv, NEW code \in recovery
  PROVE  /\ \E v \in Version, n \in RecoveryNr : code = Recovery(v, n)
         /\ code.kind = "recovery" /\ code.of < version
<1>1. code \in Recoveries
  BY DEF FactorTypes
<1>2. PICK v \in Version, n \in RecoveryNr : code = Recovery(v, n)
  BY <1>1 DEF Recoveries
<1> QED
  BY <1>2 DEF Recovery, CodeInv

\* What a code has of its kind.
LEMMA CodeTypes ==
  ASSUME AccountTypes, FactorTypes, RowInv, NEW code \in Code
  PROVE  /\ code \in Codes
         /\ \/ code = WrongCode
            \/ code \in recovery /\ code.kind = "recovery"
            \/ \E c \in Challenge : code = Email(c)
            \/ \E c \in Challenge, t \in Int : code = Totp(c, t)
<1>1. version \in Nat /\ Version \subseteq Nat /\ now \in Nat
  BY DEF AccountTypes, Version
<1>2. \A t \in (now - 1)..(now + 1) : t \in Int
  BY <1>1
<1>3. Enroling \cup ({secret} \ {None}) \subseteq Challenge
  BY DEF Enroling, Held, FactorTypes
<1>4. CASE code = WrongCode
  BY <1>4 DEF WrongCode, Codes
<1>5. CASE code \in recovery
  <2>1. code \in Recoveries
    BY <1>5 DEF FactorTypes
  <2>2. PICK v \in Version, n \in RecoveryNr : code = Recovery(v, n)
    BY <2>1 DEF Recoveries
  <2>3. code \in Codes /\ code.kind = "recovery"
    BY <1>1, <2>2 DEF Recovery, Codes
  <2> QED
    BY <1>5, <2>3
<1>6. CASE code \in {Email(c) : c \in Held}
  BY <1>6 DEF Email, Codes, Held
<1>7. CASE code \in {Totp(s, t) : s \in Enroling \cup ({secret} \ {None}), t \in (now - 1)..(now + 1)}
  BY <1>2, <1>3, <1>7 DEF Totp, Codes
<1> QED
  BY <1>4, <1>5, <1>6, <1>7 DEF Code

\* A code differs from every one that is spent, and is later than those of its secret.
Unused(code) ==
  \A old : Spent(old) =>
    /\ old # code
    /\ old.kind = "totp" /\ code.kind = "totp" /\ old.of = code.of => old.nr < code.nr

\* What proves the factor was not accepted before.
LEMMA ProofIsUnused ==
  ASSUME AccountTypes, FactorTypes, RowInv, CodeInv, NEW code \in Code,
         NEW c \in Challenge \cup {None}, c \in Held \cup {None}, Proves(code, c)
  PROVE  Unused(code)
<1>0. None \notin Challenge /\ lastStep \in Int
  BY IdAssumption DEF FactorTypes
<1>1. CASE code \in recovery
  <2>1. code.kind = "recovery"
    BY <1>1, RecoveryCodes
  <2> QED
    BY <1>1, <2>1 DEF Unused, Spent, Totp, Email
<1>2. CASE code.kind = "totp" /\ code.of = secret /\ Newer(code.nr)
  <2>1. PICK s \in Challenge, t \in Int : code = Totp(s, t)
    <3>1. CASE code = WrongCode
      BY <1>2, <3>1 DEF WrongCode
    <3>2. CASE code.kind = "recovery"
      BY <1>2, <3>2
    <3>3. CASE \E d \in Challenge : code = Email(d)
      BY <1>2, <3>3 DEF Email
    <3> QED
      BY <3>1, <3>2, <3>3, CodeTypes
  <2>2. code.of = s /\ code.nr = t /\ s = secret /\ lastStep < t
    BY <1>0, <1>2, <2>1 DEF Totp, Newer
  <2>3. ASSUME NEW old, Spent(old), old.kind = "totp", old.of = secret
        PROVE  old.nr < t
    <3>1. PICK d \in Challenge, u \in Int : old = Totp(d, u) /\ (d = secret => u <= lastStep)
      BY <2>3 DEF Spent, Email, Recovery
    <3> QED
      BY <1>0, <2>2, <2>3, <3>1 DEF Totp
  <2> QED
    BY <1>2, <2>2, <2>3 DEF Unused
<1>3. CASE c # None /\ code = Email(c)
  <2>1. ~Gone(c) /\ code.kind = "email" /\ code.of = c
    BY <1>3 DEF Held, Gone, Email
  <2> QED
    BY <1>3, <2>1 DEF Unused, Spent, Totp, Email, Recovery
<1> QED
  BY <1>1, <1>2, <1>3 DEF Proves

LEMMA ConfirmationIsUnused ==
  ASSUME NEW code, NEW c \in Held, ConfirmProves(code, c)
  PROVE  Unused(code)
<1>1. ~Gone(c)
  BY DEF Held, Gone
<1>2. CASE code.kind = "totp" /\ code.of = c
  BY <1>1, <1>2 DEF Unused, Spent, Totp, Email, Recovery
<1>3. CASE code = Email(c)
  BY <1>1, <1>3 DEF Unused, Spent, Totp, Email, Recovery
<1> QED
  BY <1>2, <1>3 DEF ConfirmProves

\* Accepting a code that was not used, and spends itself.
LEMMA AcceptStep ==
  ASSUME FactorTypes, CodeInv, NEW code \in Codes, Accept(code), Unused(code),
         Spent(code)', \A old : Spent(old) => Spent(old)'
  PROVE  /\ (\A i \in 1..Len(accepted) : Spent(accepted[i]))'
         /\ CodesAcceptedOnce' /\ accepted' \in Seq(Codes) /\ accepted' # accepted
<1>1. /\ accepted' \in Seq(Codes) /\ Len(accepted') = Len(accepted) + 1 /\ Len(accepted) \in Nat
      /\ \A i \in 1..Len(accepted) : accepted'[i] = accepted[i]
      /\ accepted'[Len(accepted) + 1] = code
  <2>1. accepted \in Seq(Codes)
    BY DEF FactorTypes
  <2>2. accepted' = Append(accepted, code)
    BY DEF Accept
  <2> QED
    BY <2>1, <2>2
<1>2. \A i \in 1..Len(accepted) : Spent(accepted[i])
  BY DEF CodeInv
<1>3. ASSUME NEW i \in 1..Len(accepted')
      PROVE  \/ i \in 1..Len(accepted) /\ accepted'[i] = accepted[i]
             \/ i = Len(accepted) + 1 /\ accepted'[i] = code
  BY <1>1
<1>4. (\A i \in 1..Len(accepted) : Spent(accepted[i]))'
  BY <1>2, <1>3
<1>5. ASSUME NEW i \in 1..Len(accepted'), NEW k \in 1..Len(accepted'), i < k
      PROVE  /\ accepted'[i] # accepted'[k]
             /\ accepted'[i].kind = "totp" /\ accepted'[k].kind = "totp"
                  /\ accepted'[i].of = accepted'[k].of
                  => accepted'[i].nr < accepted'[k].nr
  <2>1. i \in 1..Len(accepted) /\ accepted'[i] = accepted[i]
    BY <1>1, <1>5
  <2>2. CASE k \in 1..Len(accepted) /\ accepted'[k] = accepted[k]
    BY <1>5, <2>1, <2>2 DEF CodeInv, CodesAcceptedOnce
  <2>3. CASE accepted'[k] = code
    BY <1>2, <2>1, <2>3 DEF Unused
  <2> QED
    BY <1>3, <2>2, <2>3
<1> QED
  BY <1>1, <1>4, <1>5 DEF CodesAcceptedOnce

\* Codes are accepted at a sign-in, at the end of an enrolment, and by management.
LoginAccepts(c, code) == VerifyLogin(c, code) /\ Proves(code, c)
ConfirmAccepts(c, code) == Confirm(c, code) /\ ConfirmProves(code, c)
ChangeAccepts(c, code, regenerate) ==
  /\ method # "" /\ Proves(code, Presented(c))
  /\ Accept(code)
  /\ IF regenerate
       THEN NewRecoveryCodes /\ lastStep' = StepAfter(code) /\ UNCHANGED <<method, secret>>
       ELSE method' = "" /\ secret' = None /\ lastStep' = -1 /\ recovery' = {}
  /\ RotateSession /\ UNCHANGED <<now, issued, requests, faults, delivered, lost>>

LEMMA CodeSteps ==
  ASSUME Next
  PROVE  \/ UNCHANGED <<accepted, factor>> /\ version' \in {version, version + 1}
         \/ \E code \in Code, c \in Challenge : LoginAccepts(c, code) \/ ConfirmAccepts(c, code)
         \/ \E code \in Code, c \in Challenge \cup {None}, b \in BOOLEAN : ChangeAccepts(c, code, b)
<1> DEFINE Quiet == UNCHANGED <<accepted, factor>> /\ version' \in {version, version + 1}
<1>1. ASSUME NEW s, Failed(s)
      PROVE  Quiet
  BY <1>1 DEF Failed, users
<1>2. ASSUME NEW r \in Request,
             \/ SignIn(r) \/ BeginLogin(r) \/ Sent(r) \/ NotSent(r) \/ Forget(r) \/ Die(r)
             \/ \E m \in Method : Setup(r, m)
             \/ ManagementEmail(r)
             \/ \E c \in Challenge : Resend(r, c)
      PROVE  Quiet
  BY <1>1, <1>2 DEF SignIn, BeginLogin, Sent, NotSent, Forget, Die, Setup, ManagementEmail,
                    Resend, users
<1>3. ASSUME NEW code \in Code, NEW c \in Challenge, VerifyLogin(c, code)
      PROVE  Quiet \/ LoginAccepts(c, code)
  <2>1. Proves(code, c) \/ Failed("login")
    BY <1>3 DEF VerifyLogin
  <2> QED
    BY <1>1, <1>3, <2>1 DEF LoginAccepts
<1>4. ASSUME NEW code \in Code, NEW c \in Challenge, Confirm(c, code)
      PROVE  Quiet \/ ConfirmAccepts(c, code)
  <2>1. ConfirmProves(code, c) \/ Failed("manage")
    BY <1>4 DEF Confirm
  <2> QED
    BY <1>1, <1>4, <2>1 DEF ConfirmAccepts
<1>5. ASSUME NEW code \in Code, NEW c \in Challenge \cup {None}, NEW b \in BOOLEAN,
             ChangeMethod(c, code, b)
      PROVE  Quiet \/ ChangeAccepts(c, code, b)
  <2>1. CASE Failed("manage")
    BY <1>1, <2>1
  <2>2. CASE ~Failed("manage")
    BY <1>5, <2>2 DEF ChangeMethod, ChangeAccepts
  <2> QED
    BY <2>1, <2>2
<1>6. Purge \/ Tick \/ (\E unlock \in BOOLEAN : ChangeUser(unlock)) => Quiet
  BY DEF Purge, ChangeUser, Tick, users
<1> QED
  BY <1>2, <1>3, <1>4, <1>5, <1>6 DEF Next

\* What a code that proves the factor leaves of it.
LEMMA ProofSpends ==
  ASSUME AccountTypes, FactorTypes, RowInv, CodeInv, NEW code \in Code,
         NEW c \in Held \cup {None}, Proves(code, c)
  PROVE  /\ StepAfter(code) \in Int /\ StepAfter(code) >= lastStep
         /\ \/ code \in recovery
            \/ /\ \E t \in Int : code = Totp(secret, t)
               /\ secret \in Challenge /\ Gone(secret) /\ code.nr = StepAfter(code)
            \/ c \in Held /\ c \in issued /\ code = Email(c)
<1>0. lastStep \in Int
  BY DEF FactorTypes
<1>1. CASE code \in recovery
  <2>1. code.kind = "recovery"
    BY <1>1, RecoveryCodes
  <2> QED
    BY <1>0, <1>1, <2>1 DEF StepAfter
<1>2. CASE code.kind = "totp" /\ code.of = secret /\ Newer(code.nr)
  <2>1. PICK s \in Challenge, t \in Int : code = Totp(s, t)
    <3>1. CASE code = WrongCode
      BY <1>2, <3>1 DEF WrongCode
    <3>2. CASE code.kind = "recovery"
      BY <1>2, <3>2
    <3>3. CASE \E d \in Challenge : code = Email(d)
      BY <1>2, <3>3 DEF Email
    <3> QED
      BY <3>1, <3>2, <3>3, CodeTypes
  <2>2. s = secret /\ code.nr = t /\ StepAfter(code) = t /\ t > lastStep
    BY <1>2, <2>1 DEF Totp, Newer, StepAfter
  <2>3. secret \in Challenge /\ Gone(secret)
    BY <2>2, IdAssumption DEF CodeInv
  <2> QED
    BY <1>0, <2>1, <2>2, <2>3
<1>3. CASE c # None /\ code = Email(c)
  <2>1. c \in Held /\ c \in issued
    BY <1>3 DEF RowInv
  <2>2. StepAfter(code) = lastStep
    BY <1>3 DEF StepAfter, Email
  <2> QED
    BY <1>0, <1>3, <2>1, <2>2
<1> QED
  BY <1>1, <1>2, <1>3 DEF Proves

LEMMA LoginAcceptsCode ==
  ASSUME AccountTypes, FactorTypes, RowInv, SendInv, CodeInv, Next,
         NEW c \in Challenge, NEW code \in Code, LoginAccepts(c, code)
  PROVE  CodeInv' /\ accepted' # accepted /\ accepted' \in Seq(Codes)
<1>1. /\ Accept(code) /\ recovery' = recovery \ {code} /\ lastStep' = StepAfter(code)
      /\ secret' = secret /\ version' = version /\ issued' = issued
      /\ challenge' = [challenge EXCEPT ![c] = NoRow]
      /\ Usable(c, "login") /\ Proves(code, c)
  BY DEF LoginAccepts, VerifyLogin, users
<1>2. c \in Held
  BY <1>1, NoRowIsNoRow DEF Usable, Held, Purpose
<1>3. /\ StepAfter(code) \in Int /\ StepAfter(code) >= lastStep
      /\ \/ code \in recovery
         \/ /\ \E t \in Int : code = Totp(secret, t)
            /\ secret \in Challenge /\ Gone(secret) /\ code.nr = StepAfter(code)
         \/ c \in issued /\ code = Email(c)
  BY <1>1, <1>2, ProofSpends, IdAssumption DEF Held
<1>4. \A d \in Challenge : Gone(d) => Gone(d)'
  BY GoneStays
<1>5. version \in Nat /\ version >= version
  BY DEF AccountTypes, Version
<1>6. \A old : Spent(old) => Spent(old)'
  BY <1>1, <1>3, <1>4, <1>5, SpentStays
<1>7. Spent(code)'
  <2>1. CASE code \in recovery
    <3>1. PICK v \in Version, n \in RecoveryNr : code = Recovery(v, n)
      BY <2>1, RecoveryCodes
    <3>2. code.of < version /\ code.of = v
      BY <2>1, <3>1, RecoveryCodes DEF Recovery
    <3>3. code \notin recovery' /\ v < version'
      BY <1>1, <3>2
    <3> QED
      BY <3>1, <3>3 DEF Spent
  <2>2. ASSUME NEW t \in Int, code = Totp(secret, t), secret \in Challenge, Gone(secret),
               code.nr = StepAfter(code)
        PROVE  Spent(code)'
    <3>1. t <= lastStep' /\ Gone(secret)'
      BY <1>1, <1>4, <2>2 DEF Totp
    <3> QED
      BY <1>1, <2>2, <3>1 DEF Spent
  <2>3. CASE c \in issued /\ code = Email(c)
    <3>1. challenge'[c] = NoRow
      BY <1>1 DEF RowInv
    <3> QED
      BY <1>1, <2>3, <3>1 DEF Spent, Gone
  <2> QED
    BY <1>3, <2>1, <2>2, <2>3
<1>8. code \in Codes /\ Unused(code)
  BY <1>1, <1>2, CodeTypes, ProofIsUnused
<1>9. secret' # None => Gone(secret)'
  BY <1>1, <1>4 DEF CodeInv, FactorTypes
<1>10. \A old \in recovery' : old.of < version'
  BY <1>1 DEF CodeInv
<1> QED
  BY <1>1, <1>6, <1>7, <1>8, <1>9, <1>10, AcceptStep DEF CodeInv

\* After a rotation every challenge is gone and every recovery code is of an older version.
LEMMA RotationKeeps ==
  ASSUME AccountTypes, FactorTypes, RowInv, SendInv, CodeInv, Next,
         RotateSession, UNCHANGED issued, lastStep' \in Int,
         \A old \in recovery' : old \in recovery \/ old.of = version,
         \/ secret' = secret /\ lastStep' >= lastStep
         \/ secret' = None
         \/ secret' \in Held
  PROVE  /\ \A old : Spent(old) => Spent(old)'
         /\ secret' # None => Gone(secret)'
         /\ \A old \in recovery' : old.of < version'
         /\ \A c \in Challenge : c \in issued => Gone(c)'
<1>1. /\ version' = version + 1 /\ version \in Nat
      /\ \A c \in Challenge : challenge'[c] = NoRow
  BY DEF RotateSession, AccountTypes, Version
<1>2. \A c \in Challenge : c \in issued => Gone(c)'
  BY <1>1 DEF Gone
<1>3. secret' \in Held => secret' \in issued /\ secret' \in Challenge /\ ~Gone(secret')
  BY DEF RowInv, Held, Gone
<1>4. \A c \in Challenge : Gone(c) => Gone(c)'
  BY GoneStays
<1>5. \A old : Spent(old) => Spent(old)'
  BY <1>1, <1>3, <1>4, SpentStays
<1>6. secret' # None => Gone(secret)'
  <2>1. CASE secret' = secret
    BY <1>4, <2>1 DEF CodeInv, FactorTypes
  <2>2. CASE secret' \in Held
    <3>1. secret' \in issued'
      BY <1>3, <2>2
    <3>2. challenge'[secret'] = NoRow
      BY <1>1, <1>3, <2>2
    <3> QED
      BY <3>1, <3>2 DEF Gone
  <2> QED
    BY <2>1, <2>2
<1>7. \A old \in recovery' : old.of < version'
  <2>1. ASSUME NEW old \in recovery', old \in recovery
        PROVE  old.of < version'
    <3>1. PICK v \in Version, n \in RecoveryNr : old = Recovery(v, n)
      BY <2>1, RecoveryCodes
    <3>2. old.of = v /\ v \in Nat /\ old.of < version
      BY <2>1, <3>1, RecoveryCodes DEF Recovery, Version
    <3> QED
      BY <1>1, <3>2
  <2>2. ASSUME NEW old \in recovery', old.of = version
        PROVE  old.of < version'
    BY <1>1, <2>2
  <2> QED
    BY <2>1, <2>2
<1> QED
  BY <1>2, <1>5, <1>6, <1>7

LEMMA NewCodes ==
  ASSUME NewRecoveryCodes
  PROVE  \A old \in recovery' : old.of = version
BY DEF NewRecoveryCodes, Recovery

\* What a code that confirms an enrolment leaves of the factor.
LEMMA ConfirmSpends ==
  ASSUME AccountTypes, FactorTypes, RowInv, NEW c \in Challenge, NEW code \in Code,
         ConfirmAccepts(c, code)
  PROVE  /\ c \in Held /\ c \in issued
         /\ \/ /\ method' = "totp" /\ secret' = c
               /\ \E t \in Int : code = Totp(c, t) /\ lastStep' = t
            \/ method' = "email" /\ code = Email(c) /\ lastStep' = -1 /\ secret' = None
<1>1. /\ Accept(code) /\ NewRecoveryCodes /\ RotateSession /\ issued' = issued
      /\ secret' = IF method' = "totp" THEN c ELSE None
      /\ lastStep' = IF method' = "totp" THEN code.nr ELSE -1
      /\ method' = challenge[c].method
      /\ Usable(c, "enroll") /\ ConfirmProves(code, c)
  BY DEF ConfirmAccepts, Confirm
<1>2. c \in Held /\ c \in issued
  <2>1. c \in Held
    BY <1>1, NoRowIsNoRow DEF Usable, Held, Purpose
  <2> QED
    BY <2>1 DEF RowInv
<1>3. \/ /\ method' = "totp" /\ \E t \in Int : code = Totp(c, t) /\ lastStep' = t
      \/ method' = "email" /\ code = Email(c) /\ lastStep' = -1
  <2>1. CASE challenge[c].method = "totp" /\ code.kind = "totp" /\ code.of = c
    <3>1. PICK s \in Challenge, t \in Int : code = Totp(s, t)
      <4>1. CASE code = WrongCode
        BY <2>1, <4>1 DEF WrongCode
      <4>2. CASE code.kind = "recovery"
        BY <2>1, <4>2
      <4>3. CASE \E d \in Challenge : code = Email(d)
        BY <2>1, <4>3 DEF Email
      <4> QED
        BY <4>1, <4>2, <4>3, CodeTypes
    <3> QED
      BY <1>1, <2>1, <3>1 DEF Totp
  <2>2. CASE challenge[c].method = "email" /\ code = Email(c)
    BY <1>1, <2>2
  <2> QED
    BY <1>1, <2>1, <2>2 DEF ConfirmProves
<1> QED
  BY <1>1, <1>2, <1>3

LEMMA ConfirmAcceptsCode ==
  ASSUME AccountTypes, FactorTypes, RowInv, SendInv, CodeInv, Next,
         NEW c \in Challenge, NEW code \in Code, ConfirmAccepts(c, code)
  PROVE  CodeInv' /\ accepted' # accepted /\ accepted' \in Seq(Codes)
<1>1. /\ Accept(code) /\ NewRecoveryCodes /\ RotateSession /\ issued' = issued
      /\ ConfirmProves(code, c)
  BY DEF ConfirmAccepts, Confirm
<1>2. c \in Held /\ c \in issued
  BY ConfirmSpends
<1>3. \/ secret' = c /\ \E t \in Int : code = Totp(c, t) /\ lastStep' = t
      \/ code = Email(c) /\ lastStep' = -1 /\ secret' = None
  BY ConfirmSpends
<1>4. lastStep' \in Int /\ (secret' = None \/ secret' \in Held)
  BY <1>1, <1>2, <1>3
<1>5. /\ \A old : Spent(old) => Spent(old)'
      /\ secret' # None => Gone(secret)'
      /\ \A old \in recovery' : old.of < version'
      /\ Gone(c)'
  BY <1>1, <1>2, <1>4, NewCodes, RotationKeeps
<1>6. Spent(code)'
  <2>1. ASSUME NEW t \in Int, code = Totp(c, t), lastStep' = t
        PROVE  Spent(code)'
    BY <1>5, <2>1 DEF Spent
  <2>2. CASE code = Email(c)
    BY <1>5, <2>2 DEF Spent
  <2> QED
    BY <1>3, <2>1, <2>2
<1>7. code \in Codes /\ Unused(code)
  BY <1>1, <1>2, CodeTypes, ConfirmationIsUnused
<1> QED
  BY <1>1, <1>5, <1>6, <1>7, AcceptStep DEF CodeInv

LEMMA ChangeAcceptsCode ==
  ASSUME AccountTypes, FactorTypes, RowInv, SendInv, CodeInv, Next,
         NEW c \in Challenge \cup {None}, NEW code \in Code, NEW b \in BOOLEAN,
         ChangeAccepts(c, code, b)
  PROVE  CodeInv' /\ accepted' # accepted /\ accepted' \in Seq(Codes)
<1> DEFINE d == Presented(c)
<1>1. /\ Accept(code) /\ RotateSession /\ issued' = issued /\ Proves(code, d)
      /\ \/ NewRecoveryCodes /\ lastStep' = StepAfter(code) /\ secret' = secret
         \/ secret' = None /\ lastStep' = -1 /\ recovery' = {}
  BY DEF ChangeAccepts
<1>2. d \in Held \cup {None}
  BY NoRowIsNoRow DEF Presented, Usable, Held, Purpose
<1> HIDE DEF d
<1>3. /\ StepAfter(code) \in Int /\ StepAfter(code) >= lastStep
      /\ \/ code \in recovery
         \/ /\ \E t \in Int : code = Totp(secret, t)
            /\ secret \in Challenge /\ Gone(secret) /\ code.nr = StepAfter(code)
         \/ d \in Held /\ d \in issued /\ code = Email(d)
  BY <1>1, <1>2, ProofSpends
<1>4. /\ lastStep' \in Int
      /\ \/ secret' = secret /\ lastStep' >= lastStep
         \/ secret' = None
  BY <1>1, <1>3
<1>5. \A old \in recovery' : old.of = version
  BY <1>1, NewCodes
<1>6. /\ \A old : Spent(old) => Spent(old)'
      /\ secret' # None => Gone(secret)'
      /\ \A old \in recovery' : old.of < version'
      /\ \A e \in Challenge : e \in issued => Gone(e)'
  BY <1>1, <1>4, <1>5, RotationKeeps
<1>7. Spent(code)'
  <2>1. CASE code \in recovery
    <3>1. PICK v \in Version, n \in RecoveryNr : code = Recovery(v, n)
      BY <2>1, RecoveryCodes
    <3>2. code.of < version /\ code.of = v /\ v \in Nat /\ version \in Nat
      BY <2>1, <3>1, RecoveryCodes DEF Recovery, Version, AccountTypes
    <3>3. code \notin recovery' /\ v < version'
      BY <1>1, <1>5, <3>2 DEF RotateSession
    <3> QED
      BY <3>1, <3>3 DEF Spent
  <2>2. ASSUME NEW t \in Int, code = Totp(secret, t), secret \in Challenge, Gone(secret),
               code.nr = StepAfter(code)
        PROVE  Spent(code)'
    <3>1. secret = secret' => t <= lastStep'
      BY <1>1, <1>3, <2>2, IdAssumption DEF Totp
    <3>2. secret \in issued
      BY <2>2 DEF Gone
    <3> QED
      BY <1>6, <2>2, <3>1, <3>2 DEF Spent
  <2>3. CASE d \in Held /\ d \in issued /\ code = Email(d)
    BY <1>6, <2>3 DEF Spent, Held
  <2> QED
    BY <1>3, <2>1, <2>2, <2>3
<1>8. code \in Codes /\ Unused(code)
  <2>1. d \in Challenge \cup {None}
    BY <1>2 DEF Held
  <2> QED
    BY <1>1, <1>2, <2>1, CodeTypes, ProofIsUnused
<1> QED
  BY <1>1, <1>6, <1>7, <1>8, AcceptStep DEF CodeInv

LEMMA CodeStep ==
  ASSUME AccountTypes, FactorTypes, RowInv, SendInv, CodeInv, Next
  PROVE  CodeInv' /\ accepted' \in Seq(Codes)
<1>1. ASSUME UNCHANGED <<accepted, factor>>, version' \in {version, version + 1}
      PROVE  CodeInv' /\ accepted' \in Seq(Codes)
  <2>1. /\ version \in Nat /\ version' \in Nat /\ version' >= version /\ lastStep \in Int
        /\ secret' = secret /\ lastStep' = lastStep /\ recovery' = recovery /\ accepted' = accepted
    <3>1. version \in Nat
      BY DEF AccountTypes, Version
    <3>2. lastStep \in Int
      BY DEF FactorTypes
    <3> QED
      BY <1>1, <3>1, <3>2 DEF factor
  <2>2. \A d \in Challenge : Gone(d) => Gone(d)'
    BY GoneStays
  <2>3. \A old : Spent(old) => Spent(old)'
    BY <2>1, <2>2, SpentStays
  <2>4. (\A i \in 1..Len(accepted) : Spent(accepted[i]))'
    BY <2>1, <2>3 DEF CodeInv
  <2>5. CodesAcceptedOnce' /\ accepted' \in Seq(Codes)
    BY <2>1 DEF CodeInv, CodesAcceptedOnce, FactorTypes
  <2>6. secret' # None => Gone(secret)'
    BY <2>1, <2>2 DEF CodeInv, FactorTypes
  <2>7. \A old \in recovery' : old.of < version'
    <3>1. ASSUME NEW old \in recovery
          PROVE  old.of < version'
      <4>1. PICK v \in Version, n \in RecoveryNr : old = Recovery(v, n)
        BY RecoveryCodes
      <4>2. old.of = v /\ v \in Nat /\ old.of < version
        BY <4>1, RecoveryCodes DEF Recovery, Version
      <4> QED
        BY <2>1, <4>2
    <3> QED
      BY <2>1, <3>1
  <2> QED
    BY <2>4, <2>5, <2>6, <2>7 DEF CodeInv
<1> QED
  BY <1>1, CodeSteps, LoginAcceptsCode, ConfirmAcceptsCode, ChangeAcceptsCode

-----------------------------------------------------------------------------
(* Emailed codes *)

HasCode(c) == challenge[c] # NoRow /\ challenge[c].hash

LEMMA LoweredHasNoNewCode ==
  ASSUME NEW d \in Challenge, Lowers(d), HasCode(d)'
  PROVE  HasCode(d)
BY NoRowIsNoRow DEF Lowers, HasCode

LEMMA ShrunkHasNoNewCode ==
  ASSUME Shrinks \/ Clears
  PROVE  \A c \in Challenge : HasCode(c)' => HasCode(c)
BY DEF Shrinks, Clears, HasCode

\* The requests and what was sent stay, and no challenge gets a code.
LEMMA SendQuiet ==
  ASSUME SendInv, UNCHANGED <<requests, delivered, lost>>, issued \subseteq issued',
         \A c \in Challenge : HasCode(c)' => HasCode(c)
  PROVE  SendInv'
<1>1. pc' = pc /\ mailing' = mailing /\ delivered' = delivered /\ lost' = lost
  BY DEF requests
<1>2. HashMeansSent'
  BY <1>1 DEF SendInv, HashMeansSent, HasCode
<1> QED
  BY <1>1, <1>2 DEF SendInv, Mailer

\* A request ends, or begins to sign in; its code was sent, withdrawn or lost.
LEMMA SendDone ==
  ASSUME RequestTypes, SendInv, NEW r \in Request, NEW where \in {"idle", "begin"},
         pc' = [pc EXCEPT ![r] = where], mailing' = [mailing EXCEPT ![r] = None],
         issued \subseteq issued', delivered \subseteq delivered', lost \subseteq lost',
         delivered' \subseteq delivered \cup {mailing[r]},
         ~Mailer(r) => delivered' = delivered,
         \A c \in Challenge : HasCode(c)' => HasCode(c),
         \A c \in Challenge :
           Mailer(r) /\ mailing[r] = c /\ HasCode(c)' => c \in delivered' \cup lost'
  PROVE  SendInv'
<1>1. /\ pc'[r] = where /\ mailing'[r] = None
      /\ \A q \in Request \ {r} : pc'[q] = pc[q] /\ mailing'[q] = mailing[q]
  BY DEF RequestTypes
<1>2. /\ ~Mailer(r)' /\ mailing'[r] = None
      /\ \A q \in Request \ {r} : (Mailer(q)' <=> Mailer(q)) /\ mailing'[q] = mailing[q]
  BY <1>1 DEF Mailer
<1>3. delivered' \subseteq issued'
  <2>1. CASE Mailer(r)
    BY <2>1 DEF SendInv
  <2>2. CASE ~Mailer(r)
    BY <2>2 DEF SendInv
  <2> QED
    BY <2>1, <2>2
<1>4. ASSUME NEW q \in Request \ {r}, Mailer(q)
      PROVE  mailing[q] \in issued' \ delivered'
  <2>1. mailing[q] \in issued \ delivered
    BY <1>4 DEF SendInv
  <2>2. mailing[q] \notin delivered'
    BY <1>4, <2>1 DEF SendInv
  <2> QED
    BY <2>1, <2>2
<1>5. ASSUME NEW q \in Request \ {r}, ~Mailer(q)
      PROVE  mailing[q] = None
  BY <1>5 DEF SendInv
<1>6. HashMeansSent'
  <2>1. ASSUME NEW c \in Challenge, HasCode(c)'
        PROVE  \/ c \in delivered' \cup lost'
               \/ \E q \in Request : Mailer(q)' /\ mailing'[q] = c
    <3>1. HasCode(c)
      BY <2>1
    <3>2. CASE c \in delivered \cup lost
      BY <3>2
    <3>3. ASSUME NEW q \in Request, Mailer(q), mailing[q] = c
          PROVE  \/ c \in delivered' \cup lost'
                 \/ \E x \in Request : Mailer(x)' /\ mailing'[x] = c
      <4>1. CASE q = r
        BY <2>1, <3>3, <4>1
      <4>2. CASE q # r
        BY <1>2, <3>3, <4>2
      <4> QED
        BY <4>1, <4>2
    <3> QED
      BY <3>1, <3>2, <3>3 DEF SendInv, HashMeansSent, HasCode, Mailer
  <2> QED
    BY <2>1 DEF HashMeansSent, HasCode, Mailer
<1>7. \A q \in Request : IF Mailer(q)' THEN mailing'[q] \in issued' \ delivered'
                                       ELSE mailing'[q] = None
  BY <1>2, <1>4, <1>5
<1>8. \A p, q \in Request : Mailer(p)' /\ Mailer(q)' /\ mailing'[p] = mailing'[q] => p = q
  BY <1>2 DEF SendInv
<1> QED
  BY <1>3, <1>6, <1>7, <1>8 DEF SendInv

\* A request makes a code and goes on to send it.
LEMMA SendCreated ==
  ASSUME AccountTypes, RequestTypes, RowInv, SendInv, NEW r \in Request, ~Mailer(r),
         NEW c \in Challenge, NEW p \in Purpose, NEW m \in Method, NEW send \in BOOLEAN,
         CreateChallenge(c, p, m, send), Deliver(r, c), UNCHANGED <<delivered, lost>>
  PROVE  SendInv'
<1>1. /\ pc'[r] = "deliver" /\ mailing'[r] = c
      /\ \A q \in Request \ {r} : pc'[q] = pc[q] /\ mailing'[q] = mailing[q]
  BY DEF RequestTypes, Deliver, Goto
<1>2. /\ Mailer(r)' /\ mailing'[r] = c
      /\ \A q \in Request \ {r} : (Mailer(q)' <=> Mailer(q)) /\ mailing'[q] = mailing[q]
  BY <1>1 DEF Mailer
<1>3. /\ c \notin issued /\ issued' = issued \cup {c}
      /\ \A d \in Challenge \ {c} : challenge'[d] \in {challenge[d], NoRow}
  BY CreateEffect
<1>4. \A d \in Challenge \ {c} : HasCode(d)' => HasCode(d)
  BY <1>3 DEF HasCode
<1>5. \A q \in Request \ {r} : Mailer(q) => mailing[q] # c
  BY <1>3 DEF SendInv
<1>6. HashMeansSent'
  <2>1. ASSUME NEW d \in Challenge, HasCode(d)'
        PROVE  \/ d \in delivered' \cup lost'
               \/ \E q \in Request : Mailer(q)' /\ mailing'[q] = d
    <3>1. CASE d = c
      BY <1>2, <3>1
    <3>2. CASE d # c
      <4>1. HasCode(d)
        BY <1>4, <2>1, <3>2
      <4>2. CASE d \in delivered \cup lost
        BY <4>2
      <4>3. ASSUME NEW q \in Request, Mailer(q), mailing[q] = d
            PROVE  Mailer(q)' /\ mailing'[q] = d
        BY <1>2, <4>3
      <4> QED
        BY <4>1, <4>2, <4>3 DEF SendInv, HashMeansSent, HasCode, Mailer
    <3> QED
      BY <3>1, <3>2
  <2> QED
    BY <2>1 DEF HashMeansSent, HasCode, Mailer
<1>7. \A q \in Request : IF Mailer(q)' THEN mailing'[q] \in issued' \ delivered'
                                       ELSE mailing'[q] = None
  BY <1>2, <1>3 DEF SendInv
<1>8. \A x, q \in Request : Mailer(x)' /\ Mailer(q)' /\ mailing'[x] = mailing'[q] => x = q
  BY <1>2, <1>5 DEF SendInv
<1>9. delivered' \subseteq issued'
  BY <1>3 DEF SendInv
<1> QED
  BY <1>6, <1>7, <1>8, <1>9 DEF SendInv

\* A challenge that is made without a code.
LEMMA CreatedWithoutCode ==
  ASSUME AccountTypes, RowInv,
         NEW c \in Challenge, NEW p \in Purpose, NEW m \in Method, NEW send \in BOOLEAN,
         CreateChallenge(c, p, m, send), ~(m = "email" /\ send)
  PROVE  issued \subseteq issued' /\ \A d \in Challenge : HasCode(d)' => HasCode(d)
<1>1. /\ issued' = issued \cup {c}
      /\ challenge'[c].hash = (m = "email" /\ send)
      /\ \A d \in Challenge \ {c} : challenge'[d] \in {challenge[d], NoRow}
  BY CreateEffect
<1>2. ~challenge'[c].hash
  BY <1>1
<1> QED
  BY <1>1, <1>2 DEF HasCode

LEMMA SendStep ==
  ASSUME AccountTypes, RequestTypes, RowInv, SendInv, Next
  PROVE  SendInv' /\ RequestTypes'
<1>0. Next
  OBVIOUS
<1> DEFINE Kept == SendInv' /\ RequestTypes'
<1>1. ASSUME UNCHANGED <<requests, delivered, lost>>, issued \subseteq issued',
             \A c \in Challenge : HasCode(c)' => HasCode(c)
      PROVE  Kept
  BY <1>1, SendQuiet DEF requests, RequestTypes
<1>2. ASSUME NEW s \in Scope, Failed(s)
      PROVE  Kept
  <2>1. \A c \in Challenge : HasCode(c)' => HasCode(c)
    BY <1>2 DEF Failed, HasCode
  <2> QED
    BY <1>1, <1>2, <2>1 DEF Failed
<1>3. "login" \in Scope /\ "manage" \in Scope
  BY DEF Scope
<1>4. ASSUME NEW r \in Request, NEW v \in Version, NEW where \in {"idle", "begin"},
             Goto(r, where, v, None), ~Mailer(r), issued \subseteq issued',
             UNCHANGED <<delivered, lost>>,
             \A c \in Challenge : HasCode(c)' => HasCode(c)
      PROVE  Kept
  <2>1. SendInv'
    BY <1>4, SendDone DEF Goto
  <2>2. RequestTypes'
    BY <1>4 DEF Goto, RequestTypes
  <2> QED
    BY <2>1, <2>2
<1>5. 0 \in Version
  BY Limits DEF Version
<1>6. ASSUME NEW r \in Request, ~Mailer(r),
             NEW c \in Challenge, NEW p \in Purpose, NEW m \in Method, NEW send \in BOOLEAN,
             CreateChallenge(c, p, m, send), Deliver(r, c), UNCHANGED <<delivered, lost>>
      PROVE  Kept
  <2>1. SendInv'
    BY <1>6, SendCreated
  <2>2. RequestTypes'
    BY <1>5, <1>6 DEF Deliver, Goto, RequestTypes
  <2> QED
    BY <2>1, <2>2
<1>7. "login" \in Purpose /\ "enroll" \in Purpose /\ "manage" \in Purpose /\ "email" \in Method
  BY DEF Purpose, Method
<1>8. ASSUME NEW r \in Request, SignIn(r)
      PROVE  Kept
  <2>1. /\ Goto(r, "begin", version, None) /\ ~Mailer(r) /\ issued' = issued
        /\ challenge' = challenge /\ UNCHANGED <<delivered, lost>>
    BY <1>8 DEF SignIn, Mailer
  <2>2. \A c \in Challenge : HasCode(c)' => HasCode(c)
    BY <2>1 DEF HasCode
  <2> QED
    BY <1>4, <2>1, <2>2 DEF AccountTypes
<1>9. ASSUME NEW r \in Request, BeginLogin(r)
      PROVE  Kept
  <2>1. ~Mailer(r) /\ UNCHANGED <<delivered, lost>>
    BY <1>9 DEF BeginLogin, Mailer
  <2>2. ASSUME Done(r), UNCHANGED <<challenge, issued>>
        PROVE  Kept
    <3>1. \A c \in Challenge : HasCode(c)' => HasCode(c)
      BY <2>2 DEF HasCode
    <3> QED
      BY <1>4, <1>5, <2>1, <2>2, <3>1 DEF Done
  <2>3. ASSUME NEW c \in Challenge, method \in Method, CreateChallenge(c, "login", method, FALSE),
               Done(r)
        PROVE  Kept
    <3>1. issued \subseteq issued' /\ \A d \in Challenge : HasCode(d)' => HasCode(d)
      BY <1>7, <2>3, CreatedWithoutCode
    <3> QED
      BY <1>4, <1>5, <2>1, <2>3, <3>1 DEF Done
  <2>4. ASSUME NEW c \in Challenge, method = "email", CreateChallenge(c, "login", method, TRUE),
               Deliver(r, c)
        PROVE  Kept
    BY <1>6, <1>7, <2>1, <2>4
  <2> QED
    BY <1>9, <2>2, <2>3, <2>4 DEF BeginLogin
<1>10. ASSUME NEW r \in Request, NEW m \in Method, Setup(r, m)
       PROVE  Kept
  <2>1. ~Mailer(r)
    BY <1>10 DEF Setup, Mailer
  <2>2. CASE Failed("manage")
    BY <1>2, <1>3, <2>2
  <2>3. CASE ~Failed("manage")
    <3>1. UNCHANGED <<delivered, lost>>
      BY <1>10, <2>3 DEF Setup
    <3>2. PICK c \in Challenge : /\ CreateChallenge(c, "enroll", m, TRUE)
                                 /\ IF m = "email" THEN Deliver(r, c) ELSE UNCHANGED requests
      BY <1>10, <2>3 DEF Setup
    <3>3. CASE m = "email"
      BY <1>6, <1>7, <2>1, <3>1, <3>2, <3>3
    <3>4. CASE m # "email"
      <4>1. issued \subseteq issued' /\ \A d \in Challenge : HasCode(d)' => HasCode(d)
        BY <1>7, <3>2, <3>4, CreatedWithoutCode
      <4> QED
        BY <1>1, <3>1, <3>2, <3>4, <4>1
    <3> QED
      BY <3>3, <3>4
  <2> QED
    BY <2>2, <2>3
<1>11. ASSUME NEW r \in Request, ManagementEmail(r)
       PROVE  Kept
  <2>1. ~Mailer(r)
    BY <1>11 DEF ManagementEmail, Mailer
  <2>2. CASE Failed("manage")
    BY <1>2, <1>3, <2>2
  <2>3. CASE ~Failed("manage")
    <3>1. PICK c \in Challenge : CreateChallenge(c, "manage", "email", TRUE) /\ Deliver(r, c)
      BY <1>11, <2>3 DEF ManagementEmail
    <3>2. UNCHANGED <<delivered, lost>>
      BY <1>11, <2>3 DEF ManagementEmail
    <3> QED
      BY <1>6, <1>7, <2>1, <3>1, <3>2
  <2> QED
    BY <2>2, <2>3
<1>12. ASSUME NEW r \in Request, NEW c \in Challenge, Resend(r, c)
       PROVE  Kept
  <2>1. ~Mailer(r) /\ UNCHANGED <<delivered, lost>>
    BY <1>12 DEF Resend, Mailer
  <2>2. PICK p \in Purpose, d \in Challenge : CreateChallenge(d, p, "email", TRUE) /\ Deliver(r, d)
    BY <1>12 DEF Resend
  <2> QED
    BY <1>6, <1>7, <2>1, <2>2
<1>13. ASSUME NEW r \in Request, Sent(r)
       PROVE  Kept
  <2>1. /\ pc' = [pc EXCEPT ![r] = "idle"] /\ mailing' = [mailing EXCEPT ![r] = None]
        /\ seen' = [seen EXCEPT ![r] = 0]
        /\ delivered' = delivered \cup {mailing[r]} /\ lost' = lost
        /\ Mailer(r) /\ issued' = issued /\ challenge' = challenge
    BY <1>13 DEF Sent, Done, Goto, Mailer
  <2>2. \A c \in Challenge : HasCode(c)' => HasCode(c)
    BY <2>1 DEF HasCode
  <2>3. SendInv'
    BY <2>1, <2>2, SendDone
  <2>4. mailing[r] \in Challenge
    BY <2>1 DEF SendInv, RowInv
  <2> QED
    BY <1>5, <2>1, <2>3, <2>4 DEF RequestTypes
<1>14. ASSUME NEW r \in Request, NotSent(r)
       PROVE  Kept
  <2>1. /\ pc' = [pc EXCEPT ![r] = "forget"] /\ mailing' = [mailing EXCEPT ![r] = mailing[r]]
        /\ seen' = [seen EXCEPT ![r] = 0] /\ pc[r] = "deliver"
        /\ UNCHANGED <<delivered, lost, issued, challenge>>
    BY <1>14 DEF NotSent, Goto
  <2>2. mailing' = mailing /\ RequestTypes'
    BY <1>5, <2>1 DEF RequestTypes
  <2>3. \A q \in Request : Mailer(q)' <=> Mailer(q)
    BY <2>1 DEF Mailer, RequestTypes
  <2>4. HashMeansSent'
    <3>1. HashMeansSent
      BY DEF SendInv
    <3> QED
      BY <2>1, <2>2, <2>3, <3>1 DEF HashMeansSent, Mailer
  <2> QED
    BY <2>1, <2>2, <2>3, <2>4 DEF SendInv
<1>15. ASSUME NEW r \in Request, Forget(r)
       PROVE  Kept
  <2>1. /\ pc' = [pc EXCEPT ![r] = "idle"] /\ mailing' = [mailing EXCEPT ![r] = None]
        /\ seen' = [seen EXCEPT ![r] = 0]
        /\ UNCHANGED <<delivered, lost, issued>>
    BY <1>15 DEF Forget, Done, Goto
  <2>2. /\ \A d \in Challenge : Lowers(d)
        /\ challenge'[mailing[r]] # NoRow => ~challenge'[mailing[r]].hash
    BY <1>15, ForgetEffect
  <2>3. \A c \in Challenge : HasCode(c)' => HasCode(c)
    BY <2>2, LoweredHasNoNewCode
  <2>4. \A c \in Challenge : ~(mailing[r] = c /\ HasCode(c)')
    BY <2>2 DEF HasCode
  <2>5. SendInv'
    BY <2>1, <2>3, <2>4, SendDone
  <2> QED
    BY <1>5, <2>1, <2>5 DEF RequestTypes
<1>16. ASSUME NEW r \in Request, Die(r)
       PROVE  Kept
  <2>1. /\ pc' = [pc EXCEPT ![r] = "idle"] /\ mailing' = [mailing EXCEPT ![r] = None]
        /\ seen' = [seen EXCEPT ![r] = 0]
        /\ lost' = lost \cup ({mailing[r]} \ {None})
        /\ UNCHANGED <<delivered, issued, challenge>>
    BY <1>16 DEF Die, Done, Goto
  <2>2. \A c \in Challenge : HasCode(c)' => HasCode(c)
    BY <2>1 DEF HasCode
  <2>3. \A c \in Challenge : Mailer(r) /\ mailing[r] = c => c \in lost'
    BY <2>1, IdAssumption
  <2>4. SendInv'
    BY <2>1, <2>2, <2>3, SendDone
  <2> QED
    BY <1>5, <2>1, <2>4 DEF RequestTypes
<1>17. ASSUME NEW c, NEW code, VerifyLogin(c, code)
       PROVE  Kept
  <2>1. CASE Failed("login")
    BY <1>2, <1>3, <2>1
  <2>2. CASE ~Failed("login")
    <3>1. /\ challenge' = [challenge EXCEPT ![c] = NoRow]
          /\ UNCHANGED <<issued, requests, delivered, lost>>
      BY <1>17, <2>2 DEF VerifyLogin
    <3>2. \A d \in Challenge : HasCode(d)' => HasCode(d)
      BY <3>1 DEF HasCode, RowInv
    <3> QED
      BY <1>1, <3>1, <3>2
  <2> QED
    BY <2>1, <2>2
<1>18. ASSUME NEW c, NEW code, NEW b, Confirm(c, code) \/ ChangeMethod(c, code, b)
       PROVE  Kept
  <2>1. CASE Failed("manage")
    BY <1>2, <1>3, <2>1
  <2>2. CASE ~Failed("manage")
    <3>1. /\ challenge' = [d \in Challenge |-> NoRow]
          /\ UNCHANGED <<issued, requests, delivered, lost>>
      BY <1>18, <2>2 DEF Confirm, ChangeMethod, RotateSession
    <3>2. \A d \in Challenge : HasCode(d)' => HasCode(d)
      BY <3>1 DEF HasCode
    <3> QED
      BY <1>1, <3>1, <3>2
  <2> QED
    BY <2>1, <2>2
<1>19. ASSUME Purge \/ Tick \/ \E unlock \in BOOLEAN : ChangeUser(unlock)
       PROVE  Kept
  <2>1. UNCHANGED <<issued, requests, delivered, lost>>
    BY <1>19 DEF Purge, ChangeUser, Tick
  <2>2. \A d \in Challenge : HasCode(d)' => HasCode(d)
    BY <1>19 DEF Purge, ChangeUser, Tick, HasCode
  <2> QED
    BY <1>1, <2>1, <2>2
<1> HIDE DEF Kept
<1>20. Kept
  BY <1>0, <1>8, <1>9, <1>10, <1>11, <1>12, <1>13, <1>14, <1>15, <1>16, <1>17, <1>18, <1>19 DEF Next
<1> QED
  BY <1>20 DEF Kept

-----------------------------------------------------------------------------
(* Types and tokens *)

LEMMA AccountStep ==
  ASSUME AccountTypes, Next
  PROVE  AccountTypes'
<1>0. /\ now \in Nat /\ version \in Version /\ active \in BOOLEAN
      /\ tokens \subseteq BOOLEAN /\ faults \in Nat
  BY DEF AccountTypes
<1>1. UNCHANGED <<now, users, tokens, faults>> => AccountTypes'
  BY DEF users, AccountTypes
<1>2. ASSUME NEW s, Failed(s)
      PROVE  AccountTypes'
  BY <1>1, <1>2 DEF Failed
<1>3. ASSUME NEW r \in Request,
             \/ SignIn(r) \/ Sent(r) \/ NotSent(r) \/ Forget(r)
             \/ \E m \in Method : Setup(r, m)
             \/ ManagementEmail(r)
             \/ \E c \in Challenge : Resend(r, c)
      PROVE  AccountTypes'
  BY <1>1, <1>2, <1>3 DEF SignIn, Sent, NotSent, Forget, Setup, ManagementEmail, Resend
<1>4. ASSUME NEW r \in Request, BeginLogin(r)
      PROVE  AccountTypes'
  <2>1. UNCHANGED <<now, users, faults>> /\ tokens' \subseteq tokens \cup {FALSE}
    BY <1>4 DEF BeginLogin
  <2> QED
    BY <1>0, <2>1 DEF AccountTypes, users
<1>5. ASSUME NEW r \in Request, Die(r)
      PROVE  AccountTypes'
  BY <1>0, <1>5 DEF Die, AccountTypes, users
<1>6. ASSUME RotateSession, UNCHANGED <<now, faults>>
      PROVE  AccountTypes'
  <2>1. version' = version + 1 /\ version < MaxVersion /\ tokens' = {TRUE} /\ active' = active
    BY <1>6 DEF RotateSession
  <2>2. version' \in Version
    BY <1>0, <2>1, Limits DEF Version
  <2> QED
    BY <1>0, <1>6, <2>1, <2>2 DEF AccountTypes
<1>7. ASSUME NEW c, NEW code, VerifyLogin(c, code)
      PROVE  AccountTypes'
  <2>1. CASE Failed("login")
    BY <1>2, <2>1
  <2>2. CASE ~Failed("login")
    <3>1. UNCHANGED <<now, users, faults>> /\ tokens' = tokens \cup {TRUE}
      BY <1>7, <2>2 DEF VerifyLogin
    <3> QED
      BY <1>0, <3>1 DEF AccountTypes, users
  <2> QED
    BY <2>1, <2>2
<1>8. ASSUME NEW c, NEW code, NEW b, Confirm(c, code) \/ ChangeMethod(c, code, b)
      PROVE  AccountTypes'
  BY <1>2, <1>6, <1>8 DEF Confirm, ChangeMethod
<1>9. ASSUME NEW unlock \in BOOLEAN, ChangeUser(unlock)
      PROVE  AccountTypes'
  <2>1. /\ now' = now /\ faults' = faults
        /\ \/ UNCHANGED <<users, tokens>>
           \/ /\ version' = version + 1 /\ version < MaxVersion
              /\ active' \in BOOLEAN /\ tokens' = {}
    BY <1>9 DEF ChangeUser
  <2>2. version' \in Version
    BY <1>0, <2>1, Limits DEF Version, users
  <2> QED
    BY <1>0, <2>1, <2>2 DEF AccountTypes, users
<1>10. Purge => AccountTypes'
  BY <1>1 DEF Purge
<1>11. Tick => AccountTypes'
  BY <1>0 DEF Tick, AccountTypes, users
<1> QED
  BY <1>3, <1>4, <1>5, <1>7, <1>8, <1>9, <1>10, <1>11 DEF Next

LEMMA FactorStep ==
  ASSUME AccountTypes, FactorTypes, RowInv, SendInv, CodeInv, Next
  PROVE  FactorTypes'
<1>0. /\ method \in Method \cup {""} /\ secret \in Challenge \cup {None}
      /\ lastStep \in Int /\ recovery \subseteq Recoveries
  BY DEF FactorTypes
<1>1. accepted' \in Seq(Codes)
  BY CodeStep
<1>2. NewRecoveryCodes => recovery' \subseteq Recoveries
  BY DEF NewRecoveryCodes, Recoveries, AccountTypes
<1>3. CASE UNCHANGED <<accepted, factor>>
  BY <1>0, <1>1, <1>3 DEF factor, FactorTypes
<1>4. ASSUME NEW c \in Challenge, NEW code \in Code, LoginAccepts(c, code)
      PROVE  FactorTypes'
  <2>1. /\ recovery' = recovery \ {code} /\ lastStep' = StepAfter(code)
        /\ method' = method /\ secret' = secret /\ Usable(c, "login") /\ Proves(code, c)
    BY <1>4 DEF LoginAccepts, VerifyLogin
  <2>2. c \in Held
    BY <2>1, NoRowIsNoRow DEF Usable, Held, Purpose
  <2>3. StepAfter(code) \in Int
    BY <2>1, <2>2, ProofSpends
  <2> QED
    BY <1>0, <1>1, <2>1, <2>3 DEF FactorTypes
<1>5. ASSUME NEW c \in Challenge, NEW code \in Code, ConfirmAccepts(c, code)
      PROVE  FactorTypes'
  <2>1. recovery' \subseteq Recoveries
    BY <1>2, <1>5 DEF ConfirmAccepts, Confirm
  <2>2. /\ method' \in Method /\ secret' \in Challenge \cup {None} /\ lastStep' \in Int
    BY <1>5, ConfirmSpends DEF Method
  <2> QED
    BY <1>1, <2>1, <2>2 DEF FactorTypes
<1>6. ASSUME NEW c \in Challenge \cup {None}, NEW code \in Code, NEW b \in BOOLEAN,
             ChangeAccepts(c, code, b)
      PROVE  FactorTypes'
  <2>1. /\ Proves(code, Presented(c))
        /\ \/ /\ recovery' \subseteq Recoveries /\ lastStep' = StepAfter(code)
              /\ method' = method /\ secret' = secret
           \/ method' = "" /\ secret' = None /\ lastStep' = -1 /\ recovery' = {}
    BY <1>2, <1>6 DEF ChangeAccepts
  <2>2. Presented(c) \in Held \cup {None}
    BY NoRowIsNoRow DEF Presented, Usable, Held, Purpose
  <2>3. StepAfter(code) \in Int
    BY <2>1, <2>2, ProofSpends
  <2>4. /\ method' \in Method \cup {""} /\ secret' \in Challenge \cup {None}
        /\ lastStep' \in Int /\ recovery' \subseteq Recoveries
    <3>1. -1 \in Int /\ {} \subseteq Recoveries
      OBVIOUS
    <3> QED
      BY <1>0, <2>1, <2>3, <3>1
  <2> QED
    BY <1>1, <2>4 DEF FactorTypes
<1> QED
  BY <1>3, <1>4, <1>5, <1>6, CodeSteps

\* An unproven token is made while no factor is enrolled, and an enrolment leaves none.
LEMMA TokensStep ==
  ASSUME AccountTypes, TokensProven, Next
  PROVE  TokensProven'
<1>1. UNCHANGED <<method, tokens>> => TokensProven'
  BY DEF TokensProven
<1>2. ASSUME NEW s, Failed(s)
      PROVE  TokensProven'
  BY <1>1, <1>2 DEF Failed, factor
<1>3. ASSUME NEW r \in Request,
             \/ SignIn(r) \/ Sent(r) \/ NotSent(r) \/ Forget(r) \/ Die(r)
             \/ \E m \in Method : Setup(r, m)
             \/ ManagementEmail(r)
             \/ \E c \in Challenge : Resend(r, c)
      PROVE  TokensProven'
  BY <1>1, <1>2, <1>3 DEF SignIn, Sent, NotSent, Forget, Die, Setup, ManagementEmail, Resend,
                          factor
<1>4. ASSUME NEW r \in Request, BeginLogin(r)
      PROVE  TokensProven'
  <2>1. method' = method /\ (method # "" => tokens' = tokens)
    BY <1>4 DEF BeginLogin, factor, Method
  <2> QED
    BY <2>1 DEF TokensProven
<1>5. RotateSession => TokensProven'
  BY DEF RotateSession, TokensProven
<1>6. ASSUME NEW c, NEW code, VerifyLogin(c, code)
      PROVE  TokensProven'
  <2>1. CASE Failed("login")
    BY <1>2, <2>1
  <2>2. CASE ~Failed("login")
    <3>1. method' = method /\ tokens' = tokens \cup {TRUE}
      BY <1>6, <2>2 DEF VerifyLogin
    <3> QED
      BY <3>1 DEF TokensProven
  <2> QED
    BY <2>1, <2>2
<1>7. ASSUME NEW c, NEW code, NEW b, Confirm(c, code) \/ ChangeMethod(c, code, b)
      PROVE  TokensProven'
  BY <1>2, <1>5, <1>7 DEF Confirm, ChangeMethod
<1>8. Purge \/ Tick \/ (\E unlock \in BOOLEAN : ChangeUser(unlock)) => TokensProven'
  BY DEF Purge, ChangeUser, Tick, TokensProven, factor
<1> QED
  BY <1>3, <1>4, <1>6, <1>7, <1>8 DEF Next

-----------------------------------------------------------------------------
(* The theorems *)

LEMMA IndInvInit == Init => IndInv
<1> SUFFICES ASSUME Init
             PROVE  IndInv
  OBVIOUS
<1>0. 0 \in Version
  BY Limits DEF Version
<1>1. AccountTypes /\ RequestTypes /\ FactorTypes /\ TokensProven
  <2>1. AccountTypes
    BY <1>0, Limits DEF Init, AccountTypes
  <2>2. RequestTypes
    BY <1>0 DEF Init, RequestTypes
  <2>3. method = "" /\ secret = None /\ lastStep = -1 /\ recovery = {} /\ accepted = <<>>
    BY DEF Init
  <2>4. -1 \in Int /\ <<>> \in Seq(Codes) /\ {} \subseteq Recoveries
    OBVIOUS
  <2> QED
    BY <2>1, <2>2, <2>3, <2>4 DEF FactorTypes, TokensProven
<1>2. BudgetInv
  <2>1. \A s \in Scope : failures[s] = 0 /\ lockedUntil[s] = 0 /\ wrong[s] = <<>>
    BY DEF Init
  <2>2. /\ failures \in [Scope -> 0..(FailureLimit - 1)] /\ lockedUntil \in [Scope -> Nat]
        /\ wrong \in [Scope -> Seq(Nat)]
    <3>1. 0 \in 0..(FailureLimit - 1) /\ 0 \in Nat /\ <<>> \in Seq(Nat)
      BY Limits
    <3> QED
      BY <3>1 DEF Init
  <2>3. ASSUME NEW s \in Scope
        PROVE  Budget(s)
    BY <2>1, Limits DEF Budget, Apart
  <2> QED
    BY <2>2, <2>3 DEF BudgetInv
<1>3. MailInv
  <2>1. /\ now = SendWindow /\ nextSend = 0 /\ sendWindow = 0 /\ sendCount = 0 /\ sends = <<>>
    BY DEF Init
  <2>2. /\ Len(sends) = 0 /\ sends \in Seq(Nat) /\ 1..Len(sends) = {}
        /\ 1..(Len(sends) - 1) = {} /\ 1..(Len(sends) - (2 * SendLimit - 1)) = {}
    BY <2>1, Limits
  <2>3. Apart(sends, 1, SendGap) /\ Apart(sends, 2 * SendLimit - 1, SendWindow)
    BY <2>2 DEF Apart
  <2> QED
    BY <2>1, <2>2, <2>3, Limits DEF MailInv
<1>4. RowInv
  <2>1. challenge = [c \in Challenge |-> NoRow] /\ issued = {}
    BY DEF Init
  <2>2. Held = {}
    BY <2>1 DEF Held
  <2> QED
    BY <2>1, <2>2 DEF RowInv
<1>5. CodeInv
  <2>1. secret = None /\ recovery = {} /\ Len(accepted) = 0
    BY DEF Init
  <2>2. 1..Len(accepted) = {}
    BY <2>1
  <2> QED
    BY <2>1, <2>2 DEF CodeInv, CodesAcceptedOnce
<1>6. SendInv
  BY DEF Init, SendInv, Mailer, HashMeansSent
<1> QED
  BY <1>1, <1>2, <1>3, <1>4, <1>5, <1>6 DEF IndInv

LEMMA IndInvStutters == IndInv /\ UNCHANGED vars => IndInv'
<1> SUFFICES ASSUME IndInv, UNCHANGED vars
             PROVE  IndInv'
  OBVIOUS
<1>1. AccountTypes' /\ FactorTypes' /\ RequestTypes' /\ TokensProven'
  BY DEF IndInv, AccountTypes, FactorTypes, RequestTypes, TokensProven, vars, users, factor, requests
<1>2. BudgetInv'
  BY DEF IndInv, BudgetInv, Budget, Apart, vars, budgets
<1>3. MailInv'
  BY DEF IndInv, MailInv, Apart, vars, mail
<1>4. RowInv'
  BY DEF IndInv, RowInv, Held, vars, users, factor
<1>5. CodeInv'
  BY DEF IndInv, CodeInv, CodesAcceptedOnce, Spent, Gone, vars, users, factor
<1>6. SendInv'
  BY DEF IndInv, SendInv, Mailer, HashMeansSent, vars, requests
<1> QED
  BY <1>1, <1>2, <1>3, <1>4, <1>5, <1>6 DEF IndInv

LEMMA Inductive == IndInv /\ [Next]_vars => IndInv'
<1> SUFFICES ASSUME IndInv, Next
             PROVE  IndInv'
  BY IndInvStutters
<1> USE DEF IndInv
<1>1. AccountTypes' /\ FactorTypes' /\ TokensProven'
  BY AccountStep, FactorStep, TokensStep
<1>2. BudgetInv' /\ MailInv'
  BY BudgetStep, MailStep
<1>3. RowInv' /\ CodeInv' /\ SendInv' /\ RequestTypes'
  BY RowStep, CodeStep, SendStep
<1> QED
  BY <1>1, <1>2, <1>3

\* The invariant: types, the failures and emails that count, what rows, secrets and codes
\* may still be good for, and which request sends which code.
THEOREM Invariance == Spec => []IndInv
BY IndInvInit, Inductive, PTL DEF Spec

\* A code is accepted once, and the steps of a secret in their order, wherever it is
\* presented: at a sign-in, at the enrolment or in management.
THEOREM CodesAreAcceptedOnce == Spec => []CodesAcceptedOnce
<1>1. IndInv => CodesAcceptedOnce
  BY DEF IndInv, CodeInv
<1> QED
  BY <1>1, Invariance, PTL

\* While a second factor is enrolled, every token comes from a proof of it.
THEOREM TokensAreProven == Spec => []TokensProven
<1>1. IndInv => TokensProven
  BY DEF IndInv
<1> QED
  BY <1>1, Invariance, PTL

\* A challenge has a code only if it was sent or its request still has it or died.
THEOREM HashesWereSent == Spec => []HashMeansSent
<1>1. IndInv => HashMeansSent
  BY DEF IndInv, SendInv
<1> QED
  BY <1>1, Invariance, PTL

\* The types, with at most one usable challenge of a purpose.
LEMMA TypesHold == IndInv => TypeOK
<1> SUFFICES ASSUME IndInv
             PROVE  TypeOK
  OBVIOUS
<1>1. ASSUME NEW p \in Purpose
      PROVE  Cardinality({c \in Challenge : Usable(c, p)}) <= 1
  <2> DEFINE S == {c \in Challenge : Usable(c, p)}
  <2>1. \A c \in S : c \in Held /\ challenge[c].purpose = p
    BY NoRowIsNoRow DEF Usable, Held
  <2>2. \A c, d \in S : c = d
    BY <2>1 DEF IndInv, RowInv
  <2> HIDE DEF S
  <2>3. CASE S = {}
    BY <2>3, FS_EmptySet DEF S
  <2>4. CASE S # {}
    <3>1. PICK c \in S : S = {c}
      BY <2>2, <2>4
    <3>2. Cardinality(S) = 1
      BY <3>1, FS_Singleton
    <3> QED
      BY <3>2 DEF S
  <2> QED
    BY <2>3, <2>4
<1>2. /\ now \in Nat /\ version \in Version /\ active \in BOOLEAN /\ tokens \subseteq BOOLEAN
  BY DEF IndInv, AccountTypes
<1>3. /\ method \in Method \cup {""} /\ secret \in Challenge \cup {None} /\ lastStep \in Int
  BY DEF IndInv, FactorTypes
<1>4. recovery \subseteq Recoveries
  BY DEF IndInv, FactorTypes
<1>5. /\ failures \in [Scope -> 0..(FailureLimit - 1)] /\ lockedUntil \in [Scope -> Nat]
      /\ nextSend \in Nat /\ sendWindow \in Nat /\ sendCount \in 0..SendLimit
  BY DEF IndInv, BudgetInv, MailInv
<1>6. /\ challenge \in [Challenge -> Row \cup {NoRow}] /\ issued \subseteq Challenge
  BY DEF IndInv, RowInv
<1>7. /\ pc \in [Request -> {"idle", "begin", "deliver", "forget"}]
      /\ seen \in [Request -> Version] /\ mailing \in [Request -> Challenge \cup {None}]
  BY DEF IndInv, RequestTypes
<1>8. \A p \in Purpose : Cardinality({c \in Challenge : Usable(c, p)}) <= 1
  BY <1>1
<1> QED
  BY <1>2, <1>3, <1>4, <1>5, <1>6, <1>7, <1>8, Zenon DEF TypeOK

\* Between a budget's successes and an administrator's unlocks its failures stay
\* within their limit, and the emails always within theirs.
THEOREM BudgetsAreKept == Spec => []BudgetsKept
<1>1. IndInv => BudgetsKept
  <2>1. IndInv => TypeOK
    BY TypesHold
  <2> QED
    BY <2>1 DEF IndInv, BudgetInv, Budget, MailInv, BudgetsKept
<1> QED
  BY <1>1, Invariance, PTL

-----------------------------------------------------------------------------
(* A code that reached its owner *)

\* A challenge that is made in place of a good one is made to be sent if it is for
\* signing in.
LEMMA GoodReplaced ==
  ASSUME IndInv, NEW g \in Challenge, NEW p \in Purpose, Good(g, p), ~Good(g, p)',
         UNCHANGED <<now, version>>, delivered \subseteq delivered',
         NEW c \in Challenge, NEW q \in Purpose, NEW m \in Method, NEW send \in BOOLEAN,
         CreateChallenge(c, q, m, send), q = "login" => m = "email" /\ send
  PROVE  Replaced(p)
<1>1. /\ c \notin issued /\ challenge[c] = NoRow
      /\ challenge'[c].version = version /\ challenge'[c].purpose = q
      /\ challenge'[c].hash = (m = "email" /\ send)
      /\ challenge'[c].expires > now
      /\ \A d \in Challenge \ {c} :
           challenge'[d] # challenge[d] =>
             challenge[d].purpose = q \/ challenge[d].expires <= now
  BY CreateEffect DEF IndInv
<1>2. g \in Held /\ g # c
  BY <1>1, NoRowIsNoRow DEF Good, Usable, Held
<1>3. challenge'[g] # challenge[g]
  BY DEF Good, Usable
<1>4. /\ now \in Nat /\ challenge[g].expires \in Nat /\ challenge[g].expires > now
      /\ challenge[g].purpose = p
  <2>1. challenge[g] \in Row
    BY <1>2 DEF IndInv, RowInv, Held
  <2>2. challenge[g].expires \in Nat
    BY <2>1 DEF Row
  <2>3. now \in Nat
    BY DEF IndInv, AccountTypes
  <2> QED
    BY <2>2, <2>3 DEF Good, Usable
<1>5. q = p
  BY <1>1, <1>2, <1>3, <1>4
<1>6. p = "login" => challenge'[c].hash
  BY <1>1, <1>5
<1>7. Usable(c, p)'
  BY <1>1, <1>5, IdAssumption DEF Usable
<1> QED
  BY <1>1, <1>6, <1>7 DEF Replaced

LEMMA GoodKept ==
  ASSUME IndInv, Next, NEW g \in Challenge, NEW p \in Purpose, Good(g, p), ~Good(g, p)',
         ~(challenge[g].expires <= now'), version' = version,
         p = "login" => accepted' = accepted,
         \A s \in Scope : (s = "login" <=> p = "login") => ~(lockedUntil'[s] > lockedUntil[s])
  PROVE  Replaced(p)
<1>0. Next
  OBVIOUS
<1>1. /\ g \in Held /\ challenge[g].hash /\ challenge[g].purpose = p
      /\ p = "login" => method = "email" /\ g \in Reissuable
      /\ g \in delivered
  <2>1. g \in Held
    BY NoRowIsNoRow DEF Good, Usable, Held
  <2> QED
    BY <2>1 DEF IndInv, RowInv, Good, Usable, Reissuable
<1>2. /\ challenge[g].expires \in Nat /\ now \in Nat /\ now' \in Nat
      /\ challenge[g].expires > now /\ challenge[g].expires > now'
  <2>1. challenge[g] \in Row
    BY <1>1 DEF IndInv, RowInv, Held
  <2>2. challenge[g].expires \in Nat
    BY <2>1 DEF Row
  <2>3. now \in Nat /\ now' \in Nat
    BY AccountStep DEF IndInv, AccountTypes
  <2> QED
    BY <2>2, <2>3 DEF Good, Usable
<1>3. delivered \subseteq delivered' => challenge'[g] # challenge[g]
  BY <1>2 DEF Good, Usable
<1>4. UNCHANGED <<challenge, delivered>> => FALSE
  BY <1>3
<1>5. ASSUME NEW s \in Scope, Open(s), Failed(s)
      PROVE  FALSE
  <2>1. lockedUntil'[s] = IF Exhausted(failures[s] + 1) THEN now + LockTime ELSE 0
    BY <1>5 DEF Failed, IndInv, BudgetInv
  <2>2. /\ lockedUntil[s] \in Nat /\ lockedUntil[s] <= now
    BY <1>5 DEF Open, IndInv, BudgetInv
  <2>3. ~Exhausted(failures[s] + 1) \/ p \notin Revoked(s)
    BY <1>2, <2>1, <2>2, Limits DEF Revoked, Scope, Purpose
  <2>4. challenge'[g] = challenge[g] /\ delivered' = delivered
    BY <1>1, <1>5, <2>3 DEF Failed, IndInv, RowInv
  <2> QED
    BY <1>3, <2>4
<1>6. "login" \in Scope /\ "manage" \in Scope
  BY DEF Scope
<1>7. "login" \in Purpose /\ "enroll" \in Purpose /\ "manage" \in Purpose /\ "email" \in Method
  BY DEF Purpose, Method
<1>8. ASSUME NEW c \in Challenge, NEW q \in Purpose, NEW m \in Method, NEW send \in BOOLEAN,
             CreateChallenge(c, q, m, send), q = "login" => m = "email" /\ send,
             UNCHANGED <<now, delivered>>
      PROVE  Replaced(p)
  BY <1>8, GoodReplaced
<1>9. ASSUME NEW r \in Request, SignIn(r) \/ NotSent(r) \/ Die(r)
      PROVE  FALSE
  BY <1>4, <1>9 DEF SignIn, NotSent, Die
<1>10. ASSUME NEW r \in Request, BeginLogin(r)
       PROVE  Replaced(p)
  <2>1. UNCHANGED <<now, delivered>>
    BY <1>10 DEF BeginLogin
  <2>2. \/ challenge' = challenge
        \/ method = "email" /\ \E c \in Challenge : CreateChallenge(c, "login", method, TRUE)
        \/ /\ method \in Method /\ (method = "email" => Reissuable = {})
           /\ \E c \in Challenge : CreateChallenge(c, "login", method, FALSE)
    BY <1>10 DEF BeginLogin
  <2>3. CASE challenge' = challenge
    BY <1>4, <2>1, <2>3
  <2>4. CASE method = "email" /\ \E c \in Challenge : CreateChallenge(c, "login", method, TRUE)
    BY <1>7, <1>8, <2>1, <2>4
  <2>5. CASE /\ method \in Method /\ (method = "email" => Reissuable = {})
             /\ \E c \in Challenge : CreateChallenge(c, "login", method, FALSE)
    <3>1. p # "login"
      BY <1>1, <2>5
    <3>2. PICK c \in Challenge : CreateChallenge(c, "login", method, FALSE)
      BY <2>5
    <3>3. /\ challenge[c] = NoRow
          /\ \A d \in Challenge \ {c} :
               challenge'[d] # challenge[d] =>
                 challenge[d].purpose = "login" \/ challenge[d].expires <= now
      BY <1>7, <2>5, <3>2, CreateEffect, version' = version, <2>1 DEF IndInv
    <3>4. g # c
      BY <1>1, <3>3 DEF Held
    <3> QED
      BY <1>1, <1>2, <1>3, <2>1, <3>1, <3>3, <3>4
  <2> QED
    BY <2>2, <2>3, <2>4, <2>5
<1>11. ASSUME NEW r \in Request, NEW m \in Method, Setup(r, m)
       PROVE  Replaced(p)
  <2>1. ~Failed("manage") /\ Open("manage")
    BY <1>5, <1>6, <1>11 DEF Setup, MayManage
  <2>2. /\ UNCHANGED <<now, delivered>>
        /\ \E c \in Challenge : CreateChallenge(c, "enroll", m, TRUE)
    BY <1>11, <2>1 DEF Setup
  <2> QED
    BY <1>7, <1>8, <2>2
<1>12. ASSUME NEW r \in Request, ManagementEmail(r)
       PROVE  Replaced(p)
  <2>1. ~Failed("manage") /\ Open("manage")
    BY <1>5, <1>6, <1>12 DEF ManagementEmail, MayManage
  <2>2. /\ UNCHANGED <<now, delivered>>
        /\ \E c \in Challenge : CreateChallenge(c, "manage", "email", TRUE)
    BY <1>12, <2>1 DEF ManagementEmail
  <2> QED
    BY <1>7, <1>8, <2>2
<1>13. ASSUME NEW r \in Request, NEW c \in Challenge, Resend(r, c)
       PROVE  Replaced(p)
  BY <1>7, <1>8, <1>13 DEF Resend
<1>14. ASSUME NEW r \in Request, Sent(r)
       PROVE  FALSE
  BY <1>3, <1>14 DEF Sent
<1>15. ASSUME NEW r \in Request, Forget(r)
       PROVE  FALSE
  <2>1. /\ \A d \in Challenge \ {mailing[r]} : challenge'[d] = challenge[d]
        /\ delivered' = delivered
    BY <1>15, ForgetEffect DEF IndInv, Forget
  <2>2. mailing[r] \notin delivered
    BY <1>15 DEF Forget, IndInv, SendInv, Mailer
  <2> QED
    BY <1>1, <1>3, <2>1, <2>2
<1>16. ASSUME NEW c \in Challenge, NEW code, VerifyLogin(c, code)
       PROVE  FALSE
  <2>1. /\ Accept(code) /\ delivered' = delivered /\ Usable(c, "login")
        /\ challenge' = [challenge EXCEPT ![c] = NoRow]
    BY <1>5, <1>6, <1>16 DEF VerifyLogin
  <2>2. accepted \in Seq(Codes)
    BY DEF IndInv, FactorTypes
  <2>3. accepted' # accepted
    BY <2>1, <2>2 DEF Accept
  <2>4. g # c
    BY <1>1, <2>1, <2>3 DEF Usable
  <2> QED
    BY <1>3, <2>1, <2>4 DEF IndInv, RowInv
<1>17. ASSUME NEW c, NEW code, NEW b, Confirm(c, code) \/ ChangeMethod(c, code, b)
       PROVE  FALSE
  <2>1. RotateSession
    BY <1>5, <1>6, <1>17 DEF Confirm, ChangeMethod, MayManage
  <2>2. version \in Nat
    BY DEF IndInv, AccountTypes, Version
  <2> QED
    BY <2>1, <2>2 DEF RotateSession
<1>18. ASSUME Purge
       PROVE  FALSE
  <2>1. challenge'[g] = challenge[g] /\ delivered' = delivered
    BY <1>2, <1>18 DEF Purge
  <2> QED
    BY <1>3, <2>1
<1>19. ASSUME Tick \/ \E unlock \in BOOLEAN : ChangeUser(unlock)
       PROVE  FALSE
  BY <1>4, <1>19 DEF ChangeUser, Tick
<1> HIDE DEF Replaced
<1>20. Replaced(p)
  BY <1>0, <1>9, <1>10, <1>11, <1>12, <1>13, <1>14, <1>15, <1>16, <1>17, <1>18, <1>19 DEF Next
<1> QED
  BY <1>20

\* A code that reached its owner stays good until it expires, is used, its budget is
\* locked, its version is old, or another one of its purpose is made to be sent.
THEOREM EmailedCodesStayGood == Spec => EmailedCodeKept
<1> DEFINE Kept == \A c \in Challenge, p \in Purpose : Good(c, p) /\ ~Good(c, p)' =>
                     \/ challenge[c].expires <= now' \/ version' # version
                     \/ p = "login" /\ accepted' # accepted
                     \/ \E s \in Scope : (s = "login" <=> p = "login") /\ lockedUntil'[s] > lockedUntil[s]
                     \/ Replaced(p)
<1>1. IndInv /\ [Next]_vars => [Kept]_vars
  <2> SUFFICES ASSUME IndInv, Next, NEW c \in Challenge, NEW p \in Purpose,
                      Good(c, p), ~Good(c, p)',
                      ~(challenge[c].expires <= now'), version' = version,
                      p = "login" => accepted' = accepted,
                      \A s \in Scope : (s = "login" <=> p = "login") => ~(lockedUntil'[s] > lockedUntil[s])
               PROVE  Replaced(p)
    OBVIOUS
  <2> QED
    BY GoodKept
<1> QED
  BY <1>1, Invariance, PTL DEF Spec, EmailedCodeKept
=============================================================================
