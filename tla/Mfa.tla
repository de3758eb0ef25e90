-------------------------------- MODULE Mfa --------------------------------
(***************************************************************************)
(* The second factor of one account: enrolment, sign-in challenges, codes  *)
(* by email, recovery codes and the two failure budgets, while its session *)
(* tokens, its password and several requests change around them.           *)
(* Everything is keyed by the account, so one account is enough.           *)
(*                                                                         *)
(* Each transaction of MFA begins with an update of the account's users    *)
(* row and is therefore one action.  Between two actions of a request lie  *)
(* the end of login and begin_login's transaction, and the transaction and *)
(* the delivery of its email.                                              *)
(*                                                                         *)
(* A tick of the clock is a TOTP step.  A code is what it answers to: a    *)
(* step of a secret, a challenge, or a place in a set of recovery codes.   *)
(* Who knows a code is left open.                                          *)
(***************************************************************************)
EXTENDS Integers, Sequences, FiniteSets

CONSTANTS Request,      \* requests that may be between two actions at a time
          Challenge,    \* challenge ids; the secret made with one bears its name
          None,         \* no challenge
          Life,         \* life of a challenge: 300 seconds
          FailureLimit, \* 5
          LockTime,     \* 900 seconds
          SendGap,      \* between two emails: 60 seconds
          SendWindow,   \* 3600 seconds, in which
          SendLimit,    \* at most 10 emails are sent
          RecoveryNr,   \* 1..10: numbers of recovery codes
          MaxVersion,   \* bound on token_version
          MaxFaults,    \* bound on crashes and database errors
          MaxEvents     \* bound on these, ticks and wrong codes together

ASSUME IdAssumption    == None \notin Challenge
ASSUME LimitAssumption == {Life, FailureLimit, LockTime, SendGap, SendWindow, SendLimit} \subseteq Nat \ {0}
ASSUME BoundAssumption == {MaxVersion, MaxFaults, MaxEvents} \subseteq Nat

VARIABLES
  now,
  version, active,       \* users.token_version and active
  method, secret,        \* mfa_accounts: "" or the method, and its secret;
  lastStep, recovery,    \* last TOTP step accepted, recovery codes left;
  failures, lockedUntil, \* the budgets;
  nextSend, sendWindow, sendCount,
  challenge,             \* mfa_challenges: id |-> the row
  pc, seen, mailing,     \* a request: where it is, version it read, code to send
  faults,
  issued,                \* history: ids given away
  tokens,                \* history: of the account's current version, whether a factor was proven
  accepted,              \* history: codes accepted, in order
  wrong,                 \* history: times of the wrong codes of a budget since its last success or unlock
  sends,                 \* history: times of emails
  delivered, lost        \* history: challenges whose email went out, whose request died

users     == <<version, active>>
factor    == <<method, secret, lastStep, recovery>>
budgets   == <<failures, lockedUntil, wrong>>
mail      == <<nextSend, sendWindow, sendCount, sends>>
requests  == <<pc, seen, mailing>>
vars == <<now, users, factor, budgets, mail, challenge, issued, requests, faults,
          tokens, accepted, delivered, lost>>

Scope    == {"login", "manage"}
Purpose  == {"login", "enroll", "manage"}
Method   == {"totp", "email"}
Version  == 0..MaxVersion

Row == [version : Version, purpose : Purpose, method : Method,
        hash : BOOLEAN, expires : Nat]
NoRow == [purpose |-> "none"]

Totp(s, step)   == [kind |-> "totp", of |-> s, nr |-> step]
Email(c)        == [kind |-> "email", of |-> c, nr |-> 0]
Recovery(v, n)  == [kind |-> "recovery", of |-> v, nr |-> n]
WrongCode       == [kind |-> "wrong", of |-> None, nr |-> 0]

\* What can be typed in that may be right; every other code fails like WrongCode.
Held     == {c \in Challenge : challenge[c] # NoRow}
Enroling == {c \in Held : challenge[c].purpose = "enroll"}
Code     == {WrongCode} \cup recovery \cup {Email(c) : c \in Held}
              \cup {Totp(s, t) : s \in Enroling \cup ({secret} \ {None}), t \in (now - 1)..(now + 1)}

Init ==
  /\ now = SendWindow   \* so that the window from 0 is over
  /\ version = 0 /\ active = TRUE
  /\ method = "" /\ secret = None /\ lastStep = -1 /\ recovery = {}
  /\ failures = [s \in Scope |-> 0] /\ lockedUntil = [s \in Scope |-> 0]
  /\ wrong = [s \in Scope |-> <<>>]
  /\ nextSend = 0 /\ sendWindow = 0 /\ sendCount = 0 /\ sends = <<>>
  /\ challenge = [c \in Challenge |-> NoRow] /\ issued = {}
  /\ pc = [r \in Request |-> "idle"] /\ seen = [r \in Request |-> 0]
  /\ mailing = [r \in Request |-> None]
  /\ faults = 0
  /\ tokens = {} /\ accepted = <<>> /\ delivered = {} /\ lost = {}

\* The bound: what has happened of ticks, versions, faults and wrong codes.
Room == (now - SendWindow) + version + faults + Len(wrong["login"]) + Len(wrong["manage"])
          < MaxEvents

-----------------------------------------------------------------------------
(* Budgets, emails and challenges *)

\* guard
Open(s) == lockedUntil[s] <= now

\* Mutant: a lockout takes away every challenge.
RevokedAll(s) == Purpose

\* The challenges a lockout of a budget takes away.
Revoked(s) == IF s = "login" THEN {"login"} ELSE {"enroll", "manage"}

\* Mutant: one failure more.
Patient(n) == n > FailureLimit

Exhausted(n) == n >= FailureLimit

\* Mutant: both budgets are charged.
FailedAtBoth(s) ==
  /\ Room
  /\ failures' = [t \in Scope |-> IF Exhausted(failures[t] + 1) THEN 0 ELSE failures[t] + 1]
  /\ lockedUntil' = [t \in Scope |-> IF Exhausted(failures[t] + 1) THEN now + LockTime ELSE 0]
  /\ wrong' = [wrong EXCEPT ![s] = Append(@, now)]
  /\ UNCHANGED <<now, users, factor, mail, challenge, issued, requests, faults,
                 tokens, accepted, delivered, lost>>

\* failed, and unreadable_factor when a secret cannot be decrypted.
Failed(s) ==
  /\ Room
  /\ LET n == failures[s] + 1
     IN /\ failures' = [failures EXCEPT ![s] = IF Exhausted(n) THEN 0 ELSE n]
        /\ lockedUntil' = [lockedUntil EXCEPT ![s] = IF Exhausted(n) THEN now + LockTime ELSE 0]
        /\ challenge' = [c \in Challenge |-> IF Exhausted(n) /\ challenge[c].purpose \in Revoked(s)
                                               THEN NoRow ELSE challenge[c]]
  /\ wrong' = [wrong EXCEPT ![s] = Append(@, now)]
  /\ UNCHANGED <<now, users, factor, mail, issued, requests, faults,
                 tokens, accepted, delivered, lost>>

ResetFailures(s) ==
  /\ failures' = [failures EXCEPT ![s] = 0]
  /\ lockedUntil' = [lockedUntil EXCEPT ![s] = 0]
  /\ wrong' = [wrong EXCEPT ![s] = <<>>]

FreshWindow == sendWindow + SendWindow <= now

\* Mutant: the locks stay.
UnlockCounts ==
  /\ failures' = [s \in Scope |-> 0]
  /\ wrong' = [s \in Scope |-> <<>>]
  /\ UNCHANGED lockedUntil

\* An administrator's unlock; it ends the stretches the histories are about.
Unlock ==
  /\ failures' = [s \in Scope |-> 0]
  /\ lockedUntil' = [s \in Scope |-> 0]
  /\ wrong' = [s \in Scope |-> <<>>]

\* Mutant: the cooldown is not looked at.
NoCooldown == FreshWindow \/ sendCount < SendLimit

EmailAllowed == nextSend <= now /\ (FreshWindow \/ sendCount < SendLimit)

\* email_limit, when it lets the email through
CountEmail ==
  /\ nextSend' = now + SendGap
  /\ sendWindow' = IF FreshWindow THEN now ELSE sendWindow
  /\ sendCount' = IF FreshWindow THEN 1 ELSE sendCount + 1
  /\ sends' = Append(sends, now)

\* create_challenge: one challenge of each purpose, and none that has expired.
CreateChallenge(c, p, m, send) ==
  /\ c \notin issued /\ issued' = issued \cup {c}
  /\ challenge' =
       [d \in Challenge |->
          IF d = c THEN [version |-> version, purpose |-> p, method |-> m,
                         hash |-> m = "email" /\ send,
                         expires |-> now + IF p = "enroll" /\ m = "totp" THEN 2 * Life ELSE Life]
          ELSE IF challenge[d] # NoRow /\ (challenge[d].purpose = p \/ challenge[d].expires <= now)
            THEN NoRow ELSE challenge[d]]

\* challenge_row
Usable(c, p) == /\ c # None /\ challenge[c].purpose = p
                /\ challenge[c].version = version /\ challenge[c].expires > now

Goto(r, where, v, c) == /\ pc' = [pc EXCEPT ![r] = where]
                        /\ seen' = [seen EXCEPT ![r] = v]
                        /\ mailing' = [mailing EXCEPT ![r] = c]

Done(r) == Goto(r, "idle", 0, None)

\* deliver, after the commit: only the request that made a code sends it.
Deliver(r, c) == Goto(r, "deliver", 0, c)

-----------------------------------------------------------------------------
(* Signing in *)

\* login has checked the password and reads the row.
SignIn(r) ==
  /\ pc[r] = "idle" /\ active
  /\ Goto(r, "begin", version, None)
  /\ UNCHANGED <<now, users, factor, budgets, mail, challenge, issued, faults,
                 tokens, accepted, delivered, lost>>

\* Mutant: every sign-in makes a new challenge.
ReissuableNever == {}

\* reissue_login_challenge
Reissuable == {c \in Challenge : Usable(c, "login") /\ challenge[c].method = "email"}

BeginLogin(r) ==
  /\ pc[r] = "begin"
  /\ \/ \* lock_account or the guard refuses
        /\ active /\ version = seen[r] => method # "" /\ ~Open("login")
        /\ Done(r)
        /\ UNCHANGED <<mail, challenge, issued, tokens>>
     \/ \* no second factor
        /\ active /\ version = seen[r] /\ method = ""
        /\ tokens' = tokens \cup {FALSE}
        /\ Done(r)
        /\ UNCHANGED <<mail, challenge, issued>>
     \/ \* a code is sent; email may be unavailable to a process, as when it must wait
        /\ active /\ version = seen[r] /\ Open("login")
        /\ method = "email" /\ EmailAllowed
        /\ CountEmail
        /\ \E c \in Challenge : CreateChallenge(c, "login", method, TRUE) /\ Deliver(r, c)
        /\ UNCHANGED tokens
     \/ \* the code sent before stays
        /\ active /\ version = seen[r] /\ Open("login")
        /\ method = "email" /\ Reissuable # {}
        /\ Done(r)
        /\ UNCHANGED <<mail, challenge, issued, tokens>>
     \/ \* no code is needed or none was ever sent
        /\ active /\ version = seen[r] /\ Open("login")
        /\ method \in Method /\ (method = "email" => Reissuable = {})
        /\ \E c \in Challenge : CreateChallenge(c, "login", method, FALSE)
        /\ Done(r)
        /\ UNCHANGED <<mail, tokens>>
  /\ UNCHANGED <<now, users, factor, budgets, faults, accepted, delivered, lost>>

\* What a code proves, as check_factor looks for it: a recovery code; else a new
\* step of the enrolled secret, or the code sent with the challenge presented.
\* Mutant: the step accepted last is accepted again.
NotOlder(step) == step >= lastStep

Newer(step) == step > lastStep

InDrift(step) == step \in (now - 1)..(now + 1)

Proves(code, c) ==
  \/ code \in recovery
  \/ method = "totp" /\ code.kind = "totp" /\ code.of = secret
       /\ InDrift(code.nr) /\ Newer(code.nr)
  \/ method = "email" /\ c # None /\ code = Email(c)
       /\ challenge[c].method = "email" /\ challenge[c].hash

\* The account remembers the step of an accepted code.
Accept(code) == accepted' = Append(accepted, code)
StepAfter(code) == IF code.kind = "totp" THEN code.nr ELSE lastStep

\* verify_login, for a signed challenge token
VerifyLogin(c, code) ==
  /\ active /\ Open("login")
  /\ Usable(c, "login") /\ method # ""
  /\ IF Proves(code, c)
       THEN /\ Accept(code) /\ ResetFailures("login")
            /\ recovery' = recovery \ {code} /\ lastStep' = StepAfter(code)
            /\ UNCHANGED <<method, secret>>
            /\ challenge' = [challenge EXCEPT ![c] = NoRow]
            /\ tokens' = tokens \cup {TRUE}
            /\ UNCHANGED <<now, users, mail, issued, requests, faults, delivered, lost>>
       ELSE Failed("login")

-----------------------------------------------------------------------------
(* Managing the factor, with a session of the current version *)

\* Authenticated and not locked out.
MayManage == active /\ tokens # {} /\ Open("manage")

Setup(r, m) ==
  /\ pc[r] = "idle" /\ MayManage
  /\ \/ Failed("manage")  \* wrong password
     \/ /\ method = ""
        /\ IF m = "email" THEN EmailAllowed /\ CountEmail ELSE UNCHANGED mail
        /\ \E c \in Challenge : /\ CreateChallenge(c, "enroll", m, TRUE)
                                /\ IF m = "email" THEN Deliver(r, c) ELSE UNCHANGED requests
        /\ UNCHANGED <<now, users, factor, budgets, faults, tokens, accepted, delivered, lost>>

\* Mutant: the sessions from before stay.
RotateNothing ==
  /\ challenge' = [c \in Challenge |-> NoRow]
  /\ tokens' = tokens \cup {TRUE}
  /\ UNCHANGED users

\* rotate_session: no challenge and no token from before is good any more.
RotateSession ==
  /\ challenge' = [c \in Challenge |-> NoRow]
  /\ Room /\ version < MaxVersion /\ version' = version + 1
  /\ tokens' = {TRUE}
  /\ UNCHANGED active

\* new_recovery_codes, which this version has not had before
NewRecoveryCodes == recovery' = {Recovery(version, n) : n \in RecoveryNr}

ConfirmProves(code, c) ==
  \/ challenge[c].method = "totp" /\ code.kind = "totp" /\ code.of = c /\ InDrift(code.nr)
  \/ challenge[c].method = "email" /\ challenge[c].hash /\ code = Email(c)

Confirm(c, code) ==
  /\ MayManage /\ Usable(c, "enroll") /\ method = ""
  /\ IF ConfirmProves(code, c)
       THEN /\ method' = challenge[c].method
            /\ secret' = IF method' = "totp" THEN c ELSE None
            /\ lastStep' = IF method' = "totp" THEN code.nr ELSE -1
            /\ Accept(code) /\ ResetFailures("manage") /\ NewRecoveryCodes
            /\ RotateSession
            /\ UNCHANGED <<now, mail, issued, requests, faults, delivered, lost>>
       ELSE Failed("manage")

ManagementEmail(r) ==
  /\ pc[r] = "idle" /\ MayManage
  /\ \/ Failed("manage")
     \/ /\ method = "email" /\ EmailAllowed
        /\ CountEmail
        /\ \E c \in Challenge : CreateChallenge(c, "manage", "email", TRUE) /\ Deliver(r, c)
        /\ UNCHANGED <<now, users, factor, budgets, faults, tokens, accepted, delivered, lost>>

\* The challenge counts only if it can be used for this.
Presented(c) == IF Usable(c, "manage") THEN c ELSE None

\* change_method: disable, or replace the recovery codes
ChangeMethod(c, code, regenerate) ==
  /\ MayManage /\ method # ""
  /\ \/ Failed("manage")  \* wrong password
     \/ IF Proves(code, Presented(c))
          THEN /\ Accept(code) /\ ResetFailures("manage")
               /\ IF regenerate
                    THEN NewRecoveryCodes /\ lastStep' = StepAfter(code) /\ UNCHANGED <<method, secret>>
                    ELSE method' = "" /\ secret' = None /\ lastStep' = -1 /\ recovery' = {}
               /\ RotateSession
               /\ UNCHANGED <<now, mail, issued, requests, faults, delivered, lost>>
          ELSE Failed("manage")

\* resend, of a login challenge or with the token of an enrolment
Resend(r, c) ==
  /\ pc[r] = "idle" /\ active
  /\ \E p \in Purpose :
       /\ Usable(c, p) /\ Open(IF p = "login" THEN "login" ELSE "manage")
       /\ challenge[c].method = "email" /\ EmailAllowed
       /\ CountEmail
       /\ \E d \in Challenge : CreateChallenge(d, p, "email", TRUE) /\ Deliver(r, d)
  /\ UNCHANGED <<now, users, factor, budgets, faults, tokens, accepted, delivered, lost>>

-----------------------------------------------------------------------------
(* Delivery, other requests, faults and time *)

Sent(r) ==
  /\ pc[r] = "deliver"
  /\ delivered' = delivered \cup {mailing[r]}
  /\ Done(r)
  /\ UNCHANGED <<now, users, factor, budgets, mail, challenge, issued, faults,
                 tokens, accepted, lost>>

\* Mutant: the code that was not sent stays.
UnsentKept(r) == pc[r] = "deliver" /\ Done(r)
                 /\ UNCHANGED <<now, users, factor, budgets, mail, challenge, issued, faults,
                                tokens, accepted, delivered, lost>>

NotSent(r) ==
  /\ pc[r] = "deliver"
  /\ Goto(r, "forget", 0, mailing[r])
  /\ UNCHANGED <<now, users, factor, budgets, mail, challenge, issued, faults,
                 tokens, accepted, delivered, lost>>

\* forget_unsent_code
Forget(r) ==
  /\ pc[r] = "forget"
  /\ LET c == mailing[r]
     IN challenge' = IF challenge[c] = NoRow THEN challenge
                     ELSE [challenge EXCEPT ![c].hash = FALSE]
  /\ Done(r)
  /\ UNCHANGED <<now, users, factor, budgets, mail, issued, faults,
                 tokens, accepted, delivered, lost>>

\* The process dies, or the update of forget_unsent_code fails.
Die(r) ==
  /\ pc[r] # "idle" /\ Room /\ faults < MaxFaults /\ faults' = faults + 1
  /\ lost' = lost \cup ({mailing[r]} \ {None})
  /\ Done(r)
  /\ UNCHANGED <<now, users, factor, budgets, mail, challenge, issued,
                 tokens, accepted, delivered>>

\* purge_expired_challenges, by any account's request
Purge ==
  /\ challenge' = [c \in Challenge |-> IF challenge[c] # NoRow /\ challenge[c].expires <= now
                                         THEN NoRow ELSE challenge[c]]
  /\ UNCHANGED <<now, users, factor, budgets, mail, issued, requests, faults,
                 tokens, accepted, delivered, lost>>

\* update_user: a new password, role or activity, an unlock, or both
ChangeUser(unlock) ==
  /\ \/ unlock /\ UNCHANGED <<users, tokens>>
     \/ /\ Room /\ version < MaxVersion /\ version' = version + 1
        /\ active' \in BOOLEAN
        /\ tokens' = {}
  /\ IF unlock THEN Unlock ELSE UNCHANGED budgets
  /\ UNCHANGED <<now, factor, mail, challenge, issued, requests, faults,
                 accepted, delivered, lost>>

Tick ==
  /\ Room /\ now' = now + 1
  /\ UNCHANGED <<users, factor, budgets, mail, challenge, issued, requests, faults,
                 tokens, accepted, delivered, lost>>

Next ==
  \/ \E r \in Request :
       \/ SignIn(r) \/ BeginLogin(r) \/ Sent(r) \/ NotSent(r) \/ Forget(r) \/ Die(r)
       \/ \E m \in Method : Setup(r, m)
       \/ ManagementEmail(r)
       \/ \E c \in Challenge : Resend(r, c)
  \/ \E code \in Code :
       \/ \E c \in Challenge : VerifyLogin(c, code) \/ Confirm(c, code)
       \/ \E c \in Challenge \cup {None}, b \in BOOLEAN : ChangeMethod(c, code, b)
  \/ Purge \/ Tick \/ \E unlock \in BOOLEAN : ChangeUser(unlock)

Spec == Init /\ [][Next]_vars

-----------------------------------------------------------------------------
(* Properties *)

\* Every recovery code there can be.
Recoveries == {Recovery(v, n) : v \in Version, n \in RecoveryNr}

\* Types of the variables; at most one challenge of a purpose is usable.
TypeOK ==
  /\ now \in Nat /\ version \in Version /\ active \in BOOLEAN
  /\ method \in Method \cup {""} /\ secret \in Challenge \cup {None}
  /\ lastStep \in Int /\ recovery \subseteq Recoveries
  /\ failures \in [Scope -> 0..(FailureLimit - 1)] /\ lockedUntil \in [Scope -> Nat]
  /\ nextSend \in Nat /\ sendWindow \in Nat /\ sendCount \in 0..SendLimit
  /\ challenge \in [Challenge -> Row \cup {NoRow}] /\ issued \subseteq Challenge
  /\ pc \in [Request -> {"idle", "begin", "deliver", "forget"}]
  /\ seen \in [Request -> Version] /\ mailing \in [Request -> Challenge \cup {None}]
  /\ tokens \subseteq BOOLEAN
  /\ \A p \in Purpose : Cardinality({c \in Challenge : Usable(c, p)}) <= 1

\* A code is accepted once, wherever and however often it is presented, and the
\* steps of a secret are accepted in their order, those of a sign-in, of the
\* enrolment and of management counted together.
CodesAcceptedOnce ==
  \A i, k \in 1..Len(accepted) : i < k =>
    /\ accepted[i] # accepted[k]
    /\ accepted[i].kind = "totp" /\ accepted[k].kind = "totp" /\ accepted[i].of = accepted[k].of
         => accepted[i].nr < accepted[k].nr

\* While a second factor is enrolled every token the account accepts comes from a
\* proof of it: a sign-in that began or ended before the enrolment leaves none.
TokensProven == method # "" => tokens \subseteq {TRUE}

\* A budget is charged for its own failures only.  Since its last success or
\* unlock it allows FailureLimit of them in any stretch as long as a lockout, so
\* that one and the FailureLimit-th after it are a lockout apart: "Management
\* failures therefore cannot lock the owner out of signing in".  Emails, which
\* neither a success nor an unlock touches, keep their distance, and a stretch as
\* long as their window sees fewer than twice the limit, whatever causes them:
\* sign-ins, resends, management (reserve_email_send).
Apart(s, n, time) == \A i \in 1..(Len(s) - n) : s[i] + time <= s[i + n]
BudgetsKept ==
  /\ TypeOK
  /\ \A s \in Scope : /\ Apart(wrong[s], FailureLimit, LockTime)
                      /\ lockedUntil[s] > 0 => Len(wrong[s]) >= FailureLimit
  /\ Apart(sends, 1, SendGap)
  /\ Apart(sends, 2 * SendLimit - 1, SendWindow)

\* "a stored hash means the owner may hold the code": a challenge has a code only
\* if it was sent, or its request still sends or withdraws it, or died.
HashMeansSent ==
  \A c \in Challenge :
    challenge[c] # NoRow /\ challenge[c].hash =>
      \/ c \in delivered \cup lost
      \/ \E r \in Request : pc[r] \in {"deliver", "forget"} /\ mailing[r] = c

\* A code that reached the owner stays good for what it was made for until it
\* expires, loses its version, is used (to sign in; any other use ends the
\* version), its own budget is locked, or another one of its purpose is made to be
\* sent: who only knows the password cannot invalidate a code for signing in by
\* signing in again and again, nor any code by failing at the other budget.
Good(c, p) == c \in delivered /\ Usable(c, p) /\ challenge[c].hash

Replaced(p) == \E d \in Challenge : /\ challenge[d] = NoRow /\ Usable(d, p)'
                                    /\ p = "login" => challenge'[d].hash

EmailedCodeKept ==
  [][\A c \in Challenge, p \in Purpose : Good(c, p) /\ ~Good(c, p)' =>
       \/ challenge[c].expires <= now' \/ version' # version
       \/ p = "login" /\ accepted' # accepted
       \/ \E s \in Scope : (s = "login" <=> p = "login") /\ lockedUntil'[s] > lockedUntil[s]
       \/ Replaced(p)]_vars
=============================================================================
