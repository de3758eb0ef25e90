------------------------------ MODULE Sessions ------------------------------
(***************************************************************************)
(* Sessions of one account: the signed tokens its browsers hold, what the  *)
(* database knows about them (the account's version and the revoked keys), *)
(* requests that end by refreshing their cookie, logouts, changes of the   *)
(* account, and the clean-up of revoked keys when a worker starts.         *)
(*                                                                         *)
(* A token cannot be taken back: it is accepted until it expires unless    *)
(* the database says otherwise at that moment.  An action is one read or   *)
(* transaction; a request is slow between any two of them, but issuing a   *)
(* token or recording a key takes at most Lag.                             *)
(***************************************************************************)
EXTENDS Integers, FiniteSets, FiniteSetsExt

CONSTANTS Token,      \* jti of tokens
          Session,    \* sid of sessions
          Request,    \* requests in progress at a time
          None,       \* no token
          Access,     \* JWT_ACCESS_TOKEN_EXPIRES
          MaxAge,     \* SESSION_MAX_AGE
          Near,       \* refresh when less is left: 10 minutes
          Margin,     \* a revoked session's key is kept longer by 1 minute
          Lag,        \* see above
          MaxTime,    \* bound on the clock
          MaxVersion  \* bound on token_version

ASSUME IdAssumption   == None \notin Token \cup Session /\ Token \cap Session = {}
ASSUME TimeAssumption == {Access, MaxAge, Near} \subseteq Nat \ {0} /\ {Margin, Lag} \subseteq Nat
ASSUME LagAssumption  == 2 * Lag <= Margin
ASSUME BoundAssumption == MaxTime \in Nat \ {0} /\ MaxVersion \in Nat

VARIABLES
  now,
  version, active,  \* users.token_version and active
  token,            \* claims of the tokens issued so far
  revoked,          \* revoked_tokens: key |-> expires_at; 0 is no row
  pc, holds, at,    \* a request: where it is, its token, when it read or stamped
  left              \* history: sessions whose logout was answered

users    == <<version, active>>
requests == <<pc, holds, at>>
vars     == <<now, users, token, revoked, requests, left>>

Key      == Token \cup Session
Unissued == [sid |-> None]
Claims   == [sid : Session, ver : 0..MaxVersion, started : 1..MaxTime, exp : 1..(MaxTime + Access)]

Issued(t) == token[t] # Unissued
Opened(s) == \E t \in Token : token[t].sid = s

Init ==
  /\ now = 1
  /\ version = 0 /\ active = TRUE
  /\ token = [t \in Token |-> Unissued]
  /\ revoked = [k \in Key |-> 0]
  /\ pc = [r \in Request |-> "idle"]
  /\ holds = [r \in Request |-> None]
  /\ at = [r \in Request |-> 0]
  /\ left = {}

\* token_revocation_keys: the token's own key and its session's
Revoked(t) == revoked[t] > 0 \/ revoked[token[t].sid] > 0

\* The token is signed, not expired, and current_token_user finds its account.
Accepted(t) == /\ Issued(t) /\ token[t].exp > now
               /\ ~Revoked(t)
               /\ active /\ token[t].ver = version

\* Mutants: the longer life counts; the deadline is forgotten.
ExpiryOfLater(started)  == Max({now + Access, started + MaxAge})
ExpiryNoDeadline(started) == now + Access

\* issue_token: no token outlives its session's deadline.
Expiry(started) == Max({now + 1, Min({now + Access, started + MaxAge})})

Issue(t, s, v, started) ==
  /\ ~Issued(t)
  /\ token' = [token EXCEPT ![t] = [sid |-> s, ver |-> v, started |-> started,
                                    exp |-> Expiry(started)]]

Goto(r, where, t, time) == /\ pc' = [pc EXCEPT ![r] = where]
                           /\ holds' = [holds EXCEPT ![r] = t]
                           /\ at' = [at EXCEPT ![r] = time]

Done(r) == Goto(r, "idle", None, 0)

\* finish_login
SignIn(s, t) ==
  /\ active /\ ~Opened(s)
  /\ Issue(t, s, version, now)
  /\ UNCHANGED <<now, users, revoked, requests, left>>

\* A request is authenticated and begins its work.
Arrive(r, t) ==
  /\ pc[r] = "idle" /\ Accepted(t)
  /\ Goto(r, "running", t, 0)
  /\ UNCHANGED <<now, users, token, revoked, left>>

\* after_request: the cookie is about to expire and the session may go on.
Refreshable(t) == token[t].exp < now + Near /\ token[t].started + MaxAge > token[t].exp

\* Everything is checked again from one read.
RefreshRead(r) ==
  /\ pc[r] = "running"
  /\ IF Refreshable(holds[r]) /\ Accepted(holds[r])
       THEN Goto(r, "mint", holds[r], now)
       ELSE Done(r)
  /\ UNCHANGED <<now, users, token, revoked, left>>

\* refreshed_session_token: same session, same version, same start.
Mint(r, t) ==
  /\ pc[r] = "mint"
  /\ LET old == token[holds[r]] IN Issue(t, old.sid, old.ver, old.started)
  /\ Done(r)
  /\ UNCHANGED <<now, users, revoked, left>>

\* revoke_token_key: a key that is there already stays as it is.
Revoke(k, until) == revoked' = [revoked EXCEPT ![k] = IF @ = 0 THEN until ELSE @]

\* logout first revokes its own token, then works out how long the session's key
\* must be kept.
LogoutToken(r) ==
  /\ pc[r] = "running"
  /\ Revoke(holds[r], token[holds[r]].exp)
  /\ Goto(r, "logout", holds[r], now)
  /\ UNCHANGED <<now, users, token, left>>

\* Mutant: as long as the token itself.
KeptWithToken(r) == token[holds[r]].exp

KeptUntil(r) == Max({token[holds[r]].exp, at[r] + Access}) + Margin

\* Mutant: only the token is revoked.
LogoutTokenOnly(r) ==
  /\ pc[r] = "logout"
  /\ left' = left \cup {token[holds[r]].sid}
  /\ Done(r)
  /\ UNCHANGED <<now, users, token, revoked>>

LogoutSession(r) ==
  /\ pc[r] = "logout"
  /\ Revoke(token[holds[r]].sid, KeptUntil(r))
  /\ left' = left \cup {token[holds[r]].sid}
  /\ Done(r)
  /\ UNCHANGED <<now, users, token>>

\* The process of a request dies, or its database.
Die(r) ==
  /\ pc[r] # "idle"
  /\ Done(r)
  /\ UNCHANGED <<now, users, token, revoked, left>>

\* A new password, role or activity, or another second factor.
ChangeUser ==
  /\ version < MaxVersion /\ version' = version + 1
  /\ active' \in BOOLEAN
  /\ UNCHANGED <<now, token, revoked, requests, left>>

\* Any worker that starts removes the keys that have expired.
Startup ==
  /\ revoked' = [k \in Key |-> IF revoked[k] < now THEN 0 ELSE revoked[k]]
  /\ UNCHANGED <<now, users, token, requests, left>>

Tick ==
  /\ now < MaxTime /\ now' = now + 1
  /\ \A r \in Request : pc[r] \in {"mint", "logout"} => now < at[r] + Lag
  /\ UNCHANGED <<users, token, revoked, requests, left>>

Next ==
  \/ \E s \in Session, t \in Token : SignIn(s, t)
  \/ \E r \in Request :
       \/ \E t \in Token : Arrive(r, t) \/ Mint(r, t)
       \/ RefreshRead(r) \/ LogoutToken(r) \/ LogoutSession(r) \/ Die(r)
  \/ ChangeUser \/ Startup \/ Tick

Spec == Init /\ [][Next]_vars

-----------------------------------------------------------------------------
(* Properties *)

\* Types of the variables.
TypeOK ==
  /\ now \in 1..MaxTime /\ version \in 0..MaxVersion /\ active \in BOOLEAN
  /\ token \in [Token -> Claims \cup {Unissued}]
  /\ revoked \in [Key -> Nat]
  /\ pc \in [Request -> {"idle", "running", "mint", "logout"}]
  /\ holds \in [Request -> Token \cup {None}] /\ at \in [Request -> 0..MaxTime]
  /\ \A r \in Request : holds[r] = None <=> pc[r] = "idle"
  /\ left \subseteq Session

\* After the answer to a logout no token of its session is accepted: not an
\* earlier one, and not one that a request still in flight has yet to issue.
LoggedOut == \A t \in Token : Accepted(t) => token[t].sid \notin left

\* A token that is refused once is refused for ever, although the keys that
\* revoke it are cleaned up and accounts are activated again.
RefusedForGood == [][\A t \in Token : Issued(t) /\ ~Accepted(t) => ~Accepted(t)']_vars

\* No refresh takes a session past SESSION_MAX_HOURS from its sign-in.  A token that
\* is still being signed when the deadline passes lives for one unit of time, and
\* as signing takes at most Lag, its end is less than Lag past the deadline.
SessionsBounded ==
  /\ TypeOK
  /\ \A t \in Token : Accepted(t) => LET deadline == token[t].started + MaxAge
                                     IN  now < deadline \/ now + 1 < deadline + Lag
=============================================================================
