--------------------------- MODULE SessionsProofs ---------------------------
(***************************************************************************)
(* A logout is final, a refused token stays refused, and a session ends at *)
(* its deadline, for any number of tokens, sessions and requests, for      *)
(* every lifetime, and for every delay that the margin of a key covers.    *)
(***************************************************************************)
EXTENDS Sessions, TLAPS

-----------------------------------------------------------------------------
(* The inductive invariant *)

Deadline(t) == token[t].started + MaxAge

\* What the claims of a token promise.
Promised(t) ==
  /\ token[t].started <= now
  /\ token[t].exp <= now + Access
  /\ token[t].ver <= version
  /\ token[t].exp <= Deadline(t) \/ token[t].exp + 1 <= Deadline(t) + Lag

\* A request works for a token, and is quick where it must be.
Prompt(r) ==
  /\ pc[r] # "idle" => Issued(holds[r])
  /\ pc[r] \in {"mint", "logout"} => at[r] <= now /\ now <= at[r] + Lag
  /\ pc[r] = "mint" => at[r] + 2 <= Deadline(holds[r])

\* The row of a token is kept as long as the token lives.
TokenKept(t) == revoked[t] > 0 => Issued(t) /\ token[t].exp <= revoked[t]

\* The row of a session that was left is kept until all its tokens have expired, and
\* until all have that a request may still sign.
SessionKept(s) ==
  /\ revoked[s] > 0 => s \in left
  /\ s \in left =>
       /\ Opened(s)
       /\ \A t \in Token : token[t].sid = s =>
            token[t].exp <= (IF revoked[s] > 0 THEN revoked[s] ELSE now)
       /\ \A r \in Request : pc[r] = "mint" /\ token[holds[r]].sid = s =>
            revoked[s] > 0 /\ at[r] + Lag + Access <= revoked[s]

IndInv == /\ TypeOK
          /\ \A t \in Token : Issued(t) => Promised(t)
          /\ \A r \in Request : Prompt(r)
          /\ \A t \in Token : TokenKept(t)
          /\ \A s \in Session : SessionKept(s)

-----------------------------------------------------------------------------
(* Lemmas *)

\* Max and Min of two numbers, which the library defines for any set.
LEMMA MaxOfTwo ==
  ASSUME NEW a \in Int, NEW b \in Int
  PROVE  Max({a, b}) = IF a >= b THEN a ELSE b
<1>1. \E x \in {a, b} : \A y \in {a, b} : x >= y
  OBVIOUS
<1>2. Max({a, b}) \in {a, b} /\ \A y \in {a, b} : Max({a, b}) >= y
  BY <1>1 DEF Max
<1> QED
  BY <1>2

LEMMA MinOfTwo ==
  ASSUME NEW a \in Int, NEW b \in Int
  PROVE  Min({a, b}) = IF a <= b THEN a ELSE b
<1>1. \E x \in {a, b} : \A y \in {a, b} : x <= y
  OBVIOUS
<1>2. Min({a, b}) \in {a, b} /\ \A y \in {a, b} : Min({a, b}) <= y
  BY <1>1 DEF Min
<1> QED
  BY <1>2

\* The constants as numbers.
LEMMA Times ==
  /\ Access \in Nat /\ Access > 0 /\ MaxAge \in Nat /\ MaxAge > 0
  /\ Margin \in Nat /\ Lag \in Nat /\ 2 * Lag <= Margin
  /\ MaxTime \in Nat /\ MaxTime > 0 /\ MaxVersion \in Nat
BY TimeAssumption, LagAssumption, BoundAssumption

\* A token lives for Access at most, and to the deadline of its session unless
\* that is over already.
LEMMA ExpiryBounds ==
  ASSUME now \in Nat, NEW started \in Nat
  PROVE  /\ Expiry(started) \in Nat
         /\ Expiry(started) >= now + 1 /\ Expiry(started) <= now + Access
         /\ Expiry(started) <= started + MaxAge \/ Expiry(started) = now + 1
<1>1. now + 1 \in Int /\ now + Access \in Int /\ started + MaxAge \in Int
  BY Times
<1>2. Min({now + Access, started + MaxAge}) =
        IF now + Access <= started + MaxAge THEN now + Access ELSE started + MaxAge
  BY <1>1, MinOfTwo
<1>3. Min({now + Access, started + MaxAge}) \in Int
  BY <1>1, <1>2
<1>4. Expiry(started) = IF now + 1 >= Min({now + Access, started + MaxAge}) THEN now + 1
                        ELSE Min({now + Access, started + MaxAge})
  BY <1>1, <1>3, MaxOfTwo DEF Expiry
<1> QED
  BY <1>2, <1>4, Times

\* A token is issued when it has claims; then they have their types, and it is of a
\* session.
LEMMA IssuedClaims ==
  ASSUME TypeOK, NEW t \in Token
  PROVE  /\ Issued(t) <=> token[t] \in Claims
         /\ Issued(t) <=> token[t].sid \in Session
         /\ Issued(t) => /\ token[t].ver \in Nat /\ token[t].started \in Nat
                         /\ token[t].exp \in Nat /\ token[t].started \in 1..MaxTime
                         /\ token[t].ver \in 0..MaxVersion
<1>1. token[t] \in Claims \/ token[t] = Unissued
  BY DEF TypeOK
<1>2. \A c \in Claims : c.sid \in Session /\ c # Unissued
  BY IdAssumption DEF Claims, Unissued
<1>3. Unissued.sid \notin Session
  BY IdAssumption DEF Unissued
<1>4. \A c \in Claims : /\ c.ver \in Nat /\ c.started \in Nat /\ c.exp \in Nat
                         /\ c.started \in 1..MaxTime /\ c.ver \in 0..MaxVersion
  BY Times DEF Claims
<1> QED
  BY <1>1, <1>2, <1>3, <1>4 DEF Issued

\* A session key is never a token's key.
LEMMA Keys ==
  ASSUME TypeOK
  PROVE  /\ \A k \in Key : revoked[k] \in Nat
         /\ \A t \in Token : t \in Key /\ t \notin Session
         /\ \A s \in Session : s \in Key /\ s \notin Token
BY IdAssumption DEF TypeOK, Key

LEMMA IndInvInit == Init => IndInv
<1> SUFFICES ASSUME Init PROVE IndInv
  OBVIOUS
<1>1. \A t \in Token : token[t] = Unissued
  BY DEF Init
<1>2. TypeOK
  BY Times, IdAssumption DEF Init, TypeOK
<1>3. \A t \in Token : ~Issued(t) /\ token[t].sid \notin Session
  BY <1>1, IdAssumption DEF Issued, Unissued
<1> QED
  BY <1>2, <1>3 DEF Init, IndInv, Prompt, TokenKept, SessionKept, Key

\* A token is signed, by a sign-in or by a refresh; the request that signs it, if
\* any, is done.
LEMMA IssueStep ==
  ASSUME IndInv, NEW t \in Token, ~Issued(t), NEW s \in Session, NEW v \in 0..MaxVersion, v <= version,
         NEW started \in 1..MaxTime, started <= now,
         Issue(t, s, v, started),
         Expiry(started) <= started + MaxAge \/ Expiry(started) + 1 <= started + MaxAge + Lag,
         s \in left => revoked[s] > 0 /\ now + Access <= revoked[s],
         UNCHANGED <<now, users, revoked, left>>, TypeOK',
         \A q \in Request : pc'[q] # "idle" => /\ pc'[q] = pc[q] /\ holds'[q] = holds[q]
                                             /\ at'[q] = at[q]
  PROVE  IndInv'
<1> DEFINE claims == [sid |-> s, ver |-> v, started |-> started, exp |-> Expiry(started)]
<1>1. /\ token'[t] = claims /\ \A u \in Token \ {t} : token'[u] = token[u]
      /\ UNCHANGED <<now, version, active, revoked, left>>
  BY DEF Issue, IndInv, TypeOK, users
<1>2. /\ now \in Nat /\ started \in Nat
      /\ Expiry(started) \in Nat /\ Expiry(started) <= now + Access
  BY ExpiryBounds, Times DEF IndInv, TypeOK
<1>3. /\ Issued(t)' /\ \A u \in Token \ {t} : Issued(u)' <=> Issued(u)
      /\ \A u \in Token : Issued(u) => Issued(u)' /\ token'[u] = token[u]
  <2>1. claims.sid # Unissued.sid
    BY IdAssumption DEF Unissued
  <2>2. Issued(t)'
    BY <1>1, <2>1 DEF Issued, Unissued
  <2> QED
    BY <1>1, <2>2 DEF Issued, Unissued
<1>4. ASSUME NEW u \in Token, Issued(u)'
      PROVE  Promised(u)'
  <2>1. CASE u = t
    BY <1>1, <1>2, <2>1 DEF Promised, Deadline
  <2>2. CASE u # t
    BY <1>1, <1>3, <1>4, <2>2 DEF IndInv, Promised, Deadline
  <2> QED
    BY <2>1, <2>2
<1>5. \A q \in Request : pc'[q] # "idle" =>
         /\ pc[q] # "idle" /\ holds[q] \in Token /\ Issued(holds[q])
         /\ holds'[q] = holds[q] /\ token'[holds[q]] = token[holds[q]]
  BY <1>3 DEF IndInv, TypeOK, Prompt
<1>6. \A q \in Request : Prompt(q)'
  BY <1>1, <1>3, <1>5 DEF IndInv, Prompt, Deadline
<1>7. \A u \in Token : TokenKept(u)'
  BY <1>1, <1>3 DEF IndInv, TokenKept
<1>8. ASSUME NEW z \in Session
      PROVE  SessionKept(z)'
  <2>1. SessionKept(z) /\ (revoked[z])' = revoked[z]
    BY <1>1 DEF IndInv
  <2>2. ASSUME z \in left
        PROVE  /\ Opened(z)'
               /\ \A u \in Token : token'[u].sid = z =>
                     token'[u].exp <= (IF revoked[z] > 0 THEN revoked[z] ELSE now)
    <3>1. Opened(z)'
      <4>1. PICK u \in Token : token[u].sid = z
        BY <2>1, <2>2 DEF SessionKept, Opened
      <4>2. Issued(u)
        BY <4>1, IssuedClaims DEF IndInv
      <4> QED
        BY <1>3, <4>1, <4>2 DEF Opened
    <3>2. ASSUME NEW u \in Token, token'[u].sid = z
          PROVE  token'[u].exp <= (IF revoked[z] > 0 THEN revoked[z] ELSE now)
      <4>1. CASE u = t
        <5>1. s = z /\ token'[u].exp = Expiry(started)
          BY <1>1, <3>2, <4>1
        <5>2. revoked[z] \in Nat
          BY Keys DEF IndInv
        <5> QED
          BY <1>2, <2>2, <5>1, <5>2, Times
      <4>2. CASE u # t
        BY <1>1, <2>1, <2>2, <3>2, <4>2 DEF SessionKept
      <4> QED
        BY <4>1, <4>2
    <3> QED
      BY <3>1, <3>2
  <2>3. ASSUME z \in left, NEW q \in Request, pc'[q] = "mint", token'[holds'[q]].sid = z
        PROVE  revoked[z] > 0 /\ at'[q] + Lag + Access <= revoked[z]
    BY <1>5, <2>1, <2>3 DEF SessionKept
  <2> QED
    BY <1>1, <2>1, <2>2, <2>3 DEF SessionKept
<1> QED
  BY <1>4, <1>6, <1>7, <1>8 DEF IndInv

LEMMA SignInStep ==
  ASSUME IndInv, NEW s \in Session, NEW t \in Token, SignIn(s, t)
  PROVE  IndInv'
<1>1. /\ now \in Nat /\ now \in 1..MaxTime /\ version \in 0..MaxVersion
      /\ UNCHANGED <<now, users, revoked, left, pc, holds, at>>
  BY Times DEF IndInv, TypeOK, SignIn, requests
<1>2. ~Issued(t) /\ Issue(t, s, version, now)
  BY DEF SignIn, Issue
<1>3. Expiry(now) \in Nat /\ Expiry(now) >= now + 1 /\ Expiry(now) <= now + Access /\ Expiry(now) <= now + MaxAge
  BY <1>1, ExpiryBounds, Times
<1>4. [sid |-> s, ver |-> version, started |-> now, exp |-> Expiry(now)] \in Claims
  BY <1>1, <1>3, Times DEF Claims
<1>5. TypeOK'
  BY <1>1, <1>2, <1>4 DEF IndInv, TypeOK, Issue, users
<1>6. s \notin left
  BY DEF IndInv, SessionKept, SignIn
<1> QED
  BY <1>1, <1>2, <1>3, <1>5, <1>6, IssueStep

LEMMA MintStep ==
  ASSUME IndInv, NEW r \in Request, NEW t \in Token, Mint(r, t)
  PROVE  IndInv'
<1> DEFINE old == token[holds[r]]
<1>1. pc[r] = "mint" /\ holds[r] \in Token /\ Issued(holds[r]) /\ ~Issued(t)
  BY DEF IndInv, TypeOK, Prompt, Mint, Issue
<1>2. Issue(t, old.sid, old.ver, old.started) /\ UNCHANGED <<now, users, revoked, left>>
  BY DEF Mint
<1>3. /\ old.sid \in Session /\ old.ver \in 0..MaxVersion /\ old.started \in 1..MaxTime
      /\ old.started \in Nat /\ now \in Nat /\ now \in 1..MaxTime
      /\ at[r] \in Nat
  BY <1>1, IssuedClaims, Times DEF IndInv, TypeOK
<1>4. old.ver <= version /\ old.started <= now
  BY <1>1 DEF IndInv, Promised
<1>5. /\ Expiry(old.started) \in Nat /\ Expiry(old.started) >= now + 1 /\ Expiry(old.started) <= now + Access
      /\ Expiry(old.started) <= old.started + MaxAge \/ Expiry(old.started) = now + 1
  BY <1>3, ExpiryBounds
<1>6. at[r] <= now /\ now <= at[r] + Lag /\ at[r] + 2 <= old.started + MaxAge
  BY <1>1 DEF IndInv, Prompt, Deadline
<1>7. Expiry(old.started) <= old.started + MaxAge \/ Expiry(old.started) + 1 <= old.started + MaxAge + Lag
  BY <1>3, <1>5, <1>6, Times
<1>8. old.sid \in left => revoked[old.sid] > 0 /\ now + Access <= revoked[old.sid]
  <2>1. revoked[old.sid] \in Nat
    BY <1>3, Keys DEF IndInv
  <2>2. old.sid \in left => revoked[old.sid] > 0 /\ at[r] + Lag + Access <= revoked[old.sid]
    BY <1>1, <1>3 DEF IndInv, SessionKept
  <2> QED
    BY <1>3, <1>6, <2>1, <2>2, Times
<1>9. /\ pc' = [pc EXCEPT ![r] = "idle"] /\ holds' = [holds EXCEPT ![r] = None]
      /\ at' = [at EXCEPT ![r] = 0]
  BY DEF Mint, Done, Goto
<1>10. TypeOK'
  <2>1. [sid |-> old.sid, ver |-> old.ver, started |-> old.started, exp |-> Expiry(old.started)] \in Claims
    BY <1>3, <1>5, Times DEF Claims
  <2>2. token' \in [Token -> Claims \cup {Unissued}]
    BY <1>2, <2>1 DEF IndInv, TypeOK, Issue
  <2>3. /\ pc' \in [Request -> {"idle", "running", "mint", "logout"}]
        /\ holds' \in [Request -> Token \cup {None}] /\ at' \in [Request -> 0..MaxTime]
        /\ \A q \in Request : holds'[q] = None <=> pc'[q] = "idle"
    BY <1>9, Times DEF IndInv, TypeOK
  <2> QED
    BY <1>2, <2>2, <2>3 DEF IndInv, TypeOK, users
<1>11. \A q \in Request : pc'[q] # "idle" => /\ pc'[q] = pc[q] /\ holds'[q] = holds[q]
                                             /\ at'[q] = at[q]
  BY <1>9 DEF IndInv, TypeOK
<1> QED
  BY <1>1, <1>2, <1>3, <1>4, <1>7, <1>8, <1>10, <1>11, IssueStep

\* A request goes to its next place; the row of a token may be written, no row of a
\* session is.
LEMMA RequestMove ==
  ASSUME IndInv, UNCHANGED <<now, users, token, left>>,
         NEW r \in Request, NEW where \in {"idle", "running", "mint", "logout"},
         NEW t \in Token \cup {None}, NEW time \in 0..MaxTime,
         Goto(r, where, t, time), t = None <=> where = "idle",
         where # "idle" => Issued(t),
         where \in {"mint", "logout"} => time = now,
         where = "mint" => now + 2 <= Deadline(t) /\ token[t].sid \notin left,
         revoked' \in [Key -> Nat],
         \A s \in Session : revoked'[s] = revoked[s],
         \A u \in Token : TokenKept(u)'
  PROVE  IndInv'
<1>1. /\ pc' = [pc EXCEPT ![r] = where] /\ holds' = [holds EXCEPT ![r] = t]
      /\ at' = [at EXCEPT ![r] = time]
      /\ UNCHANGED <<now, version, active, token, left>>
  BY DEF Goto, users
<1>2. /\ pc'[r] = where /\ holds'[r] = t /\ at'[r] = time
      /\ \A q \in Request \ {r} : pc'[q] = pc[q] /\ holds'[q] = holds[q] /\ at'[q] = at[q]
  BY <1>1 DEF IndInv, TypeOK
<1>3. TypeOK'
  <2>1. /\ pc' \in [Request -> {"idle", "running", "mint", "logout"}]
        /\ holds' \in [Request -> Token \cup {None}] /\ at' \in [Request -> 0..MaxTime]
    BY <1>1 DEF IndInv, TypeOK
  <2>2. \A q \in Request : holds'[q] = None <=> pc'[q] = "idle"
    BY <1>2 DEF IndInv, TypeOK
  <2> QED
    BY <1>1, <2>1, <2>2 DEF IndInv, TypeOK
<1>4. \A u \in Token : Issued(u)' => Promised(u)'
  BY <1>1 DEF IndInv, Promised, Deadline, Issued
<1>5. \A q \in Request : Prompt(q)'
  <2>1. now \in Nat
    BY Times DEF IndInv, TypeOK
  <2>2. Prompt(r)'
    BY <1>1, <1>2, <2>1, Times DEF Prompt, Issued, Deadline
  <2>3. ASSUME NEW q \in Request \ {r}
        PROVE  Prompt(q)'
    BY <1>1, <1>2 DEF IndInv, Prompt, Issued, Deadline
  <2> QED
    BY <2>2, <2>3
<1>6. \A s \in Session : SessionKept(s)'
  BY <1>1, <1>2 DEF IndInv, SessionKept, Opened
<1> QED
  BY <1>3, <1>4, <1>5, <1>6 DEF IndInv

\* The row of a token cannot be missing for long: who writes it knows the token.
LEMMA RevokeTypes ==
  ASSUME TypeOK, NEW k \in Key, NEW until \in Nat, Revoke(k, until)
  PROVE  /\ revoked' \in [Key -> Nat]
         /\ revoked'[k] = IF revoked[k] = 0 THEN until ELSE revoked[k]
         /\ \A m \in Key \ {k} : revoked'[m] = revoked[m]
BY DEF TypeOK, Revoke

LEMMA RequestSteps ==
  ASSUME IndInv, NEW r \in Request,
         (\E t \in Token : Arrive(r, t)) \/ RefreshRead(r) \/ LogoutToken(r) \/ Die(r)
  PROVE  IndInv'
<1>1. now \in 0..MaxTime /\ now \in Nat /\ 0 \in 0..MaxTime
  BY Times DEF IndInv, TypeOK
<1>2. revoked \in [Key -> Nat] /\ \A u \in Token : TokenKept(u)
  BY DEF IndInv, TypeOK
<1>3. UNCHANGED <<token, revoked>> => \A u \in Token : TokenKept(u)'
  BY <1>2 DEF TokenKept, Issued
<1>4. Done(r) /\ UNCHANGED <<now, users, token, revoked, left>> => IndInv'
  BY <1>1, <1>2, <1>3, RequestMove DEF Done
<1>5. ASSUME NEW t \in Token, Arrive(r, t)
      PROVE  IndInv'
  <2>1. Issued(t) /\ t # None
    BY <1>5, IdAssumption DEF Arrive, Accepted
  <2> QED
    BY <1>1, <1>2, <1>3, <1>5, <2>1, RequestMove DEF Arrive
<1>6. CASE RefreshRead(r)
  <2>1. CASE Refreshable(holds[r]) /\ Accepted(holds[r])
    <3> DEFINE t == holds[r]
    <3>1. t \in Token /\ t # None /\ Issued(t) /\ t \in Token \cup {None}
      BY <1>6, IdAssumption DEF RefreshRead, IndInv, TypeOK, Prompt
    <3>2. /\ token[t].sid \in Session /\ token[t].exp \in Nat /\ token[t].started \in Nat
      BY <3>1, IssuedClaims DEF IndInv
    <3>3. now + 2 <= Deadline(t)
      BY <1>1, <2>1, <3>2, Times DEF Refreshable, Accepted, Deadline
    <3>4. token[t].sid \notin left
      <4>1. revoked[token[t].sid] = 0 /\ token[t].exp > now
        BY <2>1, <3>2, Keys DEF Accepted, Revoked, IndInv
      <4> QED
        BY <1>1, <3>1, <3>2, <4>1 DEF IndInv, SessionKept
    <3>5. Goto(r, "mint", t, now) /\ UNCHANGED <<now, users, token, revoked, left>>
      BY <1>6, <2>1 DEF RefreshRead
    <3> QED
      BY <1>1, <1>2, <1>3, <3>1, <3>3, <3>4, <3>5, RequestMove
  <2>2. CASE ~(Refreshable(holds[r]) /\ Accepted(holds[r]))
    BY <1>4, <1>6, <2>2 DEF RefreshRead
  <2> QED
    BY <2>1, <2>2
<1>7. CASE LogoutToken(r)
  <2> DEFINE t == holds[r]
  <2>1. t \in Token /\ t # None /\ Issued(t) /\ t \in Token \cup {None}
    BY <1>7, IdAssumption DEF LogoutToken, IndInv, TypeOK, Prompt
  <2>2. token[t].exp \in Nat
    BY <2>1, IssuedClaims DEF IndInv
  <2>3. /\ revoked' \in [Key -> Nat]
        /\ revoked'[t] = IF revoked[t] = 0 THEN token[t].exp ELSE revoked[t]
        /\ \A m \in Key \ {t} : revoked'[m] = revoked[m]
    BY <1>7, <2>1, <2>2, Keys, RevokeTypes DEF LogoutToken, IndInv
  <2>4. \A s \in Session : revoked'[s] = revoked[s]
    BY <2>1, <2>3, Keys DEF IndInv
  <2>5. Goto(r, "logout", t, now) /\ UNCHANGED <<now, users, token, left>>
    BY <1>7 DEF LogoutToken
  <2>6. ASSUME NEW u \in Token
        PROVE  TokenKept(u)'
    <3>1. TokenKept(u) /\ u \in Key /\ revoked[u] \in Nat
      BY <1>2, Keys DEF IndInv
    <3>2. CASE u = t
      BY <2>1, <2>2, <2>3, <2>5, <3>1, <3>2 DEF TokenKept, Issued
    <3>3. CASE u # t
      BY <2>3, <2>5, <3>1, <3>3 DEF TokenKept, Issued
    <3> QED
      BY <3>2, <3>3
  <2> QED
    BY <1>1, <2>1, <2>3, <2>4, <2>5, <2>6, RequestMove
<1>8. CASE Die(r)
  BY <1>4, <1>8 DEF Die
<1> QED
  BY <1>5, <1>6, <1>7, <1>8

\* The row of the session outlives its tokens, also those that are still to be signed
\* by a request that read before.
LEMMA LogoutSessionStep ==
  ASSUME IndInv, NEW r \in Request, LogoutSession(r)
  PROVE  IndInv'
<1> DEFINE t == holds[r]
           z == token[t].sid
<1>1. t \in Token /\ Issued(t) /\ pc[r] = "logout"
  BY DEF LogoutSession, IndInv, TypeOK, Prompt
<1>2. z \in Session /\ token[t].exp \in Nat /\ now \in Nat /\ at[r] \in Nat
  BY <1>1, IssuedClaims, Times DEF IndInv, TypeOK
<1>3. now <= at[r] + Lag
  BY <1>1 DEF IndInv, Prompt
<1>4. KeptUntil(r) \in Nat /\ KeptUntil(r) >= now + Lag + Access
  <2>1. Max({token[t].exp, at[r] + Access}) = IF token[t].exp >= at[r] + Access THEN token[t].exp ELSE at[r] + Access
    BY <1>2, Times, MaxOfTwo
  <2> QED
    BY <1>2, <1>3, <2>1, Times DEF KeptUntil
<1>5. /\ revoked' \in [Key -> Nat]
      /\ revoked'[z] = IF revoked[z] = 0 THEN KeptUntil(r) ELSE revoked[z]
      /\ \A m \in Key \ {z} : revoked'[m] = revoked[m]
  BY <1>2, <1>4, Keys, RevokeTypes DEF LogoutSession, IndInv
<1>6. /\ left' = left \cup {z}
      /\ pc' = [pc EXCEPT ![r] = "idle"] /\ holds' = [holds EXCEPT ![r] = None]
      /\ at' = [at EXCEPT ![r] = 0]
      /\ UNCHANGED <<now, version, active, token>>
  BY DEF LogoutSession, Done, Goto, users
<1>7. TypeOK'
  <2>1. /\ pc' \in [Request -> {"idle", "running", "mint", "logout"}]
        /\ holds' \in [Request -> Token \cup {None}] /\ at' \in [Request -> 0..MaxTime]
        /\ \A q \in Request : holds'[q] = None <=> pc'[q] = "idle"
    BY <1>6, Times DEF IndInv, TypeOK
  <2> QED
    BY <1>2, <1>5, <1>6, <2>1 DEF IndInv, TypeOK
<1>8. \A u \in Token : Issued(u)' => Promised(u)'
  BY <1>6 DEF IndInv, Promised, Deadline, Issued
<1>9. \A q \in Request : pc'[q] # "idle" => /\ pc'[q] = pc[q] /\ holds'[q] = holds[q]
                                             /\ at'[q] = at[q] /\ at[q] \in Nat
  BY <1>6, Times DEF IndInv, TypeOK
<1>10. \A q \in Request : Prompt(q)'
  BY <1>6, <1>9 DEF IndInv, Prompt, Issued, Deadline
<1>11. \A u \in Token : TokenKept(u)'
  <2>1. \A u \in Token : revoked'[u] = revoked[u]
    BY <1>2, <1>5, Keys DEF IndInv
  <2> QED
    BY <1>6, <2>1 DEF IndInv, TokenKept, Issued
<1>12. ASSUME NEW s \in Session
       PROVE  SessionKept(s)'
  <2>1. SessionKept(s) /\ revoked[s] \in Nat /\ s \in Key
    BY Keys DEF IndInv
  <2>2. CASE s # z
    <3>1. revoked'[s] = revoked[s] /\ (s \in left' <=> s \in left)
      BY <1>5, <1>6, <2>1, <2>2
    <3> QED
      BY <1>6, <1>9, <2>1, <3>1 DEF SessionKept, Opened
  <2>3. CASE s = z
    <3>1. Opened(s)' /\ s \in left' /\ revoked'[s] > 0
      BY <1>1, <1>2, <1>4, <1>5, <1>6, <2>1, <2>3, Times DEF Opened
    <3>2. revoked[s] > 0 => s \in left /\ revoked'[s] = revoked[s]
      BY <1>5, <2>1, <2>3 DEF SessionKept
    <3>3. revoked[s] = 0 => revoked'[s] = KeptUntil(r)
      BY <1>5, <2>3
    <3>4. ASSUME NEW u \in Token, token'[u].sid = s
          PROVE  token'[u].exp <= revoked'[s]
      <4>1. Issued(u) /\ token[u].exp \in Nat /\ token[u].exp <= now + Access
        BY <1>6, <3>4, IssuedClaims DEF IndInv, Promised
      <4>2. CASE revoked[s] > 0
        BY <1>6, <2>1, <3>2, <3>4, <4>2 DEF SessionKept
      <4>3. CASE revoked[s] = 0
        BY <1>2, <1>4, <1>6, <3>3, <4>1, <4>3, Times
      <4> QED
        BY <2>1, <4>2, <4>3
    <3>5. ASSUME NEW q \in Request, pc'[q] = "mint", token'[holds'[q]].sid = s
          PROVE  at'[q] + Lag + Access <= revoked'[s]
      <4>1. pc[q] = "mint" /\ token[holds[q]].sid = s /\ at'[q] = at[q] /\ at[q] \in Nat
        BY <1>6, <1>9, <3>5
      <4>2. at[q] <= now
        BY <4>1 DEF IndInv, Prompt
      <4>3. CASE revoked[s] > 0
        BY <2>1, <3>2, <4>1, <4>3 DEF SessionKept
      <4>4. CASE revoked[s] = 0
        BY <1>2, <1>4, <3>3, <4>1, <4>2, <4>4, Times
      <4> QED
        BY <2>1, <4>3, <4>4
    <3> QED
      BY <3>1, <3>4, <3>5 DEF SessionKept
  <2> QED
    BY <2>2, <2>3
<1> QED
  BY <1>7, <1>8, <1>10, <1>11, <1>12 DEF IndInv

LEMMA ChangeUserStep ==
  ASSUME IndInv, ChangeUser
  PROVE  IndInv'
<1>1. /\ version < MaxVersion /\ version' = version + 1 /\ active' \in BOOLEAN
      /\ UNCHANGED <<now, token, revoked, pc, holds, at, left>>
  BY DEF ChangeUser, requests
<1>2. TypeOK' /\ version \in Nat
  BY <1>1, Times DEF IndInv, TypeOK
<1>3. \A t \in Token : Issued(t)' => Promised(t)'
  BY <1>1, <1>2, IssuedClaims DEF IndInv, Promised, Deadline, Issued
<1>4. /\ \A r \in Request : Prompt(r)'
      /\ \A t \in Token : TokenKept(t)'
      /\ \A s \in Session : SessionKept(s)'
  BY <1>1 DEF IndInv, Prompt, Deadline, TokenKept, SessionKept, Issued, Opened
<1> QED
  BY <1>2, <1>3, <1>4 DEF IndInv

\* What is cleaned up has outlived what it was kept for.
LEMMA StartupStep ==
  ASSUME IndInv, Startup
  PROVE  IndInv'
<1>1. /\ \A k \in Key : revoked'[k] = IF revoked[k] < now THEN 0 ELSE revoked[k]
      /\ revoked' \in [Key -> Nat]
      /\ UNCHANGED <<now, version, active, token, pc, holds, at, left>>
  BY DEF Startup, users, requests, IndInv, TypeOK
<1>2. TypeOK' /\ now \in Nat
  BY <1>1, Times DEF IndInv, TypeOK
<1>3. \A t \in Token : Issued(t)' => Promised(t)'
  BY <1>1 DEF IndInv, Promised, Deadline, Issued
<1>4. \A r \in Request : Prompt(r)'
  BY <1>1 DEF IndInv, Prompt, Deadline, Issued
<1>5. \A t \in Token : TokenKept(t)'
  BY <1>1, Keys DEF IndInv, TokenKept, Issued
<1>6. ASSUME NEW s \in Session
      PROVE  SessionKept(s)'
  <2>1. SessionKept(s) /\ revoked[s] \in Nat
    BY Keys DEF IndInv
  <2>2. revoked'[s] = IF revoked[s] < now THEN 0 ELSE revoked[s]
    BY <1>1, Keys DEF IndInv
  <2>3. CASE ~(0 < revoked[s] /\ revoked[s] < now)
    <3>1. revoked'[s] = revoked[s]
      BY <1>2, <2>1, <2>2, <2>3
    <3> QED
      BY <1>1, <2>1, <3>1 DEF SessionKept, Opened
  <2>4. CASE 0 < revoked[s] /\ revoked[s] < now
    <3>1. revoked'[s] = 0 /\ s \in left
      BY <2>1, <2>2, <2>4 DEF SessionKept
    <3>2. ASSUME NEW t \in Token, token[t].sid = s
          PROVE  token[t].exp <= now
      <4>1. token[t].exp \in Nat /\ token[t].exp <= revoked[s]
        BY <2>1, <2>4, <3>1, <3>2, IssuedClaims DEF IndInv, SessionKept
      <4> QED
        BY <1>2, <2>1, <2>4, <4>1
    <3>3. ASSUME NEW r \in Request, pc[r] = "mint", token[holds[r]].sid = s
          PROVE  FALSE
      <4>1. at[r] \in Nat /\ now <= at[r] + Lag /\ at[r] + Lag + Access <= revoked[s]
        BY <2>1, <3>1, <3>3, Times DEF IndInv, TypeOK, Prompt, SessionKept
      <4> QED
        BY <1>2, <2>1, <2>4, <4>1, Times
    <3> QED
      BY <1>1, <2>1, <3>1, <3>2, <3>3 DEF SessionKept, Opened
  <2> QED
    BY <2>3, <2>4
<1> QED
  BY <1>2, <1>3, <1>4, <1>5, <1>6 DEF IndInv

LEMMA TickStep ==
  ASSUME IndInv, Tick
  PROVE  IndInv'
<1>1. /\ now < MaxTime /\ now' = now + 1
      /\ \A r \in Request : pc[r] \in {"mint", "logout"} => now < at[r] + Lag
      /\ UNCHANGED <<version, active, token, revoked, pc, holds, at, left>>
  BY DEF Tick, users, requests
<1>2. TypeOK' /\ now \in Nat
  BY <1>1, Times DEF IndInv, TypeOK
<1>3. \A t \in Token : Issued(t)' => Promised(t)'
  BY <1>1, <1>2, IssuedClaims, Times DEF IndInv, Promised, Deadline, Issued
<1>4. ASSUME NEW r \in Request
      PROVE  Prompt(r)'
  <2>1. at[r] \in Nat
    BY Times DEF IndInv, TypeOK
  <2> QED
    BY <1>1, <1>2, <2>1, Times DEF IndInv, Prompt, Deadline, Issued
<1>5. \A t \in Token : TokenKept(t)'
  BY <1>1 DEF IndInv, TokenKept, Issued
<1>6. ASSUME NEW s \in Session
      PROVE  SessionKept(s)'
  <2>1. SessionKept(s)
    BY DEF IndInv
  <2>2. \A t \in Token : token[t].sid = s => token[t].exp \in Nat
    BY IssuedClaims DEF IndInv
  <2> QED
    BY <1>1, <1>2, <2>1, <2>2 DEF SessionKept, Opened
<1> QED
  BY <1>2, <1>3, <1>4, <1>5, <1>6 DEF IndInv

LEMMA Inductive ==
  ASSUME IndInv, [Next]_vars
  PROVE  IndInv'
<1>1. ASSUME NEW s \in Session, NEW t \in Token, SignIn(s, t)
      PROVE  IndInv'
  BY <1>1, SignInStep
<1>2. ASSUME NEW r \in Request, NEW t \in Token, Mint(r, t)
      PROVE  IndInv'
  BY <1>2, MintStep
<1>3. ASSUME NEW r \in Request, (\E t \in Token : Arrive(r, t)) \/ RefreshRead(r) \/ LogoutToken(r) \/ Die(r)
      PROVE  IndInv'
  BY <1>3, RequestSteps
<1>4. ASSUME NEW r \in Request, LogoutSession(r)
      PROVE  IndInv'
  BY <1>4, LogoutSessionStep
<1>5. CASE ChangeUser \/ Startup \/ Tick
  BY <1>5, ChangeUserStep, StartupStep, TickStep
<1>6. CASE UNCHANGED vars
  <2>1. UNCHANGED <<now, version, active, token, revoked, pc, holds, at, left>>
    BY <1>6 DEF vars, users, requests
  <2> QED
    BY <2>1 DEF IndInv, TypeOK, Promised, Prompt, TokenKept, SessionKept, Issued, Deadline, Opened
<1> QED
  BY <1>1, <1>2, <1>3, <1>4, <1>5, <1>6 DEF Next

-----------------------------------------------------------------------------
(* Theorems *)

\* The rows of revoked keys outlive the tokens they are kept for, and requests
\* between a read and a write are known to be recent.
THEOREM Invariance == Spec => []IndInv
<1>1. IndInv /\ [Next]_vars => IndInv'
  BY Inductive
<1> QED
  BY <1>1, IndInvInit, PTL DEF Spec

\* After the answer to a logout no token of its session is accepted, not even one
\* that is signed later.
THEOREM LogoutIsFinal == Spec => []LoggedOut
<1>1. IndInv => LoggedOut
  <2> SUFFICES ASSUME IndInv, NEW t \in Token, Accepted(t), token[t].sid \in left
               PROVE  FALSE
    BY DEF LoggedOut
  <2>1. token[t].sid \in Session /\ token[t].exp \in Nat /\ token[t].exp > now /\ now \in Nat
    BY IssuedClaims, Times DEF Accepted, IndInv, TypeOK
  <2>2. revoked[token[t].sid] = 0
    BY <2>1, Keys DEF Accepted, Revoked, IndInv
  <2> QED
    BY <2>1, <2>2 DEF IndInv, SessionKept
<1> QED
  BY <1>1, Invariance, PTL

\* No session goes on after its deadline, but for a token that was being signed.
THEOREM SessionsEnd == Spec => []SessionsBounded
<1>1. IndInv => SessionsBounded
  <2> SUFFICES ASSUME IndInv, NEW t \in Token, Accepted(t)
               PROVE  now < Deadline(t) \/ now + 1 < Deadline(t) + Lag
    BY DEF SessionsBounded, IndInv, Deadline
  <2>1. /\ Issued(t) /\ token[t].exp \in Nat /\ token[t].exp > now /\ now \in Nat
        /\ token[t].started \in Nat
    BY IssuedClaims, Times DEF Accepted, IndInv, TypeOK
  <2> QED
    BY <2>1, Times DEF IndInv, Promised, Deadline
<1> QED
  BY <1>1, Invariance, PTL

\* Whatever refuses a token lasts: its time is over, its account has moved on, or its
\* row is kept until the token has expired.
THEOREM RefusalsLast == Spec => RefusedForGood
<1> DEFINE Lasts == \A t \in Token : Issued(t) /\ ~Accepted(t) => ~Accepted(t)'
<1>1. IndInv /\ [Next]_vars => [Lasts]_vars
  <2> SUFFICES ASSUME IndInv, Next, NEW t \in Token, Issued(t), ~Accepted(t)
               PROVE  ~Accepted(t)'
    BY DEF vars
  <2>1. /\ token[t].sid \in Session /\ token[t].sid \in Key /\ t \in Key
        /\ token[t].exp \in Nat /\ now \in Nat
        /\ token[t].ver <= version /\ token[t].ver \in Nat /\ version \in Nat
        /\ revoked[t] \in Nat /\ revoked[token[t].sid] \in Nat
    BY IssuedClaims, Keys, Times DEF IndInv, TypeOK, Promised
  <2>2. token'[t] = token[t]
    <3>1. ASSUME NEW u \in Token, NEW s, NEW v, NEW x, Issue(u, s, v, x)
          PROVE  token'[t] = token[t]
      BY <3>1 DEF Issue, IndInv, TypeOK
    <3> QED
      BY <3>1 DEF Next, SignIn, Mint, Arrive, RefreshRead, LogoutToken, LogoutSession, Die,
                  ChangeUser, Startup, Tick
  <2>3. now' \in {now, now + 1}
    BY DEF Next, SignIn, Mint, Arrive, RefreshRead, LogoutToken, LogoutSession, Die,
           ChangeUser, Startup, Tick
  <2>4. (version' = version /\ active' = active) \/ version' = version + 1
    BY DEF Next, SignIn, Mint, Arrive, RefreshRead, LogoutToken, LogoutSession, Die,
           ChangeUser, Startup, Tick, users
  <2>5. \A k \in Key : revoked[k] > 0 => revoked'[k] = revoked[k] \/ revoked[k] < now
    <3>1. ASSUME NEW m, NEW until, Revoke(m, until), NEW k \in Key, revoked[k] > 0
          PROVE  revoked'[k] = revoked[k]
      BY <3>1, Keys DEF Revoke, IndInv, TypeOK
    <3>2. CASE Startup
      BY <3>2 DEF Startup
    <3>3. CASE ~Startup
      BY <3>1, <3>3 DEF Next, SignIn, Mint, Arrive, RefreshRead, LogoutToken, LogoutSession, Die,
                        ChangeUser, Tick
    <3> QED
      BY <3>2, <3>3
  <2>6. CASE token[t].exp <= now
    BY <2>1, <2>2, <2>3, <2>6 DEF Accepted
  <2>7. CASE ~(active /\ token[t].ver = version)
    BY <2>1, <2>2, <2>4, <2>7 DEF Accepted
  <2>8. CASE revoked[t] > 0
    <3>1. token[t].exp <= revoked[t]
      BY <2>8 DEF IndInv, TokenKept
    <3>2. revoked'[t] > 0 \/ token[t].exp <= now
      BY <2>1, <2>5, <2>8, <3>1
    <3> QED
      BY <2>2, <2>6, <3>2 DEF Accepted, Revoked
  <2>9. CASE revoked[token[t].sid] > 0
    <3>1. token[t].exp <= revoked[token[t].sid]
      BY <2>1, <2>9 DEF IndInv, SessionKept
    <3>2. revoked'[token[t].sid] > 0 \/ token[t].exp <= now
      BY <2>1, <2>5, <2>9, <3>1
    <3> QED
      BY <2>2, <2>6, <3>2 DEF Accepted, Revoked
  <2> QED
    BY <2>1, <2>6, <2>7, <2>8, <2>9 DEF Accepted, Revoked
<1> QED
  BY <1>1, Invariance, PTL DEF Spec, RefusedForGood
=============================================================================
