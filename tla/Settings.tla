------------------------------ MODULE Settings ------------------------------
(***************************************************************************)
(* The panel settings a captcha depends on: partial saves and the removal  *)
(* of the secret key, serialized by the settings row, against sign-in      *)
(* requests that read the settings twice through the cache.                *)
(*                                                                         *)
(* A configuration is the set of the fields that are set: a provider is    *)
(* chosen, an action is protected, site key, stored secret, hostname.      *)
(***************************************************************************)
EXTENDS ReadCache

CONSTANTS Payload,     \* partial updates: [set |-> fields, clear |-> fields]
          EnvSecret,   \* the environment provides the secret key
          NoRequest    \* nobody holds the settings row

Fields == {"provider", "on", "site", "secret", "host"}

ASSUME PayloadAssumption == \A p \in Payload : p.set \cup p.clear \subseteq Fields
ASSUME SecretAssumption  == EnvSecret \in BOOLEAN
ASSUME NoneAssumption    == Nothing \notin Payload /\ NoRequest \notin Request

VARIABLE lock   \* the request that holds the row lock_settings updates

SecretSet(c) == "secret" \in c \/ EnvSecret

\* captcha_required
Required(c) == {"provider", "on"} \subseteq c

\* A configuration a protected action can work with.
Usable(c) == /\ Required(c) => "site" \in c /\ SecretSet(c)
             /\ "provider" \in c => "host" \in c

\* What a save leaves: an empty secret in the payload is skipped.
Merged(c, p) == (c \ (p.clear \ {"secret"})) \cup p.set

\* captcha_settings_error: the merged state, except that a stored secret counts
\* only together with the site key stored before.
Rejected(c, p) ==
  LET m == Merged(c, p)
      secret == "secret" \in p.set \/ ("site" \in c /\ SecretSet(c))
  IN  \/ Required(m) /\ ~("site" \in m /\ secret)
      \/ "provider" \in m /\ "host" \notin m

(***************************************************************************)
(* save_settings and delete_key                                            *)
(***************************************************************************)
\* The request arrives: a payload, or Nothing for delete_key.
Edit(r, p) == /\ call[r].at = "idle"
              /\ call' = [call EXCEPT ![r].at = "lock", ![r].arg = p]
              /\ UNCHANGED <<rows, rev, minted, redis, seen, lock>>

\* Mutant of LockSettings: the row is not locked.
LockSettingsNot(r) ==
  /\ call[r].at = "lock"
  /\ call' = [call EXCEPT ![r].at = "check"]
  /\ UNCHANGED <<rows, rev, minted, redis, seen, lock>>

LockSettings(r) ==
  /\ call[r].at = "lock"
  /\ lock = NoRequest
  /\ lock' = r
  /\ call' = [call EXCEPT ![r].at = "check"]
  /\ UNCHANGED <<rows, rev, minted, redis, seen>>

\* The stored settings, read inside the transaction.
CheckSettings(r) ==
  /\ call[r].at = "check"
  /\ IF IF call[r].arg = Nothing THEN Required(rows.settings.config)
                                 ELSE Rejected(rows.settings.config, call[r].arg)
       THEN End(r) /\ lock' = NoRequest
       ELSE call' = [call EXCEPT ![r].at = "write"] /\ UNCHANGED <<seen, lock>>
  /\ UNCHANGED <<rows, rev, minted, redis>>

\* Only the fields of the payload are written; then the answer is read like any
\* other request reads the settings.
WriteSettings(r) ==
  /\ call[r].at = "write"
  /\ LET c == rows.settings.config
     IN  Commit("settings", [config |-> IF call[r].arg = Nothing THEN c \ {"secret"}
                                        ELSE Merged(c, call[r].arg)])
  /\ lock' = NoRequest
  /\ call' = [call EXCEPT ![r].at = "reread", ![r].arg = Nothing]

Reread(r) == /\ call[r].at = "reread"
             /\ BeginRead(r, "settings", "answered")
             /\ UNCHANGED lock

(***************************************************************************)
(* verify_captcha                                                          *)
(***************************************************************************)
\* A protected action begins with the settings.
Verify(r) == /\ call[r].at = "idle"
             /\ BeginRead(r, "settings", "decide")
             /\ UNCHANGED lock

\* Not required: the action goes on.  Required: the settings are read again, with
\* the secret.
Decide(r) == /\ call[r].at = "decide"
             /\ IF Required(call[r].value.config)
                  THEN BeginRead(r, "settings", "ask")
                  ELSE /\ call' = [call EXCEPT ![r].at = "admitted"]
                       /\ UNCHANGED <<rows, rev, minted, redis, seen>>
             /\ UNCHANGED lock

\* Mutant of Ask: without keys nothing is verified.
AskOrPass(r) ==
  /\ call[r].at = "ask"
  /\ \/ call' = [call EXCEPT ![r].at = "admitted"] /\ UNCHANGED seen
     \/ End(r)
  /\ UNCHANGED <<rows, rev, minted, redis, lock>>

\* verify_token: without keys the answer is 503; else the service decides, and the
\* action goes on, verified, or not.
Ask(r) ==
  /\ call[r].at = "ask"
  /\ IF "site" \in call[r].value.config /\ SecretSet(call[r].value.config)
       THEN End(r)
       ELSE call' = [call EXCEPT ![r].at = "unavailable"] /\ UNCHANGED seen
  /\ UNCHANGED <<rows, rev, minted, redis, lock>>

Answering == {"answered", "admitted", "unavailable"}

Finish(r) == /\ call[r].at \in Answering
             /\ End(r)
             /\ UNCHANGED <<rows, rev, minted, redis, lock>>

\* get_settings, public_auth_configuration
ReadSettings(r) == /\ call[r].at = "idle"
                   /\ BeginRead(r, "settings", "answered")
                   /\ UNCHANGED lock

SettingsStep(r) == LockSettings(r) \/ CheckSettings(r) \/ WriteSettings(r) \/ Reread(r)
                   \/ Decide(r) \/ Ask(r) \/ Finish(r)
=============================================================================
