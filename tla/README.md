# Formal models of Subtitle-Translator

TLA+ models of the concurrent core of the subtitle translator: what its web
workers, executor threads, translation threads and database transactions may do
to each other. TLC checks the models on small instances; TLAPS proves the most
important properties for every value of the constants.

    tlc -config JobLifecycleFaults.cfg MCJobLifecycle   # a run of PROJECT.json
    tlapm JobLifecycleProofs.tla                        # a module of proofs

Contents: [the system](#1-the-system), [the modules](#2-the-modules),
[the runs](#3-the-runs), [fairness and deadlock](#4-fairness-and-deadlock),
[the proofs](#5-the-proofs), [what was found](#6-what-was-found),
[limits](#7-what-is-not-modelled), [the plan](#8-the-plan).

## 1. The system

A Flask application (`webapp.py`) runs in several gunicorn worker processes.
They share a SQL database (`database.py`: MariaDB or PostgreSQL, or SQLite for one
writer at a time), a directory with one folder per job, and optionally Redis. Each process
has its own `ThreadPoolExecutor` for translation jobs, its own cancel events,
its own `db_lock` and its own in-memory attempt limiters. A translation
(`srt_translate.py`) has a thread pool of its own, which sends batches of subtitle lines to a provider.

| Component | State it keeps | Operations | Interacts with | What is hard | Correct when | Model |
|---|---|---|---|---|---|---|
| Job lifecycle: `webapp.py` `create_jobs`, `run_job`, `cancel_job`, `delete_job`; recovery in `database.py`, `gunicorn.conf.py` | `jobs` rows, job folders, executor queue, `cancel_events` | upload, run, cancel, delete, crash, restart | quota (same transaction), translation, disk | three kinds of handler and every process write the same row without a common lock | rows move only as promised, every active row has somebody who ends it, runs keep their files | `JobLifecycle`, `JobContract` |
| Batch translation: `translate_segments` | futures, retry budgets, `stopped`, cache | one call per target language | run (cancel callback), gate, provider, text algorithms | threads that retry, wait and fail while the caller collects | complete result or error; bounded requests; it ends | `TranslateSegments`, `TranslateDocument` |
| Pacing gate: `Throttle` | `_blocked_until`, `_next_slot` | `wait`, `penalise` | every translation thread | pauses and slots of several threads | rate and pauses are kept | `Throttle` |
| Job quotas: `quotas.py`, `create_jobs`, `save_settings` | `rate_limit_buckets`, limits in `settings` | consume, edit limits | uploads, settings page | check and add in several workers; resets while waiting for a lock | counters are exact, limits hold | `JobQuota` |
| Accounts: `auth_setup`, `register`, `create_user`, `update_user`, `delete_user` | `users`, setup key | create, update, delete | jobs, sessions, MFA | the actor's rights were read before the lock | an administrator remains; only administrators act | `AdminRoster` |
| Sign-in lockout: `login`, `AttemptLimiter` | failure counter and lock in `users`, attempts in memory | login, unlock | accounts, MFA | slow password checks in parallel | guesses are bounded | `LoginLockout` |
| Multi-factor: `mfa.py` | `mfa_accounts`, `mfa_challenges` | enrol, verify, resend, manage | sign-in, sessions, email | codes in flight while versions and challenges change | codes count once, tokens are proven, budgets hold | `Mfa` |
| Sessions: tokens in `webapp.py` | JWT claims, `revoked_tokens`, `token_version` | issue, refresh, logout, clean-up | accounts, MFA | refresh in flight during a logout | a logout is final | `Sessions` |
| Settings and captcha: `save_settings`, `delete_key`, `verify_captcha`, `settings_schema.py`, `captcha.py` | `settings` rows | save, remove a key, verify | quota, cache, sign-in | two partial edits at once; two reads of one check | stored captcha settings stay usable and enforced | `Settings` (quota limits in `JobQuota`) |
| Read cache: `cached_rows`, `redis_cache.py` | `cache_revisions`, Redis entries | read, bump | settings, job list, restored backups | rows stored under a revision read earlier; revisions that come back | a read returns contents the database had while it ran | `ReadCache`, `ReadContract` |
| Start-up: `database.py` | schema, seeds, revisions | migrate, seed, recover | job rows, revoked keys, cache | several processes at once | a retry converges | recovery in `JobLifecycle`, clean-up in `Sessions`, revisions in `ReadCache` |
| Downloads and archives: `download_output`, `download_all`, `build_archive` | ZIP and temporary files in job folders | send, build, publish | runs, deletes, other downloads | an archive built while outputs appear and folders go | an archive holds what the row listed; a deleted job leaves nothing | `Downloads` |
| Text algorithms of `srt_translate.py` | none | segment, mask, wrap, rebuild, parse answers | translation | dashes, tags, wide characters, answers out of order | markup, speakers and lines survive | `CueText` |
| Subtitle formats: `parse_srt`, `subtitle_formats.py` | none | parse and render SRT, WebVTT, ASS | text algorithms | damaged files | nothing is lost, and what is written reads back | `SubtitleFormats` |
| Provider adapters, email transport, locales, web page | little or none | conversions, HTTP | | I/O and formatting | | outcomes in `TranslateSegments`, answers in `CueText`; the rest not modelled |

How the parts meet:

- **Shared state.** The database is the only thing two processes share besides
  the folders. Within one process `db_lock` serializes the transactions that take it,
  but run_job's reads, the limiter and the translation threads do not hold it.
- **Calls.** `create_jobs` consumes quota in the transaction that inserts the
  rows, then submits to the executor outside any lock. `run_job` calls
  `translate_segments` once per target language, with a throttled callback that
  polls the job's row. Every translation thread calls `Throttle.wait`.
  `login` hands over to `mfa.begin_login`, which issues the session token.
- **Failure.** A worker can die anywhere and is replaced without recovery
  (`gunicorn.conf.py` recovers in the master, before it forks). Only a restart of the
  whole server ends rows that were left active.

`PROJECT.json` lists the hazards with their lines and the properties that would
catch each of them going wrong.

## 2. The modules

Each component has a module with the state, one action per handler step and the
properties; an `MC...` module with the instance for TLC; and, where there are
theorems, a `...Proofs` module. An operator that a comment calls a *mutant* is never
used by the specification: it is the wrong version of its neighbour, kept to show that
a property would notice.

### Granularity

Models of database code use one rule. **An action is one SQL statement, or one
transaction if nobody can come between its statements in a way that matters; the
writes of a transaction show at its commit.** Between two
statements other transactions may commit, as READ COMMITTED allows. A
transaction that raises is rolled back, except where a model says that the commit of
an upload may succeed although it is answered by an error (`CommitAckLost`). SQLite allows fewer interleavings
than these, never more. Steps of one process that hold `db_lock` exclude each other
(`DbFree` in `JobLifecycle`). Work outside the database is one action per use of
shared state: one folder operation, one locked use of a limiter, one answer of a
provider, one look at an event.

### JobLifecycle and JobContract

`status`, `outputs` are the row; `"unborn"` and `"gone"` are before the insert
and after the delete. `folder`, `written` are the disk. `op`, `arg`, `batch`,
`staged` are the locals of a request thread, `queue`, `home` the executors,
`pc`, `done` the locals of `run_job`, `flag`, `registered` its cancel event.

| Code | Actions |
|---|---|
| `create_jobs` | `UploadStart`, `Stage`, `StageError`, `Commit`, `Reject`, `CommitError`, `Unstage`, `Submit` |
| `run_job` | `StartRun`, `ReadRow`, `Claim`, `Load`, `NextTarget`, `Translate`, `Write`, `Publish`, `Finish`, handlers `Abandon` and `Fail`, `Cleanup` |
| `cancel_job` | `CancelQueued`, `CancelRunning`, `CancelRead`, `Signal` |
| `delete_job` | `DeleteCheck`, `DeleteFiles`, `DeleteRow` |
| failures | `CommitAckLost`, `WriteError`, `DbError`, `HandlerDbError`, `DeleteFilesError`, `RequestDbError`, `Crash`, `Restart` |

The cancel monitor polls the row at most once a second (`CANCEL_POLL_SECONDS`). The model lets a run go on past any poll
unless its event is set (`MayGoOn`), and lets it stop at any poll when the row says
so (`StopAt`). A poll that raises counts as "no". History
variables record what the properties talk about: who asked, who was answered, and
which rows and folders a *known* fault left behind (`stranded`, `leaked`).

`JobContract` is the abstract specification: three variables, no threads,
processes, files or requests. `JobLifecycle` instantiates it, `Contract == INSTANCE
JobContract WITH ...`, and `ImplementsContract` is `Contract!Spec`.

When a commit is answered by an error although it took effect, the handler removes
the folders and the rows stay queued with nothing behind them: they are `stranded`
until a cancel or the restart of the server ends them.

### TranslateSegments, TranslateDocument and Throttle

`TranslateSegments` is one call of `translate_segments`. The caller's loop is `Main`; a
batch has its place in `run()` (`step`), the line it retries alone (`line`) and
the two budgets of `call_with_retry` (`soft`, `limited`). A sleep or a wait in
the throttle lasts arbitrarily long. What a request leads to is a choice: an answer that is
accepted, one that cannot be mapped back onto its lines, a transient error, a rate limit
that is waited out or is too long for that, a fatal error.

`TranslateDocument` composes the call with the pure algorithms around it: what a call
that completed was given (segments of cues, `SegmentCue`), what its batches accept
(`ParseNumbered`, `Valid`) and what its result becomes (`RebuildCue`, the writers of
files). Its text properties are about the step in which a call completes with an
answer for every line (`AllAnswered`): only then are all its texts handed on.

`Throttle` is the gate with a clock; `waiting` are the threads inside `wait()`. The two are
separate because the first is about order and the second about time:
`TranslateSegments` assumes of the gate only that a wait ends some time or raises when
the job is canceled.

### CueText and SubtitleFormats

Text is a sequence of tokens: a letter, a wide character, a dash, a space, a tag, a
placeholder. `CueText` has `mask_tags`, `segment_cue`, both wrappers, `rebuild_cues`,
`parse_numbered` and `_validate_output` over such sequences; `SubtitleFormats` has the
parsers and writers over sequences of lines (a blank, a number, a time line, text). Both are
operators without state. What distinguishes tokens is what the code tests: whether one is
a tag, is wide, may lead or trail a line, or begins a speaker.

### JobQuota

`consume_job_quota` inside the upload's transaction: `Upload` reads the account,
`Lock` takes the `panel_job_limit` row and then the time, `Read` the counters, and
the decision writes the counters at the commit. `SaveSettings` changes the
limits under the same lock and clears window counters when a window setting changes.
`ChangeRole` happens between the read of the role and the lock. The calendar of
`calendar_quota_window` is a constant, `Start`, which says for each time when its period began:
periods may differ in length and need not nest, and time 0 is a moment at which all began. The history
`accepted` counts the files of accepted uploads apart from the table: for a calendar kind
by period, for the window from each time on.

### AdminRoster

Accounts as `auth_setup`, `bootstrap_admin`, `register`, `create_user`,
`update_user` and `delete_user` change them. A request arrives (its actor is
read with its `token_version`), is given a task, locks the roster row, rechecks the
actor, decides and commits. `create_user` takes no lock and rechecks nothing, and
is modelled so. `owner`, `job` are the part of the `jobs` table `delete_user` counts.

### LoginLockout

One account, several requests: limiter slot, captcha, read of the row, reservation
of an attempt (the counter), the slow password check, and success or failure with the
conditions their UPDATEs carry. Changes by administrators and crashes come between any two.
The limiter is a count of attempts for each address and time; `_recent` is the part of it in the
window that ends now (`InWindow`). `_recent` also drops what is older; the model lets it stay,
since no window that is looked at later reaches back to it.
"At most n in any stretch as long as a lock" is stated of the account as "a guess and the n-th
after it are a lock apart" (`AccountBounded`) and of an address as "no window has more than n
failures, wherever it begins" (`AddressBounded`); the budgets of `Mfa` are stated in the first way.

### Mfa

One account: `mfa_accounts` (method, secret, last step, recovery codes, both
budgets, email window) and `mfa_challenges`. Every transaction of `mfa.py` starts with an
update of the account's `users` row (`lock_account`), so each is one action; what lies
between actions is the end of `login` and the delivery of an email. What an administrator does
to the account comes from outside (`ChangeUser`): `update_user` ends its version, or unlocks it,
or both, and an unlock zeroes the counters and locks of both budgets at any moment (`Unlock`).
So `BudgetsKept` bounds the failures of a budget between its successes and unlocks, in any
stretch as long as a lock; the emails, which an unlock does not touch, it bounds at any time.
`EmailedCodeKept` is about codes of every purpose: a sign-in repeated during the cooldown, or failures
charged to the other budget, take no code from its owner.
`tokens` is the set of kinds of token (proven or not) the current `token_version` accepts.

### Sessions

Tokens with their claims (`sid`, version, start, expiry), the revoked keys with
their clean-up times, and requests that end by refreshing or by logging out.
The clean-up happens when a worker starts (`_seed_and_recover`). Tokens of releases
without `sid` or `sst` are left out.

The model needs one assumption about time, `LagAssumption`: issuing a
token after the check of its revocation, or writing a key after its stamp, takes
at most half of the minute by which a session's key outlives its last token.
Without it a key could be cleaned up before a token in flight expires; the code has no
guard against that beyond the minute. `SessionsBounded` is exact in the same delay: a
token signed after the deadline of its session ends less than `Lag` behind it.

### ReadCache, Settings, Downloads and WebReads

`ReadCache` is `cached_rows`: a read takes the revision (`BeginRead`), asks Redis
(`GetHit`, `GetMiss`), loads the rows (`Load`, of the snapshot or of the moment,
as the database isolates) and stores them (`Store`). Every committed write gives its
table a fresh revision (`Commit`), start-up gives fresh ones to all (`CacheStart`).
Redis is thought to be away, fails or has lost an entry whenever it likes.
`ReadContract` is what a read promises: contents that were in the database between its beginning
and its end. `ImplementsReads` is the refinement; a thread maps to the table it
reads and the value it uses.

`Settings` adds the writers `save_settings` and `delete_key` (lock the row, check what is
stored, write only the fields of the payload, read the answer back through the cache)
and `verify_captcha`, which reads twice. A configuration is the set of fields that are
set. `Downloads` adds one job's folder, its run, downloads, archives and deletes,
one call of the file system per action: a look at a file (`CheckFile`, `Find`) or the rename of
an archive (`Publish`) is one step and `send_file` another (`SendFile`, `SendArchive`), so
a delete comes between them. Its requests may be of different processes, so
`db_lock` orders none of them. `ArchiveExact` says of what is sent that it holds the outputs listed at
the request, and of a refusal, by 404 or by the 500 of a file that went after the look, that
a delete had begun. `WebReads` composes the three on the same request
threads, revisions and Redis, with a stop of the server, a restored backup of
database and files (Redis keeps its entries) and a start.

## 3. The runs

All numbers are bounds of the instance, not of the code.

| Run | Instance | Shows |
|---|---|---|
| `job_faults` | 2 processes with one request thread and one executor thread each, 2 jobs, 1 target, 1 fault of any kind | the inductive invariant `IndInv` (with `FoldersAccounted` and `EventTracksRun` among its conjuncts), `Attended`, `RunHoldsFiles`, `CancelHonoured`, refinement of `JobContract` (`ImplementsContract`) |
| `job_live` | 1 process, 1 request thread, 2 jobs, 2 targets, 1 fault | `OutputsOnDisk`; under fairness every job settles (`EveryJobSettles`) |
| `translate` | 3 batches of 1, 2 and 1 lines, 2 threads, 2 retries, 1 rate retry; texts below | `ResultsComplete`, `RefusalEndsTheCall`, `RequestsBounded`, `MarkupKept`, `EchoKeepsCue`, `LinesFit`, `AnswersMapped`, `FilesKept`; under fairness the call and all its threads end (`EverythingEnds`) |
| `throttle` | 2 threads, interval 2, pauses of 1 and 3, clock to 6, 4 requests | `Paced`, `PausesKept` and the invariant that makes them inductive |
| `quota` | 2 accounts, 2 uploads at a time, weeks of 2 ticks, a month of 3, 2 settings, clock to 4, 2 accepted uploads of 1 or 2 files, 1 change of the window settings | `UsageExact`, `LimitsKept` |
| `roster` | 3 accounts, 2 requests, versions to 2, bodies that demote or promote with a password | `AdminRemains`, `ActorAuthorised`, `AdminsMakeAdmins`, inductive invariant |
| `roster_jobs` | 2 accounts, 2 requests, 1 job | violation of `ActiveJobsOwned`, see [6](#6-what-was-found) |
| `lockout` | 3 requests of 1 address, limits 2 and 3, locks of 2 ticks, clock to 3, 1 change by an administrator, 1 fault | `GuessesBounded` (per account and per address), `LockKept` |
| `lockout_stuck` | 2 requests, no fault | violation of `ExhaustedIsLocked`, see [6](#6-what-was-found) |
| `mfa` | 1 request between actions at a time, 4 challenges, versions to 2, budget 2, locks of 1 tick, challenges of 2, 2 emails in a window of 4, 1 fault, 5 events (ticks, versions, faults, wrong codes; `Room`) and any number of unlocks | `CodesAcceptedOnce`, `TokensProven`, `BudgetsKept` (guesses and emails), `HashMeansSent`, `EmailedCodeKept` |
| `sessions` | 2 requests, 2 sessions, 3 tokens, clock to 7, 1 version change | `LoggedOut`, `SessionsBounded`, `RefusedForGood` |
| `reads` | 2 request threads, 3 calls, 6 revisions, 3 targets of which 2 are published, 3 partial saves, captcha on or off, 1 stop | `ImplementsReads`, `CaptchaUsable`, `CaptchaEnforced`, `ArchiveExact`, `NothingLeftBehind` |

A type invariant `TypeOK` is the first conjunct of one invariant of each run (of
`ResultsComplete`, `UsageExact`, `GuessesBounded`, `BudgetsKept`, `SessionsBounded`,
`NothingLeftBehind`, and of each `IndInv`).

Why the bounds are enough:

- *Jobs.* A job meets at most a run, a cancel and a delete at the same time. Two processes
  with a request thread each give every pair of handlers, in one process (sharing
  `db_lock` and the event registry) and in two; the second job fills the executor
  so that runs also wait in the queue. One fault reaches each error path; the
  proofs cover any number.
- *Translation.* A batch of one line cannot fall back and one of two can; the third batch
  has to wait for a thread. Two retries and one rate retry let the two budgets
  advance in either order and each be the last straw.
- *Texts.* Every line of up to three tokens of dash, tag, letter, space and digit, and
  pairs and triples of shorter lines with drawings, character references and what the masking
  reserves; every text of up to four tokens in two widths for the wrappers; every
  answer of up to three lines of twelve kinds; every SRT or WebVTT file of up to six lines of
  five kinds, and ASS files of up to three lines after a section. The rules of the code
  look at a line, its neighbour, and the first and last token.
- *Reads.* A stale entry takes a reader, a writer and a second reader: two threads and
  three calls, since a thread is used again. Six revisions are the first two,
  two of a start, and two writes. Two outputs are the first list with an archive, the third
  makes a second list. One stop allows a restored backup. A download and a delete
  interleave call by call. 3,019,844 states.
- *Quota.* Four ticks hold two weeks, a month boundary inside the second, a window that ends inside a
  week, and an edit between two uploads. The tight setting makes each kind of limit the one that refuses.
- *Roster.* Two administrators suffice to demote each other, a third account to create
  or delete; two version steps allow a demotion that is undone in between.
- *Lockout.* One request more than `FailureLimit`, and a lock that expires within the clock.
- *MFA.* Four challenges: of one purpose used, replaced and pending, and one of another. Ticks,
  versions, faults and wrong codes are bounded together, so each run of events spends its five as it
  likes: enrolment, three wrong codes and a tick see a lock of either budget begin and end, or a budget
  begin again after an unlock; four or five ticks outlast challenges and renew the email window, and two
  emails on each side of its end are the four that no stretch of its length may hold. 839,730 states.
- *Sessions.* Three tokens make a chain of two refreshes, or two sessions of which one
  refreshes; seven ticks outlast a session, its key and the clean-up.

Every property of a passing run has a mutant in `PROJECT.json`: a plausible bug in one
mapped definition with which TLC finds that property violated under the same
configuration.

## 4. Fairness and deadlock

`JobLifecycle` assumes that a begun request and a begun run are scheduled (weak
fairness), and strong fairness of the steps that wait for `db_lock`: the lock is released
over and over and a waiting thread gets it some time. Nobody has to send requests and
no fault has to happen. A provider call ends because `urlopen` has a timeout and
the retry budgets are finite, which `EverythingEnds` checks for
`translate_segments`. `TranslateSegments` assumes weak fairness of the caller and of each thread, and
nothing of the provider: no answer is ever forced to be a good one.
`WebReads` states safety only and needs no fairness.

`CHECK_DEADLOCK FALSE` stands where the system may stop: when every job has ended and
been deleted, when the translation call has ended, when the calls and
revisions of `WebReads` are used up, and, in the modules with a clock, when
the bounded clock has run out. `AdminRoster` is checked for deadlock.

## 5. The proofs

TLAPS proves these for every value of the constants, from the named assumptions in the
modules and nothing else: ids differ from the "none" values, limits and bounds are naturals (some
not zero), payloads name captcha fields, the captcha settings of a start are usable, and
`LagAssumption` of `Sessions`.

**JobLifecycleProofs.** The properties are not inductive by themselves. `IndInv`
(`JobLifecycleInv`) adds what they rest on: where a run is against what its row says
(`RunInv`), what is on disk against how far the run is (`DiskInv`), the uploads in
progress (`UploadInv`), cancel and delete calls between their statements
(`RequestInv`), and that a queue holds a job once (`QueueInv`). The reason
`RunHoldsFiles` needs them: a run that works has a row in `processing` or
`canceling`, and only a request that saw a terminal status deletes files, which no
row ever leaves. The proof has one lemma per action group and, under it, one
step per conjunct that the action disturbs. From `Invariance` follow `TypeCorrect`,
`JobsAreAttended`, `CancelIsFinal`, `RunsKeepTheirFiles`, `OutputsAreServed`,
`NoFolderIsForgotten`, `EventsTrackRuns`; and, action by action, `ContractImplemented`:
each step is a step of `JobContract` or a stutter.

**RateProofs.** The two limits on how fast the program works, in one module. *Quota*: `QuotaInv` says that each
counter holds what was accepted in its time and nothing was accepted after its end (`Counters`), that calendar
counters start with their periods (`Started`), that nothing lies in the future (`Past`), and that what a deciding
upload has read is still true (`ReadIsCurrent`): the table, and that no counter started and no
upload was accepted after the time it read. This is where the lock counts, which is taken first and
held from the read of the clock to the commit; settings edits take it too. A renewed counter then starts at zero
rightly (`BucketExact`): a period that differs from the counter's is a later one, in which nothing was
accepted, and a window that has expired ended before. `CountersAreExact` is part of the
invariant; `LimitsHold`, an action property, follows since the counter an upload is checked
against holds all that its window or period accepted, and the limits cannot change before the commit. *Gate*: this module
extends `JobQuota` and `Throttle` both, which is why the definitions of `Throttle` carry its name and its clock
is `monotonic`. `Gate` says that the next slot
lies beyond every earlier request by its share of intervals and that the gate is closed as long as any
pause. `RateIsKept` and `PausesAreKept` follow for any number of threads, rate, and set of pauses.

**AdminRosterProofs.** `RequestInv(r)` says what a request may rely on from each of its
steps. The argument: versions of an account only grow, so an actor that was demoted and
put back no longer has the version the request read (`RevokedShows`), and
from the recheck on the roster row keeps others away. Hence `ActorsAreAuthorised`,
and since the authorised actor of a removal is an administrator other than
its target (nobody may demote or delete themselves), `AnAdminRemains`: the count of the
other administrators in the code is a second line of defence. `OnlyAdminsMakeAdmins` is
about setup and bootstrap, which both count users under the setup key's uniqueness. `create_user` is
let in by a read that may be stale; the theorem says "let in as an administrator", not more.

**TranslateSegmentsProofs.** What the caller has read of a batch is final (`Collected`); the
requests of one `call_with_retry` are counted against the two budgets they are taken from,
by where in the loop the thread is (`Budgeted`); and a call that was stopped starts nobody, so
the threads that send a late request are among the `Workers` that worked then
(`Stopping`, a count of the threads that work or were late). From these follow
`ResultsAreComplete`, `RequestsAreBounded` and, since an error that must not be fanned out
leaves its batch where it is (`Refused`), `RefusalsEndCalls`.

**SessionsProofs.** The row of a revoked key is kept until every token it is for has
expired, and until every token has that a request which passed the check may still sign
(`TokenKept`, `SessionKept`): the second half is where `LagAssumption` is used, and where a key
kept only as long as the presented token would fail. Hence `LogoutIsFinal`; and as versions grow
and time passes, `RefusalsLast`, an action property. `SessionsEnd` follows from what the claims
of a token promise.

**WebReadsProofs.** `ReadsImplementContract` is the refinement, action by action. It rests on
`ReadOK`: whatever a read can still return (what it holds, what another read of the
same revision will store, what is stored under it, what is there now) was in the database since it
began. That is inductive because a revision belongs to one table and one state of it
(`CacheOK`), start-up gives fresh ones after a restored backup, and a commit changes rows
and revision at once. `CaptchaStaysUsable` comes from the lock of the settings row being held
from the check to the write (`ChangeOK`), `CaptchaIsEnforced` from both, since the two reads
of `verify_captcha` see usable configurations only. `FilesOK` and `DownloadOK` say what lies in the
folder for each step of a download while no delete has begun; from them follow
`ArchivesAreExact` and `DeletesAreClean`: as long as none has begun, what a download has looked at
is still there when it is sent.

**MfaProofs.** Five arguments in one invariant. *Codes* (`CodeInv`): a code that was accepted is
spent, because its challenge is gone and its id not given away again, the secret has moved past its
step, or the recovery code is struck off and the next set is of a later version. *Tokens*:
`TokensProven` is inductive, since a token that comes from no proof is only issued in the
transaction that finds no method enrolled, and enrolment rotates the version. *Budgets* (`BudgetInv`): a
budget counts its last failures since a success or an unlock, and those before them are a lock's
length behind now or behind the end of the lock they caused. *Emails* (`MailInv`): the same for the window of the emails and the one before it.
*Sending* (`SendInv`): a request sends a code of its own, once, so a hash without a delivery has a
request that will withdraw it or a process that died. `EmailedCodesStayGood` is an action
property, for codes of every purpose, from `RowInv`: one row of a purpose, of the method that is enrolled.

**LoginLockoutProofs.** `GuessesCounted` is the budget argument for the account: the counter counts
the last guesses. With `LocksSeen` (no request goes on with a row that was locked
when it was read) it gives the account's part of `GuessesAreBounded`, and `LocksAreKept`. For an address, `Counted`
says that the failures of a moment and the requests still at work on an attempt of that moment are
covered by the attempts the limiter has for it, and `Limiting` that no window has more than
`RateLimit` attempts: whatever window a new attempt falls into, its attempts are among those
`reserve` has just counted.

Each `IndInv` was checked by TLC on the instance of its run before it was proved; where the
run has no such invariant in its configuration that is because the properties that follow from
it say what matters. The limits are parameters everywhere, and the bounds that keep TLC's
state spaces finite (`MaxTime`, `MaxEvents`, `MaxFaults`, `MaxRevisions`...) are any naturals.

**Only model-checked:**

- Both liveness properties: liveness under fairness and `ENABLED` are beyond the prover.
- What the folds of `CueText` and `SubtitleFormats` compute for every text
  (`MarkupKept`, `EchoKeepsCue`, `LinesFit`, `AnswersMapped`, `FilesKept`): that needs induction over data.
- `ActiveJobsOwned` and `ExhaustedIsLocked`, which the code violates ([6](#6-what-was-found)).

No module declares a RECURSIVE operator.

## 6. What was found

- `roster_jobs`: `delete_user` refuses to delete an account with active jobs ("cancel or
  finish this user's active jobs first"), but an upload that was let in before can
  insert its rows between that count and the deletion. Active jobs
  without an owner remain.
- `lockout_stuck`: when the attempt that reserves the last place has the right password
  and an administrator changes the account while it is checked, the final UPDATE
  matches no row and `login` returns without locking. The counter stays at the limit without a lock,
  although `lock_exhausted_account` says "Lock an account whose reserved attempts reached the
  limit". The account can then neither be tried nor does any lock expire; an
  administrator's unlock ends it.

Observations that no run states as a disagreement: a thread that waits in `Throttle`
looks at the job's cancel callback and not at the call's `stopped` event, so each of the
running threads may send one more request after the call has raised
(`RequestsBounded` is exact about it); a quota window is a
fixed window from its first use, not a rolling one; after a crash of one
worker its rows stay active until the whole server restarts (`stranded`).
A download overtaken by a delete between its look at the file, or the `os.replace` of its archive,
and `send_file` ends with an unhandled 500, since `send_file` is outside of the `try` of `download_all`
and `download_output` has none; MEMORY.md says "downloads of missing files now return
404" (`ArchiveExact` allows both, once a delete has begun).
`parse_numbered` takes a separator of one more kind off the text of a numbered line, so a
text that begins with a minus sign can lose it, and the properties allow that. `wrap_cjk` may start a line with closing
punctuation that follows a space, and leave markup alone on the last line behind one. `verify_captcha` may answer 503 for
settings that no longer ask for a captcha, because it reads them twice. A captcha configuration
without a hostname, which old releases allowed, is not a start of the model.
`encrypt_existing_api_keys` reads secrets and writes them back without
`lock_settings`, so a plaintext key replaced by another worker in that moment would return; this step of an
upgrade is not modelled.

## 7. What is not modelled

- Of modelled components: rehashing of passwords at sign-in, the registration and
  verification limiters (the same class as the sign-in limiter), how a token
  travels (cookie or header), tokens without session claims, progress percentages
  and warnings of a job, the text of errors, encryption of cache entries and of secrets,
  the keys of translation providers and the ranges of numeric settings.
- Other than for uploads, a commit whose acknowledgement is lost; clocks that run backwards or
  differ between workers; a Redis that answers with what nobody stored (entries are
  authenticated and bound to their key).
- Order, pages and counts of the job list: two reads of one page may be of two
  revisions, and the code promises nothing about them together.
- Schema creation, column migrations and `retry_database_race`: their races are those of DDL
  in each database, before any request.
- The HTTP of provider adapters (`srt_translate.py`) and of email delivery, locales,
  timestamps and the web page: conversions and I/O that keep no state another part reads.
- Bytes and encodings of subtitle files, and the exact width of characters beyond narrow and wide.

## 8. The plan

Done, in this order: `JobContract` and `JobLifecycle` with their proofs,
`TranslateSegments`, `Throttle` with proofs, `JobQuota`, `AdminRoster` with
proofs, `LoginLockout`, `Mfa`, `Sessions`; then `CueText`, `SubtitleFormats` and
`TranslateDocument`, `ReadCache` with `ReadContract`, `Settings`, `Downloads`,
`WebReads`, and the lost acknowledgement in `JobLifecycle`, its model and its proofs.

Then proofs: `TranslateSegments`, `Sessions`, `WebReads` with the refinement of `ReadContract`,
`Mfa`, `LoginLockout` and `JobQuota`, whose history became totals for that. Every safety
invariant of a passing run is proved, and every action property but the five about texts.

Open: variable-length data (the texts) by induction, should the provers come to instantiate it; an abstract
specification of the lockout and of the quotas; the job list's paging.
