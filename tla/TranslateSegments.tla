------------------------- MODULE TranslateSegments -------------------------
(***************************************************************************)
(* translate_segments: one call translates the segments of a document into *)
(* one target language.  The calling thread submits the batches to a pool  *)
(* of Workers threads and collects their results; every batch is a run()   *)
(* with two retry budgets, one for transient errors and one for rate       *)
(* limits, and falls back to single lines when the whole batch is refused. *)
(* The call ends with all results, or raises at the first batch that ends  *)
(* abnormally and sets `stopped' for the threads still working.            *)
(*                                                                         *)
(* Granularity: a step is one check of the stop conditions, one wait in    *)
(* the throttle, one answer of the provider, one loop round of the caller. *)
(* Threads interleave freely.  The clock is left out: a sleep or a wait in *)
(* the throttle lasts as long as it likes.                                 *)
(***************************************************************************)
EXTENDS Integers, FiniteSets

CONSTANTS Batches,      \* number of batches
          Size,         \* lines of each batch
          Workers,      \* threads of the pool
          Retries,      \* "retries": attempts that may fail transiently
          RateRetries   \* "rate_retries": rate limits that are waited out

Batch == 1..Batches

ASSUME BatchesAssumption == Batches \in Nat
ASSUME SizeAssumption    == Size \in [Batch -> Nat \ {0}]
ASSUME WorkersAssumption == Workers \in Nat \ {0}
ASSUME BudgetAssumption  == Retries \in Nat \ {0} /\ RateRetries \in Nat

VARIABLES
  main,       \* the caller: "check", "collect", "completed" or "raised"
  finished,   \* futures the last concurrent.futures.wait returned, not yet read
  collected,  \* batches whose lines are in results
  cached,     \* lines whose translation went into the cache
  reported,   \* lines counted by fallback_callback
  stopped,    \* the stopped event
  canceled,   \* cancel_callback() answers True from now on
  step,       \* where the run() of a batch is, and how it ended
  line,       \* 0: the batch as a whole; i > 0: its i-th line alone
  soft,       \* transient errors in the current call_with_retry
  limited,    \* rate limits in the current call_with_retry
  passed,     \* lines passed through as source text
  sent,       \* history: requests sent in the current call_with_retry
  late,       \* history: requests sent for the batch after stopped was set
  refused     \* history: batches that met an error that must end the call

callVars    == <<main, finished, collected, cached, reported>>
batchVars   == <<step, line, soft, limited, passed>>
historyVars == <<sent, late, refused>>
vars == <<callVars, stopped, canceled, batchVars, historyVars>>

InFlight == {"check", "throttle", "request", "answered", "sleep"}
Ended    == {"ok", "canceled", "fatal", "rate"}
Lines(b) == {b} \X (1..Size[b])

Init == /\ main = "check" /\ finished = {} /\ collected = {} /\ cached = {} /\ reported = {}
        /\ stopped = FALSE /\ canceled = FALSE
        /\ step = [b \in Batch |-> "queued"]
        /\ line = [b \in Batch |-> 0]
        /\ soft = [b \in Batch |-> 0]
        /\ limited = [b \in Batch |-> 0]
        /\ passed = [b \in Batch |-> {}]
        /\ sent = [b \in Batch |-> 0]
        /\ late = [b \in Batch |-> 0]
        /\ refused = {}

\* Somebody cancels the job, or its row moves: cancel_callback changes for good.
Cancel == /\ ~canceled
          /\ canceled' = TRUE
          /\ UNCHANGED <<callVars, stopped, batchVars, historyVars>>

MustStop == stopped \/ canceled

To(b, s) == step' = [step EXCEPT ![b] = s]

(***************************************************************************)
(* run() and call_with_retry, in a thread of the pool                      *)
(***************************************************************************)
\* The pool starts the batches in the order of their submission.
Start(b) ==
  /\ step[b] = "queued"
  /\ \A c \in Batch : c < b => step[c] # "queued"
  /\ Cardinality({c \in Batch : step[c] \in InFlight}) < Workers
  /\ To(b, "check")
  /\ UNCHANGED <<callVars, stopped, canceled, line, soft, limited, passed, historyVars>>

\* Mutant of Check: only the caller's cancellation is looked at.
CheckCancelOnly(b) ==
  /\ step[b] = "check"
  /\ To(b, IF canceled THEN "canceled" ELSE "throttle")
  /\ UNCHANGED <<callVars, stopped, canceled, line, soft, limited, passed, historyVars>>

\* check_canceled before a request.
Check(b) ==
  /\ step[b] = "check"
  /\ To(b, IF MustStop THEN "canceled" ELSE "throttle")
  /\ UNCHANGED <<callVars, stopped, canceled, line, soft, limited, passed, historyVars>>

\* Throttle.wait of the provider call: it looks at cancel_callback only, then
\* lets the request through.
Send(b) ==
  /\ step[b] = "throttle"
  /\ ~canceled
  /\ To(b, "request")
  /\ sent' = [sent EXCEPT ![b] = @ + 1]
  /\ late' = [late EXCEPT ![b] = IF stopped THEN @ + 1 ELSE @]
  /\ UNCHANGED <<callVars, stopped, canceled, line, soft, limited, passed, refused>>

ThrottleCanceled(b) ==
  /\ step[b] = "throttle"
  /\ canceled
  /\ To(b, "canceled")
  /\ UNCHANGED <<callVars, stopped, canceled, line, soft, limited, passed, historyVars>>

\* The provider answers, for better or worse; check_canceled comes before the
\* answer is validated.
Answered(b) ==
  /\ step[b] = "request"
  /\ To(b, "answered")
  /\ UNCHANGED <<callVars, stopped, canceled, line, soft, limited, passed, historyVars>>

\* Mutant of Advance: one line too many.
AdvanceTooFar(b) ==
  LET more == line[b] > 0 /\ line[b] <= Size[b]
  IN  /\ To(b, IF more THEN "check" ELSE "ok")
      /\ line' = [line EXCEPT ![b] = IF more THEN @ + 1 ELSE @]
      /\ soft' = [soft EXCEPT ![b] = 0]
      /\ limited' = [limited EXCEPT ![b] = 0]
      /\ sent' = [sent EXCEPT ![b] = 0]

\* The next line of the fallback, with fresh budgets, or the end of run().
Advance(b) ==
  LET more == line[b] > 0 /\ line[b] < Size[b]
  IN  /\ To(b, IF more THEN "check" ELSE "ok")
      /\ line' = [line EXCEPT ![b] = IF more THEN @ + 1 ELSE @]
      /\ soft' = [soft EXCEPT ![b] = 0]
      /\ limited' = [limited EXCEPT ![b] = 0]
      /\ sent' = [sent EXCEPT ![b] = 0]

\* The output is accepted, unless the run has to stop.
Accept(b) ==
  /\ step[b] = "answered"
  /\ IF MustStop THEN To(b, "canceled") /\ UNCHANGED <<line, soft, limited, sent>>
                 ELSE Advance(b)
  /\ UNCHANGED <<callVars, stopped, canceled, passed, late, refused>>

\* except TranslationError in call_with_retry, and what run() makes of it when
\* the budget is used up: a batch falls back to its lines one by one, a line is
\* passed through.
GiveUp(b) ==
  IF line[b] = 0 /\ Size[b] > 1
    THEN /\ line' = [line EXCEPT ![b] = 1]
         /\ soft' = [soft EXCEPT ![b] = 0]
         /\ limited' = [limited EXCEPT ![b] = 0]
         /\ sent' = [sent EXCEPT ![b] = 0]
         /\ To(b, "check")
         /\ UNCHANGED passed
    ELSE /\ passed' = [passed EXCEPT ![b] = @ \cup {IF line[b] = 0 THEN 1 ELSE line[b]}]
         /\ Advance(b)

\* Mutant of SoftError: one attempt too many.
SoftErrorOnceMore(b) ==
  /\ \/ step[b] = "request"
     \/ step[b] = "answered" /\ ~MustStop
  /\ IF soft[b] >= Retries
       THEN GiveUp(b)
       ELSE /\ soft' = [soft EXCEPT ![b] = @ + 1]
            /\ To(b, "sleep")
            /\ UNCHANGED <<line, limited, passed, sent>>
  /\ UNCHANGED <<callVars, stopped, canceled, late, refused>>

\* A transient error of the provider, or an answer that cannot be mapped back
\* onto its lines.
SoftError(b) ==
  /\ \/ step[b] = "request"
     \/ step[b] = "answered" /\ ~MustStop
  /\ IF soft[b] + 1 >= Retries
       THEN GiveUp(b)
       ELSE /\ soft' = [soft EXCEPT ![b] = @ + 1]
            /\ To(b, "sleep")
            /\ UNCHANGED <<line, limited, passed, sent>>
  /\ UNCHANGED <<callVars, stopped, canceled, late, refused>>

\* Mutant of RateLimited: an exhausted budget falls back like any other error.
RateLimitedFansOut(b) ==
  /\ step[b] = "request"
  /\ IF limited[b] + 1 > RateRetries
       THEN GiveUp(b) /\ refused' = refused \cup {b}
       ELSE /\ limited' = [limited EXCEPT ![b] = @ + 1]
            /\ To(b, "sleep")
            /\ UNCHANGED <<refused, line, soft, passed, sent>>
  /\ UNCHANGED <<callVars, stopped, canceled, late>>

\* A rate limit worth waiting out parks everybody and is retried on a budget of
\* its own; it never falls back to single lines.
RateLimited(b) ==
  /\ step[b] = "request"
  /\ limited' = [limited EXCEPT ![b] = @ + 1]
  /\ IF limited[b] + 1 > RateRetries
       THEN To(b, "rate") /\ refused' = refused \cup {b}
       ELSE To(b, "sleep") /\ UNCHANGED refused
  /\ UNCHANGED <<callVars, stopped, canceled, line, soft, passed, sent, late>>

\* A rate limit longer than MAX_RATE_LIMIT_WAIT is not waited out at all.
RateTooLong(b) ==
  /\ step[b] = "request"
  /\ To(b, "rate")
  /\ limited' = [limited EXCEPT ![b] = @ + 1]
  /\ refused' = refused \cup {b}
  /\ UNCHANGED <<callVars, stopped, canceled, line, soft, passed, sent, late>>

\* FatalTranslationError, or an exception nobody expected.
FatalError(b) ==
  /\ step[b] = "request"
  /\ To(b, "fatal")
  /\ refused' = refused \cup {b}
  /\ UNCHANGED <<callVars, stopped, canceled, line, soft, limited, passed, sent, late>>

\* interruptible_sleep before the next attempt: it ends early if it must.
Wake(b) ==
  /\ step[b] = "sleep"
  /\ To(b, IF MustStop THEN "canceled" ELSE "check")
  /\ UNCHANGED <<callVars, stopped, canceled, line, soft, limited, passed, historyVars>>

(***************************************************************************)
(* The caller                                                              *)
(***************************************************************************)
\* The finally clause after an exception: the stopped event is set, batches the
\* pool has not started are dropped, running threads are not waited for.
Abort == /\ main' = "raised"
         /\ stopped' = TRUE
         /\ step' = [b \in Batch |-> IF step[b] = "queued" THEN "dropped" ELSE step[b]]
         /\ finished' = {}

\* Loop head (and the check after the loop): the caller is canceled.
MainCanceled ==
  /\ main = "check"
  /\ canceled
  /\ Abort
  /\ UNCHANGED <<collected, cached, reported, canceled, line, soft, limited, passed, historyVars>>

\* concurrent.futures.wait returns every future that is done by now.
MainWait ==
  /\ main = "check"
  /\ ~canceled
  /\ finished' = {b \in Batch \ collected : step[b] \in Ended}
  /\ finished' # {}
  /\ main' = "collect"
  /\ UNCHANGED <<collected, cached, reported, stopped, canceled, batchVars, historyVars>>

\* Mutants of Collect: a batch that was read stays pending; lines passed through
\* are cached as well.
CollectStaysPending(b) ==
  /\ main = "collect"
  /\ b \in finished /\ step[b] = "ok"
  /\ cached' = cached \cup {<<b, i>> : i \in (1..Size[b]) \ passed[b]}
  /\ reported' = reported \cup {<<b, i>> : i \in passed[b]}
  /\ finished' = finished \ {b}
  /\ main' = IF finished = {b} THEN "check" ELSE "collect"
  /\ UNCHANGED <<collected, stopped, canceled, batchVars, historyVars>>

CollectCachesAll(b) ==
  /\ main = "collect"
  /\ b \in finished /\ step[b] = "ok"
  /\ collected' = collected \cup {b}
  /\ cached' = cached \cup Lines(b)
  /\ reported' = reported \cup {<<b, i>> : i \in passed[b]}
  /\ finished' = finished \ {b}
  /\ main' = IF finished = {b} THEN "check" ELSE "collect"
  /\ UNCHANGED <<stopped, canceled, batchVars, historyVars>>

\* future.result() of a batch that ended well: results, cache, callbacks.
Collect(b) ==
  /\ main = "collect"
  /\ b \in finished /\ step[b] = "ok"
  /\ collected' = collected \cup {b}
  /\ cached' = cached \cup {<<b, i>> : i \in (1..Size[b]) \ passed[b]}
  /\ reported' = reported \cup {<<b, i>> : i \in passed[b]}
  /\ finished' = finished \ {b}
  /\ main' = IF finished = {b} THEN "check" ELSE "collect"
  /\ UNCHANGED <<stopped, canceled, batchVars, historyVars>>

\* future.result() raises what ended the batch, or a callback raises.
CollectError(b) ==
  /\ main = "collect"
  /\ b \in finished
  /\ Abort
  /\ UNCHANGED <<collected, cached, reported, canceled, line, soft, limited, passed, historyVars>>

\* Every future is collected and the last check passes.
Complete ==
  /\ main = "check"
  /\ ~canceled
  /\ collected = Batch
  /\ main' = "completed"
  /\ UNCHANGED <<finished, collected, cached, reported, stopped, canceled, batchVars, historyVars>>

(***************************************************************************)
(* Specification                                                           *)
(***************************************************************************)
Thread(b) == \/ Start(b) \/ Check(b) \/ Send(b) \/ ThrottleCanceled(b)
             \/ Answered(b) \/ Accept(b) \/ SoftError(b)
             \/ RateLimited(b) \/ RateTooLong(b) \/ FatalError(b) \/ Wake(b)

Main == \/ MainCanceled \/ MainWait \/ Complete
        \/ \E b \in Batch : Collect(b) \/ CollectError(b)

Next == Cancel \/ Main \/ \E b \in Batch : Thread(b)

Spec == Init /\ [][Next]_vars

\* Threads of the pool and the caller are scheduled.  A request is answered or
\* times out (urlopen has a timeout), a sleep or a wait in the throttle is finite
\* (MAX_RATE_LIMIT_WAIT); nothing forces an error, a cancellation or an answer
\* that is accepted.
FairSpec == Spec /\ WF_vars(Main) /\ \A b \in Batch : WF_vars(Thread(b))

(***************************************************************************)
(* Properties                                                              *)
(***************************************************************************)
\* Types of the variables.
TypeOK ==
  /\ main \in {"check", "collect", "completed", "raised"}
  /\ finished \subseteq Batch /\ collected \subseteq Batch
  /\ cached \subseteq UNION {Lines(b) : b \in Batch}
  /\ reported \subseteq UNION {Lines(b) : b \in Batch}
  /\ stopped \in BOOLEAN /\ canceled \in BOOLEAN
  /\ step \in [Batch -> {"queued", "dropped"} \cup InFlight \cup Ended]
  /\ line \in [Batch -> Nat] /\ \A b \in Batch : line[b] <= Size[b]
  /\ soft \in [Batch -> 0..(Retries - 1)]
  /\ limited \in [Batch -> 0..(RateRetries + 1)]
  /\ passed \in [Batch -> SUBSET Nat] /\ \A b \in Batch : passed[b] \subseteq 1..Size[b]
  /\ sent \in [Batch -> Nat] /\ late \in [Batch -> Nat]
  /\ refused \subseteq Batch

\* A call that returns has every line of every batch, either translated and
\* cached or passed through, and it counted exactly the lines it passed through;
\* source text never goes into the cache as a translation.
ResultsComplete ==
  /\ TypeOK
  /\ cached \cap reported = {}
  /\ main = "completed" => /\ cached \cup reported = UNION {Lines(b) : b \in Batch}
                           /\ \A b \in Batch : step[b] = "ok"

\* A fatal error or a rate limit that is not waited out is the batch's last
\* request, is never fanned out to single lines, and is never swallowed: the
\* call does not return a result.
RefusalEndsTheCall ==
  /\ \A b \in refused : step[b] \in {"fatal", "rate"}
  /\ main = "completed" => refused = {}

\* However errors and rate limits alternate, one call_with_retry sends at most
\* Retries + RateRetries requests; and once translate_segments has raised, a
\* thread sends at most the one request it was waiting to send, and only the
\* threads that were running do.
RequestsBounded ==
  /\ \A b \in Batch : sent[b] <= Retries + RateRetries
  /\ \A b \in Batch : late[b] <= 1
  /\ Cardinality({b \in Batch : late[b] > 0}) <= Workers

\* The call ends and so do all of its threads: errors, rate limits and the
\* fallback cannot keep it going for ever.
EverythingEnds ==
  <>[](main \in {"completed", "raised"} /\ \A b \in Batch : step[b] \notin InFlight)
=============================================================================
