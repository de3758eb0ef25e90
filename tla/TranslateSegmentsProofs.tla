---------------------- MODULE TranslateSegmentsProofs ----------------------
(***************************************************************************)
(* A call returns complete results or raises, a refusal ends it, and its   *)
(* requests stay bounded, for every number and size of batches, every pool *)
(* and every budget.                                                       *)
(***************************************************************************)
EXTENDS TranslateSegments, FiniteSetTheorems, TLAPS

-----------------------------------------------------------------------------
(* The inductive invariant *)

\* What was read of a batch is final: its lines are cached or counted, once.
Collected ==
  /\ \A b \in collected : step[b] = "ok"
  /\ \A b \in finished : step[b] \in Ended /\ b \notin collected
  /\ \A b \in Batch, i \in Nat :
       /\ <<b, i>> \in cached <=> b \in collected /\ i \in (1..Size[b]) \ passed[b]
       /\ <<b, i>> \in reported <=> b \in collected /\ i \in passed[b]
  /\ main = "completed" => collected = Batch

\* Requests of the current call_with_retry, against the budgets they were taken from.
Budgeted(b) ==
  /\ step[b] \in InFlight \cup {"queued"} => limited[b] <= RateRetries
  /\ step[b] \in {"queued", "check", "throttle", "sleep", "ok"} => sent[b] <= soft[b] + limited[b]
  /\ step[b] \in {"request", "answered"} => sent[b] <= soft[b] + limited[b] + 1
  /\ sent[b] <= Retries + RateRetries

\* Batches whose thread works, or worked when the call was stopped.
Engaged == {b \in Batch : step[b] \in InFlight \/ late[b] > 0}

\* Once the call is stopped nobody starts, and whoever sent its late request does
\* not come back to the throttle.
Stopping ==
  /\ stopped => \A b \in Batch : step[b] # "queued"
  /\ \A b \in Batch : /\ late[b] > 0 => stopped /\ step[b] # "throttle"
                      /\ late[b] <= 1
  /\ Cardinality(Engaged) <= Workers

Refused == \A b \in refused : step[b] \in {"fatal", "rate"}

IndInv == /\ TypeOK
          /\ Collected
          /\ \A b \in Batch : Budgeted(b)
          /\ Stopping
          /\ Refused

-----------------------------------------------------------------------------
(* Lemmas *)

\* There are finitely many batches, so Engaged can be counted; who leaves it makes
\* room and nobody else's place is taken.
LEMMA EngagedBound ==
  ASSUME IndInv, Engaged' \subseteq Engaged
  PROVE  Cardinality(Engaged') <= Workers
<1>1. IsFiniteSet(Batch)
  BY BatchesAssumption, FS_Interval DEF Batch
<1>2. IsFiniteSet(Engaged) /\ Cardinality(Engaged) <= Workers
  BY <1>1, FS_Subset DEF Engaged, IndInv, Stopping
<1>3. Cardinality(Engaged') <= Cardinality(Engaged) /\ IsFiniteSet(Engaged')
  BY <1>2, FS_Subset
<1>4. Cardinality(Engaged') \in Nat /\ Cardinality(Engaged) \in Nat
  BY <1>2, <1>3, FS_CardinalityType
<1> QED
  BY <1>2, <1>3, <1>4, WorkersAssumption

LEMMA IndInvInit == Init => IndInv
<1> SUFFICES ASSUME Init PROVE IndInv
  OBVIOUS
<1>1. TypeOK
  <2>1. \A b \in Batch : Size[b] \in Nat /\ 0 <= Size[b]
    BY SizeAssumption
  <2>2. 0 \in 0..(Retries - 1) /\ 0 \in 0..(RateRetries + 1)
    BY BudgetAssumption
  <2>3. step \in [Batch -> {"queued", "dropped"} \cup InFlight \cup Ended]
    BY DEF Init
  <2>4. /\ line \in [Batch -> Nat] /\ \A b \in Batch : line[b] <= Size[b]
        /\ soft \in [Batch -> 0..(Retries - 1)]
        /\ limited \in [Batch -> 0..(RateRetries + 1)]
        /\ passed \in [Batch -> SUBSET Nat] /\ \A b \in Batch : passed[b] \subseteq 1..Size[b]
        /\ sent \in [Batch -> Nat] /\ late \in [Batch -> Nat]
    BY <2>1, <2>2 DEF Init
  <2> QED
    BY <2>3, <2>4 DEF Init, TypeOK
<1>2. Collected /\ Refused
  BY DEF Init, Collected, Refused
<1>3. \A b \in Batch : Budgeted(b)
  BY BudgetAssumption DEF Init, Budgeted, InFlight
<1>4. Stopping
  <2>1. Engaged = {}
    BY DEF Init, Engaged, InFlight
  <2> QED
    BY <2>1, FS_EmptySet, WorkersAssumption DEF Init, Stopping
<1> QED
  BY <1>1, <1>2, <1>3, <1>4 DEF IndInv

\* A step of one thread: what it must show of its own batch; everybody else's is as
\* it was.
LEMMA ThreadStep ==
  ASSUME IndInv, TypeOK', UNCHANGED callVars, UNCHANGED stopped,
         NEW b \in Batch, step[b] \in InFlight \cup {"queued"},
         \A c \in Batch \ {b} : /\ step'[c] = step[c] /\ soft'[c] = soft[c]
                                /\ limited'[c] = limited[c] /\ passed'[c] = passed[c]
                                /\ sent'[c] = sent[c] /\ late'[c] = late[c],
         Budgeted(b)', step'[b] # "queued",
         late'[b] > 0 => stopped /\ step'[b] # "throttle", late'[b] <= 1,
         Cardinality(Engaged') <= Workers,
         refused' \subseteq refused \cup {b},
         b \in refused' => step'[b] \in {"fatal", "rate"}
  PROVE  IndInv'
<1>1. UNCHANGED <<main, finished, collected, cached, reported>>
  BY DEF callVars
<1>2. b \notin collected /\ b \notin finished /\ step[b] \notin {"ok", "fatal", "rate"}
  BY DEF IndInv, Collected, InFlight, Ended
<1>3. Collected'
  <2>1. \A c \in collected' : step'[c] = "ok"
    BY <1>1, <1>2 DEF IndInv, TypeOK, Collected
  <2>2. \A c \in finished' : step'[c] \in Ended /\ c \notin collected'
    BY <1>1, <1>2 DEF IndInv, TypeOK, Collected
  <2>3. \A c \in Batch, i \in Nat :
          /\ <<c, i>> \in cached' <=> c \in collected' /\ i \in (1..Size[c]) \ passed'[c]
          /\ <<c, i>> \in reported' <=> c \in collected' /\ i \in passed'[c]
    <3> SUFFICES ASSUME NEW c \in Batch, NEW i \in Nat
                 PROVE  /\ <<c, i>> \in cached' <=> c \in collected' /\ i \in (1..Size[c]) \ passed'[c]
                        /\ <<c, i>> \in reported' <=> c \in collected' /\ i \in passed'[c]
      OBVIOUS
    <3>1. /\ <<c, i>> \in cached <=> c \in collected /\ i \in (1..Size[c]) \ passed[c]
          /\ <<c, i>> \in reported <=> c \in collected /\ i \in passed[c]
      BY DEF IndInv, Collected
    <3> QED
      BY <1>1, <1>2, <3>1
  <2>4. main' = "completed" => collected' = Batch
    BY <1>1 DEF IndInv, Collected
  <2> QED
    BY <2>1, <2>2, <2>3, <2>4 DEF Collected
<1>4. \A c \in Batch : Budgeted(c)'
  <2> SUFFICES ASSUME NEW c \in Batch \ {b} PROVE Budgeted(c)'
    OBVIOUS
  <2> QED
    BY DEF IndInv, Budgeted
<1>5. Stopping'
  BY DEF IndInv, Stopping
<1>6. Refused'
  BY <1>2 DEF IndInv, Refused, TypeOK
<1> QED
  BY <1>3, <1>4, <1>5, <1>6 DEF IndInv

\* The types, batch by batch, in the form the steps need them.
LEMMA Typed ==
  ASSUME IndInv, NEW b \in Batch
  PROVE  /\ step[b] \in {"queued", "dropped"} \cup InFlight \cup Ended
         /\ line[b] \in Nat /\ line[b] <= Size[b] /\ Size[b] \in Nat /\ Size[b] > 0
         /\ soft[b] \in Nat /\ soft[b] <= Retries - 1
         /\ limited[b] \in Nat /\ limited[b] <= RateRetries + 1
         /\ passed[b] \subseteq 1..Size[b]
         /\ sent[b] \in Nat /\ late[b] \in Nat
         /\ Retries \in Nat /\ RateRetries \in Nat /\ Retries > 0
BY SizeAssumption, BudgetAssumption DEF IndInv, TypeOK

\* Steps that only take a batch from one place to another.
LEMMA Move ==
  ASSUME IndInv, NEW b \in Batch, NEW s \in InFlight \cup {"canceled"},
         step[b] \in InFlight, To(b, s),
         UNCHANGED <<callVars, stopped, canceled, line, soft, limited, passed, historyVars>>,
         s \in {"request", "answered"} => step[b] = "request",
         s \in {"check", "throttle", "sleep"} => step[b] \in {"check", "throttle", "sleep"},
         s = "throttle" => ~stopped
  PROVE  IndInv'
<1>1. /\ step' = [step EXCEPT ![b] = s]
      /\ UNCHANGED <<main, finished, collected, cached, reported, stopped, canceled,
                     line, soft, limited, passed, sent, late, refused>>
      /\ UNCHANGED callVars
  BY DEF To, callVars, historyVars
<1>2. TypeOK'
  BY <1>1 DEF IndInv, TypeOK, Ended
<1>3. step'[b] = s /\ \A c \in Batch \ {b} : step'[c] = step[c]
  BY <1>1 DEF IndInv, TypeOK
<1>4. Budgeted(b)'
  BY <1>1, <1>3, Typed DEF IndInv, Budgeted, InFlight, Ended
<1>5. late'[b] > 0 => stopped /\ step'[b] # "throttle"
  BY <1>1, <1>3 DEF IndInv, Stopping
<1>6. late'[b] <= 1
  BY <1>1 DEF IndInv, Stopping
<1>7. Engaged' \subseteq Engaged
  BY <1>1, <1>3 DEF Engaged
<1>8. b \notin refused
  BY DEF IndInv, Refused, InFlight
<1> QED
  BY <1>1, <1>2, <1>3, <1>4, <1>5, <1>6, <1>7, <1>8, EngagedBound, ThreadStep DEF InFlight, Ended

LEMMA StartStep ==
  ASSUME IndInv, NEW b \in Batch, Start(b)
  PROVE  IndInv'
<1>1. /\ step' = [step EXCEPT ![b] = "check"] /\ step[b] = "queued"
      /\ UNCHANGED <<main, finished, collected, cached, reported, stopped, canceled,
                     line, soft, limited, passed, sent, late, refused>>
      /\ UNCHANGED callVars
  BY DEF Start, To, callVars, historyVars
<1>2. TypeOK'
  BY <1>1 DEF IndInv, TypeOK, InFlight
<1>3. step'[b] = "check" /\ \A c \in Batch \ {b} : step'[c] = step[c]
  BY <1>1 DEF IndInv, TypeOK
<1>4. ~stopped /\ \A c \in Batch : late[c] = 0
  BY <1>1, Typed DEF IndInv, Stopping
<1>5. Budgeted(b)'
  BY <1>1, <1>3, Typed DEF IndInv, Budgeted, InFlight
<1>6. Cardinality(Engaged') <= Workers
  <2> DEFINE working == {c \in Batch : step[c] \in InFlight}
  <2>1. Engaged' = working \cup {b}
    BY <1>1, <1>3, <1>4 DEF Engaged, InFlight
  <2>2. IsFiniteSet(working) /\ Cardinality(working) \in Nat
    <3>1. IsFiniteSet(Batch)
      BY BatchesAssumption, FS_Interval DEF Batch
    <3> QED
      BY <3>1, FS_Subset, FS_CardinalityType
  <2>3. Cardinality(working) < Workers
    BY DEF Start
  <2>4. b \notin working
    BY <1>1 DEF InFlight
  <2>5. Cardinality(working \cup {b}) = Cardinality(working) + 1
    BY <2>2, <2>4, FS_AddElement
  <2> QED
    BY <2>1, <2>2, <2>3, <2>5, WorkersAssumption
<1>7. b \notin refused
  BY <1>1 DEF IndInv, Refused
<1> QED
  BY <1>1, <1>2, <1>3, <1>4, <1>5, <1>6, <1>7, ThreadStep

LEMMA SendStep ==
  ASSUME IndInv, NEW b \in Batch, Send(b)
  PROVE  IndInv'
<1>1. /\ step' = [step EXCEPT ![b] = "request"] /\ step[b] = "throttle"
      /\ sent' = [sent EXCEPT ![b] = @ + 1]
      /\ late' = [late EXCEPT ![b] = IF stopped THEN @ + 1 ELSE @]
      /\ UNCHANGED <<main, finished, collected, cached, reported, stopped, canceled,
                     line, soft, limited, passed, refused>>
      /\ UNCHANGED callVars
  BY DEF Send, To, callVars
<1>2. TypeOK'
  BY <1>1 DEF IndInv, TypeOK, InFlight
<1>3. /\ step'[b] = "request" /\ sent'[b] = sent[b] + 1
      /\ late'[b] = IF stopped THEN late[b] + 1 ELSE late[b]
      /\ \A c \in Batch \ {b} : step'[c] = step[c] /\ sent'[c] = sent[c] /\ late'[c] = late[c]
  BY <1>1 DEF IndInv, TypeOK
<1>4. Budgeted(b)'
  BY <1>1, <1>3, Typed DEF IndInv, Budgeted, InFlight
<1>5. late[b] = 0
  BY <1>1, Typed DEF IndInv, Stopping
<1>6. Engaged' \subseteq Engaged
  BY <1>1, <1>3 DEF Engaged, InFlight
<1>7. b \notin refused
  BY <1>1 DEF IndInv, Refused
<1> QED
  BY <1>1, <1>2, <1>3, <1>4, <1>5, <1>6, <1>7, EngagedBound, ThreadStep DEF InFlight

\* The next line or the end of run(), as seen by the batch.
LEMMA AdvanceFacts ==
  ASSUME IndInv, NEW b \in Batch, Advance(b)
  PROVE  /\ step' \in [Batch -> {"queued", "dropped"} \cup InFlight \cup Ended]
         /\ line' \in [Batch -> Nat] /\ \A c \in Batch : line'[c] <= Size[c]
         /\ soft' \in [Batch -> 0..(Retries - 1)]
         /\ limited' \in [Batch -> 0..(RateRetries + 1)]
         /\ sent' \in [Batch -> Nat]
         /\ step'[b] \in {"check", "ok"} /\ soft'[b] = 0 /\ limited'[b] = 0 /\ sent'[b] = 0
         /\ \A c \in Batch \ {b} : /\ step'[c] = step[c] /\ soft'[c] = soft[c]
                                    /\ limited'[c] = limited[c] /\ sent'[c] = sent[c]
<1> DEFINE more == line[b] > 0 /\ line[b] < Size[b]
<1>1. /\ step' = [step EXCEPT ![b] = IF more THEN "check" ELSE "ok"]
      /\ line' = [line EXCEPT ![b] = IF more THEN @ + 1 ELSE @]
      /\ soft' = [soft EXCEPT ![b] = 0]
      /\ limited' = [limited EXCEPT ![b] = 0]
      /\ sent' = [sent EXCEPT ![b] = 0]
  BY DEF Advance, To
<1>2. 0 \in 0..(Retries - 1) /\ 0 \in 0..(RateRetries + 1)
  BY BudgetAssumption
<1>3. line' \in [Batch -> Nat] /\ \A c \in Batch : line'[c] <= Size[c]
  <2>1. \A c \in Batch : line[c] \in Nat /\ line[c] <= Size[c] /\ Size[c] \in Nat
    BY Typed
  <2>2. \A c \in Batch : line'[c] = IF c = b /\ more THEN line[b] + 1 ELSE line[c]
    BY <1>1 DEF IndInv, TypeOK
  <2>3. line' \in [Batch -> Nat]
    BY <1>1 DEF IndInv, TypeOK
  <2> QED
    BY <2>1, <2>2, <2>3
<1>4. /\ step' \in [Batch -> {"queued", "dropped"} \cup InFlight \cup Ended]
      /\ step'[b] \in {"check", "ok"} /\ \A c \in Batch \ {b} : step'[c] = step[c]
  BY <1>1 DEF IndInv, TypeOK, InFlight, Ended
<1>5. /\ soft' \in [Batch -> 0..(Retries - 1)] /\ limited' \in [Batch -> 0..(RateRetries + 1)]
      /\ soft'[b] = 0 /\ limited'[b] = 0
      /\ \A c \in Batch \ {b} : soft'[c] = soft[c] /\ limited'[c] = limited[c]
  BY <1>1, <1>2 DEF IndInv, TypeOK
<1>6. sent' \in [Batch -> Nat] /\ sent'[b] = 0 /\ \A c \in Batch \ {b} : sent'[c] = sent[c]
  BY <1>1 DEF IndInv, TypeOK
<1> QED
  BY <1>3, <1>4, <1>5, <1>6

\* A batch that was answered or failed goes on with fresh budgets, wherever it goes.
LEMMA FreshBudgets ==
  ASSUME IndInv, TypeOK', UNCHANGED <<callVars, stopped, late, refused>>,
         NEW b \in Batch, step[b] \in {"request", "answered"}, step'[b] \in {"check", "ok"},
         soft'[b] = 0, limited'[b] = 0, sent'[b] = 0,
         \A c \in Batch \ {b} : /\ step'[c] = step[c] /\ soft'[c] = soft[c]
                                /\ limited'[c] = limited[c] /\ passed'[c] = passed[c]
                                /\ sent'[c] = sent[c]
  PROVE  IndInv'
<1>1. Budgeted(b)'
  BY BudgetAssumption DEF Budgeted
<1>2. Engaged' \subseteq Engaged
  BY DEF Engaged, InFlight
<1>3. b \notin refused
  BY DEF IndInv, Refused
<1>4. /\ late'[b] > 0 => stopped /\ step'[b] # "throttle"
      /\ late'[b] <= 1
  BY DEF IndInv, Stopping
<1> QED
  BY <1>1, <1>2, <1>3, <1>4, EngagedBound, ThreadStep DEF InFlight

LEMMA AcceptStep ==
  ASSUME IndInv, NEW b \in Batch, Accept(b)
  PROVE  IndInv'
<1>1. step[b] = "answered" /\ UNCHANGED <<callVars, stopped, canceled, passed, late, refused>>
  BY DEF Accept
<1>2. CASE MustStop
  <2>1. To(b, "canceled") /\ UNCHANGED <<line, soft, limited, sent>>
    BY <1>2 DEF Accept
  <2> QED
    BY <1>1, <2>1, Move DEF InFlight, historyVars
<1>3. CASE ~MustStop
  <2>1. Advance(b)
    BY <1>3 DEF Accept
  <2>2. TypeOK'
    BY <1>1, <2>1, AdvanceFacts DEF IndInv, TypeOK, callVars
  <2>3. \A c \in Batch : passed'[c] = passed[c]
    BY <1>1
  <2> QED
    BY <1>1, <2>1, <2>2, <2>3, AdvanceFacts, FreshBudgets
<1> QED
  BY <1>2, <1>3

LEMMA GiveUpStep ==
  ASSUME IndInv, NEW b \in Batch, GiveUp(b), step[b] \in {"request", "answered"},
         UNCHANGED <<callVars, stopped, canceled, late, refused>>
  PROVE  IndInv'
<1>1. CASE line[b] = 0 /\ Size[b] > 1
  <2>1. /\ step' = [step EXCEPT ![b] = "check"]
        /\ line' = [line EXCEPT ![b] = 1]
        /\ soft' = [soft EXCEPT ![b] = 0]
        /\ limited' = [limited EXCEPT ![b] = 0]
        /\ sent' = [sent EXCEPT ![b] = 0]
        /\ passed' = passed
    BY <1>1 DEF GiveUp, To
  <2>2. 0 \in 0..(Retries - 1) /\ 0 \in 0..(RateRetries + 1)
    BY BudgetAssumption
  <2>3. /\ line' \in [Batch -> Nat] /\ \A c \in Batch : line'[c] <= Size[c]
        /\ soft' \in [Batch -> 0..(Retries - 1)]
        /\ limited' \in [Batch -> 0..(RateRetries + 1)]
    <3>1. \A c \in Batch : line'[c] = IF c = b THEN 1 ELSE line[c]
      BY <2>1 DEF IndInv, TypeOK
    <3>2. 1 <= Size[b] /\ \A c \in Batch : line[c] <= Size[c]
      BY Typed
    <3> QED
      BY <2>1, <2>2, <3>1, <3>2 DEF IndInv, TypeOK
  <2>4. TypeOK'
    BY <2>1, <2>3 DEF IndInv, TypeOK, InFlight, callVars
  <2> QED
    BY <2>1, <2>4, FreshBudgets DEF IndInv, TypeOK
<1>2. CASE ~(line[b] = 0 /\ Size[b] > 1)
  <2> DEFINE i == IF line[b] = 0 THEN 1 ELSE line[b]
  <2>1. passed' = [passed EXCEPT ![b] = @ \cup {i}] /\ Advance(b)
    BY <1>2 DEF GiveUp
  <2>2. i \in 1..Size[b]
    BY Typed
  <2>3. /\ passed' \in [Batch -> SUBSET Nat]
        /\ \A c \in Batch : passed'[c] \subseteq 1..Size[c]
        /\ \A c \in Batch \ {b} : passed'[c] = passed[c]
    BY <2>1, <2>2 DEF IndInv, TypeOK
  <2>4. TypeOK'
    BY <2>1, <2>3, AdvanceFacts DEF IndInv, TypeOK, callVars
  <2> QED
    BY <2>1, <2>3, <2>4, AdvanceFacts, FreshBudgets
<1> QED
  BY <1>1, <1>2

LEMMA SoftErrorStep ==
  ASSUME IndInv, NEW b \in Batch, SoftError(b)
  PROVE  IndInv'
<1>1. step[b] \in {"request", "answered"} /\ UNCHANGED <<callVars, stopped, canceled, late, refused>>
  BY DEF SoftError
<1>2. CASE soft[b] + 1 >= Retries
  BY <1>1, <1>2, GiveUpStep DEF SoftError
<1>3. CASE ~(soft[b] + 1 >= Retries)
  <2>1. /\ soft' = [soft EXCEPT ![b] = @ + 1]
        /\ step' = [step EXCEPT ![b] = "sleep"]
        /\ UNCHANGED <<line, limited, passed, sent>>
    BY <1>3 DEF SoftError, To
  <2>2. soft[b] + 1 \in 0..(Retries - 1)
    BY <1>3, Typed
  <2>3. /\ soft' \in [Batch -> 0..(Retries - 1)]
        /\ step' \in [Batch -> {"queued", "dropped"} \cup InFlight \cup Ended]
    BY <2>1, <2>2 DEF IndInv, TypeOK, InFlight
  <2>4. TypeOK'
    BY <1>1, <2>1, <2>3 DEF IndInv, TypeOK, callVars
  <2>5. /\ step'[b] = "sleep" /\ soft'[b] = soft[b] + 1
        /\ \A c \in Batch \ {b} : step'[c] = step[c] /\ soft'[c] = soft[c]
    BY <2>1 DEF IndInv, TypeOK
  <2>6. Budgeted(b)'
    BY <1>1, <2>1, <2>5, Typed DEF IndInv, Budgeted, InFlight
  <2>7. Engaged' \subseteq Engaged
    BY <1>1, <2>1, <2>5 DEF Engaged, InFlight
  <2>8. b \notin refused
    BY <1>1 DEF IndInv, Refused
  <2>9. /\ late'[b] > 0 => stopped /\ step'[b] # "throttle"
        /\ late'[b] <= 1
    BY <1>1, <2>5 DEF IndInv, Stopping
  <2> QED
    BY <1>1, <2>1, <2>4, <2>5, <2>6, <2>7, <2>8, <2>9, EngagedBound, ThreadStep DEF InFlight
<1> QED
  BY <1>2, <1>3

\* A rate limit that is waited out, one that is not, and a fatal error.
LEMMA RefusalStep ==
  ASSUME IndInv, NEW b \in Batch, RateLimited(b) \/ RateTooLong(b) \/ FatalError(b)
  PROVE  IndInv'
<1>1. step[b] = "request" /\ UNCHANGED <<callVars, stopped, canceled, line, soft, passed, sent, late>>
  BY DEF RateLimited, RateTooLong, FatalError
<1>2. limited[b] + 1 \in 0..(RateRetries + 1)
  BY <1>1, Typed DEF IndInv, Budgeted, InFlight
<1>3. /\ \E s \in {"sleep", "rate", "fatal"} : step' = [step EXCEPT ![b] = s]
      /\ limited' \in {limited, [limited EXCEPT ![b] = @ + 1]}
      /\ refused' \in {refused, refused \cup {b}}
      /\ refused' # refused => step' \in {[step EXCEPT ![b] = "rate"], [step EXCEPT ![b] = "fatal"]}
      /\ step' = [step EXCEPT ![b] = "sleep"] =>
            limited' = [limited EXCEPT ![b] = @ + 1] /\ ~(limited[b] + 1 > RateRetries)
  <2>1. [step EXCEPT ![b] = "sleep"] # [step EXCEPT ![b] = "rate"]
        /\ [step EXCEPT ![b] = "sleep"] # [step EXCEPT ![b] = "fatal"]
    BY DEF IndInv, TypeOK
  <2> QED
    BY <2>1 DEF RateLimited, RateTooLong, FatalError, To
<1>4. /\ step'[b] \in {"sleep", "rate", "fatal"} /\ \A c \in Batch \ {b} : step'[c] = step[c]
      /\ limited'[b] \in {limited[b], limited[b] + 1}
      /\ \A c \in Batch \ {b} : limited'[c] = limited[c]
      /\ step'[b] = "sleep" => limited'[b] = limited[b] + 1 /\ limited[b] + 1 <= RateRetries
  <2>1. step'[b] = "sleep" => step' = [step EXCEPT ![b] = "sleep"]
    BY <1>3 DEF IndInv, TypeOK
  <2> QED
    BY <1>3, <2>1, Typed DEF IndInv, TypeOK
<1>5. b \notin refused
  BY <1>1 DEF IndInv, Refused
<1>6. b \in refused' => step'[b] \in {"fatal", "rate"}
  BY <1>3, <1>5 DEF IndInv, TypeOK
<1>7. TypeOK'
  BY <1>1, <1>2, <1>3 DEF IndInv, TypeOK, InFlight, Ended, callVars
<1>8. Budgeted(b)'
  BY <1>1, <1>4, Typed DEF IndInv, Budgeted, InFlight
<1>9. Engaged' \subseteq Engaged
  BY <1>1, <1>4 DEF Engaged, InFlight
<1>10. /\ late'[b] > 0 => stopped /\ step'[b] # "throttle"
       /\ late'[b] <= 1
  BY <1>1, <1>4 DEF IndInv, Stopping
<1>11. refused' \subseteq refused \cup {b}
  BY <1>3
<1> QED
  BY <1>1, <1>4, <1>6, <1>7, <1>8, <1>9, <1>10, <1>11, EngagedBound, ThreadStep DEF InFlight

LEMMA ThreadSteps ==
  ASSUME IndInv, NEW b \in Batch, Thread(b)
  PROVE  IndInv'
<1>1. CASE Start(b)
  BY <1>1, StartStep
<1>2. CASE Check(b)
  <2>1. CASE MustStop
    BY <1>2, <2>1, Move DEF Check, InFlight, historyVars
  <2>2. CASE ~MustStop
    BY <1>2, <2>2, Move DEF Check, InFlight, MustStop, historyVars
  <2> QED
    BY <2>1, <2>2
<1>3. CASE Send(b)
  BY <1>3, SendStep
<1>4. CASE ThrottleCanceled(b)
  BY <1>4, Move DEF ThrottleCanceled, InFlight, historyVars
<1>5. CASE Answered(b)
  BY <1>5, Move DEF Answered, InFlight, historyVars
<1>6. CASE Accept(b)
  BY <1>6, AcceptStep
<1>7. CASE SoftError(b)
  BY <1>7, SoftErrorStep
<1>8. CASE RateLimited(b) \/ RateTooLong(b) \/ FatalError(b)
  BY <1>8, RefusalStep
<1>9. CASE Wake(b)
  <2>1. CASE MustStop
    BY <1>9, <2>1, Move DEF Wake, InFlight, historyVars
  <2>2. CASE ~MustStop
    BY <1>9, <2>2, Move DEF Wake, InFlight, historyVars
  <2> QED
    BY <2>1, <2>2
<1> QED
  BY <1>1, <1>2, <1>3, <1>4, <1>5, <1>6, <1>7, <1>8, <1>9 DEF Thread

\* The caller stops the call: what nobody started is dropped.
LEMMA AbortStep ==
  ASSUME IndInv, Abort,
         UNCHANGED <<collected, cached, reported, canceled, line, soft, limited, passed, historyVars>>
  PROVE  IndInv'
<1>1. /\ main' = "raised" /\ stopped' = TRUE /\ finished' = {}
      /\ step' = [b \in Batch |-> IF step[b] = "queued" THEN "dropped" ELSE step[b]]
      /\ UNCHANGED <<collected, cached, reported, canceled, line, soft, limited, passed, sent, late, refused>>
  BY DEF Abort, historyVars
<1>2. step' \in [Batch -> {"queued", "dropped"} \cup InFlight \cup Ended]
  BY <1>1, Typed
<1>3. TypeOK'
  BY <1>1, <1>2 DEF IndInv, TypeOK
<1>4. Collected' /\ Refused'
  BY <1>1 DEF IndInv, TypeOK, Collected, Refused
<1>5. \A b \in Batch : Budgeted(b)'
  BY <1>1 DEF IndInv, Budgeted, InFlight
<1>6. Engaged' \subseteq Engaged
  BY <1>1 DEF Engaged, InFlight
<1>7. Stopping'
  BY <1>1, <1>6, EngagedBound DEF IndInv, Stopping
<1> QED
  BY <1>3, <1>4, <1>5, <1>7 DEF IndInv

\* The caller's other steps leave the batches alone.
LEMMA CallerStep ==
  ASSUME IndInv, TypeOK', Collected', UNCHANGED <<stopped, batchVars, historyVars>>
  PROVE  IndInv'
<1>1. UNCHANGED <<step, line, soft, limited, passed, sent, late, refused, stopped>>
  BY DEF batchVars, historyVars
<1>2. \A b \in Batch : Budgeted(b)'
  BY <1>1 DEF IndInv, Budgeted
<1>3. Stopping' /\ Refused'
  BY <1>1 DEF IndInv, Stopping, Engaged, Refused
<1> QED
  BY <1>2, <1>3 DEF IndInv

LEMMA CollectStep ==
  ASSUME IndInv, NEW b \in Batch, Collect(b)
  PROVE  IndInv'
<1> DEFINE new == {<<b, i>> : i \in (1..Size[b]) \ passed[b]}
           old == {<<b, i>> : i \in passed[b]}
<1>1. /\ main = "collect" /\ b \in finished /\ step[b] = "ok"
      /\ collected' = collected \cup {b}
      /\ cached' = cached \cup new /\ reported' = reported \cup old
      /\ finished' = finished \ {b} /\ main' \in {"check", "collect"}
      /\ UNCHANGED <<stopped, canceled, batchVars, historyVars>>
      /\ UNCHANGED <<step, line, soft, limited, passed, sent, late, refused>>
  BY DEF Collect, batchVars, historyVars
<1>2. passed[b] \subseteq 1..Size[b]
  BY Typed
<1>3. new \subseteq Lines(b) /\ old \subseteq Lines(b)
  BY <1>2 DEF Lines
<1>4. TypeOK'
  BY <1>1, <1>3 DEF IndInv, TypeOK
<1>5. \A c \in Batch, i \in Nat :
         /\ <<c, i>> \in new <=> c = b /\ i \in (1..Size[b]) \ passed[b]
         /\ <<c, i>> \in old <=> c = b /\ i \in passed[b]
  OBVIOUS
<1>6. Collected'
  <2>1. \A c \in Batch, i \in Nat :
          /\ <<c, i>> \in cached' <=> c \in collected' /\ i \in (1..Size[c]) \ passed[c]
          /\ <<c, i>> \in reported' <=> c \in collected' /\ i \in passed[c]
    <3> SUFFICES ASSUME NEW c \in Batch, NEW i \in Nat
                 PROVE  /\ <<c, i>> \in cached' <=> c \in collected' /\ i \in (1..Size[c]) \ passed[c]
                        /\ <<c, i>> \in reported' <=> c \in collected' /\ i \in passed[c]
      OBVIOUS
    <3>1. /\ <<c, i>> \in cached <=> c \in collected /\ i \in (1..Size[c]) \ passed[c]
          /\ <<c, i>> \in reported <=> c \in collected /\ i \in passed[c]
      BY DEF IndInv, Collected
    <3>2. /\ <<c, i>> \in cached' <=> <<c, i>> \in cached \/ <<c, i>> \in new
          /\ <<c, i>> \in reported' <=> <<c, i>> \in reported \/ <<c, i>> \in old
          /\ c \in collected' <=> c \in collected \/ c = b
      BY <1>1
    <3> QED
      BY <1>5, <3>1, <3>2
  <2>2. \A c \in collected' : step'[c] = "ok"
    BY <1>1 DEF IndInv, Collected
  <2>3. \A c \in finished' : step'[c] \in Ended /\ c \notin collected'
    BY <1>1 DEF IndInv, Collected
  <2> QED
    BY <1>1, <2>1, <2>2, <2>3 DEF Collected
<1> QED
  BY <1>1, <1>4, <1>6, CallerStep

LEMMA MainSteps ==
  ASSUME IndInv, Main
  PROVE  IndInv'
<1>1. CASE MainCanceled
  BY <1>1, AbortStep DEF MainCanceled
<1>2. CASE MainWait
  <2>1. /\ finished' = {b \in Batch \ collected : step[b] \in Ended} /\ main' = "collect"
        /\ UNCHANGED <<collected, cached, reported, stopped, canceled, step, line, soft,
                       limited, passed, sent, late, refused>>
    BY <1>2 DEF MainWait, batchVars, historyVars
  <2>2. TypeOK'
    BY <2>1 DEF IndInv, TypeOK
  <2>3. Collected'
    BY <2>1 DEF IndInv, Collected
  <2> QED
    BY <1>2, <2>2, <2>3, CallerStep DEF MainWait
<1>3. CASE Complete
  <2>1. TypeOK' /\ Collected'
    BY <1>3 DEF Complete, IndInv, TypeOK, Collected, batchVars, historyVars
  <2> QED
    BY <1>3, <2>1, CallerStep DEF Complete
<1>4. ASSUME NEW b \in Batch, Collect(b)
      PROVE  IndInv'
  BY <1>4, CollectStep
<1>5. ASSUME NEW b \in Batch, CollectError(b)
      PROVE  IndInv'
  BY <1>5, AbortStep DEF CollectError
<1> QED
  BY <1>1, <1>2, <1>3, <1>4, <1>5 DEF Main

-----------------------------------------------------------------------------
(* Theorems *)

\* The bookkeeping of a call holds in every state: what was read of a batch is
\* final, requests are within the budgets they were taken from, a stopped call
\* starts nothing, and a refusal is where its batch ends.
THEOREM Invariance == Spec => []IndInv
<1>1. IndInv /\ [Next]_vars => IndInv'
  <2> SUFFICES ASSUME IndInv, [Next]_vars PROVE IndInv'
    OBVIOUS
  <2>1. CASE Cancel
    <3>1. TypeOK' /\ Collected'
      BY <2>1 DEF Cancel, IndInv, TypeOK, Collected, callVars, batchVars, historyVars
    <3> QED
      BY <2>1, <3>1, CallerStep DEF Cancel
  <2>2. CASE Main
    BY <2>2, MainSteps
  <2>3. ASSUME NEW b \in Batch, Thread(b)
        PROVE  IndInv'
    BY <2>3, ThreadSteps
  <2>4. CASE UNCHANGED vars
    <3>1. TypeOK' /\ Collected'
      BY <2>4 DEF vars, IndInv, TypeOK, Collected, callVars, batchVars, historyVars
    <3> QED
      BY <2>4, <3>1, CallerStep DEF vars
  <2> QED
    BY <2>1, <2>2, <2>3, <2>4 DEF Next
<1> QED
  BY <1>1, IndInvInit, PTL DEF Spec

\* A call that returns has every line of every batch, translated and cached or
\* passed through and counted, and no line is both.
THEOREM ResultsAreComplete == Spec => []ResultsComplete
<1>1. IndInv => ResultsComplete
  <2> SUFFICES ASSUME IndInv PROVE ResultsComplete
    OBVIOUS
  <2>1. \A p \in UNION {Lines(b) : b \in Batch} :
           \E b \in Batch, i \in Nat : p = <<b, i>> /\ i \in 1..Size[b]
    BY SizeAssumption DEF Lines
  <2>2. \A b \in Batch : \A i \in 1..Size[b] : <<b, i>> \in UNION {Lines(c) : c \in Batch}
    BY DEF Lines
  <2>3. cached \subseteq UNION {Lines(b) : b \in Batch} /\ reported \subseteq UNION {Lines(b) : b \in Batch}
    BY DEF IndInv, TypeOK
  <2>4. cached \cap reported = {}
    BY <2>1, <2>3 DEF IndInv, Collected
  <2>5. ASSUME main = "completed"
        PROVE  /\ cached \cup reported = UNION {Lines(b) : b \in Batch}
               /\ \A b \in Batch : step[b] = "ok"
    <3>1. collected = Batch
      BY <2>5 DEF IndInv, Collected
    <3>2. \A p \in UNION {Lines(b) : b \in Batch} : p \in cached \cup reported
      BY <2>1, <3>1 DEF IndInv, Collected
    <3> QED
      BY <2>3, <3>1, <3>2 DEF IndInv, Collected
  <2> QED
    BY <2>4, <2>5 DEF ResultsComplete, IndInv
<1> QED
  BY <1>1, Invariance, PTL

\* A refusal is never fanned out and never swallowed by a call that returns.
THEOREM RefusalsEndCalls == Spec => []RefusalEndsTheCall
<1>1. IndInv => RefusalEndsTheCall
  BY DEF IndInv, TypeOK, Refused, Collected, RefusalEndsTheCall
<1> QED
  BY <1>1, Invariance, PTL

\* Errors and rate limits in any order take one call_with_retry no further than
\* both budgets, and a call that was stopped sends at most a request per thread.
THEOREM RequestsAreBounded == Spec => []RequestsBounded
<1>1. IndInv => RequestsBounded
  <2> SUFFICES ASSUME IndInv PROVE RequestsBounded
    OBVIOUS
  <2> DEFINE tardy == {b \in Batch : late[b] > 0}
  <2>1. IsFiniteSet(Batch)
    BY BatchesAssumption, FS_Interval DEF Batch
  <2>2. IsFiniteSet(Engaged) /\ tardy \subseteq Engaged
    BY <2>1, FS_Subset DEF Engaged
  <2>3. Cardinality(tardy) <= Cardinality(Engaged) /\ IsFiniteSet(tardy)
    BY <2>2, FS_Subset
  <2>4. Cardinality(tardy) \in Nat /\ Cardinality(Engaged) \in Nat
    BY <2>2, <2>3, FS_CardinalityType
  <2>5. Cardinality(tardy) <= Workers
    BY <2>3, <2>4, WorkersAssumption DEF IndInv, Stopping
  <2> QED
    BY <2>5 DEF IndInv, Budgeted, Stopping, RequestsBounded
<1> QED
  BY <1>1, Invariance, PTL
=============================================================================
