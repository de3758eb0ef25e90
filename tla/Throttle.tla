------------------------------ MODULE Throttle ------------------------------
(***************************************************************************)
(* The pacing gate shared by the threads of one job: requests are never    *)
(* closer than the configured rate allows, and when one thread is told to  *)
(* back off nobody sends before the pause is over.                         *)
(*                                                                         *)
(* Time is a natural number.  A sleep of wait() ends at any later time and *)
(* the loop then looks again; cancel_callback, which it looks at first,    *)
(* may change between that look and the rest of the round.                 *)
(***************************************************************************)
EXTENDS Integers, Sequences

CONSTANTS Thread,     \* threads that translate batches
          Interval,   \* 60 / rpm, or 0 without pacing
          Delay,      \* pauses a provider may ask for
          MaxClock,   \* bound on the clock
          MaxSends    \* bound on the requests of one behaviour

ASSUME IntervalAssumption == Interval \in Nat
ASSUME DelayAssumption    == Delay \subseteq Nat
ASSUME ClockAssumption    == MaxClock \in Nat /\ MaxSends \in Nat

VARIABLES
  monotonic,     \* time.monotonic()
  blockedUntil,  \* _blocked_until
  nextSlot,      \* _next_slot
  canceled,      \* the cancel callback answers True
  waiting,       \* threads inside wait()
  sends,         \* history: when wait() let a request through
  pauses         \* history: the pauses asked for, as [from, until]

throttleVars == <<monotonic, blockedUntil, nextSlot, canceled, waiting, sends, pauses>>

ThrottleInit ==
  /\ monotonic \in 0..MaxClock
  /\ blockedUntil = 0 /\ nextSlot = 0
  /\ canceled = FALSE
  /\ waiting = {}
  /\ sends = <<>> /\ pauses = {}

ThrottleTick ==
  /\ monotonic < MaxClock
  /\ monotonic' = monotonic + 1
  /\ UNCHANGED <<blockedUntil, nextSlot, canceled, waiting, sends, pauses>>

Cancel == /\ canceled' = TRUE
          /\ UNCHANGED <<monotonic, blockedUntil, nextSlot, waiting, sends, pauses>>

Later(a, b) == IF a >= b THEN a ELSE b

Enter(t) == /\ t \notin waiting
            /\ waiting' = waiting \cup {t}
            /\ UNCHANGED <<monotonic, blockedUntil, nextSlot, canceled, sends, pauses>>

\* Mutant of Pass: the slots of an idle time are saved up for a burst.
PassSavingUp(t) ==
  /\ t \in waiting
  /\ Len(sends) < MaxSends
  /\ monotonic >= Later(blockedUntil, nextSlot)
  /\ nextSlot' = nextSlot + Interval
  /\ waiting' = waiting \ {t}
  /\ sends' = Append(sends, monotonic)
  /\ UNCHANGED <<monotonic, blockedUntil, canceled, pauses>>

\* One round of the loop finds that the time has come.
Pass(t) == /\ t \in waiting
           /\ Len(sends) < MaxSends
           /\ monotonic >= Later(blockedUntil, nextSlot)
           /\ nextSlot' = Later(monotonic, nextSlot) + Interval
           /\ waiting' = waiting \ {t}
           /\ sends' = Append(sends, monotonic)
           /\ UNCHANGED <<monotonic, blockedUntil, canceled, pauses>>

\* One round finds that the job is canceled: TranslationCanceled.
GiveUp(t) == /\ t \in waiting
             /\ canceled
             /\ waiting' = waiting \ {t}
             /\ UNCHANGED <<monotonic, blockedUntil, nextSlot, canceled, sends, pauses>>

\* Mutant of Penalise: the last pause counts, not the longest.
PenaliseAnew(t, d) ==
  /\ t \notin waiting
  /\ blockedUntil' = monotonic + d
  /\ pauses' = pauses \cup {[from |-> monotonic, until |-> monotonic + d]}
  /\ UNCHANGED <<monotonic, nextSlot, canceled, waiting, sends>>

\* penalise(): a shorter pause never ends a longer one.
Penalise(t, d) == /\ t \notin waiting
                  /\ blockedUntil' = Later(blockedUntil, monotonic + d)
                  /\ pauses' = pauses \cup {[from |-> monotonic, until |-> monotonic + d]}
                  /\ UNCHANGED <<monotonic, nextSlot, canceled, waiting, sends>>

ThrottleNext ==
  \/ ThrottleTick \/ Cancel
  \/ \E t \in Thread : \/ Enter(t) \/ Pass(t) \/ GiveUp(t)
                       \/ \E d \in Delay : Penalise(t, d)

ThrottleSpec == ThrottleInit /\ [][ThrottleNext]_throttleVars

(***************************************************************************)
(* Properties                                                              *)
(***************************************************************************)
\* Types of the variables.
ThrottleTypeOK ==
  /\ monotonic \in 0..MaxClock
  /\ blockedUntil \in Nat /\ nextSlot \in Nat
  /\ canceled \in BOOLEAN
  /\ waiting \subseteq Thread
  /\ sends \in Seq(0..MaxClock)
  /\ pauses \subseteq [from : Nat, until : Nat]

\* The rate is kept over every stretch of requests, long or short, after an idle
\* time too: n requests further on at least n intervals have passed.
Paced == \A i, k \in 1..Len(sends) :
           i <= k => sends[i] + Interval * (k - i) <= sends[k]

\* While any pause lasts no thread sends, whichever thread was told to pause and
\* whatever shorter pauses were asked for meanwhile.
PausesKept == \A p \in pauses, i \in 1..Len(sends) :
                ~(p.from < sends[i] /\ sends[i] < p.until)

\* What makes both inductive: the next slot lies beyond every earlier send by its
\* share of intervals, the gate is closed as long as any pause, and neither sends
\* nor pauses begin in the future.
Gate == /\ \A i \in 1..Len(sends) :
             /\ sends[i] <= monotonic
             /\ sends[i] + Interval * (Len(sends) + 1 - i) <= nextSlot
        /\ \A p \in pauses : p.from <= monotonic /\ p.until <= blockedUntil

\* The inductive invariant of wait() and penalise() taken together.
IndInv == ThrottleTypeOK /\ Gate /\ Paced /\ PausesKept
=============================================================================
