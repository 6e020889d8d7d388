------------------------------- MODULE Retry -------------------------------
(***************************************************************************)
(* retry_until_success: what one call of a wrapped function remembers from *)
(* attempt to attempt, and what it decides from it.  A call is a record of *)
(* the wrapper's local variables; first_fail_ts and first_poison_ts are    *)
(* the ages since and poisonFor, which stop counting at the limit they are *)
(* compared with, as the two counters do.  notified and stalled are set    *)
(* together and are one field.  The sleep between attempts is any lapse of *)
(* time.  Which hooks a call has is for the module that uses this one to   *)
(* say.                                                                    *)
(***************************************************************************)
EXTENDS Naturals

CONSTANTS
  StallThreshold,   \* STALL_THRESHOLD
  PoisonAttempts,   \* POISON_MAX_ATTEMPTS
  PoisonSeconds,    \* POISON_MIN_SECONDS, in ticks
  SustainedSeconds  \* DB_UNREACHABLE_THRESHOLD_SECONDS, in ticks

ASSUME RetryAssumption ==
  {StallThreshold, PoisonAttempts, PoisonSeconds, SustainedSeconds} \subseteq Nat \ {0}

Call == [attempts : 0..StallThreshold, since : 0..SustainedSeconds,
         poisons : 0..PoisonAttempts, poisonFor : 0..PoisonSeconds,
         stalled : BOOLEAN, sustained : BOOLEAN, vetoed : BOOLEAN]

Fresh == [attempts |-> 0, since |-> 0, poisons |-> 0, poisonFor |-> 0,
          stalled |-> FALSE, sustained |-> FALSE, vetoed |-> FALSE]

UpTo(n, limit) == IF n < limit THEN n + 1 ELSE limit

\* A tick passes.
Aged(c) ==
  [c EXCEPT !.since = IF c.attempts > 0 THEN UpTo(@, SustainedSeconds) ELSE @,
            !.poisonFor = IF c.poisons > 0 THEN UpTo(@, PoisonSeconds) ELSE @]

\* A mutation of Failed: a transient failure leaves the poison count alone.
Failed_NoReset(c, permanent) ==
  [c EXCEPT !.attempts = UpTo(@, StallThreshold),
            !.poisons = IF permanent THEN UpTo(@, PoisonAttempts) ELSE @]

\* An attempt raised; is_transient tells whether the same input may yet succeed.
Failed(c, permanent) ==
  [c EXCEPT !.attempts = UpTo(@, StallThreshold),
            !.poisons = IF permanent THEN UpTo(@, PoisonAttempts) ELSE 0,
            !.poisonFor = IF permanent THEN @ ELSE 0]

GivesUp(c) == c.poisons = PoisonAttempts /\ c.poisonFor = PoisonSeconds

\* on_poison raised NotPoison.
Refused(c) == [c EXCEPT !.vetoed = TRUE, !.poisons = 0, !.poisonFor = 0]

PoisonPending(c) == c.poisons > 0 /\ ~c.vetoed

\* The hooks to call before the sleep.
Stalls(c) == ~c.stalled /\ ~PoisonPending(c) /\ c.attempts = StallThreshold
Sustains(c) == ~c.sustained /\ c.since = SustainedSeconds

\* A mutation of Notified: a stall that is held back counts as notified.
Notified_HeldBack(c) ==
  [c EXCEPT !.stalled = @ \/ c.attempts = StallThreshold, !.sustained = @ \/ Sustains(c)]

Notified(c) == [c EXCEPT !.stalled = @ \/ Stalls(c), !.sustained = @ \/ Sustains(c)]
=============================================================================
