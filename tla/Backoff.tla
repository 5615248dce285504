------------------------------- MODULE Backoff -------------------------------
(***************************************************************************)
(* The arithmetic of reconnecting in spawn_manager_task: the backoff after *)
(* a failed attempt and the wait of the circuit breaker, in seconds.       *)
(***************************************************************************)
EXTENDS Integers, Sequences

CONSTANT DurationBits  \* seconds of std::time::Duration are a u64: 64

ASSUME BackoffAssumption == DurationBits \in Nat \ {0}

MaxInterval == 60
BreakerThreshold == 5

\* Mutant: the exponent is the number of failures, not one less.
BackoffPanicsEarly(failures) == failures >= DurationBits

\* Mutant: the product is thought to fit a Duration once more.
BackoffPanicsLate(failures) == failures - 1 > DurationBits

\* initial_interval.mul_f64(2.0.powi(failures - 1)) panics when the product
\* does not fit a Duration; the cap of min(max_interval) comes after it.
BackoffPanics(failures) == failures - 1 >= DurationBits

\* Mutant: the backoff does not grow.
BackoffTimeConstant(failures) == 1

\* The sleep after the failures-th failure in a row: 2^(failures - 1) seconds
\* up to the cap.
BackoffTime(failures) ==
    IF failures \in 1..6 THEN <<1, 2, 4, 8, 16, 32>>[failures] ELSE MaxInterval

\* Mutant: the breaker stops at the cap of the backoff.
BreakerWaitCapped(failures, elapsed) ==
    IF failures > BreakerThreshold /\ elapsed < MaxInterval
    THEN MaxInterval - elapsed
    ELSE 0

\* Mutant: the breaker waits its whole time after the backoff.
BreakerWaitWhole(failures, elapsed) ==
    IF failures > BreakerThreshold /\ elapsed < failures * 10
    THEN failures * 10
    ELSE 0

\* What the breaker adds before the next attempt, when the previous attempt
\* began elapsed seconds ago.
BreakerWait(failures, elapsed) ==
    IF failures > BreakerThreshold /\ elapsed < failures * 10
    THEN failures * 10 - elapsed
    ELSE 0
==============================================================================
