------------------------------ MODULE RetryLoop ------------------------------
(***************************************************************************)
(* Reconnecting, in time: lines 172-238 of src/connection/manager.rs with  *)
(* the clock that ConnectionManager leaves out.  One attempt follows the   *)
(* other; what lies between them is the backoff sleep and the wait of the  *)
(* circuit breaker, which counts from the start of the last attempt.       *)
(* Times are in seconds.                                                   *)
(***************************************************************************)
EXTENDS Integers, Backoff

CONSTANTS AttemptTime,      \* how long connect_and_subscribe may take
          Oversleep,        \* how much later than asked a sleep may end
          LongestAttempt,   \* at the most: the two timeouts of a connection
          LongestOversleep  \* at the most

ASSUME RetryAssumption ==
    /\ LongestAttempt \in Nat
    /\ LongestOversleep \in Nat
    /\ AttemptTime \subseteq 0..LongestAttempt
    /\ Oversleep \subseteq 0..LongestOversleep

VARIABLES phase,         \* where the loop stands
          failures,      \* consecutive_failures
          elapsed,       \* time since last_attempt, while failures > 0
          outage         \* time since the first of these failures began

vars == <<phase, failures, elapsed, outage>>

Init ==
    /\ phase = "head"
    /\ failures = 0
    /\ elapsed = 0
    /\ outage = 0

\* The circuit breaker: past its threshold the loop sleeps for what is left
\* of failures * 10 seconds since the last attempt.  Then the attempt begins.
BreakerOpens ==
    /\ phase = "head"
    /\ phase' = "attempt"
    /\ LET wait == BreakerWait(failures, elapsed)
       IN  \E late \in (IF wait = 0 THEN {0} ELSE Oversleep) :
               outage' = outage + wait + late
    /\ elapsed' = 0
    /\ UNCHANGED failures

AttemptSucceeds ==
    /\ phase = "attempt"
    /\ phase' = "connected"
    /\ failures' = 0
    /\ elapsed' = 0
    /\ outage' = 0

\* A failure is counted, and the backoff computed from the count.
AttemptFails(time) ==
    /\ phase = "attempt"
    /\ failures' = failures + 1
    /\ elapsed' = elapsed + time
    /\ outage' = outage + time
    /\ phase' = IF BackoffPanics(failures') THEN "panicked" ELSE "backoff"

BackoffEnds ==
    /\ phase = "backoff"
    /\ phase' = "head"
    /\ \E late \in Oversleep :
           /\ elapsed' = elapsed + BackoffTime(failures) + late
           /\ outage' = outage + BackoffTime(failures) + late
    /\ UNCHANGED failures

\* The connection is lost, at whatever time, and the loop comes round.
ConnectionLost ==
    /\ phase = "connected"
    /\ phase' = "head"
    /\ UNCHANGED <<failures, elapsed, outage>>

Panicked == phase = "panicked" /\ UNCHANGED vars

Next ==
    \/ BreakerOpens
    \/ AttemptSucceeds
    \/ \E time \in AttemptTime : AttemptFails(time)
    \/ BackoffEnds
    \/ ConnectionLost
    \/ Panicked

Spec == Init /\ [][Next]_vars

-----------------------------------------------------------------------------
(* Properties.                                                             *)

\* The types, and the count of failures stays within what Duration can bear.
TypeOK ==
    /\ phase \in {"head", "attempt", "backoff", "connected", "panicked"}
    /\ failures \in 0..DurationBits + 1
    /\ elapsed \in Nat
    /\ outage \in Nat

\* The time that must lie between the starts of two attempts when the first is
\* the n-th failure in a row.
Spacing(n) ==
    IF n <= BreakerThreshold THEN <<1, 2, 4, 8, 16>>[n] ELSE n * 10

\* Backoff and breaker together keep failing attempts apart: by an exponential
\* backoff first, by ten more seconds for each failure later.
AttemptsSpaced ==
    [][BreakerOpens /\ failures > 0 =>
           elapsed + (outage' - outage) >= Spacing(failures)]_vars

\* The time by which the next attempt must begin: the time of the longest
\* attempt and the backoff, or the time of the breaker if that is more.  One
\* sleep only counts as late, for the breaker makes good what the backoff is.
LongestGap(n) ==
    LET slept == LongestAttempt + BackoffTime(n)
    IN  (IF n > BreakerThreshold /\ slept < n * 10 THEN n * 10 ELSE slept)
            + LongestOversleep

\* Backoff and breaker overlap and do not add up: a server that is back is
\* tried again no later than the longer of the two after the last attempt.
RetriedInTime ==
    [][BreakerOpens /\ failures > 0 =>
           elapsed + (outage' - outage) <= LongestGap(failures)]_vars

\* The least time from the start of the first of n failed attempts in a row to
\* the start of the next attempt: the sum of the spacings of 1..n.
LeastOutage(n) ==
    IF n <= BreakerThreshold
    THEN <<0, 1, 3, 7, 15, 31>>[n + 1]
    ELSE 5 * n * (n + 1) - 119

\* A server that is down is not hammered: whatever attempts and sleeps take,
\* n of them in a row are spread over a time quadratic in n.
ServerSpared == phase = "attempt" => outage >= LeastOutage(failures)

\* The overflow of the backoff takes hours of outage, never less.
PanicTakesHours == phase = "panicked" => outage >= LeastOutage(DurationBits)

-----------------------------------------------------------------------------
(* What the comments say and the code does not do.  Each of these is       *)
(* refuted by a run.                                                       *)

\* "5 minutes max retry time": no attempt begins later in an outage.
RetryTimeLimited == phase = "attempt" => outage <= 300

\* "Will attempt reconnection", after "Wait before retrying": each failure is
\* followed by the wait for another attempt.
FailuresAreRetried == [][failures' > failures => phase' = "backoff"]_vars
==============================================================================
