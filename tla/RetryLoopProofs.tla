--------------------------- MODULE RetryLoopProofs ---------------------------
(***************************************************************************)
(* The timing of reconnecting for every length of an attempt, every        *)
(* lateness of a sleep and every width of Duration.  The invariant says    *)
(* how much of the outage is accounted for before the last attempt began:  *)
(* LeastOutage(failures - 1), and elapsed since then.  It also bounds      *)
(* elapsed from both sides, which gives the least and the longest time     *)
(* between two attempts.                                                   *)
(***************************************************************************)
EXTENDS RetryLoop, TLAPS

\* What is known in each phase of the loop.
Accounted ==
    /\ phase \in {"attempt", "connected"} => elapsed = 0
    /\ phase \in {"attempt", "head", "backoff", "connected"} =>
           failures <= DurationBits
    /\ phase = "connected" => failures = 0
    /\ phase = "attempt" => outage >= LeastOutage(failures)
    /\ phase \in {"backoff", "panicked"} =>
           /\ failures >= 1
           /\ outage >= LeastOutage(failures - 1) + elapsed
           /\ elapsed <= LongestAttempt
    /\ phase = "head" /\ failures >= 1 =>
           /\ outage >= LeastOutage(failures - 1) + elapsed
           /\ elapsed >= BackoffTime(failures)
           /\ elapsed <= LongestAttempt + BackoffTime(failures)
                             + LongestOversleep
    /\ phase = "panicked" => failures = DurationBits + 1

IInv == TypeOK /\ Accounted

\* One more failure adds its spacing to the least outage.
LEMMA LeastOutageStep ==
    ASSUME NEW n \in Nat, n >= 1
    PROVE  LeastOutage(n) = LeastOutage(n - 1) + Spacing(n)
<1>1. CASE n \in 1..5
  BY <1>1, SMT DEF LeastOutage, Spacing, BreakerThreshold, BackoffTime, MaxInterval
<1>2. CASE n = 6
  BY <1>2, SMT DEF LeastOutage, Spacing, BreakerThreshold, BackoffTime, MaxInterval
<1>3. CASE n > 6
  <2>1. 5 * n * (n + 1) = 5 * (n - 1) * ((n - 1) + 1) + n * 10
    BY <1>3, SMT
  <2>2. LeastOutage(n) = 5 * n * (n + 1) - 119
    BY <1>3, SMT DEF LeastOutage, BreakerThreshold
  <2>3. LeastOutage(n - 1) = 5 * (n - 1) * ((n - 1) + 1) - 119
    BY <1>3, SMT DEF LeastOutage, BreakerThreshold
  <2>4. Spacing(n) = n * 10
    BY <1>3, SMT DEF Spacing, BreakerThreshold
  <2>5. /\ 5 * n * (n + 1) \in Int
        /\ 5 * (n - 1) * ((n - 1) + 1) \in Int
    BY <1>3, SMT
  <2> QED
    BY <2>1, <2>2, <2>3, <2>4, <2>5, SMT
<1> QED
  BY <1>1, <1>2, <1>3, SMT

\* Least outages, backoffs and waits are numbers.
LEMMA TimesAreNumbers ==
    ASSUME NEW n \in Nat
    PROVE  /\ LeastOutage(n) \in Nat
           /\ n >= 1 => Spacing(n) \in Nat
           /\ BackoffTime(n) \in Nat
<1>1. BackoffTime(n) \in Nat
  BY SMT DEF BackoffTime, MaxInterval
<1>2. n >= 1 => Spacing(n) \in Nat
  BY <1>1, SMT DEF Spacing, BreakerThreshold
<1>3. LeastOutage(n) \in Nat
  <2>1. CASE n <= 5
    BY <2>1, SMT DEF LeastOutage, BreakerThreshold
  <2>2. CASE n > 5
    <3>1. 5 * n * (n + 1) >= 5 * 6 * 7
      <4>1. n * (n + 1) >= 6 * (n + 1)
        BY <2>2, SMT
      <4>2. n * (n + 1) \in Nat /\ 5 * n * (n + 1) = 5 * (n * (n + 1))
        BY SMT
      <4> QED
        BY <2>2, <4>1, <4>2, SMT
    <3>2. 5 * n * (n + 1) \in Nat
      BY SMT
    <3> QED
      BY <2>2, <3>1, <3>2, SMT DEF LeastOutage, BreakerThreshold
  <2> QED
    BY <2>1, <2>2, SMT
<1> QED
  BY <1>1, <1>2, <1>3

\* After the backoff, the breaker's wait completes the spacing of a failure.
LEMMA BreakerCompletesSpacing ==
    ASSUME NEW n \in Nat, NEW e \in Nat, n >= 1, e >= BackoffTime(n)
    PROVE  /\ BreakerWait(n, e) \in Nat
           /\ e + BreakerWait(n, e) >= Spacing(n)
<1>1. CASE n <= 5
  BY <1>1, SMT DEF BreakerWait, Spacing, BackoffTime, BreakerThreshold, MaxInterval
<1>2. CASE n > 5
  BY <1>2, SMT DEF BreakerWait, Spacing, BreakerThreshold
<1> QED
  BY <1>1, <1>2, SMT

\* The breaker waits for what the spacing lacks, and not for more.
LEMMA BreakerWaitsNoLonger ==
    ASSUME NEW n \in Nat, NEW e \in Nat, n >= 1, NEW late \in Oversleep \cup {0},
           e <= LongestAttempt + BackoffTime(n) + LongestOversleep,
           BreakerWait(n, e) = 0 => late = 0
    PROVE  e + (BreakerWait(n, e) + late) <= LongestGap(n)
<1>1. /\ LongestAttempt \in Nat /\ LongestOversleep \in Nat
      /\ late \in Nat /\ late <= LongestOversleep
  BY RetryAssumption, SMT
<1>2. BackoffTime(n) \in Nat
  BY TimesAreNumbers
<1>3. CASE n > BreakerThreshold /\ e < n * 10
  <2>1. BreakerWait(n, e) = n * 10 - e
    BY <1>3 DEF BreakerWait
  <2>2. LongestGap(n) >= n * 10 + LongestOversleep
    BY <1>1, <1>2, <1>3, SMT DEF LongestGap
  <2>3. LongestGap(n) \in Nat
    BY <1>1, <1>2, SMT DEF LongestGap
  <2> QED
    BY <1>1, <2>1, <2>2, <2>3, SMT
<1>4. CASE ~(n > BreakerThreshold /\ e < n * 10)
  <2>1. BreakerWait(n, e) = 0
    BY <1>4 DEF BreakerWait
  <2>2. LongestGap(n) >= LongestAttempt + BackoffTime(n) + LongestOversleep
    BY <1>1, <1>2, SMT DEF LongestGap
  <2>3. LongestGap(n) \in Nat
    BY <1>1, <1>2, SMT DEF LongestGap
  <2> QED
    BY <1>1, <1>2, <2>1, <2>2, <2>3, SMT
<1> QED
  BY <1>3, <1>4

LEMMA InitAccounted == Init => IInv
<1> SUFFICES ASSUME Init PROVE IInv
  OBVIOUS
<1>1. LeastOutage(0) = 0
  BY SMT DEF LeastOutage, BreakerThreshold
<1> QED
  BY <1>1, BackoffAssumption, SMT DEF Init, IInv, TypeOK, Accounted

\* An attempt begins when the spacing of the last failure is complete.
LEMMA BreakerStep ==
    ASSUME IInv, BreakerOpens
    PROVE  /\ IInv'
           /\ failures > 0 => elapsed + (outage' - outage) >= Spacing(failures)
           /\ failures > 0 => elapsed + (outage' - outage) <= LongestGap(failures)
<1>1. PICK late \in Oversleep \cup {0} :
          /\ outage' = outage + BreakerWait(failures, elapsed) + late
          /\ BreakerWait(failures, elapsed) = 0 => late = 0
  BY Zenon DEF BreakerOpens
<1>2. late \in Nat
  BY RetryAssumption
<1>3. /\ phase = "head" /\ phase' = "attempt"
      /\ failures' = failures /\ elapsed' = 0
      /\ failures \in Nat /\ elapsed \in Nat /\ outage \in Nat
      /\ failures <= DurationBits /\ DurationBits \in Nat
  BY BackoffAssumption, SMT DEF BreakerOpens, IInv, TypeOK, Accounted
<1>4. CASE failures = 0
  <2>1. BreakerWait(failures, elapsed) = 0
    BY <1>4, SMT DEF BreakerWait, BreakerThreshold
  <2>2. LeastOutage(failures) = 0
    BY <1>4, SMT DEF LeastOutage, BreakerThreshold
  <2> QED
    BY <1>1, <1>2, <1>3, <1>4, <2>1, <2>2, SMT DEF IInv, TypeOK, Accounted
<1>5. CASE failures >= 1
  <2> DEFINE wait == BreakerWait(failures, elapsed)
  <2>1. /\ outage >= LeastOutage(failures - 1) + elapsed
        /\ elapsed >= BackoffTime(failures)
        /\ elapsed <= LongestAttempt + BackoffTime(failures) + LongestOversleep
    BY <1>3, <1>5 DEF IInv, Accounted
  <2>2. wait \in Nat /\ elapsed + wait >= Spacing(failures)
    BY <1>3, <1>5, <2>1, BreakerCompletesSpacing
  <2>3. LeastOutage(failures) = LeastOutage(failures - 1) + Spacing(failures)
    BY <1>3, <1>5, LeastOutageStep
  <2>4. /\ LeastOutage(failures) \in Nat /\ LeastOutage(failures - 1) \in Nat
        /\ Spacing(failures) \in Nat
    <3>1. failures - 1 \in Nat
      BY <1>3, <1>5, SMT
    <3> QED
      BY <1>3, <1>5, <3>1, TimesAreNumbers
  <2>5. elapsed + (wait + late) <= LongestGap(failures)
    BY <1>1, <1>3, <1>5, <2>1, BreakerWaitsNoLonger
  <2> HIDE DEF wait
  <2>6. outage' - outage = wait + late
    BY <1>1, <1>2, <1>3, <2>2, SMT DEF wait
  <2>7. outage' >= LeastOutage(failures) /\ outage' \in Nat
    BY <1>1, <1>2, <1>3, <2>1, <2>2, <2>3, <2>4, SMT DEF wait
  <2>8. elapsed + (outage' - outage) >= Spacing(failures)
    BY <1>1, <1>2, <1>3, <2>2, <2>4, SMT DEF wait
  <2>9. LeastOutage(failures)' = LeastOutage(failures)
    BY <1>3 DEF LeastOutage, BreakerThreshold
  <2> QED
    BY <1>3, <2>5, <2>6, <2>7, <2>8, <2>9, SMT DEF IInv, TypeOK, Accounted
<1> QED
  BY <1>3, <1>4, <1>5, SMT

\* A failure is counted: what was accounted for is now that of one less.
LEMMA FailureStep ==
    ASSUME IInv, NEW time \in AttemptTime, AttemptFails(time)
    PROVE  IInv'
<1>1. time \in Nat /\ time <= LongestAttempt
  BY RetryAssumption, SMT
<1>2. /\ phase = "attempt" /\ failures' = failures + 1
      /\ elapsed' = time /\ outage' = outage + time
      /\ phase' = IF BackoffPanics(failures') THEN "panicked" ELSE "backoff"
      /\ failures \in Nat /\ outage \in Nat
      /\ failures <= DurationBits /\ DurationBits \in Nat
      /\ outage >= LeastOutage(failures)
  BY <1>1, BackoffAssumption, SMT DEF AttemptFails, IInv, TypeOK, Accounted
<1>3. LeastOutage(failures' - 1) = LeastOutage(failures)
  <2>1. failures' - 1 = failures
    BY <1>2, SMT
  <2> QED
    BY <2>1
<1>4. LeastOutage(failures) \in Nat
  BY <1>2, TimesAreNumbers
<1>5. outage' >= LeastOutage(failures' - 1) + elapsed'
  BY <1>1, <1>2, <1>3, <1>4, SMT
<1>6. /\ phase' = "panicked" => failures' = DurationBits + 1
      /\ phase' = "backoff" => failures' <= DurationBits
      /\ phase' \in {"panicked", "backoff"}
  BY <1>2, SMT DEF BackoffPanics
<1> QED
  BY <1>1, <1>2, <1>5, <1>6, SMT DEF IInv, TypeOK, Accounted

LEMMA BackoffStep ==
    ASSUME IInv, BackoffEnds
    PROVE  IInv'
<1>1. PICK late \in Oversleep :
          /\ elapsed' = elapsed + BackoffTime(failures) + late
          /\ outage' = outage + BackoffTime(failures) + late
  BY Zenon DEF BackoffEnds
<1>2. late \in Nat /\ late <= LongestOversleep /\ LongestOversleep \in Nat
  BY RetryAssumption, SMT
<1>3. /\ phase = "backoff" /\ phase' = "head" /\ failures' = failures
      /\ failures \in Nat /\ elapsed \in Nat /\ outage \in Nat
      /\ failures >= 1 /\ failures <= DurationBits /\ DurationBits \in Nat
      /\ outage >= LeastOutage(failures - 1) + elapsed
      /\ elapsed <= LongestAttempt /\ LongestAttempt \in Nat
  BY BackoffAssumption, RetryAssumption, SMT DEF BackoffEnds, IInv, TypeOK, Accounted
<1>4. LeastOutage(failures - 1) \in Nat /\ BackoffTime(failures) \in Nat
  <2>1. failures - 1 \in Nat
    BY <1>3, SMT
  <2> QED
    BY <1>3, <2>1, TimesAreNumbers
<1>5. /\ outage' \in Nat /\ elapsed' \in Nat
      /\ outage' >= LeastOutage(failures - 1) + elapsed'
      /\ elapsed' >= BackoffTime(failures)
      /\ elapsed' <= LongestAttempt + BackoffTime(failures) + LongestOversleep
  BY <1>1, <1>2, <1>3, <1>4, SMT
<1>6. /\ LeastOutage(failures' - 1) = LeastOutage(failures - 1)
      /\ BackoffTime(failures') = BackoffTime(failures)
  BY <1>3
<1> QED
  BY <1>3, <1>5, <1>6, SMT DEF IInv, TypeOK, Accounted

LEMMA NextAccounted == IInv /\ [Next]_vars => IInv'
<1> SUFFICES ASSUME IInv, [Next]_vars PROVE IInv'
  OBVIOUS
<1>1. CASE BreakerOpens
  BY <1>1, BreakerStep
<1>2. CASE AttemptSucceeds
  <2>1. LeastOutage(0) = 0
    BY SMT DEF LeastOutage, BreakerThreshold
  <2> QED
    BY <1>2, <2>1, BackoffAssumption, SMT
    DEF AttemptSucceeds, IInv, TypeOK, Accounted
<1>3. ASSUME NEW time \in AttemptTime, AttemptFails(time) PROVE IInv'
  BY <1>3, FailureStep
<1>4. CASE BackoffEnds
  BY <1>4, BackoffStep
<1>5. CASE ConnectionLost
  BY <1>5, SMT DEF ConnectionLost, IInv, TypeOK, Accounted
<1>6. CASE UNCHANGED vars
  BY <1>6 DEF vars, IInv, TypeOK, Accounted, LeastOutage, BackoffTime
<1> QED
  BY <1>1, <1>2, <1>3, <1>4, <1>5, <1>6, Zenon DEF Next, Panicked

\* The accounting holds whenever the loop has come any number of times round.
THEOREM Accounting == Spec => []IInv
<1> QED
  BY InitAccounted, NextAccounted, PTL DEF Spec

\* The count of consecutive failures never exceeds what Duration can bear.
THEOREM RetryTypeCorrect == Spec => []TypeOK
<1>1. IInv => TypeOK
  BY DEF IInv
<1> QED
  BY <1>1, Accounting, PTL

\* Attempts are spaced by backoff and breaker, however long an attempt takes
\* and however late a sleep ends (lines 181-195 and 225-234).
THEOREM SpacingHolds == Spec => AttemptsSpaced
<1>1. IInv /\ [Next]_vars =>
          [BreakerOpens /\ failures > 0 =>
               elapsed + (outage' - outage) >= Spacing(failures)]_vars
  BY BreakerStep
<1> QED
  BY <1>1, Accounting, PTL DEF Spec, AttemptsSpaced

\* Backoff and breaker overlap, whatever the attempt took: the next one begins
\* no later than the longer of the two asks for (lines 181-195 and 225-234).
THEOREM RetriesAreInTime == Spec => RetriedInTime
<1>1. IInv /\ [Next]_vars =>
          [BreakerOpens /\ failures > 0 =>
               elapsed + (outage' - outage) <= LongestGap(failures)]_vars
  BY BreakerStep
<1> QED
  BY <1>1, Accounting, PTL DEF Spec, RetriedInTime

\* The load on a server that is down falls quadratically.
THEOREM ServerIsSpared == Spec => []ServerSpared
<1>1. IInv => ServerSpared
  BY DEF IInv, Accounted, ServerSpared
<1> QED
  BY <1>1, Accounting, PTL

\* The overflow of line 227 is out of reach of a short outage.
THEOREM PanicComesLate == Spec => []PanicTakesHours
<1>1. IInv => PanicTakesHours
  <2> SUFFICES ASSUME IInv, phase = "panicked"
               PROVE  outage >= LeastOutage(DurationBits)
    BY DEF PanicTakesHours
  <2>1. /\ failures = DurationBits + 1 /\ DurationBits \in Nat
        /\ outage >= LeastOutage(failures - 1) + elapsed
        /\ elapsed \in Nat /\ outage \in Nat
    BY BackoffAssumption DEF IInv, TypeOK, Accounted
  <2>2. failures - 1 = DurationBits
    BY <2>1, SMT
  <2>3. LeastOutage(DurationBits) \in Nat
    BY <2>1, TimesAreNumbers
  <2>4. outage >= LeastOutage(DurationBits) + elapsed
    BY <2>1, <2>2
  <2> QED
    BY <2>1, <2>3, <2>4, SMT
<1> QED
  BY <1>1, Accounting, PTL
==============================================================================
