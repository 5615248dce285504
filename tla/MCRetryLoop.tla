----------------------------- MODULE MCRetryLoop -----------------------------
(* Instances of RetryLoop for TLC.                                         *)
EXTENDS RetryLoop

\* A refused connection, the connect timeout, and the time to the timeout of
\* the subscribe request on a connection that took that long.
MCAttemptTime == {0, 30, 60}
MCAttemptTimeRefused == {0}
=============================================================================
