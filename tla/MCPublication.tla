---------------------------- MODULE MCPublication ----------------------------
(* Instances of Publication for TLC.                                       *)
EXTENDS Publication

\* One unit of time before the first retry, doubled for each one.
MCRetryDelay == [n \in 0 .. MaxRetries |-> 2 ^ n]
=============================================================================
