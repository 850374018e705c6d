------------------------------ MODULE MCDigest ------------------------------
(* Instances of Digest for TLC.                                            *)
EXTENDS Digest

\* Calls that are refused or cancelled while other jobs run.
Refusals == {"error", "ratelimit", "shutdown"}

\* What is lost or comes twice: answers, locks, processes, rows and updates.
Losses == {"error", "ambiguous", "unlock", "crash", "expire", "redeliver"}

NoEvents == {}
=============================================================================
