----------------------------- MODULE MCAutoRun ------------------------------
(* Instances of AutoRun for TLC.                                           *)
EXTENDS AutoRun
=============================================================================
