----------------------------- MODULE Publishing -----------------------------
(***************************************************************************)
(* What Digest assumes of a run that asks the LLM for a digest and         *)
(* publishes it (its actions GenerateSummary and Publish): a rate limit is *)
(* reported before anything is published, and success only if the digest   *)
(* is in the conversation.  A failed run may have published it.            *)
(***************************************************************************)

VARIABLES
  phase,  \* where the run is, or how it ended
  shown   \* whether the conversation has the digest of the range

vars == <<phase, shown>>

Ended == {"none", "ok", "error", "ratelimit"}

Init == phase = "none" /\ shown = FALSE

Begin    == phase \in Ended /\ phase' = "generating" /\ UNCHANGED shown
Generate == phase = "generating" /\ phase' = "publishing" /\ UNCHANGED shown

GiveUp ==
  /\ phase = "generating" /\ phase' \in {"ratelimit", "error"}
  /\ UNCHANGED shown

Show ==
  /\ phase = "publishing" /\ shown' = TRUE
  /\ phase' \in {"publishing", "ok", "error"}

Fail == phase = "publishing" /\ phase' = "error" /\ UNCHANGED shown

Next == Begin \/ Generate \/ GiveUp \/ Show \/ Fail

Spec == Init /\ [][Next]_vars
=============================================================================
