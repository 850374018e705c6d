---------------------------- MODULE DigestLedger ----------------------------
(***************************************************************************)
(* What the bot promises about the messages of a conversation              *)
(* (docs/privacy.md, retention and deletion): a message is kept until a    *)
(* digest with it was published and recorded, or until its retention is    *)
(* over.  A failure in between leaves it kept.  Jobs, locks and calls do   *)
(* not exist at this level.                                                *)
(***************************************************************************)
EXTENDS Integers

VARIABLES
  saved,    \* number of rows ever inserted
  kept,     \* rows still stored
  told,     \* rows of published digests
  lapsed    \* rows that retention deleted

vars == <<saved, kept, told, lapsed>>

Init == saved = 0 /\ kept = {} /\ told = {} /\ lapsed = {}

Save ==
  /\ saved' = saved + 1
  /\ kept' = kept \cup {saved + 1}
  /\ UNCHANGED <<told, lapsed>>

\* Rows are published together, and a range may be published again.
Tell ==
  /\ \E rows \in SUBSET (1 .. saved) : told' = told \cup rows
  /\ UNCHANGED <<saved, kept, lapsed>>

\* Only published rows are forgotten.
Forget ==
  /\ \E rows \in SUBSET told : kept' = kept \ rows
  /\ UNCHANGED <<saved, told, lapsed>>

Lapse ==
  /\ \E rows \in SUBSET kept : kept' = kept \ rows /\ lapsed' = lapsed \cup rows
  /\ UNCHANGED <<saved, told>>

Next == Save \/ Tell \/ Forget \/ Lapse

Spec == Init /\ [][Next]_vars
=============================================================================
