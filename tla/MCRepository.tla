---------------------------- MODULE MCRepository ----------------------------
(* Instances of Repository for TLC: an old and a new release of the bot,   *)
(* the new one with a single connection.                                   *)
EXTENDS Repository, TLC

CONSTANTS old, new, j1, j2, h, c1, c2, c3

MCHome == (j1 :> new) @@ (j2 :> old) @@ (h :> new)
            @@ (c1 :> new) @@ (c2 :> old) @@ (c3 :> old)
MCFiles == (old :> 1) @@ (new :> 2)
=============================================================================
