----------------------------- MODULE MCBothWays -----------------------------
(* Instances of BothWays for TLC. *)
EXTENDS BothWays

OneSegment == <<"acme">>

(* A group inside another. *)
Subgroup == <<"acme", "backup">>

=============================================================================
