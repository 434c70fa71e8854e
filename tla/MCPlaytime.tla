----------------------------- MODULE MCPlaytime -----------------------------
(* Small instances of Playtime. *)
EXTENDS Playtime, TLC

CONSTANTS steam, lutris

TwoTargets == {steam, lutris}
OneTarget == {steam}
=============================================================================
