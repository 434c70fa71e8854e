-------------------------------- MODULE MCCtl --------------------------------
(* Small instances of Ctl for TLC.  A lapse is shorter than the countdown, *)
(* as in the program.                                                      *)
EXTENDS Ctl, TLC

CONSTANTS c1, c2

TwoConns == {c1, c2}
NoSteps == {}
Backwards == {-1}
SymmetryConns == Permutations(Conn)
=============================================================================
