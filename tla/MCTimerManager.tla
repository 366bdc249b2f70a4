---------------------------- MODULE MCTimerManager ----------------------------
(***************************************************************************)
(* Instances of TimerManager for TLC.                                      *)
(***************************************************************************)
EXTENDS TimerManager, TLC

CONSTANTS w1, w2

TwoTimers == {1, 2}
TwoWorkers == {w1, w2}
ShortAndLong == {0, 2}
OneTimer == {1}
Symmetry == Permutations(TwoWorkers)

=============================================================================
