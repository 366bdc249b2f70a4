------------------------------ MODULE MCIoTimers ------------------------------
(***************************************************************************)
(* Instances of IoTimers for TLC.                                          *)
(***************************************************************************)
EXTENDS IoTimers, TLC

CONSTANTS w1, w2, main

TwoTimers == {1, 2}
OneTimer == {1}
TwoWorkers == {w1, w2}
OneWorker == {w1}
Main == {main}
Symmetry == Permutations(TwoWorkers)

=============================================================================
