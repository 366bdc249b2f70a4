------------------------------- MODULE MCHookIO -------------------------------
(***************************************************************************)
(* An instance of HookIO for TLC: a fiber and a socket that connects and   *)
(* is written to (do_io is the same for reading).                          *)
(***************************************************************************)
EXTENDS HookIO, TLC

CONSTANTS s1, u1, w1, w2

OneSocket == {s1}
OneFiber == {u1}
TwoWorkers == {w1, w2}
Written == [fd \in OneSocket |-> {WRITE}]
WithoutCb == [fd \in OneSocket |-> {"fiber"}]
Symmetry == Permutations(TwoWorkers)

=============================================================================
