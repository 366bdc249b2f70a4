----------------------------- MODULE MCIOManager -----------------------------
(***************************************************************************)
(* Instances of IOManager for TLC.                                         *)
(***************************************************************************)
EXTENDS IOManager, TLC

CONSTANTS s1, s2, u1, u2, u3, w1, w2

OneFd == {s1}
TwoFds == {s1, s2}
TwoWaiters == {u1, u2}
ThreeWaiters == {u1, u2, u3}
OneWorker == {w1}
TwoWorkers == {w1, w2}

\* Each descriptor is used in one direction, one with fibers, one with callbacks.
OneWay == [fd \in TwoFds |-> IF fd = s1 THEN {READ} ELSE {WRITE}]
FiberOrCb == [fd \in TwoFds |-> IF fd = s1 THEN {"fiber"} ELSE {"cb"}]

BothWays == [fd \in OneFd |-> Events]
ReadOnly == [fd \in OneFd |-> {READ}]
FiberOnly == [fd \in OneFd |-> {"fiber"}]
Either == [fd \in OneFd |-> {"fiber", "cb"}]

Symmetry == Permutations(TwoWaiters) \cup Permutations(TwoWorkers)

=============================================================================
