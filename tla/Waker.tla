-------------------------------- MODULE Waker --------------------------------
(***************************************************************************)
(* What whoever suspends a fiber promises the scheduler: somebody who      *)
(* waits is held, and is then run once or withdrawn; nobody is run who     *)
(* does not wait, and nobody twice.  Scheduler's Arm and Fire take this    *)
(* for granted; IOManager's events implement it.                            *)
(***************************************************************************)
CONSTANT Waiters

VARIABLE state     \* per waiter

Init == state = [u \in Waiters |-> "idle"]

Move(S, from, to) ==
    /\ \A u \in S : state[u] = from
    /\ state' = [u \in Waiters |-> IF u \in S THEN to ELSE state[u]]

\* u waits ...
Register(u) == Move({u}, "idle", "held")

\* ... is forgotten ...
Withdraw(u) == Move({u}, "held", "idle")

\* ... or scheduled, perhaps together with others ...
Wake(S) == Move(S, "held", "woken")

\* ... and runs.
Run(u) == Move({u}, "woken", "idle")

Next ==
    \/ \E u \in Waiters : Register(u) \/ Withdraw(u) \/ Run(u)
    \/ \E S \in SUBSET Waiters : Wake(S)

Spec == Init /\ [][Next]_state

=============================================================================
