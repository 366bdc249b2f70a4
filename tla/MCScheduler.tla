----------------------------- MODULE MCScheduler -----------------------------
(***************************************************************************)
(* An instance of Scheduler for TLC: two threads, callbacks for any thread *)
(* or for the first, and as many fibers as callbacks, so that a callback   *)
(* always finds one.                                                       *)
(***************************************************************************)
EXTENDS SchedulerProps

CONSTANTS t1, t2

TwoThreads == {t1, t2}
AnyOrT1 == {AnyThread, t1}

=============================================================================
