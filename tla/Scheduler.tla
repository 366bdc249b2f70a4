------------------------------ MODULE Scheduler ------------------------------
(***************************************************************************)
(* The N:M coroutine scheduler: Scheduler::start, stop, run, schedule and  *)
(* stopping (src/src/Scheduler.cc, src/include/scheduler.h) over the life  *)
(* cycle of a Fiber (src/src/Fiber.cc, src/include/Fiber.h).               *)
(*                                                                         *)
(* Worker threads share one task list.  Each iteration of run() takes the  *)
(* first task it may run under m_mutex, swaps into a fiber outside the     *)
(* lock, and files the fiber away when it swaps back out.  A running fiber *)
(* that has to wait hands itself to a waker (an IO event, a timer) and     *)
(* swaps out; the waker may schedule it again BEFORE it has swapped out.   *)
(*                                                                         *)
(* What the program text of a task does is left open: while a fiber runs   *)
(* it may schedule callbacks, arm a waker, yield, return or throw.         *)
(***************************************************************************)
EXTENDS Naturals, FiniteSets, SequencesExt

CONSTANTS
    Threads,    \* the worker threads of m_threads
    Fibers,     \* the pool the model draws Fiber objects from
    NoFiber,    \* a null Fiber::ptr
    AnyThread,  \* thread_id = -1: the task may run on every thread
    Pins,       \* the thread ids callers of schedule() pass
    MayYield,   \* whether tasks call setState(READY) before swapOut()
    MaxCalls    \* bound: how many callbacks are ever scheduled

ASSUME SchedulerAssumption ==
    /\ IsFiniteSet(Threads)
    /\ NoFiber \notin Fibers
    /\ AnyThread \notin Threads
    /\ Pins \subseteq Threads \cup {AnyThread}
    /\ MayYield \in BOOLEAN
    /\ MaxCalls \in Nat

VARIABLES
    m_fibers,             \* the task list: [fiber, thread]; fiber = NoFiber is a cb
    m_stopping,
    m_autoStop,
    m_activeThreadCount,
    m_state,              \* Fiber::m_state; "NONE": no such object
    armed,                \* fibers an event or timer has promised to schedule
    pc,                   \* where each thread is in run()
    ft,                   \* run()'s local ft.fiber
    cb_fiber,             \* run()'s local cb_fiber
    idle_fiber,           \* state of run()'s local idle_fiber
    stopper,              \* progress of a call of stop()
    calls                 \* callbacks scheduled so far

vars == <<m_fibers, m_stopping, m_autoStop, m_activeThreadCount, m_state,
          armed, pc, ft, cb_fiber, idle_fiber, stopper, calls>>

Task == [fiber: Fibers \cup {NoFiber}, thread: Threads \cup {AnyThread}]
FiberState == {"NONE", "INIT", "HOLD", "RUNING", "TERM", "READY", "EXCEPT"}
Dead == {"TERM", "EXCEPT"}

\* off: no thread; take..settle: lines of run(); exited: run() has returned.
PC == {"off", "take", "none", "dispatch", "exec", "armed", "back", "settle",
       "exited"}
OnFiber == {"exec", "armed", "back", "settle"}

\* The fiber thread t has swapped into (t_fiber).
Cur(t) == IF ft[t] # NoFiber THEN ft[t] ELSE cb_fiber[t]

Queued(f) == \E i \in DOMAIN m_fibers : m_fibers[i].fiber = f

\* Mutant of Runnable: the loop does not skip a fiber that is still RUNING.
RunnableUnsettled(t, task) == task.thread \in {AnyThread, t}

\* A task list entry run() may take on thread t: not pinned elsewhere, and not
\* a fiber that is still RUNING (it has not been settled by its last thread).
Runnable(t, task) ==
    /\ task.thread \in {AnyThread, t}
    /\ task.fiber # NoFiber => m_state[task.fiber] # "RUNING"

\* Entry i is the one the loop over m_fibers stops at.
Picks(t, i) ==
    /\ Runnable(t, m_fibers[i])
    /\ \A j \in 1 .. i - 1 : ~Runnable(t, m_fibers[j])

\* scheduleNoLock: append to the task list (under m_mutex).
Push(q, f, th) == Append(q, [fiber |-> f, thread |-> th])

\* shared_ptr counting: dropping t's reference destroys a fiber nobody else has.
Drop(t, f) ==
    IF f \in armed \/ Queued(f) \/ \E u \in Threads \ {t} : ft[u] = f
    THEN m_state ELSE [m_state EXCEPT ![f] = "NONE"]

-----------------------------------------------------------------------------
Init ==
    /\ m_fibers = <<>>
    /\ m_stopping = TRUE
    /\ m_autoStop = FALSE
    /\ m_activeThreadCount = 0
    /\ m_state = [f \in Fibers |-> "NONE"]
    /\ armed = {}
    /\ pc = [t \in Threads |-> "off"]
    /\ ft = [t \in Threads |-> NoFiber]
    /\ cb_fiber = [t \in Threads |-> NoFiber]
    /\ idle_fiber = [t \in Threads |-> "RUNING"]
    /\ stopper = "none"
    /\ calls = 0

-----------------------------------------------------------------------------
(* The owner: start() and stop(), which joins, so calls do not overlap.    *)

\* start(): returns at once unless m_stopping; creates the threads.
Start ==
    /\ m_stopping
    /\ stopper = "none"
    /\ m_stopping' = FALSE
    /\ pc' = [t \in Threads |-> "take"]
    /\ idle_fiber' = [t \in Threads |-> "RUNING"]
    /\ UNCHANGED <<m_fibers, m_autoStop, m_activeThreadCount, m_state, armed,
                   ft, cb_fiber, stopper, calls>>

\* stop(): two unlocked stores ...
StopAuto ==
    /\ stopper = "none"
    /\ stopper' = "auto"
    /\ m_autoStop' = TRUE
    /\ UNCHANGED <<m_fibers, m_stopping, m_activeThreadCount, m_state, armed,
                   pc, ft, cb_fiber, idle_fiber, calls>>

StopStore ==
    /\ stopper = "auto"
    /\ stopper' = "join"
    /\ m_stopping' = TRUE
    /\ UNCHANGED <<m_fibers, m_autoStop, m_activeThreadCount, m_state, armed,
                   pc, ft, cb_fiber, idle_fiber, calls>>

\* ... then join() on every thread.
Join ==
    /\ stopper = "join"
    /\ \A t \in Threads : pc[t] \in {"off", "exited"}
    /\ stopper' = "none"
    /\ pc' = [t \in Threads |-> "off"]
    /\ UNCHANGED <<m_fibers, m_stopping, m_autoStop, m_activeThreadCount,
                   m_state, armed, ft, cb_fiber, idle_fiber, calls>>

-----------------------------------------------------------------------------
(* Callers of schedule().  Code outside the scheduler calls it only while  *)
(* no stop() is in progress; running tasks call it at any time.            *)

MayCall == stopper = "none" \/ \E t \in Threads : pc[t] \in {"exec", "armed"}

\* schedule(cb, thread_id)
ScheduleCb(th) ==
    /\ MayCall
    /\ calls < MaxCalls
    /\ calls' = calls + 1
    /\ m_fibers' = Push(m_fibers, NoFiber, th)
    /\ UNCHANGED <<m_stopping, m_autoStop, m_activeThreadCount, m_state, armed,
                   pc, ft, cb_fiber, idle_fiber, stopper>>

\* schedule(fiber): the event or timer f was handed to fires, once.
Fire(f) ==
    /\ MayCall
    /\ f \in armed
    /\ armed' = armed \ {f}
    /\ m_fibers' = Push(m_fibers, f, AnyThread)
    /\ UNCHANGED <<m_stopping, m_autoStop, m_activeThreadCount, m_state,
                   pc, ft, cb_fiber, idle_fiber, stopper, calls>>

-----------------------------------------------------------------------------
(* Scheduler::run on thread t.                                             *)

\* Mutant of Take: ++m_activeThreadCount is missing.
TakeUncounted(t) ==
    /\ pc[t] = "take"
    /\ \E i \in DOMAIN m_fibers :
         /\ Picks(t, i)
         /\ ft' = [ft EXCEPT ![t] = m_fibers[i].fiber]
         /\ m_fibers' = RemoveAt(m_fibers, i)
    /\ pc' = [pc EXCEPT ![t] = "dispatch"]
    /\ UNCHANGED <<m_stopping, m_autoStop, m_activeThreadCount, m_state, armed,
                   cb_fiber, idle_fiber, stopper, calls>>

\* The locked loop stops at entry i: erase it and count this thread active, in
\* one critical section.
Take(t) ==
    /\ pc[t] = "take"
    /\ \E i \in DOMAIN m_fibers :
         /\ Picks(t, i)
         /\ ft' = [ft EXCEPT ![t] = m_fibers[i].fiber]
         /\ m_fibers' = RemoveAt(m_fibers, i)
    /\ m_activeThreadCount' = m_activeThreadCount + 1
    /\ pc' = [pc EXCEPT ![t] = "dispatch"]
    /\ UNCHANGED <<m_stopping, m_autoStop, m_state, armed, cb_fiber,
                   idle_fiber, stopper, calls>>

\* The locked loop reaches the end of the list.
TakeNone(t) ==
    /\ pc[t] = "take"
    /\ \A i \in DOMAIN m_fibers : ~Runnable(t, m_fibers[i])
    /\ pc' = [pc EXCEPT ![t] = "none"]
    /\ UNCHANGED <<m_fibers, m_stopping, m_autoStop, m_activeThreadCount,
                   m_state, armed, ft, cb_fiber, idle_fiber, stopper, calls>>

\* ft.fiber->swapIn() on a fiber that has not finished.
SwapIn(t) ==
    /\ pc[t] = "dispatch"
    /\ ft[t] # NoFiber
    /\ m_state[ft[t]] \notin Dead
    /\ m_state' = [m_state EXCEPT ![ft[t]] = "RUNING"]
    /\ pc' = [pc EXCEPT ![t] = "exec"]
    /\ UNCHANGED <<m_fibers, m_stopping, m_autoStop, m_activeThreadCount,
                   armed, ft, cb_fiber, idle_fiber, stopper, calls>>

\* cb_fiber->reset(cb), or a new Fiber, then swapIn().
SwapInCb(t) ==
    /\ pc[t] = "dispatch"
    /\ ft[t] = NoFiber
    /\ \E f \in Fibers :
         /\ IF cb_fiber[t] # NoFiber THEN f = cb_fiber[t]
                                     ELSE m_state[f] = "NONE"
         /\ cb_fiber' = [cb_fiber EXCEPT ![t] = f]
         /\ m_state' = [m_state EXCEPT ![f] = "RUNING"]
    /\ pc' = [pc EXCEPT ![t] = "exec"]
    /\ UNCHANGED <<m_fibers, m_stopping, m_autoStop, m_activeThreadCount,
                   armed, ft, idle_fiber, stopper, calls>>

\* Mutant of Discard: the continue comes before --m_activeThreadCount.
DiscardCounted(t) ==
    /\ pc[t] = "dispatch"
    /\ ft[t] # NoFiber
    /\ m_state[ft[t]] \in Dead
    /\ m_state' = Drop(t, ft[t])
    /\ ft' = [ft EXCEPT ![t] = NoFiber]
    /\ pc' = [pc EXCEPT ![t] = "take"]
    /\ UNCHANGED <<m_fibers, m_stopping, m_autoStop, m_activeThreadCount, armed,
                   cb_fiber, idle_fiber, stopper, calls>>

\* A task that finished before its waker fired: nothing to run.
Discard(t) ==
    /\ pc[t] = "dispatch"
    /\ ft[t] # NoFiber
    /\ m_state[ft[t]] \in Dead
    /\ m_activeThreadCount' = m_activeThreadCount - 1
    /\ m_state' = Drop(t, ft[t])
    /\ ft' = [ft EXCEPT ![t] = NoFiber]
    /\ pc' = [pc EXCEPT ![t] = "take"]
    /\ UNCHANGED <<m_fibers, m_stopping, m_autoStop, armed, cb_fiber,
                   idle_fiber, stopper, calls>>

-----------------------------------------------------------------------------
(* The code of the task on thread t.                                       *)

\* Register the running fiber with an event or a timer.
Arm(t) ==
    /\ pc[t] = "exec"
    /\ armed' = armed \cup {Cur(t)}
    /\ pc' = [pc EXCEPT ![t] = "armed"]
    /\ UNCHANGED <<m_fibers, m_stopping, m_autoStop, m_activeThreadCount,
                   m_state, ft, cb_fiber, idle_fiber, stopper, calls>>

\* swapOut() while waiting: the state stays RUNING.
SwapOut(t) ==
    /\ pc[t] = "armed"
    /\ pc' = [pc EXCEPT ![t] = "back"]
    /\ UNCHANGED <<m_fibers, m_stopping, m_autoStop, m_activeThreadCount,
                   m_state, armed, ft, cb_fiber, idle_fiber, stopper, calls>>

\* setState(READY), then swapOut().
Yield(t) ==
    /\ MayYield
    /\ pc[t] = "exec"
    /\ m_state' = [m_state EXCEPT ![Cur(t)] = "READY"]
    /\ pc' = [pc EXCEPT ![t] = "back"]
    /\ UNCHANGED <<m_fibers, m_stopping, m_autoStop, m_activeThreadCount,
                   armed, ft, cb_fiber, idle_fiber, stopper, calls>>

\* mainFunc: the task function returns (TERM) or throws (EXCEPT).  A resumed
\* fiber may do so with its waker still armed; a cb_fiber, which run() reuses
\* at once, never does (every caller of addEvent in the repository swaps out).
Finish(t) ==
    /\ \/ pc[t] = "exec"
       \/ pc[t] = "armed" /\ ft[t] # NoFiber
    /\ \E s \in Dead : m_state' = [m_state EXCEPT ![Cur(t)] = s]
    /\ pc' = [pc EXCEPT ![t] = "back"]
    /\ UNCHANGED <<m_fibers, m_stopping, m_autoStop, m_activeThreadCount,
                   armed, ft, cb_fiber, idle_fiber, stopper, calls>>

-----------------------------------------------------------------------------
\* swapIn() has returned: --m_activeThreadCount.
Back(t) ==
    /\ pc[t] = "back"
    /\ m_activeThreadCount' = m_activeThreadCount - 1
    /\ pc' = [pc EXCEPT ![t] = "settle"]
    /\ UNCHANGED <<m_fibers, m_stopping, m_autoStop, m_state, armed, ft,
                   cb_fiber, idle_fiber, stopper, calls>>

\* Mutant of SettleFiber: setState(HOLD) is missing.
SettleFiberNoHold(t) ==
    /\ pc[t] = "settle"
    /\ ft[t] # NoFiber
    /\ m_fibers' = IF m_state[ft[t]] = "READY"
                   THEN Push(m_fibers, ft[t], AnyThread) ELSE m_fibers
    /\ m_state' = IF m_state[ft[t]] \in Dead THEN Drop(t, ft[t]) ELSE m_state
    /\ ft' = [ft EXCEPT ![t] = NoFiber]
    /\ pc' = [pc EXCEPT ![t] = "take"]
    /\ UNCHANGED <<m_stopping, m_autoStop, m_activeThreadCount, armed,
                   cb_fiber, idle_fiber, stopper, calls>>

\* File a resumed fiber: READY is scheduled again, a finished one is dropped,
\* any other is now HOLD.
SettleFiber(t) ==
    /\ pc[t] = "settle"
    /\ ft[t] # NoFiber
    /\ m_fibers' = IF m_state[ft[t]] = "READY"
                   THEN Push(m_fibers, ft[t], AnyThread) ELSE m_fibers
    /\ m_state' = CASE m_state[ft[t]] = "READY" -> m_state
                    [] m_state[ft[t]] \in Dead  -> Drop(t, ft[t])
                    [] OTHER -> [m_state EXCEPT ![ft[t]] = "HOLD"]
    /\ ft' = [ft EXCEPT ![t] = NoFiber]
    /\ pc' = [pc EXCEPT ![t] = "take"]
    /\ UNCHANGED <<m_stopping, m_autoStop, m_activeThreadCount, armed,
                   cb_fiber, idle_fiber, stopper, calls>>

\* Mutant of SettleCb: a waiting cb_fiber is kept for the next callback.
SettleCbKept(t) ==
    /\ pc[t] = "settle"
    /\ ft[t] = NoFiber
    /\ LET f == cb_fiber[t] IN
       /\ m_fibers' = IF m_state[f] = "READY"
                      THEN Push(m_fibers, f, AnyThread) ELSE m_fibers
       /\ m_state' = CASE m_state[f] = "READY" -> m_state
                       [] m_state[f] \in Dead  -> [m_state EXCEPT ![f] = "INIT"]
                       [] OTHER -> [m_state EXCEPT ![f] = "HOLD"]
    /\ pc' = [pc EXCEPT ![t] = "take"]
    /\ UNCHANGED <<m_stopping, m_autoStop, m_activeThreadCount, armed, ft,
                   cb_fiber, idle_fiber, stopper, calls>>

\* File cb_fiber: a finished one is reset and kept for the next callback.
SettleCb(t) ==
    /\ pc[t] = "settle"
    /\ ft[t] = NoFiber
    /\ LET f == cb_fiber[t] IN
       /\ m_fibers' = IF m_state[f] = "READY"
                      THEN Push(m_fibers, f, AnyThread) ELSE m_fibers
       /\ m_state' = CASE m_state[f] = "READY" -> m_state
                       [] m_state[f] \in Dead  -> [m_state EXCEPT ![f] = "INIT"]
                       [] OTHER -> [m_state EXCEPT ![f] = "HOLD"]
       /\ cb_fiber' = [cb_fiber EXCEPT ![t] =
                          IF m_state[f] \in Dead THEN f ELSE NoFiber]
    /\ pc' = [pc EXCEPT ![t] = "take"]
    /\ UNCHANGED <<m_stopping, m_autoStop, m_activeThreadCount, armed, ft,
                   idle_fiber, stopper, calls>>

-----------------------------------------------------------------------------
\* Mutant of stopping: it does not wait for threads that hold a task.
stoppingBusy == m_autoStop /\ m_stopping /\ m_fibers = <<>>

\* Scheduler::stopping, under m_mutex.
stopping ==
    m_autoStop /\ m_stopping /\ m_activeThreadCount = 0 /\ m_fibers = <<>>

\* Swap into idle(): it returns, and the idle fiber is TERM, once stopping();
\* otherwise it swaps out and is HOLD.
Idle(t) ==
    /\ pc[t] = "none"
    /\ idle_fiber[t] # "TERM"
    /\ idle_fiber' = [idle_fiber EXCEPT ![t] = IF stopping THEN "TERM" ELSE "HOLD"]
    /\ pc' = [pc EXCEPT ![t] = "take"]
    /\ UNCHANGED <<m_fibers, m_stopping, m_autoStop, m_activeThreadCount,
                   m_state, armed, ft, cb_fiber, stopper, calls>>

\* No task and the idle fiber has finished: run() returns, its locals die.
Exit(t) ==
    /\ pc[t] = "none"
    /\ idle_fiber[t] = "TERM"
    /\ pc' = [pc EXCEPT ![t] = "exited"]
    /\ m_state' = IF cb_fiber[t] = NoFiber THEN m_state
                  ELSE [m_state EXCEPT ![cb_fiber[t]] = "NONE"]
    /\ cb_fiber' = [cb_fiber EXCEPT ![t] = NoFiber]
    /\ UNCHANGED <<m_fibers, m_stopping, m_autoStop, m_activeThreadCount,
                   armed, ft, idle_fiber, stopper, calls>>

-----------------------------------------------------------------------------
Run(t) == Take(t) \/ TakeNone(t) \/ SwapIn(t) \/ SwapInCb(t) \/ Discard(t) \/ Back(t)
            \/ SettleFiber(t) \/ SettleCb(t) \/ Idle(t) \/ Exit(t)

TaskCode(t) == Arm(t) \/ SwapOut(t) \/ Yield(t) \/ Finish(t)

Owner == Start \/ StopAuto \/ StopStore \/ Join

Next ==
    \/ Owner
    \/ \E th \in Pins : ScheduleCb(th)
    \/ \E f \in Fibers : Fire(f)
    \/ \E t \in Threads : Run(t) \/ TaskCode(t)

Spec == Init /\ [][Next]_vars

\* Threads are scheduled by the OS, stop() runs to its end, a task that runs
\* leaves the processor, and a fiber that is resumed again and again finishes.
Fairness ==
    /\ WF_vars(StopStore) /\ WF_vars(Join)
    /\ \A t \in Threads : WF_vars(Run(t)) /\ WF_vars(TaskCode(t))
    /\ \A f \in Fibers : SF_vars(\E t \in Threads : Cur(t) = f /\ Finish(t))

FairSpec == Spec /\ Fairness

=============================================================================
