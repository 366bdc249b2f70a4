---------------------------- MODULE SchedulerProps ----------------------------
(***************************************************************************)
(* What Scheduler.tla has to satisfy.                                      *)
(***************************************************************************)
EXTENDS Scheduler

\* Every variable stays in its type; in particular the unsigned
\* m_activeThreadCount never wraps below zero.
TypeOK ==
    /\ m_fibers \in Seq(Task)
    /\ m_stopping \in BOOLEAN /\ m_autoStop \in BOOLEAN
    /\ m_activeThreadCount \in Nat
    /\ m_state \in [Fibers -> FiberState]
    /\ armed \subseteq Fibers
    /\ pc \in [Threads -> PC]
    /\ ft \in [Threads -> Fibers \cup {NoFiber}]
    /\ cb_fiber \in [Threads -> Fibers \cup {NoFiber}]
    /\ idle_fiber \in [Threads -> {"RUNING", "HOLD", "TERM"}]
    /\ stopper \in {"none", "auto", "join"}
    /\ calls \in 0 .. MaxCalls

\* No fiber's stack is ever used by two threads: a thread that is on a fiber, or
\* has taken a live fiber to swap into, shares it with no other thread -- even
\* though a waker may schedule the fiber before it has swapped out and run()
\* only looks at a state that other threads write outside m_mutex.
Claims(t, f) == \/ pc[t] \in OnFiber /\ Cur(t) = f
                \/ pc[t] = "dispatch" /\ ft[t] = f
OneRunner ==
    \A f \in Fibers : m_state[f] \notin Dead =>
        \A t, u \in Threads : Claims(t, f) /\ Claims(u, f) => t = u

\* A suspended fiber is never forgotten and never woken twice: exactly one of
\* its waker, one task list entry, or one thread about to resume it has it; and
\* a fiber left RUNING (which run() skips) always has a thread that will settle it.
Wakeups(f) ==
    {<<"waker", g>> : g \in armed \cap {f}}
    \cup {<<"entry", i>> : i \in {j \in DOMAIN m_fibers : m_fibers[j].fiber = f}}
    \cup {<<"thread", t>> : t \in {u \in Threads : pc[u] = "dispatch" /\ ft[u] = f}}
NoLostWakeup ==
    \A f \in Fibers :
        /\ m_state[f] = "HOLD" => \E x \in Wakeups(f) : Wakeups(f) = {x}
        /\ m_state[f] = "RUNING" =>
             \E t \in Threads : pc[t] \in OnFiber /\ Cur(t) = f

\* m_activeThreadCount, which stopping() trusts, counts exactly the threads that
\* hold a task they have taken off the list and not yet finished with.
Active == {t \in Threads : pc[t] \in {"dispatch", "exec", "armed", "back"}}
ActiveCount == m_activeThreadCount = Cardinality(Active)

-----------------------------------------------------------------------------
(* The inductive invariant behind OneRunner and NoLostWakeup.              *)

\* The fibers that will be scheduled, or are scheduled.
Tokens == {f \in Fibers : f \in armed \/ Queued(f)}

\* No fiber is on the list twice, or on it while its waker is still armed.
TokensUnique ==
    /\ \A i, j \in DOMAIN m_fibers :
          m_fibers[i].fiber = m_fibers[j].fiber /\ m_fibers[i].fiber # NoFiber => i = j
    /\ \A f \in armed : ~Queued(f)

\* Outside stop(), m_stopping means that no thread exists.
StoppedOff ==
    m_stopping /\ stopper = "none" => \A t \in Threads : pc[t] = "off"

\* What run()'s locals are at each point of the loop.
ThreadInv(t) ==
    /\ pc[t] \in {"off", "take", "none", "exited"} => ft[t] = NoFiber
    /\ pc[t] \in {"off", "exited"} => cb_fiber[t] = NoFiber
    /\ pc[t] = "dispatch" /\ ft[t] # NoFiber =>
          m_state[ft[t]] \in {"HOLD", "READY"} \cup Dead /\ ft[t] \notin Tokens
    /\ pc[t] \in OnFiber => Cur(t) # NoFiber
    /\ pc[t] = "exec" => m_state[Cur(t)] = "RUNING" /\ Cur(t) \notin Tokens
    /\ pc[t] = "armed" => m_state[Cur(t)] = "RUNING" /\ Cur(t) \in Tokens
    /\ pc[t] \in {"back", "settle"} =>
          \/ m_state[Cur(t)] = "RUNING" /\ Cur(t) \in Tokens
          \/ m_state[Cur(t)] = "READY" /\ Cur(t) \notin Tokens
          \/ m_state[Cur(t)] \in Dead /\ (ft[t] = NoFiber => Cur(t) \notin Tokens)
    /\ cb_fiber[t] # NoFiber /\ ~(pc[t] \in OnFiber /\ ft[t] = NoFiber) =>
          m_state[cb_fiber[t]] = "INIT" /\ cb_fiber[t] \notin Tokens

\* Who may have a reference to f in each of its states.
FiberInv(f) ==
    /\ \A t, u \in Threads : cb_fiber[t] = f => ft[u] # f /\ (cb_fiber[u] = f => u = t)
    /\ m_state[f] \notin Dead => \A t, u \in Threads : ft[t] = f /\ ft[u] = f => t = u
    /\ f \in Tokens => m_state[f] \notin {"NONE", "INIT"}
    /\ f \in Tokens /\ m_state[f] \notin {"RUNING"} \cup Dead =>
          \A t \in Threads : ft[t] # f /\ cb_fiber[t] # f
    /\ m_state[f] = "RUNING" => \E t \in Threads : pc[t] \in OnFiber /\ Cur(t) = f
    /\ m_state[f] = "HOLD" =>
          f \in Tokens \/ \E t \in Threads : pc[t] = "dispatch" /\ ft[t] = f
    /\ m_state[f] = "NONE" => \A t \in Threads : ft[t] # f /\ cb_fiber[t] # f

\* Every wake-up is held exactly once and every Fiber has the references its
\* state says: what the unlocked reads of m_state in run() rely on.
SchedInv ==
    /\ TypeOK
    /\ ActiveCount
    /\ StoppedOff
    /\ TokensUnique
    /\ \A t \in Threads : ThreadInv(t)
    /\ \A f \in Fibers : FiberInv(f)

-----------------------------------------------------------------------------
(* stop() while tasks yield.  A task that yields is for a moment neither   *)
(* listed nor counted (Scheduler.cc:117-119), and stopping() may be true   *)
(* in that moment though there is work left.                               *)

VARIABLE early   \* history: the threads whose idle() last ended in such a moment

Yielding == \E t \in Threads : pc[t] = "settle" /\ m_state[Cur(t)] = "READY"

InitEarly == Init /\ early = {}
NextEarly ==
    /\ Next
    /\ early' = {t \in Threads : /\ idle_fiber'[t] = "TERM"
                                 /\ IF idle_fiber[t] = "TERM" THEN t \in early ELSE Yielding}
FairSpecEarly == InitEarly /\ [][NextEarly]_<<vars, early>> /\ Fairness

\* What a task schedules for a thread that has ended so early is for nobody.
Stranded == {i \in DOMAIN m_fibers : /\ m_fibers[i].thread \in early
                                     /\ pc[m_fibers[i].thread] = "exited"}

\* stop() drains: when it has joined the threads of a started scheduler, no task is left
\* on the list -- a thread that ended never strands what a slower thread schedules
\* afterwards, unless it ended in the middle of a yield.
StopDrains ==
    [][Join /\ (\E t \in Threads : pc[t] = "exited") => DOMAIN m_fibers = Stranded]_vars

\* stop() returns: every worker thread gets to leave run(), unless a task is stranded.
StopReturns == stopper = "join" ~> stopper = "none" \/ Stranded # {}

\* A woken fiber is taken off the list eventually, unless the threads are gone.
WokenRuns ==
    \A f \in Fibers :
        Queued(f) ~> (~Queued(f) \/ \A t \in Threads : pc[t] \in {"off", "exited"})

=============================================================================
