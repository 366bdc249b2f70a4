------------------------------- MODULE IoTimers -------------------------------
(***************************************************************************)
(* How an idle worker of IOManager is woken, by a timer or by a task: the  *)
(* timing half of IOManager::idle (getNextTimer, the conversion of its     *)
(* result into an epoll_wait timeout, listExpiredCb), schedule() and       *)
(* IOManager::tickle through the eventfd, the part of Scheduler::run that  *)
(* looks at the task list, and stopping() (src/src/IoManager.cc,           *)
(* src/src/Scheduler.cc, src/include/scheduler.h).                         *)
(*                                                                         *)
(* Tasks are callbacks for any thread; what one does is to use timers and  *)
(* to schedule others.  Descriptor events are IOManager's subject: here    *)
(* they are other work, for which a worker may stay (Wait).                *)
(***************************************************************************)
EXTENDS TimerManager

CONSTANTS
    Outside,      \* threads that run no tasks; they are joining once stop() is called
    INT,          \* number of values of int (scaled)
    MAX_TIMEOUT,  \* 3000 in the code (scaled)
    MaxTasks,     \* bound: no new task or timer while this many tasks are listed
    Forever       \* the wake-up time of a negative epoll_wait timeout

ASSUME IoAssumption ==
    /\ IsFiniteSet(Timers)
    /\ Workers # {} /\ Workers \cap Outside = {}
    /\ INT \in Nat \ {0} /\ INT % 2 = 0 /\ U64 % INT = 0
    /\ MAX_TIMEOUT \in 1 .. (INT \div 2) - 1
    /\ MaxTasks \in Nat
    /\ Forever \notin Int

VARIABLES
    pc,        \* where each thread is
    m_fibers,  \* the number of tasks listed
    timeout,   \* per worker: the int passed to epoll_wait
    until,     \* per worker: when epoll_wait times out (0 when not waiting)
    edge,      \* epoll has an undelivered edge of m_wakeupfd
    woken,     \* the workers whose epoll_wait reported m_wakeupfd
    quit,      \* stop() has been called
    exact,     \* history: per worker, its last getNextTimer told the truth
    dropped,   \* history: with a task listed, a tickle was dropped that a worker, not
               \* idle yet, missed
    over,      \* the workers whose idle fiber is TERM: run() ends when it finds no task
    overlooked \* history: timers armed after the last look that every worker left had

wakeVars == <<timeout, until, edge, woken, quit, exact, dropped>>
iovars == <<tvars, pc, m_fibers, over, overlooked, wakeVars>>

Threads == Workers \cup Outside
Home(t) == IF t \in Workers THEN "task" ELSE "out"
InIdle == {"next", "leaving", "wait", "list", "deliver", "notify", "drain"}
Active == {"took", "task", "tickle"}

\* (int)x for a uint64_t x
ToInt(x) == LET y == x % INT IN IF y < INT \div 2 THEN y ELSE y - INT

\* Mutant of WaitFor: MAX_TIMEOUT is no upper bound.
WaitUncapped(next_timeout) == ToInt(next_timeout)

\* The timeout argument of epoll_wait.
WaitFor(next_timeout) ==
    IF next_timeout # U64 - 1 /\ ToInt(next_timeout) <= MAX_TIMEOUT
    THEN ToInt(next_timeout) ELSE MAX_TIMEOUT

WakeTime(ms) == IF ms < 0 THEN Forever ELSE clock + ms

hasIdleThreads == \E w \in Workers : pc[w] \in InIdle

\* Types; the epoll_wait timeout never exceeds MAX_TIMEOUT, which is what picks up
\* a task or a timer whose tickle was dropped.
IoTypeOK ==
    /\ TypeOK
    /\ pc \in [Threads -> {"out", "run", "found", "exited"} \cup Active \cup InIdle]
    /\ m_fibers \in Nat
    /\ timeout \in [Workers -> -(INT \div 2) .. MAX_TIMEOUT]
    /\ until \in [Workers -> (0 .. MaxClock + MAX_TIMEOUT) \cup {Forever}]
    /\ edge \in BOOLEAN /\ quit \in BOOLEAN /\ dropped \in BOOLEAN
    /\ woken \subseteq Workers /\ over \subseteq Workers /\ overlooked \subseteq Timers
    /\ exact \in [Workers -> BOOLEAN]

IoInit ==
    /\ Init
    /\ pc = [t \in Threads |-> IF t \in Workers THEN "run" ELSE "out"]
    /\ m_fibers = 0
    /\ timeout = [w \in Workers |-> 0]
    /\ until = [w \in Workers |-> 0]
    /\ edge = FALSE
    /\ woken = {}
    /\ quit = FALSE
    /\ exact = [w \in Workers |-> TRUE]
    /\ dropped = FALSE
    /\ over = {}
    /\ overlooked = {}

-----------------------------------------------------------------------------
(* Callers: tasks on workers, and other threads                            *)

\* A thread calls addTimer or reset; if the timer is the new first one it goes
\* on, after the unlock, to onTimerInsertAtFront().
Arm(t, x) ==
    /\ pc[t] = Home(t) /\ (t \in Outside => ~quit)
    /\ \/ /\ m_fibers < MaxTasks
          /\ \E ms \in Intervals, recurring \in Recurring : AddTimer(x, ms, recurring)
       \/ \E ms \in Intervals, from_now \in BOOLEAN : Reset(x, ms, from_now)
    /\ pc' = [pc EXCEPT ![t] = IF AtFront(x, m_next'[x]) THEN "tickle" ELSE @]
    /\ overlooked' = IF \E w \in Workers \ over : pc[w] # "leaving"
                     THEN overlooked \ {x} ELSE overlooked \cup {x}
    /\ UNCHANGED <<m_fibers, over, wakeVars>>

\* A thread calls cancel or refresh.
Disarm(t, x) ==
    /\ pc[t] = Home(t) /\ (t \in Outside => ~quit)
    /\ Cancel(x) \/ Refresh(x)
    /\ UNCHANGED <<pc, m_fibers, overlooked, over, wakeVars>>

\* Mutant of Schedule: the list is tested after the task is in it.
ScheduleLate(t) ==
    /\ pc[t] = Home(t) /\ (t \in Outside => ~quit)
    /\ m_fibers < MaxTasks
    /\ m_fibers' = m_fibers + 1
    /\ pc' = [pc EXCEPT ![t] = IF m_fibers' = 0 THEN "tickle" ELSE @]
    /\ UNCHANGED <<tvars, overlooked, over, wakeVars>>

\* schedule(cb): only the first task of the list is tickled for, after the unlock.
Schedule(t) ==
    /\ pc[t] = Home(t) /\ (t \in Outside => ~quit)
    /\ m_fibers < MaxTasks
    /\ m_fibers' = m_fibers + 1
    /\ pc' = [pc EXCEPT ![t] = IF m_fibers = 0 THEN "tickle" ELSE @]
    /\ UNCHANGED <<tvars, overlooked, over, wakeVars>>

\* IOManager::tickle, from addTimer or schedule ("tickle"), from run() after it
\* took a task ("took"), and from idle() after it scheduled the callbacks of
\* timers ("notify").  It is dropped when no thread is idle.
Tickle(t) ==
    /\ pc[t] \in {"tickle", "took", "notify"}
    /\ edge' = (edge \/ hasIdleThreads)
    /\ dropped' = (dropped \/ (/\ m_fibers > 0 /\ ~hasIdleThreads
                               /\ \E w \in Workers : pc[w] = "found"))
    /\ pc' = [pc EXCEPT ![t] = IF @ = "notify" THEN "drain" ELSE Home(t)]
    /\ UNCHANGED <<tvars, m_fibers, overlooked, over, timeout, until, woken, quit, exact>>

\* stop(), up to its joining the threads.
Stop ==
    /\ ~quit /\ \A t \in Outside : pc[t] = "out"
    /\ quit' = TRUE
    /\ edge' = (edge \/ hasIdleThreads)
    /\ UNCHANGED <<tvars, pc, m_fibers, overlooked, over, timeout, until, woken, exact, dropped>>

-----------------------------------------------------------------------------
(* Scheduler::run                                                          *)

\* Take the first task, and tickle if there are more.
Take(w) ==
    /\ pc[w] = "run" /\ m_fibers > 0
    /\ m_fibers' = m_fibers - 1
    /\ dropped' = (dropped /\ m_fibers' > 0)
    /\ pc' = [pc EXCEPT ![w] = IF m_fibers' > 0 THEN "took" ELSE "task"]
    /\ UNCHANGED <<tvars, overlooked, over, timeout, until, edge, woken, quit, exact>>

\* No task: the thread ends if its idle fiber did, and else is on its way to idle(),
\* not counted as idle yet.
TakeNone(w) ==
    /\ pc[w] = "run" /\ m_fibers = 0
    /\ pc' = [pc EXCEPT ![w] = IF w \in over THEN "exited" ELSE "found"]
    /\ UNCHANGED <<tvars, m_fibers, overlooked, over, wakeVars>>

\* The task returns.
TaskEnds(w) ==
    /\ pc[w] = "task"
    /\ pc' = [pc EXCEPT ![w] = "run"]
    /\ UNCHANGED <<tvars, m_fibers, overlooked, over, wakeVars>>

\* ++m_idleThreadCount; idle_fiber->swapIn()
EnterIdle(w) ==
    /\ pc[w] = "found"
    /\ pc' = [pc EXCEPT ![w] = "next"]
    /\ UNCHANGED <<tvars, m_fibers, overlooked, over, wakeVars>>

-----------------------------------------------------------------------------
(* IOManager::idle                                                         *)

\* Whether getNextTimer's result, read as an int, is the distance it stands for.
Exact == m_timers = {} \/
         m_next[First(m_next, m_timers)] - clock \in 0 .. (INT \div 2) - 1

Block(w, ms) ==
    /\ timeout' = [timeout EXCEPT ![w] = ms]
    /\ until' = [until EXCEPT ![w] = WakeTime(ms)]
    /\ pc' = [pc EXCEPT ![w] = "wait"]
    /\ UNCHANGED <<m_fibers, overlooked, over, edge, woken, quit, dropped>>

\* Mutant of NoTimers: the timers' part of the condition is forgotten.
NoTimersAsked(w) ==
    /\ pc[w] = "next"
    /\ GetNextTimer
    /\ exact' = [exact EXCEPT ![w] = Exact]
    /\ pc' = [pc EXCEPT ![w] = "leaving"]
    /\ UNCHANGED <<m_fibers, overlooked, over, timeout, until, edge, woken, quit, dropped>>

\* stopping(next_timeout): getNextTimer says ~0ull, so the other conditions are
\* read, without the timers' lock.
NoTimers(w) ==
    /\ pc[w] = "next"
    /\ NextTimer = U64 - 1
    /\ GetNextTimer
    /\ exact' = [exact EXCEPT ![w] = Exact]
    /\ pc' = [pc EXCEPT ![w] = "leaving"]
    /\ UNCHANGED <<m_fibers, overlooked, over, timeout, until, edge, woken, quit, dropped>>

\* Scheduler::stopping() is true as well: idle() returns, and run() goes round again
\* for the tasks that are listed by now ...
LeaveIdle(w) ==
    /\ pc[w] = "leaving"
    /\ quit /\ m_fibers = 0 /\ \A v \in Workers : pc[v] \notin Active
    /\ pc' = [pc EXCEPT ![w] = "run"]
    /\ over' = over \cup {w}
    /\ UNCHANGED <<tvars, m_fibers, overlooked, wakeVars>>

\* ... or it is false, or m_pendingEventCount is not 0.
WaitLong(w) ==
    /\ pc[w] = "leaving"
    /\ Block(w, MAX_TIMEOUT)
    /\ UNCHANGED <<tvars, exact>>

\* There is a timer: compute the timeout and call epoll_wait.
Wait(w) ==
    /\ pc[w] = "next"
    /\ NextTimer # U64 - 1
    /\ GetNextTimer
    /\ exact' = [exact EXCEPT ![w] = Exact]
    /\ Block(w, WaitFor(NextTimer))

\* EINTR: wait again, for the whole timeout.
Interrupt(w) ==
    /\ pc[w] = "wait"
    /\ until' = [until EXCEPT ![w] = WakeTime(timeout[w])]
    /\ exact' = [exact EXCEPT ![w] = exact[w] /\ until'[w] = until[w]]
    /\ UNCHANGED <<tvars, pc, m_fibers, overlooked, over, timeout, edge, woken, quit, dropped>>

\* epoll_wait returns: one thread gets the edge of m_wakeupfd, or time is up.
\* listExpiredCb then reads the clock.
EpollReturn(w) ==
    /\ pc[w] = "wait"
    /\ edge \/ (until[w] # Forever /\ clock >= until[w])
    /\ edge' = FALSE
    /\ woken' = IF edge THEN woken \cup {w} ELSE woken
    /\ ReadClock(w)
    /\ pc' = [pc EXCEPT ![w] = "list"]
    /\ timeout' = [timeout EXCEPT ![w] = 0]
    /\ until' = [until EXCEPT ![w] = 0]
    /\ exact' = [exact EXCEPT ![w] = TRUE]
    /\ UNCHANGED <<m_fibers, overlooked, over, quit, dropped>>

\* listExpiredCb under the lock, and schedule(cbs.begin(), cbs.end()).
ListCb(w) ==
    /\ \/ /\ pc[w] = "list" /\ ListExpired(w)
          /\ pc' = [pc EXCEPT ![w] = IF expired'[w] = {} THEN "drain" ELSE "deliver"]
          /\ UNCHANGED m_fibers
       \/ /\ pc[w] = "deliver" /\ Deliver(w)
          /\ m_fibers' = m_fibers + Cardinality(expired[w])
          /\ pc' = [pc EXCEPT ![w] = IF m_fibers = 0 THEN "notify" ELSE "drain"]
    /\ UNCHANGED <<overlooked, over, wakeVars>>

\* A worker that got the edge reads m_wakeupfd until it is empty, later writes
\* included; all go back to run().
Drain(w) ==
    /\ pc[w] = "drain"
    /\ edge' = (edge /\ w \notin woken)
    /\ woken' = woken \ {w}
    /\ pc' = [pc EXCEPT ![w] = "run"]
    /\ UNCHANGED <<tvars, m_fibers, overlooked, over, timeout, until, quit, exact, dropped>>

Clock == Tick /\ UNCHANGED <<pc, m_fibers, overlooked, over, wakeVars>>

-----------------------------------------------------------------------------
Caller(t) == Schedule(t) \/ Tickle(t) \/ \E x \in Timers : Arm(t, x) \/ Disarm(t, x)

Run(w) == Take(w) \/ TakeNone(w) \/ TaskEnds(w) \/ EnterIdle(w)

Idle(w) == \/ NoTimers(w) \/ LeaveIdle(w) \/ WaitLong(w) \/ Wait(w)
           \/ Interrupt(w) \/ EpollReturn(w) \/ ListCb(w) \/ Drain(w)

\* The threads are joined: the program may end here.
Ended == \A w \in Workers : pc[w] = "exited"

IoNext ==
    \/ Clock
    \/ Stop
    \/ \E t \in Threads : Caller(t)
    \/ \E w \in Workers : Run(w) \/ Idle(w)

IoSpec == IoInit /\ [][IoNext]_iovars

-----------------------------------------------------------------------------
Asleep == /\ \A w \in Workers : pc[w] \in {"wait", "exited"}
          /\ \E w \in Workers : pc[w] = "wait"
          /\ \A t \in Outside : pc[t] # "tickle"
          /\ ~edge

\* No interleaving of addTimer, reset, getNextTimer and the m_tickled flag loses a
\* new first timer: when all workers are blocked and no wake-up is on its way,
\* one of them wakes up in time for the first timer -- unless a worker's last
\* getNextTimer found a timer that was overdue or beyond the range of int, or a
\* signal restarted its epoll_wait.
FirstTimerWakes ==
    Asleep /\ m_timers # {} =>
        \E w \in Workers :
            \/ pc[w] = "wait" /\ until[w] # Forever
               /\ until[w] <= m_next[First(m_next, m_timers)]
            \/ ~exact[w]

\* schedule() tickles only for the first task of the list, tickle() only while a
\* thread is idle, run() only if it leaves tasks behind, and one edge of the
\* eventfd wakes one thread, whose draining swallows later ones.  Still a task
\* waits while all workers sleep only if its tickle fell between a worker's look at
\* the list and its ++m_idleThreadCount; and then a timeout ends the wait, unless
\* getNextTimer was wrong.
TaskWakes ==
    Asleep /\ m_fibers > 0 =>
        dropped /\ \E w \in Workers : ~exact[w] \/ (pc[w] = "wait" /\ until[w] # Forever)

\* stop() leaves nothing behind: stopping() reads the timers, the active threads and
\* the list one after the other, while tasks arm timers, timers become tasks, other
\* workers leave, and run() goes round again with its idle fiber ended; when the last
\* thread has ended, no task and no handed-out callback remains, and no timer but one
\* armed when all workers had seen the timers for the last time: by a thread that is
\* no worker, between getNextTimer and the rest of stopping(), or by a task in a
\* last round of run() -- unless getNextTimer was wrong.
LastOut ==
    Ended => \/ m_fibers = 0 /\ m_timers \subseteq overlooked
                /\ \A w \in Workers : expired[w] = {}
             \/ \E w \in Workers : ~exact[w]

\* getNextTimer returns the time until the next timer: so while a timer is due,
\* the workers are never all blocked without a timeout.
DueTimerWakes ==
    ~ /\ Asleep
      /\ \A w \in Workers : until[w] = Forever
      /\ \E x \in m_timers : m_next[x] <= clock

=============================================================================
