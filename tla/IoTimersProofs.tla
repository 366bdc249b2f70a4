---------------------------- MODULE IoTimersProofs ----------------------------
(***************************************************************************)
(* Proofs about the idle workers of IOManager, for any number of workers,  *)
(* other threads, timers and tasks: no new first timer and no task is left *)
(* to workers that all sleep, and the last worker leaves nothing behind.   *)
(***************************************************************************)
EXTENDS IoTimers, TimerManagerProofs, FiniteSetTheorems, WellFoundedInduction

\* No time a caller asks for lies beyond the range of uint64_t.
NoWrap == \A ms \in Intervals : MaxClock + ms < U64

-----------------------------------------------------------------------------
(* The inductive invariant                                                 *)

\* A worker that looks at the timers again before it blocks ...
Up(w) == w \notin over /\ pc[w] \notin {"leaving", "wait"}

\* ... and one that looks at the list of tasks again.
Looking(w) == pc[w] \notin {"found", "next", "leaving", "wait", "exited"}

\* A wake-up is on its way to a worker that is idle.
Signalled ==
    \/ edge /\ \E w \in Workers : pc[w] \in {"next", "leaving", "wait"}
    \/ \E t \in Outside : pc[t] = "tickle"

\* What a waiting worker's until stands for.
Waits ==
    \A w \in Workers :
        /\ pc[w] = "wait" => until[w] = Forever \/ until[w] \in Nat
        /\ pc[w] = "wait" /\ until[w] = Forever <=> timeout[w] < 0
        /\ exact[w] => timeout[w] >= 0

\* stop(), the threads outside, and the workers that are in their last rounds of run();
\* callbacks are handed out on the way through idle().
Stopped ==
    /\ \A t \in Outside : pc[t] \in {"out", "tickle"} /\ (quit => pc[t] = "out")
    /\ \A w \in Workers : /\ pc[w] # "out" /\ (pc[w] = "exited" => w \in over)
                          /\ w \in over => quit /\ pc[w] \in {"run", "exited"} \cup Active
    /\ \A w \in Workers : expired[w] # {} => pc[w] = "deliver"

\* The first timer is attended to.
Covered == \E w \in Workers :
    \/ ~exact[w]
    \/ /\ pc[w] = "wait" /\ until[w] # Forever
       /\ \A x \in m_timers : until[w] <= m_next[x]

FirstAttended ==
    \/ Workers \subseteq over \/ \E w \in Workers : Up(w)
    \/ Signalled \/ \E w \in over : pc[w] = "tickle"
    \/ ~m_tickled /\ (m_timers = {} \/ Covered)

\* A task is attended to.
TaskAttended ==
    m_fibers > 0 => \/ (\E w \in Workers : Looking(w)) \/ Signalled \/ dropped

\* The workers that are left have seen all timers but the overlooked ones.
NothingLeft ==
    /\ (\A w \in Workers \ over : pc[w] = "leaving")
         => m_timers \subseteq overlooked \/ \E w \in Workers : ~exact[w]
    /\ Ended => m_fibers = 0

\* A timer started at its last start, or before now.
Started ==
    /\ steady
    /\ \A x \in m_timers : /\ m_ms[x] \in Intervals
                           /\ m_next[x] - m_ms[x] \in 0 .. clock

IoInv ==
    /\ IoTypeOK
    /\ ClockInv
    /\ Waits
    /\ Stopped
    /\ TaskAttended
    /\ NothingLeft

-----------------------------------------------------------------------------
(* The order of the timers                                                 *)

\* Every set of natural numbers has a least element.
LEMMA Least ==
    ASSUME NEW T \in SUBSET Nat, T # {}
    PROVE  \E n \in T : \A k \in T : n <= k
<1> DEFINE R == {ss \in Nat \X Nat : ss[1] < ss[2]}
<1>1. IsWellFoundedOn(R, Nat)
  BY NatLessThanWellFounded, Zenon DEF OpToRel
<1>2. PICK n \in T : \A k \in T : ~(<<k, n>> \in R)
  <2> HIDE DEF R
  <2> QED
    BY <1>1, WFMin
<1>3. ASSUME NEW k \in T, k < n PROVE FALSE
  <2>1. <<k, n>> \in Nat \X Nat /\ <<k, n>>[1] < <<k, n>>[2]
    BY <1>3
  <2>2. <<k, n>> \in R
    BY <2>1
  <2>3. QED
    BY <1>2, <2>2
<1>4. QED
  BY <1>3

\* *m_timers.begin() is one of the timers, and none expires before it.
LEMMA FirstFacts ==
    ASSUME NEW next \in [Timers -> Nat], NEW S \in SUBSET Timers, S # {}
    PROVE  /\ First(next, S) \in S
           /\ \A b \in S : next[First(next, S)] <= next[b]
<1>0. Timers \subseteq Nat
  BY TimerAssumption
<1> DEFINE T == {next[a] : a \in S}
<1>1. PICK n \in T : \A k \in T : n <= k
  <2>1. T \in SUBSET Nat /\ T # {}
    OBVIOUS
  <2>2. QED
    BY <2>1, Least
<1> DEFINE A == {a \in S : next[a] = n}
<1>2. PICK a \in A : \A b \in A : a <= b
  <2>1. A \in SUBSET Nat /\ A # {}
    BY <1>0, <1>1
  <2>2. QED
    BY <2>1, Least
<1>3. a \in S /\ \A b \in S \ {a} : Before(next, a, b)
  <2> SUFFICES ASSUME NEW b \in S \ {a} PROVE Before(next, a, b)
    BY <1>2
  <2>1. next[a] = n /\ n <= next[b] /\ n \in Nat /\ next[b] \in Nat /\ a \in Nat /\ b \in Nat
    BY <1>0, <1>1, <1>2
  <2>2. CASE next[b] = n
    BY <1>2, <2>1, <2>2 DEF Before
  <2>3. CASE next[b] # n
    BY <2>1, <2>3 DEF Before
  <2>4. QED
    BY <2>2, <2>3
<1>4. /\ First(next, S) \in S
      /\ \A b \in S \ {First(next, S)} : Before(next, First(next, S), b)
  BY <1>3 DEF First
<1>5. QED
  BY <1>4 DEF Before

\* A timer on its own is the first one.
LEMMA FirstOfOne ==
    ASSUME NEW next, NEW x
    PROVE  First(next, {x}) = x
BY DEF First

-----------------------------------------------------------------------------
(* Timeouts                                                                *)

LEMMA ToIntFacts ==
    /\ \A x \in Nat : ToInt(x) \in -(INT \div 2) .. (INT \div 2) - 1
    /\ \A x \in 0 .. (INT \div 2) - 1 : ToInt(x) = x
BY IoAssumption DEF ToInt

\* What idle() gives epoll_wait is at most MAX_TIMEOUT, and at most the distance to a
\* first timer that is not overdue or too far.
LEMMA WaitForFacts ==
    /\ \A x \in Nat : WaitFor(x) \in -(INT \div 2) .. MAX_TIMEOUT
    /\ \A x \in 0 .. (INT \div 2) - 1 : WaitFor(x) \in 0 .. x
<1>1. ASSUME NEW x \in Nat PROVE WaitFor(x) \in -(INT \div 2) .. MAX_TIMEOUT
  <2>1. ToInt(x) \in -(INT \div 2) .. (INT \div 2) - 1
    BY ToIntFacts
  <2>2. QED
    BY <2>1, IoAssumption DEF WaitFor
<1>2. ASSUME NEW x \in 0 .. (INT \div 2) - 1 PROVE WaitFor(x) \in 0 .. x
  <2>1. ToInt(x) = x
    BY ToIntFacts
  <2>2. x < U64 - 1
    <3>1. INT <= U64
      BY IoAssumption, TimerAssumption
    <3>2. QED
      BY <3>1, IoAssumption, TimerAssumption
  <2>3. QED
    BY <2>1, <2>2, IoAssumption DEF WaitFor
<1>3. QED
  BY <1>1, <1>2

\* An int that is not negative fits into a uint64_t.
LEMMA IntInRange == 0 .. (INT \div 2) - 1 \subseteq 0 .. U64 - 1
<1>1. INT <= U64
  BY IoAssumption, TimerAssumption
<1>2. QED
  BY <1>1, IoAssumption, TimerAssumption

LEMMA FirstType ==
    TypeOK /\ m_timers # {} => /\ First(m_next, m_timers) \in m_timers
                              /\ m_next[First(m_next, m_timers)] \in Nat
                              /\ \A x \in m_timers : m_next[First(m_next, m_timers)] <= m_next[x]
<1> SUFFICES ASSUME TypeOK, m_timers # {}
             PROVE  /\ First(m_next, m_timers) \in m_timers
                    /\ m_next[First(m_next, m_timers)] \in Nat
                    /\ \A x \in m_timers : m_next[First(m_next, m_timers)] <= m_next[x]
  OBVIOUS
<1>1. m_next \in [Timers -> Nat] /\ m_timers \in SUBSET Timers
  BY TimerAssumption DEF TypeOK
<1>2. QED
  BY <1>1, FirstFacts

LEMMA NextTimerType == TypeOK => NextTimer \in 0 .. U64 - 1
<1> SUFFICES ASSUME TypeOK PROVE NextTimer \in 0 .. U64 - 1
  OBVIOUS
<1>1. CASE m_timers = {}
  BY <1>1, TimerAssumption DEF NextTimer
<1>2. CASE m_timers # {}
  <2>1. clock \in Nat
    BY TimerAssumption DEF TypeOK
  <2>2. m_next[First(m_next, m_timers)] \in Nat
    BY <1>2, FirstType
  <2> DEFINE first == m_next[First(m_next, m_timers)]
  <2>3. U(first - clock) \in 0 .. U64 - 1
    BY <2>1, <2>2, UFacts
  <2>4. 0 \in 0 .. U64 - 1
    BY TimerAssumption
  <2>5. QED
    BY <1>2, <2>3, <2>4 DEF NextTimer
<1>3. QED
  BY <1>1, <1>2

\* A getNextTimer that tells the truth says ~0ull only if there is no timer, and gives a
\* timeout that ends before the first one.
LEMMA ExactFacts ==
    TypeOK /\ Exact =>
        /\ NextTimer = U64 - 1 => m_timers = {}
        /\ NextTimer # U64 - 1 =>
              /\ WaitFor(NextTimer) \in Nat
              /\ \A x \in m_timers : clock + WaitFor(NextTimer) <= m_next[x]
<1> SUFFICES ASSUME TypeOK, Exact, m_timers # {}
             PROVE  /\ NextTimer # U64 - 1
                    /\ WaitFor(NextTimer) \in Nat
                    /\ \A x \in m_timers : clock + WaitFor(NextTimer) <= m_next[x]
  BY DEF NextTimer
<1> DEFINE first == m_next[First(m_next, m_timers)]
<1>1. first - clock \in 0 .. (INT \div 2) - 1
  BY DEF Exact
<1>2. first \in Nat /\ clock \in Nat /\ \A x \in m_timers : first <= m_next[x]
  BY FirstType, TimerAssumption DEF TypeOK
<1>3. \A x \in m_timers : m_next[x] \in Nat
  BY TimerAssumption DEF TypeOK
<1>4. NextTimer = first - clock
  <2>1. U(first - clock) = first - clock
    BY <1>1, IntInRange, UFacts
  <2>2. QED
    BY <1>2, <2>1 DEF NextTimer
<1> HIDE DEF first
<1>5. WaitFor(NextTimer) \in 0 .. first - clock
  BY <1>1, <1>4, WaitForFacts
<1>6. NextTimer < U64 - 1
  <2>1. INT <= U64
    BY IoAssumption, TimerAssumption
  <2>2. QED
    BY <1>1, <1>4, <2>1, IoAssumption, TimerAssumption
<1>7. QED
  BY <1>2, <1>3, <1>5, <1>6, TimerAssumption

-----------------------------------------------------------------------------
(* To the timers, the steps of threads and workers are TimerManager's      *)

LEMMA TimersStep == [IoNext]_iovars => [Next]_tvars
<1> SUFFICES ASSUME [IoNext]_iovars PROVE [Next]_tvars
  OBVIOUS
<1>1. CASE Clock
  BY <1>1 DEF Clock, Next
<1>2. CASE UNCHANGED tvars
  BY <1>2
<1>3. ASSUME NEW t \in Threads, Caller(t) PROVE [Next]_tvars
  <2>1. ASSUME NEW x \in Timers, Arm(t, x) \/ Disarm(t, x) PROVE Next
    BY <2>1 DEF Arm, Disarm, Next, User
  <2>2. QED
    BY <1>2, <1>3, <2>1 DEF Caller, Schedule, Tickle
<1>4. ASSUME NEW w \in Workers, Run(w) PROVE UNCHANGED tvars
  BY <1>4 DEF Run, Take, TakeNone, TaskEnds, EnterIdle
<1>5. ASSUME NEW w \in Workers, Idle(w) PROVE [Next]_tvars
  <2>1. CASE NoTimers(w) \/ Wait(w)
    BY <2>1 DEF NoTimers, Wait, Next
  <2>2. CASE EpollReturn(w)
    BY <2>2 DEF EpollReturn, Next
  <2>3. CASE ListCb(w)
    BY <2>3 DEF ListCb, Next
  <2>4. QED
    BY <1>2, <1>5, <2>1, <2>2, <2>3 DEF Idle, LeaveIdle, WaitLong, Interrupt, Drain
<1>6. QED
  BY <1>1, <1>2, <1>3, <1>4, <1>5 DEF IoNext, Stop, iovars

-----------------------------------------------------------------------------
(* Types                                                                   *)

LEMMA BlockType ==
    ASSUME IoTypeOK, NEW w \in Workers, NEW ms \in -(INT \div 2) .. MAX_TIMEOUT, Block(w, ms)
    PROVE  /\ timeout' \in [Workers -> -(INT \div 2) .. MAX_TIMEOUT]
           /\ until' \in [Workers -> (0 .. MaxClock + MAX_TIMEOUT) \cup {Forever}]
<1>1. WakeTime(ms) \in (0 .. MaxClock + MAX_TIMEOUT) \cup {Forever}
  BY IoAssumption, TimerAssumption DEF WakeTime, IoTypeOK, TypeOK
<1>2. QED
  BY <1>1 DEF Block, IoTypeOK

LEMMA IoTypeStep == IoTypeOK /\ [IoNext]_iovars => IoTypeOK'
<1> SUFFICES ASSUME IoTypeOK, [IoNext]_iovars PROVE IoTypeOK'
  OBVIOUS
<1>0. TypeOK'
  BY TimersStep, TypeStep DEF IoTypeOK
<1> DEFINE Locs == {"out", "run", "found", "exited"} \cup Active \cup InIdle
           Rest == /\ timeout \in [Workers -> -(INT \div 2) .. MAX_TIMEOUT]
                   /\ until \in [Workers -> (0 .. MaxClock + MAX_TIMEOUT) \cup {Forever}]
                   /\ edge \in BOOLEAN /\ quit \in BOOLEAN /\ dropped \in BOOLEAN
                   /\ woken \subseteq Workers /\ over \subseteq Workers
                   /\ exact \in [Workers -> BOOLEAN]
<1>1. \A t \in Threads : pc[t] \in Locs /\ Home(t) \in Locs
  BY DEF IoTypeOK, Home, Active
<1>2. ASSUME NEW t \in Threads, NEW loc \in Locs, pc' = [pc EXCEPT ![t] = loc]
      PROVE  pc' \in [Threads -> Locs]
  BY <1>2 DEF IoTypeOK
<1>3. ASSUME pc' \in [Threads -> Locs], m_fibers' \in Nat, overlooked' \subseteq Timers, Rest'
      PROVE  IoTypeOK'
  BY <1>0, <1>3 DEF IoTypeOK
<1>4. IoTypeOK => Rest /\ m_fibers \in Nat /\ overlooked \subseteq Timers
                       /\ pc \in [Threads -> Locs]
  BY DEF IoTypeOK
<1>5. ASSUME UNCHANGED <<over, wakeVars>> PROVE Rest'
  BY <1>4, <1>5 DEF wakeVars
<1>6. Workers \subseteq Threads /\ "tickle" \in Locs /\ "drain" \in Locs
  BY DEF Threads, Active, InIdle
<1>7. CASE UNCHANGED <<pc, m_fibers, overlooked, over, wakeVars>>
  BY <1>3, <1>4, <1>5, <1>7
<1>8. ASSUME NEW t \in Threads, NEW x \in Timers, Arm(t, x) PROVE IoTypeOK'
  <2>1. pc' \in [Threads -> Locs]
    BY <1>1, <1>2, <1>6, <1>8 DEF Arm
  <2>2. overlooked' \subseteq Timers
    BY <1>4, <1>8 DEF Arm
  <2>3. UNCHANGED <<m_fibers, over, wakeVars>>
    BY <1>8 DEF Arm
  <2>4. QED
    BY <1>3, <1>4, <1>5, <2>1, <2>2, <2>3
<1>9. ASSUME NEW t \in Threads, Schedule(t) PROVE IoTypeOK'
  <2>1. pc' \in [Threads -> Locs]
    BY <1>1, <1>2, <1>6, <1>9 DEF Schedule
  <2>2. m_fibers' \in Nat
    BY <1>4, <1>9 DEF Schedule
  <2>3. UNCHANGED <<overlooked, over, wakeVars>>
    BY <1>9 DEF Schedule
  <2>4. QED
    BY <1>3, <1>4, <1>5, <2>1, <2>2, <2>3
<1>10. ASSUME NEW t \in Threads, Tickle(t) PROVE IoTypeOK'
  <2>1. pc' \in [Threads -> Locs]
    BY <1>1, <1>2, <1>6, <1>10 DEF Tickle
  <2>2. Rest'
    BY <1>4, <1>10 DEF Tickle, hasIdleThreads
  <2>3. UNCHANGED <<overlooked, m_fibers>>
    BY <1>10 DEF Tickle
  <2>4. QED
    BY <1>3, <1>4, <2>1, <2>2, <2>3
<1>11. CASE Stop
  <2>1. Rest'
    BY <1>4, <1>11 DEF Stop, hasIdleThreads
  <2>2. UNCHANGED <<pc, overlooked, m_fibers>>
    BY <1>11 DEF Stop
  <2>3. QED
    BY <1>3, <1>4, <2>1, <2>2
<1>12. ASSUME NEW w \in Workers, Run(w) PROVE IoTypeOK'
  <2>1. pc' \in [Threads -> Locs]
    BY <1>2, <1>6, <1>12 DEF Run, Take, TakeNone, TaskEnds, EnterIdle, Active, InIdle
  <2>2. m_fibers' \in Nat /\ UNCHANGED overlooked
    BY <1>4, <1>12 DEF Run, Take, TakeNone, TaskEnds, EnterIdle
  <2>3. Rest'
    BY <1>4, <1>5, <1>12 DEF Run, Take, TakeNone, TaskEnds, EnterIdle
  <2>4. QED
    BY <1>3, <1>4, <2>1, <2>2, <2>3
<1>13. ASSUME NEW w \in Workers, Idle(w) PROVE IoTypeOK'
  <2>1. CASE NoTimers(w)
    <3>1. pc' \in [Threads -> Locs]
      BY <1>2, <1>6, <2>1 DEF NoTimers, InIdle
    <3>2. Rest'
      BY <1>4, <2>1 DEF NoTimers, Exact
    <3>3. QED
      BY <1>3, <1>4, <2>1, <3>1, <3>2 DEF NoTimers
  <2>2. CASE LeaveIdle(w)
    <3>1. pc' \in [Threads -> Locs]
      BY <1>2, <1>6, <2>2 DEF LeaveIdle
    <3>2. Rest'
      BY <1>4, <2>2 DEF LeaveIdle, wakeVars
    <3>3. QED
      BY <1>3, <1>4, <2>2, <3>1, <3>2 DEF LeaveIdle
  <2>3. ASSUME NEW ms \in -(INT \div 2) .. MAX_TIMEOUT, Block(w, ms),
               exact' \in [Workers -> BOOLEAN]
        PROVE  IoTypeOK'
    <3>1. pc' \in [Threads -> Locs]
      BY <1>2, <1>6, <2>3 DEF Block, InIdle
    <3>2. Rest'
      BY <1>4, <2>3, BlockType DEF Block
    <3>3. QED
      BY <1>3, <1>4, <2>3, <3>1, <3>2 DEF Block
  <2>4. CASE WaitLong(w)
    <3>1. MAX_TIMEOUT \in -(INT \div 2) .. MAX_TIMEOUT
      BY IoAssumption
    <3>2. QED
      BY <1>4, <2>3, <2>4, <3>1 DEF WaitLong
  <2>5. CASE Wait(w)
    <3>1. WaitFor(NextTimer) \in -(INT \div 2) .. MAX_TIMEOUT
      BY NextTimerType, WaitForFacts DEF IoTypeOK
    <3>2. exact' \in [Workers -> BOOLEAN]
      BY <1>4, <2>5 DEF Wait, Exact
    <3>3. QED
      BY <2>3, <2>5, <3>1, <3>2 DEF Wait
  <2>6. CASE Interrupt(w)
    <3>1. WakeTime(timeout[w]) \in (0 .. MaxClock + MAX_TIMEOUT) \cup {Forever}
      BY <1>4, IoAssumption, TimerAssumption DEF WakeTime, IoTypeOK, TypeOK
    <3>2. Rest'
      BY <1>4, <2>6, <3>1 DEF Interrupt
    <3>3. QED
      BY <1>3, <1>4, <2>6, <3>2 DEF Interrupt
  <2>7. CASE EpollReturn(w)
    <3>1. pc' \in [Threads -> Locs]
      BY <1>2, <1>6, <2>7 DEF EpollReturn, InIdle
    <3>2. 0 \in -(INT \div 2) .. MAX_TIMEOUT /\ 0 \in 0 .. MaxClock + MAX_TIMEOUT
      BY IoAssumption, TimerAssumption
    <3>3. Rest'
      BY <1>4, <2>7, <3>2 DEF EpollReturn
    <3>4. QED
      BY <1>3, <1>4, <2>7, <3>1, <3>3 DEF EpollReturn
  <2>8. CASE ListCb(w)
    <3>1. pc' \in [Threads -> Locs]
      BY <1>2, <1>6, <2>8 DEF ListCb, InIdle
    <3>2. Cardinality(expired[w]) \in Nat
      BY IoAssumption, FS_Subset, FS_CardinalityType DEF IoTypeOK, TypeOK
    <3>3. m_fibers' \in Nat
      BY <1>4, <2>8, <3>2 DEF ListCb
    <3>4. QED
      BY <1>3, <1>4, <1>5, <2>8, <3>1, <3>3 DEF ListCb
  <2>9. CASE Drain(w)
    <3>1. pc' \in [Threads -> Locs]
      BY <1>2, <1>6, <2>9 DEF Drain
    <3>2. Rest'
      BY <1>4, <2>9 DEF Drain
    <3>3. QED
      BY <1>3, <1>4, <2>9, <3>1, <3>2 DEF Drain
  <2>10. QED
    BY <1>13, <2>1, <2>2, <2>4, <2>5, <2>6, <2>7, <2>8, <2>9 DEF Idle
<1>14. QED
  BY <1>7, <1>8, <1>9, <1>10, <1>11, <1>12, <1>13 DEF IoNext, Caller, Disarm, Clock, iovars


-----------------------------------------------------------------------------
(* stop(), handed-out callbacks and timeouts                               *)

\* Every step keeps the outside threads out of the way of stop(), and callbacks in
\* the hands of a worker that is about to schedule them.
LEMMA StoppedStep == IoTypeOK /\ Stopped /\ [IoNext]_iovars => Stopped'
<1> SUFFICES ASSUME IoTypeOK, Stopped, [IoNext]_iovars PROVE Stopped'
  OBVIOUS
<1>0. /\ Workers \cap Outside = {} /\ Threads = Workers \cup Outside
      /\ DOMAIN pc = Threads /\ pc = [t \in Threads |-> pc[t]]
      /\ DOMAIN expired = Workers /\ expired = [w \in Workers |-> expired[w]]
  BY IoAssumption DEF IoTypeOK, TypeOK, Threads
<1> USE DEF Stopped
<1>1. CASE UNCHANGED <<pc, quit, expired, over>>
  BY <1>1
<1>2. ASSUME NEW t \in Threads, Caller(t) PROVE Stopped'
  <2>1. ASSUME NEW x \in Timers, Arm(t, x) PROVE Stopped'
    <3>1. UNCHANGED <<quit, expired, over>>
      BY <2>1 DEF Arm, AddTimer, Reset, wakeVars
    <3>2. /\ pc[t] = Home(t) /\ (t \in Outside => ~quit)
          /\ pc' = [pc EXCEPT ![t] = pc'[t]] /\ pc'[t] \in {"tickle", pc[t]}
      BY <1>0, <2>1, Zenon DEF Arm
    <3>3. QED
      BY <1>0, <3>1, <3>2 DEF Home, Active
  <2>2. ASSUME NEW x \in Timers, Disarm(t, x) PROVE Stopped'
    BY <1>1, <2>2 DEF Disarm, Cancel, Refresh, wakeVars
  <2>3. CASE Schedule(t)
    BY <1>0, <2>3 DEF Schedule, wakeVars, Home, tvars, Active
  <2>4. CASE Tickle(t)
    BY <1>0, <2>4 DEF Tickle, Home, tvars, Active
  <2>5. QED
    BY <1>2, <2>1, <2>2, <2>3, <2>4 DEF Caller
<1>3. CASE Stop
  BY <1>3 DEF Stop, tvars
<1>4. ASSUME NEW w \in Workers, Run(w) PROVE Stopped'
  BY <1>0, <1>4 DEF Run, Take, TakeNone, TaskEnds, EnterIdle, tvars, wakeVars, Active
<1>5. ASSUME NEW w \in Workers, Idle(w) PROVE Stopped'
  <2>1. CASE NoTimers(w)
    BY <1>0, <2>1 DEF NoTimers, GetNextTimer, Active
  <2>2. CASE LeaveIdle(w)
    BY <1>0, <2>2 DEF LeaveIdle, tvars, wakeVars, Active
  <2>3. CASE WaitLong(w)
    BY <1>0, <2>3 DEF WaitLong, Block, tvars, Active
  <2>4. CASE Wait(w)
    BY <1>0, <2>4 DEF Wait, Block, GetNextTimer, Active
  <2>5. CASE Interrupt(w)
    BY <1>1, <2>5 DEF Interrupt, tvars
  <2>6. CASE EpollReturn(w)
    BY <1>0, <2>6 DEF EpollReturn, ReadClock, Active
  <2>7. CASE ListCb(w)
    <3>1. CASE pc[w] = "list" /\ ListExpired(w)
                /\ pc' = [pc EXCEPT ![w] = IF expired'[w] = {} THEN "drain" ELSE "deliver"]
                /\ UNCHANGED wakeVars
      <4>1. expired' = [expired EXCEPT ![w] = expired'[w]]
        BY <1>0, <3>1, Zenon DEF ListExpired
      <4>2. QED
        BY <1>0, <2>7, <3>1, <4>1 DEF ListCb, wakeVars, Active
    <3>2. CASE pc[w] = "deliver" /\ Deliver(w)
                /\ pc' = [pc EXCEPT ![w] = IF m_fibers = 0 THEN "notify" ELSE "drain"]
                /\ UNCHANGED wakeVars
      BY <1>0, <2>7, <3>2 DEF ListCb, Deliver, wakeVars, Active
    <3>3. QED
      BY <2>7, <3>1, <3>2 DEF ListCb
  <2>8. CASE Drain(w)
    BY <1>0, <2>8 DEF Drain, tvars, Active
  <2>9. QED
    BY <1>5, <2>1, <2>2, <2>3, <2>4, <2>5, <2>6, <2>7, <2>8 DEF Idle
<1>6. QED
  BY <1>1, <1>2, <1>3, <1>4, <1>5 DEF IoNext, Clock, Tick, iovars, tvars, wakeVars

\* A wait without end comes only from a negative timeout, and that only from a
\* getNextTimer that was wrong.
LEMMA WaitsStep == IoTypeOK /\ Waits /\ [IoNext]_iovars => Waits'
<1> SUFFICES ASSUME IoTypeOK, Waits, [IoNext]_iovars PROVE Waits'
  OBVIOUS
<1>0. /\ Workers \subseteq Threads
      /\ DOMAIN pc = Threads /\ pc = [t \in Threads |-> pc[t]]
      /\ timeout \in [Workers -> Int]
      /\ DOMAIN until = Workers /\ until = [w \in Workers |-> until[w]]
      /\ exact \in [Workers -> BOOLEAN]
      /\ clock \in Nat
  BY IoAssumption, TimerAssumption DEF IoTypeOK, TypeOK, Threads
<1> USE DEF Waits
<1>1. ASSUME UNCHANGED <<timeout, until, exact>>, NEW t \in Threads, NEW loc,
             pc' = [pc EXCEPT ![t] = loc], pc[t] # "wait", loc # "wait"
      PROVE  Waits'
  BY <1>0, <1>1
<1>2. CASE UNCHANGED <<pc, timeout, until, exact>>
  BY <1>2
<1>3. ASSUME NEW t \in Threads, Caller(t) PROVE Waits'
  <2>1. ASSUME NEW x \in Timers, Arm(t, x) PROVE Waits'
    BY <1>1, <2>1 DEF Arm, wakeVars, Home
  <2>2. QED
    BY <1>1, <1>2, <1>3, <2>1 DEF Caller, Disarm, Schedule, Tickle, wakeVars, Home
<1>4. ASSUME NEW w \in Workers, Run(w) PROVE Waits'
  BY <1>0, <1>1, <1>4 DEF Run, Take, TakeNone, TaskEnds, EnterIdle, wakeVars
<1>5. ASSUME NEW w \in Workers, NEW ms \in Int, Block(w, ms), pc[w] # "wait",
             exact' \in [Workers -> BOOLEAN], \A v \in Workers \ {w} : exact'[v] = exact[v],
             exact'[w] => ms >= 0
      PROVE  Waits'
  <2>1. WakeTime(ms) = Forever \/ WakeTime(ms) \in Nat
    BY <1>0 DEF WakeTime
  <2>2. WakeTime(ms) = Forever <=> ms < 0
    BY <1>0, IoAssumption DEF WakeTime
  <2>3. QED
    BY <1>0, <1>5, <2>1, <2>2 DEF Block
<1>6. ASSUME NEW w \in Workers, Idle(w) PROVE Waits'
  <2>1. CASE NoTimers(w)
    <3>1. UNCHANGED <<timeout, until>>
      BY <2>1 DEF NoTimers
    <3>2. timeout[w] >= 0
      BY <1>0, <2>1 DEF NoTimers
    <3>3. QED
      BY <1>0, <2>1, <3>1, <3>2 DEF NoTimers
  <2>2. CASE LeaveIdle(w)
    BY <1>0, <1>1, <2>2 DEF LeaveIdle, wakeVars
  <2>3. CASE WaitLong(w)
    <3>1. MAX_TIMEOUT \in Nat
      BY IoAssumption
    <3>2. QED
      BY <1>0, <1>5, <2>3, <3>1 DEF WaitLong
  <2>4. CASE Wait(w)
    <3>1. NextTimer \in Nat /\ WaitFor(NextTimer) \in Int
      BY IoAssumption, TimerAssumption, NextTimerType, WaitForFacts DEF IoTypeOK
    <3>2. exact' = [exact EXCEPT ![w] = Exact] /\ Exact \in BOOLEAN
      BY <2>4 DEF Wait, Exact
    <3>3. Exact => WaitFor(NextTimer) >= 0
      BY <2>4, ExactFacts DEF Wait, IoTypeOK
    <3>4. QED
      BY <1>0, <1>5, <2>4, <3>1, <3>2, <3>3 DEF Wait
  <2>5. CASE Interrupt(w)
    <3>1. WakeTime(timeout[w]) = Forever \/ WakeTime(timeout[w]) \in Nat
      BY <1>0 DEF WakeTime
    <3>2. WakeTime(timeout[w]) = Forever <=> timeout[w] < 0
      BY <1>0, IoAssumption DEF WakeTime
    <3>3. QED
      BY <1>0, <2>5, <3>1, <3>2 DEF Interrupt
  <2>6. CASE EpollReturn(w)
    BY <1>0, <2>6 DEF EpollReturn
  <2>7. CASE ListCb(w)
    BY <1>0, <1>1, <2>7 DEF ListCb, wakeVars
  <2>8. CASE Drain(w)
    BY <1>0, <1>1, <2>8 DEF Drain
  <2>9. QED
    BY <1>6, <2>1, <2>2, <2>3, <2>4, <2>5, <2>6, <2>7, <2>8 DEF Idle
<1>7. QED
  BY <1>2, <1>3, <1>4, <1>6 DEF IoNext, Stop, Clock, iovars, wakeVars

-----------------------------------------------------------------------------
(* No task and no timer is left to workers that sleep                      *)

\* A task stays attended to.
LEMMA TaskStep ==
    IoTypeOK /\ Stopped /\ TaskAttended /\ [IoNext]_iovars => TaskAttended'
<1> SUFFICES ASSUME IoTypeOK, Stopped, TaskAttended, [IoNext]_iovars, m_fibers' > 0
             PROVE  (\E w \in Workers : Looking(w)') \/ Signalled' \/ dropped'
  BY DEF TaskAttended
<1>0. /\ Workers \cap Outside = {} /\ Threads = Workers \cup Outside /\ Workers # {}
      /\ DOMAIN pc = Threads /\ pc = [t \in Threads |-> pc[t]]
      /\ m_fibers \in Nat
  BY IoAssumption DEF IoTypeOK, Threads
<1>1. ASSUME NEW w \in Workers,
             pc'[w] \in {"run", "took", "task", "tickle", "list", "deliver", "notify", "drain"}
      PROVE  \E v \in Workers : Looking(v)'
  BY <1>1 DEF Looking
<1>2. ASSUME m_fibers > 0, edge => edge', dropped => dropped',
             \A v \in Workers : pc'[v] = pc[v] \/
                  (pc[v] \in {"found", "next", "leaving"} /\ pc'[v] \in {"next", "leaving", "wait"}),
             \A u \in Outside : pc[u] = "tickle" => pc'[u] = "tickle"
      PROVE  (\E w \in Workers : Looking(w)') \/ Signalled' \/ dropped'
  BY <1>2 DEF TaskAttended, Looking, Signalled
<1>3. ASSUME NEW t \in Threads, Caller(t)
      PROVE  (\E w \in Workers : Looking(w)') \/ Signalled' \/ dropped'
  <2>1. ASSUME NEW x \in Timers, Arm(t, x)
        PROVE  (\E w \in Workers : Looking(w)') \/ Signalled' \/ dropped'
    <3>1. /\ pc[t] = Home(t) /\ UNCHANGED <<m_fibers, edge, dropped>>
          /\ pc' = [pc EXCEPT ![t] = pc'[t]] /\ pc'[t] \in {"tickle", pc[t]}
      BY <1>0, <2>1, Zenon DEF Arm, wakeVars
    <3>2. CASE t \in Workers
      BY <1>1, <3>1, <3>2 DEF Home
    <3>3. CASE t \in Outside
      BY <1>0, <1>2, <3>1, <3>3 DEF Home
    <3>4. QED
      BY <1>0, <3>2, <3>3
  <2>2. ASSUME NEW x \in Timers, Disarm(t, x)
        PROVE  (\E w \in Workers : Looking(w)') \/ Signalled' \/ dropped'
    BY <1>2, <2>2 DEF Disarm, wakeVars
  <2>3. CASE Schedule(t)
    <3>1. CASE t \in Workers
      BY <1>0, <1>1, <2>3, <3>1 DEF Home, Schedule
    <3>2. CASE t \in Outside /\ m_fibers = 0
      BY <1>0, <2>3, <3>2 DEF Schedule, Signalled
    <3>3. CASE t \in Outside /\ m_fibers > 0
      BY <1>0, <1>2, <2>3, <3>3 DEF Schedule, wakeVars
    <3>4. QED
      BY <1>0, <3>1, <3>2, <3>3
  <2>4. CASE Tickle(t)
    <3>1. CASE t \in Workers
      BY <1>0, <1>1, <2>4, <3>1 DEF Home, Tickle
    <3>2. CASE t \in Outside
      <4>1. /\ ~quit /\ m_fibers > 0
            /\ \A w \in Workers : pc'[w] = pc[w]
            /\ edge' = (edge \/ hasIdleThreads)
            /\ (~hasIdleThreads /\ \E w \in Workers : pc[w] = "found") => dropped'
        BY <1>0, <2>4, <3>2 DEF Tickle, Stopped
      <4>2. CASE hasIdleThreads
        BY <4>1, <4>2 DEF hasIdleThreads, InIdle, Looking, Signalled
      <4>3. CASE ~hasIdleThreads
        <5>1. PICK w \in Workers : pc[w] # "exited"
          BY <1>0, <4>1 DEF Stopped
        <5>2. CASE pc[w] = "found"
          BY <4>1, <4>3, <5>2
        <5>3. CASE pc[w] # "found"
          BY <4>1, <4>3, <5>1, <5>3 DEF hasIdleThreads, InIdle, Looking
        <5>4. QED
          BY <5>2, <5>3
      <4>4. QED
        BY <4>2, <4>3
    <3>3. QED
      BY <1>0, <3>1, <3>2
  <2>5. QED
    BY <1>3, <2>1, <2>2, <2>3, <2>4 DEF Caller
<1>4. CASE Stop
  BY <1>2, <1>4 DEF Stop
<1>5. ASSUME NEW w \in Workers, Run(w)
      PROVE  (\E v \in Workers : Looking(v)') \/ Signalled' \/ dropped'
  <2>1. CASE Take(w) \/ TaskEnds(w)
    BY <1>0, <1>1, <2>1 DEF Take, TaskEnds
  <2>2. CASE TakeNone(w)
    BY <2>2 DEF TakeNone
  <2>3. CASE EnterIdle(w)
    BY <1>0, <1>2, <2>3 DEF EnterIdle, wakeVars
  <2>4. QED
    BY <1>5, <2>1, <2>2, <2>3 DEF Run
<1>6. ASSUME NEW w \in Workers, Idle(w)
      PROVE  (\E v \in Workers : Looking(v)') \/ Signalled' \/ dropped'
  <2>1. CASE NoTimers(w)
    BY <1>0, <1>2, <2>1 DEF NoTimers
  <2>2. CASE LeaveIdle(w)
    BY <1>0, <1>1, <2>2 DEF LeaveIdle
  <2>3. CASE WaitLong(w)
    BY <1>0, <1>2, <2>3 DEF WaitLong, Block
  <2>4. CASE Wait(w)
    BY <1>0, <1>2, <2>4 DEF Wait, Block
  <2>5. CASE Interrupt(w)
    BY <1>2, <2>5 DEF Interrupt
  <2>6. CASE EpollReturn(w)
    BY <1>0, <1>1, <2>6 DEF EpollReturn
  <2>7. CASE ListCb(w)
    BY <1>0, <1>1, <2>7 DEF ListCb
  <2>8. CASE Drain(w)
    BY <1>0, <1>1, <2>8 DEF Drain
  <2>9. QED
    BY <1>6, <2>1, <2>2, <2>3, <2>4, <2>5, <2>6, <2>7, <2>8 DEF Idle
<1>7. CASE UNCHANGED <<pc, m_fibers, wakeVars>>
  BY <1>2, <1>7 DEF wakeVars
<1>8. QED
  BY <1>3, <1>4, <1>5, <1>6, <1>7 DEF IoNext, Clock, iovars

\* The last worker that looks at the timers sees them all.
LEMMA LeftStep ==
    IoTypeOK /\ Stopped /\ NothingLeft /\ [IoNext]_iovars => NothingLeft'
<1> SUFFICES ASSUME IoTypeOK, Stopped, NothingLeft, [IoNext]_iovars PROVE NothingLeft'
  OBVIOUS
<1>0. /\ Workers \cap Outside = {} /\ Threads = Workers \cup Outside /\ Workers # {}
      /\ DOMAIN pc = Threads /\ pc = [t \in Threads |-> pc[t]]
      /\ m_fibers \in Nat /\ DOMAIN exact = Workers
  BY IoAssumption DEF IoTypeOK, Threads
<1> DEFINE Seen == m_timers \subseteq overlooked \/ \E w \in Workers : ~exact[w]
           Last == \A w \in Workers \ over : pc[w] = "leaving"
<1>s. Stopped'
  BY StoppedStep
\* A worker that will look at the timers again ...
<1>1. ASSUME NEW w \in Workers, w \notin over', pc'[w] # "leaving" PROVE NothingLeft'
  <2>1. pc'[w] # "exited"
    BY <1>1, <1>s DEF Stopped
  <2>2. QED
    BY <1>1, <2>1 DEF NothingLeft, Ended
\* ... and a step that is none of the last worker's, and lists no timer.
<1>2. ASSUME UNCHANGED over, \A w \in Workers \ over : pc'[w] = pc[w],
             m_timers' \subseteq m_timers, overlooked \subseteq overlooked',
             \A w \in Workers : ~exact[w] => ~exact'[w],
             Ended' => m_fibers' = 0
      PROVE  NothingLeft'
  BY <1>2 DEF NothingLeft
<1>3. /\ ~quit => over = {}
      /\ Ended => quit /\ over = Workers
  <2>1. over \subseteq Workers
    BY DEF IoTypeOK
  <2>2. QED
    BY <1>0, <2>1 DEF Stopped, Ended
<1>4. ASSUME NEW t \in Threads, Caller(t) PROVE NothingLeft'
  <2>0. ASSUME pc'[t] # "exited", ~Ended PROVE ~Ended'
    <3>1. CASE t \in Workers
      BY <2>0, <3>1 DEF Ended
    <3>2. CASE t \in Outside
      <4>1. \A w \in Workers : pc'[w] = pc[w]
        BY <1>0, <1>4, <3>2 DEF Caller, Arm, Disarm, Schedule, Tickle
      <4>2. QED
        BY <2>0, <4>1 DEF Ended
    <3>3. QED
      BY <1>0, <3>1, <3>2
  <2>a. pc[t] # "exited" /\ pc'[t] # "exited" /\ UNCHANGED over
        /\ \A v \in Threads : v # t => pc'[v] = pc[v]
    BY <1>0, <1>4 DEF Caller, Arm, Disarm, Schedule, Tickle, Home
  <2>b. CASE Ended
    <3>1. t \in Outside /\ quit
      BY <1>0, <1>3, <2>a, <2>b DEF Ended
    <3>2. FALSE
      BY <1>0, <1>4, <2>a, <3>1 DEF Caller, Arm, Disarm, Schedule, Tickle, Stopped
    <3>3. QED
      BY <3>2
  <2>c. CASE ~Ended
    <3>0. ~Ended'
      BY <2>0, <2>a, <2>c
    <3>1. ASSUME NEW x \in Timers, Arm(t, x) PROVE NothingLeft'
      <4>1. /\ pc[t] = Home(t) /\ pc'[t] \in {"tickle", pc[t]} /\ UNCHANGED exact
        BY <1>0, <3>1 DEF Arm, wakeVars
      <4>2. CASE \E w \in Workers \ over : pc[w] # "leaving"
        <5>1. PICK w \in Workers \ over : pc[w] # "leaving"
          BY <4>2
        <5>2. pc'[w] # "leaving"
          BY <1>0, <2>a, <4>1, <5>1
        <5>3. QED
          BY <1>1, <2>a, <5>1, <5>2
      <4>3. CASE ~\E w \in Workers \ over : pc[w] # "leaving"
        <5>1. overlooked' = overlooked \cup {x} /\ m_timers' \subseteq m_timers \cup {x}
          BY <3>1, <4>3 DEF Arm, AddTimer, Reset
        <5>2. Seen
          BY <4>3 DEF NothingLeft
        <5>3. QED
          BY <3>0, <4>1, <5>1, <5>2 DEF NothingLeft
      <4>4. QED
        BY <4>2, <4>3
    <3>2. CASE t \in Workers \ over
      <4>1. pc'[t] # "leaving"
        BY <1>0, <1>4, <3>2 DEF Caller, Arm, Disarm, Schedule, Tickle, Home
      <4>2. QED
        BY <1>1, <2>a, <3>2, <4>1
    <3>3. CASE t \notin Workers \ over /\ ~\E x \in Timers : Arm(t, x)
      <4>1. UNCHANGED <<exact, overlooked>> /\ m_timers' \subseteq m_timers
        BY <1>4, <3>3 DEF Caller, Disarm, Cancel, Refresh, Schedule, Tickle, tvars, wakeVars
      <4>2. \A w \in Workers \ over : pc'[w] = pc[w]
        BY <1>0, <2>a, <3>3
      <4>3. QED
        BY <1>2, <2>a, <3>0, <4>1, <4>2
    <3>4. QED
      BY <3>1, <3>2, <3>3
  <2>d. QED
    BY <2>b, <2>c
<1>5. CASE Stop
  <2>1. UNCHANGED <<over, pc, m_timers, overlooked, exact, m_fibers>>
    BY <1>5 DEF Stop, tvars
  <2>2. Ended' => m_fibers' = 0
    BY <2>1 DEF NothingLeft, Ended
  <2>3. QED
    BY <1>2, <2>1, <2>2
<1>6. ASSUME NEW w \in Workers, Run(w) PROVE NothingLeft'
  <2>1. UNCHANGED <<over, m_timers, overlooked, exact>> /\ pc'[w] # "leaving"
        /\ \A v \in Workers : v # w => pc'[v] = pc[v]
    BY <1>0, <1>6 DEF Run, Take, TakeNone, TaskEnds, EnterIdle, tvars, wakeVars
  <2>2. CASE w \notin over
    BY <1>1, <2>1, <2>2
  <2>3. CASE w \in over
    <3>1. pc'[w] = "exited" => m_fibers' = 0
      BY <1>0, <1>6 DEF Run, Take, TakeNone, TaskEnds, EnterIdle
    <3>2. Ended' => m_fibers' = 0
      BY <3>1 DEF Ended
    <3>3. QED
      BY <1>2, <2>1, <2>3, <3>2
  <2>4. QED
    BY <2>2, <2>3
<1>7. ASSUME NEW w \in Workers, Idle(w) PROVE NothingLeft'
  <2>0. w \notin over
    BY <1>7 DEF Idle, NoTimers, LeaveIdle, WaitLong, Wait, Interrupt, EpollReturn, ListCb,
                Drain, Stopped, Active
  <2>1. CASE NoTimers(w)
    <3>1. pc'[w] = "leaving" /\ exact'[w] = Exact /\ m_timers' = m_timers
      BY <1>0, <2>1 DEF NoTimers, GetNextTimer
    <3>2. Exact => m_timers = {}
      BY <2>1, ExactFacts DEF NoTimers, IoTypeOK
    <3>3. QED
      BY <3>1, <3>2 DEF NothingLeft, Ended
  <2>2. CASE LeaveIdle(w)
    <3>1. /\ pc[w] = "leaving" /\ over' = over \cup {w} /\ pc'[w] = "run"
          /\ \A v \in Workers : v # w => pc'[v] = pc[v]
          /\ UNCHANGED <<m_timers, overlooked, exact>>
      BY <1>0, <2>2 DEF LeaveIdle, tvars, wakeVars
    <3>2. Last' => Last
      BY <3>1
    <3>3. ~Ended'
      BY <3>1 DEF Ended
    <3>4. QED
      BY <3>1, <3>2, <3>3 DEF NothingLeft
  <2>3. CASE WaitLong(w)
    BY <1>0, <1>1, <2>0, <2>3 DEF WaitLong, Block
  <2>4. CASE Wait(w)
    BY <1>0, <1>1, <2>0, <2>4 DEF Wait, Block
  <2>5. CASE Interrupt(w)
    BY <1>1, <2>0, <2>5 DEF Interrupt
  <2>6. CASE EpollReturn(w)
    BY <1>0, <1>1, <2>0, <2>6 DEF EpollReturn
  <2>7. CASE ListCb(w)
    BY <1>0, <1>1, <2>0, <2>7 DEF ListCb
  <2>8. CASE Drain(w)
    BY <1>0, <1>1, <2>0, <2>8 DEF Drain
  <2>9. QED
    BY <1>7, <2>1, <2>2, <2>3, <2>4, <2>5, <2>6, <2>7, <2>8 DEF Idle
<1>8. CASE UNCHANGED <<pc, m_fibers, m_timers, overlooked, over, wakeVars>>
  <2>1. Ended' => m_fibers' = 0
    BY <1>8 DEF NothingLeft, Ended
  <2>2. QED
    BY <1>2, <1>8, <2>1 DEF wakeVars
<1>9. QED
  BY <1>4, <1>5, <1>6, <1>7, <1>8 DEF IoNext, Clock, Tick, iovars, tvars

\* A timer's start stays in the past.
LEMMA StartedStep ==
    ASSUME NoWrap, IoTypeOK, ClockInv, Started, [IoNext]_iovars
    PROVE  Started'
<1>0. /\ clock \in 0 .. MaxClock /\ MaxClock \in Nat /\ U64 \in Nat
      /\ m_timers \subseteq Timers /\ DOMAIN m_next = Timers /\ DOMAIN m_ms = Timers
      /\ \A x \in Timers : m_next[x] \in Nat /\ m_ms[x] \in Nat
      /\ \A ms \in Intervals : ms \in Nat
  BY TimerAssumption DEF IoTypeOK, TypeOK
<1>1. ASSUME NEW c \in 0 .. MaxClock, NEW ms \in Intervals PROVE U(c + ms) = c + ms
  BY <1>0, UFacts, TimerAssumption DEF NoWrap
<1>2. CASE Clock
  BY <1>0, <1>2 DEF Clock, Tick, Started
<1>3. CASE UNCHANGED <<clock, steady, m_next, m_ms>> /\ m_timers' \subseteq m_timers
  BY <1>3 DEF Started
<1>4. ASSUME NEW x \in Timers, NEW c \in 0 .. clock, NEW ms \in Intervals,
             UNCHANGED <<clock, steady>>, m_timers' \subseteq m_timers \cup {x},
             m_next' = [m_next EXCEPT ![x] = U(c + ms)], m_ms' = [m_ms EXCEPT ![x] = ms]
      PROVE  Started'
  <2>1. U(c + ms) = c + ms
    BY <1>0, <1>1
  <2>2. QED
    BY <1>0, <1>4, <2>1 DEF Started
<1>5. ASSUME NEW t \in Threads, NEW x \in Timers, Arm(t, x) PROVE Started'
  <2>1. ASSUME NEW ms \in Intervals, NEW r \in Recurring, AddTimer(x, ms, r) PROVE Started'
    <3>1. /\ UNCHANGED <<clock, steady>> /\ m_timers' \subseteq m_timers \cup {x}
          /\ m_next' = [m_next EXCEPT ![x] = U(clock + ms)] /\ m_ms' = [m_ms EXCEPT ![x] = ms]
      BY <2>1 DEF AddTimer, Insert
    <3>2. clock \in 0 .. clock
      BY <1>0
    <3>3. QED
      BY <1>4, <3>1, <3>2
  <2>2. ASSUME NEW ms \in Intervals, NEW f \in BOOLEAN, Reset(x, ms, f) PROVE Started'
    <3>1. x \in m_timers
      BY <2>2 DEF Reset
    <3>2. m_next[x] - m_ms[x] \in 0 .. clock
      BY <3>1 DEF Started
    <3>3. U(m_next[x] - m_ms[x]) = m_next[x] - m_ms[x]
      BY <1>0, <3>2, UFacts, TimerAssumption
    <3>4. ResetStart(x, f) \in 0 .. clock
      BY <1>0, <3>2, <3>3 DEF ResetStart
    <3>5. QED
      BY <1>4, <2>2, <3>4 DEF Reset, Insert
  <2>3. QED
    BY <1>5, <2>1, <2>2 DEF Arm
<1>6. ASSUME NEW t \in Threads, NEW x \in Timers, Disarm(t, x) PROVE Started'
  <2>1. CASE Cancel(x)
    BY <1>3, <2>1 DEF Cancel
  <2>2. CASE Refresh(x)
    <3>1. m_ms[x] \in Intervals /\ m_ms = [m_ms EXCEPT ![x] = m_ms[x]]
      BY <2>2 DEF Refresh, Started, IoTypeOK, TypeOK
    <3>2. /\ UNCHANGED <<clock, steady>> /\ m_timers' \subseteq m_timers \cup {x}
          /\ m_next' = [m_next EXCEPT ![x] = U(clock + m_ms[x])]
          /\ m_ms' = [m_ms EXCEPT ![x] = m_ms[x]]
      BY <2>2, <3>1 DEF Refresh
    <3>3. clock \in 0 .. clock
      BY <1>0
    <3>4. QED
      BY <1>4, <3>1, <3>2, <3>3
  <2>3. QED
    BY <1>6, <2>1, <2>2 DEF Disarm
<1>7. ASSUME NEW w \in Workers, ListExpired(w) PROVE Started'
  <2> DEFINE now == now_ms[w]
             again == Due(now) \cap m_recurring
  <2>1. now \in 0 .. clock
    BY <1>0, <1>7, TimerAssumption DEF ListExpired, ClockInv, Started, IoTypeOK, TypeOK
  <2>2. /\ UNCHANGED <<clock, steady, m_ms>> /\ m_timers' \subseteq m_timers
        /\ \A x \in Timers : m_next'[x] = IF x \in again THEN U(now + m_ms[x]) ELSE m_next[x]
    BY <1>7 DEF ListExpired, Due
  <2>3. \A x \in m_timers : U(now + m_ms[x]) = now + m_ms[x]
    BY <1>0, <1>1, <2>1 DEF Started
  <2> HIDE DEF now, again
  <2>4. QED
    BY <1>0, <2>1, <2>2, <2>3 DEF Started
<1>8. ASSUME NEW w \in Workers, Idle(w) PROVE Started'
  <2>1. CASE NoTimers(w) \/ Wait(w)
    BY <1>3, <2>1 DEF NoTimers, Wait, GetNextTimer
  <2>2. CASE EpollReturn(w)
    BY <1>3, <2>2 DEF EpollReturn, ReadClock
  <2>3. CASE ListCb(w)
    BY <1>3, <1>7, <2>3 DEF ListCb, Deliver
  <2>4. CASE UNCHANGED tvars
    BY <1>3, <2>4 DEF tvars
  <2>5. QED
    BY <1>8, <2>1, <2>2, <2>3, <2>4 DEF Idle, LeaveIdle, WaitLong, Interrupt, Drain
<1>9. CASE UNCHANGED tvars
  BY <1>3, <1>9 DEF tvars
<1>10. QED
  BY <1>2, <1>5, <1>6, <1>8, <1>9 DEF IoNext, Stop, Caller, Schedule, Tickle, Run, Take,
     TakeNone, TaskEnds, EnterIdle, iovars

\* The first timer stays attended to.
LEMMA FirstStep ==
    ASSUME NoWrap, IoTypeOK, Waits, Stopped, Started, FirstAttended, [IoNext]_iovars
    PROVE  FirstAttended'
<1>0. /\ Workers \cap Outside = {} /\ Threads = Workers \cup Outside /\ Workers # {}
      /\ DOMAIN pc = Threads /\ pc = [t \in Threads |-> pc[t]]
      /\ exact \in [Workers -> BOOLEAN] /\ DOMAIN until = Workers
      /\ m_timers \subseteq Timers /\ m_next \in [Timers -> Nat] /\ clock \in Nat
      /\ m_tickled \in BOOLEAN
  BY IoAssumption, TimerAssumption DEF IoTypeOK, TypeOK, Threads
<1>1. ASSUME NEW w \in Workers, w \notin over', pc'[w] \notin {"leaving", "wait"}
      PROVE  FirstAttended'
  BY <1>1 DEF FirstAttended, Up
\* What keeps a timer covered.
<1> DEFINE Kept == /\ ~m_tickled => ~m_tickled'
                   /\ ~m_tickled /\ m_timers = {} => m_timers' = {}
                   /\ \A w \in Workers : ~exact[w] => ~exact'[w]
                   /\ ~m_tickled => \A w \in Workers :
                         /\ pc[w] = "wait" /\ until[w] # Forever
                         /\ \A x \in m_timers : until[w] <= m_next[x]
                         => \/ ~exact'[w]
                            \/ /\ pc'[w] = "wait" /\ until'[w] # Forever
                               /\ \A x \in m_timers' : until'[w] <= m_next'[x]
<1>2. ASSUME Kept, ~m_tickled, m_timers = {} \/ Covered
      PROVE  FirstAttended'
  BY <1>2 DEF FirstAttended, Covered
<1>3. ASSUME Kept, edge => edge', UNCHANGED over, \A v \in Workers \ over : pc'[v] = pc[v],
             \A u \in Outside \cup over : pc[u] = "tickle" => pc'[u] = "tickle"
      PROVE  FirstAttended'
  <2>1. CASE Workers \subseteq over \/ (\E w \in Workers : Up(w))
    BY <1>3, <2>1 DEF FirstAttended, Up
  <2>2. CASE Signalled
    <3>1. \A w \in Workers : pc[w] \in {"next", "leaving", "wait"} => w \notin over
      BY DEF Stopped, Active
    <3>2. QED
      BY <1>3, <2>2, <3>1 DEF FirstAttended, Signalled
  <2>3. CASE \E w \in over : pc[w] = "tickle"
    BY <1>3, <2>3 DEF FirstAttended
  <2>4. CASE ~m_tickled /\ (m_timers = {} \/ Covered)
    BY <1>2, <1>3, <2>4
  <2>5. QED
    BY <2>1, <2>2, <2>3, <2>4 DEF FirstAttended
<1>4. ASSUME UNCHANGED <<tvars, exact, until>>,
             \A w \in Workers : pc[w] = "wait" => pc'[w] = "wait"
      PROVE  Kept
  BY <1>4 DEF tvars
<1>5. ASSUME UNCHANGED <<pc, over, exact, until, edge, m_timers, m_next, m_tickled>>
      PROVE  FirstAttended'
  <2>1. Kept
    BY <1>5
  <2>2. QED
    BY <1>3, <1>5, <2>1
<1>w. \A w \in Workers : pc[w] = "wait" => w \notin over
  BY DEF Stopped, Active
<1>6. ASSUME NEW t \in Threads, Caller(t) PROVE FirstAttended'
  <2>0. UNCHANGED over /\ \A v \in Threads : v # t => pc'[v] = pc[v]
    BY <1>0, <1>6 DEF Caller, Arm, Disarm, Schedule, Tickle
  <2>a. CASE t \in Workers \ over
    <3>1. pc'[t] \notin {"leaving", "wait"}
      BY <1>0, <1>6, <2>a DEF Caller, Arm, Disarm, Schedule, Tickle, Home
    <3>2. QED
      BY <1>1, <2>0, <2>a, <3>1
  <2>b. ASSUME t \in Outside \cup over PROVE \A v \in Workers \ over : pc'[v] = pc[v]
    BY <1>0, <2>0, <2>b
  <2>1. ASSUME NEW x \in Timers, Arm(t, x), t \in Outside \cup over PROVE FirstAttended'
    <3>1. /\ pc[t] = Home(t) /\ UNCHANGED <<exact, edge, until>>
          /\ pc' = [pc EXCEPT ![t] = IF AtFront(x, m_next'[x]) THEN "tickle" ELSE pc[t]]
      BY <2>1 DEF Arm, wakeVars
    <3>3. CASE AtFront(x, m_next'[x])
      BY <1>0, <2>0, <2>1, <3>1, <3>3 DEF FirstAttended, Signalled
    <3>4. CASE ~AtFront(x, m_next'[x])
      <4>1. /\ m_timers' = m_timers \cup {x} /\ m_next'[x] \in Nat
            /\ m_next' = [m_next EXCEPT ![x] = m_next'[x]]
            /\ m_tickled' = (m_tickled \/ AtFront(x, m_next'[x]))
        <5>1. \E nx : Insert(x, nx) /\ m_timers' = m_timers \cup {x}
          BY <2>1 DEF Arm, AddTimer, Reset
        <5>2. m_next' \in [Timers -> Nat]
          BY IoTypeStep, TimerAssumption DEF IoTypeOK, TypeOK
        <5>3. PICK nx : Insert(x, nx)
          BY <5>1
        <5>4. m_next'[x] = nx
          BY <1>0, <5>3 DEF Insert
        <5>5. QED
          BY <1>0, <5>1, <5>2, <5>3, <5>4, Zenon DEF Insert
      <4> DEFINE next == m_next'
                 S == m_timers \cup {x}
      <4>2. ASSUME ~m_tickled PROVE First(next, S) # x
        BY <3>4, <4>1, <4>2, Zenon DEF AtFront
      <4>3. next \in [Timers -> Nat] /\ S \in SUBSET Timers /\ S # {}
        BY <1>0, <4>1
      <4>4. First(next, S) \in S /\ \A b \in S : next[First(next, S)] <= next[b]
        BY <4>3, FirstFacts
      <4>5. ASSUME ~m_tickled PROVE m_timers # {}
        <5>1. SUFFICES ASSUME m_timers = {} PROVE FALSE
          OBVIOUS
        <5>2. S = {x}
          BY <5>1
        <5>3. QED
          BY <4>2, <4>5, <5>2, FirstOfOne
      <4> DEFINE f == First(next, S)
      <4>6. /\ f \in S /\ \A b \in S : next[f] <= next[b]
            /\ ~m_tickled => f # x
        BY <4>2, <4>4
      <4> HIDE DEF f, next, S
      <4>7. ASSUME NEW w \in Workers, until[w] \in Nat, ~m_tickled,
                   \A y \in m_timers : until[w] <= m_next[y], NEW y \in S
            PROVE  until[w] <= next[y]
        <5>1. next[f] = m_next[f] /\ f \in m_timers /\ next[f] \in Nat /\ next[y] \in Nat
          BY <1>0, <4>1, <4>3, <4>6, <4>7 DEF next, S
        <5>2. until[w] <= next[f] /\ next[f] <= next[y]
          BY <4>6, <4>7, <5>1
        <5>3. QED
          BY <4>7, <5>1, <5>2
      <4>8. \A v \in Threads : pc'[v] = pc[v]
        BY <1>0, <3>1, <3>4
      <4>9. Kept
        <5>1. ~m_tickled => ~m_tickled'
          BY <3>4, <4>1
        <5>2. ASSUME NEW w \in Workers, ~m_tickled, pc[w] = "wait", until[w] # Forever,
                     \A y \in m_timers : until[w] <= m_next[y]
              PROVE  \A y \in m_timers' : until'[w] <= m_next'[y]
          <6>1. until[w] \in Nat
            BY <5>2 DEF Waits
          <6>2. QED
            BY <3>1, <4>1, <4>7, <5>2, <6>1 DEF next, S
        <5>3. QED
          BY <1>0, <3>1, <4>5, <4>8, <5>1, <5>2
      <4>10. over \subseteq Threads
        BY <1>0 DEF IoTypeOK
      <4>11. QED
        BY <1>0, <1>3, <2>0, <3>1, <3>4, <4>8, <4>9, <4>10
    <3>5. QED
      BY <3>3, <3>4
  <2>2. ASSUME NEW x \in Timers, Disarm(t, x) PROVE FirstAttended'
    <3>1. UNCHANGED <<pc, edge, exact, until, over>>
      BY <2>2 DEF Disarm, wakeVars
    <3>2. CASE Cancel(x)
      BY <1>3, <3>1, <3>2 DEF Cancel
    <3>3. CASE Refresh(x)
      <4>1. /\ m_next' = [m_next EXCEPT ![x] = U(clock + m_ms[x])]
            /\ UNCHANGED <<m_timers, m_tickled>> /\ x \in m_timers
        BY <3>3 DEF Refresh
      <4>2. m_ms[x] \in Intervals /\ m_next[x] - m_ms[x] \in 0 .. clock /\ m_ms[x] \in Nat
        <5>1. m_ms[x] \in Intervals /\ m_next[x] - m_ms[x] \in 0 .. clock
          BY <4>1 DEF Started
        <5>2. m_ms[x] \in Nat
          BY <4>1 DEF IoTypeOK, TypeOK
        <5>3. QED
          BY <5>1, <5>2
      <4>3. U(clock + m_ms[x]) = clock + m_ms[x]
        BY <1>0, <4>2, UFacts, TimerAssumption DEF NoWrap, IoTypeOK, TypeOK
      <4>4. m_next[x] \in Nat /\ clock + m_ms[x] \in Nat /\ m_next[x] <= clock + m_ms[x]
        BY <1>0, <4>1, <4>2
      <4>5. \A y \in m_timers : m_next[y] \in Nat /\ m_next'[y] \in Nat /\ m_next[y] <= m_next'[y]
        BY <1>0, <4>1, <4>3, <4>4
      <4>6. ASSUME NEW w \in Workers, pc[w] = "wait", until[w] # Forever,
                   \A y \in m_timers : until[w] <= m_next[y]
            PROVE  \A y \in m_timers : until[w] <= m_next'[y]
        <5>1. until[w] \in Nat
          BY <4>6 DEF Waits
        <5>2. QED
          BY <4>5, <4>6, <5>1
      <4>7. Kept
        BY <3>1, <4>1, <4>6
      <4>8. QED
        BY <1>3, <3>1, <4>7
    <3>4. QED
      BY <2>2, <3>2, <3>3 DEF Disarm
  <2>3. ASSUME Schedule(t), t \in Outside \cup over PROVE FirstAttended'
    <3>1. UNCHANGED <<tvars, exact, until, edge>>
      BY <2>3 DEF Schedule, wakeVars
    <3>2. Kept
      BY <1>4, <1>w, <2>3, <2>b, <3>1
    <3>3. \A u \in Outside \cup over : pc[u] = "tickle" => pc'[u] = "tickle"
      <4>1. over \subseteq Threads
        BY <1>0 DEF IoTypeOK
      <4>2. pc[t] # "tickle"
        BY <2>3 DEF Schedule, Home
      <4>3. QED
        BY <1>0, <2>0, <4>1, <4>2
    <3>4. QED
      BY <1>3, <2>0, <2>3, <2>b, <3>1, <3>2, <3>3
  <2>4. ASSUME Tickle(t), t \in Outside \cup over PROVE FirstAttended'
    <3>1. edge' = (edge \/ hasIdleThreads)
      BY <2>4 DEF Tickle
    <3>2. \A w \in Workers : pc[w] \in InIdle => w \notin over
      BY DEF Stopped, Active, InIdle
    <3>3. CASE hasIdleThreads
      <4>1. PICK w \in Workers \ over : pc[w] \in InIdle
        BY <3>2, <3>3 DEF hasIdleThreads
      <4>2. pc'[w] = pc[w] /\ edge' /\ w \notin over'
        BY <2>0, <2>4, <2>b, <3>1, <3>3, <4>1
      <4>3. CASE pc[w] \in {"leaving", "wait"}
        BY <4>1, <4>2, <4>3 DEF Signalled, FirstAttended
      <4>4. QED
        BY <1>1, <4>1, <4>2, <4>3
    <3>4. CASE ~hasIdleThreads
      <4>1. CASE \E w \in Workers : w \notin over
        <5>1. PICK w \in Workers \ over : pc[w] \notin InIdle
          BY <3>4, <4>1 DEF hasIdleThreads
        <5>2. pc'[w] \notin {"leaving", "wait"} /\ w \notin over'
          BY <2>0, <2>4, <2>b, <5>1 DEF InIdle
        <5>3. QED
          BY <1>1, <5>1, <5>2
      <4>2. CASE Workers \subseteq over
        BY <2>0, <4>2 DEF FirstAttended
      <4>3. QED
        BY <4>1, <4>2
    <3>5. QED
      BY <3>3, <3>4
  <2>5. QED
    BY <1>0, <1>6, <2>a, <2>1, <2>2, <2>3, <2>4 DEF Caller
<1>7. CASE Stop
  <2>1. UNCHANGED <<tvars, exact, until, pc, over>> /\ (edge => edge')
    BY <1>7 DEF Stop
  <2>2. Kept
    BY <1>4, <2>1
  <2>3. QED
    BY <1>3, <2>1, <2>2
<1>8. ASSUME NEW w \in Workers, Run(w) PROVE FirstAttended'
  <2>1. UNCHANGED <<over, tvars, exact, until, edge>> /\ pc'[w] \notin {"leaving", "wait"}
        /\ pc[w] # "tickle" /\ \A v \in Threads : v # w => pc'[v] = pc[v]
    BY <1>0, <1>8 DEF Run, Take, TakeNone, TaskEnds, EnterIdle, wakeVars
  <2>2. CASE w \notin over
    BY <1>1, <2>1, <2>2
  <2>3. CASE w \in over
    <3>1. \A v \in Workers \ over : pc'[v] = pc[v]
      BY <1>0, <2>1, <2>3
    <3>2. Kept
      BY <1>4, <1>w, <2>1, <3>1
    <3>3. \A u \in Outside \cup over : pc[u] = "tickle" => pc'[u] = "tickle"
      <4>1. over \subseteq Threads
        BY <1>0 DEF IoTypeOK
      <4>2. QED
        BY <1>0, <2>1, <4>1
    <3>4. QED
      BY <1>3, <2>1, <3>1, <3>2, <3>3
  <2>4. QED
    BY <2>2, <2>3
<1>9. ASSUME NEW w \in Workers, Idle(w) PROVE FirstAttended'
  <2>0. w \notin over
    BY <1>9 DEF Idle, NoTimers, LeaveIdle, WaitLong, Wait, Interrupt, EpollReturn, ListCb,
                Drain, Stopped, Active
  <2>1. CASE NoTimers(w)
    <3>1. m_timers' = m_timers /\ ~m_tickled' /\ exact'[w] = Exact
      BY <1>0, <2>1 DEF NoTimers, GetNextTimer
    <3>2. Exact => m_timers = {}
      BY <2>1, ExactFacts DEF NoTimers, IoTypeOK
    <3>3. QED
      BY <3>1, <3>2 DEF FirstAttended, Covered
  <2>2. CASE LeaveIdle(w)
    <3>1. /\ pc[w] = "leaving" /\ pc' = [pc EXCEPT ![w] = "run"] /\ over' = over \cup {w}
          /\ UNCHANGED <<tvars, exact, until, edge>>
      BY <2>2 DEF LeaveIdle, wakeVars
    <3>2. \A v \in Threads : pc'[v] = IF v = w THEN "run" ELSE pc[v]
      BY <1>0, <3>1
    <3>4. Kept
      BY <1>0, <1>4, <3>1, <3>2
    <3>5. CASE Workers \subseteq over \cup {w}
      BY <3>1, <3>5 DEF FirstAttended
    <3>6. CASE \E v \in Workers : Up(v)
      BY <1>0, <3>1, <3>2, <3>6 DEF Up, FirstAttended
    <3>7. CASE ~(\E v \in Workers : Up(v)) /\ ~(Workers \subseteq over \cup {w})
      <4>1. PICK v \in Workers \ (over \cup {w}) : pc[v] \in {"leaving", "wait"}
        BY <3>7 DEF Up
      <4>2. pc'[v] \in {"leaving", "wait"}
        BY <1>0, <3>2, <4>1
      <4>3. CASE edge
        BY <3>1, <4>1, <4>2, <4>3 DEF Signalled, FirstAttended
      <4>4. CASE \E u \in Outside : pc[u] = "tickle"
        BY <1>0, <3>2, <4>4 DEF Signalled, FirstAttended
      <4>5. CASE \E u \in over : pc[u] = "tickle"
        <5>1. over \subseteq Threads /\ w \notin over
          BY <1>0, <2>0 DEF IoTypeOK
        <5>2. QED
          BY <3>1, <3>2, <4>5, <5>1 DEF FirstAttended
      <4>6. CASE ~m_tickled /\ (m_timers = {} \/ Covered)
        BY <1>2, <3>4, <4>6
      <4>7. QED
        BY <3>7, <4>3, <4>4, <4>5, <4>6 DEF Signalled, FirstAttended
    <3>8. QED
      BY <3>5, <3>6, <3>7
  <2>3. CASE WaitLong(w)
    <3>1. /\ pc[w] = "leaving" /\ pc' = [pc EXCEPT ![w] = "wait"]
          /\ until' = [until EXCEPT ![w] = until'[w]]
          /\ UNCHANGED <<tvars, exact, edge, over>>
      BY <1>0, <2>3, Zenon DEF WaitLong, Block
    <3>2. /\ \A v \in Workers : pc'[v] = IF v = w THEN "wait" ELSE pc[v]
          /\ \A v \in Workers : v # w => until'[v] = until[v]
      BY <1>0, <3>1
    <3>3. \A u \in Outside \cup over : pc'[u] = pc[u]
      <4>1. over \subseteq Threads /\ w \notin over
        BY <1>0, <2>0 DEF IoTypeOK
      <4>2. QED
        BY <1>0, <3>1, <4>1
    <3>4. Kept
      BY <3>1, <3>2 DEF tvars
    <3>5. ~(Workers \subseteq over)
      BY <2>0
    <3>6. CASE \E v \in Workers : Up(v)
      BY <3>1, <3>2, <3>6 DEF Up, FirstAttended
    <3>7. CASE Signalled \/ \E u \in over : pc[u] = "tickle"
      BY <3>1, <3>2, <3>3, <3>7 DEF Signalled, FirstAttended
    <3>8. QED
      BY <1>2, <3>4, <3>5, <3>6, <3>7 DEF FirstAttended
  <2>4. CASE Wait(w)
    <3>1. /\ pc'[w] = "wait" /\ exact'[w] = Exact /\ ~m_tickled'
          /\ until'[w] = WakeTime(WaitFor(NextTimer))
          /\ UNCHANGED <<m_timers, m_next, clock>> /\ NextTimer # U64 - 1
      BY <1>0, <2>4 DEF Wait, Block, GetNextTimer
    <3>2. CASE ~Exact
      BY <3>1, <3>2 DEF FirstAttended, Covered
    <3>3. CASE Exact
      <4>1. /\ WaitFor(NextTimer) \in Nat
            /\ \A x \in m_timers : clock + WaitFor(NextTimer) <= m_next[x]
        BY <3>1, <3>3, ExactFacts DEF IoTypeOK
      <4>2. until'[w] = clock + WaitFor(NextTimer) /\ until'[w] # Forever
        BY <1>0, <3>1, <4>1, IoAssumption DEF WakeTime
      <4>3. QED
        BY <3>1, <4>1, <4>2 DEF FirstAttended, Covered
    <3>4. QED
      BY <3>2, <3>3
  <2>5. CASE Interrupt(w)
    <3>1. /\ pc' = pc /\ UNCHANGED <<tvars, edge, over>>
          /\ \A v \in Workers : v # w => until'[v] = until[v] /\ exact'[v] = exact[v]
          /\ exact'[w] = (exact[w] /\ until'[w] = until[w])
      BY <1>0, <2>5 DEF Interrupt
    <3>2. Kept
      BY <3>1 DEF tvars
    <3>3. QED
      BY <1>3, <3>1, <3>2
  <2>6. CASE EpollReturn(w)
    BY <1>0, <1>1, <2>0, <2>6 DEF EpollReturn
  <2>7. CASE ListCb(w)
    BY <1>0, <1>1, <2>0, <2>7 DEF ListCb
  <2>8. CASE Drain(w)
    BY <1>0, <1>1, <2>0, <2>8 DEF Drain
  <2>9. QED
    BY <1>9, <2>1, <2>2, <2>3, <2>4, <2>5, <2>6, <2>7, <2>8 DEF Idle
<1>10. CASE Clock
  BY <1>5, <1>10 DEF Clock, Tick, wakeVars
<1>11. CASE UNCHANGED iovars
  BY <1>5, <1>11 DEF iovars, tvars, wakeVars
<1>12. QED
  BY <1>6, <1>7, <1>8, <1>9, <1>10, <1>11 DEF IoNext

-----------------------------------------------------------------------------
(* The theorems                                                            *)

LEMMA IoInitInv == IoInit => IoInv /\ Started /\ FirstAttended
<1> SUFFICES ASSUME IoInit PROVE IoInv /\ Started /\ FirstAttended
  OBVIOUS
<1> USE DEF IoInit
<1>1. TypeOK
  BY TimerInit DEF TimerInv
<1>2. 0 \in -(INT \div 2) .. MAX_TIMEOUT /\ 0 \in 0 .. MaxClock + MAX_TIMEOUT
  BY IoAssumption, TimerAssumption
<1>3. pc \in [Threads -> {"out", "run", "found", "exited"} \cup Active \cup InIdle]
  OBVIOUS
<1>4. IoTypeOK
  BY <1>1, <1>2, <1>3 DEF IoTypeOK
<1>5. ClockInv /\ Started
  BY TimerAssumption DEF Init, ClockInv, Started
<1>6. \A w \in Workers : pc[w] = "run"
  BY DEF Threads
<1>7. Waits
  BY <1>6 DEF Waits
<1>8. \A t \in Outside : pc[t] = "out"
  BY IoAssumption DEF Threads
<1>9. Stopped
  BY <1>6, <1>8 DEF Stopped, Init
<1>10. TaskAttended /\ NothingLeft
  BY DEF TaskAttended, NothingLeft, Init
<1>11. FirstAttended
  <2>1. PICK w \in Workers : TRUE
    BY IoAssumption
  <2>2. Up(w)
    BY <1>6 DEF Up
  <2>3. QED
    BY <2>2 DEF FirstAttended
<1>12. QED
  BY <1>4, <1>5, <1>7, <1>9, <1>10, <1>11 DEF IoInv

LEMMA IoStep == IoInv /\ [IoNext]_iovars => IoInv'
<1> SUFFICES ASSUME IoInv, [IoNext]_iovars PROVE IoInv'
  OBVIOUS
<1>1. IoTypeOK'
  BY IoTypeStep DEF IoInv
<1>2. ClockInv'
  BY TimersStep, ClockStep DEF IoInv, IoTypeOK
<1>3. Waits' /\ Stopped' /\ TaskAttended' /\ NothingLeft'
  BY WaitsStep, StoppedStep, TaskStep, LeftStep DEF IoInv
<1>4. QED
  BY <1>1, <1>2, <1>3 DEF IoInv

\* The invariant holds whatever threads, workers, the clock and stop() do.
THEOREM IoInvariant == IoSpec => []IoInv
BY IoInitInv, IoStep, PTL DEF IoSpec

\* Every variable keeps its type; no timeout given to epoll_wait is above MAX_TIMEOUT
\* (IoManager.cc:365-376).
THEOREM IoTypeCorrect == IoSpec => []IoTypeOK
<1>1. IoInv => IoTypeOK
  BY DEF IoInv
<1>2. QED
  BY <1>1, IoInvariant, PTL

\* A scheduled task waits while all workers sleep only if its tickle was dropped, and
\* then a timeout ends the wait unless getNextTimer was wrong.
THEOREM TaskWakesAlways == IoSpec => []TaskWakes
<1>1. IoInv => TaskWakes
  <2> SUFFICES ASSUME IoInv, Asleep, m_fibers > 0
               PROVE  dropped /\ \E w \in Workers : ~exact[w] \/ (pc[w] = "wait" /\ until[w] # Forever)
    BY DEF TaskWakes
  <2>1. dropped
    BY DEF IoInv, TaskAttended, Looking, Signalled, Asleep
  <2>2. PICK w \in Workers : pc[w] = "wait"
    BY DEF Asleep
  <2>3. timeout[w] < 0 => ~(timeout[w] >= 0)
    BY IoAssumption DEF IoInv, IoTypeOK
  <2>4. QED
    BY <2>1, <2>2, <2>3 DEF IoInv, Waits
<1>2. QED
  BY <1>1, IoInvariant, PTL

\* When the last worker has ended, no task and no handed-out callback is left, and no
\* timer but those armed after every worker's last look at them (by a thread outside
\* that is in time before stop(), or by a task of the last rounds of run()), or after a
\* getNextTimer that was wrong.
THEOREM LastOutAlways == IoSpec => []LastOut
<1>1. IoInv => LastOut
  <2> SUFFICES ASSUME IoInv, Ended
               PROVE  \/ m_fibers = 0 /\ m_timers \subseteq overlooked
                         /\ \A w \in Workers : expired[w] = {}
                      \/ \E w \in Workers : ~exact[w]
    BY DEF LastOut
  <2>1. \A w \in Workers : expired[w] = {}
    BY DEF IoInv, Stopped, Ended
  <2>2. Workers \subseteq over
    BY DEF IoInv, Stopped, Ended
  <2>3. QED
    BY <2>1, <2>2 DEF IoInv, NothingLeft, Ended
<1>2. QED
  BY <1>1, IoInvariant, PTL

\* As long as no time wraps, the first timer is never left to workers that all sleep
\* beyond it.
THEOREM FirstTimerWakesAlways ==
    ASSUME NoWrap PROVE IoSpec => []FirstTimerWakes
<1>1. IoInv /\ Started /\ FirstAttended /\ [IoNext]_iovars => (Started /\ FirstAttended)'
  BY StartedStep, FirstStep DEF IoInv
<1>2. IoInv /\ FirstAttended => FirstTimerWakes
  <2> SUFFICES ASSUME IoInv, FirstAttended, Asleep, m_timers # {}
               PROVE  \E w \in Workers :
                         \/ pc[w] = "wait" /\ until[w] # Forever
                            /\ until[w] <= m_next[First(m_next, m_timers)]
                         \/ ~exact[w]
    BY DEF FirstTimerWakes
  <2>0. PICK w \in Workers : pc[w] = "wait"
    BY DEF Asleep
  <2>w. w \notin over /\ over \subseteq Workers
    BY <2>0 DEF IoInv, IoTypeOK, Stopped, Active
  <2>a. ~\E v \in Workers : Up(v)
    BY DEF Asleep, Up, IoInv, Stopped
  <2>1. Covered
    BY <2>a, <2>w DEF FirstAttended, Asleep, Signalled
  <2>2. First(m_next, m_timers) \in m_timers
    BY FirstType DEF IoInv, IoTypeOK
  <2>3. QED
    BY <2>1, <2>2 DEF Covered
<1>3. QED
  BY <1>1, <1>2, IoInitInv, IoInvariant, PTL DEF IoSpec

\* Threads, workers and the idle loop use the timers as TimerManager says: what holds
\* of it (CbInSet, CancelIsFinal, NeverEarly) holds here.
THEOREM TimersUsedRight == IoSpec => Spec /\ []CbInSet /\ []CancelIsFinal /\ NeverEarly
<1>1. IoInit => Init
  BY DEF IoInit
<1>2. IoSpec => Spec
  BY <1>1, TimersStep, PTL DEF IoSpec, Spec
<1>3. QED
  BY <1>2, CbInSetAlways, CancelIsFinalAlways, NeverEarlyAlways, PTL

=============================================================================
