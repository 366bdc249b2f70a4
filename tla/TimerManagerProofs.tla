-------------------------- MODULE TimerManagerProofs --------------------------
(***************************************************************************)
(* Proofs about TimerManager for every set of timers and threads, every    *)
(* interval and every width of uint64_t.                                   *)
(***************************************************************************)
EXTENDS TimerManager, TLAPS

\* Unsigned arithmetic stays in range and does nothing to what is in range.
LEMMA UFacts ==
    /\ \A n \in Int : U(n) \in 0 .. U64 - 1
    /\ \A n \in 0 .. U64 - 1 : U(n) = n
BY TimerAssumption DEF U

\* CbInSet, CancelIsFinal and what makes them inductive: cancelling takes the
\* callback away, so a listed timer was not cancelled.
TimerInv ==
    /\ TypeOK
    /\ CbInSet
    /\ CancelIsFinal
    /\ cancelled \cap m_cb = {}

\* TypeOK is preserved by every step.
LEMMA TypeStep == TypeOK /\ [Next]_tvars => TypeOK'
<1> SUFFICES ASSUME TypeOK, [Next]_tvars PROVE TypeOK'
  OBVIOUS
<1> USE DEF TypeOK
<1>0. MinClock \in Nat /\ MaxClock \in Nat /\ MaxClock < U64 /\ U64 \in Nat
  BY TimerAssumption
<1>1. CASE Tick
  BY <1>0, <1>1 DEF Tick
<1>2. ASSUME NEW d \in Jumps, SetBack(d) PROVE TypeOK'
  <2>1. clock' \in MinClock .. MaxClock
    BY <1>0, <1>2, TimerAssumption DEF SetBack
  <2>2. steady' = FALSE
    BY <1>2 DEF SetBack
  <2>3. QED
    BY <1>2, <2>1, <2>2 DEF SetBack
<1>3. ASSUME NEW x \in Timers, User(x) PROVE TypeOK'
  <2>1. ASSUME NEW ms \in Intervals, NEW r \in Recurring, AddTimer(x, ms, r)
        PROVE  TypeOK'
    <3>1. U(clock + ms) \in 0 .. U64 - 1 /\ ms \in 0 .. U64 - 1
      BY <1>0, UFacts, TimerAssumption
    <3>2. QED
      BY <2>1, <3>1 DEF AddTimer, Insert, AtFront
  <2>2. CASE Cancel(x)
    BY <2>2 DEF Cancel
  <2>3. CASE Refresh(x)
    <3>1. U(clock + m_ms[x]) \in 0 .. U64 - 1
      BY <1>0, UFacts
    <3>2. QED
      BY <2>3, <3>1 DEF Refresh
  <2>4. ASSUME NEW ms \in Intervals, NEW from_now \in BOOLEAN, Reset(x, ms, from_now)
        PROVE  TypeOK'
    <3>1. ms \in 0 .. U64 - 1 /\ ResetStart(x, from_now) \in Int
      BY <1>0, UFacts, TimerAssumption DEF ResetStart
    <3>2. U(ResetStart(x, from_now) + ms) \in 0 .. U64 - 1
      BY <3>1, UFacts
    <3>3. QED
      BY <2>4, <3>1, <3>2 DEF Reset, Insert, AtFront
  <2>5. QED
    BY <1>3, <2>1, <2>2, <2>3, <2>4 DEF User
<1>4. CASE GetNextTimer
  BY <1>4 DEF GetNextTimer
<1>5. ASSUME NEW w \in Workers, ReadClock(w) PROVE TypeOK'
  BY <1>5 DEF ReadClock
<1>6. ASSUME NEW w \in Workers, ListExpired(w) PROVE TypeOK'
  <2> DEFINE now == now_ms[w]
             again == Due(now) \cap m_recurring
  <2>1. now \in MinClock .. MaxClock /\ Due(now) \in SUBSET Timers
    BY <1>6 DEF ListExpired, Due
  <2>2. \A x \in Timers : U(now + m_ms[x]) \in 0 .. U64 - 1
    BY <1>0, <2>1, UFacts
  <2>3. m_next' \in [Timers -> 0 .. U64 - 1]
    BY <1>6, <2>1, <2>2 DEF ListExpired
  <2>4. taken' \in [Timers -> 0 .. 2]
    BY <1>6 DEF ListExpired
  <2>5. now_ms' \in [Workers -> (MinClock .. MaxClock) \cup {NotListing}]
    BY <1>6 DEF ListExpired
  <2>6. expired' \in [Workers -> SUBSET Timers]
    BY <1>6, <2>1 DEF ListExpired
  <2>7. QED
    BY <1>6, <2>1, <2>3, <2>4, <2>5, <2>6 DEF ListExpired
<1>7. ASSUME NEW w \in Workers, Deliver(w) PROVE TypeOK'
  BY <1>7 DEF Deliver
<1>8. CASE UNCHANGED tvars
  BY <1>8 DEF tvars
<1>9. QED
  BY <1>1, <1>2, <1>3, <1>4, <1>5, <1>6, <1>7, <1>8 DEF Next

\* One step keeps the callbacks, the set and the history in agreement.
LEMMA TimerStep == TimerInv /\ [Next]_tvars => TimerInv'
<1> SUFFICES ASSUME TimerInv, [Next]_tvars PROVE TimerInv'
  OBVIOUS
<1>0. TypeOK'
  BY TypeStep DEF TimerInv
<1> DEFINE Same == UNCHANGED <<m_cb, m_timers, m_recurring, taken, cancelled>>
<1>1. CASE Same
  BY <1>0, <1>1 DEF TimerInv, CbInSet, CancelIsFinal
<1>2. CASE Tick \/ (\E d \in Jumps : SetBack(d)) \/ GetNextTimer
  BY <1>1, <1>2 DEF Tick, SetBack, GetNextTimer
<1>3. ASSUME NEW x \in Timers, User(x) PROVE TimerInv'
  <2>1. ASSUME NEW ms \in Intervals, NEW r \in Recurring, AddTimer(x, ms, r)
        PROVE  TimerInv'
    <3>1. CbInSet' /\ (cancelled \cap m_cb = {})'
      BY <2>1 DEF TimerInv, CbInSet, AddTimer
    <3>2. CancelIsFinal'
      BY <2>1 DEF TimerInv, TypeOK, CancelIsFinal, AddTimer
    <3>3. QED
      BY <1>0, <3>1, <3>2 DEF TimerInv
  <2>2. CASE Cancel(x)
    <3>1. CbInSet' /\ (cancelled \cap m_cb = {})'
      BY <2>2 DEF TimerInv, CbInSet, Cancel
    <3>2. CancelIsFinal'
      BY <2>2 DEF TimerInv, TypeOK, CancelIsFinal, Cancel
    <3>3. QED
      BY <1>0, <3>1, <3>2 DEF TimerInv
  <2>3. CASE Refresh(x)
    BY <1>1, <2>3 DEF Refresh
  <2>4. ASSUME NEW ms \in Intervals, NEW from_now \in BOOLEAN, Reset(x, ms, from_now)
        PROVE  TimerInv'
    BY <1>1, <2>4 DEF Reset
  <2>5. QED
    BY <1>3, <2>1, <2>2, <2>3, <2>4 DEF User
<1>4. ASSUME NEW w \in Workers, ReadClock(w) \/ Deliver(w) PROVE TimerInv'
  BY <1>1, <1>4 DEF ReadClock, Deliver
<1>5. ASSUME NEW w \in Workers, ListExpired(w) PROVE TimerInv'
  <2> DEFINE due == Due(now_ms[w])
  <2>1. due \subseteq m_timers
    BY DEF Due
  <2>2. /\ m_timers' = (m_timers \ due) \cup (due \cap m_recurring)
        /\ m_cb' = m_cb \ (due \ m_recurring)
        /\ taken' = [x \in Timers |-> IF x \in due /\ taken[x] < 2
                                       THEN taken[x] + 1 ELSE taken[x]]
        /\ UNCHANGED <<m_recurring, cancelled>>
    BY <1>5 DEF ListExpired
  <2> HIDE DEF due
  <2>3. CbInSet' /\ (cancelled \cap m_cb = {})'
    BY <2>1, <2>2 DEF TimerInv, CbInSet
  <2>4. CancelIsFinal'
    BY <2>1, <2>2 DEF TimerInv, TypeOK, CbInSet, CancelIsFinal
  <2>5. QED
    BY <1>0, <2>3, <2>4 DEF TimerInv
<1>6. CASE UNCHANGED tvars
  BY <1>1, <1>6 DEF tvars
<1>7. QED
  BY <1>2, <1>3, <1>4, <1>5, <1>6 DEF Next

\* Before the first addTimer() there is nothing to agree on.
LEMMA TimerInit == Init => TimerInv
<1> SUFFICES ASSUME Init PROVE TimerInv
  OBVIOUS
<1> USE DEF Init
<1>1. 0 \in 0 .. U64 - 1 /\ 0 \in 0 .. 2
  BY TimerAssumption
<1>2. TypeOK
  BY <1>1 DEF TypeOK
<1>3. CbInSet /\ CancelIsFinal
  BY DEF CbInSet, CancelIsFinal
<1>4. QED
  BY <1>2, <1>3 DEF TimerInv

\* The invariant holds however timers are added, moved, cancelled and listed, and
\* also when the wall clock is set back.
THEOREM TimerInvariant == Spec => []TimerInv
BY TimerInit, TimerStep, PTL DEF Spec

\* Every variable keeps its type: m_next never leaves the range of uint64_t.
THEOREM TypeCorrect == Spec => []TypeOK
<1>1. TimerInv => TypeOK
  BY DEF TimerInv
<1>2. QED
  BY <1>1, TimerInvariant, PTL

\* cancel() (timer.cc:8-17) never erases end(): a timer that has a callback is in
\* the set.
THEOREM CbInSetAlways == Spec => []CbInSet
<1>1. TimerInv => CbInSet
  BY DEF TimerInv
<1>2. QED
  BY <1>1, TimerInvariant, PTL

\* A one-shot timer is handed out at most once, and never after cancel() returned
\* true, whichever of cancel() and listExpiredCb() gets m_mutex first.
THEOREM CancelIsFinalAlways == Spec => []CancelIsFinal
<1>1. TimerInv => CancelIsFinal
  BY DEF TimerInv
<1>2. QED
  BY <1>1, TimerInvariant, PTL

-----------------------------------------------------------------------------
\* Unless the clock was set back, the times a thread works with are at most Hour
\* old, and none lies ahead.
ClockInv ==
    steady =>
      /\ m_previousTime <= clock
      /\ \A w \in Workers : now_ms[w] # NotListing =>
            now_ms[w] <= clock /\ clock <= now_ms[w] + Hour

\* Every step keeps it so: a tick waits for a thread that holds an old time.
LEMMA ClockStep == TypeOK /\ ClockInv /\ [Next]_tvars => ClockInv'
<1> SUFFICES ASSUME TypeOK, ClockInv, [Next]_tvars PROVE ClockInv'
  OBVIOUS
<1> USE TimerAssumption DEF TypeOK, ClockInv, NotListing
<1>1. CASE UNCHANGED <<clock, m_previousTime, now_ms, steady>>
  BY <1>1
<1>2. CASE Tick
  BY <1>2 DEF Tick
<1>3. ASSUME NEW d \in Jumps, SetBack(d) PROVE ClockInv'
  BY <1>3 DEF SetBack
<1>4. ASSUME NEW x \in Timers, User(x) PROVE ClockInv'
  BY <1>1, <1>4 DEF User, AddTimer, Cancel, Refresh, Reset
<1>5. CASE GetNextTimer
  BY <1>1, <1>5 DEF GetNextTimer
<1>6. ASSUME NEW w \in Workers, ReadClock(w) PROVE ClockInv'
  BY <1>6 DEF ReadClock
<1>7. ASSUME NEW w \in Workers, ListExpired(w) PROVE ClockInv'
  BY <1>7 DEF ListExpired
<1>8. ASSUME NEW w \in Workers, Deliver(w) PROVE ClockInv'
  BY <1>1, <1>8 DEF Deliver
<1>9. CASE UNCHANGED tvars
  BY <1>1, <1>9 DEF tvars
<1>10. QED
  BY <1>2, <1>3, <1>4, <1>5, <1>6, <1>7, <1>8, <1>9 DEF Next

\* On a clock that is not set back the rollover test is never taken, and no timer
\* is handed out before the clock has reached its m_next (timer.cc:129-171).
THEOREM NeverEarlyAlways == Spec => NeverEarly
<1> DEFINE OnTime == steady =>
              \A x \in Timers : taken'[x] > taken[x] => m_next[x] <= clock
<1>1. Init => ClockInv
  BY TimerAssumption DEF Init, ClockInv
<1>2. TypeOK /\ ClockInv /\ [Next]_tvars => [OnTime]_tvars
  <2> SUFFICES ASSUME TypeOK, ClockInv, Next, steady,
                      NEW x \in Timers, taken'[x] > taken[x]
               PROVE  m_next[x] <= clock
    OBVIOUS
  <2>1. CASE UNCHANGED taken
    BY <2>1 DEF TypeOK
  <2>2. ASSUME NEW y \in Timers, User(y) PROVE m_next[x] <= clock
    <3>1. CASE \E ms \in Intervals, r \in Recurring : AddTimer(y, ms, r)
      BY <3>1 DEF AddTimer, TypeOK
    <3>2. QED
      BY <2>1, <2>2, <3>1 DEF User, Cancel, Refresh, Reset
  <2>3. ASSUME NEW w \in Workers, ListExpired(w) PROVE m_next[x] <= clock
    <3> DEFINE now == now_ms[w]
    <3>1. now \in MinClock .. MaxClock /\ now <= clock /\ clock <= now + Hour
      BY <2>3 DEF ListExpired, TypeOK, ClockInv
    <3>2. x \in Due(now)
      BY <2>3 DEF ListExpired, TypeOK
    <3>3. ~Rollover(now)
      <4>1. U(m_previousTime - Hour) = m_previousTime - Hour
        BY UFacts, TimerAssumption DEF TypeOK
      <4>2. QED
        BY <3>1, <4>1, TimerAssumption DEF Rollover, TypeOK, ClockInv
    <3>4. m_next[x] <= now
      BY <3>2, <3>3 DEF Due
    <3>5. QED
      BY <3>1, <3>4, TimerAssumption DEF TypeOK
  <2>4. QED
    BY <2>1, <2>2, <2>3 DEF Next, Tick, SetBack, GetNextTimer, ReadClock, Deliver
<1>3. Spec => [](TypeOK /\ ClockInv)
  BY <1>1, TypeCorrect, ClockStep, PTL DEF Spec
<1>4. QED
  BY <1>2, <1>3, PTL DEF Spec, NeverEarly

=============================================================================
