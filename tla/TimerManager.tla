----------------------------- MODULE TimerManager -----------------------------
(***************************************************************************)
(* Timer and TimerManager (src/src/timer.cc, src/include/timer.h): the     *)
(* ordered set of timers, cancel/refresh/reset, and listExpiredCb, which   *)
(* reads the clock before it takes m_mutex and so works with an old time.  *)
(*                                                                         *)
(* Milliseconds are unsigned and wrap at the width of uint64_t, scaled to  *)
(* U64 values.  A callback is the timer it belongs to.                     *)
(***************************************************************************)
EXTENDS Integers, FiniteSets

CONSTANTS
    Timers,     \* addresses of Timer objects: the comparator orders equal m_next
                \* by pointer
    Workers,    \* threads that call listExpiredCb
    Intervals,  \* the ms callers pass
    Recurring,  \* the values of recurring callers pass
    Jumps,      \* by how much the wall clock may be set back
    U64,        \* number of values of uint64_t (scaled)
    Hour,       \* rollover threshold, 60 * 60 * 1000 in the code (scaled)
    MinClock,   \* earliest clock value: the wall clock is hours past its epoch
    MaxClock    \* bound: latest clock value

ASSUME TimerAssumption ==
    /\ Timers \subseteq Nat
    /\ U64 \in Nat \ {0}
    /\ Intervals \subseteq 0 .. U64 - 1
    /\ Recurring \subseteq BOOLEAN
    /\ Jumps \subseteq Nat
    /\ Hour \in Nat
    /\ MaxClock \in 0 .. U64 - 1
    /\ MinClock \in Hour .. MaxClock

VARIABLES
    clock,           \* GetCurrentMS()
    m_timers,        \* the std::set of timers
    m_next,          \* per timer: when it expires
    m_ms,            \* per timer: its interval
    m_recurring,     \* the timers that are recurring
    m_cb,            \* the timers whose m_cb is not null
    m_tickled,
    m_previousTime,
    now_ms,          \* per worker: listExpiredCb's local now_ms, or NotListing
    expired,         \* per worker: the callbacks listExpiredCb has handed it
    taken,           \* history: how often each timer's callback was handed out
    cancelled,       \* history: timers on which cancel() returned true
    steady           \* history: the clock was never set back

tvars == <<clock, m_timers, m_next, m_ms, m_recurring, m_cb, m_tickled,
           m_previousTime, now_ms, expired, taken, cancelled, steady>>

\* Mutant of U: the times are kept signed.
USigned(n) == LET y == n % U64 IN IF y < U64 \div 2 THEN y ELSE y - U64

\* uint64_t arithmetic.
U(n) == n % U64
NotListing == -1

\* Timer::Comparator
Before(next, a, b) == next[a] < next[b] \/ (next[a] = next[b] /\ a < b)

\* *m_timers.begin() of a non-empty set S
First(next, S) == CHOOSE a \in S : \A b \in S \ {a} : Before(next, a, b)

-----------------------------------------------------------------------------
TypeOK ==
    /\ clock \in MinClock .. MaxClock
    /\ m_timers \subseteq Timers
    /\ m_next \in [Timers -> 0 .. U64 - 1]
    /\ m_ms \in [Timers -> 0 .. U64 - 1]
    /\ m_recurring \subseteq Timers
    /\ m_cb \subseteq Timers
    /\ m_tickled \in BOOLEAN
    /\ m_previousTime \in MinClock .. MaxClock
    /\ now_ms \in [Workers -> (MinClock .. MaxClock) \cup {NotListing}]
    /\ expired \in [Workers -> SUBSET Timers]
    /\ taken \in [Timers -> 0 .. 2]
    /\ cancelled \subseteq Timers
    /\ steady \in BOOLEAN

Init ==
    /\ clock \in MinClock .. MaxClock
    /\ m_timers = {}
    /\ m_next = [x \in Timers |-> 0]
    /\ m_ms = [x \in Timers |-> 0]
    /\ m_recurring = {}
    /\ m_cb = {}
    /\ m_tickled = FALSE
    /\ m_previousTime = clock
    /\ now_ms = [w \in Workers |-> NotListing]
    /\ expired = [w \in Workers |-> {}]
    /\ taken = [x \in Timers |-> 0]
    /\ cancelled = {}
    /\ steady = TRUE

-----------------------------------------------------------------------------
(* The wall clock.  No thread is held up for more than Hour between reading *)
(* the clock in listExpiredCb and getting the lock.                        *)

Tick ==
    /\ clock < MaxClock
    /\ \A w \in Workers : now_ms[w] # NotListing => clock < now_ms[w] + Hour
    /\ clock' = clock + 1
    /\ UNCHANGED <<m_timers, m_next, m_ms, m_recurring, m_cb, m_tickled,
                   m_previousTime, now_ms, expired, taken, cancelled, steady>>

SetBack(d) ==
    /\ clock - d >= MinClock
    /\ clock' = clock - d
    /\ steady' = FALSE
    /\ UNCHANGED <<m_timers, m_next, m_ms, m_recurring, m_cb, m_tickled,
                   m_previousTime, now_ms, expired, taken, cancelled>>

-----------------------------------------------------------------------------
\* addTimer(val, lock): insert x, due at nx.  AtFront says whether it then calls
\* onTimerInsertAtFront() after the unlock.
AtFront(x, nx) ==
    /\ ~m_tickled
    /\ First([m_next EXCEPT ![x] = nx], m_timers \cup {x}) = x

Insert(x, nx) ==
    /\ m_next' = [m_next EXCEPT ![x] = nx]
    /\ m_tickled' = (m_tickled \/ AtFront(x, nx))

\* addTimer(ms, cb, recurring) makes a Timer object nobody else has.
AddTimer(x, ms, recurring) ==
    /\ x \notin m_timers /\ x \notin m_cb
    /\ \A w \in Workers : x \notin expired[w]
    /\ Insert(x, U(clock + ms))
    /\ m_timers' = m_timers \cup {x}
    /\ m_ms' = [m_ms EXCEPT ![x] = ms]
    /\ m_recurring' = IF recurring THEN m_recurring \cup {x} ELSE m_recurring \ {x}
    /\ m_cb' = m_cb \cup {x}
    /\ taken' = [taken EXCEPT ![x] = 0]
    /\ cancelled' = cancelled \ {x}
    /\ UNCHANGED <<clock, m_previousTime, now_ms, expired, steady>>

\* Mutant of Cancel: the callback is nulled and the timer stays in the set.
CancelKeeps(x) ==
    /\ x \in m_cb
    /\ m_cb' = m_cb \ {x}
    /\ cancelled' = cancelled \cup {x}
    /\ UNCHANGED <<clock, m_timers, m_next, m_ms, m_recurring, m_tickled,
                   m_previousTime, now_ms, expired, taken, steady>>

\* Timer::cancel; with m_cb null it returns false and changes nothing.
Cancel(x) ==
    /\ x \in m_cb
    /\ m_cb' = m_cb \ {x}
    /\ m_timers' = m_timers \ {x}
    /\ cancelled' = cancelled \cup {x}
    /\ UNCHANGED <<clock, m_next, m_ms, m_recurring, m_tickled, m_previousTime,
                   now_ms, expired, taken, steady>>

\* Timer::refresh: erase, postpone, insert again (without a tickle).
Refresh(x) ==
    /\ x \in m_cb /\ x \in m_timers
    /\ m_next' = [m_next EXCEPT ![x] = U(clock + m_ms[x])]
    /\ UNCHANGED <<clock, m_timers, m_ms, m_recurring, m_cb, m_tickled,
                   m_previousTime, now_ms, expired, taken, cancelled, steady>>

\* Timer::reset; the same interval counted from the old start is no change.
ResetStart(x, from_now) == IF from_now THEN clock ELSE U(m_next[x] - m_ms[x])

Reset(x, ms, from_now) ==
    /\ ms # m_ms[x] \/ from_now
    /\ x \in m_cb /\ x \in m_timers
    /\ m_ms' = [m_ms EXCEPT ![x] = ms]
    /\ Insert(x, U(ResetStart(x, from_now) + ms))
    /\ UNCHANGED <<clock, m_timers, m_recurring, m_cb, m_previousTime, now_ms,
                   expired, taken, cancelled, steady>>

-----------------------------------------------------------------------------
\* getNextTimer: the uint64_t distance to the first timer; ~0ull if there is none.
NextTimer ==
    IF m_timers = {} THEN U64 - 1
    ELSE LET first == m_next[First(m_next, m_timers)] IN
         IF clock = first THEN 0 ELSE U(first - clock)

\* Mutant of GetNextTimer: m_tickled is never cleared.
GetNextTimerTickled == UNCHANGED tvars

\* What getNextTimer changes: the next new first timer tickles again.
GetNextTimer ==
    /\ m_tickled' = FALSE
    /\ UNCHANGED <<clock, m_timers, m_next, m_ms, m_recurring, m_cb,
                   m_previousTime, now_ms, expired, taken, cancelled, steady>>

\* Mutant of Rollover: any older time counts as a clock that was set back.
RolloverAny(now) == now < m_previousTime

\* detectColckRollover: m_previousTime - Hour is unsigned too.
Rollover(now) == now < m_previousTime /\ now < U(m_previousTime - Hour)

\* listExpiredCb, first line: the time is read without the lock.
ReadClock(w) ==
    /\ now_ms[w] = NotListing
    /\ expired[w] = {}
    /\ now_ms' = [now_ms EXCEPT ![w] = clock]
    /\ UNCHANGED <<clock, m_timers, m_next, m_ms, m_recurring, m_cb, m_tickled,
                   m_previousTime, expired, taken, cancelled,
                   steady>>

\* The timers listExpiredCb removes: all after a rollover, else those due.
Due(now) == IF Rollover(now) THEN m_timers
                             ELSE {x \in m_timers : m_next[x] <= now}

\* Mutant of ListExpired: a finished one-shot timer keeps its callback.
ListExpiredKeepsCb(w) ==
    LET now == now_ms[w]
        due == Due(now)
        again == due \cap m_recurring
    IN
    /\ now # NotListing
    /\ now_ms' = [now_ms EXCEPT ![w] = NotListing]
    /\ m_previousTime' = IF m_timers = {} THEN m_previousTime ELSE now
    /\ m_timers' = (m_timers \ due) \cup again
    /\ m_next' = [x \in Timers |-> IF x \in again THEN U(now + m_ms[x])
                                                  ELSE m_next[x]]
    /\ expired' = [expired EXCEPT ![w] = due]
    /\ taken' = [x \in Timers |-> IF x \in due /\ taken[x] < 2 THEN taken[x] + 1
                                                               ELSE taken[x]]
    /\ UNCHANGED <<clock, m_ms, m_recurring, m_cb, m_tickled, cancelled,
                   steady>>

\* listExpiredCb, under m_mutex: hand out the callbacks; one-shot timers are
\* finished, recurring ones go back into the set.
ListExpired(w) ==
    LET now == now_ms[w]
        due == Due(now)
        again == due \cap m_recurring
    IN
    /\ now # NotListing
    /\ now_ms' = [now_ms EXCEPT ![w] = NotListing]
    /\ m_previousTime' = IF m_timers = {} THEN m_previousTime ELSE now
    /\ m_timers' = (m_timers \ due) \cup again
    /\ m_next' = [x \in Timers |-> IF x \in again THEN U(now + m_ms[x])
                                                  ELSE m_next[x]]
    /\ m_cb' = m_cb \ (due \ m_recurring)
    /\ expired' = [expired EXCEPT ![w] = due]
    /\ taken' = [x \in Timers |-> IF x \in due /\ taken[x] < 2 THEN taken[x] + 1
                                                               ELSE taken[x]]
    /\ UNCHANGED <<clock, m_ms, m_recurring, m_tickled, cancelled, steady>>

\* idle() schedules the callbacks it was handed.
Deliver(w) ==
    /\ expired[w] # {}
    /\ expired' = [expired EXCEPT ![w] = {}]
    /\ UNCHANGED <<clock, m_timers, m_next, m_ms, m_recurring, m_cb, m_tickled,
                   m_previousTime, now_ms, taken, cancelled, steady>>

-----------------------------------------------------------------------------
User(x) ==
    \/ \E ms \in Intervals, recurring \in Recurring : AddTimer(x, ms, recurring)
    \/ Cancel(x)
    \/ Refresh(x)
    \/ \E ms \in Intervals, from_now \in BOOLEAN : Reset(x, ms, from_now)

Next ==
    \/ Tick
    \/ \E d \in Jumps : SetBack(d)
    \/ \E x \in Timers : User(x)
    \/ GetNextTimer
    \/ \E w \in Workers : ReadClock(w) \/ ListExpired(w) \/ Deliver(w)

Spec == Init /\ [][Next]_tvars

-----------------------------------------------------------------------------
\* A timer has a callback exactly while it is in the set.  cancel() relies on it:
\* it erases find(this) without looking whether find returned end().
CbInSet == m_cb = m_timers

\* A one-shot timer runs at most once, and once cancel() has returned true never:
\* the hooked IO calls cancel their timeout on the way out and rely on it.
CancelIsFinal ==
    \A x \in Timers \ m_recurring :
        taken[x] + (IF x \in m_cb \/ x \in cancelled THEN 1 ELSE 0) <= 1

\* A timer never runs early: whatever refresh, reset or a thread that reads the
\* clock long before it gets the lock do, a callback is handed out only when the
\* clock has reached m_next (as long as the clock itself was not set back).
NeverEarly ==
    [][steady => \A x \in Timers : taken'[x] > taken[x] => m_next[x] <= clock]_tvars

=============================================================================
