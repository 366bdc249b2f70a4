------------------------------ MODULE IOManager ------------------------------
(***************************************************************************)
(* IOManager's event half (src/src/IoManager.cc): per descriptor, the      *)
(* events waited for and who waits for them, kept in step with epoll's     *)
(* edge-triggered interest list by addEvent, delEvent, cancelEvent,        *)
(* cancelAll and the event loop of idle().  Each of these does its work in *)
(* one critical section of the descriptor's mutex; what epoll_wait         *)
(* reported to a worker is older than the state it is then applied to.     *)
(*                                                                         *)
(* A waiter is a fiber (addEvent without cb) or a callback.  The kernel    *)
(* half (epoll) is external.                                               *)
(***************************************************************************)
EXTENDS Integers, FiniteSets, Functions

CONSTANTS
    Fds,        \* descriptors
    Waiters,    \* fibers and callbacks
    NoWaiter,   \* a null fiber or cb
    Workers,    \* threads in idle()
    Dirs,       \* per descriptor: the events callers wait for
    Kinds,      \* per descriptor: whether they pass a cb, none, or either
    Shared      \* whether two waiters may wait for the same event

READ == "READ"
WRITE == "WRITE"
ERR == "ERR"             \* EPOLLERR or EPOLLHUP
Events == {READ, WRITE}

ASSUME IOManagerAssumption ==
    /\ NoWaiter \notin Waiters
    /\ IsFiniteSet(Fds) /\ IsFiniteSet(Waiters)
    /\ Dirs \in [Fds -> SUBSET Events]
    /\ Kinds \in [Fds -> SUBSET {"fiber", "cb"}]
    /\ Shared \in BOOLEAN

VARIABLES
    events,                \* FdContext::events
    ctx,                   \* FdContext::read and write: [scheduler, fiber, cb]
    m_pendingEventCount,
    interest,              \* epoll: registered events, {} if not registered
    ready,                 \* kernel: what the descriptor could do now
    listed,                \* epoll: descriptors on its ready list
    report,                \* per worker: epoll_wait's events still to process
    waiting,               \* waiters registered and not yet run
    wakes,                 \* per waiter: pending schedule() calls
    crashed                \* a null Scheduler pointer was dereferenced

vars == <<events, ctx, m_pendingEventCount, interest, ready, listed, report,
          waiting, wakes, crashed>>

NoReport == [fd \in Fds |-> {}]

Init ==
    /\ events = [fd \in Fds |-> {}]
    /\ ctx = [fd \in Fds |-> [e \in Events |->
                 [scheduler |-> FALSE, fiber |-> NoWaiter, cb |-> NoWaiter]]]
    /\ m_pendingEventCount = 0
    /\ interest = [fd \in Fds |-> {}]
    /\ ready = [fd \in Fds |-> {}]
    /\ listed = {}
    /\ report = [w \in Workers |-> NoReport]
    /\ waiting = {}
    /\ wakes = [u \in Waiters |-> 0]
    /\ crashed = FALSE

-----------------------------------------------------------------------------
(* epoll                                                                   *)

\* What epoll_wait would report for fd with the given interest list.
Reportable(fd, evs) == IF evs = {} THEN {} ELSE ready[fd] \cap (evs \cup {ERR})

\* epoll_ctl ADD, MOD or DEL: the kernel looks at the descriptor at once.
EpollCtl(fd, evs) ==
    /\ interest' = [interest EXCEPT ![fd] = evs]
    /\ listed' = IF Reportable(fd, evs) # {} THEN listed \cup {fd}
                 ELSE IF evs = {} THEN listed \ {fd} ELSE listed

\* The descriptor becomes readable, writable or broken: an edge.
Arrive(fd, c) ==
    /\ ~crashed
    /\ c \notin ready[fd]
    /\ ready' = [ready EXCEPT ![fd] = @ \cup {c}]
    /\ listed' = IF interest[fd] # {} /\ c \in interest[fd] \cup {ERR}
                 THEN listed \cup {fd} ELSE listed
    /\ UNCHANGED <<events, ctx, m_pendingEventCount, interest, report, waiting,
                   wakes, crashed>>

\* A read or write consumes the condition.
Consume(fd, e) ==
    /\ ~crashed
    /\ e \in ready[fd]
    /\ ready' = [ready EXCEPT ![fd] = @ \ {e}]
    /\ UNCHANGED <<events, ctx, m_pendingEventCount, interest, listed, report,
                   waiting, wakes, crashed>>

-----------------------------------------------------------------------------
\* Mutant of Target: the callback is ignored.
TargetFiber(fd, e) == ctx[fd][e].fiber

\* FdContext::triggerEvent schedules the cb if there is one, else the fiber ...
Target(fd, e) == IF ctx[fd][e].cb # NoWaiter THEN ctx[fd][e].cb ELSE ctx[fd][e].fiber

\* ... then nulls the scheduler and nothing else.
Spent(c) == [scheduler |-> FALSE, fiber |-> c.fiber, cb |-> c.cb]

\* triggerEvent for each event of S in turn.  A null fiber is not
\* pushed by scheduleNoLock.
Trigger(fd, S) ==
    /\ events' = [events EXCEPT ![fd] = @ \ S]
    /\ ctx' = [ctx EXCEPT ![fd] = [e \in Events |->
                  IF e \in S THEN Spent(ctx[fd][e]) ELSE ctx[fd][e]]]
    /\ wakes' = [u \in Waiters |->
                  wakes[u] + Cardinality({e \in S : Target(fd, e) = u})]
    /\ m_pendingEventCount' = m_pendingEventCount - Cardinality(S)

\* addEvent records who waits, and leaves the other of fiber and cb as it is.
Armed(c, u, kind) ==
    [scheduler |-> TRUE,
     fiber |-> IF kind = "cb" THEN c.fiber ELSE u,
     cb |-> IF kind = "cb" THEN u ELSE c.cb]

\* Mutant of AddEvent: epoll is not told.
AddEventUnarmed(fd, e, u, kind) ==
    /\ ~crashed
    /\ e \in Dirs[fd] /\ kind \in Kinds[fd]
    /\ e \notin events[fd] \/ Shared
    /\ u \notin waiting /\ wakes[u] = 0
    /\ m_pendingEventCount' = m_pendingEventCount + 1
    /\ events' = [events EXCEPT ![fd] = @ \cup {e}]
    /\ ctx' = [ctx EXCEPT ![fd][e] = Armed(@, u, kind)]
    /\ waiting' = waiting \cup {u}
    /\ UNCHANGED <<interest, listed, ready, report, wakes, crashed>>

\* Mutant of AddEvent: a waiter whose event is possible already is run at once.
AddEventEager(fd, e, u, kind) ==
    /\ ~crashed
    /\ e \in Dirs[fd] /\ kind \in Kinds[fd]
    /\ e \notin events[fd] \/ Shared
    /\ u \notin waiting /\ wakes[u] = 0
    /\ wakes' = [wakes EXCEPT ![u] = 1]
    /\ waiting' = waiting \cup {u}
    /\ UNCHANGED <<events, ctx, m_pendingEventCount, interest, listed, ready, report,
                   crashed>>

\* addEvent(fd, e) from the running fiber, or addEvent(fd, e, cb).
AddEvent(fd, e, u, kind) ==
    /\ ~crashed
    /\ e \in Dirs[fd] /\ kind \in Kinds[fd]
    /\ e \notin events[fd] \/ Shared
    /\ u \notin waiting /\ wakes[u] = 0
    /\ EpollCtl(fd, events[fd] \cup {e})
    /\ m_pendingEventCount' = m_pendingEventCount + 1
    /\ events' = [events EXCEPT ![fd] = @ \cup {e}]
    /\ ctx' = [ctx EXCEPT ![fd][e] = Armed(@, u, kind)]
    /\ waiting' = waiting \cup {u}
    /\ UNCHANGED <<ready, report, wakes, crashed>>

\* Mutants of DelEvent: --m_pendingEventCount is missing, or done twice.
DelEventUncounted(fd, e) ==
    /\ ~crashed
    /\ e \in events[fd]
    /\ EpollCtl(fd, events[fd] \ {e})
    /\ events' = [events EXCEPT ![fd] = @ \ {e}]
    /\ ctx' = [ctx EXCEPT ![fd][e] =
                  [scheduler |-> FALSE, fiber |-> NoWaiter, cb |-> NoWaiter]]
    /\ waiting' = waiting \ {Target(fd, e)}
    /\ UNCHANGED <<m_pendingEventCount, ready, report, wakes, crashed>>

DelEventTwice(fd, e) ==
    /\ ~crashed
    /\ e \in events[fd]
    /\ EpollCtl(fd, events[fd] \ {e})
    /\ m_pendingEventCount' = m_pendingEventCount - 2
    /\ events' = [events EXCEPT ![fd] = @ \ {e}]
    /\ ctx' = [ctx EXCEPT ![fd][e] =
                  [scheduler |-> FALSE, fiber |-> NoWaiter, cb |-> NoWaiter]]
    /\ waiting' = waiting \ {Target(fd, e)}
    /\ UNCHANGED <<ready, report, wakes, crashed>>

\* delEvent: forget the waiter without running it.
DelEvent(fd, e) ==
    /\ ~crashed
    /\ e \in events[fd]
    /\ EpollCtl(fd, events[fd] \ {e})
    /\ m_pendingEventCount' = m_pendingEventCount - 1
    /\ events' = [events EXCEPT ![fd] = @ \ {e}]
    /\ ctx' = [ctx EXCEPT ![fd][e] =
                  [scheduler |-> FALSE, fiber |-> NoWaiter, cb |-> NoWaiter]]
    /\ waiting' = waiting \ {Target(fd, e)}
    /\ UNCHANGED <<ready, report, wakes, crashed>>

\* Mutant of CancelEvent: epoll keeps the event.
CancelEventArmed(fd, e) ==
    /\ ~crashed
    /\ e \in events[fd]
    /\ Trigger(fd, {e})
    /\ UNCHANGED <<interest, listed, ready, report, waiting, crashed>>

\* cancelEvent: run the waiter as if the event had happened.
CancelEvent(fd, e) ==
    /\ ~crashed
    /\ e \in events[fd]
    /\ EpollCtl(fd, events[fd] \ {e})
    /\ Trigger(fd, {e})
    /\ UNCHANGED <<ready, report, waiting, crashed>>

CancelAll(fd) ==
    /\ ~crashed
    /\ events[fd] # {}
    /\ EpollCtl(fd, {})
    /\ Trigger(fd, events[fd])
    /\ UNCHANGED <<ready, report, waiting, crashed>>

-----------------------------------------------------------------------------
\* idle(): epoll_wait hands the ready list to one worker and clears it.
EpollWait(w) ==
    /\ ~crashed
    /\ report[w] = NoReport
    /\ listed # {}
    /\ report' = [report EXCEPT ![w] = [fd \in Fds |->
                     IF fd \in listed THEN Reportable(fd, interest[fd]) ELSE {}]]
    /\ listed' = {}
    /\ UNCHANGED <<events, ctx, m_pendingEventCount, interest, ready, waiting,
                   wakes, crashed>>

\* The READ and WRITE bits idle() acts on; an error stands for what is waited for.
RealEvents(fd, evs) ==
    (evs \cup (IF ERR \in evs THEN events[fd] ELSE {})) \cap Events

\* Mutants of Process: it trusts the report, or drops what it should trigger.
ProcessUnchecked(w, fd) ==
    LET real == RealEvents(fd, report[w][fd]) IN
    /\ ~crashed
    /\ report[w][fd] # {}
    /\ report' = [report EXCEPT ![w][fd] = {}]
    /\ IF \E e \in real : ~ctx[fd][e].scheduler
       THEN /\ crashed' = TRUE
            /\ UNCHANGED <<events, ctx, m_pendingEventCount, interest, listed,
                           wakes>>
       ELSE /\ EpollCtl(fd, events[fd] \ real)
            /\ Trigger(fd, real)
            /\ UNCHANGED crashed
    /\ UNCHANGED <<ready, waiting>>

ProcessDrops(w, fd) ==
    /\ ~crashed
    /\ report[w][fd] # {}
    /\ report' = [report EXCEPT ![w][fd] = {}]
    /\ UNCHANGED <<events, ctx, m_pendingEventCount, interest, listed, ready,
                   waiting, wakes, crashed>>

\* idle(): one reported event, under the descriptor's mutex.  All real_events are
\* triggered if any of them is waited for.
Process(w, fd) ==
    LET real == RealEvents(fd, report[w][fd]) IN
    /\ ~crashed
    /\ report[w][fd] # {}
    /\ report' = [report EXCEPT ![w][fd] = {}]
    /\ IF events[fd] \cap real = {}
       THEN UNCHANGED <<events, ctx, m_pendingEventCount, interest, listed,
                        wakes, crashed>>
       ELSE IF \E e \in real : ~ctx[fd][e].scheduler
       THEN /\ crashed' = TRUE
            /\ UNCHANGED <<events, ctx, m_pendingEventCount, interest, listed,
                           wakes>>
       ELSE /\ EpollCtl(fd, events[fd] \ real)
            /\ Trigger(fd, real)
            /\ UNCHANGED crashed
    /\ UNCHANGED <<ready, waiting>>

\* A scheduled fiber resumes, or a scheduled callback runs.
Resume(u) ==
    /\ ~crashed
    /\ wakes[u] > 0
    /\ wakes' = [wakes EXCEPT ![u] = @ - 1]
    /\ waiting' = waiting \ {u}
    /\ UNCHANGED <<events, ctx, m_pendingEventCount, interest, ready, listed,
                   report, crashed>>

-----------------------------------------------------------------------------
Caller(fd, e) ==
    \/ \E u \in Waiters, kind \in {"fiber", "cb"} : AddEvent(fd, e, u, kind)
    \/ DelEvent(fd, e)
    \/ CancelEvent(fd, e)

\* epoll is never asked about the events nobody waits for.
Kernel(fd) == (\E c \in Dirs[fd] \cup {ERR} : Arrive(fd, c))
                 \/ (\E e \in Dirs[fd] : Consume(fd, e))

Next ==
    \/ \E fd \in Fds : Kernel(fd) \/ CancelAll(fd) \/ \E e \in Events : Caller(fd, e)
    \/ \E w \in Workers : EpollWait(w) \/ \E fd \in Fds : Process(w, fd)
    \/ \E u \in Waiters : Resume(u)

Spec == Init /\ [][Next]_vars

\* Every worker comes back to epoll_wait and processes what it was given.
FairSpec == Spec /\ \A w \in Workers :
                      /\ WF_vars(EpollWait(w))
                      /\ \A fd \in Fds : WF_vars(Process(w, fd))

-----------------------------------------------------------------------------
EventContext == [scheduler: BOOLEAN, fiber: Waiters \cup {NoWaiter},
                 cb: Waiters \cup {NoWaiter}]

\* Types; the unsigned m_pendingEventCount does not wrap below zero.
TypeOK ==
    /\ events \in [Fds -> SUBSET Events]
    /\ ctx \in [Fds -> [Events -> EventContext]]
    /\ m_pendingEventCount \in Nat
    /\ interest \in [Fds -> SUBSET Events]
    /\ ready \in [Fds -> SUBSET (Events \cup {ERR})]
    /\ listed \subseteq Fds
    /\ report \in [Workers -> [Fds -> SUBSET (Events \cup {ERR})]]
    /\ waiting \subseteq Waiters
    /\ wakes \in [Waiters -> Nat]
    /\ crashed \in BOOLEAN

\* idle() never runs an event nobody waits for any more: between epoll_wait and
\* the descriptor's lock another thread may cancel or run it, which nulls its
\* scheduler.
NoNullScheduler == ~crashed

Registrations == {r \in Fds \X Events : r[2] \in events[r[1]]}

\* m_pendingEventCount, which keeps stopping() from letting threads go, is exactly
\* the number of events waited for.
PendingCount == m_pendingEventCount = Cardinality(Registrations)

\* epoll's interest list and the events recorded in FdContext never drift apart,
\* whatever callers and workers do between each other's critical sections.
InterestMatches == interest = events

\* Who waits is run exactly once: a waiter is either registered for one event or
\* scheduled once, never both, never twice, never neither -- and nobody else is
\* ever scheduled.  (Scheduler's waker, Fire, is this promise.)
Holders(u) == Cardinality({r \in Registrations : Target(r[1], r[2]) = u})
RunOnce ==
    \A u \in Waiters :
        Holders(u) + wakes[u] = IF u \in waiting THEN 1 ELSE 0

\* IOManager implements Waker: whatever its callers, cancellers and workers do with
\* events, epoll and stale reports, is to those who wait one of Waker's steps.  A
\* waiter that is held or scheduled twice, or both, is in none of Waker's states.
WakerState(u) == CASE Holders(u) = 1 /\ wakes[u] = 0 -> "held"
                   [] Holders(u) = 0 /\ wakes[u] = 1 -> "woken"
                   [] Holders(u) = 0 /\ wakes[u] = 0 -> "idle"
                   [] OTHER -> "broken"
Abstract == INSTANCE Waker WITH state <- [u \in Waiters |-> WakerState(u)]
ImplementsWaker == Abstract!Spec

\* Edge triggering loses nothing: an event that is waited for and possible is on
\* epoll's list or in the hands of a worker that will process it.
NoLostEvent ==
    \A fd \in Fds : \A e \in events[fd] \cap ready[fd] :
        fd \in listed \/ \E w \in Workers : {e, ERR} \cap report[w][fd] # {}

\* An event that is waited for and stays possible is eventually run or withdrawn.
EventRuns ==
    \A fd \in Fds : \A e \in Dirs[fd] :
        e \in events[fd] \cap ready[fd] ~> e \notin events[fd] \cap ready[fd]

=============================================================================
