-------------------------------- MODULE HookIO --------------------------------
(***************************************************************************)
(* The hooked system calls (src/src/hook.cc) and FdManager on top of       *)
(* IOManager: do_io and connect_with_timeout arm a condition timer,        *)
(* register an event and swap out; whichever of the two comes first wakes  *)
(* the fiber.  The two are separate critical sections of two managers, the *)
(* timer's callback runs on any thread, and close() is three steps that    *)
(* any other fiber may take meanwhile.                                     *)
(*                                                                         *)
(* Descriptors here are sockets.  A worker thread has the hooks enabled    *)
(* (Scheduler.cc:74), other threads do not.  A descriptor is used in one   *)
(* direction, by one fiber at a time (see IOManager for the others).       *)
(***************************************************************************)
EXTENDS IOManager

CONSTANTS
    MaxCalls,   \* calls each fiber makes
    MaxOpens    \* how often a descriptor number is given out

ASSUME HookAssumption ==
    /\ MaxCalls \in Nat /\ MaxOpens \in Nat
    /\ \A fd \in Fds : \E e \in Events : Dirs[fd] = {e}
    /\ \A fd \in Fds : Kinds[fd] = {"fiber"}     \* addEvent(fd, event) without a cb
    /\ ~Shared

VARIABLES
    m_datas,        \* FdManager: the descriptors that have an FdCtx
    m_userNonblock, \* FdCtx (FALSE where there is none)
    m_timeout,      \* FdCtx: whether a timeout is set (as above)
    opens,          \* kernel: how often fd was opened, and ...
    open,           \* ... whether it is
    nonblock,       \* kernel: O_NONBLOCK
    conn,           \* kernel: the connection of a connecting socket
    closing,        \* where a close() of fd is
    foreign,        \* history: the last to change O_NONBLOCK was ioctl, or a close() past
                    \* the hooks
    pc, call,       \* per fiber: its place in the hooked call, and locals
    calls,          \* calls begun
    cancelled,      \* tinfo->cancelled of the call
    armed,          \* the call's timer is in TimerManager's set
    expired,        \* history: a timer of this call expired
    handed,         \* callbacks that listExpiredCb handed out
    cancelling,     \* callbacks about to call cancelEvent
    sleeping,       \* fibers with a sleep() timer
    result          \* what the last call returned

hookVars == <<m_datas, m_userNonblock, m_timeout, opens, open, nonblock, conn,
              closing, foreign>>
callVars == <<pc, call, calls, cancelled, armed, expired, sleeping, result>>
timerVars == <<handed, cancelling>>
allVars == <<vars, hookVars, callVars, timerVars>>

EventOf(fd) == CHOOSE e \in Events : e \in Dirs[fd]
NoCall == [fd |-> "none", op |-> "none", timed |-> FALSE]

HookInit ==
    /\ Init
    /\ m_datas = {}
    /\ m_userNonblock = [fd \in Fds |-> FALSE]
    /\ m_timeout = [fd \in Fds |-> FALSE]
    /\ opens = [fd \in Fds |-> 0]
    /\ open = {}
    /\ nonblock = {}
    /\ conn = [fd \in Fds |-> "idle"]
    /\ closing = [fd \in Fds |-> "no"]
    /\ foreign = {}
    /\ pc = [u \in Waiters |-> "out"]
    /\ call = [u \in Waiters |-> NoCall]
    /\ calls = [u \in Waiters |-> 0]
    /\ cancelled = [u \in Waiters |-> FALSE]
    /\ armed = [u \in Waiters |-> FALSE]
    /\ expired = [u \in Waiters |-> FALSE]
    /\ handed = {}
    /\ cancelling = {}
    /\ sleeping = {}
    /\ result = [u \in Waiters |-> "none"]

-----------------------------------------------------------------------------
(* FdManager, socket, fcntl, ioctl, setsockopt                             *)

\* FdCtx::init makes the socket non-blocking behind the user's back.
NewFdCtx(fd) ==
    /\ m_datas' = m_datas \cup {fd}
    /\ m_userNonblock' = [m_userNonblock EXCEPT ![fd] = FALSE]
    /\ m_timeout' = [m_timeout EXCEPT ![fd] = FALSE]
    /\ nonblock' = nonblock \cup {fd}

\* get(fd, true): an FdCtx that is still in the table is returned as it is.
GetCreate(fd) ==
    IF fd \in m_datas THEN UNCHANGED <<m_datas, m_userNonblock, m_timeout, nonblock>>
    ELSE NewFdCtx(fd)

\* socket(), or the descriptor an accept() returns.
Socket(fd) ==
    /\ fd \notin open /\ opens[fd] < MaxOpens
    /\ opens' = [opens EXCEPT ![fd] = @ + 1]
    /\ open' = open \cup {fd}
    /\ GetCreate(fd)
    /\ foreign' = IF fd \in m_datas THEN foreign ELSE foreign \ {fd}
    /\ UNCHANGED <<vars, conn, closing, callVars, timerVars>>

\* Mutant of SetFl: the user's O_NONBLOCK reaches the kernel.
SetFlRaw(fd, b) ==
    /\ fd \in open
    /\ m_userNonblock' = IF fd \in m_datas THEN [m_userNonblock EXCEPT ![fd] = b]
                         ELSE m_userNonblock
    /\ nonblock' = IF b THEN nonblock \cup {fd} ELSE nonblock \ {fd}
    /\ foreign' = foreign \ {fd}
    /\ UNCHANGED <<vars, m_datas, m_timeout, opens, open, conn, closing, callVars,
                   timerVars>>

\* fcntl(F_SETFL): the user's O_NONBLOCK is only remembered, the kernel's is set.
SetFl(fd, b) ==
    /\ fd \in open
    /\ m_userNonblock' = IF fd \in m_datas THEN [m_userNonblock EXCEPT ![fd] = b]
                         ELSE m_userNonblock
    /\ nonblock' = IF fd \in m_datas \/ b THEN nonblock \cup {fd} ELSE nonblock \ {fd}
    /\ foreign' = foreign \ {fd}
    /\ UNCHANGED <<vars, m_datas, m_timeout, opens, open, conn, closing, callVars,
                   timerVars>>

\* ioctl(FIONBIO) remembers it too, and passes it on: FIONBIO 0 makes the socket block.
Ioctl(fd, b) ==
    /\ fd \in open
    /\ m_userNonblock' = IF fd \in m_datas THEN [m_userNonblock EXCEPT ![fd] = b]
                         ELSE m_userNonblock
    /\ nonblock' = IF b THEN nonblock \cup {fd} ELSE nonblock \ {fd}
    /\ foreign' = IF b THEN foreign \ {fd} ELSE foreign \cup {fd}
    /\ UNCHANGED <<vars, m_datas, m_timeout, opens, open, conn, closing, callVars,
                   timerVars>>

\* setsockopt(SO_RCVTIMEO or SO_SNDTIMEO): once set, a timeout stays (a zero timeval
\* is a timeout of 0 ms here).
SetTimeout(fd) ==
    /\ fd \in open \cap m_datas
    /\ m_timeout' = [m_timeout EXCEPT ![fd] = TRUE]
    /\ UNCHANGED <<vars, m_datas, m_userNonblock, opens, open, nonblock, conn,
                   closing, foreign, callVars, timerVars>>

-----------------------------------------------------------------------------
(* close                                                                   *)

\* The kernel takes a closed descriptor off epoll's list; FdContext does not know.
\* epoll_ctl MOD and DEL fail from then on.
Detached(fd) == events[fd] # {} /\ interest[fd] = {}

CloseF(fd) ==
    /\ open' = open \ {fd}
    /\ nonblock' = nonblock \ {fd}
    /\ conn' = [conn EXCEPT ![fd] = "idle"]
    /\ interest' = [interest EXCEPT ![fd] = {}]
    /\ ready' = [ready EXCEPT ![fd] = {}]
    /\ listed' = listed \ {fd}
    /\ UNCHANGED <<events, ctx, m_pendingEventCount, report, waiting, wakes, crashed>>

\* close(): get ...
CloseGet(fd) ==
    /\ fd \in open /\ closing[fd] = "no"
    /\ closing' = [closing EXCEPT ![fd] = IF fd \in m_datas THEN "cancelAll" ELSE "close"]
    /\ UNCHANGED <<vars, m_datas, m_userNonblock, m_timeout, opens, open, nonblock,
                   conn, foreign, callVars, timerVars>>

\* ... cancelAll (which fails where epoll_ctl does) ...
CloseCancelAll(fd) ==
    /\ closing[fd] = "cancelAll"
    /\ closing' = [closing EXCEPT ![fd] = "del"]
    /\ IF events[fd] = {} \/ Detached(fd) THEN UNCHANGED vars ELSE CancelAll(fd)
    /\ UNCHANGED <<m_datas, m_userNonblock, m_timeout, opens, open, nonblock, conn,
                   foreign, callVars, timerVars>>

\* ... del ...
CloseDel(fd) ==
    /\ closing[fd] = "del"
    /\ closing' = [closing EXCEPT ![fd] = "close"]
    /\ m_datas' = m_datas \ {fd}
    /\ m_userNonblock' = [m_userNonblock EXCEPT ![fd] = FALSE]
    /\ m_timeout' = [m_timeout EXCEPT ![fd] = FALSE]
    /\ UNCHANGED <<vars, opens, open, nonblock, conn,
                   foreign, callVars, timerVars>>

\* ... and close_f.
CloseEnd(fd) ==
    /\ closing[fd] = "close"
    /\ closing' = [closing EXCEPT ![fd] = "no"]
    /\ CloseF(fd)
    /\ UNCHANGED <<m_datas, m_userNonblock, m_timeout, opens, foreign, callVars,
                   timerVars>>

\* close() on a thread without hooks: the FdCtx stays.
CloseUnhooked(fd) ==
    /\ fd \in open /\ closing[fd] = "no"
    /\ CloseF(fd)
    /\ foreign' = foreign \cup {fd}
    /\ UNCHANGED <<m_datas, m_userNonblock, m_timeout, opens, closing, callVars,
                   timerVars>>

-----------------------------------------------------------------------------
(* Hooked calls                                                            *)

\* A call that may wait gets a fresh tinfo and reads the timeout once.
Begin(u, fd, op, timed) ==
    /\ pc' = [pc EXCEPT ![u] = IF op = "io" THEN "try" ELSE "arm"]
    /\ call' = [call EXCEPT ![u] = [fd |-> fd, op |-> op, timed |-> timed]]
    /\ calls' = [calls EXCEPT ![u] = @ + 1]
    /\ cancelled' = [cancelled EXCEPT ![u] = FALSE]
    /\ expired' = [expired EXCEPT ![u] = FALSE]
    /\ result' = [result EXCEPT ![u] = "none"]
    /\ UNCHANGED <<armed, sleeping>>

\* The call returns r: its frame, and with it tinfo, is gone.
Return(u, r) ==
    /\ pc' = [pc EXCEPT ![u] = "out"]
    /\ call' = [call EXCEPT ![u] = NoCall]
    /\ result' = [result EXCEPT ![u] = r]
    /\ UNCHANGED <<calls, cancelled, expired, sleeping>>

MayCall(u, fd) ==
    /\ pc[u] = "out" /\ calls[u] < MaxCalls
    /\ \A v \in Waiters : pc[v] = "out" \/ call[v].fd # fd

Hooked(fd) == fd \in m_datas /\ ~m_userNonblock[fd]

\* accept, read, recv, write, send ... all are do_io.  Past the hook, the call is
\* the original one.
DoIo(u, fd) ==
    /\ opens[fd] > 0 /\ MayCall(u, fd)
    /\ Hooked(fd)
    /\ Begin(u, fd, "io", m_timeout[fd])
    /\ UNCHANGED <<vars, hookVars, timerVars>>

\* do_io: the original function, which drains the descriptor or not.  An error
\* ends the call; EAGAIN goes on to wait.  Without O_NONBLOCK there is no EAGAIN: the
\* thread is in the kernel until the descriptor is ready.
Try(u) ==
    LET fd == call[u].fd
        e == EventOf(fd)
    IN  /\ pc[u] = "try"
        /\ \/ /\ fd \notin open \/ ERR \in ready[fd]
              /\ Return(u, "error")
              /\ UNCHANGED <<vars, armed>>
           \/ /\ fd \in open /\ e \in ready[fd]
              /\ Return(u, "ok")
              /\ \/ Consume(fd, e)
                 \/ UNCHANGED vars
              /\ UNCHANGED armed
           \/ /\ fd \in open \cap nonblock /\ {e, ERR} \cap ready[fd] = {}
              /\ pc' = [pc EXCEPT ![u] = "arm"]
              /\ UNCHANGED <<vars, call, calls, cancelled, armed, expired, sleeping,
                             result>>
        /\ UNCHANGED <<hookVars, timerVars>>

\* connect: the original function, which may succeed or fail at once, and without
\* O_NONBLOCK does; it waits on EINPROGRESS, always with a timeout (s_connect_timeout).
Connect(u, fd) ==
    /\ MayCall(u, fd) /\ EventOf(fd) = WRITE
    /\ Hooked(fd) /\ fd \in open /\ conn[fd] = "idle"
    /\ \/ /\ fd \in nonblock
          /\ conn' = [conn EXCEPT ![fd] = "pending"]
          /\ Begin(u, fd, "connect", TRUE)
       \/ \E r \in {"ok", "error"} :
            /\ conn' = [conn EXCEPT ![fd] = IF r = "ok" THEN "ok" ELSE @]
            /\ Return(u, r)
            /\ UNCHANGED armed
    /\ UNCHANGED <<vars, m_datas, m_userNonblock, m_timeout, opens, open, nonblock,
                   closing, foreign, timerVars>>

\* addConditionTimer, if there is a timeout.
Arm(u) ==
    /\ pc[u] = "arm"
    /\ pc' = [pc EXCEPT ![u] = "add"]
    /\ armed' = [armed EXCEPT ![u] = call[u].timed]
    /\ UNCHANGED <<vars, hookVars, call, calls, cancelled, expired, sleeping, result,
                   timerVars>>

\* Mutant of AddWait: the timer is cancelled before the fiber swaps out.
AddWaitUntimed(u) ==
    LET fd == call[u].fd IN
    /\ pc[u] = "add"
    /\ fd \in open /\ ~Detached(fd)
    /\ AddEvent(fd, EventOf(fd), u, "fiber")
    /\ pc' = [pc EXCEPT ![u] = "wait"]
    /\ armed' = [armed EXCEPT ![u] = FALSE]
    /\ UNCHANGED <<hookVars, call, calls, cancelled, expired, sleeping, result,
                   timerVars>>

\* addEvent and swapOut.  epoll_ctl fails on a closed descriptor, and on one whose
\* number was closed while an event was registered.
AddWait(u) ==
    LET fd == call[u].fd IN
    /\ pc[u] = "add"
    /\ fd \in open /\ ~Detached(fd)
    /\ AddEvent(fd, EventOf(fd), u, "fiber")
    /\ pc' = [pc EXCEPT ![u] = "wait"]
    /\ UNCHANGED <<hookVars, call, calls, cancelled, armed, expired, sleeping,
                   result, timerVars>>

\* addEvent failed: do_io returns -1, connect goes on to getsockopt.
AddFails(u) ==
    LET fd == call[u].fd IN
    /\ pc[u] = "add"
    /\ fd \notin open \/ Detached(fd)
    /\ armed' = [armed EXCEPT ![u] = FALSE]
    /\ IF call[u].op = "io" THEN Return(u, "error")
       ELSE /\ pc' = [pc EXCEPT ![u] = "getsockopt"]
            /\ UNCHANGED <<call, calls, cancelled, expired, sleeping, result>>
    /\ UNCHANGED <<vars, hookVars, timerVars>>

\* The fiber is resumed.
Wake(u) ==
    /\ pc[u] \in {"wait", "sleep"}
    /\ Resume(u)
    /\ pc' = [pc EXCEPT ![u] = IF @ = "wait" THEN "woken" ELSE "out"]
    /\ UNCHANGED <<hookVars, call, calls, cancelled, armed, expired, sleeping,
                   result, timerVars>>

\* timer->cancel()
CancelTimer(u) ==
    /\ pc[u] = "woken"
    /\ pc' = [pc EXCEPT ![u] = "check"]
    /\ armed' = [armed EXCEPT ![u] = FALSE]
    /\ UNCHANGED <<vars, hookVars, call, calls, cancelled, expired, sleeping, result,
                   timerVars>>

\* Mutant of Check: only do_io looks at tinfo.
CheckIoOnly(u) ==
    /\ pc[u] = "check"
    /\ IF cancelled[u] /\ call[u].op = "io" THEN Return(u, "ETIMEDOUT")
       ELSE /\ pc' = [pc EXCEPT ![u] =
                        IF call[u].op = "io" THEN "try" ELSE "getsockopt"]
            /\ UNCHANGED <<call, calls, cancelled, expired, sleeping, result>>
    /\ UNCHANGED <<vars, hookVars, armed, timerVars>>

\* Timed out, or try again.
Check(u) ==
    /\ pc[u] = "check"
    /\ IF cancelled[u] THEN Return(u, "ETIMEDOUT")
       ELSE /\ pc' = [pc EXCEPT ![u] =
                        IF call[u].op = "io" THEN "try" ELSE "getsockopt"]
            /\ UNCHANGED <<call, calls, cancelled, expired, sleeping, result>>
    /\ UNCHANGED <<vars, hookVars, armed, timerVars>>

\* getsockopt(SO_ERROR): no error means connected.  Reading the error clears it.
ConnectEnd(u) ==
    LET fd == call[u].fd IN
    /\ pc[u] = "getsockopt"
    /\ Return(u, IF fd \notin open \/ conn[fd] = "failed" THEN "error" ELSE "ok")
    /\ conn' = [conn EXCEPT ![fd] = IF @ = "failed" THEN "idle" ELSE @]
    /\ UNCHANGED <<vars, m_datas, m_userNonblock, m_timeout, opens, open, nonblock,
                   closing, foreign, armed, timerVars>>
-----------------------------------------------------------------------------
(* The condition timer                                                     *)

\* listExpiredCb hands out the callback (TimerManager); cancel() is then too late.
Expire(u) ==
    /\ armed[u]
    /\ armed' = [armed EXCEPT ![u] = FALSE]
    /\ expired' = [expired EXCEPT ![u] = TRUE]
    /\ handed' = handed \cup {<<u, calls[u]>>}
    /\ UNCHANGED <<vars, hookVars, pc, call, calls, cancelled, sleeping, result,
                   cancelling>>

\* Mutant of Live: the callback takes the tinfo of whatever call the fiber is in.
LiveAny(u, n) == pc[u] # "out"

\* winfo.lock(): the call that armed the timer has not returned.
Live(u, n) == n = calls[u] /\ pc[u] # "out"

\* Mutant of TimerCb: it schedules the fiber itself.
TimerCbSchedules(u, n) ==
    /\ <<u, n>> \in handed
    /\ handed' = handed \ {<<u, n>>}
    /\ IF Live(u, n) /\ ~cancelled[u]
       THEN /\ cancelled' = [cancelled EXCEPT ![u] = TRUE]
            /\ wakes' = [wakes EXCEPT ![u] = @ + 1]
       ELSE UNCHANGED <<cancelled, wakes>>
    /\ UNCHANGED <<events, ctx, m_pendingEventCount, interest, ready, listed, report,
                   waiting, crashed, hookVars, pc, call, calls, armed, expired,
                   sleeping, result, cancelling>>

\* The callback up to cancelEvent.  Several callbacks of one call are like one: all
\* but the first find cancelled set.
TimerCb(u, n) ==
    /\ <<u, n>> \in handed
    /\ handed' = handed \ {<<u, n>>}
    /\ IF Live(u, n) /\ ~cancelled[u]
       THEN /\ cancelled' = [cancelled EXCEPT ![u] = TRUE]
            /\ cancelling' = cancelling \cup {<<u, n, call[u].fd>>}
       ELSE UNCHANGED <<cancelled, cancelling>>
    /\ UNCHANGED <<vars, hookVars, pc, call, calls, armed, expired, sleeping, result>>

\* Mutant of TimerCancels: cancelEvent does not test whether the event is there.
TimerCancelsBlind(u, n, fd) ==
    /\ <<u, n, fd>> \in cancelling
    /\ cancelling' = cancelling \ {<<u, n, fd>>}
    /\ IF events[fd] = {} \/ Detached(fd)
       THEN /\ m_pendingEventCount' = m_pendingEventCount - 1
            /\ UNCHANGED <<events, ctx, interest, ready, listed, report, waiting,
                           wakes, crashed>>
       ELSE CancelEvent(fd, EventOf(fd))
    /\ UNCHANGED <<hookVars, callVars, handed>>

\* cancelEvent, from a timer whose call may be over by now.
TimerCancels(u, n, fd) ==
    /\ <<u, n, fd>> \in cancelling
    /\ cancelling' = cancelling \ {<<u, n, fd>>}
    /\ IF events[fd] = {} \/ Detached(fd) THEN UNCHANGED vars
       ELSE CancelEvent(fd, EventOf(fd))
    /\ UNCHANGED <<hookVars, callVars, handed>>

\* sleep, usleep, nanosleep: a timer that schedules the fiber.
Sleep(u) ==
    /\ pc[u] = "out" /\ calls[u] < MaxCalls
    /\ pc' = [pc EXCEPT ![u] = "sleep"]
    /\ calls' = [calls EXCEPT ![u] = @ + 1]
    /\ sleeping' = sleeping \cup {u}
    /\ UNCHANGED <<vars, hookVars, call, cancelled, armed, expired, result, timerVars>>

SleepEnds(u) ==
    /\ u \in sleeping
    /\ sleeping' = sleeping \ {u}
    /\ wakes' = [wakes EXCEPT ![u] = @ + 1]
    /\ UNCHANGED <<events, ctx, m_pendingEventCount, interest, ready, listed, report,
                   waiting, crashed, hookVars, pc, call, calls, cancelled, armed,
                   expired, result, timerVars>>

-----------------------------------------------------------------------------
(* The kernel and the workers                                              *)

\* Data or room arrives, or the peer breaks the connection (a socket that is to
\* connect has one only when connect's outcome is known).
SocketReady(fd, c) ==
    /\ fd \in open
    /\ c \in Dirs[fd] \cup {ERR}
    /\ c = WRITE => conn[fd] = "ok"
    /\ c = ERR /\ WRITE \in Dirs[fd] => conn[fd] \in {"ok", "failed"}
    /\ Arrive(fd, c)
    /\ UNCHANGED <<hookVars, callVars, timerVars>>

\* A pending connect ends, which makes the socket writable.
Connected(fd, r) ==
    /\ conn[fd] = "pending"
    /\ conn' = [conn EXCEPT ![fd] = r]
    /\ Arrive(fd, WRITE)
    /\ UNCHANGED <<m_datas, m_userNonblock, m_timeout, opens, open, nonblock, closing,
                   foreign, callVars, timerVars>>

\* idle(): a reported event; where epoll_ctl fails it is dropped.
WorkerProcess(w, fd) ==
    /\ IF Detached(fd)
       THEN /\ report[w][fd] # {}
            /\ report' = [report EXCEPT ![w][fd] = {}]
            /\ UNCHANGED <<events, ctx, m_pendingEventCount, interest, ready, listed,
                           waiting, wakes, crashed>>
       ELSE Process(w, fd)
    /\ UNCHANGED <<hookVars, callVars, timerVars>>

WorkerWait(w) == EpollWait(w) /\ UNCHANGED <<hookVars, callVars, timerVars>>

-----------------------------------------------------------------------------
FiberStep(u) ==
    \/ \E fd \in Fds : DoIo(u, fd) \/ Connect(u, fd)
    \/ Try(u) \/ Arm(u) \/ AddWait(u) \/ AddFails(u) \/ Wake(u)
    \/ CancelTimer(u) \/ Check(u) \/ ConnectEnd(u) \/ Sleep(u)

Closer(fd) ==
    \/ CloseGet(fd) \/ CloseCancelAll(fd) \/ CloseDel(fd) \/ CloseEnd(fd)
    \/ CloseUnhooked(fd)

Options(fd) == SetTimeout(fd) \/ \E b \in BOOLEAN : SetFl(fd, b) \/ Ioctl(fd, b)

Timers(u) ==
    \/ Expire(u) \/ SleepEnds(u)
    \/ \E n \in 1..MaxCalls :
         TimerCb(u, n) \/ \E fd \in Fds : TimerCancels(u, n, fd)

HookNext ==
    \/ \E u \in Waiters : FiberStep(u) \/ Timers(u)
    \/ \E fd \in Fds : \/ Socket(fd) \/ Closer(fd) \/ Options(fd)
                       \/ \E c \in Events \cup {ERR} : SocketReady(fd, c)
                       \/ \E r \in {"ok", "failed"} : Connected(fd, r)
    \/ \E w \in Workers : WorkerWait(w) \/ \E fd \in Fds : WorkerProcess(w, fd)

HookSpec == HookInit /\ [][HookNext]_allVars

-----------------------------------------------------------------------------
\* Types of the hooked calls' state; m_pendingEventCount stays a natural number though
\* a timer's cancelEvent may come when its event is gone.
HookTypeOK ==
    /\ TypeOK
    /\ m_datas \subseteq Fds /\ open \subseteq Fds /\ nonblock \subseteq open
    /\ m_userNonblock \in [Fds -> BOOLEAN] /\ m_timeout \in [Fds -> BOOLEAN]
    /\ foreign \subseteq Fds /\ sleeping \subseteq Waiters
    /\ opens \in [Fds -> 0..MaxOpens]
    /\ conn \in [Fds -> {"idle", "pending", "ok", "failed"}]
    /\ closing \in [Fds -> {"no", "cancelAll", "del", "close"}]
    /\ pc \in [Waiters -> {"out", "try", "arm", "add", "wait", "woken", "check",
                           "getsockopt", "sleep"}]
    /\ call \in [Waiters -> [fd: Fds \cup {"none"}, op: {"none", "io", "connect"},
                             timed: BOOLEAN]]
    /\ calls \in [Waiters -> 0..MaxCalls]
    /\ cancelled \in [Waiters -> BOOLEAN] /\ armed \in [Waiters -> BOOLEAN]
    /\ expired \in [Waiters -> BOOLEAN]
    /\ result \in [Waiters -> {"none", "ok", "error", "ETIMEDOUT"}]
    /\ handed \subseteq Waiters \X (1..MaxCalls)
    /\ cancelling \subseteq Waiters \X (1..MaxCalls) \X Fds

\* A fiber that swaps out in a hooked call is resumed exactly once, by the event, by
\* the timeout, by close() or by the sleep timer: one of them holds it, or it is
\* scheduled, never two -- and no wake-up is left over when it is not suspended,
\* though a timer's callback and close() may act after the call returned.
OneWakeUp ==
    \A u \in Waiters :
        Holders(u) + wakes[u] + (IF u \in sleeping THEN 1 ELSE 0)
            = IF pc[u] \in {"wait", "sleep"} THEN 1 ELSE 0

\* A call times out only if a timer of this very call expired: no callback that an
\* earlier call left behind can end a later one.
TimeoutIsOwn ==
    \A u \in Waiters :
        cancelled[u] \/ (pc[u] = "out" /\ result[u] = "ETIMEDOUT") => expired[u]

\* A call with a timeout never waits unobserved: its timer is armed, or its
\* callback is on the way, or the callback has run and the call will see it.
TimeoutStays ==
    \A u \in Waiters :
        pc[u] = "wait" /\ call[u].timed =>
            armed[u] \/ cancelled[u] \/ <<u, calls[u]>> \in handed

\* The original function does not block the thread under the other fibers: whatever
\* flags the user sets with fcntl, while sockets are opened, connected and closed in
\* steps, a socket with an FdCtx is O_NONBLOCK in the kernel, and is again after an
\* F_SETFL if it was not.  Two things take it away, which foreign names: ioctl(FIONBIO)
\* with 0, which the hook passes on, and a close() past the hooks, whose FdCtx the next
\* socket of this number gets, uninitialised.
HookedNonblock == (m_datas \cap open) \ foreign \subseteq nonblock

\* A connect that waited and returns 0 is connected.  The code takes any wake-up
\* without SO_ERROR for success, so this needs that nothing but the end of the
\* connection or the timeout wakes it: no close() is under way, and neither an earlier
\* call nor an earlier socket of this number left a report or a callback behind.
NoneReturned == \A v \in Waiters : calls[v] = 0 \/ (calls[v] = 1 /\ pc[v] # "out")
ConnectTells ==
    [][\A u \in Waiters :
         LET fd == call[u].fd
         IN  /\ pc[u] = "getsockopt" /\ result'[u] = "ok"
             /\ NoneReturned /\ opens[fd] = 1 /\ closing[fd] = "no"
             => conn[fd] = "ok"]_allVars

=============================================================================
