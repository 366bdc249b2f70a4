----------------------------- MODULE HookIOProofs -----------------------------
(***************************************************************************)
(* Proofs about the hooked system calls, for any number of fibers, sockets *)
(* and workers: however timeouts, events, close() and late callbacks meet, *)
(* a fiber that swaps out is resumed once, by its own call's timer if by   *)
(* a timer, and the thread is never blocked.                               *)
(***************************************************************************)
EXTENDS HookIO, IOManagerProofs

InCall(u) == pc[u] \notin {"out", "sleep"}

-----------------------------------------------------------------------------
(* The inductive invariant                                                 *)

\* Who is suspended is held or scheduled once, and nobody else is.
Suspended ==
    \A u \in Waiters :
        /\ u \in waiting <=> pc[u] = "wait"
        /\ wakes[u] \in {0, 1}
        /\ wakes[u] = 1 => pc[u] \in {"wait", "sleep"} /\ u \notin sleeping
        /\ u \in sleeping => pc[u] = "sleep"
        /\ pc[u] = "sleep" /\ wakes[u] = 0 => u \in sleeping
        /\ pc[u] = "wait" /\ wakes[u] = 0
             => \E r \in Registrations : Target(r[1], r[2]) = u

\* A call has a descriptor, and a timer only while it may wait.
Calling ==
    \A u \in Waiters :
        /\ InCall(u) => call[u].fd \in Fds /\ calls[u] >= 1
        /\ armed[u] => pc[u] \in {"add", "wait", "woken"}

\* Callbacks that are handed out belong to calls that were begun; the current call's
\* are known to have expired, and none of them is lost.
Timing ==
    /\ \A u \in Waiters : \A n \in 1..MaxCalls : <<u, n>> \in handed => n <= calls[u]
    /\ \A u \in Waiters :
        /\ <<u, calls[u]>> \in handed => expired[u]
        /\ cancelled[u] \/ result[u] = "ETIMEDOUT" => expired[u]
        /\ pc[u] \in {"add", "wait"} /\ call[u].timed
             => armed[u] \/ cancelled[u] \/ <<u, calls[u]>> \in handed
        /\ pc[u] = "sleep" => <<u, calls[u]>> \notin handed

\* close() and FdManager's table.
Closing ==
    \A fd \in Fds :
        /\ closing[fd] # "no" => fd \in open
        /\ closing[fd] = "close" => fd \notin m_datas
        /\ fd \in m_datas \ open => fd \in foreign

HookInv ==
    /\ HookTypeOK
    /\ Held
    /\ Suspended
    /\ Calling
    /\ Timing
    /\ Closing
    /\ HookedNonblock

-----------------------------------------------------------------------------
(* Why a connect is told the truth                                         *)

\* A socket that was never closed: epoll knows all its events.  One that is not open
\* has no connection, and a number that was never given out has nothing.
Sockets ==
    \A fd \in Fds :
        /\ opens[fd] = 1 /\ fd \in open => interest[fd] = events[fd]
        /\ fd \notin open => conn[fd] = "idle" /\ ready[fd] = {}
        /\ opens[fd] = 0 => /\ fd \notin open /\ events[fd] = {}
                            /\ \A w \in Workers : report[w][fd] = {}

\* Calls do not share a descriptor; a fiber waits for the descriptor of its call.
Exclusive ==
    /\ \A u, v \in Waiters : InCall(u) /\ InCall(v) /\ call[u].fd = call[v].fd => u = v
    /\ \A u \in Waiters : InCall(u) => opens[call[u].fd] >= 1
    /\ \A u \in Waiters : InCall(u) /\ call[u].op = "connect" => Dirs[call[u].fd] = {WRITE}
    /\ \A r \in Registrations : call[Target(r[1], r[2])].fd = r[1]

\* A callback on its way to cancelEvent is one of the current call, or of one that is over.
CancelsOwn ==
    \A u \in Waiters : \A n \in 1..MaxCalls : \A fd \in Fds :
        <<u, n, fd>> \in cancelling =>
            /\ n <= calls[u]
            /\ n = calls[u] /\ pc[u] # "out" => InCall(u) /\ call[u].fd = fd /\ cancelled[u]

\* Until a call has returned, nothing is reported of a socket that is not connected.
Quiet ==
    NoneReturned => \A fd \in Fds :
        opens[fd] = 1 /\ fd \in open /\ Dirs[fd] = {WRITE} /\ conn[fd] \in {"idle", "pending"}
          => ready[fd] = {} /\ \A w \in Workers : report[w][fd] = {}

\* A fiber in connect that is woken knows the outcome, or its timer has expired.
Known ==
    NoneReturned => \A u \in Waiters :
        LET fd == call[u].fd IN
        /\ InCall(u) /\ call[u].op = "connect"
        /\ opens[fd] = 1 /\ fd \in open /\ closing[fd] = "no"
        => /\ pc[u] \in {"woken", "check"} \/ (pc[u] = "wait" /\ wakes[u] = 1)
                => conn[fd] \in {"ok", "failed"} \/ cancelled[u]
           /\ pc[u] = "getsockopt" => conn[fd] \in {"ok", "failed"}

\* A call that has not returned has no result; only connect asks getsockopt.
Unanswered ==
    \A u \in Waiters : InCall(u) =>
        /\ result[u] = "none" /\ call[u].op \in {"io", "connect"}
        /\ pc[u] = "getsockopt" => call[u].op = "connect"

ConnectInv == Unanswered /\ Sockets /\ Exclusive /\ CancelsOwn /\ Quiet /\ Known

-----------------------------------------------------------------------------
(* Types, by component                                                     *)

FdTypes ==
    /\ m_datas \subseteq Fds /\ open \subseteq Fds /\ nonblock \subseteq open
    /\ m_userNonblock \in [Fds -> BOOLEAN] /\ m_timeout \in [Fds -> BOOLEAN]
    /\ foreign \subseteq Fds
    /\ opens \in [Fds -> 0..MaxOpens]
    /\ conn \in [Fds -> {"idle", "pending", "ok", "failed"}]
    /\ closing \in [Fds -> {"no", "cancelAll", "del", "close"}]

CallTypes ==
    /\ sleeping \subseteq Waiters
    /\ pc \in [Waiters -> {"out", "try", "arm", "add", "wait", "woken", "check",
                           "getsockopt", "sleep"}]
    /\ call \in [Waiters -> [fd: Fds \cup {"none"}, op: {"none", "io", "connect"},
                             timed: BOOLEAN]]
    /\ calls \in [Waiters -> 0..MaxCalls]
    /\ cancelled \in [Waiters -> BOOLEAN] /\ armed \in [Waiters -> BOOLEAN]
    /\ expired \in [Waiters -> BOOLEAN]
    /\ result \in [Waiters -> {"none", "ok", "error", "ETIMEDOUT"}]

TimerTypes ==
    /\ handed \subseteq Waiters \X (1..MaxCalls)
    /\ cancelling \subseteq Waiters \X (1..MaxCalls) \X Fds

LEMMA TypeParts == HookTypeOK <=> TypeOK /\ FdTypes /\ CallTypes /\ TimerTypes
BY DEF HookTypeOK, FdTypes, CallTypes, TimerTypes

-----------------------------------------------------------------------------
(* FdManager and close()                                                   *)

\* FdManager's table and the kernel's flags stay in step, whoever opens, closes and
\* sets flags in between.
LEMMA TableStep ==
    FdTypes /\ Closing /\ HookedNonblock /\ [HookNext]_allVars
      => FdTypes' /\ Closing' /\ HookedNonblock'
<1> SUFFICES ASSUME FdTypes, Closing, HookedNonblock, [HookNext]_allVars
             PROVE  FdTypes' /\ Closing' /\ HookedNonblock'
  OBVIOUS
<1> USE DEF FdTypes, Closing, HookedNonblock
<1>1. CASE UNCHANGED hookVars
  BY <1>1 DEF hookVars
<1>2. ASSUME UNCHANGED <<m_datas, m_userNonblock, m_timeout, opens, open, nonblock, closing, foreign>>,
             NEW fd \in Fds, NEW c \in {"idle", "pending", "ok", "failed"},
             conn' = [conn EXCEPT ![fd] = c]
      PROVE  FdTypes' /\ Closing' /\ HookedNonblock'
  BY <1>2
<1>3. ASSUME NEW fd \in Fds, Socket(fd) PROVE FdTypes' /\ Closing' /\ HookedNonblock'
  <2>1. opens' \in [Fds -> 0..MaxOpens]
    BY <1>3, HookAssumption DEF Socket
  <2>2. UNCHANGED <<conn, closing>> /\ fd \notin open /\ open' = open \cup {fd}
    BY <1>3 DEF Socket
  <2>3. CASE fd \in m_datas
    <3>1. UNCHANGED <<m_datas, m_userNonblock, m_timeout, nonblock, foreign>>
      BY <1>3, <2>3 DEF Socket, GetCreate
    <3>2. QED
      BY <2>1, <2>2, <2>3, <3>1
  <2>4. CASE fd \notin m_datas
    <3>1. /\ m_datas' = m_datas \cup {fd} /\ nonblock' = nonblock \cup {fd}
          /\ m_userNonblock' = [m_userNonblock EXCEPT ![fd] = FALSE]
          /\ m_timeout' = [m_timeout EXCEPT ![fd] = FALSE]
          /\ foreign' = foreign \ {fd}
      BY <1>3, <2>4 DEF Socket, GetCreate, NewFdCtx
    <3>2. FdTypes'
      BY <2>1, <2>2, <3>1
    <3>3. Closing'
      BY <2>2, <3>1
    <3>4. HookedNonblock'
      BY <2>2, <3>1
    <3>5. QED
      BY <3>2, <3>3, <3>4
  <2>5. QED
    BY <2>3, <2>4
<1>4. ASSUME NEW fd \in Fds, Options(fd) PROVE FdTypes' /\ Closing' /\ HookedNonblock'
  <2>1. CASE SetTimeout(fd)
    BY <2>1 DEF SetTimeout
  <2>2. ASSUME NEW b \in BOOLEAN, SetFl(fd, b) PROVE FdTypes' /\ Closing' /\ HookedNonblock'
    BY <2>2 DEF SetFl
  <2>3. ASSUME NEW b \in BOOLEAN, Ioctl(fd, b) PROVE FdTypes' /\ Closing' /\ HookedNonblock'
    BY <2>3 DEF Ioctl
  <2>4. QED
    BY <1>4, <2>1, <2>2, <2>3 DEF Options
<1>5. ASSUME NEW fd \in Fds, Closer(fd) PROVE FdTypes' /\ Closing' /\ HookedNonblock'
  <2>1. CASE CloseGet(fd)
    BY <2>1 DEF CloseGet
  <2>2. CASE CloseCancelAll(fd)
    BY <2>2 DEF CloseCancelAll
  <2>3. CASE CloseDel(fd)
    BY <2>3 DEF CloseDel
  <2>4. CASE CloseEnd(fd)
    BY <2>4 DEF CloseEnd, CloseF
  <2>5. CASE CloseUnhooked(fd)
    BY <2>5 DEF CloseUnhooked, CloseF
  <2>6. QED
    BY <1>5, <2>1, <2>2, <2>3, <2>4, <2>5 DEF Closer
<1>6. ASSUME NEW u \in Waiters, FiberStep(u) PROVE FdTypes' /\ Closing' /\ HookedNonblock'
  <2>1. ASSUME NEW fd \in Fds, Connect(u, fd) PROVE FdTypes' /\ Closing' /\ HookedNonblock'
    BY <1>2, <2>1 DEF Connect
  <2>2. CASE ConnectEnd(u)
    BY <2>2 DEF ConnectEnd
  <2>3. QED
    BY <1>1, <1>6, <2>1, <2>2 DEF FiberStep, DoIo, Try, Arm, AddWait, AddFails, Wake,
       CancelTimer, Check, Sleep
<1>7. ASSUME NEW u \in Waiters, Timers(u) PROVE UNCHANGED hookVars
  BY <1>7 DEF Timers, Expire, SleepEnds, TimerCb, TimerCancels
<1>8. ASSUME NEW fd \in Fds, NEW r \in {"ok", "failed"}, Connected(fd, r)
      PROVE  FdTypes' /\ Closing' /\ HookedNonblock'
  BY <1>2, <1>8 DEF Connected
<1>9. QED
  BY <1>1, <1>3, <1>4, <1>5, <1>6, <1>7, <1>8 DEF HookNext, SocketReady, WorkerWait,
     WorkerProcess, allVars

-----------------------------------------------------------------------------
(* Calls and their timers                                                  *)

\* Every step keeps the calls and their timers in step: a callback is its own call's,
\* and a call that waits is observed.
LEMMA CallStep ==
    CallTypes /\ TimerTypes /\ FdTypes /\ Calling /\ Timing /\ [HookNext]_allVars
      => CallTypes' /\ TimerTypes' /\ Calling' /\ Timing'
<1> SUFFICES ASSUME CallTypes, TimerTypes, FdTypes, Calling, Timing, [HookNext]_allVars
             PROVE  CallTypes' /\ TimerTypes' /\ Calling' /\ Timing'
  OBVIOUS
<1> DEFINE Goal == CallTypes' /\ TimerTypes' /\ Calling' /\ Timing'
<1>0. MaxCalls \in Nat
  BY HookAssumption
<1>1. CASE UNCHANGED callVars /\ UNCHANGED handed /\ cancelling' \subseteq cancelling
  <2>1. CallTypes' /\ TimerTypes'
    BY <1>1 DEF callVars, CallTypes, TimerTypes
  <2>2. Calling' /\ Timing'
    BY <1>1 DEF callVars, Calling, Timing, InCall
  <2>3. QED
    BY <2>1, <2>2
\* A call begins.
<1>2. ASSUME NEW u \in Waiters, NEW fd \in Fds, NEW op \in {"io", "connect"}, NEW timed \in BOOLEAN,
             MayCall(u, fd), Begin(u, fd, op, timed), UNCHANGED timerVars
      PROVE  Goal
  <2>1. /\ pc[u] = "out" /\ calls[u] < MaxCalls /\ calls[u] \in Nat
        /\ \A v \in Waiters : pc'[v] = IF v = u THEN (IF op = "io" THEN "try" ELSE "arm") ELSE pc[v]
        /\ \A v \in Waiters : calls'[v] = IF v = u THEN calls[u] + 1 ELSE calls[v]
        /\ \A v \in Waiters : cancelled'[v] = IF v = u THEN FALSE ELSE cancelled[v]
        /\ \A v \in Waiters : expired'[v] = IF v = u THEN FALSE ELSE expired[v]
        /\ \A v \in Waiters : result'[v] = IF v = u THEN "none" ELSE result[v]
        /\ UNCHANGED <<armed, handed, cancelling, sleeping>>
    BY <1>2 DEF MayCall, Begin, CallTypes, timerVars
  <2>2. /\ call'[u].fd = fd /\ \A v \in Waiters : v # u => call'[v] = call[v]
        /\ call' \in [Waiters -> [fd: Fds \cup {"none"}, op: {"none", "io", "connect"}, timed: BOOLEAN]]
    BY <1>2 DEF Begin, CallTypes
  <2>3. CallTypes'
    <3>1. calls' \in [Waiters -> 0..MaxCalls]
      BY <1>0, <1>2, <2>1 DEF Begin, CallTypes
    <3>2. pc' \in [Waiters -> {"out", "try", "arm", "add", "wait", "woken", "check",
                               "getsockopt", "sleep"}]
      BY <1>2 DEF Begin, CallTypes
    <3>3. QED
      BY <1>2, <2>1, <2>2, <3>1, <3>2 DEF Begin, CallTypes
  <2>4. TimerTypes'
    BY <2>1 DEF TimerTypes
  <2>5. Calling'
    BY <2>1, <2>2 DEF Calling, InCall
  <2>6. Timing'
    <3>1. ASSUME NEW v \in Waiters, NEW n \in 1..MaxCalls, <<v, n>> \in handed
          PROVE  n <= calls'[v]
      BY <2>1, <3>1 DEF Timing
    <3>2. ASSUME NEW v \in Waiters
          PROVE  /\ <<v, calls'[v]>> \in handed => expired'[v]
                 /\ cancelled'[v] \/ result'[v] = "ETIMEDOUT" => expired'[v]
                 /\ pc'[v] \in {"add", "wait"} /\ call'[v].timed
                      => armed'[v] \/ cancelled'[v] \/ <<v, calls'[v]>> \in handed
                 /\ pc'[v] = "sleep" => <<v, calls'[v]>> \notin handed
      <4>1. CASE v # u
        BY <2>1, <2>2, <4>1 DEF Timing
      <4>2. CASE v = u
        <5>1. <<u, calls[u] + 1>> \notin handed
          BY <1>0, <2>1 DEF Timing
        <5>2. QED
          BY <2>1, <4>2, <5>1
      <4>3. QED
        BY <4>1, <4>2
    <3>3. QED
      BY <2>1, <3>1, <3>2 DEF Timing
  <2>7. QED
    BY <2>3, <2>4, <2>5, <2>6
\* A call returns.
<1>3. ASSUME NEW u \in Waiters, NEW r \in {"ok", "error", "ETIMEDOUT"}, Return(u, r),
             armed' \in [Waiters -> BOOLEAN], \A v \in Waiters : v # u => armed'[v] = armed[v],
             ~armed'[u], r = "ETIMEDOUT" => expired[u], UNCHANGED timerVars
      PROVE  Goal
  <2>1. /\ \A v \in Waiters : pc'[v] = IF v = u THEN "out" ELSE pc[v]
        /\ \A v \in Waiters : result'[v] = IF v = u THEN r ELSE result[v]
        /\ \A v \in Waiters : v # u => call'[v] = call[v]
        /\ UNCHANGED <<calls, cancelled, expired, sleeping, handed, cancelling>>
    BY <1>3 DEF Return, CallTypes, timerVars
  <2>2. call' \in [Waiters -> [fd: Fds \cup {"none"}, op: {"none", "io", "connect"}, timed: BOOLEAN]]
    BY <1>3 DEF Return, NoCall, CallTypes
  <2>3. CallTypes' /\ TimerTypes'
    BY <1>3, <2>1, <2>2 DEF Return, CallTypes, TimerTypes
  <2>4. Calling'
    BY <1>3, <2>1 DEF Calling, InCall
  <2>5. Timing'
    BY <1>3, <2>1 DEF Timing
  <2>6. QED
    BY <2>3, <2>4, <2>5
\* A fiber goes on within its call.
<1>4. ASSUME NEW u \in Waiters,
             NEW loc \in {"out", "try", "arm", "add", "wait", "woken", "check", "getsockopt"},
             pc' = [pc EXCEPT ![u] = loc],
             UNCHANGED <<call, calls, cancelled, expired, sleeping, result, handed, cancelling>>,
             armed' \in [Waiters -> BOOLEAN], \A v \in Waiters : v # u => armed'[v] = armed[v],
             InCall(u) \/ loc = "out",
             armed'[u] => loc \in {"add", "wait", "woken"},
             loc \in {"add", "wait"} /\ call[u].timed
               => armed'[u] \/ cancelled[u] \/ <<u, calls[u]>> \in handed
      PROVE  Goal
  <2>1. \A v \in Waiters : pc'[v] = IF v = u THEN loc ELSE pc[v]
    BY <1>4 DEF CallTypes
  <2>2. CallTypes' /\ TimerTypes'
    BY <1>4 DEF CallTypes, TimerTypes
  <2>3. Calling'
    BY <1>4, <2>1 DEF Calling, InCall
  <2>4. Timing'
    BY <1>4, <2>1 DEF Timing
  <2>5. QED
    BY <2>2, <2>3, <2>4
<1>5. ASSUME NEW u \in Waiters, armed' = [armed EXCEPT ![u] = FALSE]
      PROVE  /\ armed' \in [Waiters -> BOOLEAN] /\ ~armed'[u]
             /\ \A v \in Waiters : v # u => armed'[v] = armed[v]
  BY <1>5 DEF CallTypes
<1>6. ASSUME NEW u \in Waiters, FiberStep(u) PROVE Goal
  <2>0. armed \in [Waiters -> BOOLEAN] /\ (pc[u] \notin {"add", "wait", "woken"} => ~armed[u])
    BY DEF CallTypes, Calling
  <2>1. ASSUME NEW fd \in Fds, DoIo(u, fd) PROVE Goal
    <3>1. m_timeout[fd] \in BOOLEAN
      BY DEF FdTypes
    <3>2. QED
      BY <1>2, <2>1, <3>1 DEF DoIo
  <2>2. ASSUME NEW fd \in Fds, Connect(u, fd) PROVE Goal
    <3>1. CASE Begin(u, fd, "connect", TRUE)
      BY <1>2, <2>2, <3>1 DEF Connect
    <3>2. ASSUME NEW r \in {"ok", "error"}, Return(u, r), UNCHANGED armed PROVE Goal
      BY <1>3, <2>0, <2>2, <3>2 DEF Connect, MayCall
    <3>3. QED
      BY <2>2, <3>1, <3>2 DEF Connect
  <2>3. CASE Try(u)
    <3>1. CASE \E r \in {"ok", "error"} : Return(u, r) /\ UNCHANGED armed
      BY <1>3, <2>0, <2>3, <3>1 DEF Try
    <3>2. CASE /\ pc' = [pc EXCEPT ![u] = "arm"]
               /\ UNCHANGED <<call, calls, cancelled, armed, expired, sleeping, result>>
      BY <1>4, <2>0, <2>3, <3>2 DEF Try, timerVars, InCall
    <3>3. QED
      BY <2>3, <3>1, <3>2 DEF Try
  <2>4. CASE Arm(u)
    <3>1. call[u].timed \in BOOLEAN
      BY DEF CallTypes
    <3>2. /\ armed' \in [Waiters -> BOOLEAN] /\ armed'[u] = call[u].timed
          /\ \A v \in Waiters : v # u => armed'[v] = armed[v]
      BY <2>0, <2>4, <3>1 DEF Arm
    <3>3. QED
      BY <1>4, <2>4, <3>2 DEF Arm, timerVars, InCall
  <2>5. CASE AddWait(u)
    <3>1. pc[u] = "add" /\ pc' = [pc EXCEPT ![u] = "wait"] /\ InCall(u)
      BY <2>5 DEF AddWait, InCall
    <3>2. UNCHANGED <<call, calls, cancelled, armed, expired, sleeping, result, handed, cancelling>>
      BY <2>5 DEF AddWait, timerVars
    <3>3. call[u].timed => armed[u] \/ cancelled[u] \/ <<u, calls[u]>> \in handed
      BY <3>1 DEF Timing
    <3>4. QED
      BY <1>4, <2>0, <3>1, <3>2, <3>3
  <2>6. CASE AddFails(u)
    <3>0. armed' = [armed EXCEPT ![u] = FALSE] /\ pc[u] = "add" /\ UNCHANGED timerVars
      BY <2>6 DEF AddFails
    <3>1. CASE Return(u, "error")
      BY <1>3, <1>5, <3>0, <3>1
    <3>2. CASE /\ pc' = [pc EXCEPT ![u] = "getsockopt"]
               /\ UNCHANGED <<call, calls, cancelled, expired, sleeping, result>>
      BY <1>4, <1>5, <3>0, <3>2 DEF timerVars, InCall
    <3>3. QED
      BY <2>6, <3>1, <3>2 DEF AddFails
  <2>7. CASE Wake(u)
    <3>1. pc[u] \in {"wait", "sleep"} /\ pc' = [pc EXCEPT ![u] = IF pc[u] = "wait" THEN "woken" ELSE "out"]
      BY <2>7 DEF Wake
    <3>2. UNCHANGED <<call, calls, cancelled, armed, expired, sleeping, result, handed, cancelling>>
      BY <2>7 DEF Wake, timerVars
    <3>3. CASE pc[u] = "wait"
      BY <1>4, <2>0, <3>1, <3>2, <3>3 DEF InCall
    <3>4. CASE pc[u] = "sleep"
      BY <1>4, <2>0, <3>1, <3>2, <3>4
    <3>5. QED
      BY <3>1, <3>3, <3>4
  <2>8. CASE CancelTimer(u)
    BY <1>4, <1>5, <2>8 DEF CancelTimer, timerVars, InCall
  <2>9. CASE Check(u)
    <3>0. pc[u] = "check" /\ UNCHANGED <<armed, handed, cancelling>>
      BY <2>9 DEF Check, timerVars
    <3>1. CASE cancelled[u] /\ Return(u, "ETIMEDOUT")
      <4>1. expired[u]
        BY <3>1 DEF Timing
      <4>2. QED
        BY <1>3, <2>0, <3>0, <3>1, <4>1 DEF timerVars
    <3>2. CASE \E loc \in {"try", "getsockopt"} :
                 /\ pc' = [pc EXCEPT ![u] = loc]
                 /\ UNCHANGED <<call, calls, cancelled, expired, sleeping, result>>
      BY <1>4, <2>0, <3>0, <3>2 DEF InCall
    <3>3. QED
      BY <2>9, <3>1, <3>2 DEF Check
  <2>10. CASE ConnectEnd(u)
    <3>1. \E r \in {"ok", "error"} : Return(u, r)
      BY <2>10 DEF ConnectEnd
    <3>2. pc[u] = "getsockopt" /\ UNCHANGED <<armed, timerVars>>
      BY <2>10 DEF ConnectEnd
    <3>3. QED
      BY <1>3, <2>0, <3>1, <3>2
  <2>11. CASE Sleep(u)
    <3>1. /\ pc[u] = "out" /\ calls[u] < MaxCalls /\ calls[u] \in Nat
          /\ \A v \in Waiters : pc'[v] = IF v = u THEN "sleep" ELSE pc[v]
          /\ \A v \in Waiters : calls'[v] = IF v = u THEN calls[u] + 1 ELSE calls[v]
          /\ UNCHANGED <<call, cancelled, armed, expired, result, handed, cancelling>>
      BY <2>11 DEF Sleep, timerVars, CallTypes
    <3>2. CallTypes' /\ TimerTypes'
      BY <1>0, <2>11, <3>1 DEF Sleep, CallTypes, TimerTypes
    <3>3. Calling'
      BY <3>1 DEF Calling, InCall
    <3>4. Timing'
      <4>1. <<u, calls[u] + 1>> \notin handed
        BY <1>0, <3>1 DEF Timing
      <4>2. \A v \in Waiters : \A n \in 1..MaxCalls : <<v, n>> \in handed => n <= calls'[v]
        BY <3>1 DEF Timing
      <4>3. QED
        BY <3>1, <4>1, <4>2 DEF Timing
    <3>5. QED
      BY <3>2, <3>3, <3>4
  <2>12. QED
    BY <1>6, <2>1, <2>2, <2>3, <2>4, <2>5, <2>6, <2>7, <2>8, <2>9, <2>10, <2>11 DEF FiberStep
<1>7. ASSUME NEW u \in Waiters, Timers(u) PROVE Goal
  <2>1. CASE Expire(u)
    <3>1. /\ armed[u] /\ armed' = [armed EXCEPT ![u] = FALSE]
          /\ expired' = [expired EXCEPT ![u] = TRUE]
          /\ handed' = handed \cup {<<u, calls[u]>>}
          /\ UNCHANGED <<pc, call, calls, cancelled, sleeping, result, cancelling>>
      BY <2>1 DEF Expire
    <3>2. calls[u] \in 1..MaxCalls
      BY <1>0, <3>1 DEF Calling, InCall, CallTypes
    <3>3. CallTypes' /\ TimerTypes'
      BY <3>1, <3>2 DEF CallTypes, TimerTypes
    <3>4. /\ \A v \in Waiters : armed'[v] = (v # u /\ armed[v])
          /\ \A v \in Waiters : expired'[v] = (v = u \/ expired[v])
      BY <3>1 DEF CallTypes
    <3>5. Calling'
      BY <3>1, <3>4 DEF Calling, InCall
    <3>6. Timing'
      <4>1. \A v \in Waiters : \A n \in 1..MaxCalls : <<v, n>> \in handed' => n <= calls'[v]
        BY <3>1, <3>2 DEF Timing
      <4>2. \A v \in Waiters : v # u => (<<v, calls[v]>> \in handed' <=> <<v, calls[v]>> \in handed)
        BY <3>1
      <4>3. pc[u] # "sleep"
        BY <3>1 DEF Calling
      <4>4. QED
        BY <3>1, <3>4, <4>1, <4>2, <4>3 DEF Timing
    <3>7. QED
      BY <3>3, <3>5, <3>6
  <2>2. CASE SleepEnds(u)
    <3>1. sleeping' = sleeping \ {u} /\ UNCHANGED <<pc, call, calls, cancelled, armed, expired,
                                                   result, timerVars>>
      BY <2>2 DEF SleepEnds
    <3>2. CallTypes' /\ TimerTypes'
      BY <3>1 DEF CallTypes, TimerTypes, timerVars
    <3>3. Calling' /\ Timing'
      BY <3>1 DEF Calling, Timing, InCall, timerVars
    <3>4. QED
      BY <3>2, <3>3
  <2>3. ASSUME NEW n \in 1..MaxCalls, TimerCb(u, n) PROVE Goal
    <3>1. /\ <<u, n>> \in handed /\ handed' = handed \ {<<u, n>>}
          /\ UNCHANGED <<pc, call, calls, armed, expired, sleeping, result>>
      BY <2>3 DEF TimerCb
    <3>2. CASE Live(u, n) /\ ~cancelled[u]
      <4>1. /\ cancelled' = [cancelled EXCEPT ![u] = TRUE]
            /\ cancelling' = cancelling \cup {<<u, n, call[u].fd>>}
            /\ n = calls[u] /\ pc[u] # "out"
        BY <2>3, <3>2 DEF TimerCb, Live
      <4>2. expired[u]
        BY <3>1, <4>1 DEF Timing
      <4>3. pc[u] # "sleep"
        BY <3>1, <4>1 DEF Timing
      <4>4. call[u].fd \in Fds
        BY <4>1, <4>3 DEF Calling, InCall
      <4>5. CallTypes' /\ TimerTypes'
        BY <3>1, <4>1, <4>4 DEF CallTypes, TimerTypes
      <4>6. \A v \in Waiters : cancelled'[v] = (v = u \/ cancelled[v])
        BY <4>1 DEF CallTypes
      <4>7. Calling'
        BY <3>1 DEF Calling, InCall
      <4>8. Timing'
        BY <3>1, <4>1, <4>2, <4>6 DEF Timing
      <4>9. QED
        BY <4>5, <4>7, <4>8
    <3>3. CASE ~(Live(u, n) /\ ~cancelled[u])
      <4>1. UNCHANGED <<cancelled, cancelling>> /\ (n = calls[u] => pc[u] = "out" \/ cancelled[u])
        BY <2>3, <3>3 DEF TimerCb, Live
      <4>2. CallTypes' /\ TimerTypes'
        BY <3>1, <4>1 DEF CallTypes, TimerTypes
      <4>3. Calling'
        BY <3>1 DEF Calling, InCall
      <4>4. Timing'
        BY <3>1, <4>1 DEF Timing
      <4>5. QED
        BY <4>2, <4>3, <4>4
    <3>4. QED
      BY <3>2, <3>3
  <2>4. ASSUME NEW n \in 1..MaxCalls, NEW fd \in Fds, TimerCancels(u, n, fd) PROVE Goal
    BY <1>1, <2>4 DEF TimerCancels
  <2>5. QED
    BY <1>7, <2>1, <2>2, <2>3, <2>4 DEF Timers
<1>8. CASE UNCHANGED <<callVars, timerVars>>
  BY <1>1, <1>8 DEF timerVars
<1>9. ASSUME NEW fd \in Fds, Closer(fd) \/ Socket(fd) \/ Options(fd) PROVE Goal
  BY <1>8, <1>9 DEF Closer, CloseGet, CloseCancelAll, CloseDel, CloseEnd, CloseUnhooked, Socket,
     Options, SetTimeout, SetFl, Ioctl
<1>10. QED
  BY <1>6, <1>7, <1>8, <1>9 DEF HookNext, SocketReady, Connected, WorkerWait, WorkerProcess, allVars

-----------------------------------------------------------------------------
(* Who is suspended                                                        *)

\* The hooks keep the discipline IOManager needs.
LEMMA HookDisciplined == Disciplined
BY HookAssumption DEF Disciplined, OneDirection, OneKind

LEMMA EventOfDir ==
    ASSUME NEW fd \in Fds
    PROVE  EventOf(fd) \in Events /\ Dirs[fd] = {EventOf(fd)}
<1>1. PICK e \in Events : Dirs[fd] = {e}
  BY HookAssumption
<1>2. EventOf(fd) \in Events /\ EventOf(fd) \in Dirs[fd]
  BY <1>1 DEF EventOf
<1>3. QED
  BY <1>1, <1>2

\* A step that resumes, suspends and schedules nobody.
LEMMA NobodyMoves ==
    ASSUME Held, Suspended, TypeOK', Directed', Listening',
           UNCHANGED <<events, ctx, m_pendingEventCount, waiting, wakes, crashed, sleeping>>,
           \A u \in Waiters :
               \/ pc'[u] = pc[u]
               \/ pc[u] \notin {"wait", "sleep"} /\ pc'[u] \notin {"wait", "sleep"}
    PROVE  Held' /\ Suspended' /\ Registrations' = Registrations
<1>1. \A fd \in Fds : \A e \in events[fd] : Target(fd, e) \in waiting' /\ wakes'[Target(fd, e)] = 0
  BY DEF Held, Holding
<1>2. /\ Held' /\ Registrations' = Registrations
      /\ \A fd, e : Target(fd, e)' = Target(fd, e)
  BY <1>1, HeldSame
<1>3. Suspended'
  BY <1>2 DEF Suspended
<1>4. QED
  BY <1>2, <1>3

\* The same, where IOManager is not involved at all.
LEMMA NobodyMovesQuietly ==
    ASSUME Held, Suspended, UNCHANGED vars, UNCHANGED sleeping,
           \A u \in Waiters :
               \/ pc'[u] = pc[u]
               \/ pc[u] \notin {"wait", "sleep"} /\ pc'[u] \notin {"wait", "sleep"}
    PROVE  Held' /\ Suspended'
<1>1. TypeOK' /\ Directed' /\ Listening'
  BY DEF Held, vars, TypeOK, Directed, Listening
<1>2. QED
  BY <1>1, NobodyMoves DEF vars

\* The event of a descriptor is run, by idle(), a timer or close(): its fiber waits.
LEMMA OneIsWoken ==
    ASSUME Held, Suspended, NEW fd \in Fds, NEW e \in events[fd],
           Trigger(fd, {e}), EpollCtl(fd, {}),
           UNCHANGED <<ready, waiting, crashed, pc, sleeping>>,
           report' \in [Workers -> [Fds -> SUBSET (Events \cup {ERR})]],
           \A w \in Workers : \A gd \in Fds :
               /\ report'[w][gd] \subseteq report[w][gd]
               /\ gd # fd => report'[w][gd] = report[w][gd]
    PROVE  Held' /\ Suspended'
<1> DEFINE u == Target(fd, e)
<1>1. /\ Held'
      /\ \A v \in Waiters : wakes'[v] = IF v = u THEN 1 ELSE wakes[v]
      /\ Registrations' = Registrations \ {<<fd, e>>}
      /\ \A gd \in Fds : \A f \in Events : Target(gd, f)' = Target(gd, f)
      /\ u \in waiting /\ wakes[u] = 0
  BY HeldTriggered, HookDisciplined
<1>2. u \in Waiters /\ pc[u] = "wait" /\ u \notin sleeping
  BY <1>1 DEF Held, TypeOK, Suspended
<1>3. ASSUME NEW v \in Waiters, pc'[v] = "wait", wakes'[v] = 0
      PROVE  (\E r \in Registrations : Target(r[1], r[2]) = v)'
  <2>1. v # u /\ wakes[v] = 0 /\ pc[v] = "wait"
    BY <1>1, <1>3
  <2>2. PICK r \in Registrations : Target(r[1], r[2]) = v
    BY <2>1 DEF Suspended
  <2>3. r # <<fd, e>> /\ r[1] \in Fds /\ r[2] \in Events
    BY <2>1, <2>2 DEF Registrations
  <2>4. r \in Registrations' /\ Target(r[1], r[2])' = v
    BY <1>1, <2>2, <2>3
  <2>5. QED
    BY <2>4
<1> HIDE DEF u
<1>4. Suspended'
  BY <1>1, <1>2, <1>3 DEF Suspended
<1>5. QED
  BY <1>1, <1>4

\* The kernel's side: a descriptor becomes ready, is drained, or is closed.
LEMMA KernelMovesNobody ==
    ASSUME Held, Suspended, NEW fd \in Fds,
           \/ CloseF(fd)
           \/ \E c \in Events \cup {ERR} : Arrive(fd, c)
           \/ \E e \in Events : Consume(fd, e),
           UNCHANGED sleeping,
           \A u \in Waiters :
               \/ pc'[u] = pc[u]
               \/ pc[u] \notin {"wait", "sleep"} /\ pc'[u] \notin {"wait", "sleep"}
    PROVE  Held' /\ Suspended'
<1>0. TypeOK /\ Directed /\ Listening
  BY DEF Held
<1>1. UNCHANGED <<events, ctx, m_pendingEventCount, report, waiting, wakes, crashed>>
  BY DEF CloseF, Arrive, Consume
<1>2. /\ interest' \in [Fds -> SUBSET Events] /\ \A gd \in Fds : interest'[gd] \subseteq interest[gd]
      /\ ready' \in [Fds -> SUBSET (Events \cup {ERR})]
      /\ listed' \subseteq Fds
  <2>1. CASE CloseF(fd)
    BY <1>0, <2>1 DEF CloseF, TypeOK
  <2>2. ASSUME NEW c \in Events \cup {ERR}, Arrive(fd, c)
        PROVE  /\ UNCHANGED interest /\ ready' \in [Fds -> SUBSET (Events \cup {ERR})]
               /\ listed' \subseteq Fds
    BY <1>0, <2>2 DEF Arrive, TypeOK
  <2>3. ASSUME NEW e \in Events, Consume(fd, e)
        PROVE  /\ UNCHANGED <<interest, listed>> /\ ready' \in [Fds -> SUBSET (Events \cup {ERR})]
    BY <1>0, <2>3 DEF Consume, TypeOK
  <2>4. QED
    BY <1>0, <2>1, <2>2, <2>3 DEF TypeOK
<1>3. TypeOK'
  BY <1>0, <1>1, <1>2 DEF TypeOK
<1>4. Directed' /\ Listening'
  BY <1>0, <1>1, <1>2 DEF Directed, Listening
<1>5. QED
  BY <1>1, <1>3, <1>4, NobodyMoves

\* A fiber registers its event and swaps out.
LEMMA OneSwapsOut ==
    ASSUME Held, Suspended, NEW u \in Waiters, pc[u] = "add", NEW fd \in Fds,
           AddEvent(fd, EventOf(fd), u, "fiber"), UNCHANGED sleeping,
           \A v \in Waiters : pc'[v] = IF v = u THEN "wait" ELSE pc[v]
    PROVE  Held' /\ Suspended'
<1>0. EventOf(fd) \in Events
  BY EventOfDir
<1>1. /\ Held'
      /\ Registrations' = Registrations \cup {<<fd, EventOf(fd)>>}
      /\ Target(fd, EventOf(fd))' = u
      /\ \A r \in Registrations : Target(r[1], r[2])' = Target(r[1], r[2])
  BY <1>0, HeldAdded, HookDisciplined
<1>2. wakes' = wakes /\ waiting' = waiting \cup {u} /\ wakes[u] = 0
  BY DEF AddEvent
<1>3. u \notin sleeping
  BY DEF Suspended
<1>4. ASSUME NEW v \in Waiters, pc'[v] = "wait", wakes'[v] = 0
      PROVE  (\E r \in Registrations : Target(r[1], r[2]) = v)'
  <2>1. CASE v = u
    <3>1. <<fd, EventOf(fd)>> \in Registrations'
      BY <1>1
    <3>2. Target(<<fd, EventOf(fd)>>[1], <<fd, EventOf(fd)>>[2])' = u
      BY <1>1
    <3>3. QED
      BY <2>1, <3>1, <3>2
  <2>2. CASE v # u
    <3>1. PICK r \in Registrations : Target(r[1], r[2]) = v
      BY <1>2, <1>4, <2>2 DEF Suspended
    <3>2. r \in Registrations' /\ Target(r[1], r[2])' = v
      BY <1>1, <3>1
    <3>3. QED
      BY <3>2
  <2>3. QED
    BY <2>1, <2>2
<1>5. Suspended'
  BY <1>2, <1>3, <1>4 DEF Suspended
<1>6. QED
  BY <1>1, <1>5

\* A scheduled fiber is resumed, in a call or from sleep().
LEMMA OneIsResumed ==
    ASSUME Held, Suspended, NEW u \in Waiters, Resume(u), UNCHANGED sleeping,
           \A v \in Waiters : v # u => pc'[v] = pc[v], pc'[u] \notin {"wait", "sleep"}
    PROVE  Held' /\ Suspended'
<1>0. TypeOK /\ Directed /\ Listening
  BY DEF Held
<1>1. /\ UNCHANGED <<events, ctx, m_pendingEventCount, interest, ready, listed, report, crashed>>
      /\ waiting' = waiting \ {u} /\ wakes[u] > 0
      /\ wakes' = [wakes EXCEPT ![u] = wakes[u] - 1]
  BY DEF Resume
<1>2. wakes[u] = 1 /\ u \notin sleeping
  BY <1>1 DEF Suspended
<1>3. \A v \in Waiters : wakes'[v] = IF v = u THEN 0 ELSE wakes[v]
  BY <1>0, <1>1, <1>2 DEF TypeOK
<1>4. TypeOK'
  <2>1. wakes' \in [Waiters -> Nat]
    BY <1>0, <1>1, <1>2 DEF TypeOK
  <2>2. QED
    BY <1>0, <1>1, <2>1 DEF TypeOK
<1>5. Directed' /\ Listening'
  BY <1>0, <1>1 DEF Directed, Listening
<1>6. \A fd \in Fds : \A e \in events[fd] : Target(fd, e) \in waiting' /\ wakes'[Target(fd, e)] = 0
  BY <1>0, <1>1, <1>2, <1>3 DEF Held, Holding, TypeOK
<1>7. /\ Held' /\ Registrations' = Registrations
      /\ \A fd, e : Target(fd, e)' = Target(fd, e)
  BY <1>1, <1>4, <1>5, <1>6, HeldSame
<1>8. Suspended'
  BY <1>1, <1>2, <1>3, <1>7 DEF Suspended
<1>9. QED
  BY <1>7, <1>8

\* A sleep() timer schedules its fiber.
LEMMA OneSleepEnds ==
    ASSUME Held, Suspended, NEW u \in Waiters, SleepEnds(u)
    PROVE  Held' /\ Suspended'
<1>0. TypeOK /\ Directed /\ Listening
  BY DEF Held
<1>1. /\ UNCHANGED <<events, ctx, m_pendingEventCount, interest, ready, listed, report, waiting,
                     crashed, pc>>
      /\ u \in sleeping /\ sleeping' = sleeping \ {u}
      /\ wakes' = [wakes EXCEPT ![u] = wakes[u] + 1]
  BY DEF SleepEnds
<1>2. wakes[u] = 0 /\ pc[u] = "sleep" /\ u \notin waiting
  BY <1>1 DEF Suspended
<1>3. \A v \in Waiters : wakes'[v] = IF v = u THEN 1 ELSE wakes[v]
  BY <1>0, <1>1, <1>2 DEF TypeOK
<1>4. TypeOK'
  <2>1. wakes' \in [Waiters -> Nat]
    BY <1>0, <1>1, <1>2 DEF TypeOK
  <2>2. QED
    BY <1>0, <1>1, <2>1 DEF TypeOK
<1>5. Directed' /\ Listening'
  BY <1>0, <1>1 DEF Directed, Listening
<1>6. \A fd \in Fds : \A e \in events[fd] : Target(fd, e) \in waiting' /\ wakes'[Target(fd, e)] = 0
  BY <1>0, <1>1, <1>2, <1>3 DEF Held, Holding, TypeOK
<1>7. /\ Held' /\ Registrations' = Registrations
      /\ \A fd, e : Target(fd, e)' = Target(fd, e)
  BY <1>1, <1>4, <1>5, <1>6, HeldSame
<1>8. Suspended'
  BY <1>1, <1>2, <1>3, <1>7 DEF Suspended
<1>9. QED
  BY <1>7, <1>8

\* cancelEvent from a timer, or cancelAll from close().
LEMMA OneIsCancelled ==
    ASSUME Held, Suspended, NEW fd \in Fds,
           CancelAll(fd) \/ \E e \in Events : CancelEvent(fd, e), UNCHANGED <<pc, sleeping>>
    PROVE  Held' /\ Suspended'
<1>1. PICK e \in events[fd] : Trigger(fd, {e}) /\ EpollCtl(fd, {})
  BY CancelTriggers, HookDisciplined
<1>2. UNCHANGED <<ready, report, waiting, crashed>>
  BY CancelTriggers, HookDisciplined
<1>3. report' \in [Workers -> [Fds -> SUBSET (Events \cup {ERR})]]
  BY <1>2 DEF Held, TypeOK
<1>4. QED
  BY <1>1, <1>2, <1>3, OneIsWoken

\* A worker processes one reported event, or drops it with its closed descriptor.
LEMMA WorkerMoves ==
    ASSUME Held, Suspended, NEW w \in Workers, NEW fd \in Fds, WorkerProcess(w, fd)
    PROVE  Held' /\ Suspended'
<1>0. UNCHANGED <<pc, sleeping>>
  BY DEF WorkerProcess, callVars
<1>1. CASE Detached(fd)
  <2>1. /\ report' = [report EXCEPT ![w][fd] = {}]
        /\ UNCHANGED <<events, ctx, m_pendingEventCount, interest, ready, listed, waiting, wakes,
                       crashed>>
    BY <1>1 DEF WorkerProcess
  <2>2. TypeOK'
    BY <2>1 DEF Held, TypeOK
  <2>3. \A v \in Workers : \A gd \in Fds : report'[v][gd] \subseteq report[v][gd]
    BY <2>1 DEF Held, TypeOK
  <2>4. Directed' /\ Listening'
    BY <2>1, <2>3 DEF Held, Directed, Listening
  <2>5. QED
    BY <1>0, <2>1, <2>2, <2>4, NobodyMoves
<1>2. CASE ~Detached(fd)
  <2>1. Process(w, fd)
    BY <1>2 DEF WorkerProcess
  <2>2. /\ report' \in [Workers -> [Fds -> SUBSET (Events \cup {ERR})]]
        /\ \A v \in Workers : \A gd \in Fds :
             report'[v][gd] = IF v = w /\ gd = fd THEN {} ELSE report[v][gd]
        /\ UNCHANGED <<ready, waiting, crashed>>
        /\ \/ /\ events[fd] \cap RealEvents(fd, report[w][fd]) = {}
              /\ UNCHANGED <<events, ctx, m_pendingEventCount, interest, listed, wakes>>
           \/ \E e \in events[fd] : Trigger(fd, {e}) /\ EpollCtl(fd, {})
    BY <2>1, ProcessTriggers, HookDisciplined
  <2>3. CASE UNCHANGED <<events, ctx, m_pendingEventCount, interest, listed, wakes>>
    <3>1. TypeOK'
      BY <2>2, <2>3 DEF Held, TypeOK
    <3>2. Directed' /\ Listening'
      BY <2>2, <2>3 DEF Held, Directed, Listening
    <3>3. QED
      BY <1>0, <2>2, <2>3, <3>1, <3>2, NobodyMoves
  <2>4. CASE \E e \in events[fd] : Trigger(fd, {e}) /\ EpollCtl(fd, {})
    BY <1>0, <2>2, <2>4, OneIsWoken
  <2>5. QED
    BY <2>2, <2>3, <2>4
<1>3. QED
  BY <1>1, <1>2

\* Every step keeps who is suspended held or scheduled once, and nobody else.
LEMMA SuspendStep ==
    CallTypes /\ Held /\ Suspended /\ Calling /\ [HookNext]_allVars => Held' /\ Suspended'
<1> SUFFICES ASSUME CallTypes, Held, Suspended, Calling, [HookNext]_allVars
             PROVE  Held' /\ Suspended'
  OBVIOUS
<1> DEFINE Goal == Held' /\ Suspended'
<1>1. CASE UNCHANGED <<vars, pc, sleeping>>
  BY <1>1, NobodyMovesQuietly
<1>2. ASSUME NEW u \in Waiters, NEW loc, pc' = [pc EXCEPT ![u] = loc]
      PROVE  pc'[u] = loc /\ \A v \in Waiters : pc'[v] = IF v = u THEN loc ELSE pc[v]
  BY <1>2 DEF CallTypes
<1>3. ASSUME NEW u \in Waiters, FiberStep(u) PROVE Goal
  <2>1. ASSUME UNCHANGED <<vars, sleeping>>, pc[u] \notin {"wait", "sleep"},
               NEW loc \in {"out", "try", "arm", "add", "woken", "check", "getsockopt"},
               pc' = [pc EXCEPT ![u] = loc]
        PROVE  Goal
    BY <1>2, <2>1, NobodyMovesQuietly
  <2>2. ASSUME NEW fd \in Fds, DoIo(u, fd) \/ Connect(u, fd) PROVE Goal
    <3>1. \/ pc' = [pc EXCEPT ![u] = "try"]
          \/ pc' = [pc EXCEPT ![u] = "arm"]
          \/ pc' = [pc EXCEPT ![u] = "out"]
      BY <2>2 DEF DoIo, Connect, Begin, Return
    <3>2. UNCHANGED <<vars, sleeping>> /\ pc[u] = "out"
      BY <2>2 DEF DoIo, Connect, Begin, Return, MayCall
    <3>3. QED
      BY <2>1, <3>1, <3>2
  <2>3. CASE Try(u)
    <3>0. /\ pc[u] = "try" /\ UNCHANGED sleeping /\ call[u].fd \in Fds
          /\ (pc' = [pc EXCEPT ![u] = "out"] \/ pc' = [pc EXCEPT ![u] = "arm"])
      BY <2>3 DEF Try, Return, Calling, InCall
    <3>1. CASE UNCHANGED vars
      BY <2>1, <3>0, <3>1
    <3>2. CASE Consume(call[u].fd, EventOf(call[u].fd))
      <4>1. EventOf(call[u].fd) \in Events
        BY <3>0, EventOfDir
      <4>2. \A v \in Waiters :
               \/ pc'[v] = pc[v]
               \/ pc[v] \notin {"wait", "sleep"} /\ pc'[v] \notin {"wait", "sleep"}
        BY <1>2, <3>0
      <4>3. QED
        BY <3>0, <3>2, <4>1, <4>2, KernelMovesNobody
    <3>3. QED
      BY <2>3, <3>1, <3>2 DEF Try
  <2>4. CASE Arm(u)
    BY <2>1, <2>4 DEF Arm
  <2>5. CASE AddWait(u)
    <3>1. /\ pc[u] = "add" /\ call[u].fd \in Fds /\ UNCHANGED sleeping
          /\ AddEvent(call[u].fd, EventOf(call[u].fd), u, "fiber")
          /\ pc' = [pc EXCEPT ![u] = "wait"]
      BY <2>5 DEF AddWait, Calling, InCall
    <3>2. QED
      BY <1>2, <3>1, OneSwapsOut
  <2>6. CASE AddFails(u)
    <3>1. /\ pc[u] = "add" /\ UNCHANGED <<vars, sleeping>>
          /\ (pc' = [pc EXCEPT ![u] = "out"] \/ pc' = [pc EXCEPT ![u] = "getsockopt"])
      BY <2>6 DEF AddFails, Return
    <3>2. QED
      BY <2>1, <3>1
  <2>7. CASE Wake(u)
    <3>1. /\ Resume(u) /\ UNCHANGED sleeping
          /\ (pc' = [pc EXCEPT ![u] = "out"] \/ pc' = [pc EXCEPT ![u] = "woken"])
      BY <2>7 DEF Wake
    <3>2. (\A v \in Waiters : v # u => pc'[v] = pc[v]) /\ pc'[u] \notin {"wait", "sleep"}
      BY <1>2, <3>1
    <3>3. QED
      BY <3>1, <3>2, OneIsResumed
  <2>8. CASE CancelTimer(u)
    BY <2>1, <2>8 DEF CancelTimer
  <2>9. CASE Check(u)
    <3>1. /\ pc[u] = "check" /\ UNCHANGED <<vars, sleeping>>
          /\ \/ pc' = [pc EXCEPT ![u] = "out"]
             \/ pc' = [pc EXCEPT ![u] = "try"]
             \/ pc' = [pc EXCEPT ![u] = "getsockopt"]
      BY <2>9 DEF Check, Return
    <3>2. QED
      BY <2>1, <3>1
  <2>10. CASE ConnectEnd(u)
    <3>1. pc[u] = "getsockopt" /\ UNCHANGED <<vars, sleeping>> /\ pc' = [pc EXCEPT ![u] = "out"]
      BY <2>10 DEF ConnectEnd, Return
    <3>2. QED
      BY <2>1, <3>1
  <2>11. CASE Sleep(u)
    <3>1. /\ pc[u] = "out" /\ UNCHANGED vars /\ sleeping' = sleeping \cup {u}
          /\ \A v \in Waiters : pc'[v] = IF v = u THEN "sleep" ELSE pc[v]
      BY <1>2, <2>11 DEF Sleep
    <3>2. TypeOK' /\ Directed' /\ Listening'
      BY <3>1 DEF Held, vars, TypeOK, Directed, Listening
    <3>3. \A fd \in Fds : \A e \in events[fd] :
             Target(fd, e) \in waiting' /\ wakes'[Target(fd, e)] = 0
      BY <3>1 DEF Held, Holding, vars
    <3>4. /\ Held' /\ Registrations' = Registrations
          /\ \A fd, e : Target(fd, e)' = Target(fd, e)
      BY <3>1, <3>2, <3>3, HeldSame DEF vars
    <3>5. Suspended'
      BY <3>1, <3>4 DEF Suspended, vars
    <3>6. QED
      BY <3>4, <3>5
  <2>12. QED
    BY <1>3, <2>2, <2>3, <2>4, <2>5, <2>6, <2>7, <2>8, <2>9, <2>10, <2>11 DEF FiberStep
<1>4. ASSUME NEW u \in Waiters, Timers(u) PROVE Goal
  <2>1. CASE SleepEnds(u)
    BY <2>1, OneSleepEnds
  <2>2. ASSUME NEW n \in 1..MaxCalls, NEW fd \in Fds, TimerCancels(u, n, fd) PROVE Goal
    <3>1. CASE UNCHANGED vars
      BY <1>1, <2>2, <3>1 DEF TimerCancels, callVars
    <3>2. CASE CancelEvent(fd, EventOf(fd))
      BY <2>2, <3>2, OneIsCancelled, EventOfDir DEF TimerCancels, callVars
    <3>3. QED
      BY <2>2, <3>1, <3>2 DEF TimerCancels
  <2>3. QED
    BY <1>1, <1>4, <2>1, <2>2 DEF Timers, Expire, TimerCb
<1>5. ASSUME NEW fd \in Fds, Closer(fd) PROVE Goal
  <2>1. CASE CloseCancelAll(fd)
    <3>1. CASE UNCHANGED vars
      BY <1>1, <2>1, <3>1 DEF CloseCancelAll, callVars
    <3>2. CASE CancelAll(fd)
      BY <2>1, <3>2, OneIsCancelled DEF CloseCancelAll, callVars
    <3>3. QED
      BY <2>1, <3>1, <3>2 DEF CloseCancelAll
  <2>2. CASE CloseEnd(fd) \/ CloseUnhooked(fd)
    <3>1. CloseF(fd) /\ UNCHANGED <<pc, sleeping>>
      BY <2>2 DEF CloseEnd, CloseUnhooked, callVars
    <3>2. QED
      BY <3>1, KernelMovesNobody
  <2>3. QED
    BY <1>1, <1>5, <2>1, <2>2 DEF Closer, CloseGet, CloseDel, callVars
<1>6. ASSUME NEW fd \in Fds, Socket(fd) \/ Options(fd) PROVE Goal
  BY <1>1, <1>6 DEF Socket, Options, SetTimeout, SetFl, Ioctl, callVars
<1>7. ASSUME NEW fd \in Fds, NEW c \in Events \cup {ERR}, Arrive(fd, c), UNCHANGED callVars
      PROVE  Goal
  BY <1>7, KernelMovesNobody DEF callVars
<1>8. ASSUME NEW fd \in Fds,
             \/ \E c \in Events \cup {ERR} : SocketReady(fd, c)
             \/ \E r \in {"ok", "failed"} : Connected(fd, r)
      PROVE  Goal
  <2>1. WRITE \in Events
    BY DEF Events
  <2>2. QED
    BY <1>7, <1>8, <2>1 DEF SocketReady, Connected
<1>9. ASSUME NEW w \in Workers, WorkerWait(w) PROVE Goal
  <2>1. EpollWait(w) /\ UNCHANGED <<pc, sleeping>>
    BY <1>9 DEF WorkerWait, callVars
  <2>2. TypeOK' /\ Directed'
    BY <2>1, HeldEpollWait
  <2>3. UNCHANGED <<events, ctx, m_pendingEventCount, interest, waiting, wakes, crashed>>
    BY <2>1 DEF EpollWait
  <2>4. Listening'
    BY <2>3 DEF Held, Listening
  <2>5. QED
    BY <2>1, <2>2, <2>3, <2>4, NobodyMoves
<1>10. CASE UNCHANGED allVars
  BY <1>1, <1>10 DEF allVars, callVars
<1>11. QED
  BY <1>3, <1>4, <1>5, <1>6, <1>8, <1>9, <1>10, WorkerMoves DEF HookNext

-----------------------------------------------------------------------------
(* The invariant, and what it says                                         *)

LEMMA HookInitInv == HookInit => HookInv
<1> SUFFICES ASSUME HookInit PROVE HookInv
  OBVIOUS
<1>1. Held
  BY InitInv DEF HookInit, EventInv
<1>2. FdTypes
  BY HookAssumption DEF HookInit, FdTypes
<1>3. CallTypes
  <2>1. NoCall \in [fd: Fds \cup {"none"}, op: {"none", "io", "connect"}, timed: BOOLEAN]
    BY DEF NoCall
  <2>2. QED
    BY <2>1, HookAssumption DEF HookInit, CallTypes
<1>4. TimerTypes
  BY DEF HookInit, TimerTypes
<1>5. Suspended
  BY DEF HookInit, Init, Suspended
<1>6. Calling /\ Timing
  BY DEF HookInit, Calling, Timing, InCall
<1>7. Closing /\ HookedNonblock
  BY DEF HookInit, Closing, HookedNonblock
<1>8. QED
  BY <1>1, <1>2, <1>3, <1>4, <1>5, <1>6, <1>7, TypeParts DEF HookInv, Held

LEMMA HookNextInv == HookInv /\ [HookNext]_allVars => HookInv'
<1> SUFFICES ASSUME HookInv, [HookNext]_allVars PROVE HookInv'
  OBVIOUS
<1>1. FdTypes /\ CallTypes /\ TimerTypes
  BY TypeParts DEF HookInv
<1>2. FdTypes' /\ Closing' /\ HookedNonblock'
  BY <1>1, TableStep DEF HookInv
<1>3. CallTypes' /\ TimerTypes' /\ Calling' /\ Timing'
  BY <1>1, CallStep DEF HookInv
<1>4. Held' /\ Suspended'
  BY <1>1, SuspendStep DEF HookInv
<1>5. (HookTypeOK <=> TypeOK /\ FdTypes /\ CallTypes /\ TimerTypes)'
  BY TypeParts, PTL
<1>6. QED
  BY <1>2, <1>3, <1>4, <1>5 DEF HookInv, Held

\* The inductive invariant of the hooked calls.
THEOREM HookInvariant == HookSpec => []HookInv
BY HookInitInv, HookNextInv, PTL DEF HookSpec

\* The hooked calls keep their types: a late cancelEvent never makes
\* m_pendingEventCount wrap.
THEOREM HookTypeCorrect == HookSpec => []HookTypeOK
<1>1. HookInv => HookTypeOK
  BY DEF HookInv
<1>2. QED
  BY <1>1, HookInvariant, PTL

\* A fiber that swapped out in a hooked call is resumed exactly once, however the event,
\* the timeout and close() race.
THEOREM OneWakeUpAlways == HookSpec => []OneWakeUp
<1>1. HookInv => OneWakeUp
  <2> SUFFICES ASSUME HookInv, NEW u \in Waiters
               PROVE  Holders(u) + wakes[u] + (IF u \in sleeping THEN 1 ELSE 0)
                        = IF pc[u] \in {"wait", "sleep"} THEN 1 ELSE 0
    BY DEF OneWakeUp
  <2>1. /\ Holders(u) = IF \E r \in Registrations : Target(r[1], r[2]) = u THEN 1 ELSE 0
        /\ \A r \in Registrations : Target(r[1], r[2]) = u => u \in waiting /\ wakes[u] = 0
    BY HeldHolders DEF HookInv
  <2>2. /\ u \in waiting <=> pc[u] = "wait"
        /\ wakes[u] \in {0, 1}
        /\ wakes[u] = 1 => pc[u] \in {"wait", "sleep"} /\ u \notin sleeping
        /\ u \in sleeping => pc[u] = "sleep"
        /\ pc[u] = "sleep" /\ wakes[u] = 0 => u \in sleeping
        /\ pc[u] = "wait" /\ wakes[u] = 0
             => \E r \in Registrations : Target(r[1], r[2]) = u
    BY DEF HookInv, Suspended
  <2>3. QED
    BY <2>1, <2>2
<1>2. QED
  BY <1>1, HookInvariant, PTL

\* A call times out only through a timer of its own.
THEOREM TimeoutIsOwnAlways == HookSpec => []TimeoutIsOwn
<1>1. HookInv => TimeoutIsOwn
  BY DEF HookInv, Timing, TimeoutIsOwn
<1>2. QED
  BY <1>1, HookInvariant, PTL

\* A call with a timeout never waits unobserved.
THEOREM TimeoutStaysAlways == HookSpec => []TimeoutStays
<1>1. HookInv => TimeoutStays
  BY DEF HookInv, Timing, TimeoutStays
<1>2. QED
  BY <1>1, HookInvariant, PTL

\* A descriptor with an FdCtx stays non-blocking, whatever fcntl is asked.
THEOREM HookedNonblockAlways == HookSpec => []HookedNonblock
<1>1. HookInv => HookedNonblock
  BY DEF HookInv
<1>2. QED
  BY <1>1, HookInvariant, PTL

-----------------------------------------------------------------------------
(* What a step can do, one descriptor or fiber at a time                   *)

\* Fiber u's call is not touched, except that its timer may cancel it.
Same(u) ==
    /\ pc'[u] = pc[u] /\ call'[u] = call[u] /\ calls'[u] = calls[u] /\ result'[u] = result[u]
    /\ cancelled[u] => cancelled'[u]

\* At most one fiber's call moves in a step.
LEMMA OneMoves ==
    ASSUME CallTypes, [HookNext]_allVars
    PROVE  \/ \A v \in Waiters : Same(v)
           \/ \E u \in Waiters : FiberStep(u) /\ \A v \in Waiters \ {u} : Same(v)
<1>1. ASSUME UNCHANGED <<pc, call, calls, result, cancelled>> PROVE \A v \in Waiters : Same(v)
  BY <1>1 DEF Same
<1>2. ASSUME NEW u \in Waiters, FiberStep(u), NEW v \in Waiters \ {u} PROVE Same(v)
  <2>0. ASSUME NEW r, Return(u, r) PROVE Same(v)
    BY <2>0 DEF Return, Same, CallTypes
  <2>9. ASSUME NEW loc, pc' = [pc EXCEPT ![u] = loc], UNCHANGED <<call, calls, cancelled, result>>
        PROVE  Same(v)
    BY <2>9 DEF Same, CallTypes
  <2>1. ASSUME NEW fd \in Fds, DoIo(u, fd) \/ Connect(u, fd) PROVE Same(v)
    <3>1. ASSUME NEW op, NEW timed, Begin(u, fd, op, timed) PROVE Same(v)
      <4>1. call'[v] = call[v]
        BY <3>1 DEF Begin, CallTypes
      <4>2. QED
        BY <3>1, <4>1 DEF Begin, Same, CallTypes
    <3>2. QED
      BY <2>0, <2>1, <3>1 DEF DoIo, Connect
  <2>2. CASE Try(u) \/ Arm(u)
    BY <2>0, <2>2, <2>9 DEF Try, Arm
  <2>3. CASE AddWait(u) \/ AddFails(u)
    <3>1. CASE AddWait(u)
      BY <2>9, <3>1 DEF AddWait
    <3>2. CASE AddFails(u)
      BY <2>0, <2>9, <3>2 DEF AddFails
    <3>3. QED
      BY <2>3, <3>1, <3>2
  <2>4. CASE Wake(u) \/ CancelTimer(u)
    BY <2>4 DEF Wake, CancelTimer, Same, CallTypes
  <2>5. CASE Check(u) \/ ConnectEnd(u)
    BY <2>5 DEF Check, ConnectEnd, Return, Same, CallTypes
  <2>6. CASE Sleep(u)
    BY <2>6 DEF Sleep, Same, CallTypes
  <2>7. QED
    BY <1>2, <2>1, <2>2, <2>3, <2>4, <2>5, <2>6 DEF FiberStep
<1>3. ASSUME NEW u \in Waiters, Timers(u), NEW v \in Waiters PROVE Same(v)
  <2>1. ASSUME NEW n \in 1..MaxCalls, TimerCb(u, n) PROVE Same(v)
    <3>1. cancelled[v] => cancelled'[v]
      BY <2>1 DEF TimerCb, CallTypes
    <3>2. QED
      BY <2>1, <3>1 DEF TimerCb, Same
  <2>2. QED
    BY <1>1, <1>3, <2>1 DEF Timers, Expire, SleepEnds, TimerCancels, callVars
<1>4. ASSUME NEW fd \in Fds, Socket(fd) \/ Closer(fd) \/ Options(fd) PROVE UNCHANGED callVars
  BY <1>4 DEF Socket, Closer, CloseGet, CloseCancelAll, CloseDel, CloseEnd, CloseUnhooked, Options,
     SetTimeout, SetFl, Ioctl
<1>5. QED
  BY <1>1, <1>2, <1>3, <1>4 DEF HookNext, SocketReady, Connected, WorkerWait, WorkerProcess, allVars,
     callVars

\* How a fiber's own step moves it: it begins a call, goes on, or returns.
LEMMA FiberMoves ==
    ASSUME CallTypes, Calling, NEW u \in Waiters, FiberStep(u)
    PROVE  \/ /\ pc[u] = "out" /\ pc'[u] \in {"try", "arm", "sleep"} /\ calls'[u] = calls[u] + 1
              /\ pc'[u] = "sleep" => call'[u] = call[u]
              /\ pc'[u] # "sleep" => result'[u] = "none"
           \/ /\ calls'[u] = calls[u] /\ cancelled'[u] = cancelled[u] /\ pc'[u] = "out"
           \/ /\ InCall(u) /\ pc'[u] \notin {"out", "sleep"}
              /\ calls'[u] = calls[u] /\ cancelled'[u] = cancelled[u] /\ call'[u] = call[u]
              /\ result'[u] = result[u]
<1>1. ASSUME NEW fd \in Fds, DoIo(u, fd) PROVE pc[u] = "out" /\ pc'[u] = "try" /\ calls'[u] = calls[u] + 1 /\ result'[u] = "none"
  BY <1>1 DEF DoIo, MayCall, Begin, CallTypes
<1>2. ASSUME NEW fd \in Fds, Connect(u, fd)
      PROVE  /\ pc[u] = "out"
             /\ \/ pc'[u] = "arm" /\ calls'[u] = calls[u] + 1 /\ result'[u] = "none"
                \/ pc'[u] = "out" /\ UNCHANGED <<calls, cancelled>>
  BY <1>2 DEF Connect, MayCall, Begin, Return, CallTypes
<1>3. CASE Try(u) \/ Arm(u)
  BY <1>3 DEF Try, Arm, Return, InCall, CallTypes
<1>4. CASE AddWait(u) \/ AddFails(u)
  BY <1>4 DEF AddWait, AddFails, Return, InCall, CallTypes
<1>5. CASE Wake(u) \/ CancelTimer(u)
  BY <1>5 DEF Wake, CancelTimer, InCall, CallTypes
<1>6. CASE Check(u) \/ ConnectEnd(u)
  BY <1>6 DEF Check, ConnectEnd, Return, InCall, CallTypes
<1>7. CASE Sleep(u)
  BY <1>7 DEF Sleep, CallTypes
<1>8. QED
  BY <1>1, <1>2, <1>3, <1>4, <1>5, <1>6, <1>7 DEF FiberStep

\* FdManager and the kernel: a number is given out anew, closed, or goes on.
LEMMA FdMoves ==
    ASSUME TypeOK, FdTypes, [HookNext]_allVars, NEW fd \in Fds
    PROVE  \/ /\ fd \notin open /\ fd \in open' /\ opens'[fd] = opens[fd] + 1
              /\ conn'[fd] = conn[fd] /\ closing'[fd] = closing[fd]
           \/ /\ fd \in open \/ closing[fd] # "no"
              /\ fd \notin open' /\ opens'[fd] = opens[fd]
              /\ conn'[fd] = "idle" /\ ready'[fd] = {}
           \/ /\ fd \in open' <=> fd \in open
              /\ opens'[fd] = opens[fd]
              /\ closing[fd] # "no" => closing'[fd] # "no"
              /\ \/ conn'[fd] = conn[fd]
                 \/ conn[fd] = "pending" /\ conn'[fd] \in {"ok", "failed"}
                 \/ \E u \in Waiters : fd \in open /\ conn[fd] = "idle" /\ Connect(u, fd)
                 \/ \E u \in Waiters : /\ conn[fd] = "failed" /\ conn'[fd] = "idle"
                                       /\ ConnectEnd(u) /\ call[u].fd = fd
<1> DEFINE Closed == /\ fd \in open \/ closing[fd] # "no"
                     /\ fd \notin open' /\ opens'[fd] = opens[fd]
                     /\ conn'[fd] = "idle" /\ ready'[fd] = {}
           Still == /\ fd \in open' <=> fd \in open
                    /\ opens'[fd] = opens[fd]
                    /\ closing[fd] # "no" => closing'[fd] # "no"
           Goal == \/ /\ fd \notin open /\ fd \in open' /\ opens'[fd] = opens[fd] + 1
                      /\ conn'[fd] = conn[fd] /\ closing'[fd] = closing[fd]
                   \/ Closed
                   \/ Still /\ \/ conn'[fd] = conn[fd]
                               \/ conn[fd] = "pending" /\ conn'[fd] \in {"ok", "failed"}
                               \/ \E u \in Waiters : fd \in open /\ conn[fd] = "idle" /\ Connect(u, fd)
                               \/ \E u \in Waiters : /\ conn[fd] = "failed" /\ conn'[fd] = "idle"
                                                     /\ ConnectEnd(u) /\ call[u].fd = fd
<1> SUFFICES Goal
  OBVIOUS
<1>1. ASSUME UNCHANGED <<opens, open, closing>> PROVE Still
  BY <1>1
<1>2. CASE UNCHANGED hookVars
  BY <1>1, <1>2 DEF hookVars
<1>3. ASSUME NEW gd \in Fds, Socket(gd) PROVE Goal
  BY <1>3 DEF Socket, FdTypes
<1>4. ASSUME NEW gd \in Fds, Options(gd) PROVE Goal
  BY <1>1, <1>4 DEF Options, SetTimeout, SetFl, Ioctl
<1>5. ASSUME NEW gd \in Fds, Closer(gd) PROVE Goal
  <2>1. CASE CloseGet(gd) \/ CloseCancelAll(gd) \/ CloseDel(gd)
    <3>1. UNCHANGED <<opens, open, conn>>
      BY <2>1 DEF CloseGet, CloseCancelAll, CloseDel
    <3>2. closing[fd] # "no" => closing'[fd] # "no"
      BY <2>1 DEF CloseGet, CloseCancelAll, CloseDel, FdTypes
    <3>3. QED
      BY <3>1, <3>2
  <2>2. CASE CloseEnd(gd) \/ CloseUnhooked(gd)
    <3>0. CloseF(gd) /\ UNCHANGED opens /\ (gd \in open \/ closing[gd] # "no")
      BY <2>2 DEF CloseEnd, CloseUnhooked
    <3>1. CASE gd = fd
      <4>1. fd \notin open' /\ conn'[fd] = "idle"
        BY <3>0, <3>1 DEF CloseF, FdTypes
      <4>2. ready'[fd] = {}
        BY <3>0, <3>1 DEF CloseF, TypeOK
      <4>3. QED
        BY <3>0, <3>1, <4>1, <4>2
    <3>2. CASE gd # fd
      <4>1. closing'[fd] = closing[fd]
        BY <2>2, <3>2 DEF CloseEnd, CloseUnhooked, FdTypes
      <4>2. QED
        BY <3>0, <3>2, <4>1 DEF CloseF, FdTypes
    <3>3. QED
      BY <3>1, <3>2
  <2>3. QED
    BY <1>5, <2>1, <2>2 DEF Closer
<1>6. ASSUME NEW u \in Waiters, FiberStep(u) PROVE Goal
  <2>1. ASSUME NEW gd \in Fds, Connect(u, gd) PROVE Goal
    <3>1. Still /\ gd \in open /\ conn[gd] = "idle" /\ (gd # fd => conn'[fd] = conn[fd])
      BY <1>1, <2>1 DEF Connect, FdTypes
    <3>2. QED
      BY <2>1, <3>1
  <2>2. CASE ConnectEnd(u)
    <3>1. Still
      BY <1>1, <2>2 DEF ConnectEnd
    <3>2. conn' = [conn EXCEPT ![call[u].fd] = IF conn[call[u].fd] = "failed" THEN "idle" ELSE conn[call[u].fd]]
      BY <2>2 DEF ConnectEnd
    <3>3. QED
      BY <2>2, <3>1, <3>2 DEF FdTypes
  <2>3. QED
    BY <1>2, <1>6, <2>1, <2>2 DEF FiberStep, DoIo, Try, Arm, AddWait, AddFails, Wake,
       CancelTimer, Check, Sleep
<1>7. ASSUME NEW u \in Waiters, Timers(u) PROVE UNCHANGED hookVars
  BY <1>7 DEF Timers, Expire, SleepEnds, TimerCb, TimerCancels
<1>8. ASSUME NEW gd \in Fds, NEW r \in {"ok", "failed"}, Connected(gd, r) PROVE Goal
  <2>1. Still
    BY <1>1, <1>8 DEF Connected
  <2>2. QED
    BY <1>8, <2>1 DEF Connected, FdTypes
<1>9. QED
  BY <1>2, <1>3, <1>4, <1>5, <1>6, <1>7, <1>8 DEF HookNext, SocketReady, WorkerWait,
     WorkerProcess, allVars

\* IOManager and epoll: who is registered, and what is reported.
IoMove(fd) ==
    /\ events'[fd] = events[fd] \/ events'[fd] = {} \/ fd \in open
    /\ \/ interest'[fd] = events'[fd]
       \/ fd \notin open'
       \/ events'[fd] = events[fd] /\ interest'[fd] = interest[fd]
    /\ \/ ready'[fd] \subseteq ready[fd]
       \/ /\ fd \in open \/ conn[fd] = "pending"
          /\ WRITE \notin Dirs[fd] \/ conn'[fd] \in {"ok", "failed"}
    /\ \A w \in Workers : \/ report'[w][fd] \subseteq report[w][fd]
                          \/ report'[w][fd] \subseteq ready[fd] /\ interest[fd] # {}

LEMMA IoMoves ==
    ASSUME HookInv, [HookNext]_allVars, NEW fd \in Fds
    PROVE  IoMove(fd)
<1>0. TypeOK /\ Held /\ FdTypes
  BY TypeParts DEF HookInv, Held
<1>1. ASSUME UNCHANGED vars PROVE IoMove(fd)
  BY <1>1 DEF vars, IoMove
<1>2. ASSUME NEW gd \in Fds, NEW e \in events[gd], Trigger(gd, {e}), EpollCtl(gd, {}), UNCHANGED ready,
             \A w \in Workers : \A hd \in Fds : report'[w][hd] \subseteq report[w][hd]
      PROVE  IoMove(fd)
  <2>1. events[gd] = {e}
    BY <1>0, SingleEvent, HookDisciplined DEF Held, Disciplined
  <2>2. events'[fd] = IF fd = gd THEN {} ELSE events[fd]
    BY <1>0, <1>2, <2>1 DEF Trigger, TypeOK
  <2>3. interest'[fd] = IF fd = gd THEN {} ELSE interest[fd]
    BY <1>0, <1>2 DEF EpollCtl, TypeOK
  <2>4. QED
    BY <1>2, <2>2, <2>3 DEF IoMove
<1>3. ASSUME NEW gd \in Fds, CancelAll(gd) \/ \E e \in Events : CancelEvent(gd, e) PROVE IoMove(fd)
  <2>1. PICK e \in events[gd] : Trigger(gd, {e}) /\ EpollCtl(gd, {})
    BY <1>0, <1>3, CancelTriggers, HookDisciplined
  <2>2. UNCHANGED <<ready, report>>
    BY <1>0, <1>3, CancelTriggers, HookDisciplined
  <2>3. QED
    BY <1>2, <2>1, <2>2
<1>4. ASSUME NEW u \in Waiters, FiberStep(u) PROVE IoMove(fd)
  <2>1. ASSUME NEW gd, Consume(gd, EventOf(gd)) PROVE IoMove(fd)
    <3>1. ready'[fd] \subseteq ready[fd]
      BY <1>0, <2>1 DEF Consume, TypeOK
    <3>2. UNCHANGED <<events, interest, report>>
      BY <2>1 DEF Consume
    <3>3. QED
      BY <3>1, <3>2 DEF IoMove
  <2>2. CASE AddWait(u)
    <3>1. AddEvent(call[u].fd, EventOf(call[u].fd), u, "fiber") /\ call[u].fd \in open
      BY <2>2 DEF AddWait
    <3>2. UNCHANGED <<ready, report>>
      BY <3>1 DEF AddEvent
    <3>3. CASE fd # call[u].fd
      <4>1. events'[fd] = events[fd] /\ interest'[fd] = interest[fd]
        BY <1>0, <3>1, <3>3 DEF AddEvent, EpollCtl, TypeOK
      <4>2. QED
        BY <3>2, <4>1 DEF IoMove
    <3>4. CASE fd = call[u].fd
      <4>1. events'[fd] = interest'[fd]
        BY <1>0, <3>1, <3>4 DEF AddEvent, EpollCtl, TypeOK
      <4>2. QED
        BY <3>1, <3>2, <3>4, <4>1 DEF IoMove
    <3>5. QED
      BY <3>3, <3>4
  <2>3. ASSUME Resume(u) PROVE IoMove(fd)
    BY <2>3 DEF Resume, IoMove
  <2>4. QED
    BY <1>1, <1>4, <2>1, <2>2, <2>3 DEF FiberStep, DoIo, Connect, Try, Arm, AddFails, Wake,
       CancelTimer, Check, ConnectEnd, Sleep
<1>5. ASSUME NEW u \in Waiters, Timers(u) PROVE IoMove(fd)
  <2>1. ASSUME NEW n \in 1..MaxCalls, NEW gd \in Fds, TimerCancels(u, n, gd) PROVE IoMove(fd)
    BY <1>1, <1>3, <2>1, EventOfDir DEF TimerCancels
  <2>2. ASSUME SleepEnds(u) PROVE IoMove(fd)
    BY <2>2 DEF SleepEnds, IoMove
  <2>3. QED
    BY <1>1, <1>5, <2>1, <2>2 DEF Timers, Expire, TimerCb
<1>6. ASSUME NEW gd \in Fds, Closer(gd) PROVE IoMove(fd)
  <2>1. ASSUME CloseF(gd) PROVE IoMove(fd)
    <3>1. UNCHANGED <<events, report>> /\ (fd = gd => fd \notin open')
      BY <2>1 DEF CloseF
    <3>2. /\ fd # gd => interest'[fd] = interest[fd]
          /\ ready'[fd] \subseteq ready[fd]
      BY <1>0, <2>1 DEF CloseF, TypeOK
    <3>3. QED
      BY <3>1, <3>2 DEF IoMove
  <2>2. QED
    BY <1>1, <1>3, <1>6, <2>1 DEF Closer, CloseGet, CloseCancelAll, CloseDel, CloseEnd, CloseUnhooked
<1>7. ASSUME NEW gd \in Fds, Socket(gd) \/ Options(gd) PROVE UNCHANGED vars
  BY <1>7 DEF Socket, Options, SetTimeout, SetFl, Ioctl
<1>8. ASSUME NEW gd \in Fds, NEW c \in Events \cup {ERR}, Arrive(gd, c),
             gd \in open \/ conn[gd] = "pending",
             WRITE \notin Dirs[gd] \/ conn'[gd] \in {"ok", "failed"}
      PROVE  IoMove(fd)
  <2>1. UNCHANGED <<events, interest, report>>
    BY <1>8 DEF Arrive
  <2>2. fd # gd => ready'[fd] = ready[fd]
    BY <1>0, <1>8 DEF Arrive, TypeOK
  <2>3. QED
    BY <1>8, <2>1, <2>2 DEF IoMove
<1>9. ASSUME NEW gd \in Fds, NEW c \in Events \cup {ERR}, SocketReady(gd, c) PROVE IoMove(fd)
  <2>1. gd \in open /\ Arrive(gd, c) /\ UNCHANGED conn
    BY <1>9 DEF SocketReady, hookVars
  <2>2. WRITE \notin Dirs[gd] \/ conn[gd] \in {"ok", "failed"}
    <3>1. PICK e \in Events : Dirs[gd] = {e}
      BY HookAssumption
    <3>2. QED
      BY <1>9, <3>1 DEF SocketReady, Events
  <2>3. QED
    BY <1>8, <2>1, <2>2
<1>10. ASSUME NEW gd \in Fds, NEW r \in {"ok", "failed"}, Connected(gd, r) PROVE IoMove(fd)
  <2>1. conn'[gd] = r /\ conn[gd] = "pending" /\ Arrive(gd, WRITE)
    BY <1>0, <1>10 DEF Connected, FdTypes
  <2>2. WRITE \in Events \cup {ERR}
    BY DEF Events
  <2>3. QED
    BY <1>8, <2>1, <2>2
<1>11. ASSUME NEW w \in Workers, WorkerWait(w) PROVE IoMove(fd)
  <2>1. EpollWait(w)
    BY <1>11 DEF WorkerWait
  <2>2. \A v \in Workers :
          report'[v][fd] = IF v # w THEN report[v][fd]
                           ELSE IF fd \in listed THEN Reportable(fd, interest[fd]) ELSE {}
    BY <1>0, <2>1, HeldEpollWait
  <2>3. UNCHANGED <<events, interest, ready>>
    BY <2>1 DEF EpollWait
  <2>4. QED
    BY <2>2, <2>3 DEF IoMove, Reportable
<1>12. ASSUME NEW w \in Workers, NEW gd \in Fds, WorkerProcess(w, gd) PROVE IoMove(fd)
  <2>1. CASE Detached(gd)
    <3>1. report' = [report EXCEPT ![w][gd] = {}] /\ UNCHANGED <<events, interest, ready>>
      BY <1>12, <2>1 DEF WorkerProcess
    <3>2. \A v \in Workers : report'[v][fd] \subseteq report[v][fd]
      BY <1>0, <3>1 DEF TypeOK
    <3>3. QED
      BY <3>1, <3>2 DEF IoMove
  <2>2. CASE ~Detached(gd)
    <3>1. Process(w, gd)
      BY <1>12, <2>2 DEF WorkerProcess
    <3>2. /\ report' \in [Workers -> [Fds -> SUBSET (Events \cup {ERR})]]
          /\ \A v \in Workers : \A hd \in Fds :
               report'[v][hd] = IF v = w /\ hd = gd THEN {} ELSE report[v][hd]
          /\ UNCHANGED <<ready, waiting, crashed>>
          /\ \/ /\ events[gd] \cap RealEvents(gd, report[w][gd]) = {}
                /\ UNCHANGED <<events, ctx, m_pendingEventCount, interest, listed, wakes>>
             \/ \E e \in events[gd] : Trigger(gd, {e}) /\ EpollCtl(gd, {})
      BY <1>0, <3>1, ProcessTriggers, HookDisciplined
    <3>3. CASE UNCHANGED <<events, interest>>
      BY <3>2, <3>3 DEF IoMove
    <3>4. CASE \E e \in events[gd] : Trigger(gd, {e}) /\ EpollCtl(gd, {})
      BY <1>2, <3>2, <3>4
    <3>5. QED
      BY <3>2, <3>3, <3>4
  <2>3. QED
    BY <2>1, <2>2
<1>13. QED
  BY <1>1, <1>4, <1>5, <1>6, <1>7, <1>9, <1>10, <1>11, <1>12 DEF HookNext, allVars

\* A number that is not open keeps nothing, and one that was opened once is known to epoll.
LEMMA SocketsStep == HookInv /\ Sockets /\ [HookNext]_allVars => Sockets'
<1> SUFFICES ASSUME HookInv, Sockets, [HookNext]_allVars, NEW fd \in Fds
             PROVE  /\ opens'[fd] = 1 /\ fd \in open' => interest'[fd] = events'[fd]
                    /\ fd \notin open' => conn'[fd] = "idle" /\ ready'[fd] = {}
                    /\ opens'[fd] = 0 => /\ fd \notin open' /\ events'[fd] = {}
                                         /\ \A w \in Workers : report'[w][fd] = {}
  BY DEF Sockets
<1>0. TypeOK /\ FdTypes /\ Listening /\ opens[fd] \in Nat
  BY TypeParts DEF HookInv, Held, FdTypes
<1>1. IoMove(fd)
  BY IoMoves
<1>2. /\ opens[fd] = 1 /\ fd \in open => interest[fd] = events[fd]
      /\ fd \notin open => conn[fd] = "idle" /\ ready[fd] = {}
      /\ opens[fd] = 0 => /\ fd \notin open /\ events[fd] = {} /\ interest[fd] = {}
                          /\ \A w \in Workers : report[w][fd] = {}
  BY <1>0 DEF Sockets, Listening
<1>3. CASE fd \notin open /\ fd \in open' /\ opens'[fd] = opens[fd] + 1
  <2>1. opens'[fd] # 0 /\ (opens'[fd] = 1 => opens[fd] = 0)
    BY <1>0, <1>3
  <2>2. opens[fd] = 0 => interest'[fd] = events'[fd]
    BY <1>1, <1>2, <1>3 DEF IoMove
  <2>3. QED
    BY <1>3, <2>1, <2>2
<1>4. CASE /\ fd \in open \/ closing[fd] # "no"
           /\ fd \notin open' /\ opens'[fd] = opens[fd]
           /\ conn'[fd] = "idle" /\ ready'[fd] = {}
  <2>1. fd \in open
    BY <1>4 DEF HookInv, Closing
  <2>2. QED
    BY <1>2, <1>4, <2>1
<1>5. CASE /\ fd \in open' <=> fd \in open
           /\ opens'[fd] = opens[fd]
           /\ fd \notin open => conn'[fd] = conn[fd]
  BY <1>1, <1>2, <1>5 DEF IoMove
<1>6. QED
  BY <1>0, <1>2, <1>3, <1>4, <1>5, FdMoves

\* A call begins on a descriptor that was given out and that no other call uses.
LEMMA FiberBegins ==
    ASSUME CallTypes, NEW u \in Waiters, FiberStep(u), ~InCall(u), InCall(u)'
    PROVE  \E fd \in Fds :
             /\ MayCall(u, fd) /\ call'[u].fd = fd /\ call'[u].op \in {"io", "connect"}
             /\ opens[fd] > 0 \/ fd \in open
             /\ call'[u].op = "connect" => Dirs[fd] = {WRITE}
             /\ pc'[u] \in {"try", "arm"} /\ result'[u] = "none"
<1>1. ASSUME NEW fd \in Fds, NEW op \in {"io", "connect"}, NEW timed, Begin(u, fd, op, timed)
      PROVE  /\ call'[u].fd = fd /\ call'[u].op = op /\ pc'[u] \in {"try", "arm"}
             /\ result'[u] = "none"
  <2>1. call'[u] = [fd |-> fd, op |-> op, timed |-> timed]
    BY <1>1 DEF Begin, CallTypes
  <2>2. QED
    BY <1>1, <2>1 DEF Begin, CallTypes
<1>2. ASSUME NEW r, Return(u, r) PROVE FALSE
  BY <1>2 DEF Return, InCall, CallTypes
<1>3. ASSUME NEW fd \in Fds, DoIo(u, fd)
      PROVE  /\ MayCall(u, fd) /\ call'[u].fd = fd /\ call'[u].op = "io" /\ opens[fd] > 0
             /\ pc'[u] \in {"try", "arm"} /\ result'[u] = "none"
  BY <1>1, <1>3 DEF DoIo
<1>4. ASSUME NEW fd \in Fds, Connect(u, fd)
      PROVE  /\ MayCall(u, fd) /\ call'[u].fd = fd /\ call'[u].op = "connect" /\ fd \in open
             /\ Dirs[fd] = {WRITE} /\ pc'[u] \in {"try", "arm"} /\ result'[u] = "none"
  <2>1. Dirs[fd] = {WRITE}
    BY <1>4, EventOfDir DEF Connect
  <2>2. QED
    BY <1>1, <1>2, <1>4, <2>1 DEF Connect
<1>5. CASE \E fd \in Fds : DoIo(u, fd) \/ Connect(u, fd)
  BY <1>3, <1>4, <1>5
<1>6. ~(Try(u) \/ Arm(u) \/ AddWait(u) \/ AddFails(u) \/ CancelTimer(u) \/ Check(u) \/ ConnectEnd(u))
  BY DEF InCall, Try, Arm, AddWait, AddFails, CancelTimer, Check, ConnectEnd
<1>7. ~(Wake(u) \/ Sleep(u))
  BY DEF InCall, Wake, Sleep, CallTypes
<1>8. QED
  BY <1>5, <1>6, <1>7 DEF FiberStep

\* A call that has returned is never forgotten.
LEMMA ReturnedStays ==
    CallTypes /\ Calling /\ [HookNext]_allVars /\ NoneReturned' => NoneReturned
<1> SUFFICES ASSUME CallTypes, Calling, [HookNext]_allVars, NoneReturned', NEW v \in Waiters
             PROVE  calls[v] = 0 \/ (calls[v] = 1 /\ pc[v] # "out")
  BY DEF NoneReturned
<1>1. calls[v] \in Nat /\ (calls'[v] = 0 \/ (calls'[v] = 1 /\ pc'[v] # "out"))
  BY DEF CallTypes, NoneReturned
<1>2. CASE Same(v)
  BY <1>1, <1>2 DEF Same
<1>3. CASE FiberStep(v)
  <2>1. CASE pc[v] = "out" /\ calls'[v] = calls[v] + 1
    BY <1>1, <2>1
  <2>2. CASE calls'[v] = calls[v] /\ pc'[v] = "out"
    BY <1>1, <2>2
  <2>3. CASE InCall(v) /\ calls'[v] = calls[v]
    BY <1>1, <2>3 DEF InCall
  <2>4. QED
    BY <1>3, <2>1, <2>2, <2>3, FiberMoves
<1>4. QED
  BY <1>2, <1>3, OneMoves

LEMMA UnansweredStep ==
    CallTypes /\ Calling /\ Unanswered /\ [HookNext]_allVars => Unanswered'
<1> SUFFICES ASSUME CallTypes, Calling, Unanswered, [HookNext]_allVars, NEW u \in Waiters, InCall(u)'
             PROVE  /\ result'[u] = "none" /\ call'[u].op \in {"io", "connect"}
                    /\ pc'[u] = "getsockopt" => call'[u].op = "connect"
  BY DEF Unanswered
<1>1. CASE Same(u)
  BY <1>1 DEF Same, InCall, Unanswered
<1>2. CASE FiberStep(u) /\ ~InCall(u)
  BY <1>2, FiberBegins
<1>3. CASE FiberStep(u) /\ InCall(u)
  <2>1. call'[u] = call[u] /\ result'[u] = result[u]
    BY <1>3, FiberMoves DEF InCall
  <2>2. ASSUME pc'[u] = "getsockopt" PROVE call[u].op = "connect"
    <3>1. CASE AddFails(u) \/ Check(u)
      BY <1>3, <2>2, <3>1 DEF AddFails, Check, Return, CallTypes, Unanswered
    <3>2. CASE ConnectEnd(u)
      BY <2>2, <3>2 DEF ConnectEnd, Return, CallTypes
    <3>3. CASE Wake(u) \/ Try(u) \/ Arm(u) \/ AddWait(u) \/ CancelTimer(u)
      BY <2>2, <3>3 DEF Wake, Try, Arm, AddWait, CancelTimer, Return, CallTypes
    <3>4. ~Sleep(u) /\ \A fd \in Fds : ~DoIo(u, fd) /\ ~Connect(u, fd)
      BY <1>3 DEF Sleep, DoIo, Connect, MayCall, InCall
    <3>5. QED
      BY <1>3, <3>1, <3>2, <3>3, <3>4 DEF FiberStep
  <2>3. QED
    BY <1>3, <2>1, <2>2 DEF Unanswered
<1>4. QED
  BY <1>1, <1>2, <1>3, OneMoves

LEMMA CancelsOwnStep ==
    HookInv /\ CancelsOwn /\ [HookNext]_allVars => CancelsOwn'
<1> SUFFICES ASSUME HookInv, CancelsOwn, [HookNext]_allVars,
                    NEW u \in Waiters, NEW n \in 1..MaxCalls, NEW fd \in Fds,
                    <<u, n, fd>> \in cancelling'
             PROVE  /\ n <= calls'[u]
                    /\ n = calls'[u] /\ pc'[u] # "out"
                         => InCall(u)' /\ call'[u].fd = fd /\ cancelled'[u]
  BY DEF CancelsOwn
<1>0. CallTypes /\ Calling /\ calls[u] \in Nat /\ n \in Nat
  BY TypeParts, HookAssumption DEF HookInv, CallTypes
<1>1. CASE <<u, n, fd>> \in cancelling
  <2>0. n <= calls[u] /\ (n = calls[u] /\ pc[u] # "out" => InCall(u) /\ call[u].fd = fd /\ cancelled[u])
    BY <1>1 DEF CancelsOwn
  <2>1. CASE Same(u)
    BY <2>0, <2>1 DEF Same, InCall
  <2>2. CASE FiberStep(u)
    <3>1. CASE calls'[u] = calls[u] + 1
      BY <1>0, <2>0, <3>1
    <3>2. CASE calls'[u] = calls[u] /\ pc'[u] = "out"
      BY <2>0, <3>2
    <3>3. CASE /\ InCall(u) /\ pc'[u] \notin {"out", "sleep"}
               /\ calls'[u] = calls[u] /\ cancelled'[u] = cancelled[u] /\ call'[u] = call[u]
      BY <2>0, <3>3 DEF InCall
    <3>4. QED
      BY <1>0, <2>2, <3>1, <3>2, <3>3, FiberMoves
  <2>3. QED
    BY <1>0, <2>1, <2>2, OneMoves
<1>2. CASE <<u, n, fd>> \notin cancelling
  <2>1. TimerCb(u, n) /\ Live(u, n) /\ ~cancelled[u] /\ fd = call[u].fd
    <3>1. ASSUME cancelling' \subseteq cancelling PROVE FALSE
      BY <1>2, <3>1
    <3>2. ASSUME NEW v \in Waiters, NEW k \in 1..MaxCalls, TimerCb(v, k)
          PROVE  v = u /\ k = n /\ Live(u, n) /\ ~cancelled[u] /\ fd = call[u].fd
      BY <1>2, <3>2 DEF TimerCb
    <3>3. ASSUME NEW v \in Waiters, FiberStep(v) PROVE UNCHANGED cancelling
      BY <3>3 DEF FiberStep, DoIo, Connect, Try, Arm, AddWait, AddFails, Wake, CancelTimer, Check,
         ConnectEnd, Sleep, timerVars
    <3>4. ASSUME NEW gd \in Fds, Socket(gd) \/ Closer(gd) \/ Options(gd) PROVE UNCHANGED cancelling
      BY <3>4 DEF Socket, Closer, CloseGet, CloseCancelAll, CloseDel, CloseEnd, CloseUnhooked,
         Options, SetTimeout, SetFl, Ioctl, timerVars
    <3>5. ASSUME NEW v \in Waiters, Timers(v) PROVE \E k \in 1..MaxCalls : TimerCb(v, k)
      BY <3>1, <3>5 DEF Timers, Expire, SleepEnds, TimerCancels, timerVars
    <3>6. QED
      BY <3>1, <3>2, <3>3, <3>4, <3>5 DEF HookNext, SocketReady, Connected, WorkerWait,
         WorkerProcess, allVars, timerVars
  <2>2. /\ <<u, n>> \in handed /\ n = calls[u] /\ pc[u] # "out" /\ UNCHANGED <<pc, call, calls>>
        /\ cancelled' = [cancelled EXCEPT ![u] = TRUE]
    BY <2>1 DEF TimerCb, Live
  <2>3. cancelled'[u]
    BY <1>0, <2>2 DEF CallTypes
  <2>4. pc[u] # "sleep"
    BY <2>2 DEF HookInv, Timing
  <2>5. QED
    BY <1>0, <2>1, <2>2, <2>3, <2>4 DEF InCall
<1>3. QED
  BY <1>1, <1>2

\* Why an event is run: it was reported, its descriptor is being closed, or a timer expired.
Cause(fd) ==
    \/ \E w \in Workers : report[w][fd] # {}
    \/ closing'[fd] = "del"
    \/ \E v \in Waiters, n \in 1..MaxCalls : <<v, n, fd>> \in cancelling

\* What a step does to registrations and wake-ups: nothing, one fiber swaps out, or one
\* event is run for a reason.
LEMMA WaitMoves ==
    ASSUME HookInv, [HookNext]_allVars
    PROVE  \/ /\ UNCHANGED <<events, ctx>>
              /\ \A v \in Waiters : wakes'[v] = 0 \/ wakes'[v] = wakes[v] \/ v \in sleeping
           \/ \E u \in Waiters : AddWait(u)
           \/ \E fd \in Fds : \E e \in events[fd] :
                /\ Cause(fd)
                /\ \A v \in Waiters : wakes'[v] = IF v = Target(fd, e) THEN 1 ELSE wakes[v]
                /\ Registrations' = Registrations \ {<<fd, e>>}
                /\ \A gd \in Fds : \A f \in Events : Target(gd, f)' = Target(gd, f)
<1> DEFINE Nothing == /\ UNCHANGED <<events, ctx>>
                      /\ \A v \in Waiters : wakes'[v] = 0 \/ wakes'[v] = wakes[v] \/ v \in sleeping
           Swaps == \E u \in Waiters : AddWait(u)
           Runs == \E fd \in Fds : \E e \in events[fd] :
                /\ Cause(fd)
                /\ \A v \in Waiters : wakes'[v] = IF v = Target(fd, e) THEN 1 ELSE wakes[v]
                /\ Registrations' = Registrations \ {<<fd, e>>}
                /\ \A gd \in Fds : \A f \in Events : Target(gd, f)' = Target(gd, f)
<1> SUFFICES Nothing \/ Swaps \/ Runs
  OBVIOUS
<1>0. TypeOK /\ Held /\ FdTypes /\ Suspended
  BY TypeParts DEF HookInv, Held
<1>1. ASSUME UNCHANGED <<events, ctx, wakes>> PROVE Nothing
  BY <1>1
<1>2. ASSUME NEW fd \in Fds, NEW e \in events[fd], Trigger(fd, {e}), EpollCtl(fd, {}), Cause(fd),
             UNCHANGED <<ready, waiting, crashed>>,
             report' \in [Workers -> [Fds -> SUBSET (Events \cup {ERR})]],
             \A w \in Workers : \A gd \in Fds :
                 /\ report'[w][gd] \subseteq report[w][gd]
                 /\ gd # fd => report'[w][gd] = report[w][gd]
      PROVE  Runs
  <2>1. /\ \A v \in Waiters : wakes'[v] = IF v = Target(fd, e) THEN 1 ELSE wakes[v]
        /\ Registrations' = Registrations \ {<<fd, e>>}
        /\ \A gd \in Fds : \A f \in Events : Target(gd, f)' = Target(gd, f)
    BY <1>0, <1>2, HeldTriggered, HookDisciplined
  <2>2. QED
    BY <1>2, <2>1
<1>3. ASSUME NEW fd \in Fds, CancelAll(fd) \/ \E e \in Events : CancelEvent(fd, e), Cause(fd)
      PROVE  Runs
  <2>1. PICK e \in events[fd] : Trigger(fd, {e}) /\ EpollCtl(fd, {})
    BY <1>0, <1>3, CancelTriggers, HookDisciplined
  <2>2. UNCHANGED <<ready, report, waiting, crashed>>
    BY <1>0, <1>3, CancelTriggers, HookDisciplined
  <2>3. report' \in [Workers -> [Fds -> SUBSET (Events \cup {ERR})]]
    BY <1>0, <2>2 DEF TypeOK
  <2>4. QED
    BY <1>2, <1>3, <2>1, <2>2, <2>3
<1>4. ASSUME NEW u \in Waiters, FiberStep(u) PROVE Nothing \/ Swaps
  <2>1. CASE Wake(u)
    <3>1. UNCHANGED <<events, ctx>> /\ wakes[u] > 0 /\ wakes' = [wakes EXCEPT ![u] = wakes[u] - 1]
      BY <2>1 DEF Wake, Resume
    <3>2. wakes[u] = 1
      BY <1>0, <3>1 DEF Suspended
    <3>3. \A v \in Waiters : wakes'[v] = 0 \/ wakes'[v] = wakes[v]
      BY <1>0, <3>1, <3>2 DEF TypeOK
    <3>4. QED
      BY <3>1, <3>3
  <2>2. CASE Try(u)
    BY <1>1, <2>2 DEF Try, Consume, vars
  <2>3. QED
    BY <1>1, <1>4, <2>1, <2>2 DEF FiberStep, DoIo, Connect, Arm, AddFails,
       CancelTimer, Check, ConnectEnd, Sleep, vars
<1>5. ASSUME NEW u \in Waiters, Timers(u) PROVE Nothing \/ Runs
  <2>1. ASSUME NEW n \in 1..MaxCalls, NEW fd \in Fds, TimerCancels(u, n, fd) PROVE Nothing \/ Runs
    <3>1. Cause(fd)
      BY <2>1 DEF TimerCancels, Cause
    <3>2. QED
      BY <1>1, <1>3, <2>1, <3>1, EventOfDir DEF TimerCancels, vars
  <2>2. CASE SleepEnds(u)
    BY <1>0, <2>2 DEF SleepEnds, TypeOK
  <2>3. QED
    BY <1>1, <1>5, <2>1, <2>2 DEF Timers, Expire, TimerCb, vars
<1>6. ASSUME NEW fd \in Fds, Closer(fd) PROVE Nothing \/ Runs
  <2>1. CASE CloseCancelAll(fd)
    <3>1. Cause(fd)
      BY <1>0, <2>1 DEF CloseCancelAll, Cause, FdTypes
    <3>2. QED
      BY <1>1, <1>3, <2>1, <3>1 DEF CloseCancelAll, vars
  <2>2. QED
    BY <1>1, <1>6, <2>1 DEF Closer, CloseGet, CloseDel, CloseEnd, CloseUnhooked, CloseF, vars
<1>7. ASSUME NEW fd \in Fds, Socket(fd) \/ Options(fd) PROVE Nothing
  BY <1>1, <1>7 DEF Socket, Options, SetTimeout, SetFl, Ioctl, vars
<1>8. ASSUME NEW w \in Workers, NEW fd \in Fds, WorkerProcess(w, fd) PROVE Nothing \/ Runs
  <2>1. CASE Detached(fd)
    BY <1>1, <1>8, <2>1 DEF WorkerProcess
  <2>2. CASE ~Detached(fd)
    <3>1. Process(w, fd)
      BY <1>8, <2>2 DEF WorkerProcess
    <3>2. Cause(fd)
      BY <3>1 DEF Process, Cause
    <3>3. /\ report' \in [Workers -> [Fds -> SUBSET (Events \cup {ERR})]]
          /\ \A v \in Workers : \A gd \in Fds :
               report'[v][gd] = IF v = w /\ gd = fd THEN {} ELSE report[v][gd]
          /\ UNCHANGED <<ready, waiting, crashed>>
          /\ \/ /\ events[fd] \cap RealEvents(fd, report[w][fd]) = {}
                /\ UNCHANGED <<events, ctx, m_pendingEventCount, interest, listed, wakes>>
             \/ \E e \in events[fd] : Trigger(fd, {e}) /\ EpollCtl(fd, {})
      BY <1>0, <3>1, ProcessTriggers, HookDisciplined
    <3>4. CASE UNCHANGED <<events, ctx, wakes>>
      BY <1>1, <3>4
    <3>5. CASE \E e \in events[fd] : Trigger(fd, {e}) /\ EpollCtl(fd, {})
      BY <1>2, <3>2, <3>3, <3>5
    <3>6. QED
      BY <3>3, <3>4, <3>5
  <2>3. QED
    BY <2>1, <2>2
<1> HIDE DEF Nothing, Swaps, Runs
<1>9. QED
  BY <1>1, <1>4, <1>5, <1>6, <1>7, <1>8 DEF HookNext, SocketReady, Connected, Arrive, WorkerWait,
     EpollWait, allVars, vars

\* A fiber in a call is in the call it was in, or begins one.
LEMMA CallGoesOn ==
    ASSUME CallTypes, Calling, [HookNext]_allVars, NEW u \in Waiters, InCall(u)'
    PROVE  \/ InCall(u) /\ call'[u] = call[u] /\ (cancelled[u] => cancelled'[u])
           \/ FiberStep(u) /\ ~InCall(u)
<1>1. CASE Same(u)
  BY <1>1 DEF Same, InCall
<1>2. CASE FiberStep(u) /\ InCall(u)
  BY <1>2, FiberMoves DEF InCall
<1>3. QED
  BY <1>1, <1>2, OneMoves

LEMMA ExclusiveStep ==
    HookInv /\ Sockets /\ Exclusive /\ [HookNext]_allVars => Exclusive'
<1> SUFFICES ASSUME HookInv, Sockets, Exclusive, [HookNext]_allVars PROVE Exclusive'
  OBVIOUS
<1>0. HookInv' /\ CallTypes /\ Calling /\ FdTypes /\ TypeOK
  BY HookNextInv, TypeParts DEF HookInv
<1>1. ASSUME NEW u \in Waiters, NEW v \in Waiters, InCall(u)', InCall(v)', call'[u].fd = call'[v].fd
      PROVE  u = v
  <2>1. ASSUME NEW x \in Waiters, NEW y \in Waiters, x # y, call'[x].fd = call'[y].fd,
               InCall(y)', InCall(x)', FiberStep(x), ~InCall(x)
        PROVE  FALSE
    <3>1. PICK fd \in Fds : MayCall(x, fd) /\ call'[x].fd = fd
      BY <1>0, <2>1, FiberBegins
    <3>2. InCall(y) /\ call'[y] = call[y]
      <4>1. pc[x] = "out" /\ pc'[x] # "out"
        BY <2>1, <3>1 DEF MayCall, InCall
      <4>2. ~Same(x)
        BY <4>1 DEF Same
      <4>3. PICK z \in Waiters : \A w \in Waiters \ {z} : Same(w)
        BY <1>0, OneMoves
      <4>4. z = x
        BY <4>2, <4>3
      <4>5. Same(y)
        BY <2>1, <4>3, <4>4
      <4>6. QED
        BY <2>1, <4>5 DEF Same, InCall
    <3>3. QED
      BY <2>1, <3>1, <3>2 DEF MayCall, InCall
  <2>2. CASE /\ InCall(u) /\ call'[u] = call[u]
             /\ InCall(v) /\ call'[v] = call[v]
    BY <1>1, <2>2 DEF Exclusive
  <2>3. QED
    BY <1>0, <1>1, <2>1, <2>2, CallGoesOn
<1>2. ASSUME NEW u \in Waiters, InCall(u)'
      PROVE  /\ opens'[call'[u].fd] >= 1
             /\ call'[u].op = "connect" => Dirs[call'[u].fd] = {WRITE}
  <2>1. ASSUME NEW fd \in Fds, opens[fd] >= 1 PROVE opens'[fd] >= 1
    <3>1. opens[fd] \in Nat /\ (opens'[fd] = opens[fd] \/ opens'[fd] = opens[fd] + 1)
      BY <1>0, FdMoves DEF FdTypes
    <3>2. QED
      BY <2>1, <3>1
  <2>2. CASE InCall(u) /\ call'[u] = call[u]
    <3>1. call[u].fd \in Fds /\ opens[call[u].fd] >= 1
      BY <1>0, <2>2 DEF Exclusive, Calling
    <3>2. opens'[call[u].fd] >= 1
      BY <2>1, <3>1
    <3>3. QED
      BY <2>2, <3>2 DEF Exclusive
  <2>3. CASE FiberStep(u) /\ ~InCall(u)
    <3>1. PICK fd \in Fds : /\ call'[u].fd = fd /\ (opens[fd] > 0 \/ fd \in open)
                            /\ call'[u].op = "connect" => Dirs[fd] = {WRITE}
      BY <1>0, <1>2, <2>3, FiberBegins
    <3>2. opens[fd] >= 1
      BY <1>0, <3>1 DEF Sockets, FdTypes
    <3>3. QED
      BY <2>1, <3>1, <3>2
  <2>4. QED
    BY <1>0, <1>2, <2>2, <2>3, CallGoesOn
<1>3. ASSUME NEW r \in Registrations' PROVE call'[Target(r[1], r[2])'].fd = r[1]
  <2>0. r[1] \in Fds /\ r[2] \in Events /\ r[2] \in events'[r[1]]
    BY <1>3 DEF Registrations
  <2>1. ASSUME r \in Registrations, Target(r[1], r[2])' = Target(r[1], r[2])
        PROVE  call'[Target(r[1], r[2])'].fd = r[1]
    <3>1. Target(r[1], r[2]) \in waiting'
      BY <1>0, <2>0, <2>1 DEF HookInv, Held, Holding
    <3>2. Target(r[1], r[2]) \in Waiters /\ pc'[Target(r[1], r[2])] = "wait"
      BY <1>0, <3>1 DEF HookInv, Held, TypeOK, Suspended
    <3>3. ASSUME NEW x \in Waiters, pc'[x] = "wait" PROVE call'[x] = call[x]
      <4>1. InCall(x)'
        BY <3>3 DEF InCall
      <4>2. ~(FiberStep(x) /\ ~InCall(x))
        BY <1>0, <3>3, <4>1, FiberBegins
      <4>3. QED
        BY <1>0, <4>1, <4>2, CallGoesOn
    <3>4. QED
      BY <2>1, <3>2, <3>3 DEF Exclusive
  <2>2. ASSUME UNCHANGED <<events, ctx>>
        PROVE  r \in Registrations /\ Target(r[1], r[2])' = Target(r[1], r[2])
    BY <2>2 DEF Registrations, Target
  <2>3. ASSUME NEW u \in Waiters, AddWait(u) PROVE call'[Target(r[1], r[2])'].fd = r[1]
    <3>1. /\ call[u].fd \in Fds /\ UNCHANGED call
          /\ AddEvent(call[u].fd, EventOf(call[u].fd), u, "fiber")
      BY <1>0, <2>3 DEF AddWait, Calling, InCall
    <3>2. EventOf(call[u].fd) \in Events
      BY <3>1, EventOfDir
    <3>3. /\ Registrations' = Registrations \cup {<<call[u].fd, EventOf(call[u].fd)>>}
          /\ Target(call[u].fd, EventOf(call[u].fd))' = u
          /\ \A q \in Registrations : Target(q[1], q[2])' = Target(q[1], q[2])
      BY <3>1, <3>2, HeldAdded, HookDisciplined DEF HookInv
    <3>4. CASE r \in Registrations
      BY <2>1, <3>3, <3>4
    <3>5. CASE r = <<call[u].fd, EventOf(call[u].fd)>>
      BY <3>1, <3>3, <3>5
    <3>6. QED
      BY <1>3, <3>3, <3>4, <3>5
  <2>4. ASSUME NEW fd \in Fds, NEW e \in events[fd], Registrations' = Registrations \ {<<fd, e>>},
               \A gd \in Fds : \A f \in Events : Target(gd, f)' = Target(gd, f)
        PROVE  r \in Registrations /\ Target(r[1], r[2])' = Target(r[1], r[2])
    BY <1>3, <2>0, <2>4
  <2>5. QED
    BY <2>1, <2>2, <2>3, <2>4, WaitMoves
<1>4. QED
  BY <1>1, <1>2, <1>3 DEF Exclusive

LEMMA QuietStep ==
    HookInv /\ Sockets /\ Quiet /\ [HookNext]_allVars => Quiet'
<1> SUFFICES ASSUME HookInv, Sockets, Quiet, [HookNext]_allVars, NoneReturned', NEW fd \in Fds,
                    opens'[fd] = 1, fd \in open', Dirs[fd] = {WRITE},
                    conn'[fd] \in {"idle", "pending"}
             PROVE  ready'[fd] = {} /\ \A w \in Workers : report'[w][fd] = {}
  BY DEF Quiet
<1>0. CallTypes /\ Calling /\ FdTypes /\ TypeOK /\ Listening
  BY TypeParts DEF HookInv, Held
<1>1. NoneReturned
  BY <1>0, ReturnedStays
<1>2. ready[fd] = {} /\ \A w \in Workers : report[w][fd] = {}
  <2>1. CASE fd \notin open /\ opens'[fd] = opens[fd] + 1
    <3>1. opens[fd] = 0
      BY <1>0, <2>1 DEF FdTypes
    <3>2. QED
      BY <2>1, <3>1 DEF Sockets
  <2>2. ASSUME fd \in open, opens[fd] = 1, conn[fd] \in {"idle", "pending"}
        PROVE  ready[fd] = {} /\ \A w \in Workers : report[w][fd] = {}
    BY <1>1, <2>2 DEF Quiet
  <2>3. ASSUME NEW u \in Waiters, ConnectEnd(u) PROVE FALSE
    <3>1. calls'[u] = calls[u] /\ pc'[u] = "out" /\ InCall(u)
      BY <1>0, <2>3 DEF ConnectEnd, Return, CallTypes, InCall
    <3>2. calls[u] >= 1
      BY <1>0, <3>1 DEF Calling
    <3>3. QED
      BY <3>1, <3>2 DEF NoneReturned
  <2>4. QED
    BY <1>0, <2>1, <2>2, <2>3, FdMoves
<1>3. IoMove(fd)
  BY IoMoves
<1>4. QED
  BY <1>2, <1>3 DEF IoMove

\* Until a call has returned, a fiber in connect is woken by the end of the connection,
\* by close() or by its own timer.
LEMMA WokenForReason ==
    ASSUME HookInv, Exclusive, CancelsOwn, Quiet, NoneReturned, [HookNext]_allVars,
           NEW u \in Waiters, InCall(u), call[u].op = "connect", NEW fd \in Fds, call[u].fd = fd,
           opens[fd] = 1, fd \in open, closing'[fd] = "no",
           pc[u] = "wait", wakes[u] = 0, wakes'[u] = 1
    PROVE  conn[fd] \in {"ok", "failed"} \/ cancelled[u]
<1>0. CallTypes /\ FdTypes /\ TypeOK /\ Dirs[fd] = {WRITE}
  BY TypeParts DEF HookInv, Held, Exclusive
<1>1. u \notin sleeping
  BY DEF HookInv, Suspended
<1>2. ASSUME NEW v \in Waiters, AddWait(v) PROVE FALSE
  <2>1. AddEvent(call[v].fd, EventOf(call[v].fd), v, "fiber")
    BY <1>2 DEF AddWait
  <2>2. wakes' = wakes
    BY <2>1 DEF AddEvent
  <2>3. QED
    BY <2>2
<1>3. PICK gd \in Fds : \E e \in events[gd] :
             /\ Cause(gd)
             /\ \A v \in Waiters : wakes'[v] = IF v = Target(gd, e) THEN 1 ELSE wakes[v]
  BY <1>1, <1>2, WaitMoves
<1>4. PICK e \in events[gd] :
             /\ Cause(gd)
             /\ \A v \in Waiters : wakes'[v] = IF v = Target(gd, e) THEN 1 ELSE wakes[v]
  BY <1>3
<1>5. Target(gd, e) = u
  BY <1>4
<1>6. <<gd, e>> \in Registrations
  BY <1>0 DEF Registrations, TypeOK
<1>7. call[Target(<<gd, e>>[1], <<gd, e>>[2])].fd = <<gd, e>>[1]
  BY <1>6 DEF Exclusive
<1>8. gd = fd
  BY <1>5, <1>7
<1>9. CASE \E w \in Workers : report[w][fd] # {}
  <2>1. conn[fd] \notin {"idle", "pending"}
    BY <1>0, <1>9 DEF Quiet
  <2>2. QED
    BY <1>0, <2>1 DEF FdTypes
<1>10. ASSUME NEW v \in Waiters, NEW n \in 1..MaxCalls, <<v, n, fd>> \in cancelling
       PROVE  cancelled[u]
  <2>1. /\ n <= calls[v]
        /\ n = calls[v] /\ pc[v] # "out" => InCall(v) /\ call[v].fd = fd /\ cancelled[v]
    BY <1>10 DEF CancelsOwn
  <2>2. calls[v] = 0 \/ (calls[v] = 1 /\ pc[v] # "out")
    BY DEF NoneReturned
  <2>3. n \in Nat /\ n >= 1
    BY HookAssumption
  <2>4. n = calls[v] /\ pc[v] # "out"
    BY <2>1, <2>2, <2>3
  <2>5. v = u
    BY <2>1, <2>4 DEF Exclusive
  <2>6. QED
    BY <2>1, <2>4, <2>5
<1>11. QED
  BY <1>4, <1>8, <1>9, <1>10 DEF Cause

LEMMA KnownStep == HookInv /\ ConnectInv /\ [HookNext]_allVars => Known'
<1> SUFFICES ASSUME HookInv, ConnectInv, [HookNext]_allVars, NoneReturned',
                    NEW u \in Waiters, InCall(u)', call'[u].op = "connect",
                    opens'[call'[u].fd] = 1, call'[u].fd \in open', closing'[call'[u].fd] = "no"
             PROVE  /\ pc'[u] \in {"woken", "check"} \/ (pc'[u] = "wait" /\ wakes'[u] = 1)
                         => conn'[call'[u].fd] \in {"ok", "failed"} \/ cancelled'[u]
                    /\ pc'[u] = "getsockopt" => conn'[call'[u].fd] \in {"ok", "failed"}
  BY DEF Known
<1>0. CallTypes /\ Calling /\ FdTypes /\ TypeOK
  BY TypeParts DEF HookInv
<1>1. NoneReturned
  BY <1>0, ReturnedStays
<1>2. CASE FiberStep(u) /\ ~InCall(u)
  <2>1. pc'[u] \in {"try", "arm"}
    BY <1>0, <1>2, FiberBegins
  <2>2. QED
    BY <2>1
<1>3. CASE InCall(u) /\ call'[u] = call[u] /\ (cancelled[u] => cancelled'[u])
  <2>0. PICK fd \in Fds : fd = call[u].fd
    BY <1>0, <1>3 DEF Calling
  <2>1. call[u].op = "connect" /\ opens'[fd] = 1 /\ fd \in open' /\ closing'[fd] = "no"
    BY <1>3, <2>0
  <2>2. ASSUME NEW v \in Waiters, ConnectEnd(v), call[v].fd = fd PROVE FALSE
    <3>1. InCall(v) /\ pc'[v] = "out"
      BY <1>0, <2>2 DEF ConnectEnd, Return, InCall, CallTypes
    <3>2. v = u
      BY <1>3, <2>0, <2>2, <3>1 DEF ConnectInv, Exclusive
    <3>3. QED
      BY <3>1, <3>2 DEF InCall
  <2>3. /\ fd \in open /\ opens[fd] = 1 /\ closing[fd] = "no"
        /\ conn[fd] \in {"ok", "failed"} => conn'[fd] \in {"ok", "failed"}
    <3>1. opens[fd] \in Nat /\ opens[fd] >= 1
      BY <1>0, <1>3, <2>0 DEF ConnectInv, Exclusive, FdTypes
    <3>2. CASE opens'[fd] = opens[fd] + 1
      BY <2>1, <3>1, <3>2
    <3>3. ASSUME /\ fd \in open' <=> fd \in open
                 /\ opens'[fd] = opens[fd]
                 /\ closing[fd] # "no" => closing'[fd] # "no"
                 /\ \/ conn'[fd] = conn[fd]
                    \/ conn[fd] = "pending"
                    \/ conn[fd] = "idle"
                    \/ \E v \in Waiters : ConnectEnd(v) /\ call[v].fd = fd
          PROVE  /\ fd \in open /\ opens[fd] = 1 /\ closing[fd] = "no"
                 /\ conn[fd] \in {"ok", "failed"} => conn'[fd] \in {"ok", "failed"}
      BY <2>1, <2>2, <3>3
    <3>4. QED
      BY <1>0, <2>1, <3>2, <3>3, FdMoves
  <2>4. /\ pc[u] \in {"woken", "check"} \/ (pc[u] = "wait" /\ wakes[u] = 1)
             => conn[fd] \in {"ok", "failed"} \/ cancelled[u]
        /\ pc[u] = "getsockopt" => conn[fd] \in {"ok", "failed"}
    BY <1>1, <1>3, <2>0, <2>1, <2>3 DEF ConnectInv, Known
  <2>5. wakes[u] \in {0, 1} /\ (pc[u] = "wait" /\ wakes[u] = 0 /\ wakes'[u] = 1
                                  => conn[fd] \in {"ok", "failed"} \/ cancelled[u])
    BY <1>1, <1>3, <2>0, <2>1, <2>3, WokenForReason DEF ConnectInv, HookInv, Suspended
  <2> DEFINE Answer == /\ pc'[u] \in {"woken", "check"} \/ (pc'[u] = "wait" /\ wakes'[u] = 1)
                            => conn[fd] \in {"ok", "failed"} \/ cancelled[u]
                       /\ pc'[u] = "getsockopt" => conn[fd] \in {"ok", "failed"}
  <2>6. ASSUME pc'[u] = pc[u] PROVE Answer
    BY <2>4, <2>5, <2>6
  <2>7. ASSUME FiberStep(u) PROVE Answer
    <3>1. CASE Wake(u)
      <4>1. pc[u] = "wait" /\ wakes[u] > 0 /\ pc'[u] = "woken"
        BY <1>0, <1>3, <3>1 DEF Wake, Resume, InCall, CallTypes
      <4>2. QED
        BY <2>4, <2>5, <4>1
    <3>2. CASE CancelTimer(u)
      BY <1>0, <2>4, <3>2 DEF CancelTimer, CallTypes
    <3>3. CASE Check(u)
      BY <1>0, <2>4, <3>3 DEF Check, Return, CallTypes
    <3>4. CASE AddFails(u)
      <4>1. interest[fd] = events[fd]
        BY <2>3 DEF ConnectInv, Sockets
      <4>2. QED
        BY <2>0, <2>3, <3>4, <4>1 DEF AddFails, Detached
    <3>5. CASE AddWait(u)
      <4>1. pc'[u] = "wait" /\ wakes'[u] = 0
        BY <1>0, <3>5 DEF AddWait, AddEvent, CallTypes
      <4>2. QED
        BY <4>1
    <3>6. CASE Try(u) \/ Arm(u) \/ ConnectEnd(u)
      <4>1. pc'[u] \in {"out", "arm", "add"}
        BY <1>0, <3>6 DEF Try, Arm, ConnectEnd, Return, CallTypes
      <4>2. QED
        BY <4>1
    <3>7. ~Sleep(u) /\ \A gd \in Fds : ~DoIo(u, gd) /\ ~Connect(u, gd)
      BY <1>3 DEF Sleep, DoIo, Connect, MayCall, InCall
    <3>8. QED
      BY <2>7, <3>1, <3>2, <3>3, <3>4, <3>5, <3>6, <3>7 DEF FiberStep
  <2>8. Answer
    <3>1. Same(u) => pc'[u] = pc[u]
      BY DEF Same
    <3>2. QED
      BY <1>0, <2>6, <2>7, <3>1, OneMoves
  <2>9. QED
    BY <1>3, <2>0, <2>3, <2>8
<1>4. QED
  BY <1>0, <1>2, <1>3, CallGoesOn

LEMMA ConnectInitInv == HookInit => ConnectInv
<1> SUFFICES ASSUME HookInit PROVE ConnectInv
  OBVIOUS
<1>1. Unanswered /\ CancelsOwn /\ Known
  BY DEF HookInit, Unanswered, CancelsOwn, Known, InCall
<1>2. Sockets
  BY DEF HookInit, Init, NoReport, Sockets
<1>3. Registrations = {}
  BY DEF HookInit, Init, Registrations
<1>4. Exclusive
  BY <1>3 DEF HookInit, Exclusive, InCall
<1>5. Quiet
  BY DEF HookInit, Quiet
<1>6. QED
  BY <1>1, <1>2, <1>4, <1>5 DEF ConnectInv

LEMMA ConnectNextInv == HookInv /\ ConnectInv /\ [HookNext]_allVars => ConnectInv'
<1> SUFFICES ASSUME HookInv, ConnectInv, [HookNext]_allVars PROVE ConnectInv'
  OBVIOUS
<1>1. CallTypes /\ Calling
  BY TypeParts DEF HookInv
<1>2. QED
  BY <1>1, UnansweredStep, SocketsStep, ExclusiveStep, CancelsOwnStep, QuietStep, KnownStep
     DEF ConnectInv

\* The inductive invariant of connect.
THEOREM ConnectInvariant == HookSpec => []ConnectInv
BY HookInvariant, ConnectInitInv, ConnectNextInv, PTL DEF HookSpec

\* A connect that waited and returns 0 is connected, as long as no call has returned, the
\* number was given out once and nobody closes it.
THEOREM ConnectTellsAlways == HookSpec => ConnectTells
<1> DEFINE Tells == \A u \in Waiters :
                      LET fd == call[u].fd
                      IN  /\ pc[u] = "getsockopt" /\ result'[u] = "ok"
                          /\ NoneReturned /\ opens[fd] = 1 /\ closing[fd] = "no"
                          => conn[fd] = "ok"
<1>1. HookInv /\ ConnectInv /\ [HookNext]_allVars => Tells
  <2> SUFFICES ASSUME HookInv, ConnectInv, [HookNext]_allVars, NEW u \in Waiters,
                      pc[u] = "getsockopt", result'[u] = "ok",
                      NoneReturned, opens[call[u].fd] = 1, closing[call[u].fd] = "no"
               PROVE  conn[call[u].fd] = "ok"
    OBVIOUS
  <2>0. CallTypes /\ Calling /\ InCall(u) /\ result[u] = "none" /\ call[u].op = "connect"
    BY TypeParts DEF HookInv, ConnectInv, Unanswered, InCall
  <2>1. FiberStep(u)
    BY <2>0, OneMoves DEF Same
  <2>2. ConnectEnd(u)
    BY <2>1 DEF FiberStep, DoIo, Connect, MayCall, Try, Arm, AddWait, AddFails, Wake, CancelTimer,
       Check, Sleep
  <2>3. call[u].fd \in open /\ conn[call[u].fd] # "failed"
    <3>1. result'[u] = IF call[u].fd \notin open \/ conn[call[u].fd] = "failed" THEN "error" ELSE "ok"
      BY <2>0, <2>2 DEF ConnectEnd, Return, CallTypes
    <3>2. QED
      BY <3>1
  <2>4. conn[call[u].fd] \in {"ok", "failed"}
    BY <2>0, <2>3 DEF ConnectInv, Known
  <2>5. QED
    BY <2>3, <2>4
<1>2. QED
  BY <1>1, HookInvariant, ConnectInvariant, PTL DEF HookSpec, ConnectTells

=============================================================================
