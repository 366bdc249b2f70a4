------------------------------ MODULE TcpServer ------------------------------
(***************************************************************************)
(* TcpServer (src/src/tcp_server.cc) on the threads of m_acceptWorker: one *)
(* fiber per listening socket and start() loops over Socket::accept, and   *)
(* stop() has a task cancel and close the sockets.  accept and close are   *)
(* the hooked calls (src/src/hook.cc): accept waits for a READ event, and  *)
(* close cancels what waits before it closes.                              *)
(*                                                                         *)
(* The worker's tasks are taken in the order of the list; a thread keeps a *)
(* task until it waits or ends.  m_socks has no lock: start() finds it     *)
(* before or after the task of stop() clears it, and stop() is called      *)
(* again only when the last one's task is over.  The number of a closed    *)
(* descriptor is not given out again here.                                 *)
(***************************************************************************)
EXTENDS Naturals, SequencesExt

CONSTANTS Socks, Clients, Threads,
          MaxStarts, MaxStops   \* bounds: calls of start() and of stop()

ASSUME TcpAssumption == MaxStarts \in Nat /\ MaxStops \in Nat

VARIABLES
    m_isStop,
    m_socks,     \* the listening sockets of the server, in order
    open,        \* the sockets whose descriptor is open
    starts,      \* calls of start() that scheduled
    stops,       \* calls of stop()
    queue,       \* m_acceptWorker's tasks, in order
    on,          \* thread -> the task it runs
    at,          \* task -> where it is
    waiter,      \* socket -> the fiber of its READ event
    lost,        \* history: the fibers that went to wait too late to be cancelled, and
                 \* those whose event another fiber took
    client       \* client -> "out", the socket it waits at, "accepted" or "refused"

uvars == <<starts, stops>>
tvars == <<m_isStop, m_socks, open, uvars, queue, on, at, waiter, lost, client>>

None == <<>>
AcceptTasks == {<<"accept", s, n>> : s \in Socks, n \in 1 .. MaxStarts}
StopTasks == {<<"stop", n>> : n \in 1 .. MaxStops}
Tasks == AcceptTasks \cup StopTasks

TcpInit ==
    /\ m_isStop = TRUE
    /\ m_socks = <<>> /\ open = {}
    /\ starts = 0 /\ stops = 0
    /\ queue = <<>>
    /\ on = [t \in Threads |-> None]
    /\ at = [k \in Tasks |-> "none"]
    /\ waiter = [s \in Socks |-> None] /\ lost = {}
    /\ client = [c \in Clients |-> "out"]

Waiting(s) == {c \in Clients : client[c] = s}
Refused(S) == [c \in Clients |-> IF client[c] \in S THEN "refused" ELSE client[c]]

-----------------------------------------------------------------------------
(* Callers                                                                 *)

\* Nothing of an earlier start() is left.
Quiet == m_isStop /\ \A k \in Tasks : at[k] \in {"none", "ended"}

\* bind, of one address at a time; callers do so before they start.
bind(s) ==
    /\ Quiet /\ s \notin open
    /\ m_socks' = Append(m_socks, s)
    /\ open' = open \cup {s}
    /\ UNCHANGED <<m_isStop, uvars, queue, on, at, waiter, lost, client>>

\* An address that cannot be bound: m_socks is cleared, and ~Socket closes the others.
bindFails ==
    /\ Quiet /\ m_socks # <<>>
    /\ m_socks' = <<>>
    /\ open' = open \ ToSet(m_socks)
    /\ client' = Refused(ToSet(m_socks))
    /\ UNCHANGED <<m_isStop, uvars, queue, on, at, waiter, lost>>

start ==
    /\ starts < MaxStarts
    /\ m_isStop
    /\ m_isStop' = FALSE
    /\ starts' = starts + 1
    /\ LET new == [i \in DOMAIN m_socks |-> <<"accept", m_socks[i], starts'>>]
       IN  /\ queue' = queue \o new
           /\ at' = [k \in Tasks |-> IF Contains(new, k) THEN "test" ELSE at[k]]
    /\ UNCHANGED <<m_socks, open, stops, on, waiter, lost, client>>

stop ==
    /\ stops < MaxStops /\ \A k \in StopTasks : at[k] \in {"none", "ended"}
    /\ m_isStop' = TRUE
    /\ stops' = stops + 1
    /\ queue' = Append(queue, <<"stop", stops'>>)
    /\ at' = [at EXCEPT ![<<"stop", stops'>>] = "cancel"]
    /\ UNCHANGED <<m_socks, open, starts, on, waiter, lost, client>>

\* A client connects to a listening socket.
Arrive(c) ==
    /\ client[c] = "out"
    /\ \E s \in open : client' = [client EXCEPT ![c] = s]
    /\ UNCHANGED <<m_isStop, m_socks, open, uvars, queue, on, at, waiter, lost>>

-----------------------------------------------------------------------------
(* The threads of m_acceptWorker                                           *)

Take(t) ==
    /\ on[t] = None /\ queue # <<>>
    /\ on' = [on EXCEPT ![t] = Head(queue)]
    /\ queue' = Tail(queue)
    /\ UNCHANGED <<m_isStop, m_socks, open, uvars, at, waiter, lost, client>>

\* Thread t's task goes on at loc; one that waits or has ended leaves the thread.
Goto(t, loc) ==
    /\ at' = [at EXCEPT ![on[t]] = loc]
    /\ on' = IF loc \in {"wait", "ended"} THEN [on EXCEPT ![t] = None] ELSE on

\* startAccept: while (!m_isStop)
Test(t) ==
    /\ on[t] \in AcceptTasks /\ at[on[t]] = "test"
    /\ Goto(t, IF m_isStop THEN "ended" ELSE "accept")
    /\ UNCHANGED <<m_isStop, m_socks, open, uvars, queue, waiter, lost, client>>

\* Where the loop of stop()'s task over m_socks is: the sockets it has still to close,
\* and the first of them.
Left == {i \in DOMAIN m_socks : m_socks[i] \in open}
Current == m_socks[CHOOSE i \in Left : \A j \in Left : i <= j]

\* The hooked close() of s has cancelled what waited, and has not closed it yet.
Closing(s) == Left # {} /\ s = Current /\ \E k \in StopTasks : at[k] = "close"

\* Mutant of Accept: a failed accept is retried at once.
AcceptRetries(t) ==
    LET s == on[t][2] IN
    /\ on[t] \in AcceptTasks /\ at[on[t]] = "accept"
    /\ \/ /\ s \in open
          /\ \E c \in Waiting(s) : client' = [client EXCEPT ![c] = "accepted"]
          /\ Goto(t, "test")
       \/ s \in open /\ Waiting(s) = {} /\ Goto(t, "arm") /\ UNCHANGED client
       \/ s \notin open /\ UNCHANGED <<at, on, client>>
    /\ UNCHANGED <<m_isStop, m_socks, open, uvars, queue, waiter, lost>>

\* Socket::accept.  Of a client, setRecvTimeout and the task for m_ioWorker.  With none,
\* the hooked call is to wait.  A closed descriptor, also m_sock = -1, is an error, and
\* so is one that close() has deleted from FdMgr: accept_f does not block.  The loop
\* goes on after an error.
Accept(t) ==
    LET s == on[t][2] IN
    /\ on[t] \in AcceptTasks /\ at[on[t]] = "accept"
    /\ \/ /\ s \in open
          /\ \E c \in Waiting(s) : client' = [client EXCEPT ![c] = "accepted"]
          /\ Goto(t, "test")
       \/ s \in open /\ Waiting(s) = {} /\ Goto(t, "arm") /\ UNCHANGED client
       \/ /\ s \notin open \/ (Closing(s) /\ Waiting(s) = {})
          /\ Goto(t, "test") /\ UNCHANGED client
    /\ UNCHANGED <<m_isStop, m_socks, open, uvars, queue, waiter, lost>>

\* addEvent and the fiber's swapOut.  On a closed descriptor addEvent fails; it replaces
\* a fiber that waits there already, and takes one that comes after the last cancelAll.
Arm(t) ==
    LET s == on[t][2] IN
    /\ on[t] \in AcceptTasks /\ at[on[t]] = "arm"
    /\ \/ /\ s \in open
          /\ waiter' = [waiter EXCEPT ![s] = on[t]]
          /\ lost' = (lost \ {on[t]}) \cup ({waiter[s]} \ {None})
                     \cup (IF Closing(s) THEN {on[t]} ELSE {})
          /\ Goto(t, "wait")
       \/ s \notin open /\ Goto(t, "test") /\ UNCHANGED <<waiter, lost>>
    /\ UNCHANGED <<m_isStop, m_socks, open, uvars, queue, client>>

\* The READ event of socket s is triggered: its fiber is scheduled, to try accept_f again.
Trigger(s) ==
    /\ waiter' = [waiter EXCEPT ![s] = None]
    /\ queue' = IF waiter[s] = None THEN queue ELSE Append(queue, waiter[s])
Woken(s) == IF waiter[s] = None THEN at ELSE [at EXCEPT ![waiter[s]] = "accept"]

\* IOManager::idle, on epoll's report of a connection.
Readable(s) ==
    /\ waiter[s] # None /\ s \in open /\ Waiting(s) # {}
    /\ Trigger(s)
    /\ at' = Woken(s)
    /\ UNCHANGED <<m_isStop, m_socks, open, uvars, on, lost, client>>

\* Mutant of Cancel: nothing is cancelled.
CancelNothing(t) ==
    /\ on[t] \in StopTasks /\ at[on[t]] \in {"cancel", "cancel again"} /\ Left # {}
    /\ at' = [at EXCEPT ![on[t]] = IF @ = "cancel" THEN "cancel again" ELSE "close"]
    /\ UNCHANGED <<m_isStop, m_socks, open, uvars, queue, on, waiter, lost, client>>

\* sock->cancelAll(), and the cancelAll in the hooked close ...
Cancel(t) ==
    /\ on[t] \in StopTasks /\ at[on[t]] \in {"cancel", "cancel again"} /\ Left # {}
    /\ Trigger(Current)
    /\ at' = [Woken(Current) EXCEPT ![on[t]] = IF @ = "cancel" THEN "cancel again" ELSE "close"]
    /\ UNCHANGED <<m_isStop, m_socks, open, uvars, on, lost, client>>

\* ... which then closes the descriptor: the kernel forgets what it was to report.
Close(t) ==
    /\ on[t] \in StopTasks /\ at[on[t]] = "close" /\ Left # {}
    /\ open' = open \ {Current}
    /\ client' = Refused({Current})
    /\ Goto(t, "cancel")
    /\ UNCHANGED <<m_isStop, m_socks, uvars, queue, waiter, lost>>

\* All are closed: m_socks.clear().
Cleared(t) ==
    /\ on[t] \in StopTasks /\ at[on[t]] = "cancel" /\ Left = {}
    /\ m_socks' = <<>>
    /\ Goto(t, "ended")
    /\ UNCHANGED <<m_isStop, open, uvars, queue, waiter, lost, client>>

-----------------------------------------------------------------------------
Worker(t) == Take(t) \/ Test(t) \/ Accept(t) \/ Arm(t) \/ Cancel(t) \/ Close(t) \/ Cleared(t)

TcpNext ==
    \/ \E s \in Socks : bind(s) \/ Readable(s)
    \/ bindFails \/ start \/ stop
    \/ \E c \in Clients : Arrive(c)
    \/ \E t \in Threads : Worker(t)

TcpSpec == TcpInit /\ [][TcpNext]_tvars

\* The threads of the worker run, and epoll reports.
TcpFairness ==
    /\ \A t \in Threads : WF_tvars(Worker(t))
    /\ \A s \in Socks : WF_tvars(Readable(s))

TcpFairSpec == TcpSpec /\ TcpFairness

-----------------------------------------------------------------------------
TcpTypeOK ==
    /\ m_isStop \in BOOLEAN
    /\ m_socks \in Seq(Socks) /\ open \subseteq Socks
    /\ starts \in 0 .. MaxStarts /\ stops \in 0 .. MaxStops
    /\ queue \in Seq(Tasks)
    /\ on \in [Threads -> Tasks \cup {None}]
    /\ at \in [Tasks -> {"none", "test", "accept", "arm", "wait", "cancel", "cancel again",
                         "close", "ended"}]
    /\ waiter \in [Socks -> AcceptTasks \cup {None}] /\ lost \subseteq AcceptTasks
    /\ client \in [Clients -> Socks \cup {"out", "accepted", "refused"}]

\* An accept fiber waits where its event is registered and the descriptor is open,
\* whatever stop(), start() and close() do on other threads between its steps.  It is
\* left to wait for nothing in two ways only: it registered between the last cancelAll of
\* a close() and the close_f, or another fiber of the socket replaced it.
NoOrphan ==
    \A k \in AcceptTasks :
        at[k] = "wait" => (k[2] \in open /\ waiter[k[2]] = k) \/ k \in lost

\* stop() closes what is open of the server, also when start() is called before its task
\* runs; and of a server that stays stopped the fibers that accept end, also those that
\* start() scheduled between stop() and its task, or are lost.  (A start() in between
\* that is not followed by a stop() leaves a fiber that spins on a closed socket.)
StopEnds ==
    /\ \A s \in Socks :
        (s \in open /\ \E k \in StopTasks : at[k] \notin {"none", "ended"}) ~> s \notin open
    /\ <>[]m_isStop => <>[](\A k \in AcceptTasks :
                                at[k] \in {"none", "ended"} \/ (at[k] = "wait" /\ k \in lost))

=============================================================================
