# TLA+ models of muqiu0614

muqiu0614 is a C++ coroutine network framework: fibers on `ucontext`, an N:M
scheduler, timers, an epoll reactor, hooked blocking system calls, and a TCP/HTTP
stack above them, with a configurable log beside it. TLC checks these models on
small instances, and TLAPS proves the invariants of eight of them, and that two of
them implement an abstract specification, for all instances.

Run from this directory, for example:

    tlc -workers 2 -config MCScheduler.cfg MCScheduler
    tlapm SchedulerProofs.tla

## The system

| Part | State | Operations | Interacts with |
|---|---|---|---|
| `Fiber` | `m_state`, context, stack | construct, `reset`, `swapIn`, `swapOut`, `mainFunc` | run by `Scheduler::run`; captured by events and timers |
| `Scheduler` | task list `m_fibers`, `m_stopping`, `m_autoStop`, `m_activeThreadCount`, `m_idleThreadCount`, threads | `start`, `stop`, `schedule`, `run`, `stopping`, `idle`, `tickle` | every other part schedules tasks on it |
| `TimerManager` | ordered set `m_timers`, `m_tickled`, `m_previousTime` | `addTimer`, `cancel`, `refresh`, `reset`, `getNextTimer`, `listExpiredCb` | base of `IOManager`; used by hooked calls for timeouts |
| `IOManager` | `FdContext` table, `m_pendingEventCount`, epoll, eventfd | `addEvent`, `delEvent`, `cancelEvent`, `cancelAll`, `idle`, `tickle`, `stopping` | is a `Scheduler` and a `TimerManager` |
| hook | per-thread switch, `timer_info` | `do_io` family, `sleep`, `connect`, `close`, `fcntl`, ... | `IOManager`, `TimerManager`, `FdManager` |
| `FdManager` | table of `FdCtx` | `get`, `del`, timeouts | hook |
| `TcpServer`, `Socket` | listening sockets, `m_isStop` | `bind`, `start`, `startAccept`, `stop` | hook, `IOManager` |
| HTTP | session buffer, parser, headers | `recvRequest`, dispatch, `sendResponse` | `Socket`, `Stream` |
| `ByteArray` | chained blocks, cursor | read, write, positions, typed items | `SocketStream` |
| `Log`, `Config` | loggers, appenders, variables, listeners | load, reconfigure | everywhere |

What is hard in it:

* a fiber that waits hands itself to a waker and only then swaps out, so it can be
  scheduled while it is still running; `run()` looks at `m_state`, which other
  threads write outside `m_mutex`;
* `stop()` relies on counters that threads change outside the lock;
* `listExpiredCb` and `idle()` work with times and epoll reports that are older
  than the state they are applied to;
* times are unsigned and become `int` on the way to `epoll_wait`;
* epoll is edge-triggered: a report is given once;
* a wake-up of an idle worker is sent only where somebody seems to need it;
* a server is stopped by a task that runs between the turns of the accept fibers, or
  beside them on another thread;
* requests come in any segments, and what is read beyond one is in a local buffer;
* `ByteArray` keeps `m_cur`, `m_position`, `m_size` and `m_capacity`, which each
  operation moves in its own way.

What makes each part correct:

* Scheduler: a fiber runs on one thread at a time; a suspended fiber has exactly
  one wake-up outstanding; the active count is exact; `stop()` drains and returns.
* TimerManager: a timer has a callback exactly while it is in the set; a one-shot
  timer runs at most once, never after `cancel()` returned true, never early.
* IOManager: a new first timer, and a new task, wakes a worker; the last worker
  leaves nothing behind; epoll's interest list and `FdContext` agree; the event
  count is exact; a waiter is scheduled exactly once; no edge is lost.
* Hooked calls: event, timeout, `close()` and sleep timer together wake a fiber
  once; a timeout is the call's own; the original call never blocks the thread; a
  `connect` that returns 0 is connected.
* TcpServer: an accept fiber does not wait on a socket that was closed; `stop()`
  closes the sockets and ends the fibers.
* HTTP session: what is handled are the client's requests, in order and whole; every
  session ends.
* ByteArray: it is a sequence of bytes with a position; what is written is read back.

## Modules

| Module | Models | State |
|---|---|---|
| `Scheduler` | `Scheduler.cc`, `scheduler.h`, `Fiber.cc` | task list, flags, count, state of each `Fiber`, and per thread its place in `run()` with the locals `ft.fiber`, `cb_fiber`, `idle_fiber` |
| `SchedulerProps`, `SchedulerProofs` | its properties and inductive invariant, and their proofs | history `early` |
| `TimerManager` | `timer.cc` | the clock, the set, the fields of each `Timer`, `listExpiredCb`'s local `now_ms`; history variables `taken`, `cancelled`, `outdated`, `steady` |
| `TimerManagerProofs` | proofs about it | |
| `IoTimers` | extends `TimerManager` with the timing half of `IOManager`: `idle`, `tickle`, `stopping`, and what `run()` and `stop()` do to the idle workers | where each thread is, its `epoll_wait` timeout, the eventfd's edge, the number of tasks, who is idle, whose idle fiber has ended (`over`); history `overlooked` |
| `IoTimersProofs` | proofs about it | |
| `Waker` | abstract: what whoever suspends a fiber promises the scheduler | per waiter: idle, held, woken |
| `IOManager` | the event half of `IoManager.cc` | `FdContext` per descriptor, epoll's interest and ready lists, the report each worker holds, who waits and who is scheduled |
| `IOManagerProofs` | proofs about it, and that it implements `Waker` | |
| `HookIO` | extends `IOManager` with `hook.cc` and `fdmanager.cc` | `FdManager`'s table, per fiber its place in the hooked call with `tinfo` and its timer, the callbacks handed out, where a `close()` is; the kernel's side of a socket |
| `HookIOProofs` | proofs about it | |
| `TcpServer` | `tcp_server.cc` on the threads of `m_acceptWorker`, with the accept and close of hooked sockets | the server's sockets, the tasks and where each is, who waits for a READ event; history `lost` |
| `TcpServerProofs` | proofs about it | |
| `HttpServer` | extends `TcpServer` with `http_server.cc`, `http_session.cc`, `stream.cc` and the callbacks of `http_parser.cc` | per client its place in `handleClient`, what was sent and read, parser, request; histories `handled`, `answered`, `cut`, `astray`, `ahead` |
| `HttpServerProofs` | proofs about it, and that it is a `TcpServer` | |
| `HeaderMap` | `std::map` with `CaseInsensitiveLess`, `http.cc` | the tree of headers |
| `ByteStream` | abstract: a sequence of bytes with a position | data, position, what the last operation returned |
| `ByteArray` | `bytearray.cc`, and `socket_stream.cc`'s use of it | blocks, `m_cur`, `m_position`, `m_size`, `m_capacity`, what the last operation returned; history `mark` |
| `ByteArrayProofs` | proofs about it, and that it implements `ByteStream` | |
| `LogConfig` | `ConfigVar::setValue`, `LogIniter`, `LoggerManager` | the loggers and who has them, the definitions, where the load is |
| `MC*` | instances for TLC | |

One action stands for one critical section or one unlocked store, so two threads
interleave wherever the code lets them. In `Scheduler` the parts of `run()` are
`Take`/`TakeNone` (the locked loop), `SwapIn`/`SwapInCb`/`Discard` (lines 114, 125,
145), `Back` (`--m_activeThreadCount`), `SettleFiber`/`SettleCb` (lines 118-124 and
134-144), `Idle` and `Exit`. What a task does is left open: it may schedule
callbacks, register with a waker (`Arm`), swap out, yield, return or throw.
`Fire` is the waker: a timer callback, or `triggerEvent`. That a waker fires at
most once per registration is what `CancelIsFinal` shows of timers, and
`ImplementsWaker` of events: in `Waker` one who waits is held, then woken once or
withdrawn, then runs.

`IoTimers` counts tasks instead of naming them: `Schedule` and `Tickle` are the two
halves of `schedule()` (the list under its lock, then the eventfd if a thread is
idle), `EnterIdle` the way from an empty list to `++m_idleThreadCount`, `NoTimers`,
`LeaveIdle` and `WaitLong` the three looks of `stopping()`. A worker whose `idle()` has
returned is `over`: it goes round `run()` again, takes the tasks that are listed by
then, and ends when it finds none (Scheduler.cc:150-153).

`HookIO` drives `IOManager`'s actions from the hooked calls: `DoIo`, `Try`, `Arm`,
`AddWait`/`AddFails`, `Wake`, `CancelTimer`, `Check` are the steps of `do_io`;
`connect` shares them from `Arm` on and ends in `ConnectEnd`. `Expire` is
`listExpiredCb` handing out the callback, with what `TimerManager` promises: once,
and not after `cancel()` removed it. `TimerCb` and `TimerCancels` are the two halves
of the callback; a callback carries the number of its call, so that one left behind
by an earlier call is told from the current one. `close()` is `CloseGet`,
`CloseCancelAll`, `CloseDel`, `CloseEnd`. The kernel drops a closed descriptor from
epoll while `FdContext` keeps its events (`Detached`); from then on `epoll_ctl`
fails, which is the failure path of `addEvent`, `cancelAll` and `idle()`.

`TcpServer`'s tasks are the accept fibers, one per `start()` and socket, and the
tasks `stop()` schedules; each thread works on one until it waits or ends
(`Take`, `Test`, `Accept`, `Arm`, `Woken`; `Cancel`, `Close`, `Cleared`), and any number
of threads do so at once. `Accept` looks at the connections and `Arm` registers in two
steps, as the hooked `accept` does, and `close()` is two steps as well, so that a fiber
can register between its `cancelAll` and `close_f`; such a fiber, and one whose event
another fiber of the socket takes, is `lost`. Callers do what the repository's own
programs do: `bind` comes before `start()`, and a `stop()` after the last one's task;
`m_socks` has no lock, and `start()` finds it before or after that task clears it. In
`HttpServer` a client's requests are units: two for each token of a head (method,
path, headers, end) and then those of the body, delivered in any segments.
`ReadHead` is one turn of `recvRequest`'s loop, in the request `i` that the next unit
is of, `ReadBody` one read of `readFixSize`, `ReadEnds` a read that returns -1 or 0.
A parser that begins in the middle of a request is `astray`, and what it makes of the
units is open (`ReadAstray`): an error, part of a head, or a whole request with any
length of body up to the bound `StrayLeft`. `Handle` is the dispatch and `sendResponse`,
which returns (`Answer`) or waits for the socket to be writable, for as long as the client
does not read (`blocked`, `Drain`): tcp_server.cc:84 sets the timeout of `recv` only. A
session that waits leaves its thread to the others; one that spins in `readFixSize` keeps
it (`IoFree`, of `IoThreads` threads).
A call of the ragel parser forgets where a token began, so a token that ends in a
later call is `cut`; that the parser's map finds only the first header is what
`HeaderMap` shows of the comparison.

`ByteArray`'s copying loops are written in closed form (byte `i` of a copy that
starts at offset `npos` of block `cur` is in block `cur + (npos + i) / base`).
Uninitialized bytes are `Junk`, a dereferenced null block is recorded in `fault`.
A typed read (`ReadItem`) is performed: it moves, returns its `value`, throws or
faults. `Recv` allocates before it receives, and receives nothing (`rt <= 0`) too. The
mapping to `ByteStream` flattens the blocks. Bytes have two halves, so that one
digit of a varint and its continuation bit are there.

`LogConfig`'s load is one thread: `Load`, `SetValue`, `Hear` for each definition,
`SetPattern` and `SetFormatter` with the logger's mutex, `Store`, `GetLogger`.

Abstractions. `run()` tests the state of the settled fiber and stores HOLD in one
action: between the two nobody else may change it, because every other thread skips
a RUNING fiber. A timer's constructor reads the clock just before `addTimer` takes
the lock; the model does both at once. `epoll_ctl` does not fail in `IOManager`
itself. In `HookIO` descriptors are sockets, a timeout is set or not (when a timer
expires is left open) and a descriptor is used by one fiber at a time. Log output is
left out. The thread that waits for `m_mutex` in `listExpiredCb` does so for at most
`Hour`; without that bound an old `now_ms` would itself look like a rollover.

Words beginning with "Mutant of" in a comment mark definitions that change one
mapped definition the way a plausible bug would; each property is shown to fail
with one of them, which shows that it depends on the code it is about.

## Runs

| Run | Checks | Result |
|---|---|---|
| `scheduler` | `TypeOK`, `OneRunner`, `NoLostWakeup`, `ActiveCount`, `SchedInv`; `StopDrains`, `StopReturns`, `WokenRuns` under fair threads, with pinned tasks and tasks that yield | hold |
| `timer` | `TypeOK`, `CbInSet`, `CancelIsFinal`, `NeverEarly` | hold |
| `io_timers` | `IoTypeOK`, `FirstTimerWakes`, `TaskWakes`, `LastOut` | hold |
| `io_timers_due` | `DueTimerWakes`: while a timer is due not every worker blocks for ever | fails |
| `io_events` | `TypeOK`, `NoNullScheduler`, `PendingCount`, `InterestMatches`, `RunOnce`, `NoLostEvent`; `ImplementsWaker`; `EventRuns` under fair workers | hold |
| `io_events_both_ways` | `NoNullScheduler` with reads and writes on one descriptor | fails |
| `hook_io` | `HookTypeOK`, `OneWakeUp`, `TimeoutIsOwn`, `TimeoutStays`, `HookedNonblock`, `ConnectTells` | hold |
| `tcp_server` | `NoOrphan`; `StopEnds` under fair threads | hold |
| `http_server` | `HttpTypeOK`, `InStep`, `Genuine`; `SessionEnds` under fair threads | hold |
| `http_headers` | `HeaderFound`: a header that was set is found | fails |
| `byte_array` | `TypeOK`, `Cursor`, `ReadsBack`; `ImplementsStream` | hold |
| `log_config` | `Configured`: a load returns and the program's loggers have what it says | fails |

What the failing runs show is in `PROJECT.json` under `findings`.

Some properties leave out by name what the code gets wrong, so that they say what
holds beside it:

* `StopDrains` and `StopReturns` leave out a `Stranded` task. Between
  `--m_activeThreadCount` and `schedule()` (Scheduler.cc:117-119) a fiber that yields is
  neither counted nor listed; a thread that looks in that window ends (`early`), and what
  the fiber then schedules for that thread stays on the list, so that `stop()` never
  returns. Nobody in the repository yields during `stop()`.
* `TaskWakes` allows the window in which `tickle()` found no idle thread: the task
  then waits for `epoll_wait`'s timeout. `FirstTimerWakes` and `LastOut` leave out an
  inexact `getNextTimer` (`io_timers_due`); `LastOut` a timer that is
  armed when every worker has looked at the timers for the last time (`overlooked`): from
  outside, or by a task that a worker takes on its last round through `run()`.
* `HookedNonblock` leaves out a descriptor that `ioctl(FIONBIO)` with 0 made blocking
  (hook.cc:479), or that was opened again after a `close()` past the hook left its
  `FdCtx` behind (`foreign`).
* `TimeoutStays` counts a timeout that came before the event was registered as
  reported: the fiber then still waits for its event, without a limit.
* `ConnectTells` is about a fresh number while no call has returned yet. A report left over from
  an earlier call or socket, or a `close()` under way, wakes `connect` while it is
  pending, and `SO_ERROR` is then 0.
* `InStep` and `Genuine` leave out clients a token of which was cut: for them the
  parser loses headers, or reports half a path. `InStep` leaves out clients that send
  the next request before the answer: what was read beyond a body is discarded.
  `Genuine` leaves out those of whom a parser then began inside a request (`astray`): of
  bytes in the middle of a body the code may make a request the client never meant.
  That a client which waits for the answers never gets there is part of `InStep`.
* `SessionEnds` leaves out a session that spins because `readFixSize` into a buffer goes
  on at the end of the stream, where `read()` returns 0 for ever (stream.cc:8); the
  others while such sessions hold every thread of `m_ioWorker`; and a session whose
  client never reads its answer.
* `NoOrphan` leaves out the fibers that are `lost`; `StopEnds` too, and the fibers of a
  server that was started again before the task of `stop()` had run and is not stopped
  afterwards: these loop on a closed socket. The sockets are closed all the same.
* `Cursor` leaves out a `writeToFile` from inside a block and a read of no bytes at
  the end of the capacity, which dereference a null block (`fault`); `ReadsBack` the same
  read, as of an empty string written at the end of the capacity, and of a string too
  long for the `uint16_t` of its length the rest (`Kept`).

Six hazards no property covers, because the code does meet them or the model leaves them
out: a context whose waits are of both kinds (IoManager.cc:102), a tickle that finds
nobody idle (`dropped`), the growth of the descriptor table, a timeout before
`addEvent`, a token cut between two segments, and `setFormatter`'s mutex, which the load
of `log_config` does not get past. `PROJECT.json` lists them at their lines.

Bounds. Two threads are enough for every race here, each being between a thread and
one other; three fibers let two wait while a third runs, and three callbacks let a
task outlive the one that scheduled it. In `scheduler` there are as many
fibers as callbacks, else a callback would wait for a bound of the model.
Timers: two, so that one is in front of the other; the clock runs over four values,
a `uint64_t` has eight (`timer`) or thirty-two (`io_timers`), and an `int` eight, so
that each wraps within the run; `Hour` is scaled to one or two ticks, and the clock
can be set back by more. Events: two descriptors, two waiters, two workers with a
stale report each. Hooked calls: one socket that is opened twice, so that its number
is given out again, one fiber with two calls, so that callbacks of the first run
during the second, and two workers. `tcp_server`: two threads, so that one accepts
while the other runs `stop()`'s task; two sockets, so that that task has one to go; two
starts and two stops, so that a start falls between a stop and its task and is
followed by a stop. `http_server`: one client sends a request with headers and a body,
for which it keeps the connection, and two without headers, so that what follows a body may be
discarded in part, and a parser begin inside a request; the other sends nothing, so that
a session that has to wait shares the only thread of `m_ioWorker` (`IoThreads`) with one
that may spin; the requests come in all segmentations. The body of a request that is
none wants at most one unit (`StrayLeft`): with none it is handled at once, with one it
waits. `ByteArray`: blocks of two bytes and five
bytes of data, so that copies straddle two block ends and end at the capacity;
five-bit integers in groups of two bits fill a varint's last group in part, as 32
bits in sevens do; an empty string, and one longer than the scaled `uint16_t` counts (`FUINT`),
are among the items. `LogConfig`: two loads of files with and without a pattern, one
logger the program keeps.

Fairness. Threads are scheduled by the OS (weak fairness of `Run`), a task that
runs leaves the processor (`TaskCode`), a fiber resumed again and again finishes
(strong fairness of its `Finish`), and a call of `stop()` runs on. Wakers need not
fire, callers need not call. Workers come back to `epoll_wait` and process what it
gave them (`io_events`, `http_server`); the thread that loads a configuration runs on
(`log_config`); a session that may run does, and where it waits in
`recv` the timer expires (`http_server`), because `startAccept` sets one on every client;
no client has to read what is sent to it, to send or to go. The accept threads run and
epoll reports (`tcp_server`). `CHECK_DEADLOCK FALSE` stands where the system may stop:
in the scheduler's runs with the pool of fibers used up a callback cannot start; in
`io_timers` all threads have left; in `hook_io`, `byte_array`, `tcp_server` and `http_server`
nothing is left to do once the bounds are used up; in the failing runs the property
says it all.

## Proofs

`SchedulerProofs` proves for any threads, fibers and number of callbacks that
`Spec => []SchedInv`, and from it `TypeOK`, `OneRunner`, `NoLostWakeup` and
`ActiveCount`. `OneRunner` is not inductive: a state where a fiber that somebody
runs is also HOLD on the list satisfies it and leads to two runners. `SchedInv` says
what rules this out: `Tokens` (fibers a waker holds or the list contains) each exist
once (`TokensUnique`), `ThreadInv` says for each place in `run()` which state and
token the fiber at hand has, and `FiberInv` says for each state who may refer to the
fiber. Each action has a lemma; each lemma follows the conjuncts.

`TimerManagerProofs` proves `TypeOK`, `CbInSet` and `CancelIsFinal` for all clocks,
and `NeverEarly` from `ClockInv`: while the clock was not set back, `m_previousTime`
and each `now_ms` are not ahead of it and at most `Hour` behind, so
`detectColckRollover` never answers true.

`IOManagerProofs` proves the six invariants of `io_events`, and `Spec =>
ImplementsWaker`, for any descriptors, waiters and workers, under `Disciplined`: each
descriptor is used in one direction, with fibers only or with callbacks only, and two
waiters never wait for one event. `io_events_both_ways` shows what happens without
the first. `RunOnce` counts, and its counts are not inductive; `EventInv` says where
they come from: who is registered waits and is not scheduled (`Holding`), nobody is
registered twice (`Alone`), who waits and is not scheduled is registered (`Woken`),
the scheduler pointer is set exactly while the event is waited for (`Contexts`), and
a report names only what its descriptor is used for (`Directed`), so that what
`idle()` triggers is the one event waited for (`RealSingle`). `cancelEvent`,
`cancelAll` and `idle()` share one lemma (`Triggered`). For the refinement each
action is shown to move the waiters it touches from one of `Waker`'s states to
another, and no others (`Moves`).

`IoTimersProofs` proves what `io_timers` checks, for any workers, threads outside,
timers and tasks. `IoInv` names for each obligation who attends to it. A task on the
list is attended to by a worker that looks at the list again (`Looking`) or by a
wake-up on its way to an idle one (`Signalled`: the eventfd's edge, or a thread that
is about to write it), or its tickle found nobody idle (`TaskAttended`); the first
timer by a worker that is up, a wake-up, or a worker that sleeps no longer than to
its time (`Covered`, `FirstAttended`). `NothingLeft` says what the workers have
seen of the timers when all that are left are leaving, also while one that is `over` goes
round again. `FirstTimerWakes` needs `NoWrap`: no time a caller asks for lies
beyond the range of `uint64_t`; beyond it a timer would be sorted in front of all
others without being the first to run. The module extends `TimerManagerProofs`:
`TimersUsedRight` shows that `IOManager` only does to the timers what `TimerManager`
specifies, so that what is proved of it holds here too.

`HookIOProofs` extends `IOManagerProofs` and proves what `hook_io` checks, for any
fibers, sockets, workers, numbers of calls and of openings of a number. `HookInv`
takes the counts of `IOManager` over for registrations that outlive their descriptor
(`Held`), says that who is suspended is held or scheduled once (`Suspended`), that a
timer belongs to the call that waits (`Calling`), and that a callback handed out
belongs to a call that was begun, the current call's being known to have expired
(`Timing`): this is what tells a late callback from the current one. `ConnectTells` rests on
a second invariant, `ConnectInv`: until a call has returned, no report of a socket
that is not connected is under way (`Quiet`), and so a fiber that is woken in
`connect` knows the outcome or was timed out (`Known`).

`TcpServerProofs` proves `NoOrphan` for any number of accept threads, sockets and
clients and any number of `start()` and `stop()`. `TcpInv` adds to it that who is
registered waits (`Registered`), that there is one task of `stop()` at a time (`OneStop`), and
that between `close()`'s last `cancelAll` and `close_f` nobody is registered but a fiber
that is `lost` (`Cancelled`): therefore the close orphans nobody else.

`HttpServerProofs` extends it: what the accept worker does in `HttpServer` is a
behaviour of `TcpServer` (`ServerImplemented`), so its theorems hold there. `InStep`
and `Genuine` are proved for any clients, any requests and any size of the buffer.
`Reading(c, i)` says that the session has all of request `i` so far: in the head,
what the parser has reported (`InHead`); after it, that what is read and what is left
to read reach the end of the body (`InBody`). `Tells` adds that the requests handled
are requests of the client, in order and before `i`, and that in a head all their
units are taken. For a client that does not wait this is some increasing choice of
requests (`GenuineInv`), as long as it is not `astray`; for one that waits it is all of
them (`InStepInv`), because no unit of a later request has been sent (`Waits`), and then
every parser begins where a request does (`Aligned`), so that it never is. The step that matters is
`ExecuteKnows`: a call that does not begin in a token goes on knowing the path and
the first header. The theorems assume `LengthFirst`: a request with a body has
`Content-Length` as its first header. Of others the map of headers does not find it
(`HeaderFound`), the body is left on the connection, and neither property holds.

`ByteArrayProofs` proves `TypeOK`, `Cursor`, `ReadsBack` and `Spec =>
ImplementsStream` for blocks of any size, numbers of any even width and any values.
The lemmas about division by the block size come first (going on from offset `p %
base` of block `p / base` is going on from `p`); from them follow what the copying
loops store and fetch (`StoreFacts`, `FetchFacts`), where `m_cur` is after them
(`AdvancePlace`, `BlockOfPlace`) and that they meet no null block (`CopyInChain`).
`ArrayInv` is `Sound`, which says that the cursor is where the position says, and
`MarkKept`: the bytes of the last typed value, or what its encoding keeps of it, are in the
blocks. `ReadItemBack` performs the read from there. That the encodings
are inverted by the reads is proved of the recursive functions themselves: a set of
natural numbers has a least element, so a smallest counterexample can be refuted. In
this way the recursive `Varint` is shown to exist and to unfold (`VarintUnfolds`), its
bytes to end at the first one of the lower half (`VarintEncoded`), and `UnVarint` to
give the number back (`VarintBack`). For the refinement, `data` is the blocks laid
end to end, and each operation is shown to be one of `ByteStream`'s, or, where a null
block is dereferenced, a stutter.

The proofs use, besides the conditions named above, only the assumptions the modules
state of their constants, which TLC evaluates in every run: `SchedulerAssumption`,
`TimerAssumption`, `IOManagerAssumption`, `IoAssumption`, `HookAssumption`,
`TcpAssumption`, `HttpAssumption`, `ByteArrayAssumption` and `GroupsAssumption` (five groups of seven
bits are enough for 32). The instances TLC runs satisfy `NoWrap`, `Disciplined`
and `LengthFirst` too.

Model-checked only: liveness (`StopDrains`, `StopReturns`, `WokenRuns`, `EventRuns`,
`StopEnds`, `SessionEnds`), because the prover does not handle fairness.

## Not modelled

* `contextResize`: the table of `FdContext`s is as large as needed. In the code two
  `addEvent`s with numbers beyond it can leave it smaller than the larger of them,
  because the size is read under another lock than it is changed under.
* A `Fiber` that somebody constructs and schedules is RUNING from its construction
  (Fiber.cc:49) and is skipped by `run()` for ever; the scheduler's model has only
  callbacks and fibers that ran, as the repository's own callers do.
* A clock that is set back while there is no timer: `m_previousTime` stays at the old
  time (timer.cc:140), and the next timer added runs at once.
* Reuse of a descriptor's number while a server's fiber still has it, `bind`
  while a server runs, and two `stop()`s whose tasks run at once.
* Clients that leave before they are accepted, and the size of a listening socket's queue.
* What servlets do and which is chosen, cookies, parameters and the text of
  messages; the emission and formatting of log messages; conversions of other types
  of configuration variables.
* `PThread`, `Mutex`, `Thread`, `util`, `address.cc`: wrappers of system calls and
  conversions without state of their own. `MemoryPool` is only declared.
* 56 of the repository's 66 thousand lines are vendored or generated: `json.hpp`,
  `httplib.h`, `uri.cc`, `http11_parser.cc`, `httpclient_parser.cc`. The share of all
  lines the models stand for is small for that reason.

What could come next: the growth of the descriptor table, and accept threads with a
number that is given out again.
