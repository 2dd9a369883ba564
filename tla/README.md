# xweb, specified

xweb is a small C++11 network library in the reactor style: an event loop per
thread, non-owning channels over epoll, a TCP server made of reference-counted
connections, an HTTP server on top, and an asynchronous logger. This directory
holds TLA+ modules of its core, the TLC runs that check them on small instances,
and proofs, checked by TLAPS, of the properties that matter most.

Read a module with its source open: `PROJECT.json` names, for every definition
that models code, the file and the lines it stands for.

    tlc -workers 2 -config MCEventLoop.cfg MCEventLoop     # a run
    tlapm EventLoopProofs.tla                              # the proofs of a module

## 1. The system

| Component | State | Operations | Talks to |
|---|---|---|---|
| `EventLoop` (net/event_loop) | `running_`, `calling_pending_`, `pending_functors_` under `mtx_` | `loop`, `quit`, `runInLoop`, `queueInLoop`, `runAfter`, `runEvery`, `cancel` | owns a `Poller`; called by every thread |
| `Poller`, `Epoller` (net/linux/epoller), `KqueuePoller` (net/mac) | `channels_` by descriptor, the kernel's interest set, an eventfd for wakeups, timerfds | `update`, `remove`, `poll`, `wakeup` | fills in channels' active events |
| `Channel` (net/channel) | `events_`, `activeEvents_`, four callbacks | `setEvents`, `handleEvent` | not owned by the poller |
| `TcpConnection` (net/tcp_connection) | `state_`, input and output `Buffer`, a channel, a socket | `send`, `shutdown`, `handleRead/Write/Close/Error` | shared by the server's map, the user, other threads |
| `TcpServer`, `Acceptor` (net/tcp_server, net/acceptor) | `conn_map_`, next id, listening socket | `start`, `newConnection`, `removeConnection` | callbacks from channels |
| `Buffer` (net/buffer) | a vector and two indices | `append`, `prepend`, `retrieve`, `readFd`, `shrink`, ... | one thread at a time |
| `EventLoopThread`, `ThreadPool` (net) | a thread, its loop, a mutex and a condition; a round-robin index | `startLoop`, `run`, `getNextLoop` | used by `HttpServer` |
| `HttpServer`, `HttpData`, `Rio` (net/http_*, base/rio) | a request buffer per connection | `doRead`, `doWrite`, `rio_readlineb` | channels on pool loops |
| `AsyncLogging` (base/async_logging) | two spare buffers, filled buffers, `running_`, a latch | `append`, `start`, `stop`, `threadFunc` | every thread that logs; `LogFile` |
| `LogFile`, `AppendFile` (base/log_file, base/file_util) | the current file, its period and counters | `append`, `flush`, `rollFile` | the logger's backend |
| `LogStream`, `FixedBuffer`, `Logger` (base) | a fixed buffer per statement | `operator<<` | `AsyncLogging` |
| `CountDownLatch`, `ProcessInfo` (base) | a count; nothing | `wait`, `countDown` | `AsyncLogging`; file names |

What is hard, and what makes each component correct:

* **EventLoop.** Other threads hand work to a thread that may be about to sleep.
  Correct: nothing queued is slept on, order is kept, a batch is finished, quit()
  works from anywhere.
* **Epoller, timers.** The poller returns bare pointers, whose owners may go away while
  a batch is handled; masks are combined with `& !X`; timers are added and cancelled
  through the queue or directly. Correct: only channels that are alive are handled, the
  kernel's mask follows the channel's, a cancelled timer stays so, timers fire.
* **TcpConnection.** Handlers on the loop, `send()`/`shutdown()` on any thread,
  partial writes, resets, the server's destruction. Correct: bytes arrive once and
  in order, output is written before the side is shut down, a connection closes
  once and leaves no channel behind.
* **TcpServer, Acceptor.** Descriptors are numbers that the kernel gives out again at once,
  and the poller's table, the kernel's interest set, the map and the sockets all speak of
  them; `accept()` waits or fails; the listening descriptor is closed twice. Correct: a
  connection is watched under its own descriptor, a descriptor has one owner, nothing
  freed is reported, every client is accepted.
* **Buffer.** Moving and growing by index arithmetic. Correct: a queue of bytes, from which
  integers come back as they were put in.
* **EventLoopThread, ThreadPool.** The handshake between `startLoop()` and `run()`.
  Correct: no loop is used before it is made; connections are shared out evenly.
* **HttpServer, HttpData, Rio.** A connection is accepted on one thread and served on
  another; requests come in pieces and are read with calls that wait. Correct: a
  connection is watched by its loop, a whole request is answered, the end of a stream
  ends the reading.
* **AsyncLogging.** Loggers and a backend swap buffers; stop and restart; a cut when
  the backlog grows. Correct: no line is lost, repeated or reordered.
* **LogFile.** Rolling by size and by day, with stdio's buffer in between and two
  members that nobody initialises. Correct: every line is in one place, in order;
  files are rolled and flushed when they should be.
* **LogStream, Logger.** Operands are written in place into a buffer of a fixed size, by a
  conversion that leans on the sign of remainders. Correct: nothing is written past the
  buffer, and a line is whole operands in their order.

`PROJECT.json` lists the hazards one by one, each at its line, with the properties
that cover it or the reason why none does yet.

## 2. The modules

    TaskQueue    <--implements--  EventLoop      EventLoopProofs      MCEventLoop
                 <--relied on---  TcpConnection
                 <--relied on---  Timers         TimersProofs         MCTimers
                 <--relied on---  HttpServer     HttpServerProofs     MCHttpServer
                                  AsyncLogging   AsyncLoggingProofs   MCAsyncLogging
                                  LogFile        LogFileProofs        MCLogFile
                                  LogStream      AsyncLoggingProofs   MCLogStream
    ByteStream   <--implements--  TcpConnection  TcpConnectionProofs  MCTcpConnection
    ByteQueue    <--implements--  Buffer         BufferProofs         MCBuffer
    Epoller, KqueuePoller
                 <--used by-----  TcpServer      TcpServerProofs      MCTcpServer

`TcpConnection`, `Timers` and `HttpServer` each compose their objects with the part of the
poller and the kernel they depend on, and take from the loop only what `TaskQueue`
promises: a first-in first-out queue of functors, run one at a time on the loop's thread.
That EventLoop keeps this promise is proved, and so is that a connection keeps `ByteStream`'s
and a buffer `ByteQueue`'s. `Timers` also needs the order of a turn of
`loop()`, first the handlers of a batch and then the functors, and has it from the same lines.
`TcpServer` is the composition across connections: it uses the tables of `Epoller` and
`KqueuePoller` and abstracts from each connection what `TcpConnection` is about.
`LogStream` makes the lines that `AsyncLogging` writes to a file; `LogFile` is that file. The
proofs about the first two are in one module, `AsyncLoggingProofs`, because one of them
is about both: the lines that the one makes are lines that the other is specified for.

**TaskQueue** is what the loop promises: tasks submitted by other threads are run in
the order of submission, tasks of the loop's own thread at once.

**EventLoop** models net/event_loop.cpp and the wakeup of epoller.cpp. Variables have
the names of the members; `loopPc` says where the loop's thread is, `callerPc` where
each other thread is between setting a flag or queueing (under `mtx_`) and writing
the eventfd. `CheckRunning`, `Poll`, `HandleWakeup`, `HandleOther`, `SwapPending`,
`RunFunctor`, `Return` and `DonePending` are one turn of `loop()`; `RunHere` and
`QuitHere` are calls that user code makes on the loop's own thread. `StartLoop` sets
`running_` whatever quit() did before, as the code does.

**TcpConnection** models one connection from `newConnection()` to its destructor:
`HandleRead`, `HandleWrite`, `HandleClose`, `Send`, `Shutdown`, `RunFunctor` on the
loop's thread; `StartSend`/`QueueSend` and `StartShutdown`/`SetDisconnecting`/
`QueueShutdown` on other threads, with the test of `state_`, its assignment and the
queueing as separate steps; `WriteSome`/`WriteReturns` for a `write()` that sleeps
in the kernel; the peer that sends, reads, closes and resets; `DestroyServer`. Bytes
are numbered in the order `sendInLoop()` was called for them. `Update` leaves what
the uninitialised `epoll_event` contained in the kernel's mask. Three histories are kept for
the properties: a queued message knows whether anyone had asked for the end when it was queued
(`late`), `before` is what `sendInLoop()` was called for before the socket was shut for writing,
and `early` says that it was not a thread's functor that shut it.

**Epoller** and **KqueuePoller** are the tables of a poller, `channels_` and the kernel's
interest set, as operators: what `update()`, `remove()`, `close()` and `poll()` leave or return.
epoll refuses a modification of what it does not know and an addition of what it knows,
and `channels_` is then left alone; kqueue's code enters and erases the channel regardless.

**TcpServer** models net/tcp_server and net/acceptor with all connections of a process over one
table of descriptors (`owner`), of which the kernel gives out the lowest that is free.
`MakeServer`, `Start`, `DestroyServer` and `CloseAgain` (the second `close()`, of `~Socket()`) are the
server's life; `Poll`, `HandleConn`, `Accept`/`AcceptFails` and `HandleRead` a turn of the loop,
with `HandleConn` ending inside `accept()`; `Release` is a user that gives up a reference,
`OtherOpens` and `OtherCloses` are threads with files of their own. A connection here reads
nothing but the end of its client's stream.

**ByteStream** is what a connection promises of its output, from `send()` and `shutdown()` on.
What other threads send, and their wish to end the stream, is posted (`Post`, `PostEnd`) and taken
in that order (`Take`, `TakeEnd`); bytes taken go to the network and on to the peer in order and once;
the end is sent when no byte taken is left behind, and a message that was posted before anyone asked for
the end (`Ask`) is taken before it is sent. The promise has one gap, which the code has (section 4): the
end that `Drain` makes, when the network has caught up with a message of which it had left part, and the one
of `EndHere`, on the loop's thread, do not wait for what is posted. The refinement takes the queue
of functors for what is posted, and `Untaken`, what a `write()` under way and the output buffer still hold,
for what the network has not taken.

**AsyncLogging** models base/async_logging with `FixedBuffer`'s arithmetic and
`CountDownLatch`. A line is a number and a length. `AppendLine` and `Collect` are the two
critical sections; `Write` and `Refill` are the backend's work between them. The
constants `Cap`, `DropLimit` and `Keep` stand for 4000*1000 bytes, 25 and 2.

**Timers** models `runAfter()`, `runEvery()` and `cancel()` on the loop's thread (`RunLaterHere`,
`CancelHere`) and on others (`RunLater`, `Cancel`, which queue a functor), over the two tables
that know a timer, `timers_` and the poller's `channels_`, and the kernel's timer. A channel is
known by the number of the call that makes it. `platform` chooses the poller: on "linux"
a timerfd per timer, whole seconds, level-triggered and never closed; on "mac" kqueue with
ids that are used again after `IdLimit` of them. `Poll`, `Handle` and `HandlerReturns` are a
batch, between which any thread may act.

**HttpServer** models net/http_server, net/thread_pool, net/event_loop_thread, net/http_data
and base/rio: the start of the threads (`StartThread`, `CheckLoop`, `MakeLoop`, with lost and
spurious wakeups), the choice of a loop (`TakeTurn`), `Accept` and `AcceptFails`, and the
handlers of a connection. A request is a sequence of lines, of which only "text" and "blank"
are told apart; `HandleRead`, `ReadLines` and `ReadEnd` are the steps of one call of
`handleRead()`, in which the loop's thread waits.

**LogFile** models base/log_file with the `AppendFile` of base/file_util. Its operators give
what an operation leaves of the LogFile and of the disk; `AppendLine` composes them as
`append_unlocked()` does. How much of stdio's buffer an `fwrite()` passes on is left open.
`OldRolls` and `OldCounts` are what the uninitialised `lastRoll_` and `count_` may hold.

**LogStream** models a log statement, from the test of the level to `g_output`, with
`FixedBuffer` and `LogStream`: `Construct` is the constructor of `Logger` with what it writes,
`Operand` an `operator<<`, `End` the destructor. Names such as `StreamSpec` keep it apart from
`AsyncLogging` where both are extended. `Convert` and `ConvertHex` translate the loops of `convert()` and
`convertHex()`, with the truncating division of C++ and the table of digits that is indexed
from its middle. The lines of `snprintf()` and `strftime()` are given.

**Buffer** models net/buffer.{h,cpp}: a buffer is a record of the vector and the two
indices, every operation a function, and the state machine applies them in any order
to one buffer. `ReadFd` includes the detour through `extrabuf`. An integer is its bytes in memory
on a little-endian machine; `Widths` are the sizes of the types.

## 3. What is checked

Every run below finishes within two minutes. Each property has a mutant in
`PROJECT.json`, a plausible bug in a definition of the code, under which TLC finds
the property violated; the mutants stand in the modules beside what they mutate.

| Run | Bounds | Shows |
|---|---|---|
| `event_loop` | 2 callers, 2 functors per thread, 2 calls of `loop()` | `NoLostWakeup`, implements `TaskQueue`; live: `FunctorsRun`, `QuitStops` |
| `timers` | both pollers, 3 timers of -0.5 s or 1.5 s, one `cancel()`, 2 ids on kqueue | `ChannelsOwned`, `BatchAlive`, `CancelSticks`, `OneShotOnce`; live: `ExpiriesTaken` |
| `timers_silent` | epoll, timers of 1 s | **violated**: `TimersFire` |
| `tcp_connection` | a thread that sends twice and shuts down, the server may be destroyed, 4 bytes, send buffer of 2, one signal, any garbage, a peer that reads | implements `ByteStream`, `OutputIntact`, `WriteEventIffBuffered`, `CloseAssert`; live: `PeerNoticed`, `OutputDrains` |
| `tcp_shutdown_race` | 1 thread that shuts down | **violated**: `DtorAssert` |
| `tcp_events_lost` | no other thread, one signal, a peer that reads | **violated**: `InputHandled` |
| `tcp_server` | both pollers, 3 descriptors, 2 servers one after the other, 3 clients, one file of another thread, one failing `accept()` | `OpenIsWatched`, `ReportsAlive`, `OwnDescriptor`; live: `ClientsServed` |
| `http_server` | 0 and 2 threads, 2 connections of 2 lines, one failing `accept()` | `PoolHasLoops`, `Balanced`, `Watched`; live: `RequestAnswered` |
| `async_logging` | buffers of 4, lines of 1 and 2, limit 3, 7 lines, 2 starts | `NothingLost`, `FileOrder`, `BackendAsserts`, `StartedRunning`, `DropsOnlyBehind`; live: `LinesWritten`, `CallsReturn` |
| `log_file` | 4 lines of 1 or 4 (limit 3), a check every 2 lines, 3 days of 3 seconds | `PlacedInOrder`, `FlushedInTime` |
| `log_stream` | a buffer of 16, 7 for a number, 3 operands, eight-bit integers | `LineIsOperands` |
| `buffer` | 2 bytes, reserve 2, space 2, extrabuf 2, inputs up to 3, integers of 1 and 2 bytes, vector up to 9 | `IntegersComeBack`, implements `ByteQueue` |

The passing runs also check the type invariant of their component, except `event_loop`,
`timers`, `async_logging` and `log_file`, whose type invariants are proved (section 5).

Why the bounds are enough.
*EventLoop*: two callers are needed for one to append while the other is between its
append and its write; two functors of a thread for one to be in the batch and the other
in the queue; two calls of `loop()` for functors left behind by a quit().
*Timers*: with two ids on kqueue the third timer takes the id of the first, which may be
running, in the batch or queued; the two delays are one that is refused, disarmed or below
a second and one that is not whole seconds.
*TcpConnection*: the loop's thread and one other send, and the other can be between its test
of `state_` and its functor while the loop closes the connection; a send buffer of two and messages of one and two bytes give writes that
are taken whole, partly and not at all; four bytes give a message behind a buffered rest
behind a full kernel buffer; one signal gives one partial write, which is what buffering
needs.
*HttpServer*: two threads and two connections, or one and a failed `accept()`, make the round
robin go round; two lines make a request that comes at once, in two pieces or never whole,
and two connections give one that keeps its loop from the other.
*AsyncLogging*: seven lines fill the four buffers it takes to exceed the limit of three
while another is being filled, and two lengths leave a buffer with room for one and not
for the other.
*LogFile*: a line of four exceeds the limit alone and a line of one does not; two files can be
of the same day or of different ones; four lines pass the check once or twice.
*TcpServer*: with three descriptors the listening socket and two connections leave none, so
that `accept()` fails and the next connection gets a number used before; the second server
meets what the first one left; one file is enough to take the number between two `close()`.
*LogStream*: after a header of two characters, three operands of up to six fill the buffer to
its last byte, so that numbers, texts and the newline each find room and find none; -128 is
the most negative number of its type.
*Buffer*: inputs of three exceed both the initial space and `extrabuf`, and a vector of nine is
reached by growing more than once.

Deadlock is checked in `buffer`, `timers` and `log_file`. The other systems may really stop: a
loop that has quit for the last time, a logger that is off, a connection that is gone, a
server whose clients are silent or all gone, a program that logs no more.

**Fairness.** `EventLoop`: the loop's thread goes on whenever it can (it may sleep
in `poll()` only while the eventfd is not readable), user code returns, and a thread
that queued or set the flag reaches its write. `Timers`: time passes for every timer, and the
loop goes on whenever `poll()` has a reason to return. `TcpConnection`: the loop handles what
the poller reports and what is queued, `write()` goes on when there is room, threads in a
call finish it; `ReadingPeerSpec` adds that the peer reads, which no code can
force and which `OutputDrains` needs. `HttpServer`: threads go on, and every loop runs its
functors (strong fairness), which is what `FunctorsRun` of `EventLoop` says: a turn of `loop()`
runs what is queued whether or not there is something to handle. `AsyncLogging`: the backend
goes on, its wait ends at the latest after the flush interval (`wait_for`), and `start()` and
`stop()` return once what they wait for is there. `TcpServer`: the loop polls and goes through its
batch, channel by channel, `accept()` returns once there is somebody or it has to fail, and
a destructor ends. Nobody is obliged to log, connect,
send, close, reset or interrupt. In `TcpConnection` handlers are fair one by one, which stands
for a poller that reports every ready descriptor; because `poll()` reports writability only
when nothing else is ready, `OutputDrains` also rests on the peer's input being bounded
(`MaxInputs`).

## 4. What the runs found

* **shutdown() races with the close** (`tcp_shutdown_race`). tcp_connection.cpp:151-152
  tests and sets `state_` on the caller's thread. With `handleClose()` in between,
  `kDisconnected` is overwritten and the destructor's assertion (:34) fails.
* **`events() & !CHANNEL_WRITE`** (`tcp_events_lost`) is zero: once buffered output has been
  written, CHANNEL_READ is lost too and input is never handled again. `PeerNoticed`
  holds as long as no `write()` was cut short, which on a blocking socket takes a signal.
* **`evt & !CHANNEL_READ`** (`timers_silent`, epoller.cpp:111) is zero as well: on Linux no
  handler of a timer is ever called.

The models also have, and the properties are stated around:

* A server destroyed with an open connection drops it in `kDisconnecting`, and the assertion
  of `~TcpConnection()` fails: `DtorAssert` is violated with `ServerStops = TRUE` and no other
  thread. What is still buffered then never leaves; `OutputIntact` therefore speaks of
  connections the server has not dropped this way, and `ByteStream` lets it stay where it is.
* The end overtakes messages. A thread's `send()` is queued (tcp_connection.cpp:51-56), then `shutdown()`
  sets `kDisconnecting` at once (:152). If `handleWrite()` empties the buffer before the queue is run,
  it shuts the socket for writing (:187); the queued `sendInLoop()` gets EPIPE and drops the
  message (:117, :124), though it was sent before the end was asked for. A `shutdown()` on the
  loop's thread, which runs `shutdownInLoop()` at once, overtakes what other threads have queued in the same
  way. No doc, comment or test of the repository says otherwise, so no run reports it as a
  violation; both happen in `tcp_connection`, where `early` marks them, and `OutputIntact` and
  `ByteStream` excuse these two and no other end. A message of which `sendInLoop()` had been called before the end
  is never excused.
* When `shutdown()` has overwritten `kDisconnected`, a `send()` that is still queued writes to the closed
  connection, and if a signal cuts that write short its channel is registered again: `handleClose()` can run
  twice, and the channel may be freed while the poller has it. `CloseAssert`, which is the code's own
  assertion, tests only `state_` and holds all the same.
* A restarted logger does not wait for its thread: the latch is spent by the first `start()`, a
  second one returns at once, and a `stop()` right after it lets `threadFunc()` fail
  `assert(running_ == true)` (async_logging.cpp:54). `StartedRunning` therefore speaks of the first
  start. No restart loses a line.
* `~TcpServer()` leaves its open connections in `channels_` (`dropped`). With NDEBUG, without
  which the assertion above ends the process, a later connection that gets one of their
  numbers is refused by `EPOLL_CTL_MOD` and never watched, on Linux.
* On Linux a server that is made and not yet started is reported as hung up in every turn, and
  each time the -1 of `accept()` becomes a connection that nothing ends (`ghosts`); so it does
  when descriptors run out.
* The second `close()` of the listening descriptor closes whatever another thread has opened under
  that number in the meantime (`robbed`).
* A handler that destroys a server frees a channel of the batch (`ReportsAlive` fails with
  `HandlersAct = TRUE`); one that starts a server may do so between the hang-up's report and
  its handling, and `accept()` then waits, with the loop.
* A log line that leaves exactly one byte of its buffer loses its newline. LOG_FATAL aborts right
  after `g_output`, so that with `AsyncLogging` as the output its line does not get to the file.
* Accepted sockets are blocking, although socket.h:32-34 says otherwise: `write()` sleeps until
  the peer reads, and the loop with it.
* A handler that calls `cancel()` frees a channel of the batch, possibly its own
  (`BatchAlive` fails with `HandlersCancel = TRUE`); so does an id that kqueue hands out again
  (`replaced`). `cancel()` on the loop's thread with the id of a timer that another thread has
  still queued finds nothing and is lost. Timerfds are never closed.
* An HTTP client that closes its side after its request is readable from then on and may
  never be answered, because epoller.cpp:106 reports writability only when it is the only
  event; the loop spins. What a client sends beyond its request is lost (rio.cpp:10) or read
  as another request before the first is answered. One client that does not finish its request keeps its loop, hence the condition
  `<>[]~Held(c)` of `RequestAnswered`.
* A LogFile whose uninitialised `lastRoll_` is in the future opens no file, and its first
  `append()` ends the process; a `count_` far below zero delays the first check.

Seen in the code and not part of a model: kqueue reports reading and writing of one socket
as two events, so that `poll()` returns its channel twice, and a connection that the
first handler closes may be gone when the second is called (kqueue_poller.cpp:83-98);
`readInt64()` requires `sizeof(int32_t)` bytes, says its comment (buffer.h:189); `Buffer`'s constructor ignores `initSize` and
then asserts it (buffer.h:21-26); `t_loopInThisThread` is not reset by `~EventLoop()`
(event_loop.cpp:31-35), so that a thread can have only one loop in its life; `http_data.cpp:61-62`
writes whole chunks whatever `Content-length` said, and no one closes the connection although
the answer says `Connection: close`; `LogFile::append()` locks when `threadSafe_` is false
and not when it is true (log_file.cpp:86).

## 5. What is proved

All theorems are about every value of the constants that satisfies
`ConstantsAssumption` (and, for the logger, `NullAssumption`: a null pointer is not a
buffer; for `LogStream`, `Sizes`), not only the instances above. The bounds (`MaxCalls`, `MaxLines`, ...) are
constants like the others, so the results hold however large they are. Each theorem
follows from an inductive invariant, `IInv` (`StreamIInv`), by one lemma per part and, in it, one step per
action.

* **EventLoopProofs.** `TypeCorrect`, `WakeupNeverLost`, `SubmissionOrder` and
  `LoopIsATaskQueue`. The wakeup theorem needs the strengthening that what is queued is
  announced *wherever the loop's thread still has to pass through poll() before it takes
  the queue*, not only in `poll()`; the order theorem that the numbers of
  a thread's functors in `executed \o functors \o pending` never exceed its `calls`.
  The refinement maps the queue to `functors \o pending`: submitting, running first
  and running at once are the abstract steps, everything else stutters.
* **TcpConnectionProofs.** `TypeCorrect`, `CloseAssertHolds`, `WaitsIffBuffered`,
  `OutputStaysIntact` and `ConnectionIsAByteStream`. The invariant ties the state to who can
  still act (`StateInv`: what the map or the poller has, or is in a `write()`, is
  `kConnected` or `kDisconnecting`), the mask to the bytes (`EventsInv`), and says of a `write()`
  that sleeps in the kernel whose bytes it has (`WriteInv`), which is what makes a short
  write leave exactly the rest in the buffer. Two parts are about the end:
  behind a shutdown functor only `late` messages are queued (`QueueInv`), so that whoever shuts the socket
  in the turn of such a functor leaves only `late` ones behind (`EndInv`). `ConnectionIsAByteStream` thus says of
  any number of threads that an end overtakes a message queued before it was asked for only in
  the two ways of section 4, and `OutputStaysIntact` that no byte taken before the end is missing, sent
  twice or out of order; the latter is read off the stream, by an invariant of `ByteStream`'s steps
  (`FlowInv`: once the socket is shut, the peer has read or the kernel holds every byte taken before). Every handler is a step of `ByteStream` or a stutter.
* **TcpServerProofs.** `TypeCorrect` and `PollReturnsAlive` hold whatever handlers do: the kernel's
  interest set has only descriptors whose channel in `channels_` is their owner's (`PollInv`),
  though `channels_` alone may hold others. `BatchIsAlive`, `DescriptorsAreOwned` and
  `OpenOnesAreWatched` assume `~HandlersAct`: a program that makes and destroys servers
  before and after `loop()` and in functors, as the tests do, not in the handlers of a batch;
  with it `ReportsAlive` is false (section 4). They need that whatever is in the batch stays
  (`AliveInv`) and that on Linux the two tables agree but for what a destroyed server
  left (`AgreeInv`).
* **HttpServerProofs.** `TypeCorrect`, `LoopsAreMade`, `LoopsAreBalanced` and
  `AcceptedAreWatched`. The wait in `startLoop()` is about the thread begun last, whose loop is
  there when the wait ends (`PoolInv`); `next_` separates the loops that have had one turn more
  (`TurnInv`), from which the evenness follows for any number of loops.
* **LogFileProofs.** `TypeCorrect`, `LinesArePlaced` and `LinesAreFlushed`. The invariant is about
  contents: a file of a day together with the buffer in front of it. Contents are in order
  and hold exactly the lines that were appended and not lost (`ContentInv`); flushing, rolling
  and opening again leave them alone. `LateInv` bounds the lines that come after the
  end of a file's day by `count_`. What the uninitialised `count_` allows is stated as in the
  run: only once it has been compared (`counted`).
* **AsyncLoggingProofs.** `TypeCorrect`, `NoLineIsLost`, `AssertsHold`, `FileKeepsOrder`,
  `FirstStartWaits` and `DropsOnlyWhenBehind`. The invariant counts spares: the buffers the backend gave away
  (`Taken`) never exceed those in the batch, because two are given away only when a buffer was
  filled meanwhile. With it `FileOrder`, over file, batch and the buffers of the front end one after
  the other, is inductive; that lines are dropped only when it must be also needs that every
  buffer but the last was given up for want of room (`FullInv`). `FirstStartWaits` needs that, the
  first time, the latch is still one and `start()` still waiting while the thread has not
  begun (`LatchInv`).
* **AsyncLoggingProofs, on LogStream.** `ConvertIsDecimal` says that `Convert` and `ConvertHex` give the
  numeral of every integer, `StreamTypeCorrect` that a statement stays in its buffer, `LinesAreOperands`
  that a line is whole operands. See below.
* **TimersProofs.** `TypeCorrect`, `PollerPointsToOwned`, `CancelIsFinal`, `OneShotFiresOnce` and, if
  handlers call no `cancel()`, `BatchStaysAlive`. The invariant says that `timers_` has a channel only under the
  id it was made for (`TablesInv`), which is what makes `update()` before the assignment to
  `timers_` safe when an id is used again, and that a channel is queued once and only before
  it is in `timers_` (`QueueInv`), without which a `cancel()` on the loop's thread could leave an
  addition behind. That a refused timer leaves no stale pointer rests on timerfds never
  being used again (`RefusedIsFree`). `BatchStaysAlive` needs in addition that nothing is left
  of a batch when functors run (`BatchInv`). `OneShotFiresOnce`, for any handlers, needs that the
  channel of a timer that fires once is armed, or expired, or polled or handled, and never
  two of these (`SpentOnce`), and that what is queued has been neither polled nor handled
  (`OnceInv`).
* **BufferProofs.** Lemmas say of each operation what it does to the readable bytes
  (`WrittenAdds`, `AppendedAdds`, `ReadFdAdds`, `PrependAdds`, `RetrieveDrops`, `UnwriteDrops`,
  `GrownKeeps`, `MovedKeeps`, `ShrinkKeeps`), the theorems `TypeCorrect`, `AssertHolds`,
  `GrowthIsNeeded` and `BufferIsAByteQueue` follow. `IntegersRoundTrip` rests on two more,
  `AppendedIntComesBack` and `PrependedIntComesBack`, for integers of any width in any buffer. `TypeOK` is inductive as it stands, because it
  includes that the vector is at least as long as the reserve, without which
  `retrieveAll()` would leave it.

**Conversions.** `DigitsBackwards` and `HexBackwards` are recursive on data, and what they compute is
nevertheless proved, with an induction that needs no operator for a parameter: a non-empty set of naturals
has a least element (`Least`, from the library's well-founded relations), so a set that has 0 and, with a
number, its successor, has all of them (`Induction`); a function that is defined step by
step exists (`Iterates`), hence satisfies the equation it is defined by (`PowerUnfolds`,
`BackwardsUnfolds`). The digits of n that come out last first are those of `Numeral`, by induction
on the number of digits (`DigitsBackwardsIs`, `HexBackwardsIs`), for which powers, widths and division
fit together (`PowersGrow`, `WidthGrows`, `DividedTwice`); a negative number gives the digits of
its magnitude because the remainders of a truncating division are not positive and the
table is indexed from its middle (`Truncated`, `DigitTableIs`).

**Lines.** The invariant of `LogStream` (`StreamIInv`) is that the buffer has a line of the operands given
so far (`IsLineOf`), and that a finished line is one with its newline, or one that fills the
buffer without. One more operand either leaves the line alone or extends it (`LineGrows`); the
prefix is a line by induction on its length (`PrefixIsALine`). All this assumes `Sizes`, of which the substance is that
`kMaxNumericSize` is enough for a number, a pointer or a double with its terminating zero.
`NumbersHaveRoom` shows that it is for all integers and addresses of 64 bits, for which 22 bytes
would do, and the code has 32. `LinesFit` justifies what `AsyncLogging` assumes of `Lengths`, that a line
is not empty and fits an empty buffer: `kSmallBuffer` is below `kLargeBuffer`.

Only model-checked is what depends on fairness, all liveness properties: `FunctorsRun`, `QuitStops`,
`ExpiriesTaken`, `PeerNoticed`, `OutputDrains`, `ClientsServed`, `RequestAnswered`, `LinesWritten`,
`CallsReturn`. `ProgramOrder`, `GrowsWhenFull` and `MoveAssert`
are proved and no run checks them: the first follows from implementing `TaskQueue`, the second
is about cost only, the third is an assertion of the code that growing and moving leave true.

## 6. What is not modelled

* `running_` is a plain bool that several threads access, which C++ leaves undefined;
  it is modelled as a load on every turn, which is what a build produces that calls
  `poll()` in between.
* Of the uninitialised bits in `Epoller::update()` only EPOLLIN and EPOLLOUT; with
  EPOLLET or EPOLLONESHOT by chance, events would be lost.
* SIGPIPE: applications are taken to ignore it, so that writing to a closed connection
  fails with EPIPE.
* A user that drops its reference to a connection while functors with its bare
  pointer are queued, or a server destroyed while another thread holds a connection:
  undefined, and excluded by the guards of `Release` and `DestroyServer`.
* Errors of `malloc`, of `epoll_ctl` and of `eventfd`; wrapping of 64-bit counters.
* Of `Buffer`: `swap()` with another buffer, searches for line ends.
* Of `KqueuePoller`: the filter for writing, the user event that wakes the loop, and an
  unconnected socket, which is taken not to be reported.
* Of `TcpServer`: a failing `bind()` or `listen()`, two servers at a time, and what a connection does
  besides being accepted and closed.
* Of HTTP: clients that reset, errors of `read()`, the bytes of the answer (which is taken to
  fit the socket's send buffer), the descriptor -1 beyond what `AcceptFails` says.
* Of `LogFile`: a line of which a crash leaves a part (stdio's buffer holds whole lines), a full disk, a file that cannot be opened, a clock that goes back, and
  `threadSafe = true`, which nothing uses.
* The counter of kqueue's `getTimerFd()` is a static int that threads increment without a lock;
  it is modelled as atomic.
* The texts of `snprintf()` and `strftime()`, names (`ProcessInfo`, `InetAddress`), socket options.

## 7. Plan

Built so far, in this order: `EventLoop`, `AsyncLogging`, `TcpConnection`, `Buffer`, `Timers`,
`HttpServer`, `LogFile`, `TcpServer` with `Epoller` and `KqueuePoller`, `LogStream`; then the proofs, of
every safety property that a run checks. Left: one abstract poller, a set of registered
descriptors and what is reported of them, that `Epoller` and `KqueuePoller` implement, with kqueue's
filter for writing and its user event.
