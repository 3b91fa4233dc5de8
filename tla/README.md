# Burger in TLA+

A TLA+ verification of [Burger](../src/README.md), a C++11 network library for
Linux: an event-loop (reactor) part in the style of muduo, a coroutine
(processor/scheduler) part, and an RPC and a MySQL layer on top.  Every definition
is translated from the code under `src/burger`; the `map` of `PROJECT.json` gives the
lines.  Properties are run by TLC on small instances, and every safety property of a
passing run is proved by TLAPS for every instance.

## 1. Inventory

| Component | State | Operations | What is hard, what makes it correct |
|---|---|---|---|
| `MpscQueue` | list of nodes, `head_`, `tail_` | `enqueue` (any thread), `dequeue`, `empty`, destructor | lock-free: a producer stalls between the exchange and the link; nodes are deleted right behind it. No use after free, no leak, FIFO, everything consumed |
| `EventLoop` | `queueFuncs_`, `quit_`, eventfd, active channels | `loop`, `quit`, `runInLoop`, `queueInLoop`, `wakeup` | enqueue / wakeup / emptiness / sleep interleave. No lost wakeup, functions run, `quit()` ends the loop |
| `EventLoopThread`, `EventLoopThreadPool` | `loop_` pointer to another thread's stack | `startLoop`, destructor | publication, `quit()` before `loop()`, join. The pointer is live, start and destruction return |
| `Epoll`, `Channel` | `channelMap_`, statuses, kernel interest list, channels of the round | enable/disable, update, remove, wait, `handleEvent` | callbacks change, remove and destroy channels inside a round; fds are reused. Statuses, map and kernel agree, nothing dangles |
| `TimerQueue` | ordered set, canceling set, timerfd | `addTimer`, `cancel`, `handleRead`, `reset` | cancellation inside callbacks, restart, `uint64_t` delays. Entries findable, cancelled stays cancelled, timerfd armed, due timers run |
| `Threadpool` | bounded queue, `running_` | `start`, `run`, `take`, `stop` | two condition variables, notify after unlock, tasks that submit tasks. Bound, no forgotten sleeper, `stop()` returns |
| `TcpConnection`, `TcpServer`, `Acceptor` | `status_`, channel, output buffer, connection map | establish, send, shutdown, force close, read/write/close handlers, removal | two loops and user threads. Byte order, FIN last, closed and destroyed exactly once, unregistered before it dies |
| `Connector`, `TcpClient` | `status_`, `channel_`, retry timer, `connection_` | connect, stop, restart, retry | retry timers against stop and start; queued `resetChannel`; raw `this` |
| `Coroutine`, `Processor`, `CoEpoll`, `Hook`, `CoTimerQueue` | run queue, idle coroutines, pending tasks, coroutine per fd | add task, resume/yield, hooked I/O, sleep, stop | wakeup of the epoll coroutine, recycling, stale resumes |
| `Scheduler`, `ProcessThread` | `running_`, `quit_`, `mainProc_`, `workProcVec_`, threads | start, startAsync, stop, wait | flags set and notified without the mutex, pointers to other threads' stacks, joins. Processors exist while picked, `wait()` returns, after the last of them |
| `CoTcpServer`, `CoTcpConnection`, RPC | `connMap_`, `quit_` | accept loop, send, recv, shutdown; one request per connection | hand-over between processors, `stop()` at any moment, a client that takes no bytes for a response. Answers are true, calls end |
| `Buffer`, `RingBuffer` | bytes, two indices | append, retrieve, prepend, readFd, shrink, grow | compaction, wrap-around. Contents like a byte sequence, assertions hold |
| MySQL, `Config`, `CountDownLatch` | transaction flags; expression evaluator | | not modelled, see section 5 |
| sockets, logging, strings, time stamps, environment | none that matters here | one system call or formatting each | external or left out |

How they interact: threads hand functions to a loop with `queueInLoop()` (an
`MpscQueue` and an eventfd); the loop asks `Epoll` for active `Channel`s, handles
them, then drains the queue; `TimerQueue` is one of the channels; a `TcpConnection`
owns a channel and belongs to one I/O loop, `TcpServer` to the base loop, and closing a
connection crosses from one to the other and back.  The coroutine part does the same
with `Processor`s in the place of loops.

## 2. Modules

    FifoQueue        what the queue promises             (abstract specification)
    MpscQueue        implements FifoQueue                (PROPERTY ImplementsFifo, theorem)
    EventLoop        uses FifoQueue for queueFuncs_
    EventLoopThread  extends EventLoop                   (composition, theorem UsesEventLoop)
    Epoll            Epoll.cc + Channel.cc + the dispatch of EventLoop::loop
    TimerQueue       TimerQueue.cc + ITimerQueue.cc + timerfd
    ThreadPool       ThreadPool.cc
    TcpConnection    TcpConnection.cc + the connection's part of TcpServer.cc
    TcpClient        Connector.cc + TcpClient.cc + the rounds of the loop
    Processor        Processor.cc + Coroutine.cc + CoEpoll.cc + Hook.cc + sleepers of CoTimerQueue.cc
    IBuffer          what a buffer promises: a byte sequence
    Buffer           Buffer.cc, moves IBuffer's content along
    RingBuffer       RingBuffer.cc, the same
    Scheduler        Scheduler.cc + ProcessorThread.cc
    RpcServer        extends Scheduler: CoTcpServer.cc, CoTcpConnection.cc, RpcServer.cc, RpcChannel.cc
    LoopQueueProofs  theorems on MpscQueue and TimerQueue
    EventLoopProofs  theorems on EventLoop and EventLoopThread
    LoopIoProofs     theorems on Epoll and Buffer
    ThreadPoolProofs, TcpConnectionProofs, TcpClientProofs, ProcessorProofs
    RpcServerProofs  theorems on RpcServer and the Scheduler in it
    MC*              instances for TLC

**FifoQueue / MpscQueue.** The detailed module has a heap of node addresses that are
recycled.  `enqueue` is `NewNode`, `Exchange`, `Link`; `dequeue` is `Load` and `LoadNull`
or `Take`, `DeleteTail`; one step is one access to shared memory.  Atomics are
sequentially consistent: the racing accesses are the exchange and the acquire/release
pairs on `next_`.  The abstract module is a sequence of entries that are published or
not: a consumer sees the queue as empty while its first entry is unpublished.  That is
weaker than a plain FIFO queue, and exactly what `EventLoop` has to cope with.

**EventLoop.** `lpc` is the loop thread's place in `loop()` and
`doQueueInLoopFuncs()`; a thread in `queueInLoop()` is stopped between its place in the
queue, the publication and the `wakeup()`.  Callbacks and queued functions are user
code that may queue and quit.  The eventfd is a Boolean (its counter only matters as zero or
not).  `QueueBeforeLoop` is `queueInLoop()` by the loop thread before `loop()`.

**EventLoopThread.** The owner and `threadFunc()` around the whole of `EventLoop`; until
the owner destroys it, it and other threads use the loop (`UseLoop`).

**Epoll.** Channels are objects with a fixed fd; two of them may share one, also while both
are alive, of which `channelMap_` lets one be registered: `Connector.cc:190` removes its channel
and destroys it later, when the `TcpConnection` has its own for the socket.  `Wait` reports any non-empty set of ready channels with any events they can have;
`HandleEvent` fixes the callbacks from `revents` before any runs, as
`handleEventWithGuard` tests one `revents_`.  User code acts within the assertions' contract.

**TimerQueue.** Time is a counter; `Delay` is `howMuchTimeFromNow()` modulo `Word`, the
code's 2^64.  Callbacks run one after another and may add and cancel, also a timer whose
`addTimerInLoop` another thread has queued (the ghost `overtaken`);
the clock advances between any two steps.  `getExpiredList()` takes what expires before now, and
asserts that the rest expires later: for a timer that expires exactly now `HandleReadAborts` is
the default build, where the assertion fails, and `HandleRead` one with `NDEBUG`.

**ThreadPool.** A critical section is a step; `notify_one` picks any waiter, waits may
return spuriously, `running_` is also read outside the mutex.

**TcpConnection.** One connection.  `ioQueue` and `baseQueue` are the two loops' queues,
`Alive` is the `shared_ptr` count being positive.  Writes may be short, refused or
fail.  The calls of other threads are split between their test of `status_`, its
assignment and the queueing.  Who does what is the variable `setup`, chosen in the
initial state from the constant `Setups`: which threads send, shut down, close or keep a
pointer, whether the server is destroyed, and whether it has no I/O threads (`oneLoop`), so
that `runInLoop()` nests.  `revived` is a ghost: a `forceClose()` or `shutdown()` that had
tested `status_` assigned it after the loop had closed the connection
(`TcpConnection.cc:123`).  What follows is a second close; the properties of the connection's
life say so as their exception.

**TcpClient.** The loop's rounds are explicit (`phase`, `ready`), because what keeps an
attempt from meeting the channel of the last one is that `resetChannel()` is drained at the
end of the round.  `connect_` exists twice in the code; the client's is `clientConnect_`.
`connect()`, `stop()` and `disconnect()` of other threads are split at each assignment,
`removeConnection()` between its test and `restart()`.  `connect(2)` may proceed, be refused
(retry), or fail for good (`fatal`).

**Processor.** `ppc` is the thread's place in `run()` and `poll()`, `at` the place of each
coroutine: its loop, `ioHook()` before the call and after the yield, user code.  Only the
coroutine `cur` moves while `ppc = "co"`.  The processor's own coroutines differ from tasks
only in their `body`, and are recycled like them after `stop()`.  Time is abstracted to the order
of `sleepers`; what the code computes from it is a choice: `armed` is `"wrapped"` when
`resetTimerfd()` was called for a time already past and the `uint64_t` delay is centuries, and
`DealAborts` is the assertion of `getExpiredList()`, after which nothing moves (`Alive`).  User code keeps one coroutine per fd and one fd
per coroutine and does not sleep with an fd registered, because `coMap_` cannot express
more (see the hazard at `CoEpoll.cc:38`).

**IBuffer / Buffer / RingBuffer.** `this` is the object with the fields of the class and
`ok`, which an assertion that fails clears; `content` is the byte sequence the caller has in
mind.  Preconditions the class asserts of its caller's arguments are guards.  An action
is a public call; `makeSpace`, `Ensured`, `Written` are the private functions it is made of.
All overloads with a length are one action.

**Scheduler.** `spc` is the thread in `start()`, `opc` the owner in `startAsync()` and
`wait()`, `kpc` the caller of `stop()` or the thread that runs `joinThread()`, `life` each
processor from its thread's start to its destructor.  The two condition variables are split
between test, block and sleep, because `running_` and `quit_` are set without the mutex; a
notification that falls in between sets the ghost `lost`.  `Processor::run()` is reduced
to its beginning (which erases `stop_`) and its end.

**RpcServer.** The accepting coroutine, one handler coroutine per connection, `connMap_`
(`open`: connections whose socket the server holds), and the clients in `CallMethod()`.  `Valid`
are the calls whose header and arguments parse and whose service and method exist.  For the
others `connHandler()` returns without `shutdown()` (`Refuse`), or dereferences
`methodMap_.end()` (`MethodMissing`).  A valid call goes from "got" the request to the method
"ran" to the response "sent", and the process may crash in between; `responseStr` are the calls
whose response has bytes, which one with default values or one that fails to serialise has not.
A service runs its closure before it returns.  A handler
whose `recv()` had to wait has registered its fd, and only such a connection is erased
from `connMap_` at the end (`Processor.cc:87-93`).  After `stop()` hooked calls
return 8 (`Hook.cc:78`), which `recv()` takes for eight bytes and `startAccept()` for a
connection.  `crashed` is the process after a failed assertion or a use of a processor
that is gone.

Each module also holds, next to the action it varies, the plausible wrong versions
(dropped guard, missing wakeup, ...) that the properties are tested against.

## 3. What TLC checks

| Run | Instance | Shows |
|---|---|---|
| `mpsc_queue` | 2 producers, 3 addresses, 2 values | memory safety, no leak, refinement of FifoQueue, every value consumed |
| `event_loop_thread` | owner, 1 more thread, 2 functions, one of them early | no lost wakeup, functions run, quit ends the loop; published pointer live |
| `thread_pool` | 2 workers, 3 producers, 4 tasks (one submits tasks), queue of 2 | bound, no forgotten sleeper on either condition, tasks run, `stop()` returns |
| `epoll` | 3 channels on 2 fds | agreement of statuses, map, kernel, round |
| `timer_queue` | a repeating and a one-shot timer, clock to 6 | entries findable, cancelled stays out, timerfd armed, due timers run |
| `tcp_connection` | a sending thread with 3 messages of 2 bytes, both loop set-ups; and sending, closing, shutting threads with `~TcpServer()` | stream order, FIN after data, one DOWN and one `connectDestroyed()`, clean end, progress |
| `tcp_client` | 2 threads, 2 sockets, delays 1, 2, 3 | attempts never overlap, no socket leaked, `stop()` reaches an attempt, a lost connection is replaced |
| `processor` | 1 thread, 2 tasks, 2 coroutines for them, 1 socket | coroutines in one place and watched while they wait, pending tasks run, ready ones resume, `stop()` ends `run()` |
| `buffer` | prepend area 2, initial size 3, calls of up to 3 bytes, content up to 5 | content is that of a byte sequence, assertions hold |
| `rpc_server` | no or one work processor, 2 calls, one of them valid | processors exist while they may be picked, `wait()` returns after the last of them, answers are true, calls end |
| `event_loop_thread_join` | | **violated**: `quit()` before `loop()` is erased and the destructor's join never returns |
| `ring_buffer` | prepend area 2, initial size 6, calls of up to 3 bytes | **violated**: an append that ends at `capacity_` wraps the write index to 0, no room can be made any more, and the next append fails its assertion |

*Bounds.* Two producers are enough for every order of exchange and link, a third address
forces recycling.  Two foreign threads and the loop's own callbacks give every wakeup
race; a function that runs may be queued again, so two allow one to run, one to be hidden
and one published.  Three
producers on two places make a woken producer lose its place.  Messages of two bytes
make short writes; a high-water mark of three is crossed by the second message.
A client needs a socket for the connection being destroyed and one for the next attempt;
`MaxConnects` is 1, see below.  A buffer's calls are longer than the free space, the
prepend area and the content, so that each test in `makeSpace()` goes both ways, with every
content.  One work processor is enough for a connection to be handed to another thread; the
invariants of `rpc_server` also hold with two (5.8 million states), which the liveness
properties put out of reach of a short run.  Of two calls one is accepted or answered
while the other waits.  A processor with two tasks has one run, asleep or held
while the other is added, recycled or resumed; after `stop()` the own coroutines' objects are reused, too.  `MaxPending` and `MaxDowns` only stop repeated closes; `MaxClock` is the one bound on
time.  The clock's last value stands for all later ones, and the liveness property
leaves out expirations there.

*Fairness.* Threads inside a call and loops are scheduled (weak fairness); user
callbacks return; workers and joins go on.  The epoll timeout is fair only in
`ThreadTimedSpec`, where a join hangs in spite of it; the passing run does without it.  `TcpConnection` has strong
fairness for queued functions and ready sockets, as each iteration of the loop handles
all that is ready; for the same reason `TimerQueue` has fairness for the timerfd of its own, beside that of
the loop.  `TcpClient` assumes that epoll reports a
registered socket and a pending timer in the end, and that the server does not refuse
every one of infinitely many attempts.  `Processor` assumes that a task yields or ends, and
that a coroutine that always finds its fd ready sometimes does not, and that time goes on between two alarms (a sleeper that expired exactly at one, in a build without assertions, has expired by the next); the epoll timeout
is a premise of `EveryTaskRuns` only.  `RpcServer` has weak fairness for the steps of
each thread and coroutine and for the network, none for `stop()` or for clients that call.
No fairness for arrivals, user calls or spurious wakeups.
`CHECK_DEADLOCK FALSE` stands where a program may end.

### Other disagreements between code and comments

The model reaches these as well; a cfg with the formula as invariant shows a trace.

* `EventLoop.cc:133` "only callbacks of the loop thread need no wakeup": a function
  queued by the loop thread before `loop()` waits for the epoll timeout
  (`lpc = "wait" /\ Queue!Ready => wakeupFd_ \/ io \/ \E t \in Threads : pc[t] = "wakeup"`).
* `EventLoop.cc:262` says that the queue is deliberately not drained until empty; line 268
  drains it, so a steady supply of functions starves I/O and delays `quit()`.
* `EventLoop.cc:97`: the loop may be destroyed between `quit_ = true` and `wakeup()`
  (`opc = "quit" => alive` in EventLoopThread).
* `ThreadPool.cc:34` "finish all the work": `stop()` leaves queued tasks
  (`life = "stopped" => queue_ = <<>>`).
* `ITimerQueue.cc:72` "less than or equal to now": `lower_bound((now, nullptr))` leaves
  timers that expire exactly now, and the assertion at `:76` ends the default build (`DueTimersRun`
  without `"aborted"`); with `NDEBUG` they are caught by the next alarm.  The same holds for a
  processor's sleepers (`DealAborts`).
* `TimerQueue.cc:56`: a callback that cancels a timer whose `addTimerInLoop` another thread has
  queued only puts it into `cancelingTimers_`, and it is inserted afterwards
  (`CancelledStaysOut` without `overtaken`).
* `TcpServer.cc:29`: the destructor drops connections whose channels are registered
  (`CleanEnd` without `serverAlive`).
* `TcpConnection.h:80` "called when TcpServer has removed me, should be called only once":
  `forceClose()` overtaken between its test and its set of `status_` (`TcpConnection.cc:123`)
  closes again; the user gets a second DOWN, and `TcpServer.cc:83` asserts that the erased
  connection was in the map (`DestroyedOnce` without `revived`).
* `ITimerQueue.cc:19`: the difference to a time that has passed is taken in `uint64_t`, and
  the timerfd is armed for centuries (`FirstIsArmed` and `DueTimersRun` without `overdue`).  A
  processor's sleepers then sleep until an earlier one comes (`armed = "wrapped"`).
* `TcpConnection.cc:57` "thread safe, may be called across threads": `send()` of another
  thread queues `sendInLoop` bound to a raw `this` (line 65), not to `shared_from_this()` as
  `forceClose()` does.  The sender drops its pointer, `connectDestroyed()` runs, and the
  function is left with a destroyed connection
  (`(\E i \in 1..Len(ioQueue) : ioQueue[i].fn = "sendInLoop") => Alive` in TcpConnection).
* `Processor.cc:33` "wakes the epoll coroutine when something new comes": a task added
  between `addPendingTasksIntoQueue()` and `setEpolling(true)` wakes nobody and waits for the
  timeout of 10 s (`EveryTaskRuns` without its premise).
* `Processor.cc:67`: a `stop()` before `run()` is erased (`StopEndsRun` without
  `ppc # "before"`).
* `Processor.cc:85`: `load_` counts every `addTask()` of a coroutine but only its end, so
  it grows with each resumption.
* `Connector.h:35` "can be called in any thread": a second `connect()` finds a pending
  timer, an attempt or the `kConnected` that nothing resets, and the assertions at
  `Connector.cc:61` and `:122` fail (`StartIsSafe` with `MaxConnects = 2`).
* `Connector.h:37`: a `stop()` between `removeConnection()`'s test of `connect_` and
  `restart()` is undone by `restart()`; if that attempt is refused the timer goes on
  (`clientConnect_ = FALSE`, `connect_ = TRUE` and `timers = 1` with nothing queued).
* `Connector.cc:108`: after an error that is not retried nothing is reported to the user
  (`fatal`).
* `RingBuffer.cc:99` and `:177` wrap at `capacity_` where positions run to `totalSize_`.  Apart
  from the run: `readFd()` of 0 bytes sets `hasData_` (`:390-392`), and an empty buffer then
  looks full; `prepend()` to an empty buffer is invisible, because `hasData_` stays false.
* `Scheduler.cc:58` and `:181` set the flag and notify without the mutex that the waiting
  side holds at `:68` and `:74`: a notification may fall between test and sleep
  (`WaitReturns` without `lost`).
* `Scheduler.cc:58`: a `stop()` between `running_ = true` and the owner's test of it clears
  the flag, and `startAsync()` waits for ever (`WaitReturns` with `opc = "test"`).
* `Processor.cc:67` once more: a `stop()` that reaches a processor before its `run()` is
  erased, and `joinThread()` never returns (`WaitReturns` without the processors' `"run"`).
* `Scheduler.cc:102`: `addMainTask()` after a `stop()` fails its assertion (`crashed` in `Start`).
* `ProcessorThread.cc:11`: `~ProcessThread()` joins the thread that `joinThread()` has joined,
  which throws out of a destructor (`opc = "terminated"` with work processors).
* `Hook.cc:78`: the 8 that `accept()` returns after `stop()` is taken for a connection at
  `CoTcpServer.cc:66-77` (`crashed` in `AcceptResumes` and `Dies`).
* `Processor.cc:87-93`: the connection of a handler that never had to wait stays in
  `connMap_`; a client whose header or arguments do not parse or whose service is unknown
  (`RpcServer.cc:61`, `:73-76`, `:88-91`) waits until the processor dies (`EveryCallEnds` for all
  `Calls`).
* `RpcServer.cc:79-84`: a method that is not found is logged, and the iterator to nothing is
  dereferenced all the same (`crashed` in `MethodMissing`).
* `RpcChannel.cc:104-118`: `recv()` returning 0 is parsed as a successful, empty response
  (`cl[c] = "empty"`).  It comes from calls that had no effect, but also from methods that ran:
  `RpcServer.cc:113-118` sends nothing if serialisation fails, `CoTcpConnection.cc:98` writes
  nothing of an empty response (`AnswerIsTrue` without `responseStr`).
* `Scheduler.cc:40-44`: the limit of 100 processors is logged and then overwritten.
  `Scheduler.h:62`: `mainProc_` has no initial value.  `Scheduler.cc:169-171`: the index of the
  round robin is static and unsynchronised.  The model has none of these three.

## 4. What TLAPS proves

* **LoopQueueProofs**, MpscQueue (`TypeCorrect`, `MemorySafe`, `LeakFree`, `Refinement`): for any
  sets of producers, nodes and values.  The invariant is `TypeOK`, `Lifetime` (nobody is in a
  call while the queue is destroyed) and `ListInv`: the nodes from `tail_` to `head_` in
  exchange order (`chain`) are allocated and distinct, `next_` follows them except at gaps,
  and gaps correspond one to one to producers between exchange and link.  Memory
  safety is not inductive without it: that the node a producer links from has not been
  deleted follows only from its being the left end of a gap, which the consumer cannot
  pass.  The refinement maps `chain` without its first node to entries, visible where linked;
  `Exchange` is `Put`, `Link` is `Publish`, `Take` is `Get`, a load of null is an
  observation of emptiness.
* **EventLoopProofs**, EventLoop (`TypeCorrect`, `WakeupNotLost`, `QuitNotLost`): the inductive
  invariant adds to types that `iterated` is false before `loop()`, that a published
  front entry the drain has not seen (`Unseen`) has its wakeup under way, and
  `QuitIsSignalled`.  Nothing is assumed about the number of threads.
* **EventLoopProofs**, EventLoopThread (`UsesEventLoop`, `ThreadTypeCorrect`, `ThreadWakeupNotLost`,
  `PublishedIsAlive`): every step of the composition is a step of `EventLoop` or leaves it
  alone, so the theorems above hold in it; `Published` ties `loop_` and `alive` to the place
  of `threadFunc()`.
* **LoopIoProofs**, Epoll (`EpollTypeCorrect`, `StatusCorrect`, `InterestCorrect`,
  `NeverDangling`): for any channels, any number of which may be alive on one fd.  The four
  together are inductive once it is added that an object that is not alive has the fields of a
  new one (`GoneIsBlank`), that a channel epoll knows is flagged as added (`Flagged`), and that the
  channels left in a round are active, registered and not the current one (`Round`).
* **LoopIoProofs**, Buffer (`ContentCorrect`, `NoAssertionFails`): for all sizes of the prepend
  area and the first buffer, and data of any length.  The invariant is that `this` is a vector with two
  indices in order and `ok` set (`Wf`), and that the bytes between them are `content`.  Lemmas
  on vectors say what copying behind, in front of or onto the indices and resizing do to those
  bytes; lemmas on the object lift them to `Written`, `makeSpace`, `Ensured` and the
  public calls.  That `makeSpace()`'s assertion holds is the arithmetic of its two tests; that
  `readFd()` keeps order is associativity of concatenation.  The run's `MCSpec` is `BufferSpec`
  with bounded data.
* **LoopQueueProofs**, TimerQueue (`TimerInvariant`, `EntriesAreAlwaysCurrent`,
  `CancelledAlwaysStaysOut`, `FirstIsAlwaysArmed`): for any timers, intervals and clock.
  The entries of the current round (`expiredList`) count as held like the queued ones, both
  kinds disjoint and current (`HeldIsCurrent`); a queued `addTimerInLoop` is the first function
  for its timer, which is not held, and not cancelled unless `overtaken` (`AddComesFirst`); a cancelled timer that is
  held is in the canceling set until `reset()` (`CancelIsKept`).  The alarm is the invariant
  `AlarmIsSoon`; `ExpirationIsNear` bounds the times, so that `howMuchTimeFromNow()` does not
  wrap for a time to come.  `first` is a `CHOOSE`, and that it chooses a least entry comes
  from the well-foundedness of `<` on the naturals.
* **ThreadPoolProofs** (`PoolInvariant`, `WorkIsAlwaysClaimed`, `SpaceIsAlwaysClaimed`): the two
  claims are inductive with the types, `Fresh` (no workers before `start()`) and `Carries` (who
  waits for a place has a task).  The proof counts threads: each step moves at most one
  from one set to another, and `notify_one` moves one sleeper exactly when there is one.
* **TcpConnectionProofs** (`ConnInvariant`, `WireAlwaysInOrder`, `FinIsAlwaysLast`,
  `PendingIsAlwaysWatched`, `DestroyedAlwaysOnce`, `EndIsAlwaysClean`): for any threads,
  messages and set-ups.  The life of a connection has four parts: `Young` (only the server knows
  it), `Live` (registered, in the map, nothing removes it), `Dead` (exactly one of: about to be
  removed, `connectDestroyed` queued once, destroyed), `Late` (who was revived had been closed).
  `DestroyedOnce` is not inductive without them: that a removal finds the map entry depends on
  what both queues hold.  The byte stream needs that output is lost only on a broken socket
  (`LossIsFinal`) and that a queued `sendInLoop` is bound to a message (`Carries`).
* **TcpClientProofs** (`ClientInvariant`, `StartIsAlwaysSafe`, `SocketsAlwaysOwned`,
  `StopAlwaysReaches`): for any threads, sockets and delays.  At most one of these makes the next
  attempt: the first `startInLoop` (`OneStart`), the retry timer, the attempt under way, or the
  connection when it is closed (`OneAttempt`).  A removed channel has exactly one `resetChannel`
  queued, in front of any `forceCloseInLoop` that could lead to `restart()` (`OneReset`), and what
  epoll reported is still true when it is handled (`Round`); both are what the rounds of the loop
  guarantee.  `Owned` says which connections wait for `connectDestroyed`.  The first three
  have the hypothesis `MaxConnects <= 1`, since the assertions do fail with two (section 3).
  `StopAlwaysReaches` has none; its invariant `StopInv` uses weaker types, since with two
  `connect()`s a connection that does not exist may be removed.
* **RpcServerProofs** (`RpcInvariant`, `RunningIsAlwaysComplete`, `WaitedForAllAlways`,
  `AnswerIsAlwaysTrue`): for any number of work processors and any calls.  `Building` says how far
  `start()` has come, `Unstopped` that nothing ends before `stop()`, `Stopping` that `quit_`
  follows the join of all and `wait()` follows `quit_`.  An answer without bytes means no effect,
  no bytes to send or a crash, because a response with bytes is with the client once it is sent
  (`Answered`) and a processor does not end between the method and that (`Kept`), a socket is
  closed only after its handler (`Closed`), which in turn holds because connections are accepted
  once (`Backlog`) and dealt out to processors that exist (`Dealt`).
* **ProcessorProofs**: for any threads, tasks, sockets and any finite number of coroutines, along
  three invariants, the second and third on top of the first.
  * `ProcInv` gives `OnePlaceAlways`.  `OnePlace` counts; `Places` says the same with sets: nothing is
    twice in a queue, the queues are disjoint, and a coroutine is in none exactly if it is held,
    runs, or has ended and is not recycled yet.  It needs that `coMap_` and `fd_` are inverse to
    each other (`Registered`: an event resumes the one that is held, which is in no queue), that
    who runs or is runnable is in state EXEC (`Executing`), that `ioHook()` waits only for an fd its
    coroutine may have (`InHook`), that the eventfd and the timerfd belong to one coroutine
    each (`OwnFds`), and that there is an idle coroutine for every pending task (`Enough`, the
    model's bound).  Lemmas on sequences say what `push`, `pop`, splitting and inserting do to who
    is in a queue.
  * `PollInv` gives `StopIsAlwaysNoticed` and `SleepersAreAlwaysAlarmed`, the safety part of
    `StopEndsRun` and of what a sleeper is promised: while `poll()` waits, a `stop()` has made the
    eventfd readable or its thread will, and a sleeper has an armed or an expired timerfd (unless
    it was armed for the past), and epoll reports both.  The last part is the subtle one (`OwnAreHeld`): when the run queue is
    empty and `stop_` has not been seen, the two own coroutines have nowhere to be but held
    by their fds.
  * `TaskInv` gives `TaskIsRunOnce` and `TasksAreHandedOver`, the safety part of `EveryTaskRuns`: a
    task is pending or in one coroutine, it leaves `pendingTasks_` only for a coroutine in the run
    queue, and none is started twice.
  `ProcInv`, `PollInv`, `TaskInv` and the step `HandsOver` were checked by TLC on the instance of
  the run `processor` (197906 states) before they were proved.

Assumptions are the named `ASSUME`s of the modules, on the constants only; TLC
evaluates them in every run.  They say that what stands for "none" is no element, that sizes,
delays and bounds are numbers (the clock has more than one value), that threads of a pool and
coroutines created in advance are finitely many, that times are small against the word, and that a socket is not one of the names
of the client's other event sources.  The type invariants of MpscQueue, EventLoop,
EventLoopThread and Epoll, `QuitIsSignalled` and `InterestIsCurrent` are proved and
therefore no longer part of a run.

Only model-checked, because the prover has no liveness under fairness: all `~>` properties.
RingBuffer's run shows a violation, so there is nothing to prove.

## 5. Not modelled, and the plan

Not modelled at all:

* sockets and address wrappers, logging, strings, time stamps, environment, exceptions:
  system calls and formatting without control of their own; generated protobuf code, the
  context-switch assembly, everything in `deprecated/` and `thirdparty/`;
* `EventLoopThreadPool` and `Acceptor`: sequential code of the base loop's thread around
  what EventLoopThread and TcpConnection model (a round robin, one `accept()` per event);
* `CountDownLatch`, `Atomic`, `Singleton`, `RWmutex`: one standard primitive each;
* `Config`: reading a file and evaluating text character by character, sequentially;
* the MySQL layer: wrappers of a client library whose state is the server's.

Left out of modelled components: `~TcpClient()`, whose queued functions use a destroyed
object; `send(IBuffer&)` from another thread, which sends what the caller's memory holds by
then; exceptions of tasks, which abort; socket options and urgent data; `load_` of
`Processor`; timers with callbacks and `cancel()` of `CoTimerQueue`, where sets are changed
without their mutex; integers' byte order, searches and `swap()` of the buffers; EMFILE, partial
writes and cross-thread `send()` of the coroutine server; the segments of an RPC request
(`RpcServer.cc:49` is a todo for them).  Data races (`connMap_`, `CoTimerQueue`, the static
index) are listed as hazards: their outcome is not bounded by anything in the code.

What is left to prove is liveness: for EventLoop, Processor, ThreadPool and TimerQueue the
theorems above exclude the lost wakeup that would refute it, but that a step which is possible is
taken stays with TLC.
