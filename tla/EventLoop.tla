----------------------------- MODULE EventLoop -----------------------------
(***************************************************************************)
(* burger/net/EventLoop.cc: one loop thread that waits in epoll, handles   *)
(* active channels and then runs the functions other threads (or its own   *)
(* callbacks) queued with queueInLoop(), and the eventfd that wakes it.    *)
(* The queue is used through the promise FifoQueue makes, so a producer    *)
(* may be stopped between taking its place in the queue and publishing it. *)
(* Besides the wakeup channel there is one I/O channel; its callback and   *)
(* the queued functions are user code that may call queueInLoop() and      *)
(* quit() any number of times.  runInLoop() called by another thread is    *)
(* queueInLoop(); called by the loop thread it is a plain call.            *)
(***************************************************************************)
EXTENDS Naturals, Sequences, FiniteSets

CONSTANTS Threads,      \* threads other than the loop thread
          Funcs,        \* functions that are queued; each at most once at a time
          EarlyFuncs,   \* those the loop thread itself queues before loop()
          NoFunc, Nothing, Something

ASSUME FuncAssumption ==
    /\ EarlyFuncs \subseteq Funcs
    /\ {NoFunc, Nothing, Something} \cap Funcs = {}
    /\ NoFunc # Nothing /\ NoFunc # Something /\ Nothing # Something

VARIABLES queueFuncs_,  \* the queue's contents, see FifoQueue
          func,         \* what doQueueInLoopFuncs got from the queue last
          lpc,          \* where the loop thread is
          looping_, quit_,
          activeChannels_,   \* of the active channels those still to handle
          iterated,     \* iteration_ > 0
          wakeupFd_,    \* the eventfd is readable
          io,           \* the I/O channel is readable
          pc,           \* where each other thread is inside queueInLoop()/quit()
          arg           \* the function it queues

loopVars == <<queueFuncs_, func, lpc, looping_, quit_, activeChannels_,
              iterated, wakeupFd_, io, pc, arg>>

Queue == INSTANCE FifoQueue
            WITH Values <- Funcs, NoValue <- NoFunc, q <- queueFuncs_, res <- func

Entry == [val : Funcs, visible : BOOLEAN]

LoopTypeOK ==
    /\ queueFuncs_ \in Seq(Entry)
    /\ func \in Funcs \cup {NoFunc, Nothing, Something}
    /\ lpc \in {"before", "while", "wait", "events", "callback", "empty", "dequeue",
                "run", "ended"}
    /\ looping_ \in BOOLEAN /\ quit_ \in BOOLEAN
    /\ activeChannels_ \subseteq {"wakeup", "io"}
    /\ iterated \in BOOLEAN /\ wakeupFd_ \in BOOLEAN /\ io \in BOOLEAN
    /\ pc \in [Threads -> {"idle", "publish", "wakeup"}]
    /\ arg \in [Threads -> Funcs \cup {NoFunc}]
    /\ lpc = "run" => func \in Funcs      \* what is called is a function
    /\ looping_ <=> lpc \notin {"before", "ended"}

\* f has its place in the queue.
Queued(f) == \E i \in 1..Len(queueFuncs_) : queueFuncs_[i].val = f

\* EventLoop(): the wakeup channel is registered, nothing is queued.
LoopInit ==
    /\ Queue!FifoInit
    /\ lpc = "before" /\ looping_ = FALSE /\ quit_ = FALSE
    /\ activeChannels_ = {} /\ iterated = FALSE
    /\ wakeupFd_ = FALSE /\ io = FALSE
    /\ pc = [t \in Threads |-> "idle"]
    /\ arg = [t \in Threads |-> NoFunc]

-----------------------------------------------------------------------------
(* Other threads.                                                          *)

\* queueInLoop(f): enqueue() exchanges the node into the queue.
QueueInLoop(t, f) ==
    /\ pc[t] = "idle" /\ ~ Queued(f)
    /\ Queue!Put(f)
    /\ pc' = [pc EXCEPT ![t] = "publish"]
    /\ arg' = [arg EXCEPT ![t] = f]
    /\ UNCHANGED <<lpc, looping_, quit_, activeChannels_, iterated, wakeupFd_, io>>

\* ... and links it; isInLoopThread() is false, so wakeup() follows.
Enqueued(t) ==
    /\ pc[t] = "publish"
    /\ \E i \in 1..Len(queueFuncs_) : queueFuncs_[i].val = arg[t] /\ Queue!Publish(i)
    /\ pc' = [pc EXCEPT ![t] = "wakeup"]
    /\ UNCHANGED <<lpc, looping_, quit_, activeChannels_, iterated, wakeupFd_, io, arg>>

\* wakeup() that only writes while the loop thread sits in epoll_wait.
WakeupIfWaiting(t) ==
    /\ pc[t] = "wakeup"
    /\ wakeupFd_' = (wakeupFd_ \/ lpc = "wait")
    /\ pc' = [pc EXCEPT ![t] = "idle"]
    /\ UNCHANGED <<queueFuncs_, func, lpc, looping_, quit_, activeChannels_, iterated, io, arg>>

\* wakeup(): write to the eventfd, then the caller returns.
Wakeup(t) ==
    /\ pc[t] = "wakeup"
    /\ wakeupFd_' = TRUE
    /\ pc' = [pc EXCEPT ![t] = "idle"]
    /\ UNCHANGED <<queueFuncs_, func, lpc, looping_, quit_, activeChannels_, iterated, io, arg>>

\* quit() that does not wake the loop thread.
QuitSilently(t) ==
    /\ pc[t] = "idle"
    /\ quit_' = TRUE
    /\ UNCHANGED <<queueFuncs_, func, lpc, looping_, activeChannels_, iterated, wakeupFd_, io,
                   pc, arg>>

\* quit(): quit_ = true; not in the loop thread, so wakeup() follows.
Quit(t) ==
    /\ pc[t] = "idle"
    /\ quit_' = TRUE
    /\ pc' = [pc EXCEPT ![t] = "wakeup"]
    /\ UNCHANGED <<queueFuncs_, func, lpc, looping_, activeChannels_, iterated, wakeupFd_, io, arg>>

\* The kernel makes the I/O channel readable.
IoArrives ==
    /\ ~ io
    /\ io' = TRUE
    /\ UNCHANGED <<queueFuncs_, func, lpc, looping_, quit_, activeChannels_, iterated,
                   wakeupFd_, pc, arg>>

-----------------------------------------------------------------------------
(* The loop thread.                                                        *)

\* enqueue() by the loop thread: nobody else looks at next_, so exchange and
\* link are one step here.
EnqueueInLoop(f) ==
    /\ ~ Queued(f)
    /\ queueFuncs_' = Append(queueFuncs_, [val |-> f, visible |-> TRUE])
    /\ UNCHANGED func

\* queueInLoop(f) in the loop thread before loop(): no wakeup().
QueueBeforeLoop(f) ==
    /\ lpc = "before" /\ f \in EarlyFuncs
    /\ EnqueueInLoop(f)
    /\ UNCHANGED <<lpc, looping_, quit_, activeChannels_, iterated, wakeupFd_, io, pc, arg>>

\* loop(): looping_ = true; quit_ = false.
LoopEnter ==
    /\ lpc = "before"
    /\ looping_' = TRUE /\ quit_' = FALSE
    /\ lpc' = "while"
    /\ UNCHANGED <<queueFuncs_, func, activeChannels_, iterated, wakeupFd_, io, pc, arg>>

\* while(!quit_)
WhileTest ==
    /\ lpc = "while"
    /\ activeChannels_' = {}
    /\ lpc' = IF quit_ THEN "ended" ELSE "wait"
    /\ looping_' = ~ quit_
    /\ UNCHANGED <<queueFuncs_, func, quit_, iterated, wakeupFd_, io, pc, arg>>

readyChannels == {c \in {"wakeup", "io"} : IF c = "io" THEN io ELSE wakeupFd_}

\* epoll_->wait() returns with the channels that are ready.
WaitReturns ==
    /\ lpc = "wait" /\ readyChannels # {}
    /\ activeChannels_' = readyChannels
    /\ iterated' = TRUE
    /\ lpc' = "events"
    /\ UNCHANGED <<queueFuncs_, func, looping_, quit_, wakeupFd_, io, pc, arg>>

\* epoll_->wait() returns after kEpollTimesMs with nothing ready.
WaitTimesOut ==
    /\ lpc = "wait" /\ readyChannels = {}
    /\ iterated' = TRUE
    /\ lpc' = "events"
    /\ UNCHANGED <<queueFuncs_, func, looping_, quit_, activeChannels_, wakeupFd_, io, pc, arg>>

\* The wakeup channel's handleEvent(): read() empties the eventfd.
HandleWakeupFd ==
    /\ lpc = "events" /\ "wakeup" \in activeChannels_
    /\ wakeupFd_' = FALSE
    /\ activeChannels_' = activeChannels_ \ {"wakeup"}
    /\ UNCHANGED <<queueFuncs_, func, lpc, looping_, quit_, iterated, io, pc, arg>>

\* The I/O channel's handleEvent(): the callback consumes the event.
HandleIo ==
    /\ lpc = "events" /\ "io" \in activeChannels_
    /\ io' = FALSE
    /\ activeChannels_' = activeChannels_ \ {"io"}
    /\ lpc' = "callback"
    /\ UNCHANGED <<queueFuncs_, func, looping_, quit_, iterated, wakeupFd_, pc, arg>>

\* All active channels are handled: doQueueInLoopFuncs() begins.
EventsHandled ==
    /\ lpc = "events" /\ activeChannels_ = {}
    /\ lpc' = "empty"
    /\ UNCHANGED <<queueFuncs_, func, looping_, quit_, activeChannels_, iterated, wakeupFd_, io,
                   pc, arg>>

\* while(!queueFuncs_.empty())
EmptyTest ==
    /\ lpc = "empty"
    /\ \/ Queue!ReportSomething /\ lpc' = "dequeue"
       \/ Queue!ReportNothing /\ lpc' = "while"
    /\ UNCHANGED <<looping_, quit_, activeChannels_, iterated, wakeupFd_, io, pc, arg>>

\* while(queueFuncs_.dequeue(func)): true runs func, false tests empty() again.
Dequeue ==
    /\ lpc = "dequeue"
    /\ \/ Queue!Get /\ lpc' = "run"
       \/ Queue!ReportNothing /\ lpc' = "empty"
    /\ UNCHANGED <<looping_, quit_, activeChannels_, iterated, wakeupFd_, io, pc, arg>>

\* User code in the loop thread calls queueInLoop(f): no wakeup() either.
UserQueues(f) ==
    /\ lpc \in {"callback", "run"}
    /\ EnqueueInLoop(f)
    /\ UNCHANGED <<lpc, looping_, quit_, activeChannels_, iterated, wakeupFd_, io, pc, arg>>

\* User code in the loop thread calls quit().
UserQuits ==
    /\ lpc \in {"callback", "run"}
    /\ quit_' = TRUE
    /\ UNCHANGED <<queueFuncs_, func, lpc, looping_, activeChannels_, iterated, wakeupFd_, io,
                   pc, arg>>

\* A function that has run sends the loop back to epoll although more is queued.
UserReturnsToWhile ==
    /\ lpc \in {"callback", "run"}
    /\ lpc' = IF lpc = "run" THEN "while" ELSE "events"
    /\ UNCHANGED <<queueFuncs_, func, looping_, quit_, activeChannels_, iterated, wakeupFd_, io,
                   pc, arg>>

\* func() or the channel's callback returns.
UserReturns ==
    /\ lpc \in {"callback", "run"}
    /\ lpc' = IF lpc = "run" THEN "dequeue" ELSE "events"
    /\ UNCHANGED <<queueFuncs_, func, looping_, quit_, activeChannels_, iterated, wakeupFd_, io,
                   pc, arg>>

-----------------------------------------------------------------------------
ThreadNext(t) ==
    \/ \E f \in Funcs : QueueInLoop(t, f)
    \/ Enqueued(t) \/ Wakeup(t) \/ Quit(t)

\* What the loop thread does by itself, once it is scheduled.
LoopStep ==
    \/ LoopEnter \/ WhileTest \/ WaitReturns
    \/ HandleWakeupFd \/ HandleIo \/ EventsHandled
    \/ EmptyTest \/ Dequeue \/ UserReturns

UserNext == (\E f \in Funcs : UserQueues(f)) \/ UserQuits

LoopNext ==
    \/ \E t \in Threads : ThreadNext(t)
    \/ LoopStep \/ WaitTimesOut \/ UserNext
    \/ \E f \in Funcs : QueueBeforeLoop(f)
    \/ IoArrives

LoopSpec == LoopInit /\ [][LoopNext]_loopVars

(***************************************************************************)
(* Fairness: the loop thread and a thread inside queueInLoop()/quit() are  *)
(* eventually scheduled, and user code returns.  The epoll timeout is not  *)
(* assumed: what holds here holds without waiting kEpollTimesMs.           *)
(***************************************************************************)
LoopFairSpec ==
    /\ LoopSpec
    /\ WF_loopVars(LoopStep)
    /\ \A t \in Threads : WF_loopVars(Enqueued(t)) /\ WF_loopVars(Wakeup(t))

-----------------------------------------------------------------------------
(***************************************************************************)
(* No lost wakeup: while the loop thread tests quit_ or waits in epoll and *)
(* the queue's oldest function is there to be run, the eventfd is readable *)
(* or some thread is still about to write it.  Functions queued in the     *)
(* loop thread by callbacks or other functions need no wakeup() because    *)
(* doQueueInLoopFuncs drains until empty() - even if a stalled producer's  *)
(* gap made it report empty too early.  Functions queued by the loop       *)
(* thread before loop() are excepted until the first iteration.            *)
(***************************************************************************)
NoLostWakeup ==
    lpc \in {"while", "wait"} /\ Queue!Ready /\ (iterated \/ EarlyFuncs = {}) =>
        wakeupFd_ \/ \E t \in Threads : pc[t] = "wakeup"

(***************************************************************************)
(* The loop thread does not sleep in epoll_wait on a quit_ that is set,    *)
(* unless the caller of quit() has yet to write the eventfd.               *)
(***************************************************************************)
QuitIsSignalled ==
    lpc = "wait" /\ quit_ => wakeupFd_ \/ \E t \in Threads : pc[t] = "wakeup"

(***************************************************************************)
(* A queued function is run in the end, or loop() returns, without waiting *)
(* for the epoll timeout; only what the loop thread queued before loop()   *)
(* has to wait for the first iteration.                                    *)
(***************************************************************************)
EveryFuncRuns ==
    \A f \in Funcs :
        Queued(f) /\ (iterated \/ f \notin EarlyFuncs)
            ~> (lpc = "run" /\ func = f) \/ lpc = "ended"

(***************************************************************************)
(* Once loop() has begun, quit() from any thread or callback makes it      *)
(* return - unless functions keep arriving (from other threads or from     *)
(* each other) and are run for ever: quit_ is not looked at while          *)
(* doQueueInLoopFuncs still finds one.                                     *)
(***************************************************************************)
QuitEndsLoop ==
    \/ (quit_ /\ lpc # "before") ~> (lpc = "ended")
    \/ []<>(lpc = "run")
=============================================================================
