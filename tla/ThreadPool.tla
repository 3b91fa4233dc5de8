----------------------------- MODULE ThreadPool -----------------------------
(***************************************************************************)
(* burger/base/ThreadPool.cc: a bounded blocking queue of tasks between    *)
(* the callers of run() and the worker threads, and stop().  A critical    *)
(* section of mutex_ is one step; what happens outside of it - the test    *)
(* of running_ in runInThread(), run()'s notify_one() after the unlock,    *)
(* the tasks themselves - are steps of their own.  A thread that waits on  *)
(* a condition variable is woken by a notify or spuriously, and tests its  *)
(* predicate again under the mutex before it goes on.                      *)
(***************************************************************************)
EXTENDS Naturals, Sequences, FiniteSets

CONSTANTS Workers,        \* the numThreads threads of start()
          Producers,      \* other threads that call run()
          Tasks,          \* each submitted at most once at a time
          Spawners,       \* tasks that call run() themselves
          MaxQueueSize,   \* maxQueueSize_; 0 means unbounded
          NoTask          \* an empty Task

ASSUME PoolAssumption ==
    /\ IsFiniteSet(Workers) /\ IsFiniteSet(Producers) /\ Workers # {}
    /\ Workers \cap Producers = {}
    /\ Spawners \subseteq Tasks /\ NoTask \notin Tasks
    /\ MaxQueueSize \in Nat

Callers == Workers \cup Producers

VARIABLES queue_, running_,
          life,      \* "new", "started", "joining" (in stop()) or "stopped"
          rpc,       \* where a thread is inside run()
          arg,       \* the task it submits
          wpc,       \* where a worker is inside runInThread()
          exec       \* the task a thread is executing

poolVars == <<queue_, running_, life, rpc, arg, wpc, exec>>

PoolTypeOK ==
    /\ queue_ \in Seq(Tasks)
    /\ MaxQueueSize > 0 => Len(queue_) <= MaxQueueSize     \* assert(!isFull())
    /\ running_ \in BOOLEAN
    /\ life \in {"new", "started", "joining", "stopped"}
    /\ rpc \in [Callers -> {"idle", "enter", "wait", "notify"}]
    /\ arg \in [Callers -> Tasks \cup {NoTask}]
    /\ wpc \in [Workers -> {"none", "while", "take", "wait", "run", "exited"}]
    /\ exec \in [Callers -> Tasks \cup {NoTask}]
    /\ \A w \in Workers : wpc[w] = "run" <=> exec[w] # NoTask

PoolInit ==
    /\ queue_ = <<>> /\ running_ = FALSE
    /\ life = "new"
    /\ rpc = [c \in Callers |-> "idle"]
    /\ arg = [c \in Callers |-> NoTask]
    /\ wpc = [w \in Workers |-> "none"]
    /\ exec = [c \in Callers |-> NoTask]

isFull == MaxQueueSize > 0 /\ Len(queue_) >= MaxQueueSize

\* t is neither queued, nor being submitted, nor being executed.
Free(t) ==
    /\ \A i \in 1..Len(queue_) : queue_[i] # t
    /\ \A c \in Callers : arg[c] # t /\ exec[c] # t

\* Threads blocked on cvNotEmpty_ and on cvNotFull_.
waitNotEmpty == {w \in Workers : wpc[w] = "wait"}
waitNotFull == {c \in Callers : rpc[c] = "wait"}

\* notify_one() on cvNotEmpty_ / cvNotFull_: some waiter, if any, tests again.
NotifyNotEmpty ==
    IF waitNotEmpty = {} THEN wpc' = wpc
    ELSE \E w \in waitNotEmpty : wpc' = [wpc EXCEPT ![w] = "take"]

NotifyNotFull ==
    IF waitNotFull = {} THEN rpc' = rpc
    ELSE \E c \in waitNotFull : rpc' = [rpc EXCEPT ![c] = "enter"]

-----------------------------------------------------------------------------
\* A thread may call run(): a producer any time, a worker from inside a task.
MayRun(c) ==
    /\ rpc[c] = "idle"
    /\ c \in Producers => exec[c] = NoTask
    /\ c \in Workers => exec[c] \in Spawners

\* start(numThreads): running_ = true, the workers are created.
Start ==
    /\ life = "new"
    /\ running_' = TRUE
    /\ life' = "started"
    /\ wpc' = [w \in Workers |-> "while"]
    /\ UNCHANGED <<queue_, rpc, arg, exec>>

\* run(t) while threads_ is empty: the caller executes t itself.
RunInline(c, t) ==
    /\ life = "new" /\ MayRun(c) /\ Free(t)
    /\ exec' = [exec EXCEPT ![c] = t]
    /\ UNCHANGED <<queue_, running_, life, rpc, arg, wpc>>

InlineDone(c) ==
    /\ c \in Producers /\ exec[c] # NoTask
    /\ exec' = [exec EXCEPT ![c] = NoTask]
    /\ UNCHANGED <<queue_, running_, life, rpc, arg, wpc>>

\* run(t) goes for the mutex.
RunEnter(c, t) ==
    /\ life # "new" /\ MayRun(c) /\ Free(t)
    /\ rpc' = [rpc EXCEPT ![c] = "enter"]
    /\ arg' = [arg EXCEPT ![c] = t]
    /\ UNCHANGED <<queue_, running_, life, wpc, exec>>

\* The wait's predicate is false: block on cvNotFull_.
RunBlocks(c) ==
    /\ rpc[c] = "enter" /\ isFull /\ running_
    /\ rpc' = [rpc EXCEPT ![c] = "wait"]
    /\ UNCHANGED <<queue_, running_, life, arg, wpc, exec>>

\* if(!running_) return: the task is dropped.
RunRefused(c) ==
    /\ rpc[c] = "enter" /\ ~ running_
    /\ rpc' = [rpc EXCEPT ![c] = "idle"]
    /\ arg' = [arg EXCEPT ![c] = NoTask]
    /\ UNCHANGED <<queue_, running_, life, wpc, exec>>

\* queue_.emplace_back(task), unlock.
RunPushes(c) ==
    /\ rpc[c] = "enter" /\ ~ isFull /\ running_
    /\ queue_' = Append(queue_, arg[c])
    /\ rpc' = [rpc EXCEPT ![c] = "notify"]
    /\ arg' = [arg EXCEPT ![c] = NoTask]
    /\ UNCHANGED <<running_, life, wpc, exec>>

\* A notify that is only sent to a pool that was empty before the push.
RunNotifiesIfFirst(c) ==
    /\ rpc[c] = "notify"
    /\ rpc' = [rpc EXCEPT ![c] = "idle"]
    /\ IF Len(queue_) <= 1 THEN NotifyNotEmpty ELSE wpc' = wpc
    /\ UNCHANGED <<queue_, running_, life, arg, exec>>

\* cvNotEmpty_.notify_one(), after the unlock; run() returns.
RunNotifies(c) ==
    /\ rpc[c] = "notify"
    /\ rpc' = [rpc EXCEPT ![c] = "idle"]
    /\ NotifyNotEmpty
    /\ UNCHANGED <<queue_, running_, life, arg, exec>>

-----------------------------------------------------------------------------
\* while (running_), read without the mutex.
WhileTest(w) ==
    /\ wpc[w] = "while"
    /\ wpc' = [wpc EXCEPT ![w] = IF running_ THEN "take" ELSE "exited"]
    /\ UNCHANGED <<queue_, running_, life, rpc, arg, exec>>

\* A wait() on cvNotEmpty_ without predicate: a task pushed before it is missed.
TakeBlocksUntested(w) ==
    /\ wpc[w] = "take" /\ running_
    /\ wpc' = [wpc EXCEPT ![w] = "wait"]
    /\ UNCHANGED <<queue_, running_, life, rpc, arg, exec>>

\* take(): nothing to do yet, block on cvNotEmpty_.
TakeBlocks(w) ==
    /\ wpc[w] = "take" /\ queue_ = <<>> /\ running_
    /\ wpc' = [wpc EXCEPT ![w] = "wait"]
    /\ UNCHANGED <<queue_, running_, life, rpc, arg, exec>>

\* take() that tells nobody about the place it has made.
TakesSilently(w) ==
    /\ wpc[w] = "take" /\ queue_ # <<>>
    /\ exec' = [exec EXCEPT ![w] = Head(queue_)]
    /\ queue_' = Tail(queue_)
    /\ wpc' = [wpc EXCEPT ![w] = "run"]
    /\ UNCHANGED <<running_, life, rpc, arg>>

\* take() pops a task and, if the queue is bounded, notifies cvNotFull_.
Takes(w) ==
    /\ wpc[w] = "take" /\ queue_ # <<>>
    /\ exec' = [exec EXCEPT ![w] = Head(queue_)]
    /\ queue_' = Tail(queue_)
    /\ wpc' = [wpc EXCEPT ![w] = "run"]
    /\ IF MaxQueueSize > 0 THEN NotifyNotFull ELSE rpc' = rpc
    /\ UNCHANGED <<running_, life, arg>>

\* take() on an empty stopped pool returns an empty task; nothing is run.
TakesNothing(w) ==
    /\ wpc[w] = "take" /\ queue_ = <<>> /\ ~ running_
    /\ wpc' = [wpc EXCEPT ![w] = "while"]
    /\ UNCHANGED <<queue_, running_, life, rpc, arg, exec>>

\* task() returns.
TaskDone(w) ==
    /\ wpc[w] = "run" /\ rpc[w] = "idle"
    /\ exec' = [exec EXCEPT ![w] = NoTask]
    /\ wpc' = [wpc EXCEPT ![w] = "while"]
    /\ UNCHANGED <<queue_, running_, life, rpc, arg>>

\* Condition variables may wake a waiter without a notify.
SpuriousWakeup ==
    \/ \E w \in waitNotEmpty :
        /\ wpc' = [wpc EXCEPT ![w] = "take"]
        /\ UNCHANGED <<queue_, running_, life, rpc, arg, exec>>
    \/ \E c \in waitNotFull :
        /\ rpc' = [rpc EXCEPT ![c] = "enter"]
        /\ UNCHANGED <<queue_, running_, life, arg, wpc, exec>>

-----------------------------------------------------------------------------
\* stop() that wakes one worker only.
StopNotifyingOne ==
    /\ life = "started"
    /\ running_' = FALSE
    /\ NotifyNotEmpty
    /\ rpc' = [c \in Callers |-> IF c \in waitNotFull THEN "enter" ELSE rpc[c]]
    /\ life' = "joining"
    /\ UNCHANGED <<queue_, arg, exec>>

\* stop(): under the mutex running_ = false and both notify_all(); then join.
Stop ==
    /\ life = "started"
    /\ running_' = FALSE
    /\ wpc' = [w \in Workers |-> IF w \in waitNotEmpty THEN "take" ELSE wpc[w]]
    /\ rpc' = [c \in Callers |-> IF c \in waitNotFull THEN "enter" ELSE rpc[c]]
    /\ life' = "joining"
    /\ UNCHANGED <<queue_, arg, exec>>

Joined ==
    /\ life = "joining" /\ \A w \in Workers : wpc[w] = "exited"
    /\ life' = "stopped"
    /\ UNCHANGED <<queue_, running_, rpc, arg, wpc, exec>>

-----------------------------------------------------------------------------
RunStep(c) == RunBlocks(c) \/ RunRefused(c) \/ RunPushes(c) \/ RunNotifies(c) \/ InlineDone(c)

WorkerStep(w) ==
    WhileTest(w) \/ TakeBlocks(w) \/ Takes(w) \/ TakesNothing(w) \/ TaskDone(w)

PoolNext ==
    \/ Start \/ Stop \/ Joined \/ SpuriousWakeup
    \/ \E c \in Callers : RunStep(c) \/ \E t \in Tasks : RunInline(c, t) \/ RunEnter(c, t)
    \/ \E w \in Workers : WorkerStep(w)

PoolSpec == PoolInit /\ [][PoolNext]_poolVars

(***************************************************************************)
(* Fairness: threads that are not blocked are scheduled, and a task        *)
(* returns (strongly fair, because a task that spawns may call run() any   *)
(* finite number of times first).  Nothing is assumed of spurious wakeups. *)
(***************************************************************************)
PoolFairSpec ==
    /\ PoolSpec
    /\ \A c \in Callers : WF_poolVars(RunStep(c))
    /\ \A w \in Workers : WF_poolVars(WorkerStep(w)) /\ SF_poolVars(TaskDone(w))
    /\ WF_poolVars(Joined)

-----------------------------------------------------------------------------
(***************************************************************************)
(* No worker sleeps on unclaimed work: while a worker waits on             *)
(* cvNotEmpty_, every queued task has a worker on its way into take() or   *)
(* a caller of run() that has yet to notify - although run() notifies      *)
(* after the unlock, when other workers may have come and gone.            *)
(***************************************************************************)
WorkIsClaimed ==
    running_ /\ waitNotEmpty # {} =>
        Len(queue_) <= Cardinality({c \in Callers : rpc[c] = "notify"})
                        + Cardinality({w \in Workers : wpc[w] = "take"})

(***************************************************************************)
(* No caller of run() sleeps on unclaimed space: while one waits on        *)
(* cvNotFull_, every free place has a caller on its way to it; and the     *)
(* queue never exceeds maxQueueSize_, although a woken caller may find its *)
(* place taken.  (Types are included.)                                     *)
(***************************************************************************)
SpaceIsClaimed ==
    /\ PoolTypeOK
    /\ running_ /\ waitNotFull # {} =>
         MaxQueueSize - Len(queue_) <= Cardinality({c \in Callers : rpc[c] = "enter"})

\* A task that run() accepted is executed, unless the pool is stopped.
AcceptedTaskRuns ==
    \A t \in Tasks :
        (\E i \in 1..Len(queue_) : queue_[i] = t)
            ~> (~ running_ \/ \E w \in Workers : exec[w] = t)

\* stop() returns: every worker, waiting or about to wait, notices and exits.
StopReturns == life = "joining" ~> life = "stopped"
=============================================================================
