-------------------------- MODULE EventLoopProofs --------------------------
(***************************************************************************)
(* TLAPS proofs about EventLoop: any number of threads, any functions, any *)
(* of them queued before loop().  Then EventLoopThread: what it does is a  *)
(* behaviour of EventLoop, so EventLoop's theorems carry over; and the     *)
(* pointer it hands out is live.                                           *)
(***************************************************************************)
EXTENDS EventLoopThread, SequenceTheorems, TLAPS

\* A write to the eventfd has happened or is about to.
Signalled == wakeupFd_ \/ \E t \in Threads : pc[t] = "wakeup"

-----------------------------------------------------------------------------
(***************************************************************************)
(* The inductive invariant.  NoLostWakeup is about a loop thread between   *)
(* doQueueInLoopFuncs and epoll_wait; it has to be known of the thread     *)
(* that has not called loop() yet as well, when other threads may already  *)
(* queue, and the loop counts no iteration before loop().                  *)
(***************************************************************************)
Unseen ==
    lpc \in {"before", "while", "wait"} /\ Queue!Ready /\ (iterated \/ EarlyFuncs = {}) => Signalled

Inv ==
    /\ LoopTypeOK
    /\ lpc = "before" => ~ iterated
    /\ Unseen
    /\ QuitIsSignalled

-----------------------------------------------------------------------------
(* The queue's operations.                                                 *)

\* The actions of FifoQueue, written out.
LEMMA QueueOps ==
    /\ Queue!FifoInit <=> queueFuncs_ = <<>> /\ func = NoFunc
    /\ \A f : Queue!Put(f) <=>
         /\ queueFuncs_' = Append(queueFuncs_, [val |-> f, visible |-> FALSE])
         /\ UNCHANGED func
    /\ \A i : Queue!Publish(i) <=>
         /\ ~ queueFuncs_[i].visible
         /\ queueFuncs_' = [queueFuncs_ EXCEPT ![i].visible = TRUE]
         /\ UNCHANGED func
    /\ Queue!Ready <=> queueFuncs_ # <<>> /\ queueFuncs_[1].visible
    /\ Queue!Get <=> /\ Queue!Ready
                     /\ func' = queueFuncs_[1].val
                     /\ queueFuncs_' = Tail(queueFuncs_)
    /\ Queue!ReportNothing <=> ~ Queue!Ready /\ func' = Nothing /\ UNCHANGED queueFuncs_
    /\ Queue!ReportSomething <=> Queue!Ready /\ func' = Something /\ UNCHANGED queueFuncs_
  BY DEF Queue!FifoInit, Queue!Put, Queue!Publish, Queue!Ready, Queue!Get,
         Queue!ReportNothing, Queue!ReportSomething

\* Appending an unpublished function does not make the queue ready.
LEMMA PutKeepsReady ==
    ASSUME queueFuncs_ \in Seq(Entry), NEW f \in Funcs, Queue!Put(f)
    PROVE  queueFuncs_' \in Seq(Entry) /\ (Queue!Ready' => Queue!Ready)
<1> DEFINE e == [val |-> f, visible |-> FALSE]
<1>1. e \in Entry /\ ~ e.visible
  BY DEF Entry
<1>2. queueFuncs_' = Append(queueFuncs_, e)
  BY QueueOps
<1> HIDE DEF e
<1>3. queueFuncs_' \in Seq(Entry)
  BY <1>1, <1>2
<1>4. CASE queueFuncs_ = <<>>
  BY <1>1, <1>2, <1>4 DEF Queue!Ready
<1>5. CASE queueFuncs_ # <<>>
  <2>1. queueFuncs_'[1] = queueFuncs_[1]
    BY <1>1, <1>2, <1>5
  <2> QED
    BY <1>3, <1>5, <2>1 DEF Queue!Ready
<1> QED
  BY <1>3, <1>4, <1>5

\* An enqueue() of the loop thread keeps the queue well-formed.
LEMMA EnqueueType ==
    ASSUME queueFuncs_ \in Seq(Entry), NEW f \in Funcs, EnqueueInLoop(f)
    PROVE  queueFuncs_' \in Seq(Entry)
<1>1. [val |-> f, visible |-> TRUE] \in Entry
  BY DEF Entry
<1> QED
  BY <1>1 DEF EnqueueInLoop

\* Publishing an entry keeps the queue well-formed.
LEMMA PublishType ==
    ASSUME queueFuncs_ \in Seq(Entry), NEW i \in 1..Len(queueFuncs_), Queue!Publish(i)
    PROVE  queueFuncs_' \in Seq(Entry) /\ UNCHANGED func
<1>1. queueFuncs_' = [queueFuncs_ EXCEPT ![i].visible = TRUE] /\ UNCHANGED func
  BY QueueOps
<1>2. queueFuncs_[i] \in Entry
  OBVIOUS
<1>3. [queueFuncs_[i] EXCEPT !.visible = TRUE] \in Entry
  BY <1>2 DEF Entry
<1>4. queueFuncs_' = [queueFuncs_ EXCEPT ![i] = [queueFuncs_[i] EXCEPT !.visible = TRUE]]
  BY <1>1
<1> HIDE DEF Queue!Publish
<1> QED
  BY <1>1, <1>3, <1>4

-----------------------------------------------------------------------------
(* The invariant holds.                                                    *)

\* A new EventLoop has an empty queue.
LEMMA InitInv ==
    ASSUME LoopInit
    PROVE  Inv
<1>1. queueFuncs_ = <<>> /\ func = NoFunc
  BY QueueOps DEF LoopInit
<1>2. queueFuncs_ \in Seq(Entry)
  BY <1>1
<1>3. LoopTypeOK
  BY <1>1, <1>2 DEF LoopInit, LoopTypeOK
<1>4. ~ Queue!Ready
  BY <1>1, QueueOps
<1> QED
  BY <1>3, <1>4 DEF LoopInit, Inv, Unseen, QuitIsSignalled

\* Other threads: whatever they make visible they also signal.
LEMMA ThreadInv ==
    ASSUME Inv, NEW t \in Threads, ThreadNext(t)
    PROVE  Inv'
<1>1. ASSUME NEW f \in Funcs, QueueInLoop(t, f)
      PROVE  Inv'
  <2>1. queueFuncs_' \in Seq(Entry) /\ (Queue!Ready' => Queue!Ready)
    BY <1>1, PutKeepsReady DEF QueueInLoop, Inv, LoopTypeOK
  <2>2. UNCHANGED <<func, lpc, looping_, quit_, activeChannels_, iterated, wakeupFd_, io>>
    BY <1>1, QueueOps DEF QueueInLoop
  <2>3. LoopTypeOK'
    BY <1>1, <2>1, <2>2 DEF QueueInLoop, Inv, LoopTypeOK
  <2>4. Signalled => Signalled'
    BY <1>1, <2>2 DEF QueueInLoop, Signalled, Inv, LoopTypeOK
  <2> QED
    BY <2>1, <2>2, <2>3, <2>4 DEF Inv, Unseen, QuitIsSignalled, Signalled
<1>2. CASE Enqueued(t)
  <2>1. queueFuncs_' \in Seq(Entry) /\ UNCHANGED func
    BY <1>2, PublishType DEF Enqueued, Inv, LoopTypeOK
  <2>2. LoopTypeOK'
    BY <1>2, <2>1 DEF Enqueued, Inv, LoopTypeOK
  <2>3. Signalled'
    BY <1>2 DEF Enqueued, Signalled, Inv, LoopTypeOK
  <2> QED
    BY <1>2, <2>2, <2>3 DEF Enqueued, Inv, Unseen, QuitIsSignalled, Signalled
<1>3. CASE Wakeup(t)
  <2>1. LoopTypeOK'
    BY <1>3 DEF Wakeup, Inv, LoopTypeOK
  <2>2. Signalled'
    BY <1>3 DEF Wakeup, Signalled
  <2> QED
    BY <1>3, <2>1, <2>2 DEF Wakeup, Inv, Unseen, QuitIsSignalled, Signalled
<1>4. CASE Quit(t)
  <2>1. LoopTypeOK'
    BY <1>4 DEF Quit, Inv, LoopTypeOK
  <2>2. Signalled'
    BY <1>4 DEF Quit, Signalled, Inv, LoopTypeOK
  <2> QED
    BY <1>4, <2>1, <2>2 DEF Quit, Inv, Unseen, QuitIsSignalled, Signalled
<1> QED
  BY <1>1, <1>2, <1>3, <1>4 DEF ThreadNext

\* The loop thread leaves doQueueInLoopFuncs only when the queue is not ready
\* and clears the eventfd only on its way there.
LEMMA LoopInv ==
    ASSUME Inv, LoopStep \/ WaitTimesOut
    PROVE  Inv'
<1>1. CASE EmptyTest
  <2>1. UNCHANGED queueFuncs_ /\ func' \in {Nothing, Something}
    BY <1>1, QueueOps DEF EmptyTest
  <2>2. LoopTypeOK'
    BY <1>1, <2>1 DEF EmptyTest, Inv, LoopTypeOK
  <2>3. lpc' = "while" => ~ Queue!Ready
    BY <1>1, QueueOps DEF EmptyTest
  <2>4. Queue!Ready' <=> Queue!Ready
    BY <2>1 DEF Queue!Ready
  <2> QED
    BY <1>1, <2>2, <2>3, <2>4 DEF EmptyTest, Inv, Unseen, QuitIsSignalled
<1>2. CASE Dequeue
  <2>1. /\ queueFuncs_' \in Seq(Entry) /\ func' \in Funcs \cup {Nothing}
        /\ lpc' \in {"run", "empty"} /\ (lpc' = "run" => func' \in Funcs)
    <3>1. CASE Queue!Get /\ lpc' = "run"
      <4>1. queueFuncs_ \in Seq(Entry) /\ queueFuncs_ # <<>>
            /\ func' = queueFuncs_[1].val /\ queueFuncs_' = Tail(queueFuncs_)
        BY <3>1, QueueOps DEF Inv, LoopTypeOK
      <4>2. queueFuncs_[1] \in Entry
        BY <4>1
      <4>3. queueFuncs_' \in Seq(Entry) /\ func' \in Funcs
        BY <4>1, <4>2 DEF Entry
      <4> QED
        BY <3>1, <4>3
    <3>2. CASE Queue!ReportNothing /\ lpc' = "empty"
      BY <3>2, QueueOps DEF Inv, LoopTypeOK
    <3> QED
      BY <1>2, <3>1, <3>2 DEF Dequeue
  <2>2. LoopTypeOK'
    BY <1>2, <2>1 DEF Dequeue, Inv, LoopTypeOK
  <2> QED
    BY <1>2, <2>2 DEF Dequeue, Inv, Unseen, QuitIsSignalled
<1>3. CASE LoopEnter \/ WhileTest \/ WaitReturns \/ HandleWakeupFd \/ HandleIo
           \/ EventsHandled \/ UserReturns \/ WaitTimesOut
  <2>1. UNCHANGED <<queueFuncs_, func, pc, arg>>
    BY <1>3 DEF LoopEnter, WhileTest, WaitReturns, HandleWakeupFd, HandleIo, EventsHandled,
                UserReturns, WaitTimesOut
  <2>2. LoopTypeOK'
    BY <1>3, <2>1 DEF LoopEnter, WhileTest, WaitReturns, HandleWakeupFd, HandleIo,
                EventsHandled, UserReturns, WaitTimesOut, readyChannels, Inv, LoopTypeOK
  <2>3. Queue!Ready' <=> Queue!Ready
    BY <2>1 DEF Queue!Ready
  <2> QED
    BY <1>3, <2>1, <2>2, <2>3
    DEF LoopEnter, WhileTest, WaitReturns, HandleWakeupFd, HandleIo, EventsHandled,
        UserReturns, WaitTimesOut, Inv, LoopTypeOK, Unseen, QuitIsSignalled, Signalled
<1> QED
  BY <1>1, <1>2, <1>3 DEF LoopStep

\* What the loop thread queues without wakeup() it queues on the way to
\* doQueueInLoopFuncs - or before loop(), which Unseen excepts.
LEMMA UserInv ==
    ASSUME Inv, UserNext \/ IoArrives \/ \E f \in Funcs : QueueBeforeLoop(f)
    PROVE  Inv'
<1>1. ASSUME NEW f \in Funcs, UserQueues(f)
      PROVE  Inv'
  <2>1. queueFuncs_' \in Seq(Entry)
    BY <1>1, EnqueueType DEF UserQueues, Inv, LoopTypeOK
  <2>2. LoopTypeOK'
    BY <1>1, <2>1 DEF UserQueues, EnqueueInLoop, Inv, LoopTypeOK
  <2> QED
    BY <1>1, <2>2 DEF UserQueues, Inv, Unseen, QuitIsSignalled
<1>2. ASSUME NEW f \in Funcs, QueueBeforeLoop(f)
      PROVE  Inv'
  <2>1. queueFuncs_' \in Seq(Entry)
    BY <1>2, EnqueueType DEF QueueBeforeLoop, Inv, LoopTypeOK
  <2>2. LoopTypeOK'
    BY <1>2, <2>1 DEF QueueBeforeLoop, EnqueueInLoop, Inv, LoopTypeOK
  <2> QED
    BY <1>2, <2>2 DEF QueueBeforeLoop, Inv, Unseen, QuitIsSignalled
<1>3. CASE UserQuits \/ IoArrives
  <2>1. LoopTypeOK'
    <3>1. CASE UserQuits
      BY <3>1 DEF UserQuits, Inv, LoopTypeOK
    <3>2. CASE IoArrives
      BY <3>2 DEF IoArrives, Inv, LoopTypeOK
    <3> QED
      BY <1>3, <3>1, <3>2
  <2>2. Queue!Ready' <=> Queue!Ready
    BY <1>3 DEF UserQuits, IoArrives, Queue!Ready
  <2> QED
    BY <1>3, <2>1, <2>2 DEF UserQuits, IoArrives, Inv, Unseen, QuitIsSignalled, Signalled
<1> QED
  BY <1>1, <1>2, <1>3 DEF UserNext

\* Inv holds in every reachable state.
LEMMA Invariance == LoopSpec => []Inv
<1>1. ASSUME Inv, [LoopNext]_loopVars
      PROVE  Inv'
  <2>1. CASE UNCHANGED loopVars
    <3>1. Queue!Ready' <=> Queue!Ready
      BY <2>1 DEF loopVars, Queue!Ready
    <3> QED
      BY <1>1, <2>1, <3>1 DEF loopVars, Inv, LoopTypeOK, Unseen, QuitIsSignalled, Signalled
  <2> QED
    BY <1>1, <2>1, ThreadInv, LoopInv, UserInv DEF LoopNext
<1> QED
  BY <1>1, InitInv, PTL DEF LoopSpec

-----------------------------------------------------------------------------
\* EventLoop's fields keep their types.
THEOREM TypeCorrect == LoopSpec => []LoopTypeOK
  BY Invariance, PTL DEF Inv

(***************************************************************************)
(* queueInLoop() loses no wakeup: the loop thread never goes to sleep on a *)
(* function it could run, however many threads queue and however enqueue() *)
(* and the eventfd interleave with doQueueInLoopFuncs and handleWakeupFd.  *)
(***************************************************************************)
THEOREM WakeupNotLost == LoopSpec => []NoLostWakeup
<1>1. Inv => NoLostWakeup
  BY DEF Inv, Unseen, NoLostWakeup, Signalled
<1> QED
  BY <1>1, Invariance, PTL

(***************************************************************************)
(* quit() after loop() has begun is never slept over.                      *)
(***************************************************************************)
THEOREM QuitNotLost == LoopSpec => []QuitIsSignalled
  BY Invariance, PTL DEF Inv

-----------------------------------------------------------------------------
(* EventLoopThread.                                                        *)

(***************************************************************************)
(* threadFunc(), the owner and the threads it shares the loop with use the *)
(* EventLoop only in ways its own specification allows.                    *)
(***************************************************************************)
THEOREM UsesEventLoop == ThreadSpec => LoopSpec
<1>1. ThreadInit => LoopInit
  BY DEF ThreadInit
<1>2. ASSUME [ThreadNextStep]_allVars
      PROVE  [LoopNext]_loopVars
  <2>1. CASE OwnerStep
    <3>1. Owner \in Threads
      BY OwnerAssumption
    <3>2. CASE DestructQuits
      BY <3>1, <3>2 DEF DestructQuits, LoopNext, ThreadNext
    <3>3. CASE DestructWakes
      BY <3>1, <3>3 DEF DestructWakes, LoopNext, ThreadNext
    <3>4. CASE StartLoopReturns \/ JoinReturns
      BY <3>4 DEF StartLoopReturns, JoinReturns
    <3> QED
      BY <2>1, <3>2, <3>3, <3>4 DEF OwnerStep
  <2>2. CASE RunLoop
    BY <2>2 DEF RunLoop, LoopNext
  <2>3. ASSUME NEW f \in Funcs, InitCallback(f)
        PROVE  LoopNext
    BY <2>3 DEF InitCallback, LoopNext
  <2>4. ASSUME NEW t \in Threads, UseLoop(t)
        PROVE  LoopNext
    BY <2>4 DEF UseLoop, LoopNext
  <2>5. CASE FuncStep
    BY <2>5 DEF FuncStep, PublishLoop, ClearLoop, ThreadExits
  <2>6. CASE StartLoop \/ Destruct
    BY <2>6 DEF StartLoop, Destruct
  <2>7. CASE UNCHANGED allVars
    BY <2>7 DEF allVars
  <2> QED
    BY <1>2, <2>1, <2>2, <2>3, <2>4, <2>5, <2>6, <2>7 DEF ThreadNextStep
<1> QED
  BY <1>1, <1>2, PTL DEF ThreadSpec, LoopSpec

(***************************************************************************)
(* No wakeup is lost in a loop that runs in an EventLoopThread, from its   *)
(* init callback to its end.                                               *)
(***************************************************************************)
THEOREM ThreadWakeupNotLost == ThreadSpec => []NoLostWakeup
  BY UsesEventLoop, WakeupNotLost, PTL

-----------------------------------------------------------------------------
\* Where threadFunc() is determines which of loop_ and its loop exist.
Published ==
    /\ opc \in {"new", "waiting", "started", "quit", "join", "done", "terminate"}
    /\ tpc \in {"none", "callback", "loop", "cleared", "exited"}
    /\ loop_ \in BOOLEAN /\ alive \in BOOLEAN
    /\ loop_ <=> tpc = "loop"
    /\ alive <=> tpc \in {"callback", "loop", "cleared"}
    /\ opc = "new" <=> tpc = "none"
    /\ opc \notin {"new", "waiting"} => tpc # "callback"

\* The part of the state that EventLoopThread.cc adds keeps Published.
LEMMA PublishedInvariant == ThreadSpec => []Published
<1>1. ThreadInit => Published
  BY DEF ThreadInit, Published
<1>2. ASSUME Published, [ThreadNextStep]_allVars
      PROVE  Published'
  <2>1. CASE UNCHANGED eltVars
    BY <1>2, <2>1 DEF Published, eltVars
  <2>2. CASE OwnerStep
    <3>1. CASE StartLoopReturns
      BY <1>2, <3>1 DEF Published, StartLoopReturns
    <3>2. CASE DestructQuits
      BY <2>1, <3>2 DEF DestructQuits
    <3>3. CASE DestructWakes
      BY <1>2, <3>3 DEF Published, DestructWakes
    <3>4. CASE JoinReturns
      BY <1>2, <3>4 DEF Published, JoinReturns
    <3> QED
      BY <2>2, <3>1, <3>2, <3>3, <3>4 DEF OwnerStep
  <2>3. CASE FuncStep
    <3>1. CASE PublishLoop
      BY <1>2, <3>1 DEF Published, PublishLoop
    <3>2. CASE ClearLoop
      BY <1>2, <3>2 DEF Published, ClearLoop
    <3>3. CASE ThreadExits
      BY <1>2, <3>3 DEF Published, ThreadExits
    <3> QED
      BY <2>3, <3>1, <3>2, <3>3 DEF FuncStep
  <2>4. CASE StartLoop
    BY <1>2, <2>4 DEF Published, StartLoop
  <2>5. CASE Destruct
    BY <1>2, <2>5 DEF Published, Destruct
  <2>6. CASE RunLoop \/ UNCHANGED allVars
    BY <2>1, <2>6 DEF RunLoop, allVars
  <2>7. ASSUME NEW f \in Funcs, InitCallback(f)
        PROVE  Published'
    BY <2>1, <2>7 DEF InitCallback
  <2>8. ASSUME NEW t \in Threads, UseLoop(t)
        PROVE  Published'
    BY <2>1, <2>8 DEF UseLoop
  <2> QED
    BY <1>2, <2>2, <2>3, <2>4, <2>5, <2>6, <2>7, <2>8 DEF ThreadNextStep
<1> QED
  BY <1>1, <1>2, PTL DEF ThreadSpec

(***************************************************************************)
(* Every variable of EventLoopThread and of the loop inside it keeps its   *)
(* type, and looping_ and the function about to be called what they mean.  *)
(***************************************************************************)
THEOREM ThreadTypeCorrect == ThreadSpec => []ThreadTypeOK
<1>1. Published /\ LoopTypeOK => ThreadTypeOK
  BY DEF Published, ThreadTypeOK
<1> QED
  BY <1>1, PublishedInvariant, UsesEventLoop, TypeCorrect, PTL

(***************************************************************************)
(* loop_, while it is set, points to the EventLoop on threadFunc()'s       *)
(* stack, and startLoop() returns only past the init callback.             *)
(***************************************************************************)
THEOREM PublishedIsAlive == ThreadSpec => []PublishedLoopIsAlive
<1>1. Published => PublishedLoopIsAlive
  BY DEF Published, PublishedLoopIsAlive
<1> QED
  BY <1>1, PublishedInvariant, PTL
=============================================================================
