--------------------------- MODULE EventLoopThread ---------------------------
(***************************************************************************)
(* burger/net/EventLoopThread.cc around EventLoop: an owner thread starts  *)
(* a thread whose threadFunc() keeps an EventLoop on its stack, waits on a *)
(* condition variable until the pointer to it is published, and later      *)
(* destroys the EventLoopThread: quit() the loop, join the thread.  Until  *)
(* then the owner and the threads it gave the pointer to use the loop.     *)
(* mutex_ is held only for single assignments and for testing the wait's   *)
(* predicate, so each critical section is one step.                        *)
(***************************************************************************)
EXTENDS EventLoop

CONSTANT Owner          \* the thread that owns the EventLoopThread object

ASSUME OwnerAssumption == Owner \in Threads

VARIABLES opc,          \* where the owner is
          tpc,          \* where the started thread is inside threadFunc()
          loop_,        \* loop_ # nullptr
          alive         \* threadFunc()'s EventLoop exists

eltVars == <<opc, tpc, loop_, alive>>
allVars == <<loopVars, eltVars>>

ThreadTypeOK ==
    /\ LoopTypeOK
    /\ opc \in {"new", "waiting", "started", "quit", "join", "done", "terminate"}
    /\ tpc \in {"none", "callback", "loop", "cleared", "exited"}
    /\ loop_ \in BOOLEAN /\ alive \in BOOLEAN

ThreadInit ==
    /\ LoopInit
    /\ opc = "new" /\ tpc = "none" /\ loop_ = FALSE /\ alive = FALSE

-----------------------------------------------------------------------------
\* startLoop(): the thread is created; the owner waits on cv_.
StartLoop ==
    /\ opc = "new"
    /\ opc' = "waiting"
    /\ tpc' = "callback" /\ alive' = TRUE     \* EventLoop loop;
    /\ UNCHANGED <<loopVars, loop_>>

\* threadInitcallback_(&loop): user code that may queue functions.
InitCallback(f) ==
    /\ tpc = "callback"
    /\ QueueBeforeLoop(f)
    /\ UNCHANGED eltVars

\* Under mutex_: loop_ = &loop; cv_.notify_one().
PublishLoop ==
    /\ tpc = "callback"
    /\ loop_' = TRUE /\ tpc' = "loop"
    /\ UNCHANGED <<loopVars, opc, alive>>

\* The owner's wait() finds loop_ set and startLoop() returns it.
StartLoopReturns ==
    /\ opc = "waiting" /\ loop_
    /\ opc' = "started"
    /\ UNCHANGED <<loopVars, tpc, loop_, alive>>

\* Threads use the loop startLoop() returned; a call once begun goes on.
UseLoop(t) ==
    /\ opc = "started" \/ (t # Owner /\ pc[t] # "idle")
    /\ ThreadNext(t)
    /\ UNCHANGED eltVars

\* loop.loop() runs, user code and I/O included.
RunLoop ==
    /\ tpc = "loop"
    /\ LoopStep \/ WaitTimesOut \/ UserNext \/ IoArrives
    /\ UNCHANGED eltVars

\* threadFunc() returns without taking loop_ back.
KeepLoop ==
    /\ tpc = "loop" /\ lpc = "ended"
    /\ tpc' = "cleared"
    /\ UNCHANGED <<loopVars, opc, loop_, alive>>

\* loop() has returned; under mutex_: loop_ = nullptr.
ClearLoop ==
    /\ tpc = "loop" /\ lpc = "ended"
    /\ loop_' = FALSE /\ tpc' = "cleared"
    /\ UNCHANGED <<loopVars, opc, alive>>

\* threadFunc() returns: the EventLoop on its stack is destroyed.
ThreadExits ==
    /\ tpc = "cleared"
    /\ alive' = FALSE /\ tpc' = "exited"
    /\ UNCHANGED <<loopVars, opc, loop_>>

\* ~EventLoopThread() tests loop_ (without mutex_).  If the loop has ended by
\* itself nobody joins, and ~thread() of a joinable thread terminates.
Destruct ==
    /\ opc = "started" /\ pc[Owner] = "idle"
    /\ opc' = IF loop_ THEN "quit" ELSE "terminate"
    /\ UNCHANGED <<loopVars, tpc, loop_, alive>>

\* loop_->quit(): quit_ = true ...
DestructQuits ==
    /\ opc = "quit" /\ pc[Owner] = "idle"
    /\ Quit(Owner)
    /\ UNCHANGED eltVars

\* ... then wakeup(), and the owner goes on to join().
DestructWakes ==
    /\ opc = "quit"
    /\ Wakeup(Owner)
    /\ opc' = "join"
    /\ UNCHANGED <<tpc, loop_, alive>>

\* thread_.join() returns.
JoinReturns ==
    /\ opc = "join" /\ tpc = "exited"
    /\ opc' = "done"
    /\ UNCHANGED <<loopVars, tpc, loop_, alive>>

OwnerStep == StartLoopReturns \/ DestructQuits \/ DestructWakes \/ JoinReturns

FuncStep == PublishLoop \/ ClearLoop \/ ThreadExits

ThreadNextStep ==
    \/ StartLoop \/ Destruct \/ OwnerStep
    \/ FuncStep \/ RunLoop
    \/ \E f \in Funcs : InitCallback(f)
    \/ \E t \in Threads : UseLoop(t)

ThreadSpec == ThreadInit /\ [][ThreadNextStep]_allVars

(***************************************************************************)
(* Fairness: all threads are scheduled, user code and the calls of the     *)
(* loop return, a notified or satisfied wait() and a possible join()       *)
(* return.  When the object is destroyed is the owner's choice.            *)
(***************************************************************************)
ThreadFairSpec ==
    /\ ThreadSpec
    /\ WF_allVars(OwnerStep) /\ WF_allVars(FuncStep)
    /\ WF_allVars(tpc = "loop" /\ LoopStep /\ UNCHANGED eltVars)
    /\ \A t \in Threads : WF_allVars((Enqueued(t) \/ Wakeup(t)) /\ UseLoop(t))

(***************************************************************************)
(* The same with an epoll timeout that is fair as well: what fails here    *)
(* fails however often epoll times out.                                    *)
(***************************************************************************)
ThreadTimedSpec ==
    ThreadFairSpec /\ WF_allVars(tpc = "loop" /\ WaitTimesOut /\ UNCHANGED eltVars)

-----------------------------------------------------------------------------
(***************************************************************************)
(* threadFunc() takes loop_ back before its EventLoop goes out of scope,   *)
(* and startLoop() hands out the pointer only once the thread is past the  *)
(* init callback: whoever reads a non-null loop_ reads a live loop.        *)
(***************************************************************************)
PublishedLoopIsAlive ==
    /\ loop_ => alive
    /\ opc = "started" => tpc \in {"loop", "cleared", "exited"}

(***************************************************************************)
(* quit()'s comment: the wakeup makes loop() test while(!quit_) again and  *)
(* exit.  So the destructor's join() returns (unless functions are run     *)
(* for ever).                                                              *)
(***************************************************************************)
DestructEnds == (opc = "join" ~> opc = "done") \/ []<>(lpc = "run")
=============================================================================
