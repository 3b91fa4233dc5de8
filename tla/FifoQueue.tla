----------------------------- MODULE FifoQueue -----------------------------
(***************************************************************************)
(* What burger::MpscQueue promises to the code that uses it.  A value is   *)
(* in the queue from the moment its enqueue() takes effect, but the        *)
(* consumer sees it only once it has been published; a value that is not   *)
(* yet published hides everything behind it, so dequeue() and empty() may  *)
(* report "nothing there" although later enqueue() calls have returned.    *)
(* That weak form of emptiness is what EventLoop::doQueueInLoopFuncs and   *)
(* the wakeup protocol have to cope with.                                  *)
(***************************************************************************)
EXTENDS Naturals, Sequences

CONSTANTS Values,      \* what is queued (EventLoop queues Funcs)
          NoValue,     \* nothing has been returned yet
          Nothing,     \* dequeue() returned false, or empty() returned true
          Something    \* empty() returned false

VARIABLES q,           \* sequence of [val, visible], oldest first
          res          \* what the consumer's last call returned

fifoVars == <<q, res>>

FifoInit == q = <<>> /\ res = NoValue

\* enqueue(v) takes effect: v has its place in the order, unpublished.
Put(v) ==
    /\ q' = Append(q, [val |-> v, visible |-> FALSE])
    /\ UNCHANGED res

\* enqueue() returns: the value at place i is published.
Publish(i) ==
    /\ ~ q[i].visible
    /\ q' = [q EXCEPT ![i].visible = TRUE]
    /\ UNCHANGED res

\* The oldest value is there and may be taken.
Ready == q # <<>> /\ q[1].visible

\* dequeue() returns true and hands over the oldest value.
Get ==
    /\ Ready
    /\ res' = q[1].val
    /\ q' = Tail(q)

\* dequeue() returns false, or empty() returns true.
ReportNothing ==
    /\ ~ Ready
    /\ res' = Nothing
    /\ UNCHANGED q

\* empty() returns false.
ReportSomething ==
    /\ Ready
    /\ res' = Something
    /\ UNCHANGED q

FifoNext ==
    \/ \E v \in Values : Put(v)
    \/ \E i \in 1..Len(q) : Publish(i)
    \/ Get
    \/ ReportNothing
    \/ ReportSomething

FifoSpec == FifoInit /\ [][FifoNext]_fifoVars
=============================================================================
