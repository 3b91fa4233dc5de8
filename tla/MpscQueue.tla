----------------------------- MODULE MpscQueue -----------------------------
(***************************************************************************)
(* burger/base/MpscQueue.h: the lock-free multi-producer single-consumer   *)
(* list behind EventLoop::queueInLoop.  Producers allocate a node,         *)
(* exchange it into head_ and only then link it from its predecessor;      *)
(* the one consumer walks next_ pointers from tail_ and deletes the nodes  *)
(* it leaves behind.  Nodes are heap addresses: a deleted node may be      *)
(* handed out again by the next `new'.                                     *)
(***************************************************************************)
EXTENDS Naturals, Sequences, FiniteSets

CONSTANTS Producers,   \* threads that call enqueue()
          Nodes,       \* heap addresses of BufferNodes (bounds the heap)
          NoNode,      \* nullptr
          Values,      \* the T that is queued
          NoValue,     \* a dataPtr_ that is deleted or was never set
          Nothing,     \* dequeue() returned false / empty() returned true
          Something    \* empty() returned false

ASSUME NodeAssumption == NoNode \notin Nodes
ASSUME ValueAssumption ==
    /\ {NoValue, Nothing, Something} \cap Values = {}
    /\ NoValue # Nothing /\ NoValue # Something /\ Nothing # Something

VARIABLES head_, tail_,     \* the two ends
          next_,            \* BufferNode::next_ of every address
          data,             \* *BufferNode::dataPtr_ of every address
          heap,             \* addresses now allocated
          pc,               \* where each producer is inside enqueue()
          node, prevhead,   \* enqueue()'s locals
          cpc,              \* where the consumer is inside dequeue()
          tail, next,       \* dequeue()'s locals
          output,           \* what the consumer's last call returned
          life,             \* "up", "dtor" (in ~MpscQueue) or "gone"
          chain             \* history: nodes from tail_ to head_ in exchange order

vars == <<head_, tail_, next_, data, heap, pc, node, prevhead,
          cpc, tail, next, output, life, chain>>

prodVars == <<pc, node, prevhead>>
consVars == <<cpc, tail, next, output>>

TypeOK ==
    /\ head_ \in Nodes /\ tail_ \in Nodes
    /\ next_ \in [Nodes -> Nodes \cup {NoNode}]
    /\ data \in [Nodes -> Values \cup {NoValue}]
    /\ heap \in SUBSET Nodes
    /\ pc \in [Producers -> {"idle", "exchange", "link"}]
    /\ node \in [Producers -> Nodes \cup {NoNode}]
    /\ prevhead \in [Producers -> Nodes \cup {NoNode}]
    /\ cpc \in {"idle", "take", "delete"}
    /\ tail \in Nodes \cup {NoNode} /\ next \in Nodes \cup {NoNode}
    /\ output \in Values \cup {NoValue, Nothing, Something}
    /\ life \in {"up", "dtor", "gone"}
    /\ chain \in Seq(Nodes)

-----------------------------------------------------------------------------
\* MpscQueue(): head_ and tail_ are one fresh sentinel, dataPtr_ unset.
Init ==
    \E s \in Nodes :
        /\ head_ = s /\ tail_ = s
        /\ next_ = [n \in Nodes |-> NoNode]
        /\ data = [n \in Nodes |-> NoValue]
        /\ heap = {s}
        /\ pc = [p \in Producers |-> "idle"]
        /\ node = [p \in Producers |-> NoNode]
        /\ prevhead = [p \in Producers |-> NoNode]
        /\ cpc = "idle" /\ tail = NoNode /\ next = NoNode
        /\ output = NoValue
        /\ life = "up"
        /\ chain = <<s>>

\* new BufferNode(input): any free address, next_ null.
NewNode(p, v) ==
    /\ life = "up" /\ pc[p] = "idle"
    /\ \E n \in Nodes \ heap :
        /\ heap' = heap \cup {n}
        /\ next_' = [next_ EXCEPT ![n] = NoNode]
        /\ data' = [data EXCEPT ![n] = v]
        /\ node' = [node EXCEPT ![p] = n]
    /\ pc' = [pc EXCEPT ![p] = "exchange"]
    /\ UNCHANGED <<head_, tail_, prevhead, consVars, life, chain>>

\* prevhead = head_.exchange(node)
Exchange(p) ==
    /\ pc[p] = "exchange"
    /\ prevhead' = [prevhead EXCEPT ![p] = head_]
    /\ head_' = node[p]
    /\ chain' = Append(chain, node[p])
    /\ pc' = [pc EXCEPT ![p] = "link"]
    /\ UNCHANGED <<tail_, next_, data, heap, node, consVars, life>>

\* A producer that forgets the release store that makes its node reachable.
LinkForgotten(p) ==
    /\ pc[p] = "link"
    /\ pc' = [pc EXCEPT ![p] = "idle"]
    /\ UNCHANGED <<head_, tail_, next_, data, heap, node, prevhead, consVars, life, chain>>

\* A producer that links from the consumer's end instead of its predecessor.
LinkFromTail(p) ==
    /\ pc[p] = "link"
    /\ next_' = [next_ EXCEPT ![tail_] = node[p]]
    /\ pc' = [pc EXCEPT ![p] = "idle"]
    /\ UNCHANGED <<head_, tail_, data, heap, node, prevhead, consVars, life, chain>>

\* prevhead->next_.store(node), then enqueue() returns.
Link(p) ==
    /\ pc[p] = "link"
    /\ next_' = [next_ EXCEPT ![prevhead[p]] = node[p]]
    /\ pc' = [pc EXCEPT ![p] = "idle"]
    /\ UNCHANGED <<head_, tail_, data, heap, node, prevhead, consVars, life, chain>>

\* dequeue() loads tail_ and tail->next_ and finds a node to take.
Load ==
    /\ life # "gone" /\ cpc = "idle" /\ next_[tail_] # NoNode
    /\ tail' = tail_ /\ next' = next_[tail_]
    /\ cpc' = "take"
    /\ UNCHANGED <<head_, tail_, next_, data, heap, prodVars, output, life, chain>>

\* dequeue() returns false.
LoadNull ==
    /\ life = "up" /\ cpc = "idle" /\ next_[tail_] = NoNode
    /\ output' = Nothing
    /\ UNCHANGED <<head_, tail_, next_, data, heap, prodVars, cpc, tail, next, life, chain>>

\* A consumer that moves the value out but leaves dataPtr_ allocated.
TakeLeaky ==
    /\ cpc = "take"
    /\ output' = data[next]
    /\ tail_' = next
    /\ chain' = Tail(chain)
    /\ cpc' = "delete"
    /\ UNCHANGED <<head_, next_, data, heap, prodVars, tail, next, life>>

\* output = move(*next->dataPtr_); delete next->dataPtr_; tail_.store(next)
Take ==
    /\ cpc = "take"
    /\ output' = data[next]
    /\ data' = [data EXCEPT ![next] = NoValue]
    /\ tail_' = next
    /\ chain' = Tail(chain)
    /\ cpc' = "delete"
    /\ UNCHANGED <<head_, next_, heap, prodVars, tail, next, life>>

\* A consumer that deletes the node it has just made the new sentinel.
DeleteNext ==
    /\ cpc = "delete"
    /\ heap' = heap \ {next}
    /\ cpc' = "idle"
    /\ UNCHANGED <<head_, tail_, next_, data, prodVars, tail, next, output, life, chain>>

\* delete tail; dequeue() returns true.
DeleteTail ==
    /\ cpc = "delete"
    /\ heap' = heap \ {tail}
    /\ cpc' = "idle"
    /\ UNCHANGED <<head_, tail_, next_, data, prodVars, tail, next, output, life, chain>>

\* bool empty()
Empty ==
    /\ life = "up" /\ cpc = "idle"
    /\ output' = IF next_[tail_] = NoNode THEN Nothing ELSE Something
    /\ UNCHANGED <<head_, tail_, next_, data, heap, prodVars, cpc, tail, next, life, chain>>

\* ~MpscQueue() begins.  Its owner sees to it that nobody is in a call.
Destroy ==
    /\ life = "up" /\ cpc = "idle"
    /\ \A p \in Producers : pc[p] = "idle"
    /\ life' = "dtor"
    /\ UNCHANGED <<head_, tail_, next_, data, heap, prodVars, consVars, chain>>

\* The destructor's dequeue() loop has returned false: delete head_.
DeleteHead ==
    /\ life = "dtor" /\ cpc = "idle" /\ next_[tail_] = NoNode
    /\ heap' = heap \ {head_}
    /\ output' = Nothing
    /\ life' = "gone"
    /\ UNCHANGED <<head_, tail_, next_, data, prodVars, cpc, tail, next, chain>>

\* Another queue is constructed: MpscQueue() on a heap address.
Construct ==
    /\ life = "gone"
    /\ \E s \in Nodes \ heap :
        /\ head_' = s /\ tail_' = s
        /\ next_' = [next_ EXCEPT ![s] = NoNode]
        /\ heap' = heap \cup {s}
        /\ chain' = <<s>>
    /\ life' = "up"
    /\ UNCHANGED <<data, prodVars, consVars>>

EnqueueNext(p) == (\E v \in Values : NewNode(p, v)) \/ Exchange(p) \/ Link(p)

DequeueNext == Load \/ LoadNull \/ Take \/ DeleteTail

Next ==
    \/ \E p \in Producers : EnqueueNext(p)
    \/ DequeueNext
    \/ Empty
    \/ Destroy \/ DeleteHead \/ Construct

Spec == Init /\ [][Next]_vars

(***************************************************************************)
(* Fairness: a thread inside enqueue() is eventually scheduled again (it   *)
(* never blocks there), and the consumer keeps calling dequeue(), as       *)
(* EventLoop::doQueueInLoopFuncs does on every turn of the loop.           *)
(***************************************************************************)
FairSpec ==
    /\ Spec
    /\ \A p \in Producers : WF_vars(Exchange(p)) /\ WF_vars(Link(p))
    /\ WF_vars(Load) /\ WF_vars(Take) /\ WF_vars(DeleteTail)

-----------------------------------------------------------------------------
(***************************************************************************)
(* Every pointer a thread is about to dereference or delete is allocated:  *)
(* prevhead in enqueue() (the consumer may be deleting right behind the    *)
(* producer), tail_, next and the value next carries in dequeue(), and     *)
(* head_, which the next exchange() will hand to a producer.               *)
(***************************************************************************)
NoUseAfterFree ==
    /\ \A p \in Producers : pc[p] = "link" => prevhead[p] \in heap
    /\ life # "gone" => tail_ \in heap /\ head_ \in heap
    /\ cpc = "take" => next \in heap /\ data[next] # NoValue
    /\ cpc = "delete" => tail \in heap

(***************************************************************************)
(* Nothing leaks: an allocated node is in the list, in the hands of a      *)
(* producer that has not exchanged it yet, or the one dequeue() is about   *)
(* to delete; values are allocated only in nodes still to be dequeued; so  *)
(* ~MpscQueue leaves neither nodes nor values behind.                      *)
(***************************************************************************)
NoLeak ==
    /\ life # "gone" =>
        heap = {chain[i] : i \in 1..Len(chain)}
                 \cup {node[p] : p \in {r \in Producers : pc[r] = "exchange"}}
                 \cup (IF cpc = "delete" THEN {tail} ELSE {})
    /\ life = "gone" => heap = {} /\ \A n \in Nodes : data[n] = NoValue

(***************************************************************************)
(* The queue's values in exchange order; a value is visible when its       *)
(* node has been linked from its predecessor.                              *)
(***************************************************************************)
contents ==
    [i \in 1..(Len(chain) - 1) |->
        [val |-> data[chain[i + 1]], visible |-> next_[chain[i]] # NoNode]]

Fifo == INSTANCE FifoQueue WITH q <- contents, res <- output

(***************************************************************************)
(* MpscQueue implements FifoQueue: enqueue() takes effect at the exchange  *)
(* and is published by the link; values come out in exchange order, each   *)
(* exactly once; dequeue() and empty() report an empty queue only when it  *)
(* is empty or its oldest value is not published yet.                      *)
(***************************************************************************)
ImplementsFifo == Fifo!FifoSpec

(***************************************************************************)
(* A value whose enqueue() has taken effect is dequeued in the end,        *)
(* however many producers stall between exchange and link before it.       *)
(***************************************************************************)
EveryNodeConsumed ==
    \A n \in Nodes :
        (\E i \in 2..Len(chain) : chain[i] = n) ~> (tail_ = n)
=============================================================================
