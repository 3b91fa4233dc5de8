-------------------------- MODULE LoopQueueProofs --------------------------
(***************************************************************************)
(* TLAPS proofs about the two queues through which other threads hand work *)
(* to an event loop: MpscQueue, for any number of producers, values and    *)
(* heap addresses, and TimerQueue, for any timers, intervals and clock.    *)
(* The two share no state here; each theorem is about one of them.         *)
(***************************************************************************)
EXTENDS MpscQueue, TimerQueue, WellFoundedInduction, TLAPS

-----------------------------------------------------------------------------
(*                                MpscQueue                                *)

-----------------------------------------------------------------------------
(* Facts about sequences that the steps below use.                         *)

\* What Append does to length and places.
LEMMA AppendFacts ==
    ASSUME NEW S, NEW s \in Seq(S), NEW x \in S
    PROVE  /\ Append(s, x) \in Seq(S)
           /\ Len(Append(s, x)) = Len(s) + 1
           /\ \A i \in 1..Len(s) : Append(s, x)[i] = s[i]
           /\ Append(s, x)[Len(s) + 1] = x
  OBVIOUS

\* What Tail does to length and places.
LEMMA TailFacts ==
    ASSUME NEW S, NEW s \in Seq(S), s # <<>>
    PROVE  /\ Tail(s) \in Seq(S)
           /\ Len(Tail(s)) = Len(s) - 1
           /\ \A i \in 1..(Len(s) - 1) : Tail(s)[i] = s[i + 1]
  OBVIOUS

\* Elements and length of a sequence over S.
LEMMA SeqFacts ==
    ASSUME NEW S, NEW s \in Seq(S)
    PROVE  /\ Len(s) \in Nat
           /\ \A i \in 1..Len(s) : s[i] \in S
           /\ s # <<>> <=> Len(s) >= 1
  OBVIOUS

-----------------------------------------------------------------------------
(* The inductive invariant.  chain lists the nodes from tail_ to head_; it *)
(* is the exchange order, and next_ follows it except at the places where  *)
(* a producer stands between exchange and link.                            *)

ChainEnds ==
    /\ Len(chain) >= 1
    /\ chain[1] = tail_
    /\ chain[Len(chain)] = head_
    /\ next_[head_] = NoNode

ChainDistinct ==
    /\ \A i \in 1..Len(chain) : chain[i] \in heap
    /\ \A i, j \in 1..Len(chain) : chain[i] = chain[j] => i = j

ChainLinked ==
    \A i \in 1..(Len(chain) - 1) : next_[chain[i]] \in {chain[i + 1], NoNode}

ChainData == \A i \in 2..Len(chain) : data[chain[i]] \in Values

\* A producer about to exchange holds a node nobody else knows.
Exchanging ==
    \A p \in Producers : pc[p] = "exchange" =>
        /\ node[p] \in heap
        /\ \A i \in 1..Len(chain) : chain[i] # node[p]
        /\ next_[node[p]] = NoNode
        /\ data[node[p]] \in Values
        /\ \A r \in Producers : pc[r] = "exchange" /\ r # p => node[r] # node[p]

\* A producer about to link stands at one gap of the list, alone.
Linking ==
    \A p \in Producers : pc[p] = "link" =>
        /\ \E i \in 1..(Len(chain) - 1) :
              /\ prevhead[p] = chain[i] /\ node[p] = chain[i + 1]
              /\ next_[chain[i]] = NoNode
        /\ \A r \in Producers : pc[r] = "link" /\ r # p => prevhead[r] # prevhead[p]

\* Every gap has its producer: nothing is cut off for good.
Gaps ==
    \A i \in 1..(Len(chain) - 1) : next_[chain[i]] = NoNode =>
        \E p \in Producers : pc[p] = "link" /\ prevhead[p] = chain[i]

Consuming ==
    /\ cpc = "take" => tail = tail_ /\ next = next_[tail_] /\ next # NoNode
    /\ cpc = "delete" =>
        /\ tail \in heap
        /\ \A i \in 1..Len(chain) : chain[i] # tail
        /\ \A p \in Producers : pc[p] = "exchange" => node[p] # tail

\* Who owns an allocated node, and an allocated value.
Owned ==
    /\ \A n \in heap :
        \/ \E i \in 1..Len(chain) : chain[i] = n
        \/ \E p \in Producers : pc[p] = "exchange" /\ node[p] = n
        \/ cpc = "delete" /\ tail = n
    /\ \A n \in Nodes : data[n] # NoValue =>
        \/ \E i \in 2..Len(chain) : chain[i] = n
        \/ \E p \in Producers : pc[p] = "exchange" /\ node[p] = n

ListInv ==
    /\ ChainEnds /\ ChainDistinct /\ ChainLinked /\ ChainData
    /\ Exchanging /\ Linking /\ Gaps /\ Consuming /\ Owned

\* Nobody is in a call while the queue is being destroyed or is gone.
Lifetime ==
    /\ life # "up" => \A p \in Producers : pc[p] = "idle"
    /\ life = "gone" => /\ cpc = "idle" /\ heap = {} /\ Len(chain) = 1
                        /\ \A n \in Nodes : data[n] = NoValue

Inv == TypeOK /\ Lifetime /\ (life # "gone" => ListInv)
-----------------------------------------------------------------------------
\* The constructor establishes the invariant.
LEMMA InitInv == Init => Inv
  BY NodeAssumption, ValueAssumption, SMT
  DEF Init, Inv, TypeOK, Lifetime, ListInv, ChainEnds, ChainDistinct, ChainLinked,
      ChainData, Exchanging, Linking, Gaps, Consuming, Owned

\* new BufferNode takes an address that is in nobody's hands.
LEMMA NewNodeInv ==
    ASSUME Inv, NEW p \in Producers, NEW v \in Values, NewNode(p, v)
    PROVE  Inv'
<1> USE NodeAssumption, ValueAssumption
<1>1. PICK n \in Nodes \ heap :
        /\ heap' = heap \cup {n}
        /\ next_' = [next_ EXCEPT ![n] = NoNode]
        /\ data' = [data EXCEPT ![n] = v]
        /\ node' = [node EXCEPT ![p] = n]
  BY DEF NewNode
<1>2. /\ life = "up" /\ life' = "up" /\ pc[p] = "idle"
      /\ pc' = [pc EXCEPT ![p] = "exchange"]
      /\ UNCHANGED <<head_, tail_, prevhead, cpc, tail, next, output, chain>>
  BY DEF NewNode, consVars
<1>3. TypeOK /\ ListInv
  BY <1>2 DEF Inv
<1>4. TypeOK'
  BY <1>1, <1>2, <1>3 DEF TypeOK
<1>5. Lifetime'
  BY <1>2 DEF Lifetime
<1>6. \A i \in 1..Len(chain) : chain[i] \in Nodes /\ chain[i] # n
  BY <1>1, <1>3, SeqFacts DEF TypeOK, ListInv, ChainDistinct
<1>7. ChainEnds' /\ ChainDistinct' /\ ChainLinked' /\ ChainData'
  BY <1>1, <1>2, <1>3, <1>6, SeqFacts
  DEF TypeOK, ListInv, ChainEnds, ChainDistinct, ChainLinked, ChainData
<1>8. Exchanging'
  BY <1>1, <1>2, <1>3, <1>6 DEF TypeOK, ListInv, Exchanging
<1>9. Linking'
  BY <1>1, <1>2, <1>3, <1>6, SeqFacts DEF TypeOK, ListInv, Linking
<1>10. Consuming'
  BY <1>1, <1>2, <1>3, <1>6 DEF TypeOK, ListInv, Consuming, ChainDistinct, ChainEnds
<1>11. Owned'
  BY <1>1, <1>2, <1>3 DEF TypeOK, ListInv, Owned
<1>12. Gaps'
  BY <1>1, <1>2, <1>3, <1>6, SeqFacts DEF TypeOK, ListInv, Gaps
<1> QED
  BY <1>4, <1>5, <1>7, <1>8, <1>9, <1>10, <1>11, <1>12 DEF Inv, ListInv

\* The exchange extends the list at head_ and opens a gap before it.
LEMMA ExchangeInv ==
    ASSUME Inv, NEW p \in Producers, Exchange(p)
    PROVE  Inv'
<1> USE NodeAssumption, ValueAssumption
<1>1. /\ pc[p] = "exchange" /\ life = "up" /\ life' = "up"
      /\ prevhead' = [prevhead EXCEPT ![p] = head_]
      /\ head_' = node[p]
      /\ chain' = Append(chain, node[p])
      /\ pc' = [pc EXCEPT ![p] = "link"]
      /\ UNCHANGED <<tail_, next_, data, heap, node, cpc, tail, next, output>>
  BY DEF Exchange, consVars, Inv, Lifetime, TypeOK
<1>2. TypeOK /\ ListInv
  BY <1>1 DEF Inv
<1>3. node[p] \in Nodes
  BY <1>1, <1>2 DEF ListInv, Exchanging, TypeOK
<1>4. chain \in Seq(Nodes)
  BY <1>2 DEF TypeOK
<1>5. DEFINE L == Len(chain)
<1>6. /\ L \in Nat /\ L >= 1
      /\ \A i \in 1..L : chain[i] \in Nodes
  BY <1>2, <1>4, SeqFacts DEF ListInv, ChainEnds
<1>7. /\ chain' \in Seq(Nodes)
      /\ Len(chain') = L + 1
      /\ \A i \in 1..L : chain'[i] = chain[i]
      /\ chain'[L + 1] = node[p]
  BY <1>1, <1>3, <1>4, AppendFacts
<1> HIDE DEF L
<1>8. TypeOK'
  BY <1>1, <1>2, <1>3, <1>7 DEF TypeOK
<1>9. Lifetime'
  BY <1>1 DEF Lifetime
<1>10. \A i \in 1..L : chain[i] # node[p]
  BY <1>1, <1>2 DEF ListInv, Exchanging, L
<1>11. chain[L] = head_ /\ chain[1] = tail_ /\ next_[head_] = NoNode /\ next_[node[p]] = NoNode
       /\ node[p] \in heap /\ data[node[p]] \in Values
  BY <1>1, <1>2 DEF ListInv, ChainEnds, Exchanging, L
<1>12. ChainEnds'
  BY <1>1, <1>6, <1>7, <1>11 DEF ChainEnds
<1>13. ChainDistinct'
  <2>1. \A i \in 1..(L + 1) : i \in 1..L \/ i = L + 1
    BY <1>6
  <2>2. \A i \in 1..L : chain[i] \in heap
    BY <1>2 DEF ListInv, ChainDistinct, L
  <2>3. \A i, j \in 1..L : chain[i] = chain[j] => i = j
    BY <1>2 DEF ListInv, ChainDistinct, L
  <2> QED
    BY <1>1, <1>7, <1>10, <1>11, <2>1, <2>2, <2>3 DEF ChainDistinct
<1>14. ChainLinked'
  <2>1. \A i \in 1..(L - 1) : next_[chain[i]] \in {chain[i + 1], NoNode}
    BY <1>2 DEF ListInv, ChainLinked, L
  <2> QED
    BY <1>1, <1>6, <1>7, <1>11, <2>1 DEF ChainLinked
<1>15. ChainData'
  <2>1. \A i \in 2..L : data[chain[i]] \in Values
    BY <1>2 DEF ListInv, ChainData, L
  <2> QED
    BY <1>1, <1>6, <1>7, <1>11, <2>1 DEF ChainData
<1>16. Exchanging'
  <2> SUFFICES ASSUME NEW r \in Producers, pc'[r] = "exchange"
               PROVE  /\ node[r] \in heap
                      /\ \A i \in 1..(L + 1) : chain'[i] # node[r]
                      /\ next_[node[r]] = NoNode
                      /\ data[node[r]] \in Values
                      /\ \A t \in Producers : pc'[t] = "exchange" /\ t # r => node[t] # node[r]
    BY <1>1, <1>7 DEF Exchanging
  <2>1. r # p /\ pc[r] = "exchange"
    BY <1>1, <1>2 DEF TypeOK
  <2>2. /\ node[r] \in heap /\ next_[node[r]] = NoNode /\ data[node[r]] \in Values
        /\ \A i \in 1..L : chain[i] # node[r]
        /\ \A t \in Producers : pc[t] = "exchange" /\ t # r => node[t] # node[r]
    BY <1>2, <2>1 DEF ListInv, Exchanging, L
  <2>3. \A i \in 1..(L + 1) : chain'[i] # node[r]
    BY <1>1, <1>6, <1>7, <2>1, <2>2
  <2> QED
    BY <1>1, <1>2, <2>2, <2>3 DEF TypeOK
<1>17. Linking'
  <2>1. \A r \in Producers : pc[r] = "link" =>
          \E i \in 1..(L - 1) : /\ prevhead[r] = chain[i] /\ node[r] = chain[i + 1]
                                /\ next_[chain[i]] = NoNode
    BY <1>2 DEF ListInv, Linking, L
  <2>2. \A r \in Producers : pc[r] = "link" => prevhead[r] # head_
    BY <1>6, <1>11, <1>2, <2>1 DEF ListInv, ChainDistinct, L
  <2>3. ASSUME NEW r \in Producers, pc'[r] = "link"
        PROVE  \E i \in 1..L : /\ prevhead'[r] = chain'[i] /\ node[r] = chain'[i + 1]
                               /\ next_[chain'[i]] = NoNode
    <3>1. CASE r = p
      <4>1. L \in 1..L /\ prevhead'[r] = chain'[L] /\ node[r] = chain'[L + 1]
            /\ next_[chain'[L]] = NoNode
        BY <1>1, <1>2, <1>6, <1>7, <1>11, <3>1 DEF TypeOK
      <4> QED
        BY <4>1
    <3>2. CASE r # p
      BY <1>1, <1>2, <1>6, <1>7, <2>1, <2>3, <3>2 DEF TypeOK
    <3> QED
      BY <3>1, <3>2
  <2>4. ASSUME NEW r \in Producers, NEW t \in Producers, pc'[r] = "link", pc'[t] = "link", r # t
        PROVE  prevhead'[r] # prevhead'[t]
    BY <1>1, <1>2, <2>2, <2>4 DEF TypeOK, ListInv, Linking
  <2> QED
    BY <1>1, <1>6, <1>7, <2>3, <2>4 DEF Linking
<1>18. Consuming'
  BY <1>1, <1>2, <1>6, <1>7 DEF TypeOK, ListInv, Consuming, L
<1>19. Owned'
  <2>1. \A n \in heap : \/ \E i \in 1..L : chain[i] = n
                        \/ \E r \in Producers : pc[r] = "exchange" /\ node[r] = n
                        \/ cpc = "delete" /\ tail = n
    BY <1>2 DEF ListInv, Owned, L
  <2>2. \A n \in Nodes : data[n] # NoValue =>
                        \/ \E i \in 2..L : chain[i] = n
                        \/ \E r \in Producers : pc[r] = "exchange" /\ node[r] = n
    BY <1>2 DEF ListInv, Owned, L
  <2> QED
    BY <1>1, <1>2, <1>6, <1>7, <2>1, <2>2 DEF TypeOK, Owned
<1>20. Gaps'
  <2> SUFFICES ASSUME NEW i \in 1..L, next_[chain'[i]] = NoNode
               PROVE  \E r \in Producers : pc'[r] = "link" /\ prevhead'[r] = chain'[i]
    BY <1>1, <1>6, <1>7 DEF Gaps
  <2>1. CASE i = L
    BY <1>1, <1>2, <1>6, <1>7, <1>11, <2>1 DEF TypeOK
  <2>2. CASE i # L
    <3>1. PICK r \in Producers : pc[r] = "link" /\ prevhead[r] = chain[i]
      BY <1>2, <1>6, <1>7, <2>2 DEF ListInv, Gaps, L
    <3> QED
      BY <1>1, <1>2, <1>6, <1>7, <3>1 DEF TypeOK
  <2> QED
    BY <2>1, <2>2
<1> QED
  BY <1>8, <1>9, <1>12, <1>13, <1>14, <1>15, <1>16, <1>17, <1>18, <1>19, <1>20 DEF Inv, ListInv

\* The link closes the producer's own gap and touches no other place.
LEMMA LinkInv ==
    ASSUME Inv, NEW p \in Producers, Link(p)
    PROVE  Inv'
<1> USE NodeAssumption, ValueAssumption
<1>1. /\ pc[p] = "link" /\ life = "up" /\ life' = "up"
      /\ next_' = [next_ EXCEPT ![prevhead[p]] = node[p]]
      /\ pc' = [pc EXCEPT ![p] = "idle"]
      /\ UNCHANGED <<head_, tail_, data, heap, node, prevhead, cpc, tail, next, output, chain>>
  BY DEF Link, consVars, Inv, Lifetime, TypeOK
<1>2. TypeOK /\ ListInv
  BY <1>1 DEF Inv
<1>3. PICK k \in 1..(Len(chain) - 1) :
        prevhead[p] = chain[k] /\ node[p] = chain[k + 1] /\ next_[chain[k]] = NoNode
  BY <1>1, <1>2 DEF ListInv, Linking
<1>4. Len(chain) \in Nat /\ \A i \in 1..Len(chain) : chain[i] \in Nodes
  BY <1>2, SeqFacts DEF TypeOK
<1>5. chain[k] \in Nodes /\ chain[k + 1] \in Nodes /\ k \in 1..Len(chain) /\ k # Len(chain)
  BY <1>3, <1>4
<1>6. /\ next_'[chain[k]] = chain[k + 1]
      /\ \A n \in Nodes : n # chain[k] => next_'[n] = next_[n]
  BY <1>1, <1>2, <1>3, <1>5 DEF TypeOK
<1>7. \A i, j \in 1..Len(chain) : chain[i] = chain[j] => i = j
  BY <1>2 DEF ListInv, ChainDistinct
<1>8. TypeOK'
  BY <1>1, <1>2, <1>3, <1>5 DEF TypeOK
<1>9. Lifetime'
  BY <1>1 DEF Lifetime
<1>10. head_ # chain[k]
  BY <1>2, <1>4, <1>5, <1>7 DEF ListInv, ChainEnds
<1>11. ChainEnds'
  BY <1>1, <1>2, <1>6, <1>10 DEF TypeOK, ListInv, ChainEnds
<1>12. ChainDistinct' /\ ChainData'
  BY <1>1, <1>2 DEF ListInv, ChainDistinct, ChainData
<1>13. ChainLinked'
  BY <1>1, <1>2, <1>4, <1>5, <1>6, <1>7 DEF ListInv, ChainLinked
<1>14. Exchanging'
  BY <1>1, <1>2, <1>5, <1>6 DEF TypeOK, ListInv, Exchanging
<1>15. Linking'
  <2> SUFFICES ASSUME NEW r \in Producers, pc'[r] = "link"
               PROVE  /\ \E i \in 1..(Len(chain) - 1) :
                            /\ prevhead[r] = chain[i] /\ node[r] = chain[i + 1]
                            /\ next_'[chain[i]] = NoNode
                      /\ \A t \in Producers : pc'[t] = "link" /\ t # r => prevhead[t] # prevhead[r]
    BY <1>1 DEF Linking
  <2>1. r # p /\ pc[r] = "link"
    BY <1>1, <1>2 DEF TypeOK
  <2>2. prevhead[r] # chain[k]
    BY <1>1, <1>2, <1>3, <2>1 DEF ListInv, Linking
  <2>3. PICK i \in 1..(Len(chain) - 1) :
          prevhead[r] = chain[i] /\ node[r] = chain[i + 1] /\ next_[chain[i]] = NoNode
    BY <1>2, <2>1 DEF ListInv, Linking
  <2>4. next_'[chain[i]] = NoNode
    BY <1>4, <1>6, <2>2, <2>3
  <2>5. \A t \in Producers : pc'[t] = "link" /\ t # r => prevhead[t] # prevhead[r]
    BY <1>1, <1>2, <2>1 DEF TypeOK, ListInv, Linking
  <2> QED
    BY <2>3, <2>4, <2>5
<1>16. Consuming'
  <2>1. cpc = "take" => tail_ # chain[k]
    BY <1>2, <1>3 DEF ListInv, Consuming
  <2> QED
    BY <1>1, <1>2, <1>6, <2>1 DEF TypeOK, ListInv, Consuming
<1>17. Owned'
  BY <1>1, <1>2 DEF TypeOK, ListInv, Owned
<1>18. Gaps'
  <2> SUFFICES ASSUME NEW i \in 1..(Len(chain) - 1), next_'[chain[i]] = NoNode
               PROVE  \E r \in Producers : pc'[r] = "link" /\ prevhead[r] = chain[i]
    BY <1>1 DEF Gaps
  <2>1. chain[i] # chain[k] /\ next_[chain[i]] = NoNode
    BY <1>4, <1>5, <1>6
  <2>2. PICK r \in Producers : pc[r] = "link" /\ prevhead[r] = chain[i]
    BY <1>2, <2>1 DEF ListInv, Gaps
  <2> QED
    BY <1>1, <1>2, <1>3, <2>1, <2>2 DEF TypeOK
<1> QED
  BY <1>8, <1>9, <1>11, <1>12, <1>13, <1>14, <1>15, <1>16, <1>17, <1>18 DEF Inv, ListInv

\* Loading tail->next_ and reporting emptiness only touch the consumer's locals.
LEMMA LoadInv ==
    ASSUME Inv, Load \/ LoadNull \/ Empty
    PROVE  Inv'
<1> USE NodeAssumption, ValueAssumption
<1>1. /\ life # "gone" /\ life' = life /\ cpc = "idle"
      /\ UNCHANGED <<head_, tail_, next_, data, heap, pc, node, prevhead, chain>>
  BY DEF Load, LoadNull, Empty, prodVars
<1>2. TypeOK /\ ListInv /\ Lifetime
  BY <1>1 DEF Inv
<1>3. TypeOK' /\ Consuming' /\ Lifetime'
  BY <1>1, <1>2 DEF TypeOK, Load, LoadNull, Empty, ListInv, Consuming, Lifetime
<1>4. /\ ChainEnds' /\ ChainDistinct' /\ ChainLinked' /\ ChainData'
      /\ Exchanging' /\ Linking' /\ Gaps'
  BY <1>1, <1>2 DEF ListInv, ChainEnds, ChainDistinct, ChainLinked, ChainData,
                    Exchanging, Linking, Gaps
<1>5. Owned'
  <2>1. cpc # "delete"
    BY <1>1
  <2> QED
    BY <1>1, <1>2, <2>1 DEF ListInv, Owned
<1> QED
  BY <1>3, <1>4, <1>5 DEF Inv, ListInv

\* Taking a value moves the front of the list to its second node, which is linked.
LEMMA TakeInv ==
    ASSUME Inv, Take
    PROVE  Inv'
<1> USE NodeAssumption, ValueAssumption
<1>1. /\ cpc = "take" /\ life # "gone" /\ life' = life
      /\ output' = data[next]
      /\ data' = [data EXCEPT ![next] = NoValue]
      /\ tail_' = next
      /\ chain' = Tail(chain)
      /\ cpc' = "delete"
      /\ UNCHANGED <<head_, next_, heap, pc, node, prevhead, tail, next>>
  BY DEF Take, prodVars, Inv, Lifetime
<1>2. TypeOK /\ ListInv
  BY <1>1 DEF Inv
<1>3. DEFINE L == Len(chain)
<1>4. chain \in Seq(Nodes) /\ L \in Nat /\ L >= 1 /\ \A i \in 1..L : chain[i] \in Nodes
  BY <1>2, SeqFacts DEF TypeOK, ListInv, ChainEnds
<1>5. chain[1] = tail_ /\ chain[L] = head_ /\ next_[head_] = NoNode
  BY <1>2 DEF ListInv, ChainEnds
<1>6. tail = tail_ /\ next = next_[tail_] /\ next # NoNode
  BY <1>1, <1>2 DEF ListInv, Consuming
<1>7. L >= 2
  BY <1>4, <1>5, <1>6
<1>8. next = chain[2] /\ 2 \in 1..L
  BY <1>2, <1>4, <1>5, <1>6, <1>7 DEF ListInv, ChainLinked
<1>9. /\ chain' \in Seq(Nodes)
      /\ Len(chain') = L - 1
      /\ \A i \in 1..(L - 1) : chain'[i] = chain[i + 1]
  BY <1>1, <1>4, SeqFacts, TailFacts
<1> HIDE DEF L
<1>10. \A i, j \in 1..L : chain[i] = chain[j] => i = j
  BY <1>2 DEF ListInv, ChainDistinct, L
<1>11. next \in Nodes /\ data[next] \in Values
  BY <1>2, <1>4, <1>7, <1>8 DEF ListInv, ChainData, L
<1>12. TypeOK'
  BY <1>1, <1>2, <1>9, <1>11 DEF TypeOK
<1>13. Lifetime'
  BY <1>1 DEF Lifetime, Inv
<1>14. ChainEnds'
  BY <1>1, <1>4, <1>5, <1>7, <1>8, <1>9 DEF ChainEnds
<1>15. ChainDistinct'
  <2>1. \A i \in 1..L : chain[i] \in heap
    BY <1>2 DEF ListInv, ChainDistinct, L
  <2> QED
    BY <1>1, <1>4, <1>9, <1>10, <2>1 DEF ChainDistinct
<1>16. ChainLinked'
  <2>1. \A i \in 1..(L - 1) : next_[chain[i]] \in {chain[i + 1], NoNode}
    BY <1>2 DEF ListInv, ChainLinked, L
  <2> QED
    BY <1>1, <1>4, <1>7, <1>9, <2>1 DEF ChainLinked
<1>17. ChainData'
  <2>1. \A i \in 2..L : data[chain[i]] \in Values
    BY <1>2 DEF ListInv, ChainData, L
  <2>2. \A i \in 3..L : data'[chain[i]] = data[chain[i]]
    BY <1>1, <1>2, <1>4, <1>8, <1>10 DEF TypeOK
  <2> QED
    BY <1>1, <1>4, <1>7, <1>9, <2>1, <2>2 DEF ChainData
<1>18. Exchanging'
  <2> SUFFICES ASSUME NEW r \in Producers, pc[r] = "exchange"
               PROVE  /\ node[r] \in heap
                      /\ \A i \in 1..(L - 1) : chain'[i] # node[r]
                      /\ next_[node[r]] = NoNode
                      /\ data'[node[r]] \in Values
                      /\ \A t \in Producers : pc[t] = "exchange" /\ t # r => node[t] # node[r]
    BY <1>1, <1>9 DEF Exchanging
  <2>1. /\ node[r] \in heap /\ next_[node[r]] = NoNode /\ data[node[r]] \in Values
        /\ \A i \in 1..L : chain[i] # node[r]
        /\ \A t \in Producers : pc[t] = "exchange" /\ t # r => node[t] # node[r]
    BY <1>2 DEF ListInv, Exchanging, L
  <2> QED
    BY <1>1, <1>2, <1>4, <1>8, <1>9, <2>1 DEF TypeOK
<1>19. Linking'
  <2>1. ASSUME NEW r \in Producers, pc[r] = "link"
        PROVE  \E i \in 1..(L - 2) : /\ prevhead[r] = chain'[i] /\ node[r] = chain'[i + 1]
                                     /\ next_[chain'[i]] = NoNode
    <3>1. PICK i \in 1..(L - 1) : /\ prevhead[r] = chain[i] /\ node[r] = chain[i + 1]
                                  /\ next_[chain[i]] = NoNode
      BY <1>2, <2>1 DEF ListInv, Linking, L
    <3>2. i # 1
      BY <1>5, <1>6, <3>1
    <3>3. i - 1 \in 1..(L - 2) /\ chain'[i - 1] = chain[i] /\ chain'[(i - 1) + 1] = chain[i + 1]
      BY <1>4, <1>9, <3>1, <3>2
    <3> QED
      BY <3>1, <3>3
  <2>2. \A r, t \in Producers : pc[r] = "link" /\ pc[t] = "link" /\ t # r => prevhead[t] # prevhead[r]
    BY <1>2 DEF ListInv, Linking
  <2>3. Len(chain') - 1 = L - 2
    BY <1>4, <1>9
  <2> QED
    BY <1>1, <2>1, <2>2, <2>3 DEF Linking
<1>20. Consuming'
  <2>1. tail \in heap /\ \A p \in Producers : pc[p] = "exchange" => node[p] # tail
    BY <1>2, <1>4, <1>5, <1>6 DEF ListInv, ChainDistinct, Exchanging, L
  <2>2. ASSUME NEW i \in 1..(L - 1) PROVE chain'[i] # tail
    <3>1. i + 1 \in 1..L /\ 1 \in 1..L /\ i + 1 # 1
      BY <1>4
    <3> QED
      BY <1>5, <1>6, <1>9, <1>10, <3>1
  <2> QED
    BY <1>1, <1>9, <2>1, <2>2 DEF Consuming
<1>21. Owned'
  <2>1. \A n \in heap : \/ \E i \in 1..L : chain[i] = n
                        \/ \E r \in Producers : pc[r] = "exchange" /\ node[r] = n
    BY <1>1, <1>2 DEF ListInv, Owned, L
  <2>2. \A n \in Nodes : data[n] # NoValue =>
                        \/ \E i \in 2..L : chain[i] = n
                        \/ \E r \in Producers : pc[r] = "exchange" /\ node[r] = n
    BY <1>2 DEF ListInv, Owned, L
  <2>3. \A i \in 2..L : i - 1 \in 1..(L - 1) /\ chain'[i - 1] = chain[i]
    BY <1>4, <1>9
  <2>4. \A n \in heap : \/ \E i \in 1..(L - 1) : chain'[i] = n
                        \/ \E r \in Producers : pc[r] = "exchange" /\ node[r] = n
                        \/ tail = n
    BY <1>4, <1>5, <1>6, <2>1, <2>3
  <2>5. \A n \in Nodes : data'[n] # NoValue => n # next /\ data[n] # NoValue
    BY <1>1, <1>2 DEF TypeOK
  <2>6. ASSUME NEW n \in Nodes, data'[n] # NoValue
        PROVE  \/ \E i \in 2..(L - 1) : chain'[i] = n
               \/ \E r \in Producers : pc[r] = "exchange" /\ node[r] = n
    <3>1. CASE \E r \in Producers : pc[r] = "exchange" /\ node[r] = n
      BY <3>1
    <3>2. CASE \E i \in 2..L : chain[i] = n
      <4>1. PICK i \in 2..L : chain[i] = n
        BY <3>2
      <4>2. i # 2
        BY <1>8, <2>5, <2>6, <4>1
      <4>3. i - 1 \in 2..(L - 1) /\ chain'[i - 1] = n
        BY <1>4, <2>3, <4>1, <4>2
      <4> QED
        BY <4>3
    <3> QED
      BY <2>2, <2>5, <2>6, <3>1, <3>2
  <2> QED
    BY <1>1, <1>9, <2>4, <2>6 DEF Owned
<1>22. Gaps'
  <2>1. \A i \in 1..(L - 2) : i + 1 \in 1..(L - 1) /\ chain'[i] = chain[i + 1]
    BY <1>4, <1>9
  <2>2. \A i \in 1..(L - 1) : next_[chain[i]] = NoNode =>
          \E p \in Producers : pc[p] = "link" /\ prevhead[p] = chain[i]
    BY <1>2 DEF ListInv, Gaps, L
  <2>3. Len(chain') - 1 = L - 2
    BY <1>4, <1>9
  <2>4. \A i \in 1..(L - 2) : next_[chain'[i]] = NoNode =>
          \E p \in Producers : pc[p] = "link" /\ prevhead[p] = chain'[i]
    BY <2>1, <2>2
  <2> QED
    BY <1>1, <2>3, <2>4 DEF Gaps
<1> QED
  BY <1>12, <1>13, <1>14, <1>15, <1>16, <1>17, <1>18, <1>19, <1>20, <1>21, <1>22
  DEF Inv, ListInv

\* The node behind the front is in nobody's hands any more when it is deleted.
LEMMA DeleteTailInv ==
    ASSUME Inv, DeleteTail
    PROVE  Inv'
<1> USE NodeAssumption, ValueAssumption
<1>1. /\ cpc = "delete" /\ cpc' = "idle" /\ life # "gone" /\ life' = life
      /\ heap' = heap \ {tail}
      /\ UNCHANGED <<head_, tail_, next_, data, pc, node, prevhead, tail, next, output, chain>>
  BY DEF DeleteTail, prodVars, Inv, Lifetime
<1>2. TypeOK /\ ListInv /\ Lifetime
  BY <1>1 DEF Inv
<1>3. TypeOK' /\ Lifetime'
  BY <1>1, <1>2 DEF TypeOK, Lifetime
<1>4. /\ ChainEnds' /\ ChainDistinct' /\ ChainLinked' /\ ChainData'
      /\ Linking' /\ Gaps' /\ Consuming'
  BY <1>1, <1>2 DEF ListInv, ChainEnds, ChainDistinct, ChainLinked, ChainData,
                    Linking, Gaps, Consuming
<1>5. Exchanging'
  BY <1>1, <1>2 DEF ListInv, Exchanging, Consuming
<1>6. Owned'
  BY <1>1, <1>2 DEF ListInv, Owned
<1> QED
  BY <1>3, <1>4, <1>5, <1>6 DEF Inv, ListInv

\* The destructor starts only when no thread is inside a call.
LEMMA DestroyInv ==
    ASSUME Inv, Destroy
    PROVE  Inv'
<1>1. /\ life = "up" /\ life' = "dtor" /\ \A p \in Producers : pc[p] = "idle"
      /\ UNCHANGED <<head_, tail_, next_, data, heap, pc, node, prevhead,
                     cpc, tail, next, output, chain>>
  BY DEF Destroy, prodVars, consVars
<1>2. TypeOK /\ ListInv /\ Lifetime
  BY <1>1 DEF Inv
<1>3. TypeOK' /\ Lifetime'
  BY <1>1, <1>2 DEF TypeOK, Lifetime
<1>4. ListInv'
  BY <1>1, <1>2 DEF ListInv, ChainEnds, ChainDistinct, ChainLinked, ChainData,
                    Exchanging, Linking, Gaps, Consuming, Owned
<1> QED
  BY <1>3, <1>4 DEF Inv

\* When the drained destructor deletes head_, it is the last allocation.
LEMMA DeleteHeadInv ==
    ASSUME Inv, DeleteHead
    PROVE  Inv'
<1> USE NodeAssumption, ValueAssumption
<1>1. /\ life = "dtor" /\ life' = "gone" /\ cpc = "idle" /\ next_[tail_] = NoNode
      /\ heap' = heap \ {head_} /\ output' = Nothing
      /\ UNCHANGED <<head_, tail_, next_, data, pc, node, prevhead, cpc, tail, next, chain>>
  BY DEF DeleteHead, prodVars
<1>2. TypeOK /\ ListInv /\ \A p \in Producers : pc[p] = "idle"
  BY <1>1 DEF Inv, Lifetime
<1>3. Len(chain) \in Nat /\ \A i \in 1..Len(chain) : chain[i] \in Nodes
  BY <1>2, SeqFacts DEF TypeOK
<1>4. Len(chain) = 1
  <2>1. Len(chain) >= 1 /\ chain[1] = tail_
    BY <1>2 DEF ListInv, ChainEnds
  <2>2. \A i \in 1..(Len(chain) - 1) : next_[chain[i]] # NoNode
    BY <1>2 DEF ListInv, Gaps
  <2>3. ~ (1 \in 1..(Len(chain) - 1))
    BY <1>1, <2>1, <2>2
  <2> QED
    BY <1>3, <2>1, <2>3
<1>5. heap = {head_} /\ \A n \in Nodes : data[n] = NoValue
  BY <1>1, <1>2, <1>3, <1>4 DEF ListInv, Owned, ChainEnds, ChainDistinct, TypeOK
<1>6. TypeOK'
  BY <1>1, <1>2 DEF TypeOK
<1>7. Lifetime'
  BY <1>1, <1>2, <1>4, <1>5 DEF Lifetime
<1> QED
  BY <1>1, <1>6, <1>7 DEF Inv

\* A new queue starts from a fresh sentinel.
LEMMA ConstructInv ==
    ASSUME Inv, Construct
    PROVE  Inv'
<1> USE NodeAssumption, ValueAssumption
<1>1. PICK s \in Nodes \ heap :
        /\ head_' = s /\ tail_' = s
        /\ next_' = [next_ EXCEPT ![s] = NoNode]
        /\ heap' = heap \cup {s}
        /\ chain' = <<s>>
  BY DEF Construct
<1>2. /\ life = "gone" /\ life' = "up" /\ TypeOK
      /\ UNCHANGED <<data, pc, node, prevhead, cpc, tail, next, output>>
  BY DEF Construct, prodVars, consVars, Inv
<1>3. /\ cpc = "idle" /\ heap = {} /\ \A n \in Nodes : data[n] = NoValue
      /\ \A p \in Producers : pc[p] = "idle"
  BY <1>2 DEF Inv, Lifetime
<1>4. chain' \in Seq(Nodes) /\ Len(chain') = 1 /\ chain'[1] = s
  BY <1>1
<1>5. TypeOK'
  BY <1>1, <1>2, <1>4 DEF TypeOK
<1>6. Lifetime'
  BY <1>2 DEF Lifetime
<1>7. ChainEnds' /\ ChainDistinct' /\ ChainLinked' /\ ChainData' /\ Gaps'
  BY <1>1, <1>2, <1>4 DEF TypeOK, ChainEnds, ChainDistinct, ChainLinked, ChainData, Gaps
<1>8. Exchanging' /\ Linking' /\ Consuming'
  BY <1>2, <1>3 DEF Exchanging, Linking, Consuming
<1>9. Owned'
  BY <1>1, <1>2, <1>3, <1>4 DEF Owned
<1> QED
  BY <1>5, <1>6, <1>7, <1>8, <1>9 DEF Inv, ListInv

\* Inv is inductive: one case per action of Next.
LEMMA StepInv == Inv /\ [Next]_vars => Inv'
<1> SUFFICES ASSUME Inv, [Next]_vars PROVE Inv'
  OBVIOUS
<1>1. ASSUME NEW p \in Producers, EnqueueNext(p) PROVE Inv'
  BY <1>1, NewNodeInv, ExchangeInv, LinkInv DEF EnqueueNext
<1>2. CASE DequeueNext
  BY <1>2, LoadInv, TakeInv, DeleteTailInv DEF DequeueNext
<1>3. CASE Empty
  BY <1>3, LoadInv
<1>4. CASE Destroy \/ DeleteHead \/ Construct
  BY <1>4, DestroyInv, DeleteHeadInv, ConstructInv
<1>5. CASE UNCHANGED vars
  BY <1>5 DEF vars, Inv, TypeOK, Lifetime, ListInv, ChainEnds, ChainDistinct, ChainLinked,
              ChainData, Exchanging, Linking, Gaps, Consuming, Owned
<1> QED
  BY <1>1, <1>2, <1>3, <1>4, <1>5 DEF Next

\* Every reachable state satisfies the inductive invariant.
THEOREM Invariance == Spec => []Inv
  BY InitInv, StepInv, PTL DEF Spec

-----------------------------------------------------------------------------
\* Type correctness of MpscQueue.
THEOREM TypeCorrect == Spec => []TypeOK
<1>1. Inv => TypeOK
  BY DEF Inv
<1> QED
  BY <1>1, Invariance, PTL

(***************************************************************************)
(* enqueue(), dequeue() and ~MpscQueue never touch a deleted node: a       *)
(* producer's prevhead stays allocated until it has linked from it.        *)
(***************************************************************************)
THEOREM MemorySafe == Spec => []NoUseAfterFree
<1>1. Inv => NoUseAfterFree
  <2> SUFFICES ASSUME Inv PROVE NoUseAfterFree
    OBVIOUS
  <2>1. CASE life = "gone"
    BY <2>1 DEF Inv, Lifetime, NoUseAfterFree
  <2>2. CASE life # "gone"
    <3>1. TypeOK /\ ListInv
      BY <2>2 DEF Inv
    <3>2. Len(chain) \in Nat /\ Len(chain) >= 1
      BY <3>1, SeqFacts DEF TypeOK, ListInv, ChainEnds
    <3>3. tail_ \in heap /\ head_ \in heap
      BY <3>1, <3>2 DEF ListInv, ChainEnds, ChainDistinct
    <3>4. \A p \in Producers : pc[p] = "link" => prevhead[p] \in heap
      BY <3>1, <3>2 DEF ListInv, Linking, ChainDistinct
    <3>5. ASSUME cpc = "take" PROVE next \in heap /\ data[next] # NoValue
      <4>1. tail = tail_ /\ next = next_[tail_] /\ next # NoNode
        BY <3>1, <3>5 DEF ListInv, Consuming
      <4>2. Len(chain) >= 2
        BY <3>1, <3>2, <4>1 DEF ListInv, ChainEnds
      <4>3. next = chain[2]
        BY <3>1, <3>2, <4>1, <4>2 DEF ListInv, ChainEnds, ChainLinked
      <4> QED
        BY <3>1, <3>2, <4>2, <4>3, ValueAssumption DEF ListInv, ChainDistinct, ChainData
    <3>6. cpc = "delete" => tail \in heap
      BY <3>1 DEF ListInv, Consuming
    <3> QED
      BY <3>3, <3>4, <3>5, <3>6 DEF NoUseAfterFree
  <2> QED
    BY <2>1, <2>2
<1> QED
  BY <1>1, Invariance, PTL

(***************************************************************************)
(* No node and no value is lost track of; ~MpscQueue frees all of them.    *)
(***************************************************************************)
THEOREM LeakFree == Spec => []NoLeak
<1>1. Inv => NoLeak
  <2> SUFFICES ASSUME Inv PROVE NoLeak
    OBVIOUS
  <2>1. CASE life = "gone"
    BY <2>1 DEF Inv, Lifetime, NoLeak
  <2>2. CASE life # "gone"
    <3>1. TypeOK /\ ListInv
      BY <2>2 DEF Inv
    <3> DEFINE C == {chain[i] : i \in 1..Len(chain)}
               X == {node[p] : p \in {r \in Producers : pc[r] = "exchange"}}
               D == IF cpc = "delete" THEN {tail} ELSE {}
    <3>2. heap \subseteq C \cup X \cup D
      BY <3>1 DEF ListInv, Owned
    <3>3. C \subseteq heap
      BY <3>1 DEF ListInv, ChainDistinct
    <3>4. X \subseteq heap
      BY <3>1 DEF ListInv, Exchanging
    <3>5. D \subseteq heap
      BY <3>1 DEF ListInv, Consuming
    <3>6. heap = C \cup X \cup D
      BY <3>2, <3>3, <3>4, <3>5
    <3> QED
      BY <2>2, <3>6 DEF NoLeak
  <2> QED
    BY <2>1, <2>2
<1> QED
  BY <1>1, Invariance, PTL

-----------------------------------------------------------------------------
(* MpscQueue implements FifoQueue.                                         *)

Entries == [val : Values \cup {NoValue}, visible : BOOLEAN]

\* A function on 1..n into S is a sequence of length n.
LEMMA FunIsSeq ==
    ASSUME NEW S, NEW n \in Nat, NEW f \in [1..n -> S]
    PROVE  f \in Seq(S) /\ Len(f) = n
  OBVIOUS

\* Sequences that agree in length and at every place are equal.
LEMMA SeqEqual ==
    ASSUME NEW S, NEW s \in Seq(S), NEW t \in Seq(S), Len(s) = Len(t),
           \A i \in 1..Len(s) : s[i] = t[i]
    PROVE  s = t
  OBVIOUS

\* contents is a sequence, one shorter than chain.
LEMMA ContentsSeq ==
    ASSUME TypeOK, Len(chain) >= 1
    PROVE  /\ contents \in Seq(Entries)
           /\ Len(contents) = Len(chain) - 1
           /\ \A i \in 1..(Len(chain) - 1) :
                /\ contents[i] \in Entries
                /\ contents[i].val = data[chain[i + 1]]
                /\ contents[i].visible <=> next_[chain[i]] # NoNode
<1>1. Len(chain) - 1 \in Nat /\ \A i \in 1..Len(chain) : chain[i] \in Nodes
  BY SeqFacts DEF TypeOK
<1>2. \A i \in 1..(Len(chain) - 1) :
        [val |-> data[chain[i + 1]], visible |-> next_[chain[i]] # NoNode] \in Entries
  BY <1>1 DEF TypeOK, Entries
<1>3. contents \in [1..(Len(chain) - 1) -> Entries]
  BY <1>2 DEF contents
<1>4. contents \in Seq(Entries) /\ Len(contents) = Len(chain) - 1
  BY <1>1, <1>3, FunIsSeq
<1> QED
  BY <1>2, <1>4 DEF contents

\* Two entries with the same fields are the same.
LEMMA EntryEqual ==
    ASSUME NEW r \in Entries, NEW t \in Entries, r.val = t.val, r.visible <=> t.visible
    PROVE  r = t
  BY DEF Entries

\* chain is never empty.
LEMMA ChainNonEmpty ==
    ASSUME Inv
    PROVE  TypeOK /\ Len(chain) \in Nat /\ Len(chain) >= 1
           /\ \A i \in 1..Len(chain) : chain[i] \in Nodes
<1>1. TypeOK /\ Len(chain) \in Nat /\ \A i \in 1..Len(chain) : chain[i] \in Nodes
  BY SeqFacts DEF Inv, TypeOK
<1>2. Len(chain) >= 1
  BY <1>1 DEF Inv, Lifetime, ListInv, ChainEnds
<1> QED
  BY <1>1, <1>2

\* The abstract queue reports correctly what next_[tail_] shows.
LEMMA ReadyIffLinked ==
    ASSUME Inv, life # "gone"
    PROVE  Fifo!Ready <=> next_[tail_] # NoNode
<1>1. /\ chain[1] = tail_ /\ chain[Len(chain)] = head_ /\ next_[head_] = NoNode
  BY DEF Inv, ListInv, ChainEnds
<1>2. contents # <<>> <=> Len(contents) >= 1
  BY ChainNonEmpty, ContentsSeq, SeqFacts
<1>3. CASE Len(chain) = 1
  BY <1>1, <1>2, <1>3, ChainNonEmpty, ContentsSeq DEF Fifo!Ready
<1>4. CASE Len(chain) >= 2
  <2>1. Len(contents) >= 1 /\ (contents[1].visible <=> next_[tail_] # NoNode)
    BY <1>1, <1>4, ChainNonEmpty, ContentsSeq
  <2> QED
    BY <1>2, <2>1 DEF Fifo!Ready
<1>5. Len(chain) = 1 \/ Len(chain) >= 2
  BY ChainNonEmpty
<1> QED
  BY <1>3, <1>4, <1>5

\* Steps that change neither the order, the values nor the links are stutters.
LEMMA SameContents ==
    ASSUME Inv, Inv', chain' = chain,
           \A i \in 1..(Len(chain) - 1) :
              data'[chain[i + 1]] = data[chain[i + 1]] /\ next_'[chain[i]] = next_[chain[i]]
    PROVE  contents' = contents
  BY DEF contents

LEMMA NewNodeRefines ==
    ASSUME Inv, Inv', NEW p \in Producers, NEW v \in Values, NewNode(p, v)
    PROVE  UNCHANGED Fifo!fifoVars
<1>1. PICK n \in Nodes \ heap :
        /\ next_' = [next_ EXCEPT ![n] = NoNode]
        /\ data' = [data EXCEPT ![n] = v]
  BY DEF NewNode
<1>2. life # "gone" /\ chain' = chain /\ output' = output
  BY DEF NewNode, consVars
<1>3. \A i \in 1..Len(chain) : chain[i] \in Nodes /\ chain[i] # n
  BY <1>2, ChainNonEmpty DEF Inv, ListInv, ChainDistinct
<1>4. \A i \in 1..(Len(chain) - 1) : i \in 1..Len(chain) /\ i + 1 \in 1..Len(chain)
  BY ChainNonEmpty
<1>5. contents' = contents
  BY <1>1, <1>2, <1>3, <1>4, SameContents, ChainNonEmpty DEF TypeOK
<1> QED
  BY <1>2, <1>5 DEF Fifo!fifoVars

LEMMA ExchangeRefines ==
    ASSUME Inv, Inv', NEW p \in Producers, Exchange(p)
    PROVE  \E v \in Values : Fifo!Put(v)
<1>1. /\ pc[p] = "exchange" /\ life = "up"
      /\ chain' = Append(chain, node[p])
      /\ UNCHANGED <<next_, data, output>>
  BY DEF Exchange, consVars, Inv, Lifetime, TypeOK
<1>2. node[p] \in Nodes /\ data[node[p]] \in Values /\ next_[head_] = NoNode /\ chain[Len(chain)] = head_
  BY <1>1 DEF Inv, ListInv, Exchanging, ChainEnds, TypeOK
<1> DEFINE L == Len(chain)
           e == [val |-> data[node[p]], visible |-> FALSE]
<1>3. /\ TypeOK /\ chain \in Seq(Nodes) /\ L \in Nat /\ L >= 1
      /\ \A i \in 1..L : chain[i] \in Nodes
  BY ChainNonEmpty DEF TypeOK
<1>4. /\ Len(chain') = L + 1
      /\ \A i \in 1..L : chain'[i] = chain[i]
      /\ chain'[L + 1] = node[p]
  BY <1>1, <1>2, <1>3, AppendFacts
<1>5. e \in Entries
  BY <1>2 DEF Entries
<1>6. /\ contents \in Seq(Entries) /\ Len(contents) = L - 1
      /\ \A i \in 1..(L - 1) : /\ contents[i] \in Entries
                               /\ contents[i].val = data[chain[i + 1]]
                               /\ contents[i].visible <=> next_[chain[i]] # NoNode
  BY <1>3, ContentsSeq
<1>7. TypeOK'
  BY DEF Inv
<1>8. /\ contents' \in Seq(Entries) /\ Len(contents') = L
      /\ \A i \in 1..L : /\ contents'[i] \in Entries
                         /\ contents'[i].val = data[chain'[i + 1]]
                         /\ contents'[i].visible <=> next_[chain'[i]] # NoNode
  <2>1. Len(chain') - 1 = L /\ L \in Nat
    BY <1>3, <1>4
  <2>2. \A i \in 1..L : chain'[i] \in Nodes /\ chain'[i + 1] \in Nodes
    BY <1>2, <1>3, <1>4
  <2>3. \A i \in 1..L :
          [val |-> data[chain'[i + 1]], visible |-> next_[chain'[i]] # NoNode] \in Entries
    BY <1>3, <2>2 DEF TypeOK, Entries
  <2>4. contents' = [i \in 1..L |->
          [val |-> data[chain'[i + 1]], visible |-> next_[chain'[i]] # NoNode]]
    BY <1>1, <2>1 DEF contents
  <2>5. contents' \in [1..L -> Entries]
    BY <2>3, <2>4
  <2>6. contents' \in Seq(Entries) /\ Len(contents') = L
    BY <2>1, <2>5, FunIsSeq
  <2> QED
    BY <2>3, <2>4, <2>6
<1>9. /\ Append(contents, e) \in Seq(Entries) /\ Len(Append(contents, e)) = L
      /\ \A i \in 1..(L - 1) : Append(contents, e)[i] = contents[i]
      /\ Append(contents, e)[L] = e
  BY <1>3, <1>5, <1>6, AppendFacts
<1>10. \A i \in 1..L : contents'[i] = Append(contents, e)[i]
  <2>1. ASSUME NEW i \in 1..(L - 1) PROVE contents'[i] = contents[i]
    <3>1. /\ i \in 1..L /\ i + 1 \in 1..L
          /\ chain'[i] = chain[i] /\ chain'[i + 1] = chain[i + 1]
      BY <1>3, <1>4
    <3> QED
      BY <1>6, <1>8, <3>1, EntryEqual
  <2>2. contents'[L] = e
    <3>1. L \in 1..L /\ chain'[L] = head_ /\ chain'[L + 1] = node[p]
      BY <1>2, <1>3, <1>4
    <3>2. contents'[L] \in Entries /\ contents'[L].val = e.val /\ (contents'[L].visible <=> e.visible)
      BY <1>2, <1>8, <3>1
    <3> QED
      BY <1>5, <3>2, EntryEqual
  <2> QED
    BY <1>3, <1>9, <2>1, <2>2
<1>11. contents' = Append(contents, e)
  <2> DEFINE a == Append(contents, e)
             c == contents'
  <2>1. c \in Seq(Entries) /\ a \in Seq(Entries) /\ Len(c) = Len(a) /\ Len(c) = L
    BY <1>8, <1>9
  <2>2. \A i \in 1..Len(c) : c[i] = a[i]
    BY <1>10, <2>1
  <2> HIDE DEF a, c
  <2>3. c = a
    BY <2>1, <2>2, SeqEqual
  <2> QED
    BY <2>3 DEF a, c
<1> QED
  BY <1>1, <1>2, <1>11 DEF Fifo!Put

LEMMA LinkRefines ==
    ASSUME Inv, Inv', NEW p \in Producers, Link(p)
    PROVE  \E i \in 1..Len(contents) : Fifo!Publish(i)
<1>1. /\ pc[p] = "link" /\ life = "up"
      /\ next_' = [next_ EXCEPT ![prevhead[p]] = node[p]]
      /\ UNCHANGED <<data, chain, output>>
  BY DEF Link, consVars, Inv, Lifetime, TypeOK
<1>2. PICK k \in 1..(Len(chain) - 1) :
        prevhead[p] = chain[k] /\ node[p] = chain[k + 1] /\ next_[chain[k]] = NoNode
  BY <1>1 DEF Inv, ListInv, Linking
<1>3. TypeOK /\ Len(chain) \in Nat /\ Len(chain) >= 1 /\ \A i \in 1..Len(chain) : chain[i] \in Nodes
  BY ChainNonEmpty
<1>4. \A i \in 1..(Len(chain) - 1) : i \in 1..Len(chain) /\ i + 1 \in 1..Len(chain)
  BY <1>3
<1>5. \A i, j \in 1..Len(chain) : chain[i] = chain[j] => i = j
  BY <1>1 DEF Inv, ListInv, ChainDistinct
<1>6. \A i \in 1..(Len(chain) - 1) :
        (next_'[chain[i]] # NoNode) = IF i = k THEN TRUE ELSE next_[chain[i]] # NoNode
  BY <1>1, <1>2, <1>3, <1>4, <1>5, NodeAssumption DEF TypeOK
<1>7. /\ Len(contents) = Len(chain) - 1 /\ k \in 1..Len(contents)
      /\ contents[k] = [val |-> data[chain[k + 1]], visible |-> next_[chain[k]] # NoNode]
      /\ contents[k].visible <=> next_[chain[k]] # NoNode
  BY <1>2, <1>3, ContentsSeq DEF contents
<1>8. contents' = [contents EXCEPT ![k].visible = TRUE]
  <2>1. contents' = [i \in 1..(Len(chain) - 1) |->
            [val |-> data[chain[i + 1]], visible |-> next_'[chain[i]] # NoNode]]
    BY <1>1 DEF contents
  <2>2. \A i \in 1..(Len(chain) - 1) :
           [val |-> data[chain[i + 1]], visible |-> next_'[chain[i]] # NoNode] =
             IF i = k THEN [contents[k] EXCEPT !.visible = TRUE] ELSE contents[i]
    BY <1>6, <1>7 DEF contents
  <2> QED
    BY <2>1, <2>2 DEF contents
<1>9. ~ contents[k].visible
  BY <1>2, <1>7
<1> QED
  BY <1>1, <1>7, <1>8, <1>9 DEF Fifo!Publish

LEMMA TakeRefines ==
    ASSUME Inv, Inv', Take
    PROVE  Fifo!Get
<1>1. /\ cpc = "take" /\ life # "gone"
      /\ output' = data[next]
      /\ data' = [data EXCEPT ![next] = NoValue]
      /\ chain' = Tail(chain)
      /\ next_' = next_
  BY DEF Take, prodVars, Inv, Lifetime
<1> DEFINE L == Len(chain)
<1>2. /\ TypeOK /\ chain \in Seq(Nodes) /\ L \in Nat /\ L >= 1
      /\ \A i \in 1..L : chain[i] \in Nodes
  BY ChainNonEmpty DEF TypeOK
<1>3. /\ tail = tail_ /\ next = next_[tail_] /\ next # NoNode
      /\ chain[1] = tail_ /\ chain[L] = head_ /\ next_[head_] = NoNode
  BY <1>1 DEF Inv, ListInv, Consuming, ChainEnds
<1>4. L >= 2
  BY <1>2, <1>3
<1>5. next = chain[2]
  BY <1>1, <1>2, <1>3, <1>4 DEF Inv, ListInv, ChainLinked
<1>6. /\ Len(chain') = L - 1
      /\ \A i \in 1..(L - 1) : chain'[i] = chain[i + 1]
  BY <1>1, <1>2, SeqFacts, TailFacts
<1>7. \A i, j \in 1..L : chain[i] = chain[j] => i = j
  BY <1>1 DEF Inv, ListInv, ChainDistinct
<1>8. /\ contents \in Seq(Entries) /\ Len(contents) = L - 1
      /\ \A i \in 1..(L - 1) : /\ contents[i] \in Entries
                               /\ contents[i].val = data[chain[i + 1]]
                               /\ contents[i].visible <=> next_[chain[i]] # NoNode
  BY <1>2, ContentsSeq
<1>9. contents # <<>>
  BY <1>2, <1>4, <1>8, SeqFacts
<1>10. /\ Tail(contents) \in Seq(Entries) /\ Len(Tail(contents)) = L - 2
       /\ \A i \in 1..(L - 2) : Tail(contents)[i] = contents[i + 1]
  <2>1. Len(contents) - 1 = L - 2
    BY <1>2, <1>8
  <2> QED
    BY <1>8, <1>9, <2>1, TailFacts
<1>11. /\ contents' \in Seq(Entries) /\ Len(contents') = L - 2
       /\ \A i \in 1..(L - 2) : /\ contents'[i] \in Entries
                                /\ contents'[i].val = data'[chain'[i + 1]]
                                /\ contents'[i].visible <=> next_[chain'[i]] # NoNode
  <2>1. Len(chain') - 1 = L - 2 /\ L - 2 \in Nat
    BY <1>2, <1>4, <1>6
  <2>2. \A i \in 1..(L - 2) : chain'[i] \in Nodes /\ chain'[i + 1] \in Nodes
    BY <1>2, <1>6
  <2>3. TypeOK'
    BY DEF Inv
  <2>4. \A i \in 1..(L - 2) :
          [val |-> data'[chain'[i + 1]], visible |-> next_[chain'[i]] # NoNode] \in Entries
    BY <1>1, <2>2, <2>3 DEF TypeOK, Entries
  <2>5. contents' = [i \in 1..(L - 2) |->
          [val |-> data'[chain'[i + 1]], visible |-> next_[chain'[i]] # NoNode]]
    BY <1>1, <2>1 DEF contents
  <2>6. contents' \in [1..(L - 2) -> Entries]
    BY <2>4, <2>5
  <2>7. contents' \in Seq(Entries) /\ Len(contents') = L - 2
    BY <2>1, <2>6, FunIsSeq
  <2> QED
    BY <2>4, <2>5, <2>7
<1>12. \A i \in 1..(L - 2) : contents'[i] = Tail(contents)[i]
  <2> SUFFICES ASSUME NEW i \in 1..(L - 2) PROVE contents'[i] = Tail(contents)[i]
    OBVIOUS
  <2>1. /\ i + 1 \in 1..(L - 1) /\ i + 2 \in 1..L /\ i + 2 # 2 /\ 2 \in 1..L
        /\ (i + 1) + 1 = i + 2 /\ i \in 1..(L - 1)
    BY <1>2
  <2>2. chain'[i] = chain[i + 1] /\ chain'[i + 1] = chain[i + 2]
    BY <1>6, <2>1
  <2>3. data'[chain[i + 2]] = data[chain[i + 2]]
    BY <1>1, <1>2, <1>5, <1>7, <2>1 DEF TypeOK
  <2>4. Tail(contents)[i] = contents[i + 1]
    BY <1>10
  <2>5. /\ contents[i + 1] \in Entries /\ contents[i + 1].val = data[chain[i + 2]]
        /\ contents[i + 1].visible <=> next_[chain[i + 1]] # NoNode
    BY <1>8, <2>1
  <2>6. /\ contents'[i] \in Entries /\ contents'[i].val = data[chain[i + 2]]
        /\ contents'[i].visible <=> next_[chain[i + 1]] # NoNode
    BY <1>11, <2>2, <2>3
  <2> QED
    BY <2>4, <2>5, <2>6, EntryEqual
<1>13. contents' = Tail(contents)
  <2> DEFINE t == Tail(contents)
             c == contents'
  <2>1. c \in Seq(Entries) /\ t \in Seq(Entries) /\ Len(c) = Len(t) /\ Len(c) = L - 2
    BY <1>10, <1>11
  <2>2. \A i \in 1..Len(c) : c[i] = t[i]
    BY <1>12, <2>1
  <2> HIDE DEF t, c
  <2>3. c = t
    BY <2>1, <2>2, SeqEqual
  <2> QED
    BY <2>3 DEF t, c
<1>14. output' = contents[1].val
  <2>1. 1 \in 1..(L - 1) /\ chain[1 + 1] = next
    BY <1>2, <1>4, <1>5
  <2> QED
    BY <1>1, <1>8, <2>1
<1>15. Fifo!Ready
  BY <1>1, <1>3, ReadyIffLinked
<1> QED
  BY <1>13, <1>14, <1>15 DEF Fifo!Get

\* The remaining steps change at most what the consumer was told.
LEMMA OtherRefines ==
    ASSUME Inv, Inv', Load \/ LoadNull \/ DeleteTail \/ Empty \/ Destroy \/ DeleteHead
    PROVE  Fifo!ReportNothing \/ Fifo!ReportSomething \/ UNCHANGED Fifo!fifoVars
<1>1. life # "gone" /\ UNCHANGED <<chain, data, next_>>
  BY DEF Load, LoadNull, DeleteTail, Empty, Destroy, DeleteHead, Inv, Lifetime
<1>2. contents' = contents
  BY <1>1, SameContents
<1>3. CASE Load \/ DeleteTail \/ Destroy
  BY <1>2, <1>3 DEF Load, DeleteTail, Destroy, consVars, Fifo!fifoVars
<1>4. CASE LoadNull \/ DeleteHead
  BY <1>1, <1>2, <1>4, ReadyIffLinked DEF LoadNull, DeleteHead, Fifo!ReportNothing
<1>5. CASE Empty
  BY <1>1, <1>2, <1>5, ReadyIffLinked DEF Empty, Fifo!ReportNothing, Fifo!ReportSomething
<1> QED
  BY <1>3, <1>4, <1>5

LEMMA ConstructRefines ==
    ASSUME Inv, Inv', Construct
    PROVE  UNCHANGED Fifo!fifoVars
<1>1. life = "gone" /\ output' = output /\ Len(chain) = 1 /\ \E s \in Nodes : chain' = <<s>>
  BY DEF Construct, consVars, Inv, Lifetime
<1>2. contents = <<>> /\ contents' = <<>>
  BY <1>1 DEF contents
<1> QED
  BY <1>1, <1>2 DEF Fifo!fifoVars

(***************************************************************************)
(* MpscQueue implements FifoQueue: values leave in exchange order, exactly *)
(* once, and emptiness is reported only when the oldest value is missing   *)
(* or not yet published.                                                   *)
(***************************************************************************)
THEOREM Refinement == Spec => ImplementsFifo
<1>1. Init => Fifo!FifoInit
  BY DEF Init, Fifo!FifoInit, contents
<1>2. Inv /\ Inv' /\ [Next]_vars => [Fifo!FifoNext]_(Fifo!fifoVars)
  <2> SUFFICES ASSUME Inv, Inv', [Next]_vars PROVE [Fifo!FifoNext]_(Fifo!fifoVars)
    OBVIOUS
  <2>1. ASSUME NEW p \in Producers, EnqueueNext(p)
        PROVE  [Fifo!FifoNext]_(Fifo!fifoVars)
    BY <2>1, NewNodeRefines, ExchangeRefines, LinkRefines DEF EnqueueNext, Fifo!FifoNext
  <2>2. CASE DequeueNext
    BY <2>2, OtherRefines, TakeRefines DEF DequeueNext, Fifo!FifoNext
  <2>3. CASE Empty \/ Destroy \/ DeleteHead
    BY <2>3, OtherRefines DEF Fifo!FifoNext
  <2>4. CASE Construct
    BY <2>4, ConstructRefines
  <2>5. CASE UNCHANGED vars
    BY <2>5, SameContents DEF vars, Fifo!fifoVars
  <2> QED
    BY <2>1, <2>2, <2>3, <2>4, <2>5 DEF Next
<1> QED
  BY <1>1, <1>2, Invariance, PTL DEF Spec, ImplementsFifo, Fifo!FifoSpec

-----------------------------------------------------------------------------
(*                                TimerQueue                               *)

-----------------------------------------------------------------------------
(* The inductive invariant.                                                *)

\* The entries the loop thread holds: queued, or taken out for this round.
Held == timers_ \cup expiredList

\* Both kinds carry the expiration their timer has now.
HeldIsCurrent ==
    /\ \A e \in Held : e.timer \in added /\ e.exp = expiration_[e.timer]
    /\ timers_ \cap expiredList = {}

\* expiredList lives from handleRead() to the end of reset().
RoundIsOver == tpc = "idle" => expiredList = {}

\* A timer whose addTimerInLoop is still queued is not held, its cancel, if
\* there was one, was in vain, and whatever else is queued for it is a later cancelInLoop.
AddComesFirst ==
    \A i \in 1..Len(pending) :
        /\ pending[i][2] \in added
        /\ pending[i][1] = "addTimerInLoop" =>
              /\ pending[i][2] \in cancelled => pending[i][2] \in overtaken
              /\ \A e \in Held : e.timer # pending[i][2]
              /\ \A j \in 1..Len(pending) :
                    j # i /\ pending[j][2] = pending[i][2] =>
                        i < j /\ pending[j][1] # "addTimerInLoop"

\* A timer cancelled during its round is remembered until reset().
CancelIsKept ==
    \A t \in cancelled \ overtaken :
        /\ \A e \in timers_ : e.timer # t
        /\ \A e \in expiredList : e.timer = t => t \in cancelingTimers_

\* restart() adds an interval to a time that has come.
ExpirationIsNear == \A t \in Timers : expiration_[t] <= 2 * MaxClock

\* The alarm is not later than any queued timer.
AlarmIsSoon ==
    tpc = "idle" /\ ~ overdue =>
        \A e \in timers_ : armed \in Nat /\ armed <= e.exp + MinDelay

TimerInv ==
    /\ TimerTypeOK /\ HeldIsCurrent /\ RoundIsOver /\ AddComesFirst
    /\ CancelIsKept /\ ExpirationIsNear /\ AlarmIsSoon

-----------------------------------------------------------------------------
(* Lemmas about the model's operators.                                     *)

\* A non-empty set of entries has a first one.
LEMMA FirstIsLeast ==
    ASSUME NEW S, S \subseteq Entry, S # {}
    PROVE  first(S) \in S /\ \A f \in S : first(S).exp <= f.exp
<1> DEFINE R == {p \in Nat \X Nat : p[1] < p[2]}
           X == {e.exp : e \in S}
<1>1. IsWellFoundedOn(R, Nat)
  BY NatLessThanWellFounded, Zenon DEF OpToRel
<1>2. X \subseteq Nat /\ X # {}
  BY DEF Entry
<1>3. PICK x \in X : \A y \in X : <<y, x>> \notin R
  <2> HIDE DEF R, X
  <2> QED BY <1>1, <1>2, WFMin, Zenon
<1>4. PICK e \in S : e.exp = x
  OBVIOUS
<1>5. ASSUME NEW f \in S
      PROVE  e.exp <= f.exp
  <2>1. f.exp \in X /\ f.exp \in Nat /\ x \in Nat
    BY <1>2
  <2>2. ~ (f.exp < x)
    BY <2>1, <1>3
  <2> QED
    BY <2>1, <2>2, <1>4
<1>6. \E m \in S : \A f \in S : m.exp <= f.exp
  BY <1>5
<1> QED
  BY <1>6, Zenon DEF first

\* uint64_t subtraction is the real one when its result is.
LEMMA Wraps ==
    ASSUME NEW x \in Int, NEW w \in Nat \ {0}
    PROVE  x % w \in Nat /\ (0 <= x /\ x < w => x % w = x)
  OBVIOUS

\* Arming for a time that is not past sets an alarm for that time or shortly after.
LEMMA ArmIsSoon ==
    ASSUME TimerTypeOK, NEW when \in Nat, Arm(when)
    PROVE  /\ armed' \in Nat /\ overdue' \in BOOLEAN
           /\ ~ overdue' /\ when <= 2 * MaxClock => ~ overdue /\ armed' <= when + MinDelay
<1> DEFINE us == (when - clock) % Word
<1>1. /\ clock \in Nat /\ clock <= MaxClock /\ overdue \in BOOLEAN
      /\ MinDelay \in Nat /\ MaxClock \in Nat /\ Word \in Nat \ {0} /\ Word > 2 * MaxClock
  BY TimerAssumption DEF TimerTypeOK
<1>2. us \in Nat /\ (0 <= when - clock /\ when - clock < Word => us = when - clock)
  BY <1>1, Wraps
<1>3. armed' = clock + (IF us < MinDelay THEN MinDelay ELSE us)
  BY DEF Arm, Delay
<1>4. overdue' = (overdue \/ when < clock)
  BY DEF Arm
<1> HIDE DEF us
<1>5. armed' \in Nat /\ overdue' \in BOOLEAN
  BY <1>1, <1>2, <1>3, <1>4
<1>6. ASSUME ~ overdue', when <= 2 * MaxClock
      PROVE  ~ overdue /\ armed' <= when + MinDelay
  <2>0. ~ overdue /\ ~ (when < clock)
    BY <1>4, <1>6, Zenon
  <2>1. ~ overdue /\ clock <= when
    BY <2>0, <1>1
  <2>2. us = when - clock
    BY <2>1, <1>1, <1>2, <1>6
  <2> QED
    BY <2>1, <2>2, <1>1, <1>3
<1> QED
  BY <1>5, <1>6

\* An entry is told by its timer: it carries the timer's expiration.
LEMMA EntryOf ==
    ASSUME TimerTypeOK, HeldIsCurrent, NEW e \in Held
    PROVE  e = [exp |-> expiration_[e.timer], timer |-> e.timer]
<1>1. e \in Entry
  BY DEF TimerTypeOK, Held
<1>2. e = [exp |-> e.exp, timer |-> e.timer]
  BY <1>1 DEF Entry
<1> QED
  BY <1>2 DEF HeldIsCurrent

\* Two held entries of one timer are the same entry.
LEMMA HeldOnce ==
    ASSUME TimerTypeOK, HeldIsCurrent, NEW e \in Held, NEW f \in Held, e.timer = f.timer
    PROVE  e = f
  BY EntryOf

-----------------------------------------------------------------------------
\* A new TimerQueue holds nothing.
LEMMA TimerInitInv ==
    ASSUME TimerInit
    PROVE  TimerInv
<1> USE TimerAssumption
<1>1. pending \in Seq({"addTimerInLoop", "cancelInLoop"} \X Timers) /\ Len(pending) = 0
  BY DEF TimerInit
<1>2. TimerTypeOK
  <2>1. clock \in 1..MaxClock /\ now \in 0..MaxClock /\ expiration_ \in [Timers -> Nat]
    BY DEF TimerInit
  <2> QED
    BY <1>1, <2>1, Zenon DEF TimerInit, TimerTypeOK
<1>3. HeldIsCurrent /\ RoundIsOver /\ CancelIsKept /\ AlarmIsSoon
  BY DEF TimerInit, HeldIsCurrent, Held, RoundIsOver, CancelIsKept, AlarmIsSoon
<1>4. AddComesFirst
  BY <1>1 DEF AddComesFirst
<1>5. ExpirationIsNear
  BY DEF TimerInit, ExpirationIsNear
<1> QED
  BY <1>2, <1>3, <1>4, <1>5 DEF TimerInv

\* Another thread's addTimer() queues the first function there is for the timer.
LEMMA AddTimerInv ==
    ASSUME TimerInv, NEW t \in Timers, NEW when \in 1..MaxClock, AddTimer(t, when)
    PROVE  TimerInv'
<1> USE TimerAssumption
<1> DEFINE P == {"addTimerInLoop", "cancelInLoop"} \X Timers
<1>1. /\ t \notin added /\ added' = added \cup {t}
      /\ expiration_' = [expiration_ EXCEPT ![t] = when]
      /\ pending' = Append(pending, <<"addTimerInLoop", t>>)
      /\ pending \in Seq(P) /\ when \in Nat
      /\ UNCHANGED <<clock, timers_, cancelingTimers_, armed, tpc, now, expiredList, torun,
                     cancelled, overtaken, fired, overdue>>
  BY DEF AddTimer, TimerInv, TimerTypeOK
<1>2. TimerTypeOK'
  BY <1>1 DEF TimerInv, TimerTypeOK
<1>3. HeldIsCurrent'
  BY <1>1 DEF TimerInv, TimerTypeOK, HeldIsCurrent, Held, Entry
<1>4. RoundIsOver' /\ CancelIsKept' /\ AlarmIsSoon'
  BY <1>1 DEF TimerInv, RoundIsOver, CancelIsKept, AlarmIsSoon
<1>5. ExpirationIsNear'
  BY <1>1 DEF TimerInv, TimerTypeOK, ExpirationIsNear
<1>6. AddComesFirst'
  <2>1. /\ Len(pending') = Len(pending) + 1 /\ Len(pending) \in Nat
        /\ \A i \in 1..Len(pending) : pending'[i] = pending[i]
        /\ pending'[Len(pending) + 1] = <<"addTimerInLoop", t>>
    BY <1>1
  <2>2. t \notin cancelled /\ \A e \in Held' : e.timer # t
    BY <1>1 DEF TimerInv, TimerTypeOK, HeldIsCurrent, Held
  <2>3. Held' = Held
    BY <1>1 DEF Held
  <2> SUFFICES ASSUME NEW i \in 1..Len(pending')
               PROVE  /\ pending'[i][2] \in added'
                      /\ pending'[i][1] = "addTimerInLoop" =>
                            /\ pending'[i][2] \in cancelled' => pending'[i][2] \in overtaken'
                            /\ \A e \in Held' : e.timer # pending'[i][2]
                            /\ \A j \in 1..Len(pending') :
                                  j # i /\ pending'[j][2] = pending'[i][2] =>
                                      i < j /\ pending'[j][1] # "addTimerInLoop"
    BY DEF AddComesFirst
  <2>4. CASE i \in 1..Len(pending)
    <3>1. /\ pending[i][2] \in added
          /\ pending[i][1] = "addTimerInLoop" =>
                /\ pending[i][2] \in cancelled => pending[i][2] \in overtaken
                /\ \A e \in Held : e.timer # pending[i][2]
                /\ \A j \in 1..Len(pending) :
                      j # i /\ pending[j][2] = pending[i][2] =>
                          i < j /\ pending[j][1] # "addTimerInLoop"
      BY <2>4 DEF TimerInv, AddComesFirst
    <3>2. pending'[Len(pending) + 1][2] # pending'[i][2]
      BY <1>1, <2>1, <2>4, <3>1
    <3> QED
      BY <1>1, <2>1, <2>3, <2>4, <3>1, <3>2
  <2>5. CASE i = Len(pending) + 1
    <3>1. pending'[i] = <<"addTimerInLoop", t>>
      BY <2>1, <2>5
    <3>2. \A j \in 1..Len(pending) : pending'[j][2] # t
      BY <1>1, <2>1 DEF TimerInv, AddComesFirst
    <3> QED
      BY <1>1, <2>1, <2>2, <2>5, <3>1, <3>2
  <2> QED
    BY <2>1, <2>4, <2>5
<1> QED
  BY <1>2, <1>3, <1>4, <1>5, <1>6 DEF TimerInv

\* Another thread's cancel() comes after the addTimer() that gave it the TimerId.
LEMMA CancelInv ==
    ASSUME TimerInv, NEW t \in Timers, Cancel(t)
    PROVE  TimerInv'
<1> DEFINE P == {"addTimerInLoop", "cancelInLoop"} \X Timers
<1>1. /\ t \in added
      /\ pending' = Append(pending, <<"cancelInLoop", t>>)
      /\ pending \in Seq(P)
      /\ UNCHANGED <<clock, timers_, expiration_, cancelingTimers_, armed, tpc, now,
                     expiredList, torun, added, cancelled, overtaken, fired, overdue>>
  BY DEF Cancel, TimerInv, TimerTypeOK
<1>2. TimerTypeOK'
  BY <1>1 DEF TimerInv, TimerTypeOK
<1>3. HeldIsCurrent'
  BY <1>1 DEF TimerInv, HeldIsCurrent, Held
<1>4. RoundIsOver' /\ CancelIsKept' /\ AlarmIsSoon' /\ ExpirationIsNear'
  BY <1>1 DEF TimerInv, RoundIsOver, CancelIsKept, AlarmIsSoon, ExpirationIsNear
<1>5. AddComesFirst'
  <2>1. /\ Len(pending') = Len(pending) + 1 /\ Len(pending) \in Nat
        /\ \A i \in 1..Len(pending) : pending'[i] = pending[i]
        /\ pending'[Len(pending) + 1] = <<"cancelInLoop", t>>
    BY <1>1
  <2>2. Held' = Held
    BY <1>1 DEF Held
  <2>3. ASSUME NEW i \in 1..Len(pending)
        PROVE  /\ pending[i][2] \in added
               /\ pending[i][1] = "addTimerInLoop" =>
                     /\ pending[i][2] \in cancelled => pending[i][2] \in overtaken
                     /\ \A e \in Held : e.timer # pending[i][2]
                     /\ \A j \in 1..Len(pending) :
                           j # i /\ pending[j][2] = pending[i][2] =>
                               i < j /\ pending[j][1] # "addTimerInLoop"
    BY DEF TimerInv, AddComesFirst
  <2>4. pending'[Len(pending) + 1][1] # "addTimerInLoop" /\ pending'[Len(pending) + 1][2] = t
    BY <2>1
  <2>5. \A i \in 1..Len(pending') : i \in 1..Len(pending) \/ i = Len(pending) + 1
    BY <2>1
  <2>6. UNCHANGED <<added, cancelled, overtaken>>
    BY <1>1
  <2> HIDE DEF P
  <2>7. ASSUME NEW i \in 1..Len(pending'), pending'[i][1] = "addTimerInLoop"
        PROVE  /\ pending'[i][2] \in cancelled' => pending'[i][2] \in overtaken'
               /\ \A e \in Held' : e.timer # pending'[i][2]
    BY <2>1, <2>2, <2>3, <2>4, <2>5, <2>6, <2>7
  <2>8. ASSUME NEW i \in 1..Len(pending'), pending'[i][1] = "addTimerInLoop",
               NEW j \in 1..Len(pending'), j # i, pending'[j][2] = pending'[i][2]
        PROVE  i < j /\ pending'[j][1] # "addTimerInLoop"
    <3>1. i \in 1..Len(pending) /\ pending'[i] = pending[i]
      BY <2>1, <2>4, <2>5, <2>8
    <3>2. CASE j \in 1..Len(pending)
      BY <2>1, <2>3, <2>8, <3>1, <3>2
    <3>3. CASE j = Len(pending) + 1
      BY <2>1, <2>4, <3>1, <3>3
    <3> QED
      BY <2>5, <3>2, <3>3
  <2>9. \A i \in 1..Len(pending') : pending'[i][2] \in added'
    BY <2>1, <2>3, <2>4, <2>5, <2>6, <1>1
  <2> QED
    BY <2>7, <2>8, <2>9 DEF AddComesFirst
<1> QED
  BY <1>2, <1>3, <1>4, <1>5 DEF TimerInv

\* The loop thread runs addTimerInLoop: the timer is new to it, and the alarm
\* is moved if the timer is the earliest.
LEMMA RunPendingAddsInv ==
    ASSUME TimerInv, RunPending, Head(pending)[1] = "addTimerInLoop"
    PROVE  TimerInv'
<1> USE TimerAssumption
<1> DEFINE P == {"addTimerInLoop", "cancelInLoop"} \X Timers
           t == Head(pending)[2]
           when == expiration_[t]
           new == [exp |-> when, timer |-> t]
<1>1. /\ pending \in Seq(P) /\ pending # <<>> /\ pending' = Tail(pending)
      /\ Len(pending) \in Nat /\ Len(pending) >= 1
      /\ Head(pending) = pending[1] /\ Head(pending) \in P
  BY DEF TimerInv, TimerTypeOK, RunPending
<1>2. t \in Timers /\ when \in Nat /\ new \in Entry
  BY <1>1 DEF TimerInv, TimerTypeOK, Entry
<1>3. /\ tpc = "idle" /\ timers_' = timers_ \cup {new}
      /\ IF timers_ = {} \/ when < first(timers_).exp
         THEN Arm(when) ELSE UNCHANGED <<armed, overdue>>
      /\ UNCHANGED <<cancelingTimers_, cancelled, overtaken, clock, expiration_, tpc, now,
                     expiredList, torun, added, fired>>
  BY DEF RunPending, AddTimerInLoop
<1>4. /\ t \in added /\ (t \in cancelled => t \in overtaken)
      /\ \A e \in Held : e.timer # t
      /\ \A j \in 1..Len(pending) : j # 1 => pending[j][2] # t \/ pending[j][1] # "addTimerInLoop"
  BY <1>1 DEF TimerInv, AddComesFirst
<1>5. Held' = Held \cup {new}
  BY <1>3 DEF Held
<1>6. armed' \in Nat \cup {NoAlarm} /\ overdue' \in BOOLEAN
  BY <1>2, <1>3, ArmIsSoon DEF TimerInv, TimerTypeOK
<1>7. pending' \in Seq(P) /\ Len(pending') = Len(pending) - 1
      /\ \A i \in 1..Len(pending') : pending'[i] = pending[i + 1]
  BY <1>1
<1> HIDE DEF t
<1>8. HeldIsCurrent'
  <2>1. \A e \in Held' : e.timer \in added' /\ e.exp = expiration_'[e.timer]
    BY <1>3, <1>4, <1>5 DEF TimerInv, HeldIsCurrent
  <2>2. timers_' \cap expiredList' = {}
    BY <1>3 DEF TimerInv, RoundIsOver
  <2> QED
    BY <2>1, <2>2 DEF HeldIsCurrent
<1>9. TimerTypeOK'
  <2>1. timers_' \subseteq Entry
    BY <1>2, <1>3 DEF TimerInv, TimerTypeOK
  <2>2. \A e, f \in timers_' : e.timer = f.timer => e = f
    BY <1>3, <1>4 DEF TimerInv, TimerTypeOK, Held
  <2> HIDE DEF new, when
  <2> QED
    BY <1>3, <1>6, <1>7, <2>1, <2>2 DEF TimerInv, TimerTypeOK
<1>10. RoundIsOver' /\ ExpirationIsNear'
  BY <1>3 DEF TimerInv, RoundIsOver, ExpirationIsNear
<1>11. CancelIsKept'
  BY <1>3, <1>4 DEF TimerInv, CancelIsKept
<1>12. AddComesFirst'
  <2> SUFFICES ASSUME NEW i \in 1..Len(pending')
               PROVE  /\ pending'[i][2] \in added'
                      /\ pending'[i][1] = "addTimerInLoop" =>
                            /\ pending'[i][2] \in cancelled' => pending'[i][2] \in overtaken'
                            /\ \A e \in Held' : e.timer # pending'[i][2]
                            /\ \A j \in 1..Len(pending') :
                                  j # i /\ pending'[j][2] = pending'[i][2] =>
                                      i < j /\ pending'[j][1] # "addTimerInLoop"
    BY DEF AddComesFirst
  <2>1. i + 1 \in 1..Len(pending) /\ pending'[i] = pending[i + 1]
    BY <1>1, <1>7
  <2>2. pending'[i][2] \in added'
    BY <2>1, <1>3 DEF TimerInv, AddComesFirst
  <2>3. ASSUME pending'[i][1] = "addTimerInLoop"
        PROVE  /\ pending'[i][2] \in cancelled' => pending'[i][2] \in overtaken'
               /\ \A e \in Held' : e.timer # pending'[i][2]
    <3>1. pending'[i][2] # t
      BY <2>1, <2>3, <1>4
    <3>2. /\ pending'[i][2] \in cancelled => pending'[i][2] \in overtaken
          /\ \A e \in Held : e.timer # pending'[i][2]
      BY <2>1, <2>3 DEF TimerInv, AddComesFirst
    <3> QED
      BY <3>1, <3>2, <1>3, <1>5
  <2>4. ASSUME pending'[i][1] = "addTimerInLoop", NEW j \in 1..Len(pending'), j # i,
               pending'[j][2] = pending'[i][2]
        PROVE  i < j /\ pending'[j][1] # "addTimerInLoop"
    <3>1. j + 1 \in 1..Len(pending) /\ pending'[j] = pending[j + 1] /\ j + 1 # i + 1
      BY <1>1, <1>7, <2>4
    <3>2. i + 1 < j + 1 /\ pending[j + 1][1] # "addTimerInLoop"
      BY <3>1, <2>1, <2>4 DEF TimerInv, AddComesFirst
    <3> QED
      BY <3>1, <3>2
  <2> QED
    BY <2>2, <2>3, <2>4
<1>13. AlarmIsSoon'
  <2> SUFFICES ASSUME ~ overdue', NEW e \in timers_'
               PROVE  armed' \in Nat /\ armed' <= e.exp + MinDelay
    BY <1>3 DEF AlarmIsSoon
  <2>0. when <= 2 * MaxClock /\ e \in Entry /\ e.exp \in Nat
    BY <1>2, <1>9 DEF TimerInv, ExpirationIsNear, TimerTypeOK, Entry
  <2>1. CASE timers_ = {} \/ when < first(timers_).exp
    <3>1. armed' \in Nat /\ armed' <= when + MinDelay
      BY <2>0, <2>1, <1>2, <1>3, ArmIsSoon DEF TimerInv
    <3>2. when <= e.exp
      <4>1. CASE e = new
        BY <4>1, <1>2
      <4>2. CASE e \in timers_
        <5>1. timers_ # {} /\ timers_ \subseteq Entry
          BY <4>2 DEF TimerInv, TimerTypeOK
        <5>2. /\ when < first(timers_).exp /\ first(timers_).exp <= e.exp
              /\ first(timers_) \in Entry
          BY <5>1, <4>2, <2>1, FirstIsLeast
        <5>3. first(timers_).exp \in Nat
          BY <5>2 DEF Entry
        <5> QED
          BY <5>2, <5>3, <2>0, <1>2
      <4> QED
        BY <4>1, <4>2, <1>3
    <3> QED
      BY <3>1, <3>2, <2>0, <1>2
  <2>2. CASE timers_ # {} /\ ~ (when < first(timers_).exp)
    <3>1. armed' = armed /\ ~ overdue
      BY <2>2, <1>3
    <3>2. timers_ \subseteq Entry
      BY DEF TimerInv, TimerTypeOK
    <3>3. first(timers_) \in timers_
      BY <3>2, <2>2, FirstIsLeast
    <3>4. first(timers_).exp \in Nat /\ first(timers_).exp <= when
      BY <3>2, <3>3, <2>2, <1>2 DEF Entry
    <3>5. \A f \in timers_ : armed \in Nat /\ armed <= f.exp + MinDelay
      BY <3>1, <1>3 DEF TimerInv, AlarmIsSoon
    <3>6. armed <= when + MinDelay
      BY <3>3, <3>4, <3>5, <1>2
    <3> QED
      BY <3>1, <3>3, <3>5, <3>6, <1>3
  <2> QED
    BY <2>1, <2>2
<1> QED
  BY <1>8, <1>9, <1>10, <1>11, <1>12, <1>13 DEF TimerInv

\* cancelInLoop() only takes entries out, and whoever it cancels stays out.
LEMMA CancelInLoopKeeps ==
    ASSUME TimerTypeOK, HeldIsCurrent, CancelIsKept, NEW t \in Timers, CancelInLoop(t),
           UNCHANGED <<expiration_, expiredList, added>>
    PROVE  /\ timers_' \subseteq timers_ /\ HeldIsCurrent' /\ CancelIsKept'
           /\ overtaken' \subseteq cancelled' /\ overtaken \ {t} \subseteq overtaken'
           /\ (\E i \in 1..Len(pending) : pending[i] = <<"addTimerInLoop", t>>) =>
                 t \in overtaken'
<1> DEFINE c == [exp |-> expiration_[t], timer |-> t]
<1>1. /\ timers_' = timers_ \ {c}
      /\ c \in timers_ => cancelingTimers_' = cancelingTimers_
      /\ c \notin timers_ => cancelingTimers_' = cancelingTimers_ \cup {t}
      /\ cancelled' = cancelled \cup {t}
      /\ overtaken' = IF \E i \in 1..Len(pending) : pending[i] = <<"addTimerInLoop", t>>
                      THEN overtaken \cup {t} ELSE overtaken \ {t}
  BY DEF CancelInLoop, NoteCancel
<1>2. ASSUME NEW e \in Held, e.timer = t
      PROVE  e = c
  <2>1. e = [exp |-> expiration_[e.timer], timer |-> e.timer]
    BY EntryOf
  <2> QED
    BY <2>1, <1>2
<1> HIDE DEF c
<1>3. HeldIsCurrent'
  BY <1>1 DEF HeldIsCurrent, Held
<1>4. \A e \in timers_' : e.timer # t
  BY <1>1, <1>2 DEF Held
<1>5. ASSUME NEW e \in expiredList, e.timer = t
      PROVE  t \in cancelingTimers_'
  <2>1. e = c
    BY <1>2, <1>5 DEF Held
  <2>2. c \notin timers_
    BY <2>1, <1>5 DEF HeldIsCurrent
  <2> QED
    BY <2>2, <1>1
<1>6. /\ overtaken' \subseteq cancelled' /\ overtaken \ {t} \subseteq overtaken'
      /\ (\E i \in 1..Len(pending) : pending[i] = <<"addTimerInLoop", t>>) => t \in overtaken'
  BY <1>1 DEF TimerTypeOK
<1>7. ASSUME NEW u \in cancelled' \ overtaken', u # t
      PROVE  u \in cancelled \ overtaken /\ (u \in cancelingTimers_ => u \in cancelingTimers_')
  BY <1>1, <1>6, <1>7
<1>8. CancelIsKept'
  BY <1>1, <1>4, <1>5, <1>7 DEF CancelIsKept
<1> QED
  BY <1>1, <1>3, <1>6, <1>8

\* The loop thread runs cancelInLoop: the timer's addTimerInLoop was before it.
LEMMA RunPendingCancelsInv ==
    ASSUME TimerInv, RunPending, Head(pending)[1] # "addTimerInLoop"
    PROVE  TimerInv'
<1> USE TimerAssumption
<1> DEFINE P == {"addTimerInLoop", "cancelInLoop"} \X Timers
           t == Head(pending)[2]
<1>1. /\ pending \in Seq(P) /\ pending # <<>> /\ pending' = Tail(pending)
      /\ Len(pending) \in Nat /\ Len(pending) >= 1
      /\ Head(pending) = pending[1] /\ Head(pending) \in P
  BY DEF TimerInv, TimerTypeOK, RunPending
<1>2. /\ t \in Timers /\ t \in added
  BY <1>1 DEF TimerInv, AddComesFirst
<1>3. /\ tpc = "idle" /\ CancelInLoop(t)
      /\ UNCHANGED <<clock, expiration_, tpc, now, expiredList, torun, added, fired>>
  BY DEF RunPending
<1>4. /\ timers_' \subseteq timers_ /\ HeldIsCurrent' /\ CancelIsKept'
      /\ overtaken' \subseteq cancelled' /\ overtaken \ {t} \subseteq overtaken'
  BY <1>2, <1>3, CancelInLoopKeeps DEF TimerInv
<1>5. /\ pending' \in Seq(P) /\ Len(pending') = Len(pending) - 1
      /\ \A i \in 1..Len(pending') : pending'[i] = pending[i + 1]
  BY <1>1
<1>6. pending[1][2] = t
  BY <1>1
<1> HIDE DEF t
<1>7. /\ cancelled' = cancelled \cup {t} /\ UNCHANGED <<armed, overdue>>
      /\ cancelingTimers_' \subseteq cancelingTimers_ \cup {t}
  BY <1>3 DEF CancelInLoop, NoteCancel
<1>8. TimerTypeOK'
  BY <1>2, <1>3, <1>4, <1>5, <1>7 DEF TimerInv, TimerTypeOK
<1>9. RoundIsOver' /\ ExpirationIsNear' /\ AlarmIsSoon'
  BY <1>3, <1>4, <1>7 DEF TimerInv, RoundIsOver, ExpirationIsNear, AlarmIsSoon
<1>10. AddComesFirst'
  <2> SUFFICES ASSUME NEW i \in 1..Len(pending')
               PROVE  /\ pending'[i][2] \in added'
                      /\ pending'[i][1] = "addTimerInLoop" =>
                            /\ pending'[i][2] \in cancelled' => pending'[i][2] \in overtaken'
                            /\ \A e \in Held' : e.timer # pending'[i][2]
                            /\ \A j \in 1..Len(pending') :
                                  j # i /\ pending'[j][2] = pending'[i][2] =>
                                      i < j /\ pending'[j][1] # "addTimerInLoop"
    BY DEF AddComesFirst
  <2>1. i + 1 \in 1..Len(pending) /\ pending'[i] = pending[i + 1] /\ 1 \in 1..Len(pending)
    BY <1>1, <1>5
  <2>2. pending'[i][2] \in added'
    BY <2>1, <1>3 DEF TimerInv, AddComesFirst
  <2>3. ASSUME pending'[i][1] = "addTimerInLoop"
        PROVE  /\ pending'[i][2] \in cancelled' => pending'[i][2] \in overtaken'
               /\ \A e \in Held' : e.timer # pending'[i][2]
    <3>1. pending'[i][2] # t
      <4>1. ~ (i + 1 < 1) /\ 1 # i + 1
        BY <1>1, <1>5
      <4> QED
        BY <4>1, <2>1, <2>3, <1>6 DEF TimerInv, AddComesFirst
    <3>2. /\ pending'[i][2] \in cancelled => pending'[i][2] \in overtaken
          /\ \A e \in Held : e.timer # pending'[i][2]
      BY <2>1, <2>3 DEF TimerInv, AddComesFirst
    <3>3. Held' \subseteq Held
      BY <1>3, <1>4 DEF Held
    <3> QED
      BY <3>1, <3>2, <3>3, <1>4, <1>7
  <2>4. ASSUME pending'[i][1] = "addTimerInLoop", NEW j \in 1..Len(pending'), j # i,
               pending'[j][2] = pending'[i][2]
        PROVE  i < j /\ pending'[j][1] # "addTimerInLoop"
    <3>1. j + 1 \in 1..Len(pending) /\ pending'[j] = pending[j + 1] /\ j + 1 # i + 1
      BY <1>1, <1>5, <2>4
    <3>2. i + 1 < j + 1 /\ pending[j + 1][1] # "addTimerInLoop"
      BY <3>1, <2>1, <2>4 DEF TimerInv, AddComesFirst
    <3> QED
      BY <3>1, <3>2
  <2> QED
    BY <2>2, <2>3, <2>4
<1> QED
  BY <1>4, <1>8, <1>9, <1>10 DEF TimerInv

-----------------------------------------------------------------------------
\* handleRead() moves the expired entries over and forgets old cancellations.
LEMMA HandleReadInv ==
    ASSUME TimerInv, HandleRead
    PROVE  TimerInv'
<1> USE TimerAssumption
<1>1. /\ expiredList' \subseteq timers_ /\ timers_' = timers_ \ expiredList'
      /\ torun' = expiredList' /\ cancelingTimers_' = {} /\ armed' = NoAlarm /\ now' = clock
      /\ tpc' = "run"
      /\ UNCHANGED <<clock, expiration_, pending, added, cancelled, overtaken, fired, overdue>>
  BY DEF HandleRead, Expired
<1>2. Held' \subseteq Held /\ timers_' \subseteq timers_
  BY <1>1 DEF Held
<1>3. TimerTypeOK'
  <2>1. /\ timers_' \subseteq Entry /\ expiredList' \subseteq Entry /\ torun' \subseteq expiredList'
        /\ \A e, f \in timers_' : e.timer = f.timer => e = f
    BY <1>1, <1>2 DEF TimerInv, TimerTypeOK
  <2>2. clock' \in 1..MaxClock /\ now' \in 0..MaxClock
    BY <1>1 DEF TimerInv, TimerTypeOK
  <2> QED
    BY <1>1, <2>1, <2>2 DEF TimerInv, TimerTypeOK
<1>4. HeldIsCurrent' /\ RoundIsOver' /\ ExpirationIsNear' /\ AlarmIsSoon'
  BY <1>1, <1>2 DEF TimerInv, HeldIsCurrent, RoundIsOver, ExpirationIsNear, AlarmIsSoon
<1>5. CancelIsKept'
  BY <1>1, <1>2 DEF TimerInv, CancelIsKept
<1>6. AddComesFirst'
  BY <1>1, <1>2 DEF TimerInv, AddComesFirst
<1> QED
  BY <1>3, <1>4, <1>5, <1>6 DEF TimerInv

\* Running a timer, a callback's return and the clock move no entry; nor does
\* a handleRead() that ends in the failed assertion.
LEMMA RunsInv ==
    ASSUME TimerInv, RunTimer \/ CallbackReturns \/ Tick \/ HandleReadAborts
    PROVE  TimerInv'
<1> USE TimerAssumption
<1>1. /\ tpc' = "idle" => tpc = "idle" /\ UNCHANGED armed
      /\ UNCHANGED <<timers_, expiration_, cancelingTimers_, expiredList, pending,
                     added, cancelled, overtaken, overdue>>
  BY DEF RunTimer, CallbackReturns, Tick, HandleReadAborts
<1>2. torun' \subseteq expiredList' /\ fired' \subseteq added'
  BY DEF RunTimer, CallbackReturns, Tick, HandleReadAborts, TimerInv, TimerTypeOK,
         HeldIsCurrent, Held
<1>3. clock' \in 1..MaxClock /\ now' \in 0..MaxClock /\ armed' \in Nat \cup {NoAlarm}
  BY DEF RunTimer, CallbackReturns, Tick, HandleReadAborts, TimerInv, TimerTypeOK
<1>4. tpc' \in {"idle", "run", "callback", "aborted"}
  BY DEF RunTimer, CallbackReturns, Tick, HandleReadAborts, TimerInv, TimerTypeOK
<1>5. TimerTypeOK'
  BY <1>1, <1>2, <1>3, <1>4 DEF TimerInv, TimerTypeOK
<1>6. Held' = Held
  BY <1>1 DEF Held
<1>7. HeldIsCurrent' /\ AddComesFirst'
  BY <1>1, <1>6 DEF TimerInv, HeldIsCurrent, AddComesFirst
<1>8. RoundIsOver' /\ CancelIsKept' /\ ExpirationIsNear' /\ AlarmIsSoon'
  BY <1>1 DEF TimerInv, RoundIsOver, CancelIsKept, ExpirationIsNear, AlarmIsSoon
<1> QED
  BY <1>5, <1>7, <1>8 DEF TimerInv

\* A callback adds a timer nobody has heard of.
LEMMA CallbackAddsInv ==
    ASSUME TimerInv, NEW t \in Timers, NEW when \in 1..MaxClock, CallbackAdds(t, when)
    PROVE  TimerInv'
<1> USE TimerAssumption
<1> DEFINE new == [exp |-> when, timer |-> t]
<1>1. /\ tpc = "callback" /\ t \notin added /\ added' = added \cup {t}
      /\ expiration_' = [expiration_ EXCEPT ![t] = when]
      /\ timers_' = timers_ \cup {new}
      /\ Arm(when) \/ UNCHANGED <<armed, overdue>>
      /\ UNCHANGED <<cancelingTimers_, cancelled, overtaken, clock, tpc, now, expiredList, torun,
                     pending, fired>>
  BY DEF CallbackAdds, AddTimerInLoop
<1>2. when \in Nat /\ new \in Entry /\ new.timer = t /\ new.exp = when
  BY DEF Entry
<1>3. Held' = Held \cup {new}
  BY <1>1 DEF Held
<1>4. \A e \in Held : e.timer # t
  BY <1>1 DEF TimerInv, HeldIsCurrent
<1>5. armed' \in Nat \cup {NoAlarm} /\ overdue' \in BOOLEAN
  BY <1>1, <1>2, ArmIsSoon DEF TimerInv, TimerTypeOK
<1> HIDE DEF new
<1>6. TimerTypeOK'
  <2>1. timers_' \subseteq Entry
    BY <1>1, <1>2 DEF TimerInv, TimerTypeOK
  <2>2. \A e, f \in timers_' : e.timer = f.timer => e = f
    BY <1>1, <1>2, <1>4 DEF TimerInv, TimerTypeOK, Held
  <2>3. expiration_' \in [Timers -> Nat]
    BY <1>1, <1>2 DEF TimerInv, TimerTypeOK
  <2> QED
    BY <1>1, <1>5, <2>1, <2>2, <2>3 DEF TimerInv, TimerTypeOK
<1>7. HeldIsCurrent'
  <2>1. \A e \in Held' : e.timer \in added' /\ e.exp = expiration_'[e.timer]
    <3> SUFFICES ASSUME NEW e \in Held'
                 PROVE  e.timer \in added' /\ e.exp = expiration_'[e.timer]
      OBVIOUS
    <3>1. CASE e \in Held
      BY <3>1, <1>1, <1>4 DEF TimerInv, TimerTypeOK, HeldIsCurrent
    <3>2. CASE e = new
      BY <3>2, <1>1, <1>2 DEF TimerInv, TimerTypeOK
    <3> QED
      BY <3>1, <3>2, <1>3
  <2>2. timers_' \cap expiredList' = {}
    BY <1>1, <1>2, <1>4 DEF TimerInv, HeldIsCurrent, Held
  <2> QED
    BY <2>1, <2>2 DEF HeldIsCurrent
<1>8. RoundIsOver' /\ AlarmIsSoon'
  BY <1>1 DEF RoundIsOver, AlarmIsSoon
<1>9. ExpirationIsNear'
  BY <1>1 DEF TimerInv, TimerTypeOK, ExpirationIsNear
<1>10. CancelIsKept'
  BY <1>1, <1>2 DEF TimerInv, TimerTypeOK, CancelIsKept
<1>11. AddComesFirst'
  BY <1>1, <1>2, <1>3 DEF TimerInv, AddComesFirst
<1> QED
  BY <1>6, <1>7, <1>8, <1>9, <1>10, <1>11 DEF TimerInv

\* A callback cancels a timer, queued, taken out for this round or not inserted
\* yet: the cancel of the last kind is overtaken.
LEMMA CallbackCancelsInv ==
    ASSUME TimerInv, NEW t \in Timers, CallbackCancels(t)
    PROVE  TimerInv'
<1> USE TimerAssumption
<1>1. /\ tpc = "callback" /\ t \in added
      /\ CancelInLoop(t)
      /\ UNCHANGED <<clock, expiration_, tpc, now, expiredList, torun, pending, added, fired>>
  BY DEF CallbackCancels
<1>2. /\ timers_' \subseteq timers_ /\ HeldIsCurrent' /\ CancelIsKept'
      /\ overtaken' \subseteq cancelled' /\ overtaken \ {t} \subseteq overtaken'
      /\ (\E i \in 1..Len(pending) : pending[i] = <<"addTimerInLoop", t>>) => t \in overtaken'
  BY <1>1, CancelInLoopKeeps DEF TimerInv
<1>3. /\ cancelled' = cancelled \cup {t} /\ UNCHANGED <<armed, overdue>>
      /\ cancelingTimers_' \subseteq cancelingTimers_ \cup {t}
  BY <1>1 DEF CancelInLoop, NoteCancel
<1>4. TimerTypeOK'
  BY <1>1, <1>2, <1>3 DEF TimerInv, TimerTypeOK
<1>5. RoundIsOver' /\ ExpirationIsNear' /\ AlarmIsSoon'
  BY <1>1 DEF TimerInv, RoundIsOver, ExpirationIsNear, AlarmIsSoon
<1>6. Held' \subseteq Held
  BY <1>1, <1>2 DEF Held
<1>7. ASSUME NEW i \in 1..Len(pending), pending[i][1] = "addTimerInLoop",
             pending[i][2] \in cancelled'
      PROVE  pending[i][2] \in overtaken'
  <2>1. pending[i] \in {"addTimerInLoop", "cancelInLoop"} \X Timers
    BY DEF TimerInv, TimerTypeOK
  <2>2. CASE pending[i][2] = t
    <3>1. pending[i] = <<"addTimerInLoop", t>>
      BY <2>1, <2>2, <1>7
    <3> QED
      BY <3>1, <2>2, <1>2
  <2>3. CASE pending[i][2] # t
    BY <2>3, <1>2, <1>3, <1>7 DEF TimerInv, AddComesFirst
  <2> QED
    BY <2>2, <2>3
<1>8. AddComesFirst'
  BY <1>1, <1>3, <1>6, <1>7 DEF TimerInv, AddComesFirst
<1> QED
  BY <1>2, <1>4, <1>5, <1>8 DEF TimerInv

\* reset() puts the repeating timers of the round back, unless cancelled, and
\* arms the timerfd for the first of all.
LEMMA ResetInv ==
    ASSUME TimerInv, Reset
    PROVE  TimerInv'
<1> USE TimerAssumption
<1> DEFINE New == {[exp |-> expiration_'[t], timer |-> t] : t \in restarted}
<1>1. /\ expiration_' = [t \in Timers |-> IF t \in restarted THEN now + Interval[t]
                                                             ELSE expiration_[t]]
      /\ timers_' = timers_ \cup New
      /\ IF timers_' # {} THEN Arm(first(timers_').exp) ELSE UNCHANGED <<armed, overdue>>
      /\ expiredList' = {} /\ tpc' = "idle" /\ torun = {}
      /\ UNCHANGED <<clock, cancelingTimers_, now, torun, pending, added, cancelled, overtaken,
                     fired>>
  BY DEF Reset
<1>2. ASSUME NEW t \in restarted
      PROVE  /\ t \in Timers /\ t \notin cancelingTimers_
             /\ \E e \in expiredList : e.timer = t
  BY DEF restarted, TimerInv, TimerTypeOK, Entry
<1>3. /\ expiration_' \in [Timers -> Nat]
      /\ \A t \in Timers : expiration_'[t] <= 2 * MaxClock
      /\ \A t \in Timers \ restarted : expiration_'[t] = expiration_[t]
  <2>1. now \in 0..MaxClock /\ expiration_ \in [Timers -> Nat]
    BY DEF TimerInv, TimerTypeOK
  <2>2. \A t \in Timers : Interval[t] \in 0..MaxClock /\ expiration_[t] <= 2 * MaxClock
    BY DEF TimerInv, ExpirationIsNear
  <2> HIDE DEF New
  <2> QED
    BY <2>1, <2>2, <1>1
<1>4. ASSUME NEW e \in New
      PROVE  e \in Entry /\ e.timer \in restarted /\ e.exp = expiration_'[e.timer]
  BY <1>2, <1>3 DEF Entry
<1>5. ASSUME NEW e \in timers_
      PROVE  e \in Entry /\ e.timer \in Timers \ restarted
  <2>1. e \in Entry /\ e.timer \in Timers
    BY DEF TimerInv, TimerTypeOK, Entry
  <2>2. ASSUME e.timer \in restarted PROVE FALSE
    <3>1. PICK f \in expiredList : f.timer = e.timer
      BY <1>2, <2>2
    <3>2. e = f
      BY <3>1, HeldOnce DEF TimerInv, Held
    <3> QED
      BY <3>2 DEF TimerInv, HeldIsCurrent
  <2> QED
    BY <2>1, <2>2
<1> HIDE DEF New
<1>6. ASSUME NEW e \in timers_'
      PROVE  /\ e \in Entry /\ e.timer \in added'
             /\ e.exp = expiration_'[e.timer]
             /\ \E f \in Held : f.timer = e.timer
  <2>1. CASE e \in timers_
    BY <2>1, <1>1, <1>3, <1>5 DEF TimerInv, HeldIsCurrent, Held
  <2>2. CASE e \in New
    <3>1. PICK f \in expiredList : f.timer = e.timer
      BY <2>2, <1>2, <1>4
    <3> QED
      BY <3>1, <2>2, <1>1, <1>4 DEF TimerInv, HeldIsCurrent, Held
  <2> QED
    BY <2>1, <2>2, <1>1
<1>7. Held' = timers_'
  BY <1>1 DEF Held
<1>8. HeldIsCurrent'
  BY <1>1, <1>6, <1>7 DEF HeldIsCurrent
<1>9. timers_' \subseteq Entry
  BY <1>6
<1>10. ASSUME NEW e \in timers_', NEW f \in timers_', e.timer = f.timer
       PROVE  e = f
  <2>1. e.exp = f.exp
    BY <1>6, <1>10
  <2> QED
    BY <2>1, <1>9, <1>10 DEF Entry
<1>11. timers_' # {} => /\ first(timers_') \in timers_'
                        /\ \A f \in timers_' : first(timers_').exp <= f.exp
  BY <1>9, FirstIsLeast
<1>12. timers_' # {} => /\ first(timers_').exp \in Nat
                        /\ first(timers_').exp <= 2 * MaxClock
  <2> HAVE timers_' # {}
  <2>1. first(timers_') \in Entry
    BY <1>9, <1>11
  <2>2. first(timers_').exp = expiration_'[first(timers_').timer]
    BY <1>6, <1>11
  <2> QED
    BY <2>1, <2>2, <1>3 DEF Entry
<1>13. armed' \in Nat \cup {NoAlarm} /\ overdue' \in BOOLEAN
  BY <1>1, <1>12, ArmIsSoon DEF TimerInv, TimerTypeOK
<1>14. TimerTypeOK'
  <2>1. \A e, f \in timers_' : e.timer = f.timer => e = f
    BY <1>10
  <2> QED
    BY <2>1, <1>1, <1>3, <1>9, <1>13 DEF TimerInv, TimerTypeOK
<1>15. RoundIsOver' /\ ExpirationIsNear'
  BY <1>1, <1>3 DEF RoundIsOver, ExpirationIsNear
<1>16. CancelIsKept'
  <2> SUFFICES ASSUME NEW t \in cancelled \ overtaken, NEW e \in timers_', e.timer = t
               PROVE  FALSE
    BY <1>1 DEF CancelIsKept
  <2>1. e \notin timers_
    BY DEF TimerInv, CancelIsKept
  <2>2. t \in restarted
    BY <2>1, <1>1, <1>4
  <2> QED
    BY <2>2, <1>2 DEF TimerInv, CancelIsKept
<1>17. AddComesFirst'
  BY <1>1, <1>6, <1>7 DEF TimerInv, AddComesFirst
<1>18. AlarmIsSoon'
  <2> SUFFICES ASSUME ~ overdue', NEW e \in timers_'
               PROVE  armed' \in Nat /\ armed' <= e.exp + MinDelay
    BY DEF AlarmIsSoon
  <2>1. armed' \in Nat /\ armed' <= first(timers_').exp + MinDelay
    BY <1>1, <1>12, ArmIsSoon DEF TimerInv
  <2>2. first(timers_').exp <= e.exp /\ first(timers_').exp \in Nat /\ e.exp \in Nat
    BY <1>9, <1>11, <1>12 DEF Entry
  <2> QED
    BY <2>1, <2>2
<1> QED
  BY <1>8, <1>14, <1>15, <1>16, <1>17, <1>18 DEF TimerInv

-----------------------------------------------------------------------------
\* Every step keeps the invariant, and so does none.
LEMMA TimerNextInv ==
    ASSUME TimerInv, [TimerNext]_timerVars
    PROVE  TimerInv'
<1>1. CASE LoopStep \/ Tick
  BY <1>1, RunPendingAddsInv, RunPendingCancelsInv, HandleReadInv, RunsInv, ResetInv DEF LoopStep
<1>2. ASSUME NEW t \in Timers, NEW when \in 1..MaxClock, AddTimer(t, when) \/ CallbackAdds(t, when)
      PROVE  TimerInv'
  BY <1>2, AddTimerInv, CallbackAddsInv
<1>3. ASSUME NEW t \in Timers, Cancel(t) \/ CallbackCancels(t)
      PROVE  TimerInv'
  BY <1>3, CancelInv, CallbackCancelsInv
<1>4. CASE UNCHANGED timerVars
  <2>1. TimerTypeOK'
    BY <1>4 DEF TimerInv, TimerTypeOK, timerVars
  <2>2. HeldIsCurrent' /\ RoundIsOver' /\ CancelIsKept' /\ ExpirationIsNear' /\ AlarmIsSoon'
    BY <1>4 DEF TimerInv, HeldIsCurrent, Held, RoundIsOver, CancelIsKept, ExpirationIsNear,
                AlarmIsSoon, timerVars
  <2>3. AddComesFirst'
    BY <1>4 DEF TimerInv, AddComesFirst, Held, timerVars
  <2> QED
    BY <2>1, <2>2, <2>3 DEF TimerInv
<1> QED
  BY <1>1, <1>2, <1>3, <1>4 DEF TimerNext

\* The invariant holds in every reachable state.
THEOREM TimerInvariant == TimerSpec => []TimerInv
<1>1. TimerInit => TimerInv
  BY TimerInitInv
<1>2. TimerInv /\ [TimerNext]_timerVars => TimerInv'
  BY TimerNextInv
<1> QED
  BY <1>1, <1>2, PTL DEF TimerSpec

\* cancelInLoop() finds every queued timer under the expiration it looks for.
THEOREM EntriesAreAlwaysCurrent == TimerSpec => []EntriesAreCurrent
<1>1. TimerInv => EntriesAreCurrent
  BY DEF TimerInv, HeldIsCurrent, Held, EntriesAreCurrent
<1> QED
  BY <1>1, TimerInvariant, PTL

\* A cancelled timer is never queued again, and reset() will not restart it,
\* unless the loop thread cancelled it ahead of its queued addTimerInLoop.
THEOREM CancelledAlwaysStaysOut == TimerSpec => []CancelledStaysOut
<1>1. TimerInv => CancelledStaysOut
  BY DEF TimerInv, CancelIsKept, CancelledStaysOut, restarted
<1> QED
  BY <1>1, TimerInvariant, PTL

\* Between two rounds the timerfd is armed for the first timer or earlier.
THEOREM FirstIsAlwaysArmed == TimerSpec => []FirstIsArmed
<1>1. ASSUME TimerInv, tpc = "idle", timers_ # {}, ~ overdue
      PROVE  armed # NoAlarm /\ armed <= first(timers_).exp + MinDelay
  <2>1. first(timers_) \in timers_
    BY <1>1, FirstIsLeast DEF TimerInv, TimerTypeOK
  <2> QED
    BY <2>1, <1>1, TimerAssumption DEF TimerInv, AlarmIsSoon
<1>2. TimerInv => FirstIsArmed
  BY <1>1 DEF FirstIsArmed
<1> QED
  BY <1>2, TimerInvariant, PTL

=============================================================================
