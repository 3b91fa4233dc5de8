-------------------------- MODULE ThreadPoolProofs --------------------------
(***************************************************************************)
(* TLAPS proofs about ThreadPool, for any numbers of workers and producers *)
(* and any queue size.                                                     *)
(***************************************************************************)
EXTENDS ThreadPool, FiniteSetTheorems, TLAPS

-----------------------------------------------------------------------------
(* The inductive invariant.                                                *)

\* Before start() there are no workers, and run() executes its task itself.
Fresh ==
    life = "new" => /\ \A w \in Workers : wpc[w] = "none"
                    /\ \A c \in Callers : rpc[c] = "idle"

\* A caller that waits for the mutex or for a place has a task to push.
Carries == \A c \in Callers : rpc[c] \in {"enter", "wait"} => arg[c] \in Tasks

PoolInv == PoolTypeOK /\ Fresh /\ Carries /\ WorkIsClaimed /\ SpaceIsClaimed

\* The threads that count: about to notify, on their way into take(), and on
\* their way to a place in the queue.
Notifying == {c \in Callers : rpc[c] = "notify"}
Taking == {w \in Workers : wpc[w] = "take"}
Entering == {c \in Callers : rpc[c] = "enter"}

\* WorkIsClaimed and SpaceIsClaimed in terms of these sets.
WorkClaim == Len(queue_) <= Cardinality(Notifying) + Cardinality(Taking)
SpaceClaim == MaxQueueSize - Len(queue_) <= Cardinality(Entering)

-----------------------------------------------------------------------------
(* Counting threads.                                                       *)

\* There are finitely many threads, so every set of them has a size.
LEMMA Counted ==
    /\ IsFiniteSet(Notifying) /\ Cardinality(Notifying) \in Nat
    /\ IsFiniteSet(Taking) /\ Cardinality(Taking) \in Nat
    /\ IsFiniteSet(Entering) /\ Cardinality(Entering) \in Nat
<1>1. IsFiniteSet(Workers) /\ IsFiniteSet(Callers)
  BY PoolAssumption, FS_Union DEF Callers
<1>2. /\ Notifying \in SUBSET Callers
      /\ Taking \in SUBSET Workers
      /\ Entering \in SUBSET Callers
  BY DEF Notifying, Taking, Entering
<1>3. IsFiniteSet(Notifying) /\ IsFiniteSet(Taking) /\ IsFiniteSet(Entering)
  BY <1>1, <1>2, FS_Subset
<1> QED
  BY <1>3, FS_CardinalityType

\* The same in the next state.
LEMMA CountedNext ==
    /\ IsFiniteSet(Notifying') /\ Cardinality(Notifying') \in Nat
    /\ IsFiniteSet(Taking') /\ Cardinality(Taking') \in Nat
    /\ IsFiniteSet(Entering') /\ Cardinality(Entering') \in Nat
<1>1. IsFiniteSet(Workers) /\ IsFiniteSet(Callers)
  BY PoolAssumption, FS_Union DEF Callers
<1>2. /\ Notifying' \in SUBSET Callers
      /\ Taking' \in SUBSET Workers
      /\ Entering' \in SUBSET Callers
  BY DEF Notifying, Taking, Entering
<1>3. IsFiniteSet(Notifying') /\ IsFiniteSet(Taking') /\ IsFiniteSet(Entering')
  BY <1>1, <1>2, FS_Subset
<1> QED
  BY <1>3, FS_CardinalityType

\* A set of threads that gains a new member is one larger ...
LEMMA Gains ==
    ASSUME NEW S, NEW T, NEW x, IsFiniteSet(S), x \notin S, T = S \cup {x}
    PROVE  Cardinality(T) = Cardinality(S) + 1
  BY FS_AddElement

\* ... and one smaller when a member leaves.
LEMMA Loses ==
    ASSUME NEW S, NEW T, NEW x, IsFiniteSet(S), x \in S, T = S \ {x}
    PROVE  Cardinality(T) = Cardinality(S) - 1
  BY FS_RemoveElement

\* The two claims, in this state ...
LEMMA InvMeaning ==
    ASSUME PoolTypeOK
    PROVE  /\ WorkIsClaimed <=> (running_ /\ waitNotEmpty # {} => WorkClaim)
           /\ SpaceIsClaimed <=> (running_ /\ waitNotFull # {} => SpaceClaim)
  BY DEF WorkIsClaimed, SpaceIsClaimed, WorkClaim, SpaceClaim, Notifying, Taking, Entering

\* ... and in the next.
LEMMA InvMeaningNext ==
    ASSUME PoolTypeOK'
    PROVE  /\ WorkIsClaimed' <=> (running_' /\ waitNotEmpty' # {} => WorkClaim')
           /\ SpaceIsClaimed' <=> (running_' /\ waitNotFull' # {} => SpaceClaim')
  BY DEF WorkIsClaimed, SpaceIsClaimed, WorkClaim, SpaceClaim, Notifying, Taking, Entering

-----------------------------------------------------------------------------
\* A new pool has an empty queue and no waiting thread.
LEMMA InitInv ==
    ASSUME PoolInit
    PROVE  PoolInv
<1> USE PoolAssumption
<1>0. queue_ \in Seq(Tasks) /\ Len(queue_) = 0
  BY DEF PoolInit
<1>1. PoolTypeOK
  <2>1. /\ rpc \in [Callers -> {"idle", "enter", "wait", "notify"}]
        /\ arg \in [Callers -> Tasks \cup {NoTask}]
        /\ wpc \in [Workers -> {"none", "while", "take", "wait", "run", "exited"}]
        /\ exec \in [Callers -> Tasks \cup {NoTask}]
    BY DEF PoolInit
  <2>2. \A w \in Workers : wpc[w] = "run" <=> exec[w] # NoTask
    BY DEF PoolInit, Callers
  <2>3. MaxQueueSize > 0 => Len(queue_) <= MaxQueueSize
    BY <1>0
  <2>4. running_ \in BOOLEAN /\ life \in {"new", "started", "joining", "stopped"}
    BY DEF PoolInit
  <2> QED
    BY <1>0, <2>1, <2>2, <2>3, <2>4 DEF PoolTypeOK
<1>2. Fresh /\ Carries
  BY DEF PoolInit, Fresh, Carries
<1>3. WorkIsClaimed
  BY DEF PoolInit, WorkIsClaimed
<1>4. SpaceIsClaimed
  BY <1>1 DEF PoolInit, SpaceIsClaimed
<1> QED
  BY <1>1, <1>2, <1>3, <1>4 DEF PoolInv

\* start() finds nobody waiting.
LEMMA StartInv ==
    ASSUME PoolInv, Start
    PROVE  PoolInv'
<1> USE PoolAssumption
<1>1. /\ \A w \in Workers : wpc[w] = "none"
      /\ \A c \in Callers : rpc[c] = "idle"
  BY DEF PoolInv, Fresh, Start
<1>2. PoolTypeOK'
  BY <1>1 DEF PoolInv, PoolTypeOK, Start, Callers
<1>3. Fresh' /\ Carries'
  BY <1>1 DEF PoolInv, Fresh, Carries, Start
<1>4. waitNotEmpty' = {} /\ waitNotFull' = {}
  BY <1>1 DEF Start, waitNotEmpty, waitNotFull
<1> QED
  BY <1>2, <1>3, <1>4, InvMeaningNext DEF PoolInv

\* run() on a pool without threads touches neither the queue nor a waiter.
LEMMA RunInlineInv ==
    ASSUME PoolInv, NEW c \in Callers, NEW t \in Tasks, RunInline(c, t)
    PROVE  PoolInv'
<1> USE PoolAssumption
<1>1. c \notin Workers
  BY DEF PoolInv, PoolTypeOK, Fresh, RunInline, MayRun
<1>2. PoolTypeOK'
  BY <1>1 DEF PoolInv, PoolTypeOK, RunInline, Callers
<1>3. Fresh' /\ Carries'
  BY DEF PoolInv, Fresh, Carries, RunInline
<1>4. WorkIsClaimed' /\ SpaceIsClaimed'
  BY <1>2 DEF PoolInv, WorkIsClaimed, SpaceIsClaimed, RunInline, waitNotEmpty, waitNotFull
<1> QED
  BY <1>2, <1>3, <1>4 DEF PoolInv

\* Nor does its return.
LEMMA InlineDoneInv ==
    ASSUME PoolInv, NEW c \in Callers, InlineDone(c)
    PROVE  PoolInv'
<1> USE PoolAssumption
<1>1. c \notin Workers
  BY DEF InlineDone
<1>2. PoolTypeOK'
  BY <1>1 DEF PoolInv, PoolTypeOK, InlineDone, Callers
<1>3. Fresh' /\ Carries'
  BY DEF PoolInv, Fresh, Carries, InlineDone
<1>4. WorkIsClaimed' /\ SpaceIsClaimed'
  BY <1>2 DEF PoolInv, WorkIsClaimed, SpaceIsClaimed, InlineDone, waitNotEmpty, waitNotFull
<1> QED
  BY <1>2, <1>3, <1>4 DEF PoolInv

\* A caller that goes for the mutex is one more that may take a place.
LEMMA RunEnterInv ==
    ASSUME PoolInv, NEW c \in Callers, NEW t \in Tasks, RunEnter(c, t)
    PROVE  PoolInv'
<1> USE PoolAssumption
<1>1. PoolTypeOK'
  BY DEF PoolInv, PoolTypeOK, RunEnter
<1>2. Fresh' /\ Carries'
  BY DEF PoolInv, PoolTypeOK, Fresh, Carries, RunEnter
<1>3. c \in Callers \ Entering /\ Entering' = Entering \cup {c}
  BY DEF PoolInv, PoolTypeOK, RunEnter, MayRun, Entering
<1>4. Cardinality(Entering') = Cardinality(Entering) + 1
  BY <1>3, Counted, Gains
<1>5. Notifying' = Notifying /\ Taking' = Taking
  BY DEF PoolInv, PoolTypeOK, RunEnter, MayRun, Notifying, Taking
<1>6. /\ waitNotEmpty' = waitNotEmpty /\ waitNotFull' = waitNotFull
      /\ queue_' = queue_ /\ running_' = running_ /\ queue_ \in Seq(Tasks)
  BY DEF PoolInv, PoolTypeOK, RunEnter, MayRun, waitNotEmpty, waitNotFull
<1>7. WorkClaim => WorkClaim'
  BY <1>5, <1>6 DEF WorkClaim
<1>8. SpaceClaim => SpaceClaim'
  BY <1>4, <1>6, Counted DEF SpaceClaim
<1> QED
  BY <1>1, <1>2, <1>6, <1>7, <1>8, InvMeaning, InvMeaningNext DEF PoolInv

\* A caller only blocks when there is no free place.
LEMMA RunBlocksInv ==
    ASSUME PoolInv, NEW c \in Callers, RunBlocks(c)
    PROVE  PoolInv'
<1> USE PoolAssumption
<1>1. PoolTypeOK'
  BY DEF PoolInv, PoolTypeOK, RunBlocks
<1>2. Fresh' /\ Carries'
  BY DEF PoolInv, PoolTypeOK, Fresh, Carries, RunBlocks
<1>3. Notifying' = Notifying /\ Taking' = Taking
  BY DEF PoolInv, PoolTypeOK, RunBlocks, Notifying, Taking
<1>4. /\ waitNotEmpty' = waitNotEmpty
      /\ queue_' = queue_ /\ running_' = running_ /\ queue_ \in Seq(Tasks)
  BY DEF PoolInv, PoolTypeOK, RunBlocks, waitNotEmpty
<1>5. WorkClaim => WorkClaim'
  BY <1>3, <1>4 DEF WorkClaim
<1>6. SpaceClaim'
  BY <1>4, CountedNext DEF SpaceClaim, RunBlocks, isFull
<1> QED
  BY <1>1, <1>2, <1>4, <1>5, <1>6, InvMeaning, InvMeaningNext DEF PoolInv

\* run() refuses a task only after stop().
LEMMA RunRefusedInv ==
    ASSUME PoolInv, NEW c \in Callers, RunRefused(c)
    PROVE  PoolInv'
<1> USE PoolAssumption
<1>1. PoolTypeOK'
  BY DEF PoolInv, PoolTypeOK, RunRefused
<1>2. Fresh' /\ Carries'
  BY DEF PoolInv, PoolTypeOK, Fresh, Carries, RunRefused
<1>3. ~ running_'
  BY DEF RunRefused
<1> QED
  BY <1>1, <1>2, <1>3, InvMeaningNext DEF PoolInv

\* A pushed task is claimed by its caller, which has yet to notify; a free
\* place is gone and so is one caller on its way.
LEMMA RunPushesInv ==
    ASSUME PoolInv, NEW c \in Callers, RunPushes(c)
    PROVE  PoolInv'
<1> USE PoolAssumption
<1>1. arg[c] \in Tasks /\ queue_ \in Seq(Tasks) /\ Len(queue_) \in Nat
  BY DEF PoolInv, PoolTypeOK, Carries, RunPushes
<1>2. queue_' \in Seq(Tasks) /\ Len(queue_') = Len(queue_) + 1
  BY <1>1 DEF RunPushes
<1>3. MaxQueueSize > 0 => Len(queue_') <= MaxQueueSize
  BY <1>1, <1>2 DEF RunPushes, isFull
<1>4. PoolTypeOK'
  BY <1>2, <1>3 DEF PoolInv, PoolTypeOK, RunPushes
<1>5. Fresh' /\ Carries'
  BY DEF PoolInv, PoolTypeOK, Fresh, Carries, RunPushes
<1>6. /\ c \notin Notifying /\ Notifying' = Notifying \cup {c}
      /\ c \in Entering /\ Entering' = Entering \ {c}
      /\ Taking' = Taking
  BY DEF PoolInv, PoolTypeOK, RunPushes, Notifying, Entering, Taking
<1>7. Cardinality(Notifying') = Cardinality(Notifying) + 1
  BY <1>6, Counted, Gains
<1>8. Cardinality(Entering') = Cardinality(Entering) - 1
  BY <1>6, Counted, Loses
<1>9. waitNotEmpty' = waitNotEmpty /\ waitNotFull' = waitNotFull /\ running_' = running_
  BY DEF PoolInv, PoolTypeOK, RunPushes, waitNotEmpty, waitNotFull
<1>10. WorkClaim => WorkClaim'
  BY <1>1, <1>2, <1>6, <1>7, Counted DEF WorkClaim
<1>11. SpaceClaim => SpaceClaim'
  BY <1>1, <1>2, <1>8, Counted DEF SpaceClaim
<1> QED
  BY <1>4, <1>5, <1>9, <1>10, <1>11, InvMeaning, InvMeaningNext DEF PoolInv

\* The notify hands the claim over to the worker it wakes, if there is one.
LEMMA RunNotifiesInv ==
    ASSUME PoolInv, NEW c \in Callers, RunNotifies(c)
    PROVE  PoolInv'
<1> USE PoolAssumption
<1>1. PoolTypeOK'
  BY DEF PoolInv, PoolTypeOK, RunNotifies, NotifyNotEmpty, waitNotEmpty
<1>2. Fresh' /\ Carries'
  BY DEF PoolInv, PoolTypeOK, Fresh, Carries, RunNotifies, NotifyNotEmpty, waitNotEmpty
<1>3. /\ c \in Notifying /\ Notifying' = Notifying \ {c}
      /\ Entering' = Entering /\ waitNotFull' = waitNotFull
  BY DEF PoolInv, PoolTypeOK, RunNotifies, Notifying, Entering, waitNotFull
<1>4. Cardinality(Notifying') = Cardinality(Notifying) - 1
  BY <1>3, Counted, Loses
<1>5. queue_' = queue_ /\ running_' = running_ /\ Len(queue_) \in Nat
  BY DEF PoolInv, PoolTypeOK, RunNotifies
<1>6. SpaceClaim => SpaceClaim'
  BY <1>3, <1>5 DEF SpaceClaim
<1>7. waitNotEmpty' # {} /\ running_ => waitNotEmpty # {} /\ WorkClaim'
  <2>1. CASE waitNotEmpty = {}
    BY <2>1 DEF RunNotifies, NotifyNotEmpty, waitNotEmpty
  <2>2. CASE waitNotEmpty # {}
    <3>1. PICK w \in waitNotEmpty : wpc' = [wpc EXCEPT ![w] = "take"]
      BY <2>2 DEF RunNotifies, NotifyNotEmpty
    <3>2. w \notin Taking /\ Taking' = Taking \cup {w}
      BY <3>1 DEF PoolInv, PoolTypeOK, Taking, waitNotEmpty
    <3>3. Cardinality(Taking') = Cardinality(Taking) + 1
      BY <3>2, Counted, Gains
    <3>4. WorkClaim => WorkClaim'
      BY <1>4, <1>5, <3>3, Counted DEF WorkClaim
    <3> QED
      BY <2>2, <3>4, InvMeaning DEF PoolInv
  <2> QED
    BY <2>1, <2>2
<1> QED
  BY <1>1, <1>2, <1>3, <1>5, <1>6, <1>7, InvMeaning, InvMeaningNext DEF PoolInv

-----------------------------------------------------------------------------
\* A worker goes into take(), or ends after stop().
LEMMA WhileTestInv ==
    ASSUME PoolInv, NEW w \in Workers, WhileTest(w)
    PROVE  PoolInv'
<1> USE PoolAssumption
<1>1. PoolTypeOK'
  BY DEF PoolInv, PoolTypeOK, WhileTest, Callers
<1>2. Fresh' /\ Carries'
  BY DEF PoolInv, PoolTypeOK, Fresh, Carries, WhileTest
<1>3. /\ Notifying' = Notifying /\ Entering' = Entering
      /\ waitNotFull' = waitNotFull /\ waitNotEmpty' = waitNotEmpty
      /\ queue_' = queue_ /\ running_' = running_ /\ Len(queue_) \in Nat
  BY DEF PoolInv, PoolTypeOK, WhileTest, Notifying, Entering, waitNotFull, waitNotEmpty
<1>4. SpaceClaim => SpaceClaim'
  BY <1>3 DEF SpaceClaim
<1>5. running_ => (WorkClaim => WorkClaim')
  <2> SUFFICES ASSUME running_ PROVE WorkClaim => WorkClaim'
    OBVIOUS
  <2>1. w \notin Taking /\ Taking' = Taking \cup {w}
    BY DEF PoolInv, PoolTypeOK, WhileTest, Taking
  <2>2. Cardinality(Taking') = Cardinality(Taking) + 1
    BY <2>1, Counted, Gains
  <2> QED
    BY <2>2, <1>3, Counted DEF WorkClaim
<1> QED
  BY <1>1, <1>2, <1>3, <1>4, <1>5, InvMeaning, InvMeaningNext DEF PoolInv

\* A worker only blocks on an empty queue.
LEMMA TakeBlocksInv ==
    ASSUME PoolInv, NEW w \in Workers, TakeBlocks(w)
    PROVE  PoolInv'
<1> USE PoolAssumption
<1>1. PoolTypeOK'
  BY DEF PoolInv, PoolTypeOK, TakeBlocks, Callers
<1>2. Fresh' /\ Carries'
  BY DEF PoolInv, PoolTypeOK, Fresh, Carries, TakeBlocks
<1>3. Len(queue_') = 0
  BY DEF TakeBlocks
<1>4. WorkClaim'
  BY <1>3, CountedNext DEF WorkClaim
<1>5. SpaceIsClaimed'
  BY <1>1 DEF PoolInv, SpaceIsClaimed, TakeBlocks, waitNotFull
<1> QED
  BY <1>1, <1>2, <1>4, <1>5, InvMeaningNext DEF PoolInv

\* A worker takes one task and its own claim with it; the place it makes goes
\* to the caller it notifies.
LEMMA TakesInv ==
    ASSUME PoolInv, NEW w \in Workers, Takes(w)
    PROVE  PoolInv'
<1> USE PoolAssumption
<1>1. /\ queue_ \in Seq(Tasks) /\ queue_ # <<>> /\ Len(queue_) \in Nat
      /\ Head(queue_) \in Tasks /\ Tail(queue_) \in Seq(Tasks)
      /\ Len(Tail(queue_)) = Len(queue_) - 1
  BY DEF PoolInv, PoolTypeOK, Takes
<1>2. queue_' \in Seq(Tasks) /\ Len(queue_') = Len(queue_) - 1
  BY <1>1 DEF Takes
<1>3. /\ rpc' \in [Callers -> {"idle", "enter", "wait", "notify"}]
      /\ \A c \in Callers : rpc'[c] = rpc[c] \/ (rpc[c] = "wait" /\ rpc'[c] = "enter")
  BY DEF PoolInv, PoolTypeOK, Takes, NotifyNotFull, waitNotFull
<1>4. PoolTypeOK'
  <2>1. exec' \in [Callers -> Tasks \cup {NoTask}]
    BY <1>1 DEF PoolInv, PoolTypeOK, Takes
  <2>2. wpc' \in [Workers -> {"none", "while", "take", "wait", "run", "exited"}]
    BY DEF PoolInv, PoolTypeOK, Takes
  <2>3. \A v \in Workers : wpc'[v] = "run" <=> exec'[v] # NoTask
    BY <1>1 DEF PoolInv, PoolTypeOK, Takes, Callers
  <2>4. MaxQueueSize > 0 => Len(queue_') <= MaxQueueSize
    BY <1>1, <1>2 DEF PoolInv, PoolTypeOK
  <2> QED
    BY <1>2, <1>3, <2>1, <2>2, <2>3, <2>4 DEF PoolInv, PoolTypeOK, Takes
<1>5. Fresh' /\ Carries'
  BY <1>3 DEF PoolInv, PoolTypeOK, Fresh, Carries, Takes
<1>6. /\ w \in Taking /\ Taking' = Taking \ {w}
      /\ Notifying' = Notifying /\ waitNotEmpty' = waitNotEmpty /\ running_' = running_
  BY <1>3 DEF PoolInv, PoolTypeOK, Takes, Taking, Notifying, waitNotEmpty
<1>7. Cardinality(Taking') = Cardinality(Taking) - 1
  BY <1>6, Counted, Loses
<1>8. WorkClaim => WorkClaim'
  BY <1>1, <1>2, <1>6, <1>7, Counted DEF WorkClaim
<1>9. waitNotFull' # {} /\ running_ => waitNotFull # {} /\ SpaceClaim'
  <2>1. CASE MaxQueueSize = 0
    <3>1. rpc' = rpc
      BY <2>1 DEF Takes
    <3>2. SpaceClaim'
      BY <2>1, <1>1, <1>2, CountedNext DEF SpaceClaim
    <3> QED
      BY <3>1, <3>2 DEF waitNotFull
  <2>2. CASE MaxQueueSize > 0 /\ waitNotFull = {}
    BY <2>2 DEF Takes, NotifyNotFull, waitNotFull
  <2>3. CASE MaxQueueSize > 0 /\ waitNotFull # {}
    <3>1. PICK c \in waitNotFull : rpc' = [rpc EXCEPT ![c] = "enter"]
      BY <2>3 DEF Takes, NotifyNotFull
    <3>2. c \notin Entering /\ Entering' = Entering \cup {c}
      BY <3>1 DEF PoolInv, PoolTypeOK, Entering, waitNotFull
    <3>3. Cardinality(Entering') = Cardinality(Entering) + 1
      BY <3>2, Counted, Gains
    <3>4. SpaceClaim => SpaceClaim'
      BY <1>1, <1>2, <3>3, Counted DEF SpaceClaim
    <3> QED
      BY <2>3, <3>4, InvMeaning DEF PoolInv
  <2> QED
    BY <2>1, <2>2, <2>3
<1> QED
  BY <1>4, <1>5, <1>6, <1>8, <1>9, InvMeaning, InvMeaningNext DEF PoolInv

\* take() returns an empty task only after stop().
LEMMA TakesNothingInv ==
    ASSUME PoolInv, NEW w \in Workers, TakesNothing(w)
    PROVE  PoolInv'
<1> USE PoolAssumption
<1>1. PoolTypeOK'
  BY DEF PoolInv, PoolTypeOK, TakesNothing, Callers
<1>2. Fresh' /\ Carries'
  BY DEF PoolInv, PoolTypeOK, Fresh, Carries, TakesNothing
<1>3. ~ running_'
  BY DEF TakesNothing
<1> QED
  BY <1>1, <1>2, <1>3, InvMeaningNext DEF PoolInv

\* A task returns: its worker neither took nor held a claim.
LEMMA TaskDoneInv ==
    ASSUME PoolInv, NEW w \in Workers, TaskDone(w)
    PROVE  PoolInv'
<1> USE PoolAssumption
<1>1. PoolTypeOK'
  BY DEF PoolInv, PoolTypeOK, TaskDone, Callers
<1>2. Fresh' /\ Carries'
  BY DEF PoolInv, PoolTypeOK, Fresh, Carries, TaskDone
<1>3. /\ Notifying' = Notifying /\ Entering' = Entering /\ Taking' = Taking
      /\ waitNotFull' = waitNotFull /\ waitNotEmpty' = waitNotEmpty
      /\ queue_' = queue_ /\ running_' = running_
  BY DEF PoolInv, PoolTypeOK, TaskDone, Notifying, Entering, Taking, waitNotFull, waitNotEmpty
<1>4. (WorkClaim => WorkClaim') /\ (SpaceClaim => SpaceClaim')
  BY <1>3 DEF WorkClaim, SpaceClaim
<1> QED
  BY <1>1, <1>2, <1>3, <1>4, InvMeaning, InvMeaningNext DEF PoolInv

\* A spurious wakeup adds a claim and takes none.
LEMMA SpuriousWakeupInv ==
    ASSUME PoolInv, SpuriousWakeup
    PROVE  PoolInv'
<1> USE PoolAssumption
<1>0. queue_' = queue_ /\ running_' = running_ /\ Len(queue_) \in Nat
  BY DEF PoolInv, PoolTypeOK, SpuriousWakeup
<1>1. ASSUME NEW w \in waitNotEmpty,
             wpc' = [wpc EXCEPT ![w] = "take"],
             UNCHANGED <<queue_, running_, life, rpc, arg, exec>>
      PROVE  PoolInv'
  <2>1. PoolTypeOK'
    BY <1>1 DEF PoolInv, PoolTypeOK, waitNotEmpty, Callers
  <2>2. Fresh' /\ Carries'
    BY <1>1 DEF PoolInv, PoolTypeOK, Fresh, Carries, waitNotEmpty
  <2>3. w \notin Taking /\ Taking' = Taking \cup {w} /\ Notifying' = Notifying
    BY <1>1 DEF PoolInv, PoolTypeOK, Taking, Notifying, waitNotEmpty
  <2>4. Cardinality(Taking') = Cardinality(Taking) + 1
    BY <2>3, Counted, Gains
  <2>5. WorkClaim => WorkClaim'
    BY <1>0, <2>3, <2>4, Counted DEF WorkClaim
  <2>6. SpaceIsClaimed'
    BY <1>1, <2>1 DEF PoolInv, SpaceIsClaimed, waitNotFull
  <2>7. waitNotEmpty # {}
    OBVIOUS
  <2> QED
    BY <1>0, <2>1, <2>2, <2>5, <2>6, <2>7, InvMeaning, InvMeaningNext DEF PoolInv
<1>2. ASSUME NEW c \in waitNotFull,
             rpc' = [rpc EXCEPT ![c] = "enter"],
             UNCHANGED <<queue_, running_, life, arg, wpc, exec>>
      PROVE  PoolInv'
  <2>1. PoolTypeOK'
    BY <1>2 DEF PoolInv, PoolTypeOK, waitNotFull, Callers
  <2>2. Fresh' /\ Carries'
    BY <1>2 DEF PoolInv, PoolTypeOK, Fresh, Carries, waitNotFull
  <2>3. /\ c \notin Entering /\ Entering' = Entering \cup {c} /\ Notifying' = Notifying
        /\ Taking' = Taking /\ waitNotEmpty' = waitNotEmpty
    BY <1>2 DEF PoolInv, PoolTypeOK, Entering, Notifying, Taking, waitNotEmpty, waitNotFull
  <2>4. Cardinality(Entering') = Cardinality(Entering) + 1
    BY <2>3, Counted, Gains
  <2>5. SpaceClaim => SpaceClaim'
    BY <1>0, <2>4, Counted DEF SpaceClaim
  <2>6. WorkClaim => WorkClaim'
    BY <1>0, <2>3 DEF WorkClaim
  <2>7. waitNotFull # {}
    OBVIOUS
  <2> QED
    BY <1>0, <2>1, <2>2, <2>3, <2>5, <2>6, <2>7, InvMeaning, InvMeaningNext DEF PoolInv
<1> QED
  BY <1>1, <1>2 DEF SpuriousWakeup

\* stop() wakes everybody, and joining changes no thread.
LEMMA StopInv ==
    ASSUME PoolInv, Stop \/ Joined
    PROVE  PoolInv'
<1> USE PoolAssumption
<1>1. CASE Stop
  <2>1. PoolTypeOK'
    BY <1>1 DEF PoolInv, PoolTypeOK, Stop, Callers, waitNotEmpty, waitNotFull
  <2>2. Fresh' /\ Carries'
    BY <1>1 DEF PoolInv, PoolTypeOK, Fresh, Carries, Stop, waitNotFull
  <2>3. ~ running_'
    BY <1>1 DEF Stop
  <2> QED
    BY <2>1, <2>2, <2>3, InvMeaningNext DEF PoolInv
<1>2. CASE Joined
  <2>1. PoolTypeOK'
    BY <1>2 DEF PoolInv, PoolTypeOK, Joined
  <2>2. Fresh' /\ Carries' /\ WorkIsClaimed' /\ SpaceIsClaimed'
    BY <1>2, <2>1 DEF PoolInv, Fresh, Carries, WorkIsClaimed, SpaceIsClaimed, Joined,
                      waitNotEmpty, waitNotFull
  <2> QED
    BY <2>1, <2>2 DEF PoolInv
<1> QED
  BY <1>1, <1>2

-----------------------------------------------------------------------------
\* Every step of the pool, and none, keeps the invariant.
LEMMA NextInv ==
    ASSUME PoolInv, [PoolNext]_poolVars
    PROVE  PoolInv'
<1>1. ASSUME NEW c \in Callers, RunStep(c)
      PROVE  PoolInv'
  BY <1>1, RunBlocksInv, RunRefusedInv, RunPushesInv, RunNotifiesInv, InlineDoneInv DEF RunStep
<1>2. ASSUME NEW w \in Workers, WorkerStep(w)
      PROVE  PoolInv'
  BY <1>2, WhileTestInv, TakeBlocksInv, TakesInv, TakesNothingInv, TaskDoneInv DEF WorkerStep
<1>3. CASE UNCHANGED poolVars
  <2>1. PoolTypeOK'
    BY <1>3 DEF PoolInv, PoolTypeOK, poolVars
  <2> QED
    BY <1>3, <2>1 DEF PoolInv, Fresh, Carries, WorkIsClaimed, SpaceIsClaimed, poolVars,
                      waitNotEmpty, waitNotFull
<1> QED
  BY <1>1, <1>2, <1>3, StartInv, StopInv, SpuriousWakeupInv, RunInlineInv, RunEnterInv
     DEF PoolNext

\* The invariant holds in every reachable state.
THEOREM PoolInvariant == PoolSpec => []PoolInv
<1>1. PoolInit => PoolInv
  BY InitInv
<1>2. PoolInv /\ [PoolNext]_poolVars => PoolInv'
  BY NextInv
<1> QED
  BY <1>1, <1>2, PTL DEF PoolSpec

\* No worker sleeps while a queued task is unclaimed, for any number of
\* threads: run()'s notify_one() after the unlock is never too late.
THEOREM WorkIsAlwaysClaimed == PoolSpec => []WorkIsClaimed
<1>1. PoolInv => WorkIsClaimed
  BY DEF PoolInv
<1> QED
  BY <1>1, PoolInvariant, PTL

\* No caller of run() sleeps while a free place is unclaimed, and the queue
\* never exceeds maxQueueSize_.
THEOREM SpaceIsAlwaysClaimed == PoolSpec => []SpaceIsClaimed
<1>1. PoolInv => SpaceIsClaimed
  BY DEF PoolInv
<1> QED
  BY <1>1, PoolInvariant, PTL
=============================================================================
