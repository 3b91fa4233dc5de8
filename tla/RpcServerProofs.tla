-------------------------- MODULE RpcServerProofs --------------------------
(***************************************************************************)
(* TLAPS proofs about RpcServer and Scheduler, for any number of work      *)
(* processors and any calls.                                               *)
(***************************************************************************)
EXTENDS RpcServer, TLAPS

-----------------------------------------------------------------------------
(* The inductive invariant: the scheduler's part.                          *)

\* Every processor entered so far has been made and is not on its way out.
AllUp == \A p \in 0..started : life[p] \in {"made", "run"}

\* How far start() has come.
Building ==
    /\ opc = "idle" => spc = "none"
    /\ spc \in {"none", "make"} => started = 0 /\ life[Main] = "none"
    /\ spc \in {"none", "make", "spawn"} => ~ running_ /\ kpc = "none"
    /\ spc = "spawn" => mainProc_ /\ AllUp
    /\ spc \in {"notify", "run"} => /\ started = workProcNum_
                                    /\ kpc = "none" => mainProc_ /\ AllUp

\* Until stop() is called no processor is told to stop, and none ends.
Unstopped == kpc = "none" => \A p \in Procs : ~ stop_[p] /\ life[p] \notin {"ended", "dead"}

\* stop() clears running_ for good; quit_ is set after the join; wait() needs quit_.
Stopping ==
    /\ kpc # "none" => ~ running_
    /\ quit_ => kpc # "none" /\ Joined
    /\ opc = "done" \/ OwnerEnded => quit_

SchedInv == SchedTypeOK /\ Building /\ Unstopped /\ Stopping

-----------------------------------------------------------------------------
(* The server's and its clients' part.                                     *)

\* The handler of c is done for: it has ended, or the process has crashed, or
\* its processor is gone.
Over(c) ==
    \/ srv[c] = "ended" \/ crashed
    \/ srv[c] # "none" /\ proc_[c] \in Procs /\ life[proc_[c]] = "dead"

\* A connection waits for accept() once, and has no handler until then.
Backlog ==
    /\ \A i \in 1..Len(backlog) :
          /\ srv[backlog[i]] = "none" /\ cl[backlog[i]] # "idle"
          /\ \A j \in 1..Len(backlog) : j # i => backlog[j] # backlog[i]
    /\ \A c \in Calls : srv[c] # "none" => cl[c] # "idle"

\* Connections are dealt out to processors in workProcVec_ or to the main one.
Dealt ==
    /\ index = 0 \/ index < started
    /\ ~ crashed => \A c \in Calls : srv[c] # "none" => proc_[c] \in 0..started

\* A socket is closed, or shut down, only after its handler.
Closed ==
    /\ \A c \in Calls : srv[c] # "none" /\ c \notin open => Over(c)
    /\ \A c \in fin : srv[c] = "ended"

\* A handler that can go on has a processor that resumes it.
Kept ==
    ~ crashed => \A c \in Calls :
        srv[c] \in {"got", "ran", "sent"} => proc_[c] \in Procs /\ life[proc_[c]] = "run"

\* A method runs after its request was read; what it returns, if anything, is sent next.
Answered ==
    /\ \A c \in Calls : srv[c] \in {"got", "ran", "sent"} \/ c \in executed => req[c] = "read"
    /\ \A c \in executed : srv[c] \in {"ran", "sent", "ended"}
    /\ \A c \in Calls : srv[c] \in {"ran", "sent"} => c \in executed
    /\ resp \subseteq executed
    /\ \A c \in executed \cap responseStr : c \in resp \/ srv[c] = "ran"

\* What a client has been told.
Told ==
    \A c \in Calls :
       /\ cl[c] = "ok" => c \in executed
       /\ cl[c] = "failed" => c \notin executed
       /\ cl[c] = "empty" /\ c \in executed =>
             c \notin responseStr \/ (crashed /\ srv[c] = "ran")
       /\ cl[c] \in {"empty", "failed"} => Over(c) \/ OwnerEnded

RpcInv == SchedInv /\ RpcTypeOK /\ Backlog /\ Dealt /\ Closed /\ Kept /\ Answered /\ Told

-----------------------------------------------------------------------------
(* The scheduler.                                                          *)

\* Nothing has been started.
LEMMA SchedInitInv ==
    ASSUME SchedInit
    PROVE  SchedInv
<1> USE SchedAssumption DEF SchedInit
<1>1. /\ workProcNum_ \in 0..MaxWorkProcs /\ started \in 0..workProcNum_
      /\ stopped \in Nat /\ caller \in Procs \cup {NoProc}
  OBVIOUS
<1>2. SchedTypeOK
  BY <1>1 DEF SchedTypeOK, OwnerPlaces
<1>3. Building /\ Unstopped /\ Stopping
  BY DEF Building, Unstopped, Stopping, OwnerEnded, Main, Procs
<1> QED
  BY <1>2, <1>3 DEF SchedInv

\* start() and the threads it begins: processors are made before they are
\* entered, and stop() has to wait for running_.
LEMMA StarterInv ==
    ASSUME SchedInv, Starter
    PROVE  SchedInv'
<1> USE SchedAssumption DEF SchedInv, Procs, Main
<1>1. CASE MakeMain
  <2> USE <1>1 DEF MakeMain, flags, owner, stopping
  <2>1. SchedTypeOK'
    BY DEF SchedTypeOK
  <2>2. Building'
    BY DEF SchedTypeOK, Building, AllUp
  <2>3. Unstopped' /\ Stopping'
    BY DEF SchedTypeOK, Building, Unstopped, Stopping, OwnerEnded
  <2> QED
    BY <2>1, <2>2, <2>3
<1>2. CASE StartProcess
  <2> USE <1>2 DEF StartProcess, flags, built, owner, stopping
  <2>0. started + 1 \in Procs
    BY DEF SchedTypeOK
  <2>1. SchedTypeOK'
    BY <2>0 DEF SchedTypeOK
  <2>2. Building'
    BY <2>0 DEF SchedTypeOK, Building, AllUp
  <2>3. Unstopped' /\ Stopping'
    BY <2>0 DEF SchedTypeOK, Building, Unstopped, Stopping, OwnerEnded
  <2> QED
    BY <2>1, <2>2, <2>3
<1>3. CASE PushWorker
  <2> USE <1>3 DEF PushWorker, flags, procs, owner, stopping
  <2>0. started \in Nat /\ workProcNum_ \in Nat /\ started + 1 \in Procs /\ started < workProcNum_
    BY DEF SchedTypeOK
  <2>1. SchedTypeOK'
    BY <2>0 DEF SchedTypeOK
  <2>2. life[started + 1] \in {"made", "run"}
    BY <2>0 DEF SchedTypeOK, Building, Unstopped, Published
  <2>3. Building'
    BY <2>0, <2>2 DEF SchedTypeOK, Building, AllUp
  <2>4. Unstopped' /\ Stopping'
    BY DEF Building, Unstopped, Stopping, OwnerEnded
  <2> QED
    BY <2>1, <2>3, <2>4
<1>4. CASE SetRunning
  <2> USE <1>4 DEF SetRunning, procs, owner, stopping
  <2>1. SchedTypeOK'
    BY DEF SchedTypeOK
  <2>2. Building'
    BY DEF SchedTypeOK, Building, AllUp
  <2>3. Unstopped' /\ Stopping'
    BY DEF Building, Unstopped, Stopping, OwnerEnded
  <2> QED
    BY <2>1, <2>2, <2>3
<1>5. CASE NotifyRunning
  <2> USE <1>5 DEF NotifyRunning, Notified, flags, procs, stopping
  <2>1. lost' \in BOOLEAN /\ opc' \in OwnerPlaces
    BY DEF SchedTypeOK, OwnerPlaces
  <2>2. SchedTypeOK'
    BY <2>1 DEF SchedTypeOK
  <2>3. Building'
    BY DEF SchedTypeOK, Building, AllUp
  <2>4. Unstopped' /\ Stopping'
    BY DEF Unstopped, Stopping, OwnerEnded, Joined
  <2> QED
    BY <2>2, <2>3, <2>4
<1> QED
  BY <1>1, <1>2, <1>3, <1>4, <1>5 DEF Starter

\* A processor's thread: only stop() lets it end.
LEMMA ProcInv ==
    ASSUME SchedInv, NEW p \in Procs, Publish(p) \/ ProcRun(p) \/ ProcEnds(p) \/ ProcDies(p)
    PROVE  SchedInv'
<1> USE SchedAssumption DEF SchedInv, flags, built, owner, stopping
<1>1. /\ UNCHANGED <<flags, built, owner, stopping>>
      /\ \/ life[p] = "thread" /\ life' = [life EXCEPT ![p] = "made"] /\ stop_' = stop_
         \/ life[p] = "made" /\ life' = [life EXCEPT ![p] = "run"]
            /\ stop_' = [stop_ EXCEPT ![p] = FALSE]
         \/ life[p] = "run" /\ stop_[p] /\ life' = [life EXCEPT ![p] = "ended"] /\ stop_' = stop_
         \/ life[p] = "ended" /\ life' = [life EXCEPT ![p] = "dead"] /\ stop_' = stop_
  BY DEF Publish, ProcRun, ProcEnds, ProcDies
<1>2. SchedTypeOK'
  BY <1>1 DEF SchedTypeOK
<1>3. Unstopped'
  BY <1>1 DEF SchedTypeOK, Unstopped
<1>0. 0..started \subseteq Procs /\ started' = started
  BY <1>1 DEF SchedTypeOK, Procs
<1>4. kpc = "none" /\ AllUp => AllUp'
  BY <1>0, <1>1 DEF SchedTypeOK, Unstopped, AllUp
<1>5. Building'
  BY <1>1, <1>4 DEF Building, SchedTypeOK, Main, Procs
<1>6. Joined => Joined'
  BY <1>0, <1>1 DEF SchedTypeOK, Joined
<1>7. Stopping'
  BY <1>1, <1>6 DEF Stopping, OwnerEnded
<1> QED
  BY <1>2, <1>3, <1>5, <1>7

\* The owner only reads running_ and quit_.
LEMMA OwnerInv ==
    ASSUME SchedInv, StartAsync \/ Owner \/ SpuriousWakeup \/ Destroy
    PROVE  SchedInv'
<1> USE SchedAssumption DEF SchedInv
<1>1. /\ UNCHANGED <<flags, workProcNum_, started, mainProc_, procs, lost, stopping>>
      /\ \/ spc' = spc /\ opc # "idle"
         \/ opc = "idle" /\ spc' = "make"
      /\ opc' \in OwnerPlaces \ {"idle"}
      /\ opc' \in {"done", "destroyed", "terminated"} => quit_
  BY DEF StartAsync, Owner, SpuriousWakeup, Destroy, TestRunning, FallAsleep, TestQuit, Wait,
         OwnerGoes, OwnerPlaces, Stopping
<1>2. SchedTypeOK'
  BY <1>1 DEF SchedTypeOK, flags, procs, stopping
<1>3. Building'
  BY <1>1 DEF Building, AllUp, flags, procs, stopping
<1>4. Unstopped' /\ Stopping'
  BY <1>1 DEF Unstopped, Stopping, OwnerEnded, Joined, flags, procs, stopping
<1> QED
  BY <1>2, <1>3, <1>4

\* stop() needs running_, and joinThread() sets quit_ after the last join.
LEMMA StopperInv ==
    ASSUME SchedInv, Stopper \/ \E p \in Procs \cup {NoProc} : Stop(p)
    PROVE  SchedInv'
<1> USE SchedAssumption DEF SchedInv
<1>1. ASSUME NEW p \in Procs \cup {NoProc}, Stop(p)
      PROVE  SchedInv'
  <2> USE <1>1 DEF Stop, built, procs, owner
  <2>1. SchedTypeOK'
    BY DEF SchedTypeOK
  <2>2. Building' /\ Unstopped'
    BY DEF Building, AllUp, Unstopped
  <2>3. Stopping'
    BY DEF Stopping, OwnerEnded, Joined
  <2> QED
    BY <2>1, <2>2, <2>3
<1>2. CASE StopNext
  <2> USE <1>2 DEF StopNext, flags, owner
  <2>0. stopped \in Procs /\ stopped' \in Nat
    BY DEF SchedTypeOK, Procs
  <2>1. SchedTypeOK'
    BY <2>0 DEF SchedTypeOK
  <2>2. Building' /\ Unstopped'
    BY DEF Building, AllUp, Unstopped
  <2>3. Stopping'
    BY DEF Stopping, OwnerEnded, Joined
  <2> QED
    BY <2>1, <2>2, <2>3
<1>3. CASE StopReturns
  <2> USE <1>3 DEF StopReturns, flags, built, procs, owner
  <2>1. SchedTypeOK'
    BY DEF SchedTypeOK
  <2>2. Building' /\ Unstopped'
    BY DEF Building, AllUp, Unstopped
  <2>3. Stopping'
    BY DEF Stopping, OwnerEnded, Joined
  <2> QED
    BY <2>1, <2>2, <2>3
<1>4. CASE JoinThread
  <2> USE <1>4 DEF JoinThread, built, procs, owner
  <2>1. SchedTypeOK'
    BY DEF SchedTypeOK
  <2>2. Building' /\ Unstopped'
    BY DEF Building, AllUp, Unstopped
  <2>3. Stopping'
    BY DEF Stopping, OwnerEnded, Joined
  <2> QED
    BY <2>1, <2>2, <2>3
<1>5. CASE NotifyQuit
  <2> USE <1>5 DEF NotifyQuit, Notified, flags, built, procs
  <2>1. lost' \in BOOLEAN /\ opc' \in OwnerPlaces
    BY DEF SchedTypeOK, OwnerPlaces
  <2>2. SchedTypeOK'
    BY <2>1 DEF SchedTypeOK
  <2>3. Building' /\ Unstopped'
    BY DEF Building, AllUp, Unstopped
  <2>4. Stopping'
    BY DEF Stopping, OwnerEnded, Joined
  <2> QED
    BY <2>2, <2>3, <2>4
<1> QED
  BY <1>1, <1>2, <1>3, <1>4, <1>5 DEF Stopper

\* A step of the scheduler.
SchedStep ==
    \/ StartAsync \/ Starter \/ Owner \/ SpuriousWakeup \/ Destroy \/ Stopper
    \/ \E p \in Procs \cup {NoProc} : Stop(p)
    \/ \E p \in Procs : Publish(p) \/ ProcRun(p) \/ ProcEnds(p) \/ ProcDies(p)

\* Such a step keeps the scheduler's part of the invariant.
LEMMA SchedStepInv ==
    ASSUME SchedInv, SchedStep
    PROVE  SchedInv'
  BY StarterInv, ProcInv, OwnerInv, StopperInv DEF SchedStep

\* It takes no worker away, revives none, and an owner that has ended has ended.
LEMMA SchedStepMonotone ==
    ASSUME SchedInv, SchedStep
    PROVE  /\ started \in Nat /\ started' \in Nat /\ started <= started'
           /\ \A p \in Procs : life[p] = "dead" => life'[p] = "dead"
           /\ OwnerEnded => OwnerEnded'
<1> USE SchedAssumption DEF SchedInv
<1>1. started \in Nat /\ started' \in Nat
  BY SchedStepInv DEF SchedTypeOK
<1>2. ASSUME StartAsync \/ Owner \/ SpuriousWakeup \/ Destroy
      PROVE  started' = started /\ life' = life /\ (OwnerEnded => OwnerEnded')
  BY <1>2 DEF StartAsync, Owner, SpuriousWakeup, Destroy, TestRunning, FallAsleep, TestQuit, Wait,
              OwnerGoes, OwnerEnded, procs
<1>3. ASSUME Stopper \/ \E p \in Procs \cup {NoProc} : Stop(p)
      PROVE  started' = started /\ life' = life /\ (OwnerEnded => OwnerEnded')
  BY <1>3 DEF Stopper, StopNext, StopReturns, JoinThread, NotifyQuit, Notified, Stop, OwnerEnded,
              built, procs, owner
<1>4. ASSUME NEW p \in Procs, Publish(p) \/ ProcRun(p) \/ ProcEnds(p) \/ ProcDies(p)
      PROVE  /\ started' = started /\ (OwnerEnded => OwnerEnded')
             /\ \A q \in Procs : life[q] = "dead" => life'[q] = "dead"
  BY <1>4 DEF Publish, ProcRun, ProcEnds, ProcDies, OwnerEnded, built, owner, SchedTypeOK
<1>5. ASSUME Starter
      PROVE  /\ started <= started' /\ (OwnerEnded => OwnerEnded')
             /\ \A q \in Procs : life[q] = "dead" => life'[q] = "dead"
  <2>1. CASE MakeMain
    BY <2>1, <1>1 DEF MakeMain, SchedTypeOK, Building, Unstopped, OwnerEnded, owner
  <2>2. CASE StartProcess
    BY <2>2, <1>1 DEF StartProcess, SchedTypeOK, OwnerEnded, owner, built
  <2>3. CASE PushWorker \/ SetRunning
    BY <2>3, <1>1 DEF PushWorker, SetRunning, OwnerEnded, owner, procs
  <2>4. CASE NotifyRunning
    BY <2>4, <1>1 DEF NotifyRunning, Notified, OwnerEnded, procs
  <2> QED
    BY <2>1, <2>2, <2>3, <2>4, <1>5 DEF Starter
<1> QED
  BY <1>1, <1>2, <1>3, <1>4, <1>5 DEF SchedStep

-----------------------------------------------------------------------------
(* Connections, handlers and clients.                                      *)

\* A step that leaves the scheduler alone keeps its part of the invariant.
LEMMA SchedFrame ==
    ASSUME SchedInv, UNCHANGED schedVars
    PROVE  /\ SchedInv'
           /\ UNCHANGED <<running_, quit_, workProcNum_, started, mainProc_, spc, life, stop_,
                          opc, lost, kpc, caller, stopped>>
           /\ OwnerEnded' = OwnerEnded
<1>1. UNCHANGED <<running_, quit_, workProcNum_, started, mainProc_, spc, life, stop_, opc, lost,
                  kpc, caller, stopped>>
  BY DEF schedVars, flags, built, procs, owner, stopping
<1>2. SchedTypeOK'
  BY <1>1 DEF SchedInv, SchedTypeOK
<1>3. Building' /\ Unstopped' /\ Stopping' /\ OwnerEnded' = OwnerEnded
  BY <1>1 DEF SchedInv, Building, AllUp, Unstopped, Stopping, OwnerEnded, Joined
<1> QED
  BY <1>1, <1>2, <1>3 DEF SchedInv

\* Nobody has called yet.
LEMMA RpcInitInv ==
    ASSUME RpcInit
    PROVE  RpcInv
<1> USE SchedAssumption DEF RpcInit
<1>1. SchedInv
  BY SchedInitInv
<1>2. backlog \in Seq(Calls) /\ Len(backlog) = 0 /\ index \in 0..MaxWorkProcs
  OBVIOUS
<1>3. RpcTypeOK
  BY <1>1, <1>2 DEF SchedInv, RpcTypeOK
<1>4. Backlog
  BY <1>2 DEF Backlog
<1>5. Dealt /\ Closed
  BY DEF Dealt, Closed
<1>6. Kept /\ Answered /\ Told
  BY DEF Kept, Answered, Told
<1> QED
  BY <1>1, <1>3, <1>4, <1>5, <1>6 DEF RpcInv

\* Nobody but a processor's own thread takes it out of run().
LEMMA RunsOn ==
    ASSUME SchedInv, NEW p \in Procs, life[p] = "run",
           \/ StartAsync \/ Starter \/ Owner \/ SpuriousWakeup \/ Destroy \/ Stopper
           \/ \E q \in Procs \cup {NoProc} : Stop(q)
    PROVE  life'[p] = "run"
<1>1. CASE StartAsync \/ Owner \/ SpuriousWakeup \/ Destroy
  BY <1>1 DEF StartAsync, Owner, SpuriousWakeup, Destroy, TestRunning, FallAsleep, TestQuit, Wait,
              OwnerGoes, procs
<1>2. CASE Stopper \/ \E q \in Procs \cup {NoProc} : Stop(q)
  BY <1>2 DEF Stopper, StopNext, StopReturns, JoinThread, NotifyQuit, Stop, procs
<1>3. CASE Starter
  <2>1. CASE MakeMain \/ StartProcess
    BY <2>1 DEF MakeMain, StartProcess, SchedInv, SchedTypeOK, Building, Unstopped
  <2>2. CASE PushWorker \/ SetRunning \/ NotifyRunning
    BY <2>2 DEF PushWorker, SetRunning, NotifyRunning, procs
  <2> QED
    BY <2>1, <2>2, <1>3 DEF Starter
<1> QED
  BY <1>1, <1>2, <1>3

\* A step of the scheduler brings no handler back, and ends none that can go on.
LEMMA SchedOnlyInv ==
    ASSUME RpcInv, SchedStep, UNCHANGED notSched,
           \A p \in Procs : life[p] = "run" /\ life'[p] # "run" => NothingRunnable(p)
    PROVE  RpcInv'
<1>1. SchedInv'
  BY SchedStepInv DEF RpcInv
<1>2. /\ started \in Nat /\ started' \in Nat /\ started <= started'
      /\ \A p \in Procs : life[p] = "dead" => life'[p] = "dead"
      /\ OwnerEnded => OwnerEnded'
  BY SchedStepMonotone DEF RpcInv
<1>3. UNCHANGED <<acc, index, backlog, req, resp, fin, cl, srv, proc_, open, fd_,
                  executed, responseStr, crashed>>
  BY DEF notSched, accepting, kernel, handlers
<1>4. RpcTypeOK'
  BY <1>1, <1>3 DEF RpcInv, SchedInv, RpcTypeOK
<1>5. \A c \in Calls : Over(c) => Over(c)'
  BY <1>2, <1>3 DEF Over
<1>6. Backlog'
  BY <1>3 DEF RpcInv, Backlog
<1>7. Dealt'
  <2>1. index \in Nat /\ (index = 0 \/ index < started)
    BY SchedAssumption DEF RpcInv, RpcTypeOK, Dealt
  <2>2. index = 0 \/ index < started'
    BY <2>1, <1>2
  <2>3. 0..started \subseteq 0..started'
    BY <1>2
  <2> QED
    BY <2>2, <2>3, <1>3 DEF RpcInv, Dealt
<1>8. Closed'
  BY <1>3, <1>5 DEF RpcInv, RpcTypeOK, Closed
<1>9. Kept'
  BY <1>3 DEF RpcInv, Kept, NothingRunnable
<1>10. Answered' /\ Told'
  BY <1>2, <1>3, <1>5 DEF RpcInv, Answered, Told
<1> QED
  BY <1>1, <1>4, <1>6, <1>7, <1>8, <1>9, <1>10 DEF RpcInv

\* A handler that a processor can resume is not done for, and wait() has not returned.
LEMMA Resumable ==
    ASSUME RpcInv, ~ crashed, NEW c \in Calls, srv[c] \notin {"none", "ended"}, Resumes(proc_[c])
    PROVE  ~ Over(c) /\ ~ OwnerEnded
<1>1. proc_[c] \in 0..started /\ life[proc_[c]] = "run"
  BY DEF RpcInv, Dealt, Resumes
<1>2. ~ Over(c)
  BY <1>1 DEF Over
<1>3. ~ OwnerEnded
  BY <1>1 DEF RpcInv, SchedInv, Stopping, Joined
<1> QED
  BY <1>2, <1>3

\* pickOneWorkProcessor() returns a processor of the scheduler or nothing.
LEMMA PickIsValid ==
    ASSUME RpcInv
    PROVE  /\ Picked \in (0..started) \cup {NoProc}
           /\ NextIndex \in 0..MaxWorkProcs /\ (NextIndex = 0 \/ NextIndex < started)
           /\ 0..started \subseteq Procs
<1>1. /\ started \in Nat /\ started <= MaxWorkProcs /\ MaxWorkProcs \in Nat
      /\ index \in 0..MaxWorkProcs /\ (index = 0 \/ index < started)
  BY SchedAssumption DEF RpcInv, SchedInv, SchedTypeOK, RpcTypeOK, Dealt
<1>2. Picked \in (0..started) \cup {NoProc}
  BY <1>1 DEF Picked, Main
<1>3. started > 0 => (index + 1) % started \in 0..(started - 1)
  BY <1>1
<1>4. NextIndex \in 0..MaxWorkProcs /\ (NextIndex = 0 \/ NextIndex < started)
  BY <1>1, <1>3 DEF NextIndex
<1> QED
  BY <1>1, <1>2, <1>4 DEF Procs

\* A step that moves at most startAccept() keeps the invariant, also if it crashes.
LEMMA AccepterOnlyInv ==
    ASSUME RpcInv, ~ crashed, acc' \in {"none", "pending", "accept", "held"},
           index' \in {index, NextIndex}, crashed' \in BOOLEAN,
           UNCHANGED <<schedVars, kernel, cl, handlers>>
    PROVE  RpcInv'
<1>1. SchedInv' /\ started' = started /\ life' = life /\ OwnerEnded' = OwnerEnded
  BY SchedFrame DEF RpcInv
<1>2. UNCHANGED <<backlog, req, resp, fin, cl, srv, proc_, open, fd_, executed, responseStr>>
  BY DEF kernel, handlers
<1>3. index' \in 0..MaxWorkProcs /\ (index' = 0 \/ index' < started)
  BY PickIsValid DEF RpcInv, RpcTypeOK, Dealt
<1>4. RpcTypeOK'
  BY <1>1, <1>2, <1>3 DEF RpcInv, SchedInv, RpcTypeOK
<1>5. \A c \in Calls : Over(c) => Over(c)'
  BY <1>1, <1>2 DEF Over
<1>6. Backlog'
  BY <1>2 DEF RpcInv, Backlog
<1>7. Dealt'
  BY <1>1, <1>2, <1>3 DEF RpcInv, Dealt
<1>8. Closed'
  BY <1>2, <1>5 DEF RpcInv, Closed
<1>9. Kept' /\ Answered'
  BY <1>1, <1>2 DEF RpcInv, Kept, Answered
<1>10. Told'
  BY <1>1, <1>2, <1>5 DEF RpcInv, Told
<1> QED
  BY <1>1, <1>4, <1>6, <1>7, <1>8, <1>9, <1>10 DEF RpcInv

\* What the steps of a handler have in common: a socket is closed or shut down
\* when the handler ends, and a call that was executed is answered before that.
HandlerStep(c, to) ==
    /\ srv[c] \notin {"none", "ended"} /\ HandlerGoes(c, to)
    /\ to \in {"held", "got", "ran", "sent", "ended"}
    /\ req' = req \/ req' = [req EXCEPT ![c] = "read"]
    /\ fd_' \subseteq Calls
    /\ open' = open \/ (to = "ended" /\ open' = open \ {c})
    /\ fin' = fin \/ (to = "ended" /\ fin' = fin \cup {c})
    /\ to \in {"got", "ran", "sent"} => req'[c] = "read"
    /\ to \in {"held", "got"} => c \notin executed
    /\ to \in {"ran", "sent"} => c \in executed'
    /\ \/ executed' = executed /\ responseStr' = responseStr
       \/ /\ to = "ran" /\ executed' = executed \cup {c}
          /\ responseStr' \in {responseStr, responseStr \cup {c}}
    /\ resp' = resp \/ (to = "sent" /\ c \in executed /\ resp' = resp \cup {c})
    /\ to \in {"sent", "ended"} /\ c \in executed \cap responseStr => c \in resp'

\* Such a step keeps the invariant.
LEMMA HandlerStepInv ==
    ASSUME RpcInv, ~ crashed, NEW c \in Calls, NEW to, HandlerStep(c, to)
    PROVE  RpcInv'
<1>1. /\ srv[c] \notin {"none", "ended"} /\ Resumes(proc_[c])
      /\ srv' = [srv EXCEPT ![c] = to]
      /\ to \in {"held", "got", "ran", "sent", "ended"}
      /\ req' = req \/ req' = [req EXCEPT ![c] = "read"]
      /\ fd_' \subseteq Calls
      /\ open' = open \/ (to = "ended" /\ open' = open \ {c})
      /\ fin' = fin \/ (to = "ended" /\ fin' = fin \cup {c})
      /\ to \in {"got", "ran", "sent"} => req'[c] = "read"
      /\ to \in {"held", "got"} => c \notin executed
      /\ to \in {"ran", "sent"} => c \in executed'
      /\ \/ executed' = executed /\ responseStr' = responseStr
         \/ /\ to = "ran" /\ executed' = executed \cup {c}
            /\ responseStr' \in {responseStr, responseStr \cup {c}}
      /\ resp' = resp \/ (to = "sent" /\ c \in executed /\ resp' = resp \cup {c})
      /\ to \in {"sent", "ended"} /\ c \in executed \cap responseStr => c \in resp'
      /\ UNCHANGED <<acc, index, backlog, cl, proc_, crashed>>
      /\ UNCHANGED schedVars
  BY DEF HandlerStep, HandlerGoes, accepting
<1>2. ~ Over(c) /\ ~ OwnerEnded
  BY <1>1, Resumable
<1>3. SchedInv' /\ started' = started /\ life' = life /\ OwnerEnded' = OwnerEnded
  BY <1>1, SchedFrame DEF RpcInv
<1>4. /\ {open', fd_', executed', responseStr', resp', fin'} \subseteq SUBSET Calls
      /\ req' \in [Calls -> {"none", "wire", "here", "read"}]
      /\ srv' \in [Calls -> {"none", "pending", "held", "got", "ran", "sent", "ended"}]
  BY <1>1 DEF RpcInv, RpcTypeOK
<1>5. RpcTypeOK'
  BY <1>1, <1>3, <1>4 DEF RpcInv, SchedInv, RpcTypeOK
<1>6. /\ \A d \in Calls : d # c => srv'[d] = srv[d] /\ req'[d] = req[d]
      /\ srv'[c] = to /\ (req[c] = "read" => req'[c] = "read")
  BY <1>1 DEF RpcInv, RpcTypeOK
<1>7. ASSUME NEW d \in Calls, d # c, Over(d)
      PROVE  Over(d)'
  BY <1>1, <1>3, <1>6, <1>7 DEF Over
<1>8. Backlog'
  <2>1. \A i \in 1..Len(backlog) : backlog[i] \in Calls /\ backlog[i] # c
    BY <1>1 DEF RpcInv, RpcTypeOK, Backlog
  <2> QED
    BY <2>1, <1>1, <1>6 DEF RpcInv, Backlog
<1>9. Dealt'
  BY <1>1, <1>3, <1>6 DEF RpcInv, Dealt
<1>10. Closed'
  <2>1. ASSUME NEW d \in Calls, srv'[d] # "none", d \notin open'
        PROVE  Over(d)'
    <3>1. CASE d # c
      BY <3>1, <2>1, <1>1, <1>6, <1>7 DEF RpcInv, Closed
    <3>2. CASE d = c /\ to = "ended"
      BY <3>2, <1>6 DEF Over
    <3>3. CASE d = c /\ to # "ended"
      BY <3>3, <2>1, <1>1, <1>2 DEF RpcInv, Closed
    <3> QED
      BY <3>1, <3>2, <3>3
  <2>2. \A d \in fin' : srv'[d] = "ended"
    BY <1>1, <1>6 DEF RpcInv, RpcTypeOK, Closed
  <2> QED
    BY <2>1, <2>2 DEF Closed
<1>11. Kept'
  <2>1. proc_[c] \in Procs /\ life[proc_[c]] = "run"
    BY <1>1, PickIsValid DEF RpcInv, Dealt, Resumes
  <2> QED
    BY <2>1, <1>1, <1>3, <1>6 DEF RpcInv, Kept
<1>12. Answered'
  <2>1. ASSUME NEW d \in Calls, srv'[d] \in {"got", "ran", "sent"} \/ d \in executed'
        PROVE  req'[d] = "read"
    BY <2>1, <1>1, <1>6 DEF RpcInv, Answered
  <2>2. ASSUME NEW d \in executed'
        PROVE  srv'[d] \in {"ran", "sent", "ended"}
    BY <2>2, <1>1, <1>4, <1>6 DEF RpcInv, Answered
  <2>3. resp' \subseteq executed'
    BY <1>1 DEF RpcInv, Answered
  <2>4. ASSUME NEW d \in executed' \cap responseStr'
        PROVE  d \in resp' \/ srv'[d] = "ran"
    <3>1. CASE d # c
      BY <3>1, <2>4, <1>1, <1>4, <1>6 DEF RpcInv, Answered
    <3>2. CASE d = c
      BY <3>2, <2>4, <1>1, <1>4, <1>6
    <3> QED
      BY <3>1, <3>2
  <2>5. ASSUME NEW d \in Calls, srv'[d] \in {"ran", "sent"}
        PROVE  d \in executed'
    BY <2>5, <1>1, <1>6 DEF RpcInv, Answered
  <2> QED
    BY <2>1, <2>2, <2>3, <2>4, <2>5 DEF Answered
<1>13. Told'
  <2>1. cl[c] \notin {"empty", "failed"}
    BY <1>2 DEF RpcInv, Told
  <2>2. ASSUME NEW d \in Calls, d # c
        PROVE  /\ d \in executed <=> d \in executed'
               /\ d \in responseStr <=> d \in responseStr'
    BY <2>2, <1>1
  <2>3. executed \subseteq executed'
    BY <1>1
  <2> QED
    BY <2>1, <2>2, <2>3, <1>1, <1>3, <1>6, <1>7 DEF RpcInv, Told
<1> QED
  BY <1>3, <1>5, <1>8, <1>9, <1>10, <1>11, <1>12, <1>13 DEF RpcInv

\* Every step of connHandler() is one, but the one that crashes.
LEMMA HandlerInv ==
    ASSUME RpcInv, ~ crashed, NEW c \in Calls, Handler(c)
    PROVE  RpcInv'
<1>0. /\ req \in [Calls -> {"none", "wire", "here", "read"}] /\ fd_ \subseteq Calls
      /\ [req EXCEPT ![c] = "read"][c] = "read"
      /\ srv[c] \in {"got", "ran", "sent"} => req[c] = "read"
      /\ c \in executed => srv[c] \in {"ran", "sent", "ended"}
      /\ srv[c] \in {"ran", "sent"} => c \in executed
      /\ c \in executed \cap responseStr => c \in resp \/ srv[c] = "ran"
  BY DEF RpcInv, RpcTypeOK, Answered
<1>1. CASE RecvReads(c)
  <2>1. HandlerStep(c, "got")
    BY <1>0, <1>1 DEF RecvReads, HandlerStep
  <2> QED
    BY <2>1, HandlerStepInv
<1>2. CASE RecvHolds(c)
  <2>1. HandlerStep(c, "held")
    BY <1>0, <1>2 DEF RecvHolds, HandlerStep
  <2> QED
    BY <2>1, HandlerStepInv
<1>3. CASE RecvResumes(c)
  <2>1. HandlerStep(c, "ended") \/ HandlerStep(c, "got")
    BY <1>0, <1>3 DEF RecvResumes, Ends, HandlerStep
  <2> QED
    BY <2>1, HandlerStepInv
<1>4. CASE Refuse(c)
  <2>1. HandlerStep(c, "ended")
    BY <1>0, <1>4 DEF Refuse, Ends, HandlerStep
  <2> QED
    BY <2>1, HandlerStepInv
<1>5. CASE MethodMissing(c)
  <2>1. /\ acc' \in {"none", "pending", "accept", "held"} /\ index' = index
        /\ crashed' \in BOOLEAN /\ UNCHANGED <<schedVars, kernel, cl, handlers>>
    BY <1>5 DEF MethodMissing, accepting, RpcInv, RpcTypeOK
  <2> QED
    BY <2>1, AccepterOnlyInv
<1>6. CASE Call(c)
  <2>1. HandlerStep(c, "ran")
    BY <1>0, <1>6 DEF Call, HandlerStep
  <2> QED
    BY <2>1, HandlerStepInv
<1>7. CASE Send(c)
  <2>1. executed' = executed /\ c \in executed
    BY <1>0, <1>7 DEF Send
  <2>2. resp' = resp \/ resp' = resp \cup {c}
    BY <1>7 DEF Send
  <2>3. HandlerStep(c, "sent")
    BY <1>0, <1>7, <2>1, <2>2 DEF Send, HandlerStep
  <2> QED
    BY <2>3, HandlerStepInv
<1>8. CASE Shutdown(c)
  <2>1. HandlerStep(c, "ended")
    BY <1>0, <1>8 DEF Shutdown, Ends, HandlerStep
  <2> QED
    BY <2>1, HandlerStepInv
<1> QED
  BY <1>1, <1>2, <1>3, <1>4, <1>5, <1>6, <1>7, <1>8 DEF Handler

-----------------------------------------------------------------------------
\* accept() gives a connection its handler and its processor.
LEMMA AcceptInv ==
    ASSUME RpcInv, ~ crashed, Accept
    PROVE  RpcInv'
<1> DEFINE c == Head(backlog)
<1>1. /\ backlog \in Seq(Calls) /\ backlog # <<>> /\ Len(backlog) \in Nat /\ Len(backlog) >= 1
      /\ c \in Calls /\ c = backlog[1] /\ backlog' = Tail(backlog)
  BY DEF RpcInv, RpcTypeOK, Accept
<1>2. /\ Len(backlog') = Len(backlog) - 1 /\ backlog' \in Seq(Calls)
      /\ \A i \in 1..Len(backlog') : backlog'[i] = backlog[i + 1]
  BY <1>1
<1>3. /\ index' = NextIndex /\ crashed' = PickedGone
      /\ proc_' = [proc_ EXCEPT ![c] = Picked]
      /\ srv' = [srv EXCEPT ![c] = "pending"]
      /\ open' = open \cup {c}
      /\ UNCHANGED schedVars
      /\ UNCHANGED <<acc, req, resp, fin, cl, fd_, executed, responseStr>>
  BY DEF Accept
<1> HIDE DEF c
<1>4. /\ srv[c] = "none" /\ cl[c] # "idle"
      /\ \A i \in 2..Len(backlog) : backlog[i] # c
  BY <1>1 DEF RpcInv, Backlog
<1>5. SchedInv' /\ started' = started /\ life' = life /\ OwnerEnded' = OwnerEnded
  BY <1>3, SchedFrame DEF RpcInv
<1>6. crashed' \in BOOLEAN
  BY <1>3 DEF PickedGone
<1>7. RpcTypeOK'
  <2>1. /\ proc_' \in [Calls -> Procs \cup {NoProc}]
        /\ srv' \in [Calls -> {"none", "pending", "held", "got", "ran", "sent", "ended"}]
        /\ open' \subseteq Calls
    BY <1>1, <1>3, PickIsValid DEF RpcInv, RpcTypeOK
  <2>2. index' \in 0..MaxWorkProcs
    BY <1>3, PickIsValid
  <2> QED
    BY <2>1, <2>2, <1>2, <1>3, <1>5, <1>6 DEF RpcInv, SchedInv, RpcTypeOK
<1>8. /\ \A d \in Calls : d # c => srv'[d] = srv[d] /\ proc_'[d] = proc_[d]
      /\ srv'[c] = "pending" /\ proc_'[c] = Picked
  BY <1>1, <1>3 DEF RpcInv, RpcTypeOK
<1>9. ASSUME NEW d \in Calls, Over(d)
      PROVE  d # c /\ Over(d)'
  <2>1. d # c
    BY <1>4, <1>9 DEF Over
  <2> QED
    BY <2>1, <1>5, <1>8, <1>9 DEF Over
<1>10. Backlog'
  <2>1. ASSUME NEW i \in 1..Len(backlog')
        PROVE  /\ i + 1 \in 2..Len(backlog) /\ i + 1 \in 1..Len(backlog)
               /\ backlog'[i] = backlog[i + 1] /\ backlog'[i] \in Calls
    BY <1>1, <1>2
  <2>2. ASSUME NEW i \in 1..Len(backlog')
        PROVE  srv'[backlog'[i]] = "none" /\ cl'[backlog'[i]] # "idle"
    <3>1. backlog'[i] # c
      BY <2>1, <1>4
    <3> QED
      BY <3>1, <2>1, <1>3, <1>8 DEF RpcInv, Backlog
  <2>3. ASSUME NEW i \in 1..Len(backlog'), NEW j \in 1..Len(backlog'), j # i
        PROVE  backlog'[j] # backlog'[i]
    <3>1. j + 1 # i + 1 /\ j + 1 \in 1..Len(backlog) /\ i + 1 \in 1..Len(backlog)
      BY <2>3, <2>1
    <3>2. backlog[j + 1] # backlog[i + 1]
      BY <3>1 DEF RpcInv, Backlog
    <3> QED
      BY <3>2, <2>1
  <2>4. \A d \in Calls : srv'[d] # "none" => cl'[d] # "idle"
    BY <1>3, <1>4, <1>8 DEF RpcInv, Backlog
  <2> QED
    BY <2>2, <2>3, <2>4 DEF Backlog
<1>11. Dealt'
  <2>1. ~ crashed' => Picked \in 0..started
    BY <1>3, PickIsValid DEF PickedGone
  <2>2. index' = 0 \/ index' < started'
    BY <1>3, <1>5, PickIsValid
  <2> QED
    BY <2>1, <2>2, <1>5, <1>8 DEF RpcInv, Dealt
<1>12. Closed'
  <2>1. ASSUME NEW d \in Calls, srv'[d] # "none", d \notin open'
        PROVE  Over(d)'
    BY <2>1, <1>3, <1>8, <1>9 DEF RpcInv, Closed
  <2>2. \A d \in fin' : srv'[d] = "ended"
    BY <1>3, <1>4, <1>8 DEF RpcInv, RpcTypeOK, Closed
  <2> QED
    BY <2>1, <2>2 DEF Closed
<1>13. Kept'
  BY <1>3, <1>5, <1>8 DEF RpcInv, Kept
<1>14. c \notin executed
  BY <1>4 DEF RpcInv, Answered
<1>15. Answered'
  BY <1>3, <1>8, <1>14 DEF RpcInv, RpcTypeOK, Answered
<1>16. Told'
  BY <1>3, <1>5, <1>8, <1>9, <1>14 DEF RpcInv, Told
<1> QED
  BY <1>5, <1>7, <1>10, <1>11, <1>12, <1>13, <1>15, <1>16 DEF RpcInv

\* start() and startAccept(), which may crash.
LEMMA AccepterInv ==
    ASSUME RpcInv, ~ crashed, Start \/ Accepter
    PROVE  RpcInv'
<1>1. mainProc_ \in BOOLEAN /\ crashed \in BOOLEAN
  BY DEF RpcInv, SchedInv, SchedTypeOK, RpcTypeOK
<1>2. CASE Start \/ AcceptBegins \/ AcceptHolds
  <2>1. /\ acc' \in {"none", "pending", "accept", "held"} /\ index' = index
        /\ UNCHANGED <<schedVars, kernel, cl, handlers>>
    BY <1>2 DEF Start, AcceptBegins, AcceptHolds
  <2>2. crashed' \in BOOLEAN
    BY <1>1, <1>2 DEF Start, AcceptBegins, AcceptHolds
  <2> QED
    BY <2>1, <2>2, AccepterOnlyInv
<1>3. CASE AcceptResumes
  <2>1. /\ acc' \in {"none", "pending", "accept", "held"} /\ index' \in {index, NextIndex}
        /\ UNCHANGED <<schedVars, kernel, cl, handlers>>
    BY <1>3 DEF AcceptResumes
  <2>2. crashed' \in BOOLEAN
    BY <1>1, <1>3 DEF AcceptResumes, PickedGone
  <2> QED
    BY <2>1, <2>2, AccepterOnlyInv
<1> QED
  BY <1>2, <1>3, AcceptInv DEF Accepter

\* run() ends with nothing runnable, and the processor's sockets go with it.
LEMMA EndingInv ==
    ASSUME RpcInv, ~ crashed, NEW p \in Procs, Ending(p)
    PROVE  RpcInv'
<1>1. CASE RunEnds(p)
  <2>1. SchedStep /\ UNCHANGED notSched
    BY <1>1 DEF RunEnds, SchedStep, notSched
  <2>2. \A q \in Procs : life[q] = "run" /\ life'[q] # "run" => NothingRunnable(q)
    BY <1>1 DEF RunEnds, ProcEnds, RpcInv, SchedInv, SchedTypeOK
  <2> QED
    BY <2>1, <2>2, SchedOnlyInv
<1>2. CASE Dies(p)
  <2>1. SchedStep
    BY <1>2 DEF Dies, SchedStep
  <2>2. SchedInv'
    BY <2>1, SchedStepInv DEF RpcInv
  <2>3. /\ life' = [life EXCEPT ![p] = "dead"] /\ started' = started /\ OwnerEnded' = OwnerEnded
        /\ crashed' = (p = Main /\ acc = "held" /\ PickedGone)
        /\ srv' = [c \in Calls |-> IF proc_[c] = p /\ srv[c] = "held" THEN "ended" ELSE srv[c]]
        /\ open' = {c \in open : proc_[c] # p}
        /\ UNCHANGED <<acc, index, backlog, req, resp, fin, cl, proc_, fd_, executed, responseStr>>
    BY <1>2 DEF Dies, ProcDies, DropSockets, OwnerEnded, built, owner, accepting, kernel
  <2>4. /\ crashed' \in BOOLEAN
        /\ srv' \in [Calls -> {"none", "pending", "held", "got", "ran", "sent", "ended"}]
        /\ open' \subseteq Calls
    BY <2>3 DEF RpcInv, RpcTypeOK
  <2>5. RpcTypeOK'
    BY <2>2, <2>3, <2>4 DEF RpcInv, SchedInv, RpcTypeOK
  <2>6. \A c \in Calls : /\ srv[c] = "none" <=> srv'[c] = "none"
                         /\ srv[c] = "ended" => srv'[c] = "ended"
    BY <2>3
  <2>7. \A c \in Calls : Over(c) => Over(c)'
    BY <2>3, <2>6 DEF RpcInv, SchedInv, SchedTypeOK, Over
  <2>8. Backlog'
    BY <2>3, <2>6 DEF RpcInv, RpcTypeOK, Backlog
  <2>9. Dealt'
    BY <2>3, <2>6 DEF RpcInv, Dealt
  <2>10. Closed'
    <3>1. ASSUME NEW c \in Calls, srv'[c] # "none", c \notin open'
          PROVE  Over(c)'
      <4>1. CASE c \notin open
        BY <4>1, <3>1, <2>6, <2>7 DEF RpcInv, Closed
      <4>2. CASE c \in open
        BY <4>2, <3>1, <2>3 DEF RpcInv, SchedInv, SchedTypeOK, Over
      <4> QED
        BY <4>1, <4>2
    <3>2. \A c \in fin' : srv'[c] = "ended"
      BY <2>3, <2>6 DEF RpcInv, RpcTypeOK, Closed
    <3> QED
      BY <3>1, <3>2 DEF Closed
  <2>11. \A c \in Calls : srv[c] # "held" => srv'[c] = srv[c]
    BY <2>3
  <2>12. \A q \in Procs : life[q] = "run" => life'[q] = "run"
    BY <1>2, <2>3 DEF Dies, ProcDies, RpcInv, SchedInv, SchedTypeOK
  <2>13. Kept'
    <3> SUFFICES ASSUME NEW c \in Calls, srv'[c] \in {"got", "ran", "sent"}
                 PROVE  proc_'[c] \in Procs /\ life'[proc_'[c]] = "run"
      BY DEF Kept
    <3>1. srv[c] = srv'[c]
      BY <2>3
    <3> QED
      BY <3>1, <2>3, <2>12 DEF RpcInv, Kept
  <2>14. Answered'
    BY <2>3, <2>11 DEF RpcInv, RpcTypeOK, Answered
  <2>15. Told'
    BY <2>3, <2>7 DEF RpcInv, Told
  <2> QED
    BY <2>2, <2>5, <2>8, <2>9, <2>10, <2>13, <2>14, <2>15 DEF RpcInv
<1> QED
  BY <1>1, <1>2 DEF Ending

-----------------------------------------------------------------------------
\* A new connection: the call has not been made before.
LEMMA ConnectInv ==
    ASSUME RpcInv, NEW c \in Calls, Connect(c)
    PROVE  RpcInv'
<1>1. /\ cl[c] = "idle" /\ cl' = [cl EXCEPT ![c] = "sent"]
      /\ backlog' = Append(backlog, c) /\ req' = [req EXCEPT ![c] = "wire"]
      /\ UNCHANGED schedVars
      /\ UNCHANGED <<acc, index, resp, fin, srv, proc_, open, fd_, executed,
                     responseStr, crashed>>
  BY DEF Connect, ClientGoes, accepting, handlers
<1>2. SchedInv' /\ started' = started /\ life' = life /\ OwnerEnded' = OwnerEnded
  BY <1>1, SchedFrame DEF RpcInv
<1>3. /\ backlog \in Seq(Calls) /\ backlog' \in Seq(Calls)
      /\ Len(backlog) \in Nat /\ Len(backlog') = Len(backlog) + 1
      /\ \A i \in 1..Len(backlog) : backlog'[i] = backlog[i] /\ backlog[i] \in Calls
      /\ backlog'[Len(backlog) + 1] = c
  BY <1>1 DEF RpcInv, RpcTypeOK
<1>4. RpcTypeOK'
  BY <1>1, <1>2, <1>3 DEF RpcInv, SchedInv, RpcTypeOK
<1>5. srv[c] = "none" /\ \A i \in 1..Len(backlog) : backlog[i] # c
  BY <1>1 DEF RpcInv, Backlog
<1>6. /\ \A d \in Calls : d # c => cl'[d] = cl[d]
      /\ cl'[c] = "sent"
  BY <1>1 DEF RpcInv, RpcTypeOK
<1>7. Backlog'
  <2>1. ASSUME NEW i \in 1..Len(backlog')
        PROVE  srv'[backlog'[i]] = "none" /\ cl'[backlog'[i]] # "idle"
    <3>1. CASE i \in 1..Len(backlog)
      BY <3>1, <1>1, <1>3, <1>5, <1>6 DEF RpcInv, Backlog
    <3>2. CASE i = Len(backlog) + 1
      BY <3>2, <1>1, <1>3, <1>5, <1>6
    <3> QED
      BY <3>1, <3>2, <1>3
  <2>2. ASSUME NEW i \in 1..Len(backlog'), NEW j \in 1..Len(backlog'), j # i
        PROVE  backlog'[j] # backlog'[i]
    BY <2>2, <1>3, <1>5 DEF RpcInv, Backlog
  <2>3. \A d \in Calls : srv'[d] # "none" => cl'[d] # "idle"
    BY <1>1, <1>6 DEF RpcInv, Backlog
  <2> QED
    BY <2>1, <2>2, <2>3 DEF Backlog
<1>8. \A d \in Calls : Over(d) => Over(d)'
  BY <1>1, <1>2 DEF Over
<1>9. Dealt' /\ Closed'
  BY <1>1, <1>2, <1>8 DEF RpcInv, Dealt, Closed
<1>10. c \notin executed /\ \A d \in Calls : d # c => req'[d] = req[d]
  BY <1>1, <1>5 DEF RpcInv, RpcTypeOK, Answered
<1>11. Kept' /\ Answered'
  BY <1>1, <1>2, <1>5, <1>10 DEF RpcInv, RpcTypeOK, Kept, Answered
<1>12. Told'
  BY <1>1, <1>2, <1>6, <1>8 DEF RpcInv, Told
<1> QED
  BY <1>2, <1>4, <1>7, <1>9, <1>11, <1>12 DEF RpcInv

\* The network and CallMethod(): a client that reads nothing talks to a
\* handler that is done for.
LEMMA ClientInv ==
    ASSUME RpcInv, NEW c \in Calls, Arrives(c) \/ Client(c)
    PROVE  RpcInv'
<1>1. /\ UNCHANGED schedVars
      /\ UNCHANGED <<acc, index, backlog, resp, fin, srv, proc_, open, fd_, executed,
                     responseStr, crashed>>
      /\ \/ cl' = cl /\ req' = [req EXCEPT ![c] = "here"]
         \/ req' = req /\ \E to \in {"ok", "empty", "failed"} : cl' = [cl EXCEPT ![c] = to]
  BY DEF Arrives, Client, Receives, ReceivesNothing, ReceivesReset, ClientGoes, accepting, handlers
<1>2. SchedInv' /\ started' = started /\ life' = life /\ OwnerEnded' = OwnerEnded
  BY <1>1, SchedFrame DEF RpcInv
<1>3. RpcTypeOK'
  BY <1>1, <1>2 DEF RpcInv, SchedInv, RpcTypeOK
<1>4. \A d \in Calls : cl'[d] = cl[d] \/ cl'[d] \in {"ok", "empty", "failed"}
  BY <1>1 DEF RpcInv, RpcTypeOK
<1>5. \A d \in Calls : Over(d) => Over(d)'
  BY <1>1, <1>2 DEF Over
<1>6. Backlog'
  <2>1. \A i \in 1..Len(backlog) : backlog[i] \in Calls
    BY DEF RpcInv, RpcTypeOK
  <2>2. \A d \in Calls : cl[d] # "idle" => cl'[d] # "idle"
    BY <1>4
  <2> QED
    BY <2>1, <2>2, <1>1 DEF RpcInv, Backlog
<1>7. Dealt' /\ Closed'
  BY <1>1, <1>2, <1>5 DEF RpcInv, Dealt, Closed
<1>8. ASSUME NEW d \in Calls, cl'[d] # cl[d]
      PROVE  /\ cl'[d] = "ok" => d \in resp
             /\ cl'[d] = "empty" => d \notin resp /\ (d \in fin \/ Gone(d))
             /\ cl'[d] = "failed" => req[d] # "read" /\ Gone(d)
  BY <1>8 DEF RpcInv, RpcTypeOK, Arrives, Client, Receives, ReceivesNothing, ReceivesReset,
              ClientGoes
<1>9. \A d \in Calls : d \in fin \/ Gone(d) => Over(d) \/ OwnerEnded
  BY DEF RpcInv, Closed, Over, Gone
<1>10. ASSUME NEW d \in Calls, srv[d] = "ran", Over(d) \/ OwnerEnded
       PROVE  crashed
  <2> SUFFICES ASSUME ~ crashed PROVE FALSE
    OBVIOUS
  <2>1. proc_[d] \in 0..started /\ life[proc_[d]] = "run"
    BY <1>10 DEF RpcInv, Kept, Dealt
  <2>2. ~ Over(d)
    BY <2>1, <1>10 DEF Over
  <2>3. ~ OwnerEnded
    BY <2>1 DEF RpcInv, SchedInv, Stopping, Joined
  <2> QED
    BY <2>2, <2>3, <1>10
<1>11. Kept'
  BY <1>1, <1>2 DEF RpcInv, Kept
<1>12. Answered'
  <2>1. \A d \in Calls : req[d] = "read" => req'[d] = "read"
    BY DEF RpcInv, RpcTypeOK, Arrives, Client, Receives, ReceivesNothing, ReceivesReset,
           ClientGoes
  <2> QED
    BY <2>1, <1>1 DEF RpcInv, Answered
<1>13. Told'
  <2>1. ASSUME NEW d \in Calls
        PROVE  /\ cl'[d] = "ok" => d \in executed
               /\ cl'[d] = "failed" => d \notin executed
               /\ cl'[d] = "empty" /\ d \in executed =>
                     d \notin responseStr \/ (crashed /\ srv[d] = "ran")
               /\ cl'[d] \in {"empty", "failed"} => Over(d) \/ OwnerEnded
    <3>1. CASE cl'[d] = cl[d]
      BY <3>1 DEF RpcInv, Told
    <3>2. CASE cl'[d] # cl[d]
      BY <3>2, <1>8, <1>9, <1>10 DEF RpcInv, Answered
    <3> QED
      BY <3>1, <3>2
  <2> QED
    BY <2>1, <1>1, <1>2, <1>5 DEF Told
<1> QED
  BY <1>2, <1>3, <1>6, <1>7, <1>11, <1>12, <1>13 DEF RpcInv

-----------------------------------------------------------------------------
\* Every step keeps the invariant, and so does none.
LEMMA RpcNextInv ==
    ASSUME RpcInv, [RpcNext]_rpcVars
    PROVE  RpcInv'
<1>1. ASSUME UNCHANGED rpcVars
      PROVE  RpcInv'
  <2>1. /\ UNCHANGED <<schedVars, kernel, cl, handlers>> /\ UNCHANGED <<acc, index, crashed>>
    BY <1>1 DEF rpcVars, accepting
  <2>2. SchedInv' /\ started' = started /\ life' = life /\ OwnerEnded' = OwnerEnded
    BY <2>1, SchedFrame DEF RpcInv
  <2>3. UNCHANGED <<backlog, req, resp, fin, cl, srv, proc_, open, fd_, executed, responseStr>>
    BY <2>1 DEF kernel, handlers
  <2>4. RpcTypeOK'
    BY <2>1, <2>2, <2>3 DEF RpcInv, SchedInv, RpcTypeOK
  <2>5. Backlog' /\ Dealt'
    BY <2>1, <2>2, <2>3 DEF RpcInv, Backlog, Dealt
  <2>6. Closed' /\ Told'
    BY <2>1, <2>2, <2>3 DEF RpcInv, Closed, Told, Over
  <2>7. Kept' /\ Answered'
    BY <2>1, <2>2, <2>3 DEF RpcInv, Kept, Answered
  <2> QED
    BY <2>2, <2>4, <2>5, <2>6, <2>7 DEF RpcInv
<1>2. ASSUME NEW c \in Calls, Connect(c) \/ Arrives(c) \/ Client(c)
      PROVE  RpcInv'
  BY <1>2, ConnectInv, ClientInv
<1>3. ASSUME ~ crashed, NEW c \in Calls, Handler(c)
      PROVE  RpcInv'
  BY <1>3, HandlerInv
<1>4. ASSUME ~ crashed, NEW p \in Procs, ProcessThread(p) \/ Ending(p)
      PROVE  RpcInv'
  <2>1. CASE ProcessThread(p)
    <3>1. SchedStep /\ UNCHANGED notSched
      BY <2>1 DEF ProcessThread, SchedStep
    <3>2. \A q \in Procs : life[q] = "run" => life'[q] = "run"
      BY <2>1 DEF ProcessThread, Publish, ProcRun, RpcInv, SchedInv, SchedTypeOK
    <3> QED
      BY <3>1, <3>2, SchedOnlyInv
  <2> QED
    BY <2>1, <1>4, EndingInv
<1>5. ASSUME \/ StartAsync \/ Starter \/ Owner \/ SpuriousWakeup \/ Destroy \/ Stopper
             \/ \E p \in Procs \cup {NoProc} : Stop(p),
             UNCHANGED notSched
      PROVE  RpcInv'
  <2>1. SchedStep
    BY <1>5 DEF SchedStep
  <2>2. \A q \in Procs : life[q] = "run" => life'[q] = "run"
    <3> SUFFICES ASSUME NEW q \in Procs, life[q] = "run" PROVE life'[q] = "run"
      OBVIOUS
    <3> QED
      BY <1>5, RunsOn DEF RpcInv
  <2> QED
    BY <2>1, <2>2, <1>5, SchedOnlyInv
<1> QED
  BY <1>1, <1>2, <1>3, <1>4, <1>5, AccepterInv DEF RpcNext

\* The invariant holds in every reachable state.
THEOREM RpcInvariant == RpcSpec => []RpcInv
<1>1. RpcInit => RpcInv
  BY RpcInitInv
<1>2. RpcInv /\ [RpcNext]_rpcVars => RpcInv'
  BY RpcNextInv
<1> QED
  BY <1>1, <1>2, PTL DEF RpcSpec

\* While running_ is set, pickOneWorkProcessor() has a live processor to return.
THEOREM RunningIsAlwaysComplete == RpcSpec => []RunningIsComplete
<1>1. RpcInv => RunningIsComplete
  <2> SUFFICES ASSUME RpcInv, running_
               PROVE  mainProc_ /\ started = workProcNum_ /\ AllUp
    BY DEF RpcInv, RunningIsComplete, AllUp
  <2>1. kpc = "none" /\ spc \in {"notify", "run"}
    BY DEF RpcInv, SchedInv, SchedTypeOK, Building, Stopping
  <2> QED
    BY <2>1 DEF RpcInv, SchedInv, Building
<1> QED
  BY <1>1, RpcInvariant, PTL

\* wait() returns only when every processor has been destroyed.
THEOREM WaitedForAllAlways == RpcSpec => []WaitedForAll
<1>1. RpcInv => WaitedForAll
  BY DEF RpcInv, SchedInv, Stopping, WaitedForAll, Joined
<1> QED
  BY <1>1, RpcInvariant, PTL

\* A client that got a response had its method executed; one whose recv() failed
\* had not and never will; and one that got no bytes had not, unless the response
\* has none or the server crashed before it could send it.
THEOREM AnswerIsAlwaysTrue == RpcSpec => []AnswerIsTrue
<1>1. RpcInv => AnswerIsTrue
  BY DEF RpcInv, Told, AnswerIsTrue
<1> QED
  BY <1>1, RpcInvariant, PTL
=============================================================================
