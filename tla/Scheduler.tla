----------------------------- MODULE Scheduler -----------------------------
(***************************************************************************)
(* burger/net/Scheduler.cc and ProcessorThread.cc: one main processor and  *)
(* workProcNum_ work processors, each in a thread of its own.  The owner   *)
(* calls startAsync() and wait() and destroys the scheduler; a thread or a *)
(* coroutine calls stop().  A Processor is reduced to its life and stop_,  *)
(* see module Processor; timers and distributeTask() are left out.         *)
(***************************************************************************)
EXTENDS Naturals

CONSTANTS MaxWorkProcs,     \* most that setWorkProcNum() may have been given
          NoProc

Main == 0
Procs == 0..MaxWorkProcs

ASSUME SchedAssumption == MaxWorkProcs \in Nat /\ NoProc \notin Procs

VARIABLES workProcNum_, running_, quit_, mainProc_,
          started,          \* workProcVec_ is 1..started
          life,             \* of each processor: "none", its "thread" runs, it is "made",
                            \* in "run", has "ended" run(), or is "dead"
          stop_,            \* of each processor
          spc,              \* thread_ in start(): "none", "make", "spawn", "notify", "run"
          opc,              \* the owner: see below
          kpc, caller,      \* where stop() and joinThread() are; the processor whose
                            \* coroutine called stop(), or NoProc
          stopped,          \* processors stop() has stopped: 0, 1, ...
          lost              \* a notification fell between a test and its wait

flags == <<running_, quit_>>
built == <<workProcNum_, started, mainProc_, spc>>
procs == <<life, stop_>>
owner == <<opc, lost>>
stopping == <<kpc, caller, stopped>>
schedVars == <<flags, built, procs, owner, stopping>>

OwnerPlaces == {"idle", "test", "block", "asleep", "go", "quitTest", "quitBlock",
                "quitAsleep", "done", "destroyed", "terminated"}

SchedTypeOK ==
    /\ workProcNum_ \in 0..MaxWorkProcs /\ started \in 0..workProcNum_
    /\ {running_, quit_, mainProc_, lost} \subseteq BOOLEAN
    /\ life \in [Procs -> {"none", "thread", "made", "run", "ended", "dead"}]
    /\ stop_ \in [Procs -> BOOLEAN]
    /\ spc \in {"none", "make", "spawn", "notify", "run"} /\ opc \in OwnerPlaces
    /\ kpc \in {"none", "stop", "join", "notify", "returned"} /\ stopped \in Nat
    /\ caller \in Procs \cup {NoProc}

SchedInit ==
    /\ workProcNum_ \in 0..MaxWorkProcs
    /\ running_ = FALSE /\ quit_ = FALSE /\ mainProc_ = FALSE /\ lost = FALSE
    /\ started = 0 /\ stopped = 0 /\ caller = NoProc
    /\ spc = "none" /\ opc = "idle" /\ kpc = "none"
    /\ life = [p \in Procs |-> "none"] /\ stop_ = [p \in Procs |-> FALSE]

-----------------------------------------------------------------------------
(* start(), and the threads it begins.                                     *)

\* Processor mainProc(this)
MakeMain ==
    /\ spc = "make" /\ spc' = "spawn"
    /\ mainProc_' = TRUE /\ life' = [life EXCEPT ![Main] = "made"]
    /\ UNCHANGED <<flags, workProcNum_, started, stop_, owner, stopping>>

\* startProcess() begins the thread of the next worker ...
StartProcess ==
    /\ spc = "spawn" /\ started < workProcNum_ /\ life[started + 1] = "none"
    /\ life' = [life EXCEPT ![started + 1] = "thread"]
    /\ UNCHANGED <<flags, built, stop_, owner, stopping>>

\* ... threadFunc() makes a Processor and publishes proc_ under mutex_ ...
Publish(p) ==
    /\ life[p] = "thread" /\ life' = [life EXCEPT ![p] = "made"]
    /\ UNCHANGED <<flags, built, stop_, owner, stopping>>

\* The worker is entered without waiting for it.
PushUnpublished == life[started + 1] # "none"

\* ... and startProcess() returns it.
Published == life[started + 1] \notin {"none", "thread"}

PushWorker ==
    /\ spc = "spawn" /\ started < workProcNum_ /\ Published
    /\ started' = started + 1
    /\ UNCHANGED <<flags, workProcNum_, mainProc_, spc, procs, owner, stopping>>

\* running_ = true, without mutex_
SetRunning ==
    /\ spc = "spawn" /\ started = workProcNum_
    /\ running_' = TRUE /\ spc' = "notify"
    /\ UNCHANGED <<quit_, workProcNum_, started, mainProc_, procs, owner, stopping>>

\* notify_one(): the owner sleeps, or has tested and does not sleep yet, or
\* has not tested.
Notified(block, asleep, test) ==
    /\ opc' = IF opc = asleep THEN test ELSE opc
    /\ lost' = (lost \/ opc = block)

\* cv_.notify_one()
NotifyRunning ==
    /\ spc = "notify" /\ spc' = "run"
    /\ Notified("block", "asleep", "test")
    /\ UNCHANGED <<flags, workProcNum_, started, mainProc_, procs, stopping>>

\* Processor::run() begins: stop_ = false.
ProcRun(p) ==
    /\ life[p] = "made" /\ (p = Main => spc = "run")
    /\ life' = [life EXCEPT ![p] = "run"] /\ stop_' = [stop_ EXCEPT ![p] = FALSE]
    /\ UNCHANGED <<flags, built, owner, stopping>>

\* The coroutine that called stop() is still in it.
InStop(p) == caller = p

\* run() ends ...
ProcEnds(p) ==
    /\ life[p] = "run" /\ stop_[p] /\ ~ InStop(p)
    /\ life' = [life EXCEPT ![p] = "ended"]
    /\ UNCHANGED <<flags, built, stop_, owner, stopping>>

\* ... and the processor is destroyed at the end of its thread.
ProcDies(p) ==
    /\ life[p] = "ended" /\ life' = [life EXCEPT ![p] = "dead"]
    /\ UNCHANGED <<flags, built, stop_, owner, stopping>>

-----------------------------------------------------------------------------
(* The owner: startAsync(), wait(), ~Scheduler().                          *)

OwnerGoes(from, to) ==
    /\ opc = from /\ opc' = to
    /\ UNCHANGED <<flags, workProcNum_, started, mainProc_, procs, lost, stopping>>

StartAsync == OwnerGoes("idle", "test") /\ spc' = "make"

\* wait(lock, running_ == true): the predicate is tested under mutex_, which
\* nobody holds who changes it.
TestRunning == OwnerGoes("test", IF running_ THEN "go" ELSE "block") /\ UNCHANGED spc

TestQuit == OwnerGoes("quitTest", IF quit_ THEN "done" ELSE "quitBlock") /\ UNCHANGED spc

FallAsleep ==
    /\ OwnerGoes("block", "asleep") \/ OwnerGoes("quitBlock", "quitAsleep")
    /\ UNCHANGED spc

SpuriousWakeup ==
    /\ OwnerGoes("asleep", "test") \/ OwnerGoes("quitAsleep", "quitTest")
    /\ UNCHANGED spc

\* wait() is called.
Wait == OwnerGoes("go", "quitTest") /\ UNCHANGED spc

\* ~Scheduler(): stop() returns at once, ~ProcessThread() joins a thread that
\* joinThread() has joined, which throws in a destructor.
Destroy ==
    /\ OwnerGoes("done", IF workProcNum_ > 0 THEN "terminated" ELSE "destroyed")
    /\ UNCHANGED spc

-----------------------------------------------------------------------------
(* stop() and joinThread().                                                *)

\* stop() by another thread or by a coroutine of c
Stop(c) ==
    /\ kpc = "none" /\ running_ /\ (c # NoProc => life[c] = "run")
    /\ kpc' = "stop" /\ caller' = c /\ running_' = FALSE
    /\ UNCHANGED <<quit_, built, procs, owner, stopped>>

\* Processor::stop() of the main processor, mainProc_ = nullptr, and then of
\* each worker
StopNext ==
    /\ kpc = "stop" /\ stopped <= started
    /\ stop_' = [stop_ EXCEPT ![stopped] = TRUE]
    /\ mainProc_' = FALSE /\ stopped' = stopped + 1
    /\ UNCHANGED <<flags, workProcNum_, started, spc, life, owner, kpc, caller>>

\* A coroutine joins its own thread.
StopJoins ==
    /\ kpc = "stop" /\ stopped = started + 1
    /\ kpc' = "join"
    /\ UNCHANGED <<flags, built, procs, owner, caller, stopped>>

\* A coroutine that called stop() leaves joinThread() to a detached thread.
StopReturns ==
    /\ kpc = "stop" /\ stopped = started + 1
    /\ kpc' = "join" /\ caller' = NoProc
    /\ UNCHANGED <<flags, built, procs, owner, stopped>>

\* The workers are not joined.
JoinMain == life[Main] = "dead"

\* thread_.join() and join() of the workers have returned.
Joined == \A p \in 0..started : life[p] = "dead"

\* quit_ = true, without mutex_
JoinThread ==
    /\ kpc = "join" /\ Joined
    /\ quit_' = TRUE /\ kpc' = "notify"
    /\ UNCHANGED <<running_, built, procs, owner, caller, stopped>>

\* quitCv_.notify_one()
NotifyQuit ==
    /\ kpc = "notify" /\ kpc' = "returned"
    /\ Notified("quitBlock", "quitAsleep", "quitTest")
    /\ UNCHANGED <<flags, built, procs, caller, stopped>>

=============================================================================
