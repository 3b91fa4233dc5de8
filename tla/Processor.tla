----------------------------- MODULE Processor -----------------------------
(***************************************************************************)
(* burger/net/Processor.cc with Coroutine.cc, CoEpoll.cc and Hook.cc: one  *)
(* thread that resumes coroutines from a run queue and polls epoll when    *)
(* the queue is empty.  Blocking calls of a coroutine are hooked: they     *)
(* register the fd, hold the coroutine and yield.  Two coroutines belong   *)
(* to the processor, one that reads the eventfd other threads wake it by,  *)
(* one that reads the timerfd and resumes sleepers.                        *)
(*                                                                         *)
(* User code keeps to what coMap_ can express: a coroutine blocks on one   *)
(* fd, an fd has one coroutine, and who sleeps has no fd registered.       *)
(* Time is abstracted, see module TimerQueue: the sleepers are in the      *)
(* order of their expiration, and resetTimerfd() may come too late for the *)
(* first of them.  Timers with callbacks are left out.  So are the         *)
(* destructor and the reuse of the epoll coroutine, which run() puts       *)
(* behind all idle ones when poll() returns.                               *)
(***************************************************************************)
EXTENDS Naturals, FiniteSets, SequencesExt

CONSTANTS Threads,          \* other threads
          Tasks, NoTask,    \* each is added once
          Workers, NoCo,    \* the coroutines created in advance
          Socks, NoFd       \* fds tasks block on

\* The names of the processor's own two coroutines and of what they run.
Wake == "Wake"
timerQue == "timerQue"
Own == {Wake, timerQue}
wakeupFd_ == "wakeupFd_"
timerfd_ == "timerfd_"

Cos == Workers \cup Own
Fds == Socks \cup {wakeupFd_, timerfd_}

ASSUME ProcAssumption ==
    /\ IsFiniteSet(Workers)
    /\ NoCo \notin Cos /\ NoFd \notin Fds /\ NoTask \notin Tasks \cup Own
    /\ Own \cap (Workers \cup Tasks) = {} /\ {wakeupFd_, timerfd_} \cap Socks = {}

VARIABLES stop_, runnableCoQue_, idleCoQue_, pendingTasks_, isEpolling_,
          coMap_,           \* NoCo if the fd is not there
          state_, fd_,      \* of each coroutine
          body,             \* its cb_
          at,               \* where it is: in "user" code, at the "top" of its
                            \* loop, about to "read" io, "resumed" in ioHook(),
                            \* about to "deal" with expired timers, or "aborted"
          io,               \* the fd it reads or writes
          ppc, cur,         \* where the thread is in run(), and its cur
          sleepers,         \* timers_ of sleeping coroutines
          armed,            \* the timerfd is "off", "on" for the first sleeper, or
                            \* "wrapped": armed for a past time, it will not expire
          readable,         \* fds that are ready
          pc,               \* where another thread is in addTask() or stop()
          added             \* tasks added so far

coVars == <<state_, fd_, body, at, io>>
queueVars == <<runnableCoQue_, idleCoQue_, pendingTasks_>>
epollVars == <<isEpolling_, coMap_>>
timerVars == <<sleepers, armed>>
outside == <<pc, added>>
procVars == <<stop_, queueVars, epollVars, coVars, ppc, cur, timerVars, readable,
              outside>>

ProcTypeOK ==
    /\ {stop_, isEpolling_} \subseteq BOOLEAN /\ armed \in {"off", "on", "wrapped"}
    /\ {runnableCoQue_, idleCoQue_, sleepers} \subseteq Seq(Cos)
    /\ pendingTasks_ \in Seq(Tasks) /\ added \subseteq Tasks
    /\ coMap_ \in [Fds -> Cos \cup {NoCo}] /\ readable \subseteq Fds
    /\ state_ \in [Cos -> {"EXEC", "HOLD", "TERM"}]
    /\ fd_ \in [Cos -> Fds \cup {NoFd}] /\ io \in [Cos -> Fds \cup {NoFd}]
    /\ body \in [Cos -> Tasks \cup Own \cup {NoTask}]
    /\ at \in [Cos -> {"user", "top", "read", "resumed", "deal", "aborted"}]
    /\ ppc \in {"before", "while", "epoll", "poll", "wait", "co", "after", "ended"}
    /\ cur \in Cos \cup {NoCo}
    /\ pc \in [Threads -> {"idle", "test", "write"}]

\* Processor(): its two coroutines are runnable, the others idle.
ProcInit ==
    /\ stop_ = FALSE /\ isEpolling_ = FALSE
    /\ runnableCoQue_ = <<Wake, timerQue>>
    /\ idleCoQue_ = SetToSeq(Workers)
    /\ pendingTasks_ = <<>> /\ coMap_ = [f \in Fds |-> NoCo]
    /\ state_ = [c \in Cos |-> IF c \in Workers THEN "TERM" ELSE "EXEC"]
    /\ fd_ = [c \in Cos |-> NoFd]
    /\ body = [c \in Cos |-> IF c \in Workers THEN NoTask ELSE c]
    /\ at = [c \in Cos |-> IF c \in Workers THEN "user" ELSE "top"]
    /\ io = [c \in Cos |-> CASE c = Wake -> wakeupFd_ [] c = timerQue -> timerfd_ [] OTHER -> NoFd]
    /\ ppc = "before" /\ cur = NoCo
    /\ sleepers = <<>> /\ armed = "off" /\ readable = {}
    /\ pc = [t \in Threads |-> "idle"] /\ added = {}

\* Bound: no more tasks at a time than there are coroutines for them.
MayAdd(k) == k \notin added /\ Len(pendingTasks_) < Len(idleCoQue_)

\* howMuchTimeFromNow(): the time resetTimerfd() is called for may have passed
\* since it was computed or looked at; the difference then wraps to centuries.
ResetTimerfd == {"on", "wrapped"}

\* No assertion has failed.
Alive == at[timerQue] # "aborted"

-----------------------------------------------------------------------------
(* Other threads.                                                          *)

\* addPendingTask(): under mutex_ ...
AddPendingTask(t, k) ==
    /\ Alive /\ pc[t] = "idle" /\ MayAdd(k)
    /\ added' = added \cup {k}
    /\ pendingTasks_' = Append(pendingTasks_, k)
    /\ pc' = [pc EXCEPT ![t] = "test"]
    /\ UNCHANGED <<stop_, runnableCoQue_, idleCoQue_, epollVars, coVars, ppc, cur,
                   timerVars, readable>>

\* stop()
Stop(t) ==
    /\ Alive /\ pc[t] = "idle" /\ ~ stop_
    /\ stop_' = TRUE
    /\ pc' = [pc EXCEPT ![t] = "test"]
    /\ UNCHANGED <<queueVars, epollVars, coVars, ppc, cur, timerVars, readable, added>>

\* if(epoll_.isEpolling()), in both
TestEpolling(t) ==
    /\ Alive /\ pc[t] = "test"
    /\ pc' = [pc EXCEPT ![t] = IF isEpolling_ THEN "write" ELSE "idle"]
    /\ UNCHANGED <<stop_, queueVars, epollVars, coVars, ppc, cur, timerVars, readable,
                   added>>

\* wakeupEpollCo()
WakeupEpollCo(t) ==
    /\ Alive /\ pc[t] = "write"
    /\ readable' = readable \cup {wakeupFd_}
    /\ pc' = [pc EXCEPT ![t] = "idle"]
    /\ UNCHANGED <<stop_, queueVars, epollVars, coVars, ppc, cur, timerVars, added>>

-----------------------------------------------------------------------------
(* run() and poll().                                                       *)

\* run() begins: stop_ = false.
Run ==
    /\ ppc = "before" /\ ppc' = "while"
    /\ stop_' = FALSE
    /\ UNCHANGED <<queueVars, epollVars, coVars, cur, timerVars, readable, outside>>

\* while(!stop_ || !runnableCoQue_.empty()); the last resume() of the epoll
\* coroutine only lets poll() return.
WhileTest ==
    /\ ppc = "while"
    /\ IF runnableCoQue_ # <<>>
       THEN /\ cur' = Head(runnableCoQue_) /\ runnableCoQue_' = Tail(runnableCoQue_)
            /\ ppc' = "co"
       ELSE /\ ppc' = IF stop_ THEN "ended" ELSE "epoll"
            /\ UNCHANGED <<cur, runnableCoQue_>>
    /\ UNCHANGED <<stop_, idleCoQue_, pendingTasks_, epollVars, coVars, timerVars,
                   readable, outside>>

\* The epoll coroutine is to be resumed: setEpolling(true).
SetEpolling ==
    /\ ppc = "epoll" /\ ppc' = "poll"
    /\ isEpolling_' = TRUE
    /\ UNCHANGED <<stop_, queueVars, coMap_, coVars, cur, timerVars, readable, outside>>

\* A poll() that waits without looking at stop_ again.
PollTestNothing ==
    /\ ppc = "poll" /\ ppc' = "wait"
    /\ UNCHANGED <<stop_, queueVars, epollVars, coVars, cur, timerVars, readable, outside>>

\* poll(): while(!proc_->stoped()), isEpolling_ = true.
PollTest ==
    /\ ppc = "poll"
    /\ ppc' = IF stop_ THEN "after" ELSE "wait"
    /\ UNCHANGED <<stop_, queueVars, epollVars, coVars, cur, timerVars, readable, outside>>

Reported == {f \in readable : coMap_[f] # NoCo}

\* epoll_wait() returns: addTask() for every event, in any order.
WaitReturns ==
    /\ ppc = "wait" /\ Reported # {}
    /\ isEpolling_' = FALSE
    /\ \E s \in SetToSeqs({coMap_[f] : f \in Reported}) : runnableCoQue_' = runnableCoQue_ \o s
    /\ state_' = [c \in Cos |-> IF \E f \in Reported : coMap_[f] = c THEN "EXEC" ELSE state_[c]]
    /\ ppc' = "after"
    /\ UNCHANGED <<stop_, idleCoQue_, pendingTasks_, coMap_, fd_, body, at, io, cur, timerVars,
                   readable, outside>>

\* ... or kEpollTimeMs have passed.
WaitTimesOut ==
    /\ ppc = "wait" /\ Reported = {}
    /\ isEpolling_' = FALSE /\ ppc' = "after"
    /\ UNCHANGED <<stop_, queueVars, coMap_, coVars, cur, timerVars, readable, outside>>

-----------------------------------------------------------------------------
(* After resume(), and what coroutines do.                                 *)

\* resetAndGetCo() and addTask() for each of the tasks ks
Starts(ks, idle) ==
    LET cs == SubSeq(idle, 1, Len(ks))
        new == Range(cs)
    IN  /\ idleCoQue_' = SubSeq(idle, Len(ks) + 1, Len(idle))
        /\ runnableCoQue_' = runnableCoQue_ \o cs
        /\ state_' = [c \in Cos |-> IF c \in new THEN "EXEC" ELSE state_[c]]
        /\ body' = [c \in Cos |-> IF c \in new THEN ks[CHOOSE i \in 1..Len(ks) : cs[i] = c]
                                  ELSE body[c]]
        /\ at' = [c \in Cos |-> IF c \in new THEN "user" ELSE at[c]]
        /\ io' = [c \in Cos |-> IF c \in new THEN NoFd ELSE io[c]]

Ended == cur # NoCo /\ state_[cur] = "TERM"

\* The processor recycles whatever it has resumed.
IdleAlways == IF cur # NoCo THEN Append(idleCoQue_, cur) ELSE idleCoQue_

\* idleCoQue_.push(cur) if it has ended
IdleThen == IF Ended THEN Append(idleCoQue_, cur) ELSE idleCoQue_

\* The event of an ended coroutine stays in coMap_.
KeepEvent == UNCHANGED <<coMap_, fd_>>

\* removeEvent(cur->getFd()) if it has ended
RemoveEvent ==
    /\ coMap_' = [f \in Fds |-> IF Ended /\ f = fd_[cur] THEN NoCo ELSE coMap_[f]]
    /\ fd_' = IF Ended THEN [fd_ EXCEPT ![cur] = NoFd] ELSE fd_

\* Pending tasks are taken only when a coroutine has ended.
TakenWhenEnded == IF Ended THEN pendingTasks_ ELSE <<>>

\* tasks.swap(pendingTasks_)
Taken == pendingTasks_

\* resume() has returned: recycle and addPendingTasksIntoQueue().
AfterResume ==
    /\ ppc = "after" /\ ppc' = "while" /\ cur' = NoCo
    /\ RemoveEvent
    /\ Starts(Taken, IdleThen)
    /\ pendingTasks_' = SubSeq(pendingTasks_, Len(Taken) + 1, Len(pendingTasks_))
    /\ UNCHANGED <<stop_, isEpolling_, timerVars, readable, outside>>

\* The current coroutine is at l.
Runs(l) == ppc = "co" /\ cur # NoCo /\ at[cur] = l
OwnRuns(l) == Runs(l) /\ body[cur] \in Own
UserRuns == Runs("user") /\ body[cur] \in Tasks

\* RunInCo(): cb_ has returned.
Terminates ==
    /\ state_' = [state_ EXCEPT ![cur] = "TERM"]
    /\ body' = [body EXCEPT ![cur] = NoTask]
    /\ ppc' = "after"
    /\ UNCHANGED <<stop_, queueVars, epollVars, fd_, at, io, cur, timerVars, readable,
                   outside>>

\* Where the code continues that had called read() or write().
Continues == CASE body[cur] = Wake -> "top" [] body[cur] = timerQue -> "deal" [] OTHER -> "user"

GoesTo(l) ==
    /\ at' = [at EXCEPT ![cur] = l]
    /\ UNCHANGED <<stop_, queueVars, epollVars, state_, fd_, body, io, ppc, cur,
                   timerVars, outside>>

\* updateEvent(f), setState(HOLD), Yield()
Holds(f, l) ==
    /\ coMap_' = [coMap_ EXCEPT ![f] = IF @ = NoCo THEN cur ELSE @]
    /\ fd_' = IF coMap_[f] = NoCo THEN [fd_ EXCEPT ![cur] = f] ELSE fd_
    /\ state_' = [state_ EXCEPT ![cur] = "HOLD"]
    /\ at' = [at EXCEPT ![cur] = l]
    /\ ppc' = "after"
    /\ UNCHANGED <<stop_, queueVars, isEpolling_, body, cur, timerVars, readable, outside>>

\* while(!stop_) of the processor's own coroutines
LoopEnds == OwnRuns("top") /\ stop_ /\ Terminates
LoopGoesOn == OwnRuns("top") /\ ~ stop_ /\ GoesTo("read") /\ UNCHANGED readable

\* ioHook(): origin_func() succeeds ...
ReadSome ==
    /\ Runs("read") /\ io[cur] \in readable
    /\ readable' = readable \ {io[cur]}
    /\ GoesTo(Continues)

\* ... or has to wait.
ReadHolds ==
    /\ Runs("read") /\ io[cur] \notin readable
    /\ Holds(io[cur], "resumed")
    /\ UNCHANGED io

\* if(proc->stoped()) return 8; goto retry
Resumed ==
    /\ Runs("resumed")
    /\ GoesTo(IF stop_ THEN Continues ELSE "read")
    /\ UNCHANGED readable

\* dealWithExpiredTimer() after readTimerfd(): the first n timers have
\* expired (without assertions maybe none, see DealAborts), and the timerfd is
\* armed for the next one.
Deal ==
    /\ Runs("deal")
    /\ at' = [at EXCEPT ![cur] = "top"]
    /\ \/ /\ stop_
          /\ UNCHANGED <<runnableCoQue_, state_, timerVars>>
       \/ \E n \in 0..Len(sleepers) :
             LET due == SubSeq(sleepers, 1, n)
             IN  /\ ~ stop_
                 /\ runnableCoQue_' = runnableCoQue_ \o due
                 /\ state_' = [c \in Cos |-> IF c \in Range(due) THEN "EXEC" ELSE state_[c]]
                 /\ sleepers' = SubSeq(sleepers, n + 1, Len(sleepers))
                 /\ armed' \in IF n < Len(sleepers) THEN ResetTimerfd ELSE {armed}
    /\ UNCHANGED <<stop_, idleCoQue_, pendingTasks_, epollVars, fd_, body, io, ppc, cur,
                   readable, outside>>

\* A timer expires exactly now: getExpiredList() takes those before now and
\* asserts that the rest are later.
DealAborts ==
    /\ Runs("deal") /\ ~ stop_ /\ sleepers # <<>>
    /\ GoesTo("aborted")
    /\ UNCHANGED readable

\* A task returns.
UserEnds == UserRuns /\ Terminates

MayWaitFor(f) == fd_[cur] \in {NoFd, f} /\ coMap_[f] \in {NoCo, cur}

\* A task calls read(), write() or another hooked call on s.
UserIo(s) ==
    /\ UserRuns /\ MayWaitFor(s)
    /\ io' = [io EXCEPT ![cur] = s] /\ at' = [at EXCEPT ![cur] = "read"]
    /\ UNCHANGED <<stop_, queueVars, epollVars, state_, fd_, body, ppc, cur, timerVars,
                   readable, outside>>

\* A task calls connect(), which is in progress and does not retry.
UserConnects(s) ==
    /\ UserRuns /\ MayWaitFor(s)
    /\ Holds(s, "user")
    /\ io' = [io EXCEPT ![cur] = s]

\* A task calls sleep(): a timer at place n, not before one that has expired;
\* the timerfd is armed for it if it is the first.
UserSleeps ==
    /\ UserRuns /\ fd_[cur] = NoFd
    /\ \E n \in 1..Len(sleepers) + 1 :
          /\ timerfd_ \in readable \/ armed = "wrapped" => n > 1
          /\ sleepers' = InsertAt(sleepers, n, cur)
          /\ armed' \in IF n = 1 THEN ResetTimerfd ELSE {armed}
    /\ ppc' = "after"
    /\ UNCHANGED <<stop_, queueVars, epollVars, coVars, cur, readable, outside>>

\* A task calls addTask().
UserAdds(k) ==
    /\ UserRuns /\ MayAdd(k)
    /\ Starts(<<k>>, idleCoQue_)
    /\ added' = added \cup {k}
    /\ UNCHANGED <<stop_, pendingTasks_, epollVars, fd_, ppc, cur, timerVars, readable, pc>>

\* A task calls stop().
UserStops ==
    /\ UserRuns /\ ~ stop_
    /\ stop_' = TRUE
    /\ readable' = readable \cup (IF isEpolling_ THEN {wakeupFd_} ELSE {})
    /\ UNCHANGED <<queueVars, epollVars, coVars, ppc, cur, timerVars, outside>>

-----------------------------------------------------------------------------
(* The kernel.                                                             *)

IoArrives(s) ==
    /\ readable' = readable \cup {s}
    /\ UNCHANGED <<stop_, queueVars, epollVars, coVars, ppc, cur, timerVars, outside>>

AlarmFires ==
    /\ armed = "on" /\ armed' = "off"
    /\ readable' = readable \cup {timerfd_}
    /\ UNCHANGED <<stop_, queueVars, epollVars, coVars, ppc, cur, sleepers, outside>>

-----------------------------------------------------------------------------
Thread(t) == TestEpolling(t) \/ WakeupEpollCo(t)

\* The steps of a coroutine that are not a choice of user code.
OwnSteps == LoopEnds \/ LoopGoesOn \/ ReadSome \/ ReadHolds \/ Resumed \/ Deal \/ DealAborts

UserYields == UserEnds \/ UserSleeps \/ \E s \in Socks : UserConnects(s)

Loop == Run \/ WhileTest \/ SetEpolling \/ PollTest \/ WaitReturns \/ AfterResume

ProcNext ==
    \/ Loop \/ WaitTimesOut \/ OwnSteps \/ UserYields
    \/ \E s \in Socks : UserIo(s) \/ IoArrives(s)
    \/ \E k \in Tasks : UserAdds(k)
    \/ UserStops \/ AlarmFires
    \/ \E t \in Threads : Thread(t) \/ Stop(t) \/ \E k \in Tasks : AddPendingTask(t, k)

\* The threads go on, user code ends or yields sooner or later, a timerfd armed
\* for a time to come expires, and a first timer that expired exactly now (in a
\* build without assertions) has expired at the next alarm, 100us later.
\* Nothing is assumed of the 10 seconds of epoll_wait().
ProcSpec ==
    /\ ProcInit /\ [][ProcNext]_procVars
    /\ WF_procVars(Loop) /\ WF_procVars(OwnSteps) /\ WF_procVars(AlarmFires)
    /\ SF_procVars(UserYields) /\ SF_procVars(ReadHolds)
    /\ SF_procVars(Deal /\ sleepers' # sleepers)
    /\ \A t \in Threads : WF_procVars(Thread(t))

-----------------------------------------------------------------------------
(* Properties.                                                             *)

Count(c, s) == Cardinality({i \in DOMAIN s : s[i] = c})

\* A coroutine is in one place: it is running, in one queue, asleep, or held
\* by an event.  addTask(), idleCoQue_ and the timers never share one, so none
\* is resumed twice or reset while it is in use.  Held by an event means that it
\* is the coroutine coMap_ has for its fd, and a recycled one has left nothing in
\* coMap_ that would resume it.  (Types are included.)
OnePlace ==
    /\ ProcTypeOK
    /\ \A c \in Cos : state_[c] = "HOLD" => fd_[c] # NoFd /\ coMap_[fd_[c]] = c
    /\ \A c \in Range(idleCoQue_) : fd_[c] = NoFd /\ \A f \in Fds : coMap_[f] # c
    /\ \A c \in Cos :
       Count(c, runnableCoQue_) + Count(c, idleCoQue_) + Count(c, sleepers)
       + (IF state_[c] = "HOLD" \/ (cur = c /\ (ppc = "co" \/ Ended)) THEN 1 ELSE 0) = 1

\* run() has ended, or the assertion at ITimerQueue.cc:76 has ended the process.
Over == ppc = "ended" \/ ~ Alive

\* A task that another thread has added is run unless the processor ends,
\* given that an epoll_wait() without events ends after kEpollTimeMs.
EveryTaskRuns ==
    WF_procVars(WaitTimesOut) =>
    \A k \in Tasks : (k \in Range(pendingTasks_))
                        ~> (Over \/ \E c \in Cos : cur = c /\ body[c] = k)

\* A held coroutine whose fd is ready goes on unless the processor ends.
Resumes ==
    \A c \in Cos : (state_[c] = "HOLD" /\ fd_[c] \in readable) ~> (cur = c \/ Over)

\* stop() during run() ends it without a timeout: poll() looks at stop_ after
\* isEpolling_ has been set.
StopEndsRun == (stop_ /\ ppc # "before") ~> Over
=============================================================================
