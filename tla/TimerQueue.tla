----------------------------- MODULE TimerQueue -----------------------------
(***************************************************************************)
(* burger/net/TimerQueue.cc, ITimerQueue.cc and Timer.cc: the timers of an *)
(* EventLoop, kept in a set ordered by expiration, and the timerfd that is *)
(* armed for the first of them.  Other threads call addTimer() and         *)
(* cancel() through runInLoop(); timer callbacks call them directly.  The  *)
(* clock advances between any two steps; its last value MaxClock stands    *)
(* for every later time.  The model has the steps of a build with          *)
(* assertions (the default) and of one without.                            *)
(***************************************************************************)
EXTENDS Integers, Sequences, FiniteSets

CONSTANTS Timers,      \* Timer objects, each added at most once
          Interval,    \* interval_ of each timer; 0 means not repeating
          MinDelay,    \* the least delay timerfd is armed with (100us)
          Word,        \* 2^64: microseconds are uint64_t
          MaxClock,    \* bound on the clock
          NoAlarm      \* the timerfd is disarmed

ASSUME TimerAssumption ==
    /\ MinDelay \in Nat \ {0} /\ MaxClock \in Nat \ {0} /\ Word \in Nat
    /\ NoAlarm \notin Nat
    /\ Interval \in [Timers -> 0..MaxClock]
    /\ Word > 4 * (MaxClock + MinDelay)

VARIABLES clock,              \* Timestamp::now()
          timers_,            \* set of [exp, timer]
          expiration_,        \* of each timer
          cancelingTimers_,
          armed,              \* when the timerfd becomes readable, or NoAlarm
          tpc,                \* the loop thread: "idle", "run", "callback", "aborted"
          now,                \* handleRead()'s now
          expiredList,        \* the entries getExpiredList() returned ...
          torun,              \* ... and those of them still to run
          pending,            \* functions queued in the loop: <<op, timer>>
          added,              \* timers some addTimer() call has created
          cancelled,          \* timers cancelInLoop() has seen
          overtaken,          \* those of them cancelled before they were inserted
          fired,              \* timers that have run at least once
          overdue             \* the timerfd was once armed for a past time

timerVars == <<clock, timers_, expiration_, cancelingTimers_, armed, tpc, now, expiredList,
               torun, pending, added, cancelled, overtaken, fired, overdue>>

Entry == [exp : Nat, timer : Timers]

TimerTypeOK ==
    /\ clock \in 1..MaxClock /\ now \in 0..MaxClock
    /\ timers_ \subseteq Entry /\ expiredList \subseteq Entry /\ torun \subseteq expiredList
    /\ expiration_ \in [Timers -> Nat]
    /\ cancelingTimers_ \subseteq Timers /\ added \subseteq Timers
    /\ cancelled \subseteq added /\ overtaken \subseteq cancelled /\ fired \subseteq added
    /\ armed \in Nat \cup {NoAlarm}
    /\ tpc \in {"idle", "run", "callback", "aborted"}
    /\ pending \in Seq({"addTimerInLoop", "cancelInLoop"} \X Timers)
    /\ overdue \in BOOLEAN
    \* A timer is queued for one expiration only.
    /\ \A e, f \in timers_ : e.timer = f.timer => e = f

TimerInit ==
    /\ clock = 1 /\ now = 0
    /\ timers_ = {} /\ expiredList = {} /\ torun = {} /\ cancelingTimers_ = {}
    /\ expiration_ = [t \in Timers |-> 0]
    /\ armed = NoAlarm /\ tpc = "idle" /\ pending = <<>>
    /\ added = {} /\ cancelled = {} /\ overtaken = {} /\ fired = {} /\ overdue = FALSE

first(S) == CHOOSE e \in S : \A f \in S : e.exp <= f.exp

\* howMuchTimeFromNow(): uint64_t subtraction, then at least 100us.
Delay(when) ==
    LET us == (when - clock) % Word
    IN  IF us < MinDelay THEN MinDelay ELSE us

\* resetTimerfd(timerfd_, when)
Arm(when) ==
    /\ armed' = clock + Delay(when)
    /\ overdue' = (overdue \/ when < clock)

-----------------------------------------------------------------------------
(* addTimerInLoop() and cancelInLoop(), in the loop thread.                *)

\* addTimerInLoop() that only arms the timerfd for the very first timer.
AddIfFirst(t, when) ==
    /\ timers_' = timers_ \cup {[exp |-> when, timer |-> t]}
    /\ IF timers_ = {} THEN Arm(when) ELSE UNCHANGED <<armed, overdue>>
    /\ UNCHANGED <<cancelingTimers_, cancelled, overtaken>>

\* insert(), and arm the timerfd if the timer is now the earliest.
AddTimerInLoop(t, when) ==
    /\ timers_' = timers_ \cup {[exp |-> when, timer |-> t]}
    /\ IF timers_ = {} \/ when < first(timers_).exp
       THEN Arm(when) ELSE UNCHANGED <<armed, overdue>>
    /\ UNCHANGED <<cancelingTimers_, cancelled, overtaken>>

\* Bookkeeping: t is cancelled now, in vain if its addTimerInLoop is to come.
NoteCancel(t) ==
    /\ cancelled' = cancelled \cup {t}
    /\ overtaken' = IF \E i \in 1..Len(pending) : pending[i] = <<"addTimerInLoop", t>>
                    THEN overtaken \cup {t} ELSE overtaken \ {t}

\* cancelInLoop() that relies on the timer still being queued.
CancelQueuedOnly(t) ==
    /\ timers_' = timers_ \ {[exp |-> expiration_[t], timer |-> t]}
    /\ NoteCancel(t)
    /\ UNCHANGED <<armed, overdue, cancelingTimers_>>

\* Erase the timer if it is queued, otherwise it may be in expiredList (or not
\* inserted yet, which nobody looks at again).
CancelInLoop(t) ==
    LET cancelTimer == [exp |-> expiration_[t], timer |-> t]
    IN  /\ IF cancelTimer \in timers_
           THEN timers_' = timers_ \ {cancelTimer} /\ UNCHANGED cancelingTimers_
           ELSE cancelingTimers_' = cancelingTimers_ \cup {t} /\ UNCHANGED timers_
        /\ NoteCancel(t)
        /\ UNCHANGED <<armed, overdue>>

-----------------------------------------------------------------------------
\* Another thread's runAt()/runAfter()/runEvery(): the Timer is made and
\* addTimerInLoop queued.
AddTimer(t, when) ==
    /\ tpc # "aborted" /\ t \notin added
    /\ added' = added \cup {t}
    /\ expiration_' = [expiration_ EXCEPT ![t] = when]
    /\ pending' = Append(pending, <<"addTimerInLoop", t>>)
    /\ UNCHANGED <<clock, timers_, cancelingTimers_, armed, tpc, now, expiredList, torun,
                   cancelled, overtaken, fired, overdue>>

\* Another thread's cancel(), with the TimerId addTimer() returned.  Bound: one
\* cancel() of a timer is queued at a time.
Cancel(t) ==
    /\ tpc # "aborted" /\ t \in added
    /\ <<"cancelInLoop", t>> \notin {pending[i] : i \in 1..Len(pending)}
    /\ pending' = Append(pending, <<"cancelInLoop", t>>)
    /\ UNCHANGED <<clock, timers_, expiration_, cancelingTimers_, armed, tpc, now, expiredList,
                   torun, added, cancelled, overtaken, fired, overdue>>

\* doQueueInLoopFuncs() runs the oldest queued function.
RunPending ==
    /\ tpc = "idle" /\ pending # <<>>
    /\ LET t == Head(pending)[2]
       IN  IF Head(pending)[1] = "addTimerInLoop"
           THEN AddTimerInLoop(t, expiration_[t]) ELSE CancelInLoop(t)
    /\ pending' = Tail(pending)
    /\ UNCHANGED <<clock, expiration_, tpc, now, expiredList, torun, added, fired>>

\* The timerfd is readable: its time has come, or lies after MaxClock but not
\* as far away as a wrapped-around delay puts it.
Rings ==
    /\ armed # NoAlarm
    /\ armed <= clock \/ (clock = MaxClock /\ armed < Word \div 2)

\* getExpiredList(now) takes everything below (now, nullptr), that is, earlier
\* than now, and asserts that the first entry it leaves is later than now ...
Expired == {e \in timers_ : e.exp < clock}

\* ... which one that expires exactly now is not.
ExactlyNow == \E e \in timers_ : e.exp = clock

\* The timerfd is readable: handleRead() up to the callbacks.  If ExactlyNow
\* only a build with NDEBUG comes here.
HandleRead ==
    /\ tpc = "idle" /\ Rings
    /\ now' = clock
    /\ armed' = NoAlarm          \* readTimerfd()
    /\ expiredList' = Expired
    /\ torun' = expiredList'
    /\ timers_' = timers_ \ expiredList'
    /\ cancelingTimers_' = {}
    /\ tpc' = "run"
    /\ UNCHANGED <<clock, expiration_, pending, added, cancelled, overtaken, fired, overdue>>

\* The assertion of getExpiredList() fails: the process is over.
HandleReadAborts ==
    /\ tpc = "idle" /\ Rings /\ ExactlyNow
    /\ now' = clock
    /\ armed' = NoAlarm
    /\ tpc' = "aborted"
    /\ UNCHANGED <<clock, timers_, expiration_, cancelingTimers_, expiredList, torun, pending,
                   added, cancelled, overtaken, fired, overdue>>

\* The next expired timer's run().
RunTimer ==
    /\ tpc = "run" /\ torun # {}
    /\ \E e \in torun :
        /\ \A f \in torun : e.exp <= f.exp
        /\ torun' = torun \ {e}
        /\ fired' = fired \cup {e.timer}
    /\ tpc' = "callback"
    /\ UNCHANGED <<clock, timers_, expiration_, cancelingTimers_, armed, now, expiredList,
                   pending, added, cancelled, overtaken, overdue>>

\* The callback adds a timer; it is in the loop thread, so at once.
CallbackAdds(t, when) ==
    /\ tpc = "callback" /\ t \notin added
    /\ added' = added \cup {t}
    /\ expiration_' = [expiration_ EXCEPT ![t] = when]
    /\ AddTimerInLoop(t, when)
    /\ UNCHANGED <<clock, tpc, now, expiredList, torun, pending, fired>>

\* The callback cancels a timer, maybe its own, maybe one whose addTimer()
\* returned in another thread while addTimerInLoop is still queued.
CallbackCancels(t) ==
    /\ tpc = "callback" /\ t \in added
    /\ CancelInLoop(t)
    /\ UNCHANGED <<clock, expiration_, tpc, now, expiredList, torun, pending, added, fired>>

CallbackReturns ==
    /\ tpc = "callback"
    /\ tpc' = "run"
    /\ UNCHANGED <<clock, timers_, expiration_, cancelingTimers_, armed, now, expiredList, torun,
                   pending, added, cancelled, overtaken, fired, overdue>>

\* The expired timers reset() restarts.
restarted == {e.timer : e \in {x \in expiredList :
                Interval[x.timer] > 0 /\ x.timer \notin cancelingTimers_}}

\* reset() that arms the timerfd before it puts the repeating timers back.
ResetArmsFirst ==
    /\ tpc = "run" /\ torun = {}
    /\ expiration_' = [t \in Timers |-> IF t \in restarted THEN now + Interval[t]
                                                           ELSE expiration_[t]]
    /\ timers_' = timers_ \cup {[exp |-> expiration_'[t], timer |-> t] : t \in restarted}
    /\ IF timers_ # {} THEN Arm(first(timers_).exp) ELSE UNCHANGED <<armed, overdue>>
    /\ expiredList' = {} /\ tpc' = "idle"
    /\ UNCHANGED <<clock, cancelingTimers_, now, torun, pending, added, cancelled, overtaken,
                   fired>>

\* reset() that puts a restarted timer back under its old expiration.
ResetStale ==
    /\ tpc = "run" /\ torun = {}
    /\ expiration_' = [t \in Timers |-> IF t \in restarted THEN now + Interval[t]
                                                           ELSE expiration_[t]]
    /\ timers_' = timers_ \cup {[exp |-> expiration_[t], timer |-> t] : t \in restarted}
    /\ IF timers_' # {} THEN Arm(first(timers_').exp) ELSE UNCHANGED <<armed, overdue>>
    /\ expiredList' = {} /\ tpc' = "idle"
    /\ UNCHANGED <<clock, cancelingTimers_, now, torun, pending, added, cancelled, overtaken,
                   fired>>

\* reset(): restart() and insert() the repeating timers nobody has cancelled
\* meanwhile, then arm the timerfd for the first timer.  handleRead() ends.
Reset ==
    /\ tpc = "run" /\ torun = {}
    /\ expiration_' = [t \in Timers |-> IF t \in restarted THEN now + Interval[t]
                                                           ELSE expiration_[t]]
    /\ timers_' = timers_ \cup {[exp |-> expiration_'[t], timer |-> t] : t \in restarted}
    /\ IF timers_' # {} THEN Arm(first(timers_').exp) ELSE UNCHANGED <<armed, overdue>>
    /\ expiredList' = {} /\ tpc' = "idle"
    /\ UNCHANGED <<clock, cancelingTimers_, now, torun, pending, added, cancelled, overtaken,
                   fired>>

Tick ==
    /\ clock < MaxClock
    /\ clock' = clock + 1
    /\ UNCHANGED <<timers_, expiration_, cancelingTimers_, armed, tpc, now, expiredList, torun,
                   pending, added, cancelled, overtaken, fired, overdue>>

-----------------------------------------------------------------------------
LoopStep ==
    \/ RunPending \/ HandleRead \/ HandleReadAborts \/ RunTimer \/ CallbackReturns \/ Reset

TimerNext ==
    \/ LoopStep \/ Tick
    \/ \E t \in Timers, when \in 1..MaxClock : AddTimer(t, when) \/ CallbackAdds(t, when)
    \/ \E t \in Timers : Cancel(t) \/ CallbackCancels(t)

TimerSpec == TimerInit /\ [][TimerNext]_timerVars

\* The loop thread is scheduled, its callbacks return, and time goes on.  Each
\* round of loop() asks epoll, however often others queue functions.
TimerFairSpec ==
    /\ TimerSpec
    /\ WF_timerVars(LoopStep) /\ WF_timerVars(HandleRead \/ HandleReadAborts)
    /\ WF_timerVars(Tick)

-----------------------------------------------------------------------------
(***************************************************************************)
(* cancelInLoop() looks a timer up under its current expiration, and       *)
(* restart() changes that: every queued entry carries the expiration its   *)
(* timer has, so cancel() finds it.  (Types are included.)                 *)
(***************************************************************************)
EntriesAreCurrent == TimerTypeOK /\ \A e \in timers_ : e.exp = expiration_[e.timer]

(***************************************************************************)
(* A cancelled timer is never queued again: neither a repeating one that   *)
(* is cancelled by its own callback, nor one cancelled by the callback of  *)
(* another timer of the same round, nor one whose cancel() and addTimer()  *)
(* are queued together.  (It may still run in that round.)  The exception  *)
(* is a timer a callback cancelled before its queued addTimerInLoop ran:   *)
(* cancelInLoop() (TimerQueue.cc:56) then remembers it only until the next *)
(* handleRead() and the timer is inserted in spite of the cancel.          *)
(***************************************************************************)
CancelledStaysOut ==
    \A t \in cancelled \ overtaken :
        /\ \A e \in timers_ : e.timer # t
        /\ tpc # "idle" => t \notin restarted

(***************************************************************************)
(* Between two rounds the timerfd is armed for the first timer, or earlier *)
(* (a cancelled timer leaves its alarm behind) - as long as nobody had to  *)
(* arm it for a time already past.                                         *)
(***************************************************************************)
FirstIsArmed ==
    tpc = "idle" /\ timers_ # {} /\ ~ overdue =>
        armed # NoAlarm /\ armed <= first(timers_).exp + MinDelay

(***************************************************************************)
(* Under the same condition every queued timer runs or is cancelled, one   *)
(* that expires exactly when handleRead() reads the clock included -       *)
(* unless the assertion of ITimerQueue.cc:76 ends the program then.        *)
(***************************************************************************)
DueTimersRun ==
    \A t \in Timers :
        (\E e \in timers_ : e.timer = t /\ e.exp < MaxClock)
            ~> t \in fired \cup (cancelled \ overtaken) \/ overdue \/ tpc = "aborted"

=============================================================================
