-------------------------- MODULE ProcessorProofs --------------------------
(***************************************************************************)
(* TLAPS proofs about Processor, for any threads, tasks, coroutines and    *)
(* sockets: a coroutine is in one place, poll() does not sleep over a      *)
(* stop() or a sleeper, and no task is lost or run twice.                  *)
(***************************************************************************)
EXTENDS Processor, FiniteSetTheorems, TLAPS

-----------------------------------------------------------------------------
(* The inductive invariant.                                                *)

\* A queue that holds nothing twice, and who is in which.
Once(q) == \A i, j \in 1..Len(q) : q[i] = q[j] => i = j
Runnable == Range(runnableCoQue_)
Idle == Range(idleCoQue_)
Asleep == Range(sleepers)

\* Held by an event, being resumed, or ended and not recycled yet.
Busy(c) == state_[c] = "HOLD" \/ (cur = c /\ (ppc = "co" \/ Ended))

\* A coroutine is in one place: OnePlace without counting.
Places ==
    /\ Once(runnableCoQue_) /\ Once(idleCoQue_) /\ Once(sleepers)
    /\ Runnable \cap Idle = {} /\ Runnable \cap Asleep = {} /\ Idle \cap Asleep = {}
    /\ \A c \in Cos : Busy(c) <=> c \notin Runnable \cup Idle \cup Asleep

\* coMap_ and the coroutines' fd_ say the same; who is idle or asleep has no fd.
Registered ==
    /\ \A f \in Fds : coMap_[f] # NoCo => fd_[coMap_[f]] = f
    /\ \A c \in Cos : fd_[c] # NoFd => coMap_[fd_[c]] = c
    /\ \A c \in Cos : state_[c] = "HOLD" => fd_[c] # NoFd
    /\ \A c \in Idle \cup Asleep : fd_[c] = NoFd

\* What is resumed is in state EXEC, and the run queue is empty when poll() waits.
Executing ==
    /\ ppc = "co" => cur \in Cos /\ state_[cur] = "EXEC"
    /\ ppc \notin {"co", "after"} => cur = NoCo
    /\ ppc \in {"epoll", "poll", "wait"} => runnableCoQue_ = <<>>
    /\ \A c \in Runnable : state_[c] = "EXEC"

\* The fds of the processor's own coroutines are theirs alone.
OwnFds ==
    /\ \A c \in Cos : /\ wakeupFd_ \in {fd_[c], io[c]} => c = Wake
                      /\ timerfd_ \in {fd_[c], io[c]} => c = timerQue
    /\ \A c \in Cos :
          /\ body[c] = Wake => c = Wake /\ io[c] = wakeupFd_ /\ fd_[c] \in {NoFd, wakeupFd_}
          /\ body[c] = timerQue =>
                c = timerQue /\ io[c] = timerfd_ /\ fd_[c] \in {NoFd, timerfd_}

\* In ioHook() a coroutine may wait for its io, and when it is resumed it has.
InHook ==
    /\ \A c \in Cos : at[c] = "read" =>
          /\ cur = c /\ ppc = "co"
          /\ io[c] \in Fds /\ fd_[c] \in {NoFd, io[c]} /\ coMap_[io[c]] \in {NoCo, c}
    /\ \A c \in Cos : at[c] = "resumed" => io[c] \in Fds /\ fd_[c] = io[c]
    /\ Ended => at[cur] # "resumed"

\* There is a coroutine for every pending task.
Enough == Len(pendingTasks_) <= Len(idleCoQue_)

ProcInv == ProcTypeOK /\ Places /\ Registered /\ Executing /\ OwnFds /\ InHook /\ Enough

-----------------------------------------------------------------------------
(* What the queue operations do to who is in a queue.                      *)

\* The members of a sequence.
LEMMA RangeFacts ==
    ASSUME NEW S, NEW q \in Seq(S)
    PROVE  /\ Range(q) \subseteq S
           /\ \A x : x \in Range(q) <=> \E i \in 1..Len(q) : q[i] = x
           /\ q = <<>> <=> Range(q) = {}
  <1>1. DOMAIN q = 1..Len(q) /\ Len(q) \in Nat /\ \A i \in 1..Len(q) : q[i] \in S
    OBVIOUS
  <1>2. \A x : x \in Range(q) <=> \E i \in 1..Len(q) : q[i] = x
    BY <1>1 DEF Range
  <1>3. q = <<>> => Range(q) = {}
    BY <1>1, <1>2
  <1>4. q # <<>> => q[1] \in Range(q)
    BY <1>1, <1>2
  <1> QED
    BY <1>1, <1>2, <1>3, <1>4

\* pop() takes the first one out.
LEMMA TailFacts ==
    ASSUME NEW S, NEW q \in Seq(S), q # <<>>, Once(q)
    PROVE  /\ Tail(q) \in Seq(S) /\ Once(Tail(q)) /\ Head(q) \in Range(q)
           /\ Range(Tail(q)) = Range(q) \ {Head(q)}
  <1>1. /\ Tail(q) \in Seq(S) /\ Len(Tail(q)) = Len(q) - 1 /\ Len(q) \in Nat \ {0}
        /\ Head(q) = q[1] /\ \A i \in 1..(Len(q) - 1) : Tail(q)[i] = q[i + 1]
    OBVIOUS
  <1>2. Once(Tail(q))
    BY <1>1 DEF Once
  <1>3. Head(q) \in Range(q)
    BY <1>1, RangeFacts
  <1>4. ASSUME NEW x PROVE x \in Range(Tail(q)) <=> x \in Range(q) \ {Head(q)}
    <2>1. x \in Range(q) <=> \E i \in 1..Len(q) : q[i] = x
      BY RangeFacts
    <2>2. x \in Range(Tail(q)) <=> \E i \in 1..(Len(q) - 1) : Tail(q)[i] = x
      BY <1>1, RangeFacts
    <2>3. ASSUME NEW i \in 1..(Len(q) - 1), Tail(q)[i] = x PROVE x \in Range(q) \ {Head(q)}
      BY <1>1, <2>1, <2>3 DEF Once
    <2>4. ASSUME NEW i \in 1..Len(q), q[i] = x, x # Head(q) PROVE x \in Range(Tail(q))
      <3>1. i - 1 \in 1..(Len(q) - 1) /\ Tail(q)[i - 1] = x
        BY <1>1, <2>4
      <3> QED
        BY <2>2, <3>1
    <2> QED
      BY <2>1, <2>2, <2>3, <2>4
  <1> QED
    BY <1>1, <1>2, <1>3, <1>4

\* Two queues one behind the other.
LEMMA ConcatFacts ==
    ASSUME NEW S, NEW q \in Seq(S), NEW r \in Seq(S)
    PROVE  /\ q \o r \in Seq(S) /\ Range(q \o r) = Range(q) \cup Range(r)
           /\ Once(q) /\ Once(r) /\ Range(q) \cap Range(r) = {} => Once(q \o r)
  <1>1. /\ q \o r \in Seq(S) /\ Len(q \o r) = Len(q) + Len(r)
        /\ Len(q) \in Nat /\ Len(r) \in Nat
        /\ \A i \in 1..Len(q) : (q \o r)[i] = q[i]
        /\ \A i \in 1..Len(r) : (q \o r)[i + Len(q)] = r[i]
    OBVIOUS
  <1> DEFINE c == q \o r
  <1> HIDE DEF c
  <1>2. /\ \A x : x \in Range(q) <=> \E i \in 1..Len(q) : q[i] = x
        /\ \A x : x \in Range(r) <=> \E i \in 1..Len(r) : r[i] = x
        /\ \A x : x \in Range(c) <=> \E i \in 1..Len(c) : c[i] = x
    BY <1>1, RangeFacts DEF c
  <1>3. \A i \in 1..Len(c) : i \in 1..Len(q) \/ \E j \in 1..Len(r) : i = j + Len(q)
    <2> SUFFICES ASSUME NEW i \in 1..Len(c), i \notin 1..Len(q)
                 PROVE  \E j \in 1..Len(r) : i = j + Len(q)
      OBVIOUS
    <2>1. i - Len(q) \in 1..Len(r) /\ i = (i - Len(q)) + Len(q)
      BY <1>1 DEF c
    <2> QED
      BY <2>1
  <1>4. ASSUME NEW x PROVE x \in Range(c) <=> x \in Range(q) \cup Range(r)
    <2>1. ASSUME NEW i \in 1..Len(c), c[i] = x PROVE x \in Range(q) \cup Range(r)
      <3>1. CASE i \in 1..Len(q)
        BY <1>1, <1>2, <2>1, <3>1 DEF c
      <3>2. CASE \E j \in 1..Len(r) : i = j + Len(q)
        BY <1>1, <1>2, <2>1, <3>2 DEF c
      <3> QED
        BY <1>3, <3>1, <3>2
    <2>2. ASSUME NEW i \in 1..Len(q), q[i] = x PROVE x \in Range(c)
      <3>1. i \in 1..Len(c) /\ c[i] = x
        BY <1>1, <2>2 DEF c
      <3> QED
        BY <1>2, <3>1
    <2>3. ASSUME NEW i \in 1..Len(r), r[i] = x PROVE x \in Range(c)
      <3>1. i + Len(q) \in 1..Len(c) /\ c[i + Len(q)] = x
        BY <1>1, <2>3 DEF c
      <3> QED
        BY <1>2, <3>1
    <2> QED
      BY <1>2, <2>1, <2>2, <2>3
  <1>5. ASSUME Once(q), Once(r), Range(q) \cap Range(r) = {} PROVE Once(c)
    <2> SUFFICES ASSUME NEW i \in 1..Len(c), NEW j \in 1..Len(c), c[i] = c[j] PROVE i = j
      BY DEF Once
    <2>1. CASE i \in 1..Len(q) /\ j \in 1..Len(q)
      BY <1>1, <1>5, <2>1 DEF Once, c
    <2>2. ASSUME NEW u \in 1..Len(q), NEW v \in 1..Len(r), c[u] = c[v + Len(q)] PROVE FALSE
      <3>1. q[u] = r[v]
        BY <1>1, <2>2 DEF c
      <3>2. q[u] \in Range(q) /\ r[v] \in Range(r)
        BY <1>2
      <3> QED
        BY <1>5, <3>1, <3>2
    <2>3. CASE /\ \E k \in 1..Len(r) : i = k + Len(q)
               /\ \E k \in 1..Len(r) : j = k + Len(q)
      <3>1. PICK k \in 1..Len(r) : i = k + Len(q)
        BY <2>3
      <3>2. PICK l \in 1..Len(r) : j = l + Len(q)
        BY <2>3
      <3>3. r[k] = r[l]
        BY <1>1, <3>1, <3>2 DEF c
      <3> QED
        BY <1>5, <3>1, <3>2, <3>3 DEF Once
    <2> QED
      BY <1>3, <2>1, <2>2, <2>3
  <1> QED
    BY <1>1, <1>4, <1>5 DEF c

\* One element as a queue.
LEMMA OneFacts ==
    ASSUME NEW S, NEW x \in S
    PROVE  <<x>> \in Seq(S) /\ Once(<<x>>) /\ Range(<<x>>) = {x}
  <1>1. <<x>> \in Seq(S) /\ Len(<<x>>) = 1 /\ <<x>>[1] = x
    OBVIOUS
  <1>2. Once(<<x>>)
    BY <1>1 DEF Once
  <1>3. \A y : y \in Range(<<x>>) <=> \E i \in 1..Len(<<x>>) : <<x>>[i] = y
    BY <1>1, RangeFacts
  <1>4. Range(<<x>>) = {x}
    BY <1>1, <1>3
  <1> QED
    BY <1>1, <1>2, <1>4

\* push() adds one at the end.
LEMMA AppendFacts ==
    ASSUME NEW S, NEW q \in Seq(S), NEW x \in S
    PROVE  /\ Append(q, x) \in Seq(S) /\ Range(Append(q, x)) = Range(q) \cup {x}
           /\ Len(Append(q, x)) = Len(q) + 1
           /\ Once(q) /\ x \notin Range(q) => Once(Append(q, x))
  <1>1. Append(q, x) = q \o <<x>> /\ Len(Append(q, x)) = Len(q) + 1
    OBVIOUS
  <1>2. <<x>> \in Seq(S) /\ Once(<<x>>) /\ Range(<<x>>) = {x}
    BY OneFacts
  <1>3. /\ q \o <<x>> \in Seq(S) /\ Range(q \o <<x>>) = Range(q) \cup Range(<<x>>)
        /\ Once(q) /\ Once(<<x>>) /\ Range(q) \cap Range(<<x>>) = {} => Once(q \o <<x>>)
    BY <1>2, ConcatFacts
  <1> QED
    BY <1>1, <1>2, <1>3

\* A queue cut in two after n.
LEMMA SplitFacts ==
    ASSUME NEW S, NEW q \in Seq(S), NEW n \in 0..Len(q), Once(q)
    PROVE  LET a == SubSeq(q, 1, n)
               b == SubSeq(q, n + 1, Len(q))
           IN  /\ a \in Seq(S) /\ b \in Seq(S) /\ Once(a) /\ Once(b)
               /\ Len(a) = n /\ Len(b) = Len(q) - n
               /\ Range(a) \cap Range(b) = {} /\ Range(a) \cup Range(b) = Range(q)
  <1> DEFINE a == SubSeq(q, 1, n)
             b == SubSeq(q, n + 1, Len(q))
  <1>1. /\ a \in Seq(S) /\ Len(a) = n /\ \A i \in 1..n : a[i] = q[i]
        /\ n \in Nat /\ Len(q) \in Nat /\ n <= Len(q)
    OBVIOUS
  <1>2. b \in Seq(S) /\ Len(b) = Len(q) - n /\ \A i \in 1..(Len(q) - n) : b[i] = q[i + n]
    OBVIOUS
  <1> HIDE DEF a, b
  <1>3. /\ \A x : x \in Range(q) <=> \E i \in 1..Len(q) : q[i] = x
        /\ \A x : x \in Range(a) <=> \E i \in 1..n : a[i] = x
        /\ \A x : x \in Range(b) <=> \E i \in 1..(Len(q) - n) : b[i] = x
    BY <1>1, <1>2, RangeFacts
  <1>4. Once(a) /\ Once(b)
    <2>1. Once(a)
      BY <1>1 DEF Once
    <2>2. ASSUME NEW i \in 1..Len(b), NEW j \in 1..Len(b), b[i] = b[j] PROVE i = j
      <3>1. i + n \in 1..Len(q) /\ j + n \in 1..Len(q) /\ q[i + n] = q[j + n]
        BY <1>1, <1>2, <2>2
      <3>2. i + n = j + n
        BY <3>1 DEF Once
      <3> QED
        BY <1>1, <1>2, <3>2
    <2> QED
      BY <2>1, <2>2 DEF Once
  <1>5. ASSUME NEW x \in Range(a), x \in Range(b) PROVE FALSE
    <2>1. PICK i \in 1..n : a[i] = x
      BY <1>3
    <2>2. PICK j \in 1..(Len(q) - n) : b[j] = x
      BY <1>3, <1>5
    <2>3. i \in 1..Len(q) /\ j + n \in 1..Len(q) /\ q[i] = q[j + n] /\ i # j + n
      BY <1>1, <1>2, <2>1, <2>2
    <2> QED
      BY <2>3 DEF Once
  <1>6. ASSUME NEW x PROVE x \in Range(q) <=> x \in Range(a) \cup Range(b)
    <2>1. ASSUME NEW i \in 1..Len(q), q[i] = x PROVE x \in Range(a) \cup Range(b)
      <3>1. CASE i <= n
        BY <1>1, <1>3, <2>1, <3>1
      <3>2. CASE i > n
        <4>1. i - n \in 1..(Len(q) - n) /\ b[i - n] = x
          BY <1>1, <1>2, <2>1, <3>2
        <4> QED
          BY <1>3, <4>1
      <3> QED
        BY <1>1, <3>1, <3>2
    <2>2. ASSUME NEW i \in 1..n, a[i] = x PROVE x \in Range(q)
      BY <1>1, <1>3, <2>2
    <2>3. ASSUME NEW i \in 1..(Len(q) - n), b[i] = x PROVE x \in Range(q)
      <3>1. i + n \in 1..Len(q) /\ q[i + n] = x
        BY <1>1, <1>2, <2>3
      <3> QED
        BY <1>3, <3>1
    <2> QED
      BY <1>3, <2>1, <2>2, <2>3
  <1>7. Range(a) \cap Range(b) = {} /\ Range(a) \cup Range(b) = Range(q)
    BY <1>5, <1>6
  <1> QED
    BY <1>1, <1>2, <1>4, <1>7 DEF a, b

\* A timer goes to its place among the sleepers.
LEMMA InsertFacts ==
    ASSUME NEW S, NEW q \in Seq(S), NEW x \in S, NEW n \in 1..Len(q) + 1,
           Once(q), x \notin Range(q)
    PROVE  /\ InsertAt(q, n, x) \in Seq(S) /\ Once(InsertAt(q, n, x))
           /\ Range(InsertAt(q, n, x)) = Range(q) \cup {x}
  <1> DEFINE a == SubSeq(q, 1, n - 1)
             b == SubSeq(q, n, Len(q))
             m == n - 1
  <1>1. m \in 0..Len(q) /\ m + 1 = n
    OBVIOUS
  <1>2. /\ a \in Seq(S) /\ b \in Seq(S) /\ Once(a) /\ Once(b)
        /\ Range(a) \cap Range(b) = {} /\ Range(a) \cup Range(b) = Range(q)
    <2>1. LET u == SubSeq(q, 1, m)
              v == SubSeq(q, m + 1, Len(q))
          IN  /\ u \in Seq(S) /\ v \in Seq(S) /\ Once(u) /\ Once(v)
              /\ Range(u) \cap Range(v) = {} /\ Range(u) \cup Range(v) = Range(q)
      BY <1>1, SplitFacts
    <2> QED
      BY <1>1, <2>1
  <1> HIDE DEF a, b
  <1>3. <<x>> \in Seq(S) /\ Once(<<x>>) /\ Range(<<x>>) = {x}
    BY OneFacts
  <1> DEFINE e == <<x>>
  <1> HIDE DEF e
  <1>4. /\ a \o e \in Seq(S) /\ Once(a \o e)
        /\ Range(a \o e) = Range(a) \cup {x}
    <2>1. /\ a \o e \in Seq(S) /\ Range(a \o e) = Range(a) \cup Range(e)
          /\ Once(a) /\ Once(e) /\ Range(a) \cap Range(e) = {} => Once(a \o e)
      BY <1>2, <1>3, ConcatFacts DEF e
    <2>2. Range(e) = {x} /\ Once(e) /\ Range(a) \cap Range(e) = {}
      BY <1>2, <1>3 DEF e
    <2> QED
      BY <1>2, <2>1, <2>2
  <1> DEFINE c == a \o e
  <1> HIDE DEF c
  <1>5. c \o b \in Seq(S) /\ Once(c \o b) /\ Range(c \o b) = Range(c) \cup Range(b)
    <2>1. c \in Seq(S) /\ Once(c) /\ Range(c) = Range(a) \cup {x}
      BY <1>4 DEF c
    <2>2. /\ c \o b \in Seq(S) /\ Range(c \o b) = Range(c) \cup Range(b)
          /\ Once(c) /\ Once(b) /\ Range(c) \cap Range(b) = {} => Once(c \o b)
      BY <1>2, <2>1, ConcatFacts
    <2>3. Range(c) \cap Range(b) = {}
      BY <1>2, <2>1
    <2> QED
      BY <1>2, <2>1, <2>2, <2>3
  <1>6. InsertAt(q, n, x) = c \o b
    BY DEF InsertAt, a, b, c, e
  <1> QED
    BY <1>2, <1>4, <1>5, <1>6 DEF c

\* A finite set as a sequence, in any order.
LEMMA SetToSeqsFacts ==
    ASSUME NEW S, IsFiniteSet(S), NEW s \in SetToSeqs(S)
    PROVE  s \in Seq(S) /\ Once(s) /\ Range(s) = S
  <1> DEFINE n == Cardinality(S)
  <1>1. n \in Nat
    BY FS_CardinalityType
  <1>2. s \in [1..n -> S] /\ \A i, j \in 1..n : i # j => s[i] # s[j]
    BY DEF SetToSeqs
  <1>3. s \in Seq(S) /\ Len(s) = n
    BY <1>1, <1>2
  <1>4. Once(s)
    BY <1>2, <1>3 DEF Once
  <1>5. IsFiniteSet(1..n) /\ Cardinality(1..n) = n
    BY <1>1, FS_Interval
  <1> HIDE DEF n
  <1>6. s \in Injection(1..n, S)
    BY <1>2 DEF Injection, IsInjective
  <1>7. s \in Surjection(1..n, S)
    BY <1>5, <1>6, FS_Injection DEF n
  <1>8. \A x \in S : \E i \in 1..n : s[i] = x
    BY <1>7 DEF Surjection
  <1>9. \A x : x \in Range(s) <=> \E i \in 1..n : s[i] = x
    BY <1>3, RangeFacts
  <1>10. Range(s) = S
    BY <1>2, <1>8, <1>9
  <1> QED
    BY <1>3, <1>4, <1>10

\* SetToSeq() finds one of them.
LEMMA SetToSeqFacts ==
    ASSUME NEW S, IsFiniteSet(S)
    PROVE  SetToSeq(S) \in SetToSeqs(S)
  <1> DEFINE n == Cardinality(S)
  <1>1. n \in Nat /\ ExistsBijection(1..n, S)
    BY FS_CardinalityType
  <1>2. \E f \in [1..n -> S] : IsInjective(f)
    BY <1>1 DEF ExistsBijection, Bijection, Injection
  <1>3. SetToSeq(S) \in [1..n -> S] /\ IsInjective(SetToSeq(S))
    BY <1>2 DEF SetToSeq
  <1> QED
    BY <1>3 DEF SetToSeqs, IsInjective

-----------------------------------------------------------------------------
(* Facts about states.                                                     *)

\* The types in the form the steps use.
LEMMA Types ==
    ASSUME ProcTypeOK
    PROVE  /\ runnableCoQue_ \in Seq(Cos) /\ idleCoQue_ \in Seq(Cos) /\ sleepers \in Seq(Cos)
           /\ pendingTasks_ \in Seq(Tasks)
           /\ Runnable \subseteq Cos /\ Idle \subseteq Cos /\ Asleep \subseteq Cos
           /\ coMap_ \in [Fds -> Cos \cup {NoCo}]
           /\ state_ \in [Cos -> {"EXEC", "HOLD", "TERM"}]
           /\ fd_ \in [Cos -> Fds \cup {NoFd}] /\ io \in [Cos -> Fds \cup {NoFd}]
           /\ body \in [Cos -> Tasks \cup Own \cup {NoTask}]
           /\ at \in [Cos -> {"user", "top", "read", "resumed", "deal", "aborted"}]
           /\ cur \in Cos \cup {NoCo}
  <1>1. runnableCoQue_ \in Seq(Cos) /\ idleCoQue_ \in Seq(Cos) /\ sleepers \in Seq(Cos)
    BY DEF ProcTypeOK
  <1>2. Runnable \subseteq Cos /\ Idle \subseteq Cos /\ Asleep \subseteq Cos
    BY <1>1, RangeFacts DEF Runnable, Idle, Asleep
  <1> QED
    BY <1>1, <1>2 DEF ProcTypeOK

\* The names of the constants are different ones.
LEMMA Names ==
    /\ NoCo \notin Cos /\ NoFd \notin Fds /\ NoTask \notin Tasks \cup Own
    /\ Wake \in Cos /\ timerQue \in Cos /\ Wake # timerQue /\ Own = {Wake, timerQue}
    /\ Own \cap Tasks = {}
    /\ wakeupFd_ \in Fds /\ timerfd_ \in Fds /\ wakeupFd_ # timerfd_
    /\ Socks \subseteq Fds /\ wakeupFd_ \notin Socks /\ timerfd_ \notin Socks
  BY ProcAssumption DEF Cos, Own, Wake, timerQue, Fds, wakeupFd_, timerfd_

\* The coroutine that runs is in no queue, and has the thread for itself.
LEMMA Current ==
    ASSUME ProcInv, ppc = "co"
    PROVE  /\ cur \in Cos /\ state_[cur] = "EXEC" /\ cur # NoCo /\ ~ Ended
           /\ cur \notin Runnable \cup Idle \cup Asleep
           /\ \A c \in Cos : Busy(c) <=> state_[c] = "HOLD" \/ c = cur
  <1>1. cur \in Cos /\ state_[cur] = "EXEC" /\ cur # NoCo
    BY Names DEF ProcInv, Executing
  <1>2. ~ Ended
    BY <1>1 DEF Ended
  <1>3. \A c \in Cos : Busy(c) <=> state_[c] = "HOLD" \/ c = cur
    BY <1>1, <1>2 DEF Busy
  <1>4. \A c \in Cos : Busy(c) <=> c \notin Runnable \cup Idle \cup Asleep
    BY DEF ProcInv, Places
  <1> QED
    BY <1>1, <1>2, <1>3, <1>4

-----------------------------------------------------------------------------
(* Steps that leave the coroutines where they are.                         *)

\* Coroutines, queues and events stay; the thread may move on between coroutines.
LEMMA StillKeeps ==
    ASSUME ProcInv, ProcTypeOK', Enough',
           UNCHANGED <<runnableCoQue_, idleCoQue_, sleepers, coMap_, coVars, cur>>,
           \/ ppc' = ppc
           \/ /\ ppc \notin {"co", "after"} /\ ppc' # "co"
              /\ ppc' \in {"epoll", "poll", "wait"} => runnableCoQue_ = <<>>
    PROVE  ProcInv'
  <1> USE DEF coVars
  <1>1. ppc' = ppc \/ (cur = NoCo /\ ppc # "co" /\ ppc' # "co")
    BY DEF ProcInv, Executing
  <1>2. /\ Runnable' = Runnable /\ Idle' = Idle /\ Asleep' = Asleep /\ (Ended' <=> Ended)
        /\ \A c \in Cos : Busy(c)' <=> Busy(c)
    BY <1>1, Names DEF Runnable, Idle, Asleep, Busy, Ended
  <1>3. Places'
    BY <1>2 DEF ProcInv, Places, Once
  <1>4. Registered'
    BY <1>2 DEF ProcInv, Registered
  <1>5. Executing'
    BY <1>1, <1>2, Names DEF ProcInv, Executing
  <1>6. OwnFds'
    BY DEF ProcInv, OwnFds
  <1>7. InHook'
    BY <1>1, <1>2, Names DEF ProcInv, InHook
  <1> QED
    BY <1>3, <1>4, <1>5, <1>6, <1>7 DEF ProcInv

\* The calls of other threads, of user code that goes on, and the kernel.
LEMMA OutsideKeeps ==
    ASSUME ProcInv,
           \/ \E t \in Threads : Thread(t) \/ Stop(t) \/ \E k \in Tasks : AddPendingTask(t, k)
           \/ UserStops \/ AlarmFires \/ \E s \in Socks : IoArrives(s)
    PROVE  ProcInv'
  <1> USE DEF coVars, queueVars, epollVars, timerVars, outside
  <1>1. CASE \E t \in Threads, k \in Tasks : AddPendingTask(t, k)
    <2>1. PICK t \in Threads, k \in Tasks : AddPendingTask(t, k)
      BY <1>1
    <2>2. /\ pendingTasks_' = Append(pendingTasks_, k) /\ added' = added \cup {k}
          /\ pc' = [pc EXCEPT ![t] = "test"] /\ Len(pendingTasks_) < Len(idleCoQue_)
          /\ UNCHANGED <<stop_, runnableCoQue_, idleCoQue_, epollVars, coVars, ppc, cur,
                         timerVars, readable>>
      BY <2>1 DEF AddPendingTask, MayAdd
    <2>3. pendingTasks_' \in Seq(Tasks) /\ Len(pendingTasks_') = Len(pendingTasks_) + 1
      BY <2>2, Types DEF ProcInv
    <2>4. Enough'
      <3>1. Len(pendingTasks_) \in Nat /\ Len(idleCoQue_) \in Nat
        BY Types DEF ProcInv
      <3> QED
        BY <2>2, <2>3, <3>1 DEF Enough
    <2>5. ProcTypeOK'
      BY <2>2, <2>3 DEF ProcInv, ProcTypeOK
    <2> QED
      BY <2>2, <2>4, <2>5, StillKeeps
  <1>2. CASE \E t \in Threads : Thread(t) \/ Stop(t)
    <2>1. PICK t \in Threads : Thread(t) \/ Stop(t)
      BY <1>2
    <2>2. /\ UNCHANGED <<queueVars, epollVars, coVars, ppc, cur, timerVars, added>>
          /\ stop_' \in {stop_, TRUE} /\ readable' \in {readable, readable \cup {wakeupFd_}}
          /\ \E x \in {"idle", "test", "write"} : pc' = [pc EXCEPT ![t] = x]
      BY <2>1 DEF Thread, Stop, TestEpolling, WakeupEpollCo
    <2>3. ProcTypeOK'
      BY <2>2, Names DEF ProcInv, ProcTypeOK
    <2>4. Enough'
      BY <2>2 DEF ProcInv, Enough
    <2> QED
      BY <2>2, <2>3, <2>4, StillKeeps
  <1>3. CASE UserStops \/ AlarmFires \/ \E s \in Socks : IoArrives(s)
    <2>1. /\ UNCHANGED <<queueVars, epollVars, coVars, ppc, cur, sleepers, outside>>
          /\ stop_' \in {stop_, TRUE} /\ armed' \in {armed, "off"}
          /\ \E f \in Fds : readable' \in {readable, readable \cup {f}}
      BY <1>3, Names DEF UserStops, AlarmFires, IoArrives
    <2>2. ProcTypeOK'
      BY <2>1 DEF ProcInv, ProcTypeOK
    <2>3. Enough'
      BY <2>1 DEF ProcInv, Enough
    <2> QED
      BY <2>1, <2>2, <2>3, StillKeeps
  <1> QED
    BY <1>1, <1>2, <1>3

\* The thread in run() and poll() when there is nothing to resume.
LEMMA LoopKeeps ==
    ASSUME ProcInv,
           \/ Run \/ SetEpolling \/ PollTest \/ WaitTimesOut
           \/ WhileTest /\ runnableCoQue_ = <<>>
    PROVE  ProcInv'
  <1> USE DEF coVars, queueVars, epollVars, timerVars, outside
  <1>1. /\ UNCHANGED <<queueVars, coMap_, coVars, cur, timerVars, readable, outside>>
        /\ stop_' \in {stop_, FALSE} /\ isEpolling_' \in {isEpolling_, TRUE, FALSE}
        /\ ppc \notin {"co", "after"}
        /\ ppc' \in {"while", "poll", "wait", "after", "ended", "epoll"}
        /\ ppc' \in {"epoll", "poll", "wait"} => runnableCoQue_ = <<>>
    BY DEF Run, SetEpolling, PollTest, WaitTimesOut, WhileTest, ProcInv, Executing
  <1>2. ProcTypeOK' /\ Enough'
    BY <1>1 DEF ProcInv, ProcTypeOK, Enough
  <1> QED
    BY <1>1, <1>2, StillKeeps

-----------------------------------------------------------------------------
(* Steps of the coroutine that runs.                                       *)

\* resume() of the first one in the run queue.
LEMMA ResumeKeeps ==
    ASSUME ProcInv, WhileTest, runnableCoQue_ # <<>>
    PROVE  ProcInv'
  <1> USE DEF coVars, queueVars, epollVars, timerVars, outside
  <1>1. /\ ppc = "while" /\ ppc' = "co" /\ cur' = Head(runnableCoQue_)
        /\ runnableCoQue_' = Tail(runnableCoQue_)
        /\ UNCHANGED <<stop_, idleCoQue_, pendingTasks_, epollVars, coVars, timerVars,
                       readable, outside>>
    BY DEF WhileTest
  <1>2. cur = NoCo /\ ~ Ended /\ runnableCoQue_ \in Seq(Cos) /\ Once(runnableCoQue_)
    BY <1>1, Types DEF ProcInv, Executing, Ended, Places
  <1>3. /\ runnableCoQue_' \in Seq(Cos) /\ Once(runnableCoQue_') /\ cur' \in Runnable
        /\ Runnable' = Runnable \ {cur'} /\ Idle' = Idle /\ Asleep' = Asleep
    BY <1>1, <1>2, TailFacts DEF Runnable, Idle, Asleep
  <1>4. cur' \in Cos /\ cur' # NoCo /\ state_[cur'] = "EXEC" /\ ~ Ended'
    BY <1>1, <1>3, Types, Names DEF ProcInv, Executing, Ended
  <1>5. \A c \in Cos : /\ Busy(c) <=> state_[c] = "HOLD"
                       /\ Busy(c)' <=> state_[c] = "HOLD" \/ c = cur'
    BY <1>1, <1>2, <1>4, Names DEF Busy
  <1>6. ProcTypeOK'
    BY <1>1, <1>3, <1>4 DEF ProcInv, ProcTypeOK
  <1>7. Places'
    BY <1>1, <1>3, <1>4, <1>5 DEF ProcInv, Places, Once
  <1>8. Registered'
    BY <1>1, <1>3 DEF ProcInv, Registered
  <1>9. Executing'
    BY <1>1, <1>3, <1>4 DEF ProcInv, Executing
  <1>10. OwnFds' /\ Enough'
    BY <1>1 DEF ProcInv, OwnFds, Enough
  <1>11. InHook'
    BY <1>1, <1>2, <1>4, Names DEF ProcInv, InHook
  <1> QED
    BY <1>6, <1>7, <1>8, <1>9, <1>10, <1>11 DEF ProcInv

\* The coroutine moves on inside its own code.
LEMMA MoveKeeps ==
    ASSUME ProcInv, ppc = "co", ProcTypeOK',
           UNCHANGED <<runnableCoQue_, idleCoQue_, sleepers, pendingTasks_, coMap_, fd_,
                       state_, body, cur, ppc>>,
           \A c \in Cos : c # cur => at'[c] = at[c] /\ io'[c] = io[c],
           at'[cur] = "read" =>
              io'[cur] \in Fds /\ fd_[cur] \in {NoFd, io'[cur]} /\ coMap_[io'[cur]] \in {NoCo, cur},
           at'[cur] # "resumed",
           io'[cur] \in {io[cur]} \cup Socks, body[cur] \in Own => io'[cur] = io[cur]
    PROVE  ProcInv'
  <1>1. /\ cur \in Cos /\ cur # NoCo /\ ~ Ended /\ ~ Ended'
    BY Current DEF Ended
  <1>2. /\ Runnable' = Runnable /\ Idle' = Idle /\ Asleep' = Asleep
        /\ \A c \in Cos : Busy(c)' <=> Busy(c)
    BY <1>1 DEF Runnable, Idle, Asleep, Busy
  <1>3. Places' /\ Enough'
    BY <1>2 DEF ProcInv, Places, Once, Enough
  <1>4. Registered' /\ Executing'
    BY <1>2 DEF ProcInv, Registered, Executing
  <1>5. OwnFds'
    BY <1>1, Names DEF ProcInv, OwnFds
  <1>6. InHook'
    BY <1>1 DEF ProcInv, InHook
  <1> QED
    BY <1>3, <1>4, <1>5, <1>6 DEF ProcInv

\* ioHook() and the loops of the processor's own coroutines.
LEMMA HookKeeps ==
    ASSUME ProcInv, LoopGoesOn \/ ReadSome \/ Resumed \/ DealAborts
    PROVE  ProcInv'
  <1> USE DEF coVars, queueVars, epollVars, timerVars, outside
  <1>1. /\ ppc = "co" /\ readable' \subseteq readable
        /\ \E x \in {"read", "top", "deal", "user", "aborted"} : at' = [at EXCEPT ![cur] = x]
        /\ UNCHANGED <<stop_, queueVars, epollVars, state_, fd_, body, io, ppc, cur,
                       timerVars, outside>>
    BY DEF LoopGoesOn, OwnRuns, Runs, ReadSome, Resumed, DealAborts, GoesTo, Continues
  <1>2. cur \in Cos
    BY <1>1, Current
  <1>3. /\ at' \in [Cos -> {"user", "top", "read", "resumed", "deal", "aborted"}]
        /\ at'[cur] # "resumed" /\ \A c \in Cos : c # cur => at'[c] = at[c]
    BY <1>1, <1>2, Types DEF ProcInv
  <1>4. ProcTypeOK'
    BY <1>1, <1>3 DEF ProcInv, ProcTypeOK
  <1>5. ASSUME at'[cur] = "read"
        PROVE  io[cur] \in Fds /\ fd_[cur] \in {NoFd, io[cur]} /\ coMap_[io[cur]] \in {NoCo, cur}
    <2>1. CASE LoopGoesOn
      <3>1. body[cur] \in Own
        BY <2>1 DEF LoopGoesOn, OwnRuns
      <3>2. io[cur] \in Fds /\ fd_[cur] \in {NoFd, io[cur]}
        BY <1>2, <3>1, Names DEF ProcInv, OwnFds
      <3>3. \A c \in Cos : fd_[c] = io[cur] => c = cur
        BY <1>2, <3>1, Names DEF ProcInv, OwnFds
      <3>4. coMap_[io[cur]] \in Cos \cup {NoCo}
        BY <3>2, Types DEF ProcInv
      <3> QED
        BY <3>2, <3>3, <3>4 DEF ProcInv, Registered
    <2>2. CASE ReadSome
      <3>1. at[cur] = "read"
        BY <2>2 DEF ReadSome, Runs
      <3> QED
        BY <1>2, <3>1 DEF ProcInv, InHook
    <2>3. CASE Resumed
      <3>1. at[cur] = "resumed"
        BY <2>3 DEF Resumed, Runs
      <3> QED
        BY <1>2, <3>1, Names DEF ProcInv, InHook, Registered
    <2>4. CASE DealAborts
      <3>1. at' = [at EXCEPT ![cur] = "aborted"]
        BY <2>4 DEF DealAborts, GoesTo
      <3> QED
        BY <1>2, <1>5, <3>1, Types DEF ProcInv
    <2> QED
      BY <2>1, <2>2, <2>3, <2>4
  <1> QED
    BY <1>1, <1>2, <1>3, <1>4, <1>5, MoveKeeps

\* A task calls a hooked function.
LEMMA UserIoKeeps ==
    ASSUME ProcInv, NEW s \in Socks, UserIo(s)
    PROVE  ProcInv'
  <1> USE DEF coVars, queueVars, epollVars, timerVars, outside
  <1>1. /\ ppc = "co" /\ body[cur] \in Tasks /\ MayWaitFor(s)
        /\ io' = [io EXCEPT ![cur] = s] /\ at' = [at EXCEPT ![cur] = "read"]
        /\ UNCHANGED <<stop_, queueVars, epollVars, state_, fd_, body, ppc, cur, timerVars,
                       readable, outside>>
    BY DEF UserIo, UserRuns, Runs
  <1>2. cur \in Cos /\ s \in Fds /\ body[cur] \notin Own
    BY <1>1, Current, Names
  <1>3. /\ at' \in [Cos -> {"user", "top", "read", "resumed", "deal", "aborted"}]
        /\ io' \in [Cos -> Fds \cup {NoFd}]
        /\ at'[cur] = "read" /\ io'[cur] = s
        /\ \A c \in Cos : c # cur => at'[c] = at[c] /\ io'[c] = io[c]
    BY <1>1, <1>2, Types DEF ProcInv
  <1>4. ProcTypeOK'
    BY <1>1, <1>3 DEF ProcInv, ProcTypeOK
  <1> QED
    BY <1>1, <1>2, <1>3, <1>4, MoveKeeps DEF MayWaitFor

\* RunInCo() has returned: the coroutine waits to be recycled.
LEMMA TerminateKeeps ==
    ASSUME ProcInv, LoopEnds \/ UserEnds
    PROVE  ProcInv'
  <1> USE DEF coVars, queueVars, epollVars, timerVars, outside
  <1>1. /\ ppc = "co" /\ ppc' = "after" /\ at[cur] \in {"top", "user"}
        /\ state_' = [state_ EXCEPT ![cur] = "TERM"] /\ body' = [body EXCEPT ![cur] = NoTask]
        /\ UNCHANGED <<stop_, queueVars, epollVars, fd_, at, io, cur, timerVars, readable,
                       outside>>
    BY DEF LoopEnds, OwnRuns, Runs, UserEnds, UserRuns, Terminates
  <1>2. /\ cur \in Cos /\ cur # NoCo /\ cur \notin Runnable \cup Idle \cup Asleep
        /\ \A c \in Cos : Busy(c) <=> state_[c] = "HOLD" \/ c = cur
    BY <1>1, Current
  <1>3. /\ state_' \in [Cos -> {"EXEC", "HOLD", "TERM"}]
        /\ body' \in [Cos -> Tasks \cup Own \cup {NoTask}]
        /\ state_'[cur] = "TERM" /\ body'[cur] = NoTask
        /\ \A c \in Cos : c # cur => state_'[c] = state_[c] /\ body'[c] = body[c]
    BY <1>1, <1>2, Types DEF ProcInv
  <1>4. ProcTypeOK'
    BY <1>1, <1>3 DEF ProcInv, ProcTypeOK
  <1>5. Ended' /\ Runnable' = Runnable /\ Idle' = Idle /\ Asleep' = Asleep
    BY <1>1, <1>2, <1>3 DEF Ended, Runnable, Idle, Asleep
  <1>6. \A c \in Cos : Busy(c)' <=> Busy(c)
    BY <1>1, <1>2, <1>3, <1>5 DEF Busy
  <1>7. Places' /\ Enough'
    BY <1>1, <1>5, <1>6 DEF ProcInv, Places, Once, Enough
  <1>8. Registered'
    BY <1>1, <1>3, <1>5 DEF ProcInv, Registered
  <1>9. Executing'
    BY <1>1, <1>2, <1>3, <1>5, Types DEF ProcInv, Executing
  <1>10. OwnFds'
    BY <1>1, <1>3, Names DEF ProcInv, OwnFds
  <1>11. InHook'
    BY <1>1, <1>2 DEF ProcInv, InHook
  <1> QED
    BY <1>4, <1>7, <1>8, <1>9, <1>10, <1>11 DEF ProcInv

\* updateEvent() and Yield(): the coroutine waits for an fd that it may wait for.
LEMMA HoldsKeeps ==
    ASSUME ProcInv, ReadHolds \/ \E s \in Socks : UserConnects(s)
    PROVE  ProcInv'
  <1> USE DEF coVars, queueVars, epollVars, timerVars, outside
  <1>1. PICK f \in Fds, l \in {"resumed", "user"} :
           /\ ppc = "co" /\ ppc' = "after" /\ Holds(f, l)
           /\ fd_[cur] \in {NoFd, f} /\ coMap_[f] \in {NoCo, cur}
           /\ io' = [io EXCEPT ![cur] = f]
           /\ f = wakeupFd_ => cur = Wake
           /\ f = timerfd_ => cur = timerQue
           /\ body[cur] \in Own => io[cur] = f
    <2>1. CASE ReadHolds
      <3>1. ppc = "co" /\ at[cur] = "read" /\ Holds(io[cur], "resumed") /\ io' = io
        BY <2>1 DEF ReadHolds, Runs
      <3>2. cur \in Cos
        BY <3>1, Current
      <3>3. io[cur] \in Fds /\ fd_[cur] \in {NoFd, io[cur]} /\ coMap_[io[cur]] \in {NoCo, cur}
        BY <3>1, <3>2 DEF ProcInv, InHook
      <3>4. io' = [io EXCEPT ![cur] = io[cur]]
        BY <3>1, <3>2, Types DEF ProcInv
      <3>5. ppc' = "after"
        BY <3>1 DEF Holds
      <3>6. (io[cur] = wakeupFd_ => cur = Wake) /\ (io[cur] = timerfd_ => cur = timerQue)
        BY <3>2 DEF ProcInv, OwnFds
      <3> QED
        BY <3>1, <3>3, <3>4, <3>5, <3>6
    <2>2. CASE \E s \in Socks : UserConnects(s)
      <3>1. PICK s \in Socks : UserConnects(s)
        BY <2>2
      <3>2. /\ ppc = "co" /\ body[cur] \in Tasks /\ MayWaitFor(s) /\ Holds(s, "user")
            /\ io' = [io EXCEPT ![cur] = s] /\ ppc' = "after"
        BY <3>1 DEF UserConnects, UserRuns, Runs, Holds
      <3>3. s \in Fds /\ body[cur] \notin Own /\ s # wakeupFd_ /\ s # timerfd_
        BY <3>2, Names
      <3> QED
        BY <3>2, <3>3 DEF MayWaitFor
    <2> QED
      BY <2>1, <2>2
  <1>2. /\ cur \in Cos /\ cur # NoCo /\ cur \notin Runnable \cup Idle \cup Asleep
        /\ \A c \in Cos : Busy(c) <=> state_[c] = "HOLD" \/ c = cur
    BY <1>1, Current
  <1>3. /\ coMap_' = [coMap_ EXCEPT ![f] = IF coMap_[f] = NoCo THEN cur ELSE coMap_[f]]
        /\ fd_' = IF coMap_[f] = NoCo THEN [fd_ EXCEPT ![cur] = f] ELSE fd_
        /\ state_' = [state_ EXCEPT ![cur] = "HOLD"] /\ at' = [at EXCEPT ![cur] = l]
        /\ UNCHANGED <<stop_, queueVars, isEpolling_, body, cur, timerVars, readable, outside>>
    BY <1>1 DEF Holds
  <1>4. /\ coMap_' \in [Fds -> Cos \cup {NoCo}] /\ coMap_'[f] = cur
        /\ \A g \in Fds : g # f => coMap_'[g] = coMap_[g]
    BY <1>1, <1>2, <1>3, Types DEF ProcInv
  <1>5. /\ fd_' \in [Cos -> Fds \cup {NoFd}]
        /\ \A c \in Cos : c # cur => fd_'[c] = fd_[c]
    BY <1>1, <1>2, <1>3, Types DEF ProcInv
  <1>6. fd_'[cur] = f
    <2>1. CASE coMap_[f] = NoCo
      BY <1>2, <1>3, <2>1, Types DEF ProcInv
    <2>2. CASE coMap_[f] = cur
      BY <1>2, <1>3, <2>2 DEF ProcInv, Registered
    <2> QED
      BY <1>1, <2>1, <2>2
  <1>7. /\ state_' \in [Cos -> {"EXEC", "HOLD", "TERM"}] /\ state_'[cur] = "HOLD"
        /\ at' \in [Cos -> {"user", "top", "read", "resumed", "deal", "aborted"}] /\ at'[cur] = l
        /\ io' \in [Cos -> Fds \cup {NoFd}] /\ io'[cur] = f
        /\ \A c \in Cos : c # cur => /\ state_'[c] = state_[c] /\ at'[c] = at[c]
                                     /\ io'[c] = io[c]
    BY <1>1, <1>2, <1>3, Types DEF ProcInv
  <1>8. ProcTypeOK'
    BY <1>1, <1>3, <1>4, <1>5, <1>7 DEF ProcInv, ProcTypeOK
  <1>9. ~ Ended' /\ Runnable' = Runnable /\ Idle' = Idle /\ Asleep' = Asleep
    BY <1>2, <1>3, <1>7 DEF Ended, Runnable, Idle, Asleep
  <1>10. \A c \in Cos : Busy(c)' <=> Busy(c)
    BY <1>1, <1>2, <1>3, <1>7, <1>9 DEF Busy
  <1>11. Places' /\ Enough'
    BY <1>3, <1>9, <1>10 DEF ProcInv, Places, Once, Enough
  <1>12. Registered'
    <2>1. ASSUME NEW g \in Fds, coMap_'[g] # NoCo PROVE fd_'[coMap_'[g]] = g
      <3>1. CASE g = f
        BY <1>4, <1>6, <3>1
      <3>2. CASE g # f
        <4>1. coMap_'[g] = coMap_[g] /\ coMap_[g] \in Cos /\ fd_[coMap_[g]] = g
          BY <1>4, <2>1, <3>2, Types DEF ProcInv, Registered
        <4>2. coMap_[g] # cur
          BY <1>1, <3>2, <4>1, Names
        <4> QED
          BY <1>5, <4>1, <4>2
      <3> QED
        BY <3>1, <3>2
    <2>2. ASSUME NEW c \in Cos, fd_'[c] # NoFd PROVE coMap_'[fd_'[c]] = c
      <3>1. CASE c = cur
        BY <1>4, <1>6, <3>1
      <3>2. CASE c # cur
        <4>1. fd_'[c] = fd_[c] /\ fd_[c] \in Fds /\ coMap_[fd_[c]] = c
          BY <1>5, <2>2, <3>2, Types DEF ProcInv, Registered
        <4>2. fd_[c] # f
          BY <1>1, <1>2, <3>2, <4>1, Names
        <4> QED
          BY <1>4, <4>1, <4>2
      <3> QED
        BY <3>1, <3>2
    <2>3. \A c \in Cos : state_'[c] = "HOLD" => fd_'[c] # NoFd
      BY <1>1, <1>5, <1>6, <1>7, Names DEF ProcInv, Registered
    <2>4. \A c \in Idle' \cup Asleep' : fd_'[c] = NoFd
      BY <1>2, <1>5, <1>9, Types DEF ProcInv, Registered
    <2> QED
      BY <2>1, <2>2, <2>3, <2>4 DEF Registered
  <1>13. Executing'
    BY <1>1, <1>2, <1>3, <1>7, <1>9, Types DEF ProcInv, Executing
  <1>14. OwnFds'
    <2>1. ASSUME NEW c \in Cos, c # cur
          PROVE  fd_'[c] = fd_[c] /\ io'[c] = io[c] /\ body'[c] = body[c]
      BY <1>3, <1>5, <1>7, <2>1
    <2>2. /\ body[cur] = Wake => cur = Wake /\ io[cur] = wakeupFd_
          /\ body[cur] = timerQue => cur = timerQue /\ io[cur] = timerfd_
      BY <1>2 DEF ProcInv, OwnFds
    <2>3. /\ fd_'[cur] = f /\ io'[cur] = f /\ body'[cur] = body[cur]
          /\ body[cur] = Wake => cur = Wake /\ f = wakeupFd_
          /\ body[cur] = timerQue => cur = timerQue /\ f = timerfd_
      BY <1>1, <1>3, <1>6, <1>7, <2>2, Names
    <2> QED
      BY <1>1, <2>1, <2>3 DEF ProcInv, OwnFds
  <1>15. InHook'
    BY <1>1, <1>2, <1>3, <1>5, <1>6, <1>7, <1>9 DEF ProcInv, InHook
  <1> QED
    BY <1>8, <1>11, <1>12, <1>13, <1>14, <1>15 DEF ProcInv

\* Sleepers whose time has come go to the run queue.
LEMMA DealKeeps ==
    ASSUME ProcInv, Deal
    PROVE  ProcInv'
  <1> USE DEF coVars, queueVars, epollVars, timerVars, outside
  <1>1. /\ ppc = "co" /\ at' = [at EXCEPT ![cur] = "top"]
        /\ UNCHANGED <<stop_, idleCoQue_, pendingTasks_, epollVars, fd_, body, io, ppc, cur,
                       readable, outside>>
    BY DEF Deal, Runs
  <1>2. /\ cur \in Cos /\ cur # NoCo /\ cur \notin Runnable \cup Idle \cup Asleep
        /\ state_[cur] = "EXEC" /\ \A c \in Cos : Busy(c) <=> state_[c] = "HOLD" \/ c = cur
    BY <1>1, Current
  <1>3. /\ at' \in [Cos -> {"user", "top", "read", "resumed", "deal", "aborted"}]
        /\ at'[cur] = "top"
        /\ \A c \in Cos : c # cur => at'[c] = at[c]
    BY <1>1, <1>2, Types DEF ProcInv
  <1>4. CASE UNCHANGED <<runnableCoQue_, state_, timerVars>>
    <2>1. ProcTypeOK'
      BY <1>1, <1>3, <1>4 DEF ProcInv, ProcTypeOK
    <2> QED
      BY <1>1, <1>3, <1>4, <2>1, MoveKeeps
  <1>5. ASSUME NEW n \in 0..Len(sleepers),
               runnableCoQue_' = runnableCoQue_ \o SubSeq(sleepers, 1, n),
               state_' = [c \in Cos |-> IF c \in Range(SubSeq(sleepers, 1, n)) THEN "EXEC"
                                        ELSE state_[c]],
               sleepers' = SubSeq(sleepers, n + 1, Len(sleepers)),
               armed' \in IF n < Len(sleepers) THEN ResetTimerfd ELSE {armed}
        PROVE  ProcInv'
    <2> DEFINE a == SubSeq(sleepers, 1, n)
               due == Range(a)
    <2>1. /\ Once(runnableCoQue_) /\ Once(idleCoQue_) /\ Once(sleepers)
          /\ Runnable \cap Idle = {} /\ Runnable \cap Asleep = {} /\ Idle \cap Asleep = {}
          /\ \A c \in Cos : Busy(c) <=> c \notin Runnable \cup Idle \cup Asleep
      BY DEF ProcInv, Places
    <2>2. /\ sleepers \in Seq(Cos) /\ runnableCoQue_ \in Seq(Cos) /\ Asleep \subseteq Cos
          /\ state_ \in [Cos -> {"EXEC", "HOLD", "TERM"}]
      BY Types DEF ProcInv
    <2>3. /\ a \in Seq(Cos) /\ sleepers' \in Seq(Cos) /\ Once(a) /\ Once(sleepers')
          /\ due \cap Asleep' = {} /\ due \cup Asleep' = Asleep
      BY <1>5, <2>1, <2>2, SplitFacts DEF Asleep
    <2> HIDE DEF a
    <2>4. /\ runnableCoQue_' \in Seq(Cos) /\ Runnable' = Runnable \cup due
          /\ Once(runnableCoQue_')
      <3>1. Range(runnableCoQue_) \cap Range(a) = {}
        BY <2>1, <2>3 DEF Runnable
      <3> QED
        BY <1>5, <2>1, <2>2, <2>3, <3>1, ConcatFacts DEF Runnable, a
    <2>5. /\ \A c \in due : state_'[c] = "EXEC"
          /\ \A c \in Cos : c \notin due => state_'[c] = state_[c]
          /\ state_' \in [Cos -> {"EXEC", "HOLD", "TERM"}]
      BY <1>5, <2>2, <2>3 DEF a
    <2> HIDE DEF due
    <2>6. ProcTypeOK'
      <3>1. armed' \in {"off", "on", "wrapped"}
        BY <1>5 DEF ResetTimerfd, ProcInv, ProcTypeOK
      <3> QED
        BY <1>1, <1>3, <1>5, <2>3, <2>4, <2>5, <3>1 DEF ProcInv, ProcTypeOK
    <2>7. ~ Ended /\ ~ Ended' /\ Idle' = Idle /\ cur \notin due
      BY <1>1, <1>2, <2>3, <2>5 DEF Ended, Idle
    <2>8. \A c \in Cos : /\ state_[c] = "HOLD" <=> state_'[c] = "HOLD"
                         /\ Busy(c)' <=> state_[c] = "HOLD" \/ c = cur
      BY <1>1, <1>2, <2>1, <2>3, <2>5, <2>7 DEF Busy
    <2>9. Places'
      BY <1>1, <1>2, <2>1, <2>3, <2>4, <2>7, <2>8 DEF Places
    <2>10. Registered'
      BY <1>1, <2>3, <2>7, <2>8 DEF ProcInv, Registered
    <2>11. Executing'
      BY <1>1, <1>2, <2>2, <2>3, <2>4, <2>5, <2>7, Types DEF ProcInv, Executing
    <2>12. OwnFds' /\ Enough'
      BY <1>1 DEF ProcInv, OwnFds, Enough
    <2>13. InHook'
      BY <1>1, <1>2, <1>3, <2>7 DEF ProcInv, InHook
    <2> QED
      BY <2>6, <2>9, <2>10, <2>11, <2>12, <2>13 DEF ProcInv
  <1> QED
    BY <1>4, <1>5 DEF Deal

\* sleep(): the coroutine is with the timers and nowhere else.
LEMMA SleepKeeps ==
    ASSUME ProcInv, UserSleeps
    PROVE  ProcInv'
  <1> USE DEF coVars, queueVars, epollVars, timerVars, outside
  <1>1. PICK n \in 1..Len(sleepers) + 1 :
           /\ sleepers' = InsertAt(sleepers, n, cur)
           /\ armed' \in IF n = 1 THEN ResetTimerfd ELSE {armed}
    BY DEF UserSleeps
  <1>2. /\ ppc = "co" /\ at[cur] = "user" /\ fd_[cur] = NoFd /\ ppc' = "after"
        /\ UNCHANGED <<stop_, queueVars, epollVars, coVars, cur, readable, outside>>
    BY DEF UserSleeps, UserRuns, Runs
  <1>3. /\ cur \in Cos /\ cur # NoCo /\ cur \notin Runnable \cup Idle \cup Asleep /\ ~ Ended
        /\ state_[cur] = "EXEC" /\ \A c \in Cos : Busy(c) <=> state_[c] = "HOLD" \/ c = cur
    BY <1>2, Current
  <1>4. sleepers' \in Seq(Cos) /\ Once(sleepers') /\ Asleep' = Asleep \cup {cur}
    BY <1>1, <1>3, Types, InsertFacts DEF ProcInv, Places, Asleep
  <1>5. ~ Ended' /\ Runnable' = Runnable /\ Idle' = Idle
    BY <1>2, <1>3 DEF Ended, Runnable, Idle
  <1>6. \A c \in Cos : Busy(c)' <=> state_[c] = "HOLD"
    BY <1>2, <1>5 DEF Busy
  <1>7. armed' \in {"off", "on", "wrapped"}
    BY <1>1 DEF ResetTimerfd, ProcInv, ProcTypeOK
  <1>8. ProcTypeOK'
    BY <1>2, <1>4, <1>7 DEF ProcInv, ProcTypeOK
  <1>9. Places'
    BY <1>2, <1>3, <1>4, <1>5, <1>6 DEF ProcInv, Places
  <1>10. Registered'
    BY <1>2, <1>4, <1>5 DEF ProcInv, Registered
  <1>11. Executing' /\ OwnFds' /\ Enough'
    BY <1>2, <1>5 DEF ProcInv, Executing, OwnFds, Enough
  <1>12. InHook'
    BY <1>2, <1>5 DEF ProcInv, InHook
  <1> QED
    BY <1>8, <1>9, <1>10, <1>11, <1>12 DEF ProcInv

-----------------------------------------------------------------------------
(* Events and tasks.                                                       *)

\* Who is registered when poll() waits is held by its event.
LEMMA RegisteredIsHeld ==
    ASSUME ProcInv, ppc = "wait", NEW f \in Fds, coMap_[f] # NoCo
    PROVE  coMap_[f] \in Cos /\ state_[coMap_[f]] = "HOLD" /\ fd_[coMap_[f]] = f
  <1>1. coMap_[f] \in Cos /\ fd_[coMap_[f]] = f
    BY Types DEF ProcInv, Registered
  <1>2. cur = NoCo /\ Runnable = {} /\ ~ Ended
    BY Types, RangeFacts DEF ProcInv, Executing, Runnable, Ended
  <1>3. coMap_[f] \notin Idle \cup Asleep
    BY <1>1, Names DEF ProcInv, Registered
  <1>4. Busy(coMap_[f])
    BY <1>1, <1>2, <1>3 DEF ProcInv, Places
  <1> QED
    BY <1>1, <1>2, <1>4, Names DEF Busy

\* epoll_wait() returns: those whose events are reported become runnable.
LEMMA WaitReturnsKeeps ==
    ASSUME ProcInv, WaitReturns
    PROVE  ProcInv'
  <1> USE DEF coVars, queueVars, epollVars, timerVars, outside
  <1> DEFINE due == {coMap_[f] : f \in Reported}
  <1>1. /\ ppc = "wait" /\ ppc' = "after" /\ isEpolling_' = FALSE
        /\ state_' = [c \in Cos |-> IF \E f \in Reported : coMap_[f] = c THEN "EXEC"
                                    ELSE state_[c]]
        /\ UNCHANGED <<stop_, idleCoQue_, pendingTasks_, coMap_, fd_, body, at, io, cur,
                       timerVars, readable, outside>>
    BY DEF WaitReturns
  <1>2. PICK s \in SetToSeqs(due) : runnableCoQue_' = runnableCoQue_ \o s
    BY DEF WaitReturns
  <1>3. Reported \subseteq Fds /\ \A f \in Reported : coMap_[f] # NoCo
    BY DEF Reported, ProcInv, ProcTypeOK
  <1>4. \A c \in due : c \in Cos /\ state_[c] = "HOLD" /\ fd_[c] # NoFd
    BY <1>1, <1>3, RegisteredIsHeld, Names
  <1>5. IsFiniteSet(due)
    <2>1. IsFiniteSet(Own)
      <3>1. IsFiniteSet({Wake}) /\ IsFiniteSet({timerQue})
        BY FS_Singleton
      <3>2. Own = {Wake} \cup {timerQue}
        BY DEF Own
      <3> QED
        BY <3>1, <3>2, FS_Union
    <2>2. IsFiniteSet(Cos)
      BY <2>1, ProcAssumption, FS_Union DEF Cos
    <2>3. due \in SUBSET Cos
      BY <1>4
    <2> HIDE DEF due
    <2> QED
      BY <2>2, <2>3, FS_Subset
  <1>6. /\ state_' \in [Cos -> {"EXEC", "HOLD", "TERM"}]
        /\ \A c \in due : state_'[c] = "EXEC"
        /\ \A c \in Cos : c \notin due => state_'[c] = state_[c]
    BY <1>1, <1>4, Types DEF ProcInv
  <1> HIDE DEF due
  <1>7. s \in Seq(due) /\ Once(s) /\ Range(s) = due
    BY <1>5, SetToSeqsFacts
  <1>8. s \in Seq(Cos)
    BY <1>4, <1>7
  <1>9. /\ cur = NoCo /\ ~ Ended /\ ~ Ended' /\ runnableCoQue_ = <<>> /\ Runnable = {}
        /\ Idle' = Idle /\ Asleep' = Asleep /\ runnableCoQue_ \in Seq(Cos)
    BY <1>1, Types, RangeFacts DEF ProcInv, Executing, Ended, Runnable, Idle, Asleep
  <1>10. runnableCoQue_' \in Seq(Cos) /\ Once(runnableCoQue_') /\ Runnable' = due
    <2>1. <<>> \o s = s
      BY <1>8
    <2>2. runnableCoQue_' = s
      BY <1>2, <1>9, <2>1
    <2> QED
      BY <1>7, <1>8, <2>2 DEF Runnable
  <1>11. \A c \in Cos : /\ Busy(c) <=> state_[c] = "HOLD"
                        /\ Busy(c)' <=> state_[c] = "HOLD" /\ c \notin due
    BY <1>1, <1>4, <1>6, <1>9, Names DEF Busy
  <1>12. ProcTypeOK'
    <2>1. idleCoQue_' \in Seq(Cos) /\ sleepers' \in Seq(Cos)
      BY <1>1, Types DEF ProcInv
    <2> QED
      BY <1>1, <1>6, <1>10, <2>1 DEF ProcInv, ProcTypeOK
  <1>13. Places'
    <2>1. /\ Once(idleCoQue_) /\ Once(sleepers) /\ Idle \cap Asleep = {}
          /\ \A c \in Cos : state_[c] = "HOLD" <=> c \notin Idle \cup Asleep
      BY <1>9, <1>11 DEF ProcInv, Places
    <2>2. due \cap Idle = {} /\ due \cap Asleep = {}
      BY <1>4, <2>1
    <2> QED
      BY <1>1, <1>9, <1>10, <1>11, <2>1, <2>2 DEF Places
  <1>14. Registered'
    BY <1>1, <1>6, <1>9 DEF ProcInv, Registered
  <1>15. Executing'
    BY <1>1, <1>6, <1>10 DEF ProcInv, Executing
  <1>16. OwnFds' /\ Enough'
    BY <1>1 DEF ProcInv, OwnFds, Enough
  <1>17. InHook'
    BY <1>1, <1>9 DEF ProcInv, InHook
  <1> QED
    BY <1>12, <1>13, <1>14, <1>15, <1>16, <1>17 DEF ProcInv

-----------------------------------------------------------------------------
(* Steps that give idle coroutines something to do.                        *)

\* resetAndGetCo() and addTask(): the first idle ones run the tasks, from their beginning.
LEMMA StartsFacts ==
    ASSUME ProcTypeOK, NEW ks \in Seq(Tasks), NEW idle \in Seq(Cos), Starts(ks, idle),
           Len(ks) <= Len(idle), Once(idle), Once(runnableCoQue_),
           Runnable \cap Range(idle) = {}
    PROVE  \E new \in SUBSET Cos :
              /\ new \subseteq Range(idle) /\ Runnable' = Runnable \cup new
              /\ Idle' = Range(idle) \ new
              /\ runnableCoQue_' \in Seq(Cos) /\ idleCoQue_' \in Seq(Cos)
              /\ Once(runnableCoQue_') /\ Once(idleCoQue_')
              /\ Len(idleCoQue_') = Len(idle) - Len(ks)
              /\ state_' \in [Cos -> {"EXEC", "HOLD", "TERM"}]
              /\ body' \in [Cos -> Tasks \cup Own \cup {NoTask}]
              /\ at' \in [Cos -> {"user", "top", "read", "resumed", "deal", "aborted"}]
              /\ io' \in [Cos -> Fds \cup {NoFd}]
              /\ \A c \in new : /\ state_'[c] = "EXEC" /\ body'[c] \in Tasks
                                /\ at'[c] = "user" /\ io'[c] = NoFd
              /\ \A c \in Cos : c \notin new =>
                    /\ state_'[c] = state_[c] /\ body'[c] = body[c]
                    /\ at'[c] = at[c] /\ io'[c] = io[c]
  <1> DEFINE n == Len(ks)
             cs == SubSeq(idle, 1, n)
             rest == SubSeq(idle, n + 1, Len(idle))
             new == Range(cs)
             task(c) == ks[CHOOSE i \in 1..n : cs[i] = c]
  <1>1. /\ idleCoQue_' = rest /\ runnableCoQue_' = runnableCoQue_ \o cs
        /\ state_' = [c \in Cos |-> IF c \in new THEN "EXEC" ELSE state_[c]]
        /\ body' = [c \in Cos |-> IF c \in new THEN task(c) ELSE body[c]]
        /\ at' = [c \in Cos |-> IF c \in new THEN "user" ELSE at[c]]
        /\ io' = [c \in Cos |-> IF c \in new THEN NoFd ELSE io[c]]
    BY DEF Starts
  <1>2. n \in 0..Len(idle)
    OBVIOUS
  <1>3. /\ cs \in Seq(Cos) /\ rest \in Seq(Cos) /\ Once(cs) /\ Once(rest)
        /\ Len(cs) = n /\ Len(rest) = Len(idle) - n
        /\ new \cap Range(rest) = {} /\ new \cup Range(rest) = Range(idle)
    BY <1>2, SplitFacts
  <1>4. ASSUME NEW c \in new PROVE task(c) \in Tasks
    <2> HIDE DEF cs
    <2>1. \A x : x \in Range(cs) <=> \E i \in 1..Len(cs) : cs[i] = x
      BY <1>3, RangeFacts
    <2>2. \E i \in 1..n : cs[i] = c
      BY <1>3, <2>1
    <2>3. (CHOOSE i \in 1..n : cs[i] = c) \in 1..n
      BY <2>2
    <2>4. \A i \in 1..n : ks[i] \in Tasks
      OBVIOUS
    <2> QED
      BY <2>3, <2>4
  <1> HIDE DEF n, cs, rest, task
  <1>5. /\ runnableCoQue_' \in Seq(Cos) /\ Once(runnableCoQue_')
        /\ Runnable' = Runnable \cup new
    <2>1. runnableCoQue_ \in Seq(Cos)
      BY Types
    <2>2. Range(runnableCoQue_) \cap Range(cs) = {}
      BY <1>3 DEF Runnable
    <2>3. /\ runnableCoQue_ \o cs \in Seq(Cos) /\ Once(runnableCoQue_ \o cs)
          /\ Range(runnableCoQue_ \o cs) = Range(runnableCoQue_) \cup Range(cs)
      BY <1>3, <2>1, <2>2, ConcatFacts
    <2> QED
      BY <1>1, <2>3 DEF Runnable
  <1>6. /\ idleCoQue_' \in Seq(Cos) /\ Once(idleCoQue_') /\ Idle' = Range(idle) \ new
        /\ Len(idleCoQue_') = Len(idle) - Len(ks)
    <2>1. Idle' = Range(rest)
      BY <1>1 DEF Idle
    <2> QED
      BY <1>1, <1>3, <2>1 DEF n
  <1>7. new \in SUBSET Cos /\ new \subseteq Range(idle)
    BY <1>3, RangeFacts
  <1> HIDE DEF new
  <1>8. /\ state_' \in [Cos -> {"EXEC", "HOLD", "TERM"}]
        /\ body' \in [Cos -> Tasks \cup Own \cup {NoTask}]
        /\ at' \in [Cos -> {"user", "top", "read", "resumed", "deal", "aborted"}]
        /\ io' \in [Cos -> Fds \cup {NoFd}]
    BY <1>1, <1>4, Types
  <1>9. \A c \in new : /\ state_'[c] = "EXEC" /\ body'[c] \in Tasks
                       /\ at'[c] = "user" /\ io'[c] = NoFd
    BY <1>1, <1>4, <1>7
  <1>10. \A c \in Cos : c \notin new => /\ state_'[c] = state_[c] /\ body'[c] = body[c]
                                        /\ at'[c] = at[c] /\ io'[c] = io[c]
    BY <1>1
  <1> QED
    BY <1>5, <1>6, <1>7, <1>8, <1>9, <1>10

\* A task calls addTask().
LEMMA UserAddsKeeps ==
    ASSUME ProcInv, NEW k \in Tasks, UserAdds(k)
    PROVE  ProcInv'
  <1> USE DEF coVars, queueVars, epollVars, timerVars, outside
  <1>1. /\ ppc = "co" /\ Starts(<<k>>, idleCoQue_) /\ added' = added \cup {k}
        /\ Len(pendingTasks_) < Len(idleCoQue_)
        /\ UNCHANGED <<stop_, pendingTasks_, epollVars, fd_, ppc, cur, timerVars, readable, pc>>
    BY DEF UserAdds, UserRuns, Runs, MayAdd
  <1>2. /\ cur \in Cos /\ cur # NoCo /\ cur \notin Runnable \cup Idle \cup Asleep
        /\ state_[cur] = "EXEC" /\ \A c \in Cos : Busy(c) <=> state_[c] = "HOLD" \/ c = cur
    BY <1>1, Current
  <1>3. /\ idleCoQue_ \in Seq(Cos) /\ <<k>> \in Seq(Tasks) /\ Len(<<k>>) = 1
        /\ Len(idleCoQue_) \in Nat /\ Len(pendingTasks_) \in Nat
    BY Types DEF ProcInv
  <1>4. /\ Once(runnableCoQue_) /\ Once(idleCoQue_) /\ Once(sleepers)
        /\ Runnable \cap Idle = {} /\ Runnable \cap Asleep = {} /\ Idle \cap Asleep = {}
        /\ \A c \in Cos : Busy(c) <=> c \notin Runnable \cup Idle \cup Asleep
    BY DEF ProcInv, Places
  <1>5. Len(<<k>>) <= Len(idleCoQue_)
    BY <1>1, <1>3
  <1>6. PICK new \in SUBSET Cos :
           /\ new \subseteq Idle /\ Runnable' = Runnable \cup new
           /\ Idle' = Idle \ new
           /\ runnableCoQue_' \in Seq(Cos) /\ idleCoQue_' \in Seq(Cos)
           /\ Once(runnableCoQue_') /\ Once(idleCoQue_')
           /\ Len(idleCoQue_') = Len(idleCoQue_) - Len(<<k>>)
           /\ state_' \in [Cos -> {"EXEC", "HOLD", "TERM"}]
           /\ body' \in [Cos -> Tasks \cup Own \cup {NoTask}]
           /\ at' \in [Cos -> {"user", "top", "read", "resumed", "deal", "aborted"}]
           /\ io' \in [Cos -> Fds \cup {NoFd}]
           /\ \A c \in new : /\ state_'[c] = "EXEC" /\ body'[c] \in Tasks
                             /\ at'[c] = "user" /\ io'[c] = NoFd
           /\ \A c \in Cos : c \notin new =>
                 /\ state_'[c] = state_[c] /\ body'[c] = body[c]
                 /\ at'[c] = at[c] /\ io'[c] = io[c]
    <2>1. ProcTypeOK /\ Runnable \cap Range(idleCoQue_) = {}
      BY <1>4 DEF ProcInv, Idle
    <2> QED
      BY <1>1, <1>3, <1>4, <1>5, <2>1, StartsFacts DEF Idle
  <1>7. ProcTypeOK'
    <2>1. sleepers' \in Seq(Cos)
      BY <1>1, Types DEF ProcInv
    <2> QED
      BY <1>1, <1>6, <2>1 DEF ProcInv, ProcTypeOK
  <1>8. Enough'
    BY <1>1, <1>3, <1>6 DEF Enough
  <1>9. cur \notin new /\ state_'[cur] = "EXEC" /\ ~ Ended' /\ Asleep' = Asleep
    BY <1>1, <1>2, <1>6 DEF Ended, Asleep
  <1>10. \A c \in Cos : /\ state_[c] = "HOLD" <=> state_'[c] = "HOLD"
                        /\ Busy(c)' <=> Busy(c)
    <2>1. \A c \in new : state_[c] # "HOLD"
      BY <1>2, <1>4, <1>6
    <2>2. \A c \in Cos : state_[c] = "HOLD" <=> state_'[c] = "HOLD"
      BY <1>6, <2>1
    <2> QED
      BY <1>1, <1>2, <1>9, <2>2 DEF Busy
  <1>11. Places'
    <2>1. Once(sleepers')
      BY <1>1, <1>4
    <2>2. /\ Runnable' \cap Idle' = {} /\ Runnable' \cap Asleep' = {} /\ Idle' \cap Asleep' = {}
          /\ Runnable' \cup Idle' \cup Asleep' = Runnable \cup Idle \cup Asleep
      BY <1>4, <1>6, <1>9
    <2> QED
      BY <1>4, <1>6, <1>10, <2>1, <2>2 DEF Places
  <1>12. Registered'
    BY <1>1, <1>6, <1>9, <1>10 DEF ProcInv, Registered
  <1>13. Executing'
    BY <1>1, <1>2, <1>6, <1>9, Types DEF ProcInv, Executing
  <1>14. OwnFds'
    <2>1. fd_' = fd_ /\ OwnFds
      BY <1>1 DEF ProcInv
    <2>2. \A c \in Cos : c \notin new => body'[c] = body[c] /\ io'[c] = io[c]
      BY <1>6
    <2>3. \A c \in new : body'[c] \notin Own /\ io'[c] = NoFd
      BY <1>6, Names
    <2>4. NoFd # wakeupFd_ /\ NoFd # timerfd_ /\ Wake \in Own /\ timerQue \in Own
      BY Names
    <2> QED
      BY <2>1, <2>2, <2>3, <2>4 DEF OwnFds
  <1>15. InHook'
    BY <1>1, <1>6, <1>9 DEF ProcInv, InHook
  <1> QED
    BY <1>7, <1>8, <1>11, <1>12, <1>13, <1>14, <1>15 DEF ProcInv

\* resume() has returned: who has ended is recycled, and pending tasks are started.
LEMMA AfterResumeKeeps ==
    ASSUME ProcInv, AfterResume
    PROVE  ProcInv'
  <1> USE DEF coVars, queueVars, epollVars, timerVars, outside
  <1> DEFINE idle == IdleThen
             gone == IF Ended THEN {cur} ELSE {}
  <1>1. /\ ppc = "after" /\ ppc' = "while" /\ cur' = NoCo /\ RemoveEvent
        /\ Starts(pendingTasks_, idle)
        /\ pendingTasks_' = SubSeq(pendingTasks_, Len(pendingTasks_) + 1, Len(pendingTasks_))
        /\ UNCHANGED <<stop_, isEpolling_, timerVars, readable, outside>>
    BY DEF AfterResume, Taken
  <1>2. /\ idleCoQue_ \in Seq(Cos) /\ pendingTasks_ \in Seq(Tasks)
        /\ Len(idleCoQue_) \in Nat /\ Len(pendingTasks_) \in Nat
        /\ Len(pendingTasks_) <= Len(idleCoQue_)
    BY Types DEF ProcInv, Enough
  <1>3. /\ Once(runnableCoQue_) /\ Once(idleCoQue_) /\ Once(sleepers)
        /\ Runnable \cap Idle = {} /\ Runnable \cap Asleep = {} /\ Idle \cap Asleep = {}
        /\ \A c \in Cos : Busy(c) <=> c \notin Runnable \cup Idle \cup Asleep
    BY DEF ProcInv, Places
  <1>4. Ended => cur \in Cos /\ state_[cur] = "TERM"
                 /\ cur \notin Runnable \cup Idle \cup Asleep
    BY <1>3, Types DEF ProcInv, Ended, Busy
  <1>5. \A c \in Cos : Busy(c) <=> state_[c] = "HOLD" \/ c \in gone
    BY <1>1 DEF Busy, Ended
  <1>6. /\ idle \in Seq(Cos) /\ Once(idle) /\ Range(idle) = Idle \cup gone
        /\ Len(pendingTasks_) <= Len(idle)
    <2>1. CASE ~ Ended
      BY <1>2, <1>3, <2>1 DEF IdleThen, Idle
    <2>2. CASE Ended
      <3>1. idle = Append(idleCoQue_, cur) /\ gone = {cur}
        BY <2>2 DEF IdleThen
      <3>2. cur \in Cos /\ cur \notin Range(idleCoQue_)
        BY <1>4, <2>2 DEF Idle
      <3>3. /\ Append(idleCoQue_, cur) \in Seq(Cos) /\ Once(Append(idleCoQue_, cur))
            /\ Range(Append(idleCoQue_, cur)) = Range(idleCoQue_) \cup {cur}
            /\ Len(Append(idleCoQue_, cur)) = Len(idleCoQue_) + 1
        BY <1>2, <1>3, <3>2, AppendFacts
      <3>4. Len(pendingTasks_) <= Len(idleCoQue_) + 1
        BY <1>2
      <3> QED
        BY <3>1, <3>3, <3>4 DEF Idle
    <2> QED
      BY <2>1, <2>2
  <1>7. gone \subseteq Cos /\ \A c \in gone : c = cur /\ Ended
    BY <1>4
  <1>8. /\ coMap_' \in [Fds -> Cos \cup {NoCo}] /\ fd_' \in [Cos -> Fds \cup {NoFd}]
        /\ \A c \in gone : fd_'[c] = NoFd
        /\ \A c \in Cos : c \notin gone => fd_'[c] = fd_[c]
        /\ \A f \in Fds : coMap_'[f] = IF coMap_[f] \in gone THEN NoCo ELSE coMap_[f]
    <2>1. CASE ~ Ended
      <3>1. coMap_' = coMap_ /\ fd_' = fd_ /\ gone = {}
        BY <1>1, <2>1, Types DEF ProcInv, RemoveEvent
      <3> QED
        BY <3>1, Types DEF ProcInv
    <2>2. CASE Ended
      <3>1. /\ coMap_' = [f \in Fds |-> IF f = fd_[cur] THEN NoCo ELSE coMap_[f]]
            /\ fd_' = [fd_ EXCEPT ![cur] = NoFd] /\ gone = {cur} /\ cur \in Cos
        BY <1>1, <1>4, <2>2 DEF RemoveEvent
      <3>2. /\ coMap_ \in [Fds -> Cos \cup {NoCo}] /\ fd_ \in [Cos -> Fds \cup {NoFd}]
            /\ \A f \in Fds : coMap_[f] # NoCo => fd_[coMap_[f]] = f
            /\ \A c \in Cos : fd_[c] # NoFd => coMap_[fd_[c]] = c
        BY Types DEF ProcInv, Registered
      <3>3. \A f \in Fds : f = fd_[cur] <=> coMap_[f] = cur
        BY <3>1, <3>2, Names
      <3> QED
        BY <3>1, <3>2, <3>3
    <2> QED
      BY <2>1, <2>2
  <1> HIDE DEF idle, gone
  <1>9. PICK new \in SUBSET Cos :
           /\ new \subseteq Range(idle) /\ Runnable' = Runnable \cup new
           /\ Idle' = Range(idle) \ new
           /\ runnableCoQue_' \in Seq(Cos) /\ idleCoQue_' \in Seq(Cos)
           /\ Once(runnableCoQue_') /\ Once(idleCoQue_')
           /\ Len(idleCoQue_') = Len(idle) - Len(pendingTasks_)
           /\ state_' \in [Cos -> {"EXEC", "HOLD", "TERM"}]
           /\ body' \in [Cos -> Tasks \cup Own \cup {NoTask}]
           /\ at' \in [Cos -> {"user", "top", "read", "resumed", "deal", "aborted"}]
           /\ io' \in [Cos -> Fds \cup {NoFd}]
           /\ \A c \in new : /\ state_'[c] = "EXEC" /\ body'[c] \in Tasks
                             /\ at'[c] = "user" /\ io'[c] = NoFd
           /\ \A c \in Cos : c \notin new =>
                 /\ state_'[c] = state_[c] /\ body'[c] = body[c]
                 /\ at'[c] = at[c] /\ io'[c] = io[c]
    <2>1. Runnable \cap Range(idle) = {}
      BY <1>3, <1>4, <1>6, <1>7
    <2>2. ProcTypeOK
      BY DEF ProcInv
    <2> QED
      BY <1>1, <1>2, <1>3, <1>6, <2>1, <2>2, StartsFacts
  <1>10. pendingTasks_' \in Seq(Tasks) /\ Len(pendingTasks_') = 0
    BY <1>1, <1>2
  <1>11. Enough'
    <2>1. Len(idleCoQue_') \in Nat
      BY <1>9
    <2> QED
      BY <1>10, <2>1 DEF Enough
  <1>12. ProcTypeOK'
    <2>1. sleepers' \in Seq(Cos)
      BY <1>1, Types DEF ProcInv
    <2> QED
      BY <1>1, <1>8, <1>9, <1>10, <2>1 DEF ProcInv, ProcTypeOK
  <1>13. ~ Ended' /\ Asleep' = Asleep
    BY <1>1 DEF Ended, Asleep
  <1>14. \A c \in Cos : /\ state_[c] = "HOLD" <=> state_'[c] = "HOLD"
                        /\ Busy(c)' <=> state_[c] = "HOLD"
    <2>1. \A c \in new : state_[c] # "HOLD"
      BY <1>3, <1>4, <1>5, <1>6, <1>7, <1>9
    <2>2. \A c \in Cos : state_[c] = "HOLD" <=> state_'[c] = "HOLD"
      BY <1>9, <2>1
    <2> QED
      BY <1>1, <2>2, Names DEF Busy
  <1>15. Places'
    <2>1. Once(sleepers')
      BY <1>1, <1>3
    <2>2. \A c \in gone : state_[c] # "HOLD" /\ c \notin Runnable \cup Idle \cup Asleep
      BY <1>4, <1>7
    <2>3. /\ Runnable' \cap Idle' = {} /\ Runnable' \cap Asleep' = {} /\ Idle' \cap Asleep' = {}
          /\ Runnable' \cup Idle' \cup Asleep' = Runnable \cup Idle \cup Asleep \cup gone
      BY <1>3, <1>6, <1>9, <1>13, <2>2
    <2>4. \A c \in Cos : Busy(c)' <=> c \notin Runnable' \cup Idle' \cup Asleep'
      BY <1>3, <1>5, <1>14, <2>2, <2>3
    <2> QED
      BY <1>9, <2>1, <2>3, <2>4 DEF Places
  <1>16. Registered'
    <2>1. ASSUME NEW f \in Fds, coMap_'[f] # NoCo PROVE fd_'[coMap_'[f]] = f
      <3>1. coMap_'[f] = coMap_[f] /\ coMap_[f] \in Cos /\ coMap_[f] \notin gone
        BY <1>8, <2>1
      <3> QED
        BY <1>8, <2>1, <3>1 DEF ProcInv, Registered
    <2>2. ASSUME NEW c \in Cos, fd_'[c] # NoFd PROVE coMap_'[fd_'[c]] = c
      <3>1. c \notin gone /\ fd_'[c] = fd_[c] /\ fd_[c] \in Fds
        BY <1>8, <2>2
      <3>2. coMap_[fd_[c]] = c
        BY <2>2, <3>1 DEF ProcInv, Registered
      <3> QED
        BY <1>8, <3>1, <3>2
    <2>3. \A c \in Cos : state_'[c] = "HOLD" => fd_'[c] # NoFd
      BY <1>4, <1>7, <1>8, <1>14 DEF ProcInv, Registered
    <2>4. \A c \in Idle' \cup Asleep' : fd_'[c] = NoFd
      <3>1. Idle' \cup Asleep' \subseteq Idle \cup Asleep \cup gone
        BY <1>6, <1>9, <1>13
      <3>2. Idle \cup Asleep \subseteq Cos
        BY Types DEF ProcInv
      <3> QED
        BY <1>8, <3>1, <3>2 DEF ProcInv, Registered
    <2> QED
      BY <2>1, <2>2, <2>3, <2>4 DEF Registered
  <1>17. Executing'
    <2>1. \A c \in Runnable' : state_'[c] = "EXEC"
      <3>1. Runnable \subseteq Cos /\ \A c \in Runnable : state_[c] = "EXEC"
        BY Types DEF ProcInv, Executing
      <3> QED
        BY <1>9, <3>1
    <2> QED
      BY <1>1, <2>1 DEF Executing
  <1>18. OwnFds'
    <2>1. OwnFds /\ \A c \in Cos : fd_'[c] \in {fd_[c], NoFd}
      BY <1>8 DEF ProcInv
    <2>2. \A c \in Cos : c \notin new => body'[c] = body[c] /\ io'[c] = io[c]
      BY <1>9
    <2>3. \A c \in new : body'[c] \notin Own /\ io'[c] = NoFd
      BY <1>9, Names
    <2>4. NoFd # wakeupFd_ /\ NoFd # timerfd_ /\ Wake \in Own /\ timerQue \in Own
      BY Names
    <2> QED
      BY <2>1, <2>2, <2>3, <2>4 DEF OwnFds
  <1>19. InHook'
    <2>1. \A c \in Cos : at[c] # "read"
      BY <1>1 DEF ProcInv, InHook
    <2>2. ASSUME NEW c \in Cos, at'[c] = "resumed" PROVE io'[c] \in Fds /\ fd_'[c] = io'[c]
      <3>1. c \notin new /\ at[c] = "resumed" /\ io'[c] = io[c]
        BY <1>9, <2>2
      <3>2. io[c] \in Fds /\ fd_[c] = io[c] /\ c \notin gone
        BY <1>7, <3>1 DEF ProcInv, InHook
      <3> QED
        BY <1>8, <3>1, <3>2
    <2>3. \A c \in Cos : at'[c] # "read"
      BY <1>9, <2>1
    <2> QED
      BY <1>13, <2>2, <2>3 DEF InHook
  <1> QED
    BY <1>11, <1>12, <1>15, <1>16, <1>17, <1>18, <1>19 DEF ProcInv

-----------------------------------------------------------------------------
(* The invariant, and what it says.                                        *)

\* Processor(): the processor's own coroutines are runnable, the others idle.
LEMMA ProcInitInv == ProcInit => ProcInv
  <1> SUFFICES ASSUME ProcInit PROVE ProcInv
    OBVIOUS
  <1>1. idleCoQue_ \in Seq(Workers) /\ Once(idleCoQue_) /\ Idle = Workers
    <2>1. SetToSeq(Workers) \in SetToSeqs(Workers) /\ IsFiniteSet(Workers)
      BY ProcAssumption, SetToSeqFacts
    <2> DEFINE s == SetToSeq(Workers)
    <2>2. s \in Seq(Workers) /\ Once(s) /\ Range(s) = Workers
      BY <2>1, SetToSeqsFacts
    <2> HIDE DEF s
    <2>3. idleCoQue_ = s
      BY DEF ProcInit, s
    <2> QED
      BY <2>2, <2>3 DEF Idle
  <1>2. Workers \subseteq Cos /\ Workers \cap Own = {} /\ Cos = Workers \cup {Wake, timerQue}
    BY ProcAssumption DEF Cos, Own
  <1>3. idleCoQue_ \in Seq(Cos)
    BY <1>1, <1>2
  <1>4. runnableCoQue_ \in Seq(Cos) /\ Once(runnableCoQue_) /\ Runnable = {Wake, timerQue}
    <2>1. ASSUME NEW x \in Cos, NEW y \in Cos
          PROVE  <<x, y>> \in Seq(Cos) /\ Len(<<x, y>>) = 2 /\ <<x, y>>[1] = x /\ <<x, y>>[2] = y
      OBVIOUS
    <2> DEFINE q == runnableCoQue_
    <2>2. q \in Seq(Cos) /\ Len(q) = 2 /\ q[1] = Wake /\ q[2] = timerQue
      BY <2>1, Names DEF ProcInit
    <2> HIDE DEF q
    <2>3. Once(q)
      BY <2>2, Names DEF Once
    <2>4. \A x : x \in Range(q) <=> \E i \in 1..Len(q) : q[i] = x
      BY <2>2, RangeFacts
    <2>5. Range(q) = {Wake, timerQue}
      BY <2>2, <2>4
    <2> QED
      BY <2>2, <2>3, <2>5 DEF Runnable, q
  <1>5. /\ sleepers \in Seq(Cos) /\ Len(sleepers) = 0 /\ Asleep = {} /\ Once(sleepers)
        /\ pendingTasks_ \in Seq(Tasks) /\ Len(pendingTasks_) = 0
    <2>1. /\ sleepers = <<>> /\ sleepers \in Seq(Cos) /\ Len(sleepers) = 0
          /\ pendingTasks_ \in Seq(Tasks) /\ Len(pendingTasks_) = 0
      BY DEF ProcInit
    <2> QED
      BY <2>1, RangeFacts DEF Once, Asleep
  <1>6. /\ stop_ = FALSE /\ isEpolling_ = FALSE /\ armed = "off" /\ readable = {}
        /\ added = {} /\ cur = NoCo /\ ppc = "before"
        /\ pc \in [Threads -> {"idle", "test", "write"}]
        /\ \A f \in Fds : coMap_[f] = NoCo
        /\ \A c \in Cos : fd_[c] = NoFd
        /\ coMap_ \in [Fds -> Cos \cup {NoCo}] /\ fd_ \in [Cos -> Fds \cup {NoFd}]
    BY DEF ProcInit
  <1>7. /\ state_ \in [Cos -> {"EXEC", "HOLD", "TERM"}]
        /\ at \in [Cos -> {"user", "top", "read", "resumed", "deal", "aborted"}]
        /\ \A c \in Cos : state_[c] # "HOLD" /\ at[c] \in {"user", "top"}
        /\ state_[Wake] = "EXEC" /\ state_[timerQue] = "EXEC"
    BY <1>2, Names DEF ProcInit
  <1>8. body \in [Cos -> Tasks \cup Own \cup {NoTask}]
    BY <1>2, Names DEF ProcInit
  <1>9. \A c \in Cos : io[c] = IF c = Wake THEN wakeupFd_
                               ELSE IF c = timerQue THEN timerfd_ ELSE NoFd
    BY Names DEF ProcInit
  <1>10. io \in [Cos -> Fds \cup {NoFd}]
    BY <1>9, Names DEF ProcInit
  <1>11. ~ Ended /\ \A c \in Cos : ~ Busy(c)
    BY <1>6, <1>7, Names DEF Ended, Busy
  <1>12. ProcTypeOK
    BY <1>3, <1>4, <1>5, <1>6, <1>7, <1>8, <1>10 DEF ProcTypeOK
  <1>13. Places
    BY <1>1, <1>2, <1>4, <1>5, <1>11, Names DEF Places
  <1>14. Registered
    BY <1>1, <1>2, <1>5, <1>6, <1>7 DEF Registered
  <1>15. Executing
    BY <1>4, <1>6, <1>7 DEF Executing
  <1>16. OwnFds
    <2>1. \A c \in Cos : body[c] = IF c \in Workers THEN NoTask ELSE c
      BY DEF ProcInit
    <2> QED
      BY <1>2, <1>6, <1>9, <2>1, Names DEF OwnFds
  <1>17. InHook
    BY <1>6, <1>7, <1>11 DEF InHook
  <1>18. Enough
    BY <1>1, <1>5 DEF Enough
  <1> QED
    BY <1>12, <1>13, <1>14, <1>15, <1>16, <1>17, <1>18 DEF ProcInv

\* A step that changes nothing.
LEMMA ProcStutterInv == ProcInv /\ UNCHANGED procVars => ProcInv'
  <1> SUFFICES ASSUME ProcInv, UNCHANGED procVars PROVE ProcInv'
    OBVIOUS
  <1> USE DEF procVars, coVars, queueVars, epollVars, timerVars, outside
  <1>1. ProcTypeOK' /\ Enough'
    BY DEF ProcInv, ProcTypeOK, Enough
  <1> QED
    BY <1>1, StillKeeps

\* One step of any thread, coroutine or the kernel.
LEMMA ProcNextInv == ProcInv /\ ProcNext => ProcInv'
  <1> SUFFICES ASSUME ProcInv, ProcNext PROVE ProcInv'
    OBVIOUS
  <1>1. CASE Loop \/ WaitTimesOut
    <2>1. CASE Run \/ SetEpolling \/ PollTest \/ WaitTimesOut
      BY <2>1, LoopKeeps
    <2>2. CASE WhileTest
      BY <2>2, LoopKeeps, ResumeKeeps
    <2>3. CASE WaitReturns
      BY <2>3, WaitReturnsKeeps
    <2>4. CASE AfterResume
      BY <2>4, AfterResumeKeeps
    <2> QED
      BY <1>1, <2>1, <2>2, <2>3, <2>4 DEF Loop
  <1>2. CASE OwnSteps
    BY <1>2, TerminateKeeps, HookKeeps, HoldsKeeps, DealKeeps DEF OwnSteps
  <1>3. CASE UserYields
    BY <1>3, TerminateKeeps, SleepKeeps, HoldsKeeps DEF UserYields
  <1>4. CASE \E s \in Socks : UserIo(s)
    BY <1>4, UserIoKeeps
  <1>5. CASE \E k \in Tasks : UserAdds(k)
    BY <1>5, UserAddsKeeps
  <1>6. CASE \/ UserStops \/ AlarmFires \/ \E s \in Socks : IoArrives(s)
             \/ \E t \in Threads : Thread(t) \/ Stop(t) \/ \E k \in Tasks : AddPendingTask(t, k)
    BY <1>6, OutsideKeeps
  <1> QED
    BY <1>1, <1>2, <1>3, <1>4, <1>5, <1>6 DEF ProcNext

\* The invariant holds in every state of a processor.
THEOREM ProcInvariant == ProcSpec => []ProcInv
  <1>1. ProcInit => ProcInv
    BY ProcInitInv
  <1>2. ProcInv /\ [ProcNext]_procVars => ProcInv'
    BY ProcNextInv, ProcStutterInv
  <1> QED
    BY <1>1, <1>2, PTL DEF ProcSpec

\* How often a coroutine is in a queue that holds nothing twice.
LEMMA CountFacts ==
    ASSUME NEW q \in Seq(Cos), Once(q), NEW c
    PROVE  Count(c, q) = IF c \in Range(q) THEN 1 ELSE 0
  <1> DEFINE I == {i \in DOMAIN q : q[i] = c}
  <1>1. DOMAIN q = 1..Len(q)
    OBVIOUS
  <1>2. c \in Range(q) <=> \E i \in 1..Len(q) : q[i] = c
    BY RangeFacts
  <1>3. CASE c \in Range(q)
    <2>1. PICK i \in 1..Len(q) : q[i] = c
      BY <1>2, <1>3
    <2>2. I = {i}
      BY <1>1, <2>1 DEF Once
    <2> HIDE DEF I
    <2>3. Cardinality(I) = 1
      BY <2>2, FS_Singleton
    <2> QED
      BY <1>3, <2>3 DEF Count, I
  <1>4. CASE c \notin Range(q)
    <2>1. I = {}
      BY <1>1, <1>2, <1>4
    <2> HIDE DEF I
    <2>2. Cardinality(I) = 0
      BY <2>1, FS_EmptySet
    <2> QED
      BY <1>4, <2>2 DEF Count, I
  <1> QED
    BY <1>3, <1>4

\* No coroutine is in two places or in none: addTask(), the recycling of run(), the
\* timers, coMap_ and the interleaving with other threads never share one or lose one.
THEOREM OnePlaceAlways == ProcSpec => []OnePlace
  <1>1. ProcInv => OnePlace
    <2> SUFFICES ASSUME ProcInv PROVE OnePlace
      OBVIOUS
    <2>1. ProcTypeOK
      BY DEF ProcInv
    <2>2. \A c \in Cos : state_[c] = "HOLD" => fd_[c] # NoFd /\ coMap_[fd_[c]] = c
      BY DEF ProcInv, Registered
    <2>3. ASSUME NEW c \in Range(idleCoQue_)
          PROVE  fd_[c] = NoFd /\ \A f \in Fds : coMap_[f] # c
      <3>1. c \in Cos /\ fd_[c] = NoFd
        BY <2>1, Types DEF ProcInv, Registered, Idle
      <3> QED
        BY <3>1, Names DEF ProcInv, Registered
    <2>4. ASSUME NEW c \in Cos
          PROVE  Count(c, runnableCoQue_) + Count(c, idleCoQue_) + Count(c, sleepers)
                 + (IF state_[c] = "HOLD" \/ (cur = c /\ (ppc = "co" \/ Ended)) THEN 1 ELSE 0) = 1
      <3>1. /\ Count(c, runnableCoQue_) = IF c \in Runnable THEN 1 ELSE 0
            /\ Count(c, idleCoQue_) = IF c \in Idle THEN 1 ELSE 0
            /\ Count(c, sleepers) = IF c \in Asleep THEN 1 ELSE 0
        BY <2>1, Types, CountFacts DEF ProcInv, Places, Runnable, Idle, Asleep
      <3>2. /\ Runnable \cap Idle = {} /\ Runnable \cap Asleep = {} /\ Idle \cap Asleep = {}
            /\ Busy(c) <=> c \notin Runnable \cup Idle \cup Asleep
        BY DEF ProcInv, Places
      <3>3. Busy(c) <=> state_[c] = "HOLD" \/ (cur = c /\ (ppc = "co" \/ Ended))
        BY DEF Busy
      <3> QED
        BY <3>1, <3>2, <3>3
    <2> QED
      BY <2>1, <2>2, <2>3, <2>4 DEF OnePlace
  <1> QED
    BY <1>1, ProcInvariant, PTL

-----------------------------------------------------------------------------
(***************************************************************************)
(* poll() is left when it must be: the safety part of StopEndsRun and of   *)
(* what is promised to a sleeper.                                          *)
(***************************************************************************)

\* A stop() that comes when poll() waits is reported by epoll, or a thread is about to see
\* to that.
StopIsNoticed ==
    stop_ /\ ppc = "wait" =>
        wakeupFd_ \in Reported \/ \E t \in Threads : pc[t] \in {"test", "write"}

\* While poll() waits and a coroutine is asleep, the timerfd will expire or is reported.
\* The exception is a timerfd armed for a time already past: the difference
\* howMuchTimeFromNow() takes is unsigned (ITimerQueue.cc:19-21) and wraps to centuries.
SleepersAreAlarmed ==
    ppc = "wait" /\ sleepers # <<>> /\ armed # "wrapped" =>
        armed = "on" \/ timerfd_ \in Reported

\* As long as nothing has seen stop_, the processor's own coroutines are in their loops.
OwnLoops ==
    /\ ~ stop_ \/ ppc \in {"before", "wait"} => body[Wake] = Wake /\ body[timerQue] = timerQue
    /\ \A c \in Cos : state_[c] = "TERM" <=> body[c] = NoTask
    /\ \A c \in Idle : body[c] = NoTask
    /\ \A c \in Asleep : body[c] \in Tasks

\* Only the coroutine that runs deals with timers or has failed an assertion, and nobody
\* sleeps before run().
Timing ==
    /\ \A c \in Cos : at[c] \in {"deal", "aborted"} => cur = c /\ ppc = "co"
    /\ ppc = "before" => sleepers = <<>>

\* isEpolling_ is set when poll() waits, and a stop() that did not see it comes before.
Noticed ==
    /\ ppc \in {"poll", "wait"} => isEpolling_
    /\ stop_ /\ ppc = "wait" =>
          wakeupFd_ \in readable \/ \E t \in Threads : pc[t] \in {"test", "write"}

\* Unless the processor is being stopped, the timerfd was armed for the sleepers or they
\* are about to be dealt with.
Alarmed ==
    sleepers # <<>> /\ (~ stop_ \/ ppc = "wait") =>
        armed # "off" \/ timerfd_ \in readable \/ at[timerQue] \in {"deal", "aborted"}

PollInv == OwnLoops /\ Timing /\ Noticed /\ Alarmed

-----------------------------------------------------------------------------
(* Steps that keep PollInv.                                                *)

\* Other threads, user code that calls stop(), and the kernel.
LEMMA OutsidePolls ==
    ASSUME ProcInv, PollInv,
           \/ \E t \in Threads : Thread(t) \/ Stop(t) \/ \E k \in Tasks : AddPendingTask(t, k)
           \/ UserStops \/ AlarmFires \/ \E s \in Socks : IoArrives(s)
    PROVE  PollInv'
  <1> USE DEF coVars, queueVars, epollVars, timerVars, outside
  <1>1. /\ UNCHANGED <<isEpolling_, idleCoQue_, sleepers, coVars, ppc, cur>>
        /\ readable \subseteq readable' /\ (stop_ => stop_')
    BY DEF UserStops, AlarmFires, IoArrives, Thread, TestEpolling, WakeupEpollCo, Stop,
           AddPendingTask
  <1>2. Idle' = Idle /\ Asleep' = Asleep
    BY <1>1 DEF Idle, Asleep
  <1>3. OwnLoops'
    BY <1>1, <1>2 DEF PollInv, OwnLoops
  <1>4. Timing'
    BY <1>1 DEF PollInv, Timing
  <1>5. Noticed'
    <2>1. ppc' \in {"poll", "wait"} => isEpolling_'
      BY <1>1 DEF PollInv, Noticed
    <2>2. ASSUME stop_', ppc' = "wait"
          PROVE  wakeupFd_ \in readable' \/ \E t \in Threads : pc'[t] \in {"test", "write"}
      <3>1. ppc = "wait" /\ isEpolling_
        BY <1>1, <2>2 DEF PollInv, Noticed
      <3>2. pc \in [Threads -> {"idle", "test", "write"}]
        BY DEF ProcInv, ProcTypeOK
      <3>3. CASE \E t \in Threads : \/ Stop(t) \/ TestEpolling(t)
                                     \/ \E k \in Tasks : AddPendingTask(t, k)
        <4>1. PICK t \in Threads : \/ Stop(t) \/ TestEpolling(t)
                                   \/ \E k \in Tasks : AddPendingTask(t, k)
          BY <3>3
        <4>2. pc' = [pc EXCEPT ![t] = "test"] \/ pc' = [pc EXCEPT ![t] = "write"]
          BY <3>1, <4>1 DEF Stop, TestEpolling, AddPendingTask
        <4>3. pc'[t] \in {"test", "write"}
          BY <3>2, <4>2
        <4> QED
          BY <4>3
      <3>4. CASE \E t \in Threads : WakeupEpollCo(t)
        BY <3>4 DEF WakeupEpollCo
      <3>5. CASE UserStops
        BY <3>1, <3>5 DEF UserStops, UserRuns, Runs
      <3>6. CASE AlarmFires \/ \E s \in Socks : IoArrives(s)
        BY <1>1, <2>2, <3>6 DEF PollInv, Noticed, AlarmFires, IoArrives
      <3> QED
        BY <3>3, <3>4, <3>5, <3>6 DEF Thread
    <2> QED
      BY <2>1, <2>2 DEF Noticed
  <1>6. Alarmed'
    <2>1. armed' = armed \/ timerfd_ \in readable'
      BY DEF UserStops, AlarmFires, IoArrives, Thread, TestEpolling, WakeupEpollCo, Stop,
             AddPendingTask
    <2> QED
      BY <1>1, <2>1 DEF PollInv, Alarmed
  <1> QED
    BY <1>3, <1>4, <1>5, <1>6 DEF PollInv

\* The thread in run() and poll().
LEMMA LoopPolls ==
    ASSUME ProcInv, PollInv, Run \/ WhileTest \/ SetEpolling \/ PollTest \/ WaitTimesOut
    PROVE  PollInv'
  <1> USE DEF coVars, queueVars, epollVars, timerVars, outside
  <1>1. /\ UNCHANGED <<idleCoQue_, sleepers, coVars, armed, readable, pc>>
        /\ ppc \notin {"co", "after"} /\ ppc' # "before"
    BY DEF Run, WhileTest, SetEpolling, PollTest, WaitTimesOut
  <1>2. \/ Run
        \/ /\ stop_' = stop_
           /\ ppc' = "wait" => ~ stop_
    BY DEF Run, WhileTest, SetEpolling, PollTest, WaitTimesOut
  <1>3. Idle' = Idle /\ Asleep' = Asleep
    BY <1>1 DEF Idle, Asleep
  <1>4. OwnLoops'
    BY <1>1, <1>2, <1>3 DEF PollInv, OwnLoops, Run
  <1>5. Timing'
    BY <1>1 DEF PollInv, Timing
  <1>6. Noticed'
    <2>1. ppc' \in {"poll", "wait"} => isEpolling_'
      BY DEF Run, WhileTest, SetEpolling, PollTest, WaitTimesOut, PollInv, Noticed
    <2>2. ppc' = "wait" => ~ stop_'
      BY <1>2 DEF Run
    <2> QED
      BY <2>1, <2>2 DEF Noticed
  <1>7. Alarmed'
    BY <1>1, <1>2 DEF PollInv, Alarmed, Timing, Run
  <1> QED
    BY <1>4, <1>5, <1>6, <1>7 DEF PollInv

\* epoll_wait() returns.
LEMMA WaitReturnsPolls ==
    ASSUME ProcInv, PollInv, WaitReturns
    PROVE  PollInv'
  <1> USE DEF coVars, queueVars, epollVars, timerVars, outside
  <1> DEFINE due == {coMap_[f] : f \in Reported}
  <1>1. /\ ppc = "wait" /\ ppc' = "after"
        /\ state_' = [c \in Cos |-> IF \E f \in Reported : coMap_[f] = c THEN "EXEC"
                                    ELSE state_[c]]
        /\ UNCHANGED <<stop_, idleCoQue_, body, at, cur, sleepers, armed, readable>>
    BY DEF WaitReturns
  <1>2. \A c \in due : c \in Cos /\ state_[c] = "HOLD"
    <2>1. Reported \subseteq Fds /\ \A f \in Reported : coMap_[f] # NoCo
      BY DEF Reported, ProcInv, ProcTypeOK
    <2> QED
      BY <1>1, <2>1, RegisteredIsHeld
  <1>3. \A c \in Cos : state_'[c] = "TERM" <=> state_[c] = "TERM"
    BY <1>1, <1>2
  <1>4. Idle' = Idle /\ Asleep' = Asleep
    BY <1>1 DEF Idle, Asleep
  <1>5. OwnLoops'
    BY <1>1, <1>3, <1>4 DEF PollInv, OwnLoops
  <1>6. Timing' /\ Noticed' /\ Alarmed'
    BY <1>1 DEF PollInv, Timing, Noticed, Alarmed
  <1> QED
    BY <1>5, <1>6 DEF PollInv

\* The coroutine that runs goes on in its code or yields; at most it reads its fd.
LEMMA MovePolls ==
    ASSUME ProcInv, PollInv,
           \/ LoopGoesOn \/ ReadSome \/ ReadHolds \/ Resumed
           \/ \E s \in Socks : UserIo(s) \/ UserConnects(s)
    PROVE  PollInv'
  <1> USE DEF coVars, queueVars, epollVars, timerVars, outside
  <1>1. /\ ppc = "co" /\ cur # NoCo /\ at[cur] \notin {"deal", "aborted"}
        /\ ppc' \in {"co", "after"}
        /\ UNCHANGED <<stop_, idleCoQue_, body, cur, sleepers, armed>>
        /\ \E x \in {"read", "top", "deal", "user", "resumed"} : at' = [at EXCEPT ![cur] = x]
        /\ state_' = state_ \/ state_' = [state_ EXCEPT ![cur] = "HOLD"]
    BY DEF LoopGoesOn, OwnRuns, UserRuns, Runs, ReadSome, ReadHolds, Resumed, GoesTo, Continues,
           Holds, UserIo, UserConnects
  <1>2. cur \in Cos /\ state_[cur] = "EXEC"
    BY <1>1, Current
  <1>3. \A c \in Cos : c # cur => at'[c] = at[c]
    BY <1>1, <1>2, Types DEF ProcInv
  <1>4. \A c \in Cos : state_'[c] = "TERM" <=> state_[c] = "TERM"
    BY <1>1, <1>2, Types DEF ProcInv
  <1>5. Idle' = Idle /\ Asleep' = Asleep
    BY <1>1 DEF Idle, Asleep
  <1>6. OwnLoops'
    BY <1>1, <1>4, <1>5 DEF PollInv, OwnLoops
  <1>7. at'[cur] \in {"deal", "aborted"} => ppc' = "co"
    <2>1. CASE ppc' = "after"
      <3>1. ReadHolds \/ \E s \in Socks : UserConnects(s)
        BY <1>1, <2>1 DEF LoopGoesOn, ReadSome, Resumed, GoesTo, UserIo
      <3>2. at' = [at EXCEPT ![cur] = "resumed"] \/ at' = [at EXCEPT ![cur] = "user"]
        BY <3>1 DEF ReadHolds, UserConnects, Holds
      <3> QED
        BY <1>2, <3>2, Types DEF ProcInv
    <2> QED
      BY <1>1, <2>1
  <1>8. Timing' /\ Noticed'
    BY <1>1, <1>3, <1>7 DEF PollInv, Timing, Noticed
  <1>9. Alarmed'
    <2> SUFFICES ASSUME sleepers' # <<>>, ~ stop_'
                 PROVE  armed' # "off" \/ timerfd_ \in readable' \/ at'[timerQue] = "deal"
      BY <1>1 DEF Alarmed
    <2>1. armed # "off" \/ timerfd_ \in readable
      BY <1>1, Names DEF PollInv, Alarmed, Timing
    <2>2. CASE readable' = readable
      BY <1>1, <2>1, <2>2
    <2>3. CASE ReadSome /\ timerfd_ \in readable /\ timerfd_ \notin readable'
      <3>1. io[cur] = timerfd_ /\ at' = [at EXCEPT ![cur] = Continues]
        BY <2>3 DEF ReadSome, GoesTo
      <3>2. cur = timerQue /\ body[timerQue] = timerQue
        BY <1>1, <1>2, <3>1 DEF ProcInv, OwnFds, PollInv, OwnLoops
      <3>3. Continues = "deal"
        BY <3>2, Names DEF Continues
      <3> QED
        BY <1>2, <3>1, <3>2, <3>3, Types DEF ProcInv
    <2>4. ReadSome \/ readable' = readable
      BY DEF LoopGoesOn, ReadHolds, Resumed, Holds, UserIo, UserConnects
    <2> QED
      BY <1>1, <2>1, <2>2, <2>3, <2>4
  <1> QED
    BY <1>6, <1>8, <1>9 DEF PollInv

\* RunInCo() has returned.
LEMMA TerminatePolls ==
    ASSUME ProcInv, PollInv, LoopEnds \/ UserEnds
    PROVE  PollInv'
  <1> USE DEF coVars, queueVars, epollVars, timerVars, outside
  <1>1. /\ ppc = "co" /\ ppc' = "after" /\ at[cur] \notin {"deal", "aborted"}
        /\ state_' = [state_ EXCEPT ![cur] = "TERM"] /\ body' = [body EXCEPT ![cur] = NoTask]
        /\ UNCHANGED <<stop_, idleCoQue_, at, cur, sleepers, armed, readable>>
        /\ stop_ \/ body[cur] \in Tasks
    BY DEF LoopEnds, OwnRuns, Runs, UserEnds, UserRuns, Terminates
  <1>2. cur \in Cos /\ cur \notin Idle \cup Asleep
    BY <1>1, Current
  <1>3. /\ \A c \in Cos : state_'[c] = IF c = cur THEN "TERM" ELSE state_[c]
        /\ \A c \in Cos : body'[c] = IF c = cur THEN NoTask ELSE body[c]
    BY <1>1, <1>2, Types DEF ProcInv
  <1>4. Idle' = Idle /\ Asleep' = Asleep /\ Idle \subseteq Cos /\ Asleep \subseteq Cos
    BY <1>1, Types DEF Idle, Asleep, ProcInv
  <1>5. OwnLoops'
    <2>1. ~ stop_' => body'[Wake] = Wake /\ body'[timerQue] = timerQue
      BY <1>1, <1>3, Names DEF PollInv, OwnLoops
    <2> QED
      BY <1>1, <1>2, <1>3, <1>4, <2>1 DEF PollInv, OwnLoops
  <1>6. Timing' /\ Noticed' /\ Alarmed'
    BY <1>1 DEF PollInv, Timing, Noticed, Alarmed
  <1> QED
    BY <1>5, <1>6 DEF PollInv

\* dealWithExpiredTimer(): who is left asleep has a new alarm.
LEMMA DealPolls ==
    ASSUME ProcInv, PollInv, Deal
    PROVE  PollInv'
  <1> USE DEF coVars, queueVars, epollVars, timerVars, outside
  <1>1. /\ ppc = "co" /\ at' = [at EXCEPT ![cur] = "top"]
        /\ UNCHANGED <<stop_, idleCoQue_, body, cur, readable, ppc>>
    BY DEF Deal, Runs
  <1>2. cur \in Cos
    BY <1>1, Current
  <1>3. \A c \in Cos : at'[c] = IF c = cur THEN "top" ELSE at[c]
    BY <1>1, <1>2, Types DEF ProcInv
  <1>4. /\ \A c \in Cos : state_'[c] = "TERM" <=> state_[c] = "TERM"
        /\ Asleep' \subseteq Asleep
        /\ ~ stop_ /\ sleepers' # <<>> => armed' # "off"
    <2>1. CASE stop_ /\ UNCHANGED <<runnableCoQue_, state_, timerVars>>
      BY <2>1 DEF Asleep
    <2>2. ASSUME NEW n \in 0..Len(sleepers),
                 state_' = [c \in Cos |-> IF c \in Range(SubSeq(sleepers, 1, n)) THEN "EXEC"
                                          ELSE state_[c]],
                 sleepers' = SubSeq(sleepers, n + 1, Len(sleepers)),
                 armed' \in IF n < Len(sleepers) THEN ResetTimerfd ELSE {armed}
          PROVE  /\ \A c \in Cos : state_'[c] = "TERM" <=> state_[c] = "TERM"
                 /\ Asleep' \subseteq Asleep
                 /\ sleepers' # <<>> => armed' # "off"
      <3> DEFINE a == SubSeq(sleepers, 1, n)
      <3>1. sleepers \in Seq(Cos) /\ Once(sleepers) /\ Len(sleepers) \in Nat
        BY Types DEF ProcInv, Places
      <3>2. Range(a) \cup Asleep' = Asleep
        BY <2>2, <3>1, SplitFacts DEF Asleep
      <3> HIDE DEF a
      <3>3. \A c \in Range(a) : state_[c] # "TERM"
        BY <3>2, Types, Names DEF ProcInv, PollInv, OwnLoops
      <3>4. \A c \in Cos : state_'[c] = "TERM" <=> state_[c] = "TERM"
        BY <2>2, <3>3 DEF a
      <3>5. n = Len(sleepers) => sleepers' = <<>>
        BY <2>2, <3>1
      <3>6. n < Len(sleepers) \/ n = Len(sleepers)
        BY <3>1
      <3> QED
        BY <2>2, <3>2, <3>4, <3>5, <3>6 DEF ResetTimerfd
    <2>3. CASE \E n \in 0..Len(sleepers) :
                  /\ state_' = [c \in Cos |-> IF c \in Range(SubSeq(sleepers, 1, n)) THEN "EXEC"
                                              ELSE state_[c]]
                  /\ sleepers' = SubSeq(sleepers, n + 1, Len(sleepers))
                  /\ armed' \in IF n < Len(sleepers) THEN ResetTimerfd ELSE {armed}
      BY <2>2, <2>3
    <2> QED
      BY <2>1, <2>3 DEF Deal
  <1>5. Idle' = Idle /\ Asleep \subseteq Cos
    BY <1>1, Types DEF Idle, ProcInv
  <1>6. OwnLoops'
    BY <1>1, <1>4, <1>5 DEF PollInv, OwnLoops
  <1>7. Timing' /\ Noticed'
    BY <1>1, <1>3 DEF PollInv, Timing, Noticed
  <1>8. Alarmed'
    BY <1>1, <1>4 DEF Alarmed
  <1> QED
    BY <1>6, <1>7, <1>8 DEF PollInv

\* dealWithExpiredTimer() fails the assertion of getExpiredList().
LEMMA DealAbortsPolls ==
    ASSUME ProcInv, PollInv, DealAborts
    PROVE  PollInv'
  <1> USE DEF coVars, queueVars, epollVars, timerVars, outside
  <1>1. /\ ppc = "co" /\ at[cur] = "deal" /\ at' = [at EXCEPT ![cur] = "aborted"]
        /\ UNCHANGED <<stop_, isEpolling_, idleCoQue_, state_, body, ppc, cur, sleepers, armed,
                       readable, pc>>
    BY DEF DealAborts, Runs, GoesTo
  <1>2. cur \in Cos
    BY <1>1, Current
  <1>3. \A c \in Cos : at'[c] = IF c = cur THEN "aborted" ELSE at[c]
    BY <1>1, <1>2, Types DEF ProcInv
  <1>4. Idle' = Idle /\ Asleep' = Asleep
    BY <1>1 DEF Idle, Asleep
  <1>5. OwnLoops'
    BY <1>1, <1>4 DEF PollInv, OwnLoops
  <1>6. Timing' /\ Noticed'
    BY <1>1, <1>3 DEF PollInv, Timing, Noticed
  <1>7. Alarmed'
    BY <1>1, <1>3, Names DEF PollInv, Alarmed
  <1> QED
    BY <1>5, <1>6, <1>7 DEF PollInv

\* sleep(): the first of all sleepers sets the alarm.
LEMMA SleepPolls ==
    ASSUME ProcInv, PollInv, UserSleeps
    PROVE  PollInv'
  <1> USE DEF coVars, queueVars, epollVars, timerVars, outside
  <1>1. /\ ppc = "co" /\ ppc' = "after" /\ at[cur] = "user" /\ body[cur] \in Tasks
        /\ UNCHANGED <<stop_, idleCoQue_, coVars, cur, readable>>
    BY DEF UserSleeps, UserRuns, Runs
  <1>2. PICK n \in 1..Len(sleepers) + 1 :
           /\ sleepers' = InsertAt(sleepers, n, cur)
           /\ armed' \in IF n = 1 THEN ResetTimerfd ELSE {armed}
    BY DEF UserSleeps
  <1>3. cur \in Cos /\ cur \notin Asleep
    BY <1>1, Current
  <1>4. /\ sleepers \in Seq(Cos) /\ Once(sleepers) /\ Len(sleepers) \in Nat
        /\ Asleep \subseteq Cos /\ Idle' = Idle
    BY <1>1, Types DEF ProcInv, Places, Idle
  <1>5. Asleep' = Asleep \cup {cur}
    BY <1>2, <1>3, <1>4, InsertFacts DEF Asleep
  <1>6. OwnLoops'
    BY <1>1, <1>3, <1>4, <1>5 DEF PollInv, OwnLoops
  <1>7. Timing' /\ Noticed'
    BY <1>1 DEF PollInv, Timing, Noticed
  <1>8. Alarmed'
    <2>1. CASE n = 1
      BY <1>2, <2>1 DEF Alarmed, ResetTimerfd
    <2>2. CASE n # 1
      <3>1. sleepers # <<>>
        BY <1>4, <2>2
      <3>2. armed' = armed
        BY <1>2, <2>2
      <3> QED
        BY <1>1, <3>1, <3>2 DEF PollInv, Alarmed
    <2> QED
      BY <2>1, <2>2
  <1> QED
    BY <1>6, <1>7, <1>8 DEF PollInv

\* Coroutines that are idle, or ended, get tasks: none of the processor's own unless it stops.
LEMMA StartPolls ==
    ASSUME ProcInv, PollInv, NEW ks \in Seq(Tasks), Starts(ks, IdleThen),
           Len(ks) <= Len(IdleThen), ppc \in {"co", "after"}, ppc' \in {ppc, "while"},
           ppc' = "while" => ppc = "after",
           UNCHANGED <<stop_, timerVars, readable>>, ppc = "co" => cur' = cur
    PROVE  PollInv'
  <1> USE DEF timerVars
  <1> DEFINE gone == IF Ended THEN {cur} ELSE {}
  <1>1. /\ idleCoQue_ \in Seq(Cos) /\ Once(idleCoQue_) /\ Once(runnableCoQue_)
        /\ Runnable \cap Idle = {} /\ Idle \cap Asleep = {} /\ Asleep \subseteq Cos
    BY Types DEF ProcInv, Places
  <1>2. Ended => /\ cur \in Cos /\ state_[cur] = "TERM"
                 /\ cur \notin Runnable \cup Idle \cup Asleep
    BY Types DEF ProcInv, Ended, Places, Busy
  <1>3. IdleThen \in Seq(Cos) /\ Once(IdleThen) /\ Range(IdleThen) = Idle \cup gone
    <2>1. CASE ~ Ended
      BY <1>1, <2>1 DEF IdleThen, Idle
    <2>2. CASE Ended
      <3>1. IdleThen = Append(idleCoQue_, cur) /\ gone = {cur}
        BY <2>2 DEF IdleThen
      <3>2. cur \in Cos /\ cur \notin Range(idleCoQue_)
        BY <1>2, <2>2 DEF Idle
      <3>3. /\ Append(idleCoQue_, cur) \in Seq(Cos) /\ Once(Append(idleCoQue_, cur))
            /\ Range(Append(idleCoQue_, cur)) = Range(idleCoQue_) \cup {cur}
        BY <1>1, <3>2, AppendFacts
      <3> QED
        BY <3>1, <3>3 DEF Idle
    <2> QED
      BY <2>1, <2>2
  <1>4. /\ \A c \in Idle \cup gone : c \in Cos /\ body[c] = NoTask
        /\ Runnable \cap Range(IdleThen) = {} /\ Asleep \cap (Idle \cup gone) = {}
    BY <1>1, <1>2, <1>3, Types DEF ProcInv, PollInv, OwnLoops
  <1>5. PICK new \in SUBSET Cos :
           /\ new \subseteq Range(IdleThen) /\ Idle' = Range(IdleThen) \ new
           /\ \A c \in new : /\ state_'[c] = "EXEC" /\ body'[c] \in Tasks
                             /\ at'[c] = "user" /\ io'[c] = NoFd
           /\ \A c \in Cos : c \notin new =>
                 /\ state_'[c] = state_[c] /\ body'[c] = body[c]
                 /\ at'[c] = at[c] /\ io'[c] = io[c]
    <2>1. ProcTypeOK
      BY DEF ProcInv
    <2> QED
      BY <1>1, <1>3, <1>4, <2>1, StartsFacts
  <1> HIDE DEF gone
  <1>6. \A c \in new : body[c] = NoTask /\ c \notin Asleep
    BY <1>3, <1>4, <1>5
  <1>7. Asleep' = Asleep
    BY DEF Asleep
  <1>8. OwnLoops'
    <2>1. ASSUME ~ stop_' \/ ppc' \in {"before", "wait"}
          PROVE  body'[Wake] = Wake /\ body'[timerQue] = timerQue
      <3>1. body[Wake] = Wake /\ body[timerQue] = timerQue
        BY <2>1 DEF PollInv, OwnLoops
      <3>2. Wake \notin new /\ timerQue \notin new
        BY <1>6, <3>1, Names
      <3> QED
        BY <1>5, <3>1, <3>2, Names
    <2>2. \A c \in Cos : state_'[c] = "TERM" <=> body'[c] = NoTask
      BY <1>5, Names DEF PollInv, OwnLoops
    <2>3. \A c \in Idle' : body'[c] = NoTask
      BY <1>3, <1>4, <1>5
    <2>4. \A c \in Asleep' : body'[c] \in Tasks
      BY <1>1, <1>5, <1>6, <1>7 DEF PollInv, OwnLoops
    <2> QED
      BY <2>1, <2>2, <2>3, <2>4 DEF OwnLoops
  <1>9. Timing' /\ Noticed'
    <2>1. \A c \in Cos : at'[c] \in {"deal", "aborted"} => cur' = c /\ ppc' = "co"
      BY <1>5 DEF PollInv, Timing
    <2> QED
      BY <2>1 DEF Timing, Noticed
  <1>10. Alarmed'
    <2> SUFFICES ASSUME sleepers' # <<>>, ~ stop_'
                 PROVE  \/ armed' # "off" \/ timerfd_ \in readable'
                        \/ at'[timerQue] \in {"deal", "aborted"}
      BY DEF Alarmed
    <2>1. body[timerQue] = timerQue /\ timerQue \notin new
      BY <1>6, Names DEF PollInv, OwnLoops
    <2>2. at'[timerQue] = at[timerQue]
      BY <1>5, <2>1, Names
    <2> QED
      BY <2>2 DEF PollInv, Alarmed
  <1> QED
    BY <1>8, <1>9, <1>10 DEF PollInv

\* addTask() of a task, and run() after a resume().
LEMMA StartsPoll ==
    ASSUME ProcInv, PollInv, AfterResume \/ \E k \in Tasks : UserAdds(k)
    PROVE  PollInv'
  <1> USE DEF timerVars
  <1>1. /\ idleCoQue_ \in Seq(Cos) /\ pendingTasks_ \in Seq(Tasks)
        /\ Len(idleCoQue_) \in Nat /\ Len(pendingTasks_) \in Nat
        /\ Len(pendingTasks_) <= Len(idleCoQue_)
    BY Types DEF ProcInv, Enough
  <1>2. CASE AfterResume
    <2>1. /\ ppc = "after" /\ ppc' = "while" /\ Starts(pendingTasks_, IdleThen)
          /\ UNCHANGED <<stop_, timerVars, readable>>
      BY <1>2 DEF AfterResume, Taken
    <2>2. Len(pendingTasks_) <= Len(IdleThen)
      <3>1. CASE ~ Ended
        BY <1>1, <3>1 DEF IdleThen
      <3>2. CASE Ended
        <4>1. cur \in Cos
          BY <3>2, Types DEF ProcInv, Ended
        <4>2. Len(IdleThen) = Len(idleCoQue_) + 1
          BY <1>1, <3>2, <4>1, AppendFacts DEF IdleThen
        <4> QED
          BY <1>1, <4>2
      <3> QED
        BY <3>1, <3>2
    <2> QED
      BY <1>1, <2>1, <2>2, StartPolls
  <1>3. CASE \E k \in Tasks : UserAdds(k)
    <2>1. PICK k \in Tasks : UserAdds(k)
      BY <1>3
    <2>2. /\ ppc = "co" /\ ppc' = ppc /\ cur' = cur /\ Starts(<<k>>, idleCoQue_)
          /\ UNCHANGED <<stop_, timerVars, readable>>
          /\ Len(pendingTasks_) < Len(idleCoQue_)
      BY <2>1 DEF UserAdds, UserRuns, Runs, MayAdd
    <2>3. IdleThen = idleCoQue_
      BY <2>2, Current DEF IdleThen
    <2>4. <<k>> \in Seq(Tasks) /\ Len(<<k>>) = 1
      OBVIOUS
    <2>5. Len(<<k>>) <= Len(IdleThen)
      BY <1>1, <2>2, <2>3, <2>4
    <2> QED
      BY <2>2, <2>3, <2>4, <2>5, StartPolls
  <1> QED
    BY <1>2, <1>3

\* A new processor.
LEMMA PollInitInv == ProcInit => PollInv
  <1> SUFFICES ASSUME ProcInit PROVE PollInv
    OBVIOUS
  <1>1. ProcInv
    BY ProcInitInv
  <1>2. /\ \A c \in Cos : state_[c] = IF c \in Workers THEN "TERM" ELSE "EXEC"
        /\ \A c \in Cos : body[c] = IF c \in Workers THEN NoTask ELSE c
        /\ \A c \in Cos : at[c] \in {"user", "top"}
        /\ ppc = "before" /\ stop_ = FALSE /\ sleepers = <<>>
        /\ runnableCoQue_ = <<Wake, timerQue>>
    BY DEF ProcInit
  <1>3. Cos = Workers \cup {Wake, timerQue} /\ Workers \cap {Wake, timerQue} = {}
    BY ProcAssumption DEF Cos, Own
  <1>4. Asleep = {}
    BY <1>1, <1>2, Types, RangeFacts DEF ProcInv, Asleep
  <1>5. Idle \subseteq Workers
    <2>1. SetToSeq(Workers) \in SetToSeqs(Workers) /\ IsFiniteSet(Workers)
      BY ProcAssumption, SetToSeqFacts
    <2>2. Range(SetToSeq(Workers)) = Workers
      BY <2>1, SetToSeqsFacts
    <2> QED
      BY <2>2 DEF ProcInit, Idle
  <1>6. OwnLoops
    BY <1>2, <1>3, <1>4, <1>5, Names DEF OwnLoops
  <1>7. Timing /\ Noticed /\ Alarmed
    BY <1>2 DEF Timing, Noticed, Alarmed
  <1> QED
    BY <1>6, <1>7 DEF PollInv

\* One step of any thread, coroutine or the kernel.
LEMMA PollNextInv == ProcInv /\ PollInv /\ [ProcNext]_procVars => PollInv'
  <1> SUFFICES ASSUME ProcInv, PollInv, [ProcNext]_procVars PROVE PollInv'
    OBVIOUS
  <1>1. CASE Loop \/ WaitTimesOut
    BY <1>1, LoopPolls, WaitReturnsPolls, StartsPoll DEF Loop
  <1>2. CASE OwnSteps
    BY <1>2, TerminatePolls, MovePolls, DealPolls, DealAbortsPolls DEF OwnSteps
  <1>3. CASE UserYields
    BY <1>3, TerminatePolls, SleepPolls, MovePolls DEF UserYields
  <1>4. CASE \/ \E s \in Socks : UserIo(s)
             \/ \E k \in Tasks : UserAdds(k)
    BY <1>4, MovePolls, StartsPoll
  <1>5. CASE \/ UserStops \/ AlarmFires \/ \E s \in Socks : IoArrives(s)
             \/ \E t \in Threads : Thread(t) \/ Stop(t) \/ \E k \in Tasks : AddPendingTask(t, k)
    BY <1>5, OutsidePolls
  <1>6. CASE UNCHANGED procVars
    <2> USE <1>6 DEF procVars, coVars, queueVars, epollVars, timerVars, outside
    <2>1. Idle' = Idle /\ Asleep' = Asleep
      BY DEF Idle, Asleep
    <2>2. OwnLoops' /\ Timing'
      BY <2>1 DEF PollInv, OwnLoops, Timing
    <2>3. Noticed' /\ Alarmed'
      BY DEF PollInv, Noticed, Alarmed
    <2> QED
      BY <2>2, <2>3 DEF PollInv
  <1> QED
    BY <1>1, <1>2, <1>3, <1>4, <1>5, <1>6 DEF ProcNext

\* Both invariants hold in every state of a processor.
THEOREM PollInvariant == ProcSpec => [](ProcInv /\ PollInv)
  <1>1. ProcInit => PollInv
    BY PollInitInv
  <1>2. ProcInv /\ PollInv /\ [ProcNext]_procVars => PollInv'
    BY PollNextInv
  <1> QED
    BY <1>1, <1>2, ProcInvariant, PTL DEF ProcSpec

\* While poll() waits, the processor's own coroutines are held by their fds.
LEMMA OwnAreHeld ==
    ASSUME ProcInv, PollInv, ppc = "wait"
    PROVE  coMap_[wakeupFd_] = Wake /\ coMap_[timerfd_] = timerQue
  <1>1. body[Wake] = Wake /\ body[timerQue] = timerQue
    BY DEF PollInv, OwnLoops
  <1>2. cur = NoCo /\ runnableCoQue_ = <<>> /\ Runnable = {}
    BY Types, RangeFacts DEF ProcInv, Executing, Runnable
  <1>3. ASSUME NEW c \in Own PROVE state_[c] = "HOLD"
    <2>1. c \in Cos /\ body[c] = c /\ c \notin Tasks /\ c # NoTask /\ c # NoCo
      BY <1>1, <1>3, Names
    <2>2. c \notin Idle /\ c \notin Asleep
      BY <2>1 DEF PollInv, OwnLoops
    <2>3. Busy(c)
      BY <1>2, <2>1, <2>2 DEF ProcInv, Places
    <2> QED
      BY <1>2, <2>1, <2>3 DEF Busy
  <1>4. fd_[Wake] = wakeupFd_ /\ fd_[timerQue] = timerfd_
    BY <1>1, <1>3, Names DEF ProcInv, Registered, OwnFds
  <1> QED
    BY <1>4, Names DEF ProcInv, Registered

\* poll() does not sleep over a stop(): it tests stop_ after isEpolling_ is set, and the
\* coroutine that reads wakeupFd_ is registered whenever epoll_wait() is called.
THEOREM StopIsAlwaysNoticed == ProcSpec => []StopIsNoticed
  <1>1. ProcInv /\ PollInv => StopIsNoticed
    BY OwnAreHeld, Names DEF StopIsNoticed, PollInv, Noticed, Reported
  <1> QED
    BY <1>1, PollInvariant, PTL

\* poll() never waits for sleepers nobody has set an alarm for: the timerfd will expire, or
\* its expiration is reported to the coroutine that deals with timers, or resetTimerfd()
\* came too late and its time has wrapped.  A user's sleep() between a round and poll()
\* never turns the alarm off.
THEOREM SleepersAreAlwaysAlarmed == ProcSpec => []SleepersAreAlarmed
  <1>1. ProcInv /\ PollInv => SleepersAreAlarmed
    <2> SUFFICES ASSUME ProcInv, PollInv, ppc = "wait", sleepers # <<>>, armed # "wrapped"
                 PROVE  armed = "on" \/ timerfd_ \in Reported
      BY DEF SleepersAreAlarmed
    <2>1. armed # "off" \/ timerfd_ \in readable
      BY Names DEF PollInv, Alarmed, Timing
    <2> QED
      BY <2>1, OwnAreHeld, Names DEF Reported, ProcInv, ProcTypeOK
  <1> QED
    BY <1>1, PollInvariant, PTL

-----------------------------------------------------------------------------
(***************************************************************************)
(* Tasks are neither lost nor run twice on their way from addTask() to a   *)
(* coroutine: the safety part of EveryTaskRuns.                            *)
(***************************************************************************)

\* A task that is pending is in no coroutine yet, and one that is not is in at most one.
TaskOnce ==
    /\ Once(pendingTasks_)
    /\ \A c \in Cos : body[c] \in Tasks => body[c] \in added \ Range(pendingTasks_)
    /\ \A c, d \in Cos : body[c] \in Tasks /\ body[c] = body[d] => c = d

TaskInv == TaskOnce /\ Range(pendingTasks_) \subseteq added

\* A task stays pending until a coroutine in the run queue has it, and a coroutine gets none
\* but a pending or a new one.
HandsOver ==
    /\ \A k \in Range(pendingTasks_) :
          k \in Range(pendingTasks_') \/ \E c \in Runnable' : body'[c] = k
    /\ \A c \in Cos : body'[c] \in Tasks \ {body[c]} =>
          body'[c] \in Range(pendingTasks_) \/ body'[c] \notin added

\* Starts(): each of the tasks is run by a coroutine of its own.
LEMMA TasksStarted ==
    ASSUME ProcInv, NEW ks \in Seq(Tasks), NEW idle \in Seq(Cos), Starts(ks, idle),
           Len(ks) <= Len(idle), Once(idle)
    PROVE  /\ \A i \in 1..Len(ks) : /\ idle[i] \in Cos /\ idle[i] \in Runnable'
                                    /\ body'[idle[i]] = ks[i]
           /\ \A c \in Cos : (\A i \in 1..Len(ks) : idle[i] # c) => body'[c] = body[c]
  <1> DEFINE n == Len(ks)
             cs == SubSeq(idle, 1, n)
             task(c) == ks[CHOOSE i \in 1..n : cs[i] = c]
  <1>1. /\ runnableCoQue_' = runnableCoQue_ \o cs
        /\ body' = [c \in Cos |-> IF c \in Range(cs) THEN task(c) ELSE body[c]]
    BY DEF Starts
  <1>2. /\ n \in 0..Len(idle) /\ Len(idle) \in Nat
        /\ \A i \in 1..n : i \in 1..Len(idle)
    OBVIOUS
  <1>3. cs \in Seq(Cos) /\ Len(cs) = n /\ \A i \in 1..n : cs[i] = idle[i] /\ idle[i] \in Cos
    BY <1>2
  <1> HIDE DEF cs
  <1>4. \A x : x \in Range(cs) <=> \E i \in 1..n : cs[i] = x
    BY <1>3, RangeFacts
  <1>5. Runnable' = Runnable \cup Range(cs)
    BY <1>1, <1>3, Types, ConcatFacts DEF Runnable, ProcInv
  <1>6. ASSUME NEW i \in 1..n PROVE task(idle[i]) = ks[i]
    <2>1. \A j \in 1..n : cs[j] = idle[i] => j = i
      BY <1>2, <1>3 DEF Once
    <2>2. (CHOOSE j \in 1..n : cs[j] = idle[i]) = i
      BY <1>3, <2>1
    <2> QED
      BY <2>2
  <1> HIDE DEF task
  <1>7. \A i \in 1..n : /\ idle[i] \in Cos /\ idle[i] \in Runnable'
                        /\ body'[idle[i]] = ks[i]
    <2> SUFFICES ASSUME NEW i \in 1..n
                 PROVE  /\ idle[i] \in Cos /\ idle[i] \in Runnable' /\ body'[idle[i]] = ks[i]
      OBVIOUS
    <2>1. idle[i] \in Cos /\ idle[i] \in Range(cs)
      BY <1>3, <1>4
    <2> QED
      BY <1>1, <1>5, <1>6, <2>1
  <1>8. ASSUME NEW c \in Cos, \A i \in 1..n : idle[i] # c PROVE body'[c] = body[c]
    <2>1. c \notin Range(cs)
      BY <1>3, <1>4, <1>8
    <2> QED
      BY <1>1, <2>1
  <1> QED
    BY <1>7, <1>8

\* Tasks go from the pending ones, or from addTask(), to coroutines.
LEMMA StartsOnce ==
    ASSUME ProcInv, TaskInv, NEW ks \in Seq(Tasks), NEW idle \in Seq(Cos), Starts(ks, idle),
           Len(ks) <= Len(idle), Once(idle), Once(ks), pendingTasks_' \in Seq(Tasks),
           Once(pendingTasks_'), Range(pendingTasks_') = Range(pendingTasks_) \ Range(ks),
           \/ Range(ks) \subseteq Range(pendingTasks_) /\ added' = added
           \/ Range(ks) \cap added = {} /\ added' = added \cup Range(ks)
    PROVE  TaskInv' /\ HandsOver
  <1>1. /\ \A i \in 1..Len(ks) : idle[i] \in Cos /\ idle[i] \in Runnable' /\ body'[idle[i]] = ks[i]
        /\ \A c \in Cos : (\A i \in 1..Len(ks) : idle[i] # c) => body'[c] = body[c]
    BY TasksStarted
  <1>2. \A x : x \in Range(ks) <=> \E i \in 1..Len(ks) : ks[i] = x
    BY RangeFacts
  <1>3. \A c \in Cos : \/ body'[c] = body[c]
                       \/ \E i \in 1..Len(ks) : c = idle[i] /\ body'[c] = ks[i]
    BY <1>1
  <1>4. \A c \in Cos : body'[c] = body[c] \/ body'[c] \in Range(ks)
    BY <1>2, <1>3
  <1>5. \A c \in Cos : body[c] \in Tasks => body[c] \in added /\ body[c] \notin Range(ks)
    BY DEF TaskInv, TaskOnce
  <1>6. /\ Range(ks) \subseteq added' /\ added \subseteq added'
        /\ Range(pendingTasks_') \subseteq added'
    BY DEF TaskInv
  <1>7. \A c \in Cos : body'[c] \in Tasks => body'[c] \in added' \ Range(pendingTasks_')
    BY <1>4, <1>5, <1>6 DEF TaskInv, TaskOnce
  <1>8. ASSUME NEW c \in Cos, NEW d \in Cos, body'[c] \in Tasks, body'[c] = body'[d]
        PROVE  c = d
    <2>1. CASE body'[c] \in Range(ks)
      <3>1. body'[c] # body[c] /\ body'[d] # body[d]
        BY <1>5, <1>8, <2>1
      <3>2. PICK i \in 1..Len(ks) : c = idle[i] /\ body'[c] = ks[i]
        BY <1>3, <3>1
      <3>3. PICK j \in 1..Len(ks) : d = idle[j] /\ body'[d] = ks[j]
        BY <1>3, <3>1
      <3>4. i = j
        BY <1>8, <3>2, <3>3 DEF Once
      <3> QED
        BY <3>2, <3>3, <3>4
    <2>2. CASE body'[c] \notin Range(ks)
      BY <1>4, <1>8, <2>2 DEF TaskInv, TaskOnce
    <2> QED
      BY <2>1, <2>2
  <1>9. TaskInv'
    BY <1>6, <1>7, <1>8 DEF TaskInv, TaskOnce
  <1>10. HandsOver
    <2>1. ASSUME NEW k \in Range(ks) PROVE \E c \in Runnable' : body'[c] = k
      <3>1. PICK i \in 1..Len(ks) : ks[i] = k
        BY <1>2
      <3> QED
        BY <1>1, <3>1
    <2>2. \A k \in Range(ks) : k \in Range(pendingTasks_) \/ k \notin added
      OBVIOUS
    <2> QED
      BY <1>4, <2>1, <2>2 DEF HandsOver
  <1> QED
    BY <1>9, <1>10

\* addPendingTask() appends a new task.
LEMMA PendingOnce ==
    ASSUME ProcInv, TaskInv, NEW t \in Threads, NEW k \in Tasks, AddPendingTask(t, k)
    PROVE  TaskInv' /\ HandsOver
  <1>1. /\ pendingTasks_' = Append(pendingTasks_, k) /\ added' = added \cup {k}
        /\ k \notin added /\ body' = body
    BY DEF AddPendingTask, MayAdd, coVars
  <1>2. pendingTasks_ \in Seq(Tasks) /\ Once(pendingTasks_) /\ k \notin Range(pendingTasks_)
    BY <1>1, Types DEF ProcInv, TaskInv, TaskOnce
  <1>3. Once(pendingTasks_') /\ Range(pendingTasks_') = Range(pendingTasks_) \cup {k}
    BY <1>1, <1>2, AppendFacts
  <1>4. TaskInv'
    BY <1>1, <1>3 DEF TaskInv, TaskOnce
  <1>5. HandsOver
    BY <1>1, <1>3 DEF HandsOver
  <1> QED
    BY <1>4, <1>5

\* addTask() of a task, and addPendingTasksIntoQueue(), which takes all.
LEMMA QueuedOnce ==
    ASSUME ProcInv, TaskInv, AfterResume \/ \E k \in Tasks : UserAdds(k)
    PROVE  TaskInv' /\ HandsOver
  <1>1. /\ idleCoQue_ \in Seq(Cos) /\ pendingTasks_ \in Seq(Tasks)
        /\ Len(idleCoQue_) \in Nat /\ Len(pendingTasks_) \in Nat
        /\ Len(pendingTasks_) <= Len(idleCoQue_) /\ Once(idleCoQue_)
    BY Types DEF ProcInv, Enough, Places
  <1>2. CASE AfterResume
    <2>1. /\ Starts(pendingTasks_, IdleThen) /\ added' = added
          /\ pendingTasks_' = SubSeq(pendingTasks_, Len(pendingTasks_) + 1, Len(pendingTasks_))
      BY <1>2 DEF AfterResume, Taken, outside
    <2>2. IdleThen \in Seq(Cos) /\ Once(IdleThen) /\ Len(pendingTasks_) <= Len(IdleThen)
      <3>1. CASE ~ Ended
        BY <1>1, <3>1 DEF IdleThen
      <3>2. CASE Ended
        <4>1. cur \in Cos /\ cur \notin Range(idleCoQue_)
          BY <3>2, Types DEF ProcInv, Ended, Places, Busy, Idle
        <4>2. IdleThen \in Seq(Cos) /\ Once(IdleThen) /\ Len(IdleThen) = Len(idleCoQue_) + 1
          BY <1>1, <3>2, <4>1, AppendFacts DEF IdleThen
        <4> QED
          BY <1>1, <4>2
      <3> QED
        BY <3>1, <3>2
    <2>3. pendingTasks_' \in Seq(Tasks) /\ Len(pendingTasks_') = 0
      BY <1>1, <2>1
    <2>4. Once(pendingTasks_') /\ Range(pendingTasks_') = {}
      <3>1. \A x : x \in Range(pendingTasks_')
                     <=> \E i \in 1..Len(pendingTasks_') : pendingTasks_'[i] = x
        BY <2>3, RangeFacts
      <3> QED
        BY <2>3, <3>1 DEF Once
    <2>5. Once(pendingTasks_)
      BY DEF TaskInv, TaskOnce
    <2> QED
      BY <1>1, <2>1, <2>2, <2>3, <2>4, <2>5, StartsOnce
  <1>3. CASE \E k \in Tasks : UserAdds(k)
    <2>1. PICK k \in Tasks : UserAdds(k)
      BY <1>3
    <2>2. /\ Starts(<<k>>, idleCoQue_) /\ added' = added \cup {k} /\ k \notin added
          /\ pendingTasks_' = pendingTasks_ /\ Len(pendingTasks_) < Len(idleCoQue_)
      BY <2>1 DEF UserAdds, MayAdd
    <2>3. <<k>> \in Seq(Tasks) /\ Once(<<k>>) /\ Range(<<k>>) = {k} /\ Len(<<k>>) = 1
      BY OneFacts
    <2>4. Len(<<k>>) <= Len(idleCoQue_)
      BY <1>1, <2>2, <2>3
    <2>5. /\ Once(pendingTasks_')
          /\ Range(pendingTasks_') = Range(pendingTasks_) \ Range(<<k>>)
          /\ Range(<<k>>) \cap added = {} /\ added' = added \cup Range(<<k>>)
      BY <2>2, <2>3 DEF TaskInv, TaskOnce
    <2>6. pendingTasks_' \in Seq(Tasks)
      BY <1>1, <2>2
    <2> QED
      BY <1>1, <2>2, <2>3, <2>4, <2>5, <2>6, StartsOnce
  <1> QED
    BY <1>2, <1>3

\* All other steps: at most a coroutine ends.
LEMMA OthersOnce ==
    ASSUME ProcInv, TaskInv, UNCHANGED <<pendingTasks_, added>>,
           body' = body \/ (cur \in Cos /\ body' = [body EXCEPT ![cur] = NoTask])
    PROVE  TaskInv' /\ HandsOver
  <1>1. \A c \in Cos : body'[c] \in {body[c], NoTask} /\ NoTask \notin Tasks
    BY Types, Names DEF ProcInv
  <1>2. TaskInv'
    BY <1>1 DEF TaskInv, TaskOnce
  <1>3. HandsOver
    BY <1>1 DEF HandsOver
  <1> QED
    BY <1>2, <1>3

\* One step of any thread, coroutine or the kernel.
LEMMA TaskNextInv == ProcInv /\ TaskInv /\ [ProcNext]_procVars => TaskInv' /\ HandsOver
  <1> SUFFICES ASSUME ProcInv, TaskInv, [ProcNext]_procVars PROVE TaskInv' /\ HandsOver
    OBVIOUS
  <1> USE DEF coVars, queueVars, epollVars, timerVars, outside
  <1>1. CASE \E t \in Threads, k \in Tasks : AddPendingTask(t, k)
    BY <1>1, PendingOnce
  <1>2. CASE AfterResume \/ \E k \in Tasks : UserAdds(k)
    BY <1>2, QueuedOnce
  <1>3. CASE LoopEnds \/ UserEnds
    <2>1. /\ ppc = "co" /\ body' = [body EXCEPT ![cur] = NoTask]
          /\ UNCHANGED <<pendingTasks_, added>>
      BY <1>3 DEF LoopEnds, UserEnds, OwnRuns, UserRuns, Runs, Terminates
    <2> QED
      BY <2>1, Current, OthersOnce
  <1>4. CASE \/ Run \/ WhileTest \/ SetEpolling \/ PollTest \/ WaitReturns \/ WaitTimesOut
             \/ LoopGoesOn \/ ReadSome \/ ReadHolds \/ Resumed \/ Deal \/ DealAborts
    <2>1. UNCHANGED <<pendingTasks_, added, body>>
      BY <1>4 DEF Run, WhileTest, SetEpolling, PollTest, WaitReturns, WaitTimesOut,
                  LoopGoesOn, ReadSome, ReadHolds, Resumed, Deal, DealAborts, GoesTo, Holds
    <2> QED
      BY <2>1, OthersOnce
  <1>5. CASE \/ \E s \in Socks : UserConnects(s) \/ UserIo(s) \/ IoArrives(s)
             \/ UserSleeps \/ UserStops \/ AlarmFires
             \/ \E t \in Threads : Thread(t) \/ Stop(t)
             \/ UNCHANGED procVars
    <2>1. UNCHANGED <<pendingTasks_, added, body>>
      BY <1>5 DEF UserConnects, UserIo, IoArrives, UserSleeps, UserStops, AlarmFires, Thread,
                  TestEpolling, WakeupEpollCo, Stop, Holds, procVars
    <2> QED
      BY <2>1, OthersOnce
  <1> QED
    BY <1>1, <1>2, <1>3, <1>4, <1>5 DEF ProcNext, Loop, OwnSteps, UserYields

\* The tasks of a processor, in every state.
LEMMA TaskInvariant == ProcSpec => []TaskInv
  <1>1. ASSUME ProcInit PROVE TaskInv
    <2>1. /\ pendingTasks_ \in Seq(Tasks) /\ pendingTasks_ = <<>> /\ Len(pendingTasks_) = 0
          /\ \A c \in Cos : body[c] = IF c \in Workers THEN NoTask ELSE c
      BY <1>1 DEF ProcInit
    <2>2. Range(pendingTasks_) = {}
      BY <2>1, RangeFacts
    <2>3. \A c \in Cos : body[c] \notin Tasks
      BY <2>1, ProcAssumption, Names DEF Cos
    <2> QED
      BY <2>1, <2>2, <2>3 DEF TaskInv, TaskOnce, Once
  <1>2. ProcInv /\ TaskInv /\ [ProcNext]_procVars => TaskInv'
    BY TaskNextInv
  <1> QED
    BY <1>1, <1>2, ProcInvariant, PTL DEF ProcSpec

\* A task is pending or in one coroutine, never in both and never in two: the swap of
\* pendingTasks_ and the reset of idle coroutines give every task a coroutine of its own.
THEOREM TaskIsRunOnce == ProcSpec => []TaskOnce
  BY TaskInvariant, PTL DEF TaskInv

\* Whatever other threads, timers and events do meanwhile, no pending task is dropped, and
\* none that has left pendingTasks_ is started again.
THEOREM TasksAreHandedOver == ProcSpec => [][HandsOver]_procVars
  <1>1. ProcInv /\ TaskInv /\ [ProcNext]_procVars => [HandsOver]_procVars
    BY TaskNextInv
  <1> QED
    BY <1>1, ProcInvariant, TaskInvariant, PTL DEF ProcSpec
=============================================================================
