-------------------------- MODULE TcpClientProofs --------------------------
(***************************************************************************)
(* TLAPS proofs about TcpClient: any threads, sockets and retry delays.    *)
(* That stop() reaches an attempt needs nothing more.  That an attempt     *)
(* never meets another one holds for a client that is told to connect()    *)
(* once, the hypothesis of the other theorems: a second connect() fails    *)
(* startInLoop()'s assertion.                                              *)
(***************************************************************************)
EXTENDS TcpClient, TLAPS

-----------------------------------------------------------------------------
(* The inductive invariant.                                                *)

\* A function is queued, at most once, before another.
In(q, f) == \E i \in 1..Len(q) : q[i] = f
Single(q, f) == \A i, j \in 1..Len(q) : q[i] = f /\ q[j] = f => i = j
Before(q, f, g) == \A i, j \in 1..Len(q) : q[i] = f /\ q[j] = g => i < j

Destroy(s) == <<"connectDestroyed", s>>
ForceFn(s) == <<"forceCloseInLoop", s>>
Live(s) == conn[s] \in {"kConnected", "kDisconnecting"}

\* connect() has not been called, or its startInLoop() has yet to run.
Starting(t) == pc[t] \in {"start", "queueStart"}
ToStart == connects = 0 \/ (\E t \in Threads : Starting(t)) \/ In(queue, Fn("startInLoop"))

\* There is one startInLoop(), and until it runs there is nothing else.
OneStart ==
    /\ connects <= 1
    /\ \A t, u \in Threads : Starting(t) /\ Starting(u) => t = u
    /\ In(queue, Fn("startInLoop")) => \A t \in Threads : ~ Starting(t)
    /\ Single(queue, Fn("startInLoop"))
    /\ connects = 0 => ~ In(queue, Fn("startInLoop")) /\ \A t \in Threads : ~ Starting(t)
    /\ ToStart =>
         /\ status_ = "kDisconnected" /\ channel_ = "null" /\ timers = 0 /\ connection_ = NoSock
         /\ \A s \in Socks : conn[s] = "none"

\* status_ tells who makes the next attempt: the timer, the one under way, or the
\* connection when it is closed.
OneAttempt ==
    /\ timers <= 1 /\ (timers > 0 => status_ = "kDisconnected")
    /\ status_ = "kConnecting" <=> channel_ = "added"
    /\ channel_ = "added" => chanFd \in Socks /\ conn[chanFd] = "none"
    /\ connection_ # NoSock => status_ = "kConnected"
    /\ inner = "down" =>
         /\ connection_ # NoSock /\ conn[connection_] = "kDisconnected" /\ channel_ = "null"
    /\ inner = "restart" => connection_ = NoSock /\ status_ = "kConnected" /\ channel_ = "null"
    /\ inner = "error" => status_ = "kDisconnected"

\* A connection is the client's until it is closed and then waits for connectDestroyed(),
\* behind whatever was queued for it.
Owned ==
    /\ connection_ # NoSock => conn[connection_] # "none"
    /\ \A s \in Socks :
         /\ Live(s) => connection_ = s
         /\ conn[s] = "kDisconnected" <=>
              In(queue, Destroy(s)) \/ (inner = "down" /\ connection_ = s)
         /\ In(queue, Destroy(s)) => connection_ # s
         /\ Single(queue, Destroy(s))
         /\ In(queue, ForceFn(s)) => conn[s] # "none"
         /\ Before(queue, ForceFn(s), Destroy(s))

\* A channel that was removed waits for resetChannel(), in front of whatever may start the
\* next attempt.
OneReset ==
    /\ channel_ = "removed" <=> In(queue, Fn("resetChannel"))
    /\ Single(queue, Fn("resetChannel"))
    /\ channel_ = "removed" =>
         /\ phase # "wait"
         /\ \A s \in Socks : Live(s) => Before(queue, Fn("resetChannel"), ForceFn(s))

\* What epoll reported is still true when it is handled.
Round ==
    /\ phase # "events" => ready = {}
    /\ "connector" \in ready => status_ = "kConnecting"
    /\ "timer" \in ready => timers = 1 /\ channel_ = "null"
    /\ \A s \in ready \cap Socks : Live(s) /\ channel_ = "null"

ClientInv ==
    /\ ClientTypeOK /\ OneStart /\ OneAttempt /\ Owned /\ OneReset /\ Round /\ SocketsOwned

-----------------------------------------------------------------------------
(* What the queue operations do to what the invariant says of the queue.   *)

\* queueInLoop() puts one function at the end.
LEMMA AppendFacts ==
    ASSUME NEW S, NEW q \in Seq(S), NEW f \in S, NEW g, NEW h
    PROVE  /\ Append(q, f) \in Seq(S)
           /\ In(Append(q, f), g) <=> In(q, g) \/ g = f
           /\ Single(q, g) /\ (g = f => ~ In(q, f)) => Single(Append(q, f), g)
           /\ Before(q, g, h) /\ g # h /\ (g = f => ~ In(q, h)) => Before(Append(q, f), g, h)
           /\ ~ In(q, g) => Before(q, g, h)
  <1> DEFINE r == Append(q, f)
  <1>1. /\ r \in Seq(S) /\ Len(r) = Len(q) + 1 /\ Len(q) \in Nat
        /\ \A i \in 1..Len(q) : r[i] = q[i]
        /\ r[Len(q) + 1] = f
    BY SMT
  <1> HIDE DEF r
  <1>2. In(r, g) <=> In(q, g) \/ g = f
    BY <1>1 DEF In
  <1>3. Single(q, g) /\ (g = f => ~ In(q, f)) => Single(r, g)
    BY <1>1 DEF In, Single
  <1>4. Before(q, g, h) /\ g # h /\ (g = f => ~ In(q, h)) => Before(r, g, h)
    BY <1>1 DEF In, Before
  <1>5. ~ In(q, g) => Before(q, g, h)
    BY DEF In, Before
  <1> QED
    BY <1>1, <1>2, <1>3, <1>4, <1>5 DEF r

\* The loop takes the first function.
LEMMA TailFacts ==
    ASSUME NEW S, NEW q \in Seq(S), q # <<>>, NEW g, NEW h
    PROVE  /\ Tail(q) \in Seq(S) /\ Head(q) \in S
           /\ In(q, g) <=> In(Tail(q), g) \/ Head(q) = g
           /\ Single(q, g) => Single(Tail(q), g)
           /\ Single(q, g) /\ Head(q) = g => ~ In(Tail(q), g)
           /\ Before(q, g, h) => Before(Tail(q), g, h)
           /\ Before(q, g, h) /\ Head(q) = h => ~ In(q, g)
  <1> DEFINE r == Tail(q)
  <1>1. /\ r \in Seq(S) /\ Len(r) = Len(q) - 1 /\ Len(q) \in Nat \ {0}
        /\ Head(q) = q[1] /\ Head(q) \in S
    BY SMT
  <1>2. \A i \in 1..Len(r) : r[i] = q[i + 1]
    BY <1>1, SMT
  <1> HIDE DEF r
  <1>3. ASSUME In(q, g) PROVE In(r, g) \/ q[1] = g
    <2>1. PICK i \in 1..Len(q) : q[i] = g
      BY <1>3 DEF In
    <2>2. CASE i # 1
      <3>1. i - 1 \in 1..Len(r) /\ r[i - 1] = q[i]
        BY <1>1, <1>2, <2>2
      <3> QED
        BY <2>1, <3>1 DEF In
    <2> QED
      BY <2>1, <2>2
  <1>4. In(r, g) \/ q[1] = g => In(q, g)
    BY <1>1, <1>2 DEF In
  <1>5. Single(q, g) => Single(r, g)
    BY <1>1, <1>2 DEF Single
  <1>6. Single(q, g) /\ q[1] = g => ~ In(r, g)
    BY <1>1, <1>2 DEF Single, In
  <1>7. Before(q, g, h) => Before(r, g, h)
    BY <1>1, <1>2 DEF Before
  <1>8. Before(q, g, h) /\ q[1] = h => ~ In(q, g)
    BY <1>1 DEF Before, In
  <1> QED
    BY <1>1, <1>3, <1>4, <1>5, <1>6, <1>7, <1>8 DEF r

\* The queued functions are different ones.
LEMMA Names ==
    /\ Fn("startInLoop") # Fn("resetChannel") /\ Fn("startInLoop") # Fn("stopInLoop")
    /\ Fn("resetChannel") # Fn("stopInLoop")
    /\ \A s : /\ Destroy(s) \notin {Fn("startInLoop"), Fn("resetChannel"), Fn("stopInLoop")}
              /\ ForceFn(s) \notin {Fn("startInLoop"), Fn("resetChannel"), Fn("stopInLoop")}
              /\ \A r : Destroy(s) # ForceFn(r)
              /\ \A r : s # r => Destroy(s) # Destroy(r) /\ ForceFn(s) # ForceFn(r)
    /\ {Fn("startInLoop"), Fn("resetChannel"), Fn("stopInLoop")} \subseteq Functor
    /\ \A s \in Socks : Destroy(s) \in Functor /\ ForceFn(s) \in Functor
  BY DEF Fn, Destroy, ForceFn, Functor

\* The function a queue starts with, by its name.
LEMMA HeadName ==
    ASSUME NEW f \in Functor
    PROVE  /\ f[1] = "startInLoop" => f = Fn("startInLoop")
           /\ f[1] = "stopInLoop" => f = Fn("stopInLoop")
           /\ f[1] = "resetChannel" => f = Fn("resetChannel")
           /\ f[1] = "connectDestroyed" => f[2] \in Socks /\ f = Destroy(f[2])
           /\ f[1] = "forceCloseInLoop" => f[2] \in Socks /\ f = ForceFn(f[2])
  BY DEF Fn, Destroy, ForceFn, Functor

\* A queue r that says of attempts, resets and connections what q said.
Kept(q, r) ==
    /\ r \in Seq(Functor)
    /\ In(r, Fn("resetChannel")) <=> In(q, Fn("resetChannel"))
    /\ Single(q, Fn("resetChannel")) => Single(r, Fn("resetChannel"))
    /\ \A s \in Socks :
         /\ In(r, Destroy(s)) <=> In(q, Destroy(s))
         /\ Single(q, Destroy(s)) => Single(r, Destroy(s))
         /\ In(r, ForceFn(s)) => In(q, ForceFn(s))
         /\ Before(q, ForceFn(s), Destroy(s)) => Before(r, ForceFn(s), Destroy(s))
         /\ Before(q, Fn("resetChannel"), ForceFn(s)) => Before(r, Fn("resetChannel"), ForceFn(s))

\* ... of startInLoop() as well.
KeptStart(q, r) ==
    /\ In(r, Fn("startInLoop")) <=> In(q, Fn("startInLoop"))
    /\ Single(q, Fn("startInLoop")) => Single(r, Fn("startInLoop"))

\* Queueing startInLoop or stopInLoop keeps the rest.
LEMMA AppendKept ==
    ASSUME NEW q \in Seq(Functor), NEW f \in {Fn("startInLoop"), Fn("stopInLoop")}
    PROVE  /\ Kept(q, Append(q, f))
           /\ f = Fn("stopInLoop") => KeptStart(q, Append(q, f))
           /\ In(Append(q, f), Fn("startInLoop")) <=>
                In(q, Fn("startInLoop")) \/ f = Fn("startInLoop")
           /\ ~ In(q, Fn("startInLoop")) => Single(Append(q, f), Fn("startInLoop"))
  <1> DEFINE r == Append(q, f)
  <1>1. f \in Functor /\ f # Fn("resetChannel") /\ \A s : f # Destroy(s) /\ f # ForceFn(s)
    BY Names
  <1>2. r \in Seq(Functor)
    BY <1>1, AppendFacts
  <1>3. ASSUME NEW g PROVE In(r, g) <=> In(q, g) \/ g = f
    BY <1>1, AppendFacts
  <1>4. ASSUME NEW g, g # f PROVE Single(q, g) => Single(r, g)
    BY <1>1, <1>4, AppendFacts
  <1>5. ASSUME NEW g, NEW h, g # f, g # h PROVE Before(q, g, h) => Before(r, g, h)
    BY <1>1, <1>5, AppendFacts
  <1>6. ~ In(q, Fn("startInLoop")) => Single(r, Fn("startInLoop"))
    <2>1. ~ In(q, Fn("startInLoop")) => Single(q, Fn("startInLoop"))
      BY DEF In, Single
    <2> QED
      BY <1>1, <2>1, AppendFacts
  <1> HIDE DEF r
  <1>7. ASSUME NEW s \in Socks
        PROVE  /\ In(r, Destroy(s)) <=> In(q, Destroy(s))
               /\ Single(q, Destroy(s)) => Single(r, Destroy(s))
               /\ In(r, ForceFn(s)) => In(q, ForceFn(s))
               /\ Before(q, ForceFn(s), Destroy(s)) => Before(r, ForceFn(s), Destroy(s))
               /\ Before(q, Fn("resetChannel"), ForceFn(s)) =>
                    Before(r, Fn("resetChannel"), ForceFn(s))
    <2>1. ForceFn(s) # Destroy(s) /\ Fn("resetChannel") # ForceFn(s)
      BY Names
    <2> QED
      BY <1>1, <1>3, <1>4, <1>5, <2>1
  <1>8. Kept(q, r)
    BY <1>1, <1>2, <1>3, <1>4, <1>7 DEF Kept
  <1>9. f = Fn("stopInLoop") => KeptStart(q, r)
    BY <1>3, <1>4, Names DEF KeptStart
  <1> QED
    BY <1>3, <1>6, <1>8, <1>9 DEF r

\* So does leaving the queue alone.
LEMMA SameKept ==
    ASSUME NEW q \in Seq(Functor) PROVE Kept(q, q) /\ KeptStart(q, q)
  BY DEF Kept, KeptStart

\* And so does running them, and running forceCloseInLoop.
LEMMA TailKept ==
    ASSUME NEW q \in Seq(Functor), q # <<>>
    PROVE  /\ Head(q)[1] \in {"startInLoop", "stopInLoop", "forceCloseInLoop"} => Kept(q, Tail(q))
           /\ Head(q)[1] # "startInLoop" => KeptStart(q, Tail(q))
           /\ Head(q)[1] = "startInLoop" /\ Single(q, Fn("startInLoop")) =>
                ~ In(Tail(q), Fn("startInLoop"))
  <1> DEFINE r == Tail(q)
  <1>2. r \in Seq(Functor) /\ Head(q) \in Functor
    BY TailFacts
  <1>3. ASSUME NEW g PROVE /\ In(q, g) <=> In(r, g) \/ Head(q) = g
                           /\ Single(q, g) => Single(r, g)
                           /\ Single(q, g) /\ Head(q) = g => ~ In(r, g)
    BY TailFacts
  <1>4. ASSUME NEW g, NEW h PROVE Before(q, g, h) => Before(r, g, h)
    BY TailFacts
  <1> HIDE DEF r
  <1>5. ASSUME Head(q)[1] \in {"startInLoop", "stopInLoop", "forceCloseInLoop"} PROVE Kept(q, r)
    <2>1. Head(q) # Fn("resetChannel") /\ \A s : Head(q) # Destroy(s)
      BY <1>5 DEF Fn, Destroy
    <2> QED
      BY <1>2, <1>3, <1>4, <2>1 DEF Kept
  <1>6. Head(q)[1] # "startInLoop" => KeptStart(q, r)
    <2>1. Head(q)[1] # "startInLoop" => Head(q) # Fn("startInLoop")
      BY DEF Fn
    <2> QED
      BY <1>3, <2>1 DEF KeptStart
  <1>7. Head(q)[1] = "startInLoop" /\ Single(q, Fn("startInLoop")) => ~ In(r, Fn("startInLoop"))
    <2>1. Head(q)[1] = "startInLoop" => Head(q) = Fn("startInLoop")
      BY <1>2, HeadName
    <2> QED
      BY <1>3, <2>1
  <1> QED
    BY <1>5, <1>6, <1>7 DEF r

-----------------------------------------------------------------------------
(* Steps that make, give up and end nothing.                               *)

\* A step after which attempt, timers, channel and connection are what they were; what it
\* does to the calls of connect() is a premise.
LEMMA StillButStart ==
    ASSUME ClientInv,
           UNCHANGED <<status_, retryDelayMs_, channel_, chanFd, timers, open, connection_>>,
           Kept(queue, queue'), OneStart', connects' \in 0..MaxConnects,
           conn' \in [Socks -> {"none", "kConnected", "kDisconnecting", "kDisconnected"}],
           \A s \in Socks : conn'[s] = conn[s] \/ (Live(s) /\ Live(s)'),
           inner' = inner \/ (inner # "down" /\ inner' \in {"none", "user"}),
           pc' \in [Threads -> {"idle", "start", "queueStart", "stop", "queueStop", "shutdown"}],
           phase' \in {"wait", "events", "funcs"}, channel_ = "removed" => phase' # "wait",
           {connect_', clientConnect_', retry_', fatal'} \subseteq BOOLEAN,
           ready' \in SUBSET Source, Round'
    PROVE  ClientInv'
  <1>1. ClientTypeOK'
    BY DEF ClientInv, ClientTypeOK, Kept
  <1>2. ASSUME NEW s \in Socks PROVE /\ conn'[s] = "none" <=> conn[s] = "none"
                                     /\ conn'[s] = "kDisconnected" <=> conn[s] = "kDisconnected"
                                     /\ Live(s)' <=> Live(s)
    BY <1>2 DEF Live
  <1>3. connection_ \in Socks \cup {NoSock} /\ (channel_ = "added" => chanFd \in Socks)
    BY DEF ClientInv, ClientTypeOK, OneAttempt
  <1>4. OneAttempt'
    BY <1>2, <1>3 DEF ClientInv, OneAttempt
  <1>5. Owned'
    BY <1>2, <1>3 DEF ClientInv, Owned, Kept
  <1>6. OneReset'
    BY <1>2 DEF ClientInv, OneReset, Kept
  <1>7. SocketsOwned'
    BY <1>2 DEF ClientInv, SocketsOwned
  <1> QED
    BY <1>1, <1>4, <1>5, <1>6, <1>7 DEF ClientInv

\* The same for a step that has nothing to do with connect().
LEMMA Still ==
    ASSUME ClientInv,
           UNCHANGED <<status_, retryDelayMs_, channel_, chanFd, timers, open>>,
           UNCHANGED <<connection_, connects>>,
           Kept(queue, queue'), KeptStart(queue, queue'),
           conn' \in [Socks -> {"none", "kConnected", "kDisconnecting", "kDisconnected"}],
           \A s \in Socks : conn'[s] = conn[s] \/ (Live(s) /\ Live(s)'),
           inner' = inner \/ (inner # "down" /\ inner' \in {"none", "user"}),
           pc' \in [Threads -> {"idle", "start", "queueStart", "stop", "queueStop", "shutdown"}],
           \A t \in Threads : Starting(t)' <=> Starting(t),
           phase' \in {"wait", "events", "funcs"}, channel_ = "removed" => phase' # "wait",
           {connect_', clientConnect_', retry_', fatal'} \subseteq BOOLEAN,
           ready' \in SUBSET Source, Round'
    PROVE  ClientInv'
  <1>1. ToStart' <=> ToStart
    BY DEF ToStart, KeptStart
  <1>2. \A s \in Socks : conn[s] = "none" => conn'[s] = "none"
    BY DEF Live
  <1>3. OneStart'
    BY <1>1, <1>2 DEF ClientInv, OneStart, KeptStart
  <1>4. connects' \in 0..MaxConnects
    BY DEF ClientInv, ClientTypeOK
  <1> QED
    BY <1>3, <1>4, StillButStart

\* What the invariant says of the types of what the steps below leave alone.
LEMMA Types ==
    ASSUME ClientInv
    PROVE  /\ {connect_, clientConnect_, retry_, fatal} \subseteq BOOLEAN
           /\ conn \in [Socks -> {"none", "kConnected", "kDisconnecting", "kDisconnected"}]
           /\ connection_ \in Socks \cup {NoSock} /\ open \subseteq Socks
           /\ phase \in {"wait", "events", "funcs"} /\ ready \in SUBSET Source
           /\ pc \in [Threads -> {"idle", "start", "queueStart", "stop", "queueStop", "shutdown"}]
           /\ queue \in Seq(Functor) /\ Kept(queue, queue) /\ KeptStart(queue, queue)
           /\ Round
  BY SameKept DEF ClientInv, ClientTypeOK

\* The loop's rounds, and callbacks that begin or return.
LEMMA RoundStill ==
    ASSUME ClientInv,
           \/ Wait \/ EventsHandled \/ FuncsDone \/ UserEvent
           \/ HandleWriteAfterError \/ UserReturns
    PROVE  ClientInv'
  <1> USE DEF connectorVars, clientVars, callVars, loopVars
  <1>0. UNCHANGED <<connectorVars, clientVars, queue, callVars>>
    BY DEF Wait, EventsHandled, FuncsDone, UserEvent, HandleWriteAfterError, UserReturns
  <1>1. \A s \in Socks : Live(s)' <=> Live(s)
    BY <1>0 DEF Live
  <1>2. \A t \in Threads : Starting(t)' <=> Starting(t)
    BY <1>0 DEF Starting
  <1>3. Round' /\ (channel_ = "removed" => phase' # "wait")
    <2>1. CASE Wait
      <3>1. channel_ # "removed" /\ (timers > 0 => timers = 1 /\ channel_ = "null")
        BY <2>1 DEF Wait, ClientInv, OneReset, OneAttempt, ClientTypeOK
      <3>2. \A s \in Socks : Live(s) => channel_ = "null"
        BY <3>1, ClientAssumption DEF ClientInv, Owned, OneAttempt, ClientTypeOK
      <3>3. /\ "connector" \in ready' => channel_ = "added"
            /\ "timer" \in ready' => timers > 0
            /\ \A s \in ready' \cap Socks : Live(s)
            /\ phase' = "events"
        BY <2>1 DEF Wait, Live
      <3>4. channel_ = "added" => status_ = "kConnecting"
        BY DEF ClientInv, OneAttempt
      <3> QED
        BY <1>0, <1>1, <3>1, <3>2, <3>3, <3>4 DEF Round
    <2>2. CASE EventsHandled
      BY <1>0, <1>1, <2>2 DEF EventsHandled, ClientInv, Round
    <2>3. CASE FuncsDone
      <3>1. ~ In(queue, Fn("resetChannel"))
        BY <2>3 DEF FuncsDone, In
      <3> QED
        BY <1>0, <1>1, <2>3, <3>1 DEF FuncsDone, ClientInv, Round, OneReset
    <2>4. CASE UserEvent \/ HandleWriteAfterError \/ UserReturns
      <3>1. phase' = phase /\ ready' \subseteq ready
        BY <2>4 DEF UserEvent, HandleWriteAfterError, UserReturns, Handles
      <3> QED
        BY <1>0, <1>1, <3>1 DEF ClientInv, Round, OneReset
    <2> QED
      BY <2>1, <2>2, <2>3, <2>4
  <1>4. /\ phase' \in {"wait", "events", "funcs"} /\ ready' \in SUBSET Source
        /\ inner' = inner \/ (inner # "down" /\ inner' \in {"none", "user"})
    BY Types DEF Wait, EventsHandled, FuncsDone, UserEvent, HandleWriteAfterError, UserReturns,
                 Handles
  <1> QED
    BY <1>0, <1>2, <1>3, <1>4, Still, Types

\* stop(), disconnect() and enableRetry(), and the flag start() sets.
LEMMA CallStill ==
    ASSUME ClientInv,
           \/ UserStops \/ UserDisconnects \/ EnableRetry
           \/ \E t \in Threads :
                \/ ThreadStarts(t) \/ ThreadStops(t) \/ ThreadClears(t) \/ ThreadQueuesStop(t)
                \/ ThreadDisconnects(t) \/ ThreadShutsDown(t)
    PROVE  ClientInv'
  <1> USE DEF UserStops, UserDisconnects, EnableRetry, ThreadStarts, ThreadStops, ThreadClears,
              ThreadQueuesStop, ThreadDisconnects, ThreadShutsDown
  <1> USE DEF connectorVars, clientVars, callVars, loopVars
  <1>0. /\ UNCHANGED <<status_, retryDelayMs_, channel_, chanFd, timers, open, fatal, connection_,
                       connects, loopVars>>
        /\ {connect_', clientConnect_', retry_', fatal'} \subseteq BOOLEAN
    BY Types
  <1>1. /\ conn' \in [Socks -> {"none", "kConnected", "kDisconnecting", "kDisconnected"}]
        /\ \A s \in Socks : conn'[s] = conn[s] \/ (Live(s) /\ Live(s)')
    BY Types DEF ShutDown, Live
  <1>2. Kept(queue, queue') /\ KeptStart(queue, queue')
    <2>1. queue' = queue \/ queue' = Append(queue, Fn("stopInLoop"))
      OBVIOUS
    <2> QED
      BY <2>1, Types, AppendKept
  <1>3. /\ pc' \in [Threads -> {"idle", "start", "queueStart", "stop", "queueStop", "shutdown"}]
        /\ \A t \in Threads : Starting(t)' <=> Starting(t)
    BY Types DEF Goes, Starting
  <1>4. Round'
    BY <1>0, <1>1, Types DEF Round, Live
  <1>5. channel_ = "removed" => phase' # "wait"
    BY <1>0 DEF ClientInv, OneReset
  <1> QED
    BY <1>0, <1>1, <1>2, <1>3, <1>4, <1>5, Still, Types

-----------------------------------------------------------------------------
(* Attempts.                                                               *)

\* connect() of another thread, up to the queueing of startInLoop.
LEMMA CallKeeps ==
    ASSUME MaxConnects <= 1, ClientInv, NEW t \in Threads, ThreadConnects(t) \/ ThreadQueuesStart(t)
    PROVE  ClientInv'
  <1> USE DEF connectorVars, clientVars, loopVars
  <1>1. /\ UNCHANGED <<connectorVars, connection_, conn, loopVars, retry_>>
        /\ clientConnect_' \in BOOLEAN
    BY Types DEF ThreadConnects, ThreadQueuesStart
  <1>2. pc' \in [Threads -> {"idle", "start", "queueStart", "stop", "queueStop", "shutdown"}]
    BY Types DEF ThreadConnects, ThreadQueuesStart, Goes
  <1>3. Round' /\ (channel_ = "removed" => phase' # "wait")
    BY <1>1, Types DEF Round, Live, ClientInv, OneReset
  <1>4. connects \in Nat /\ MaxConnects \in Nat
    BY ClientAssumption DEF ClientInv, ClientTypeOK
  <1>5. CASE ThreadConnects(t)
    <2>1. connects = 0 /\ connects' = 1 /\ connects' \in 0..MaxConnects /\ queue' = queue
      BY <1>4, <1>5 DEF ThreadConnects
    <2>2. /\ ~ In(queue, Fn("startInLoop")) /\ ToStart
          /\ \A u \in Threads : Starting(u)' => u = t
      BY <1>5, <2>1, Types DEF ClientInv, OneStart, Starting, ThreadConnects, Goes, ToStart
    <2>3. OneStart'
      BY <1>1, <2>1, <2>2 DEF ClientInv, OneStart
    <2> QED
      BY <1>1, <1>2, <1>3, <2>1, <2>3, StillButStart, Types
  <1>6. CASE ThreadQueuesStart(t)
    <2>1. /\ Starting(t) /\ connects' = connects /\ connects' \in 0..MaxConnects
          /\ queue' = Append(queue, Fn("startInLoop"))
      BY <1>6 DEF ThreadQueuesStart, Goes, Starting, ClientInv, ClientTypeOK
    <2>2. connects # 0 /\ ~ In(queue, Fn("startInLoop")) /\ ToStart
      BY <2>1 DEF ClientInv, OneStart, ToStart
    <2>3. Kept(queue, queue') /\ In(queue', Fn("startInLoop")) /\ Single(queue', Fn("startInLoop"))
      BY <2>1, <2>2, Types, AppendKept
    <2>4. \A u \in Threads : ~ Starting(u)'
      BY <1>6, <2>1, Types DEF ClientInv, OneStart, Starting, ThreadQueuesStart, Goes
    <2>5. OneStart'
      BY <1>1, <2>1, <2>2, <2>3, <2>4 DEF ClientInv, OneStart
    <2> QED
      BY <1>1, <1>2, <1>3, <2>1, <2>3, <2>5, StillButStart, Types
  <1> QED
    BY <1>5, <1>6

\* connect(): with no attempt under way, no channel, no connection and no timer left, it
\* leaves an attempt, a timer or neither.
LEMMA AttemptKeeps ==
    ASSUME ClientInv, NEW d \in kInitRetryDelayMs..kMaxRetryDelayMs, Connect(0, d),
           channel_ = "null", connection_ = NoSock, status_ # "kConnecting", inner # "down",
           inner' \in {"none", "user"}, UNCHANGED <<conn, connection_, retry_, pc, phase>>,
           {connect_', clientConnect_'} \subseteq BOOLEAN, connects' \in 1..MaxConnects,
           connects' <= 1, \A t \in Threads : ~ Starting(t),
           ready' \subseteq ready, "timer" \notin ready',
           Kept(queue, queue'), ~ In(queue', Fn("startInLoop"))
    PROVE  ClientInv'
  <1>1. \A s \in Socks : ~ Live(s)
    BY ClientAssumption DEF ClientInv, Owned
  <1>2. /\ fatal' \in BOOLEAN /\ status_' \in {"kConnecting", "kDisconnected"}
        /\ timers' \in {0, 1} /\ (timers' = 1 => status_' = "kDisconnected")
    <2>1. fatal \in BOOLEAN
      BY Types
    <2>2. fatal' = fatal \/ fatal' = TRUE
      BY DEF Connect
    <2>3. /\ status_' \in {"kConnecting", "kDisconnected"}
          /\ timers' \in {0, 1} /\ (timers' = 1 => status_' = "kDisconnected")
      BY DEF Connect, Retry
    <2> QED
      BY <2>1, <2>2, <2>3
  <1>3. retryDelayMs_' \in kInitRetryDelayMs..kMaxRetryDelayMs
    BY ClientAssumption DEF Connect, Retry
  <1>4. \/ \E s \in Socks : /\ conn[s] = "none" /\ open' = open \cup {s} /\ chanFd' = s
                            /\ channel_' = "added" /\ status_' = "kConnecting"
        \/ status_' = "kDisconnected" /\ UNCHANGED <<open, channel_, chanFd>>
    BY DEF Connect, Retry, ClientInv, SocketsOwned
  <1>5. ClientTypeOK'
    BY <1>2, <1>3, <1>4, Types DEF ClientInv, ClientTypeOK, Kept
  <1>6. ~ ToStart' /\ OneStart'
    BY DEF ToStart, OneStart, Starting, Single, In
  <1>7. OneAttempt'
    BY <1>2, <1>4 DEF OneAttempt
  <1>8. Owned'
    BY <1>1 DEF ClientInv, Owned, Kept, Live
  <1>9. OneReset'
    BY <1>4 DEF ClientInv, OneReset, Kept
  <1>10. Round'
    BY <1>1 DEF ClientInv, Round, Live
  <1>11. SocketsOwned'
    <2>1. open = {s \in Socks : conn[s] # "none"}
      BY DEF ClientInv, SocketsOwned
    <2>2. CASE status_' = "kDisconnected" /\ UNCHANGED <<open, channel_, chanFd>>
      BY <2>1, <2>2 DEF SocketsOwned
    <2>3. ASSUME NEW s \in Socks, open' = open \cup {s}, chanFd' = s, channel_' = "added"
          PROVE  SocketsOwned'
      BY <2>1, <2>3 DEF SocketsOwned
    <2> QED
      BY <1>4, <2>2, <2>3
  <1> QED
    BY <1>5, <1>6, <1>7, <1>8, <1>9, <1>10, <1>11 DEF ClientInv

\* connect() of user code, a retry timer, restart(), and startInLoop from the queue.
LEMMA StartKeeps ==
    ASSUME MaxConnects <= 1, ClientInv, UserConnects \/ RetryTimer \/ Restart \/ RunStartInLoop
    PROVE  ClientInv'
  <1> USE DEF connectorVars, clientVars, loopVars, callVars
  <1>0. /\ connects \in Nat /\ MaxConnects \in Nat /\ timers \in Nat /\ connects <= MaxConnects
        /\ retryDelayMs_ \in kInitRetryDelayMs..kMaxRetryDelayMs
        /\ kInitRetryDelayMs \in kInitRetryDelayMs..kMaxRetryDelayMs
        /\ inner \in {"none", "user", "down", "restart", "error"}
    BY ClientAssumption DEF ClientInv, ClientTypeOK
  <1>1. CASE UserConnects
    <2>1. connects < MaxConnects /\ connects' = connects + 1
      BY <1>1 DEF UserConnects
    <2>2. connects = 0 /\ connects' = 1 /\ connects' \in 1..MaxConnects /\ connects' <= 1
      BY <1>0, <2>1
    <2>3. /\ inner \in {"user", "down"} /\ StartInLoop(TRUE, timers)
          /\ clientConnect_' = TRUE /\ connect_' = TRUE
          /\ UNCHANGED <<retry_, connection_, conn, phase, inner, ready, queue, pc>>
      BY <1>1 DEF UserConnects, InUser
    <2>4. /\ status_ = "kDisconnected" /\ channel_ = "null" /\ timers = 0 /\ connection_ = NoSock
          /\ ~ In(queue, Fn("startInLoop")) /\ \A t \in Threads : ~ Starting(t)
      BY <2>2 DEF ClientInv, OneStart, ToStart
    <2>5. inner = "user" /\ "timer" \notin ready
      BY <2>3, <2>4 DEF ClientInv, OneAttempt, Round
    <2>6. Connect(0, retryDelayMs_)
      BY <2>3, <2>4 DEF StartInLoop
    <2> QED
      BY <1>0, <2>2, <2>3, <2>4, <2>5, <2>6, AttemptKeeps, Types
  <1>2. CASE RetryTimer
    <2>1. /\ phase = "events" /\ inner = "none" /\ "timer" \in ready /\ ready' = ready \ {"timer"}
          /\ StartInLoop(connect_, timers - 1)
          /\ UNCHANGED <<connect_, clientVars, phase, inner, queue, callVars>>
      BY <1>2 DEF RetryTimer, Handles
    <2>2. /\ timers = 1 /\ timers - 1 = 0 /\ channel_ = "null"
          /\ status_ = "kDisconnected" /\ connection_ = NoSock
      BY <2>1 DEF ClientInv, Round, OneAttempt
    <2>3. /\ ~ ToStart /\ connects \in 1..MaxConnects /\ connects <= 1
      BY <1>0, <2>2 DEF ClientInv, OneStart, ToStart
    <2>4. ready' \subseteq ready /\ "timer" \notin ready'
      BY <2>1
    <2>5. CASE connect_
      <3>1. Connect(0, retryDelayMs_)
        BY <2>1, <2>2, <2>5 DEF StartInLoop
      <3> QED
        BY <1>0, <2>1, <2>2, <2>3, <2>4, <3>1, AttemptKeeps, Types DEF ToStart
    <2>6. CASE ~ connect_
      <3>1. timers' = 0 /\ UNCHANGED <<open, status_, retryDelayMs_, channel_, chanFd, fatal>>
        BY <2>1, <2>2, <2>6 DEF StartInLoop
      <3>2. ClientTypeOK'
        BY <2>1, <2>4, <3>1 DEF ClientInv, ClientTypeOK
      <3>3. OneStart' /\ OneAttempt'
        BY <2>1, <2>2, <3>1 DEF ClientInv, OneStart, OneAttempt, ToStart, Starting
      <3>4. Owned' /\ OneReset'
        BY <2>1, <3>1 DEF ClientInv, Owned, OneReset, Live
      <3>5. Round' /\ SocketsOwned'
        BY <2>1, <2>4, <3>1 DEF ClientInv, Round, SocketsOwned, Live
      <3> QED
        BY <3>2, <3>3, <3>4, <3>5 DEF ClientInv
    <2> QED
      BY <2>5, <2>6
  <1>3. CASE Restart
    <2>1. /\ inner = "restart" /\ inner' = "none" /\ connect_' = TRUE
          /\ Connect(timers, kInitRetryDelayMs)
          /\ UNCHANGED <<clientVars, phase, ready, queue, callVars>>
      BY <1>3 DEF Restart
    <2>2. /\ connection_ = NoSock /\ status_ = "kConnected" /\ channel_ = "null"
          /\ timers = 0 /\ "timer" \notin ready
      BY <1>0, <2>1 DEF ClientInv, OneAttempt, Round
    <2>3. /\ ~ ToStart /\ connects \in 1..MaxConnects /\ connects <= 1
      BY <1>0, <2>2 DEF ClientInv, OneStart, ToStart
    <2> QED
      BY <1>0, <2>1, <2>2, <2>3, AttemptKeeps, Types DEF ToStart
  <1>4. CASE RunStartInLoop
    <2>1. /\ phase = "funcs" /\ inner = "none" /\ queue # <<>> /\ Head(queue)[1] = "startInLoop"
          /\ StartInLoop(connect_, timers) /\ queue' = Tail(queue)
          /\ UNCHANGED <<connect_, clientVars, loopVars, callVars>>
      BY <1>4 DEF RunStartInLoop, Runs
    <2>2. Head(queue) \in Functor
      BY <2>1, Types, TailFacts
    <2>3. Head(queue) = Fn("startInLoop")
      BY <2>1, <2>2, HeadName
    <2>4. In(queue, Fn("startInLoop"))
      BY <2>1, <2>3, Types, TailFacts
    <2>5. Kept(queue, queue') /\ ~ In(queue', Fn("startInLoop"))
      BY <2>1, Types, TailKept DEF ClientInv, OneStart
    <2>6. /\ channel_ = "null" /\ status_ = "kDisconnected" /\ connection_ = NoSock /\ timers = 0
          /\ \A t \in Threads : ~ Starting(t)
          /\ connects # 0 /\ "timer" \notin ready
      BY <2>4 DEF ClientInv, OneStart, ToStart, Round
    <2>7. connects \in 1..MaxConnects /\ connects <= 1
      BY <1>0, <2>6
    <2>8. CASE connect_
      <3>1. Connect(0, retryDelayMs_)
        BY <2>1, <2>6, <2>8 DEF StartInLoop
      <3> QED
        BY <1>0, <2>1, <2>5, <2>6, <2>7, <3>1, AttemptKeeps, Types
    <2>9. CASE ~ connect_
      <3>1. timers' = timers /\ UNCHANGED <<open, status_, retryDelayMs_, channel_, chanFd, fatal>>
        BY <2>1, <2>9 DEF StartInLoop
      <3>2. OneStart'
        BY <2>1, <2>5, <2>6, <2>7 DEF OneStart, ToStart, Starting, Single, In
      <3>3. Round' /\ (channel_ = "removed" => phase' # "wait")
        BY <2>1, <2>6, <3>1, Types DEF Round, Live
      <3>4. connects' \in 0..MaxConnects
        BY <1>0, <2>1
      <3> QED
        BY <2>1, <2>5, <3>1, <3>2, <3>3, <3>4, StillButStart, Types
    <2> QED
      BY <2>8, <2>9
  <1> QED
    BY <1>1, <1>2, <1>3, <1>4

-----------------------------------------------------------------------------
(* The end of an attempt.                                                  *)

\* While an attempt is under way there is no timer, no connection, and nothing but the
\* attempt is reported.
LEMMA UnderWay ==
    ASSUME ClientInv, status_ = "kConnecting"
    PROVE  /\ channel_ = "added" /\ chanFd \in Socks /\ conn[chanFd] = "none" /\ timers = 0
           /\ connection_ = NoSock /\ inner \in {"none", "user"} /\ ~ ToStart
           /\ ~ In(queue, Fn("resetChannel")) /\ "timer" \notin ready /\ ready \cap Socks = {}
           /\ \A s \in Socks : ~ Live(s)
  <1>1. channel_ = "added" /\ chanFd \in Socks /\ conn[chanFd] = "none" /\ connection_ = NoSock
    BY DEF ClientInv, OneAttempt
  <1>2. timers = 0
    BY DEF ClientInv, OneAttempt, ClientTypeOK
  <1>3. inner \in {"none", "user"}
    BY DEF ClientInv, OneAttempt, ClientTypeOK
  <1>4. ~ ToStart /\ ~ In(queue, Fn("resetChannel"))
    BY <1>1 DEF ClientInv, OneStart, OneReset
  <1>5. "timer" \notin ready /\ ready \cap Socks = {}
    BY <1>1 DEF ClientInv, Round
  <1>6. \A s \in Socks : ~ Live(s)
    BY <1>1, ClientAssumption DEF ClientInv, Owned
  <1> QED
    BY <1>1, <1>2, <1>3, <1>4, <1>5, <1>6

\* removeAndResetChannel() queues one resetChannel.
LEMMA ResetQueued ==
    ASSUME NEW q \in Seq(Functor), ~ In(q, Fn("resetChannel"))
    PROVE  LET r == Append(q, Fn("resetChannel"))
           IN  /\ r \in Seq(Functor) /\ KeptStart(q, r)
               /\ In(r, Fn("resetChannel")) /\ Single(r, Fn("resetChannel"))
               /\ \A s \in Socks :
                    /\ In(r, Destroy(s)) <=> In(q, Destroy(s))
                    /\ Single(q, Destroy(s)) => Single(r, Destroy(s))
                    /\ In(r, ForceFn(s)) => In(q, ForceFn(s))
                    /\ Before(q, ForceFn(s), Destroy(s)) => Before(r, ForceFn(s), Destroy(s))
                    /\ ~ In(q, ForceFn(s)) => Before(r, Fn("resetChannel"), ForceFn(s))
  <1> DEFINE f == Fn("resetChannel")
             r == Append(q, f)
  <1>1. f \in Functor /\ f # Fn("startInLoop") /\ \A s : f # Destroy(s) /\ f # ForceFn(s)
    BY Names
  <1>2. r \in Seq(Functor)
    BY <1>1, AppendFacts
  <1>3. ASSUME NEW g PROVE /\ In(r, g) <=> In(q, g) \/ g = f
                           /\ Single(q, g) /\ (g = f => ~ In(q, f)) => Single(r, g)
    BY <1>1, AppendFacts
  <1>4. ASSUME NEW g, NEW h, g # h, g = f => ~ In(q, h), Before(q, g, h) PROVE Before(r, g, h)
    BY <1>1, <1>4, AppendFacts
  <1>5. Single(q, f) /\ \A h : Before(q, f, h)
    BY DEF In, Single, Before
  <1> HIDE DEF r, f
  <1>6. ASSUME NEW s \in Socks
        PROVE  /\ In(r, Destroy(s)) <=> In(q, Destroy(s))
               /\ Single(q, Destroy(s)) => Single(r, Destroy(s))
               /\ In(r, ForceFn(s)) => In(q, ForceFn(s))
               /\ Before(q, ForceFn(s), Destroy(s)) => Before(r, ForceFn(s), Destroy(s))
               /\ ~ In(q, ForceFn(s)) => Before(r, f, ForceFn(s))
    <2>1. ForceFn(s) # Destroy(s) /\ f # ForceFn(s) /\ f # Destroy(s)
      BY <1>1, Names
    <2> QED
      BY <1>3, <1>4, <1>5, <2>1
  <1>7. KeptStart(q, r)
    BY <1>1, <1>3 DEF KeptStart
  <1>8. In(r, f) /\ Single(r, f)
    BY <1>3, <1>5 DEF f
  <1> QED
    BY <1>2, <1>6, <1>7, <1>8 DEF r, f

\* An attempt is given up: its socket is closed, its channel removed.
LEMMA GiveUpKeeps ==
    ASSUME ClientInv, status_ = "kConnecting",
           NEW q, Kept(queue, q), KeptStart(queue, q), RemoveAndResetChannel(q),
           open' = open \ {chanFd}, phase # "wait",
           UNCHANGED <<connect_, fatal, clientVars, phase, callVars>>,
           ready' \subseteq ready, "connector" \notin ready',
           retryDelayMs_' \in kInitRetryDelayMs..kMaxRetryDelayMs,
           \/ status_' = "kDisconnected" /\ timers' \in {0, 1} /\ inner' \in {inner, "error"}
           \/ status_' = "kConnected" /\ timers' = timers /\ inner' = inner
    PROVE  ClientInv'
  <1> USE DEF clientVars, callVars
  <1>1. /\ channel_ = "added" /\ chanFd \in Socks /\ conn[chanFd] = "none" /\ timers = 0
        /\ connection_ = NoSock /\ inner \in {"none", "user"} /\ ~ ToStart
        /\ ~ In(queue, Fn("resetChannel")) /\ "timer" \notin ready /\ ready \cap Socks = {}
        /\ \A s \in Socks : ~ Live(s)
    BY UnderWay
  <1>2. q \in Seq(Functor) /\ ~ In(q, Fn("resetChannel"))
    BY <1>1 DEF Kept
  <1>3. channel_' = "removed" /\ chanFd' = chanFd /\ queue' = Append(q, Fn("resetChannel"))
    BY DEF RemoveAndResetChannel
  <1>4. /\ queue' \in Seq(Functor) /\ KeptStart(q, queue')
        /\ In(queue', Fn("resetChannel")) /\ Single(queue', Fn("resetChannel"))
        /\ \A s \in Socks :
             /\ In(queue', Destroy(s)) <=> In(q, Destroy(s))
             /\ Single(q, Destroy(s)) => Single(queue', Destroy(s))
             /\ In(queue', ForceFn(s)) => In(q, ForceFn(s))
             /\ Before(q, ForceFn(s), Destroy(s)) => Before(queue', ForceFn(s), Destroy(s))
    BY <1>2, <1>3, ResetQueued
  <1>5. ClientTypeOK'
    BY <1>1, <1>3, <1>4 DEF ClientInv, ClientTypeOK
  <1>6. OneStart'
    BY <1>1, <1>4 DEF ClientInv, OneStart, ToStart, Starting, KeptStart
  <1>7. OneAttempt'
    BY <1>1, <1>3 DEF ClientInv, OneAttempt
  <1>8. Owned'
    BY <1>1, <1>4 DEF ClientInv, Owned, Kept, Live
  <1>9. OneReset'
    BY <1>1, <1>3, <1>4 DEF OneReset, Live
  <1>10. Round'
    BY <1>1 DEF ClientInv, Round
  <1>11. SocketsOwned'
    BY <1>1, <1>3 DEF ClientInv, SocketsOwned
  <1> QED
    BY <1>5, <1>6, <1>7, <1>8, <1>9, <1>10, <1>11 DEF ClientInv

\* handleWrite() on success hands the socket to a new connection.
LEMMA HandOverKeeps ==
    ASSUME ClientInv, HandleWriteConnected, connect_ PROVE ClientInv'
  <1> USE DEF callVars
  <1>0. /\ phase = "events" /\ inner = "none" /\ ready' = ready \ {"connector"}
        /\ status_ = "kConnecting" /\ status_' = "kConnected"
        /\ channel_' = "removed" /\ chanFd' = chanFd /\ queue' = Append(queue, Fn("resetChannel"))
        /\ connection_' = chanFd /\ conn' = [conn EXCEPT ![chanFd] = "kConnected"]
        /\ inner' = "user" /\ open' = open
        /\ UNCHANGED <<connect_, retryDelayMs_, timers, fatal>>
        /\ UNCHANGED <<clientConnect_, retry_, phase, callVars>>
    BY DEF HandleWriteConnected, Handles, RemoveAndResetChannel, NewConnection
  <1>1. /\ channel_ = "added" /\ chanFd \in Socks /\ conn[chanFd] = "none" /\ timers = 0
        /\ connection_ = NoSock /\ ~ ToStart
        /\ ~ In(queue, Fn("resetChannel")) /\ "timer" \notin ready /\ ready \cap Socks = {}
        /\ \A s \in Socks : ~ Live(s)
    BY <1>0, UnderWay
  <1>2. /\ queue' \in Seq(Functor) /\ KeptStart(queue, queue')
        /\ In(queue', Fn("resetChannel")) /\ Single(queue', Fn("resetChannel"))
        /\ \A s \in Socks :
             /\ In(queue', Destroy(s)) <=> In(queue, Destroy(s))
             /\ Single(queue, Destroy(s)) => Single(queue', Destroy(s))
             /\ In(queue', ForceFn(s)) => In(queue, ForceFn(s))
             /\ Before(queue, ForceFn(s), Destroy(s)) => Before(queue', ForceFn(s), Destroy(s))
             /\ ~ In(queue, ForceFn(s)) => Before(queue', Fn("resetChannel"), ForceFn(s))
    BY <1>0, <1>1, Types, ResetQueued
  <1>3. /\ conn'[chanFd] = "kConnected"
        /\ \A s \in Socks : s # chanFd => conn'[s] = conn[s]
        /\ conn' \in [Socks -> {"none", "kConnected", "kDisconnecting", "kDisconnected"}]
    BY <1>0, <1>1, Types
  <1>4. chanFd # NoSock
    BY <1>1, ClientAssumption
  <1>5. ClientTypeOK'
    BY <1>0, <1>1, <1>2, <1>3 DEF ClientInv, ClientTypeOK
  <1>6. OneStart'
    BY <1>0, <1>1, <1>2 DEF ClientInv, OneStart, ToStart, Starting, KeptStart
  <1>7. OneAttempt'
    BY <1>0, <1>1, <1>3 DEF ClientInv, OneAttempt
  <1>8. Owned'
    <2>1. connection_' # NoSock => conn'[connection_'] # "none"
      BY <1>0, <1>3
    <2>2. ASSUME NEW s \in Socks
          PROVE  /\ Live(s)' => connection_' = s
                 /\ conn'[s] = "kDisconnected" <=>
                      In(queue', Destroy(s)) \/ (inner' = "down" /\ connection_' = s)
                 /\ In(queue', Destroy(s)) => connection_' # s
                 /\ Single(queue', Destroy(s))
                 /\ In(queue', ForceFn(s)) => conn'[s] # "none"
                 /\ Before(queue', ForceFn(s), Destroy(s))
      <3>1. CASE s = chanFd
        BY <1>0, <1>1, <1>2, <1>3, <3>1 DEF ClientInv, Owned
      <3>2. CASE s # chanFd
        BY <1>0, <1>1, <1>2, <1>3, <3>2 DEF ClientInv, Owned, Live
      <3> QED
        BY <3>1, <3>2
    <2> QED
      BY <2>1, <2>2 DEF Owned
  <1>9. OneReset'
    <2>1. ASSUME NEW s \in Socks, Live(s)' PROVE Before(queue', Fn("resetChannel"), ForceFn(s))
      <3>1. s = chanFd
        BY <1>1, <1>3, <2>1 DEF Live
      <3>2. ~ In(queue, ForceFn(s))
        BY <1>1, <3>1 DEF ClientInv, Owned
      <3> QED
        BY <1>2, <3>2
    <2> QED
      BY <1>0, <1>2, <2>1 DEF OneReset
  <1>10. Round'
    BY <1>0, <1>1 DEF ClientInv, Round
  <1>11. SocketsOwned'
    BY <1>0, <1>1, <1>3 DEF ClientInv, SocketsOwned
  <1> QED
    BY <1>5, <1>6, <1>7, <1>8, <1>9, <1>10, <1>11 DEF ClientInv

\* retry() keeps the delay within its limits and adds one timer at most.
LEMMA RetryRange ==
    ASSUME NEW d \in kInitRetryDelayMs..kMaxRetryDelayMs, NEW allowed, Retry(0, d, allowed)
    PROVE  /\ status_' = "kDisconnected" /\ timers' \in {0, 1}
           /\ retryDelayMs_' \in kInitRetryDelayMs..kMaxRetryDelayMs
  BY ClientAssumption DEF Retry

\* The connector's events, and stopInLoop.
LEMMA EndKeeps ==
    ASSUME ClientInv,
           HandleWriteConnected \/ HandleWriteFailed \/ HandleError \/ RunStopInLoop
    PROVE  ClientInv'
  <1>0. /\ Kept(queue, queue) /\ KeptStart(queue, queue) /\ queue \in Seq(Functor)
        /\ retryDelayMs_ \in kInitRetryDelayMs..kMaxRetryDelayMs
    BY Types DEF ClientInv, ClientTypeOK
  <1>1. CASE HandleWriteConnected
    <2>1. CASE connect_
      BY <1>1, <2>1, HandOverKeeps
    <2>2. CASE ~ connect_
      <3>1. /\ status_ = "kConnecting" /\ status_' = "kConnected" /\ phase # "wait"
            /\ RemoveAndResetChannel(queue) /\ open' = open \ {chanFd}
            /\ UNCHANGED <<connect_, fatal, timers, retryDelayMs_>>
            /\ UNCHANGED <<clientVars, phase, callVars, inner>>
            /\ ready' \subseteq ready /\ "connector" \notin ready'
        BY <1>1, <2>2 DEF HandleWriteConnected, Handles, clientVars
      <3> QED
        BY <1>0, <3>1, GiveUpKeeps
    <2> QED
      BY <2>1, <2>2
  <1>2. CASE HandleWriteFailed \/ HandleError
    <2>1. /\ status_ = "kConnecting" /\ phase # "wait" /\ inner' \in {inner, "error"}
          /\ RemoveAndResetChannel(queue) /\ open' = open \ {chanFd}
          /\ UNCHANGED <<connect_, fatal, clientVars, phase, callVars>>
          /\ ready' \subseteq ready /\ "connector" \notin ready'
          /\ Retry(timers, retryDelayMs_, connect_)
      BY <1>2 DEF HandleWriteFailed, HandleError, Handles
    <2>2. timers = 0
      BY <2>1, UnderWay
    <2>3. /\ status_' = "kDisconnected" /\ timers' \in {0, 1}
          /\ retryDelayMs_' \in kInitRetryDelayMs..kMaxRetryDelayMs
      BY <1>0, <2>1, <2>2, RetryRange
    <2> QED
      BY <1>0, <2>1, <2>3, GiveUpKeeps
  <1>3. CASE RunStopInLoop
    <2> USE DEF loopVars
    <2>1. phase = "funcs" /\ queue # <<>> /\ Head(queue)[1] = "stopInLoop"
      BY <1>3 DEF RunStopInLoop, Runs
    <2>2. Kept(queue, Tail(queue)) /\ KeptStart(queue, Tail(queue))
      BY <1>0, <2>1, TailKept
    <2>3. UNCHANGED <<connect_, retryDelayMs_, timers, fatal, clientVars, loopVars, callVars>>
      BY <1>3 DEF RunStopInLoop
    <2>4. CASE status_ = "kConnecting"
      <3>1. /\ status_' = "kDisconnected" /\ RemoveAndResetChannel(Tail(queue))
            /\ open' = open \ {chanFd}
        BY <1>3, <2>4 DEF RunStopInLoop
      <3>2. ready' = {} /\ timers' = 0
        BY <2>1, <2>3, <2>4, UnderWay DEF ClientInv, Round
      <3> QED
        BY <1>0, <2>1, <2>2, <2>3, <2>4, <3>1, <3>2, GiveUpKeeps
    <2>5. CASE status_ # "kConnecting"
      <3>1. queue' = Tail(queue) /\ UNCHANGED <<status_, channel_, chanFd, open>>
        BY <1>3, <2>5 DEF RunStopInLoop
      <3>2. \A t \in Threads : Starting(t)' <=> Starting(t)
        BY <2>3 DEF Starting, callVars
      <3>3. Round' /\ (channel_ = "removed" => phase' # "wait")
        BY <2>1, <2>3, <3>1, Types DEF Round, Live, clientVars
      <3> QED
        BY <2>2, <2>3, <3>1, <3>2, <3>3, Still, Types DEF clientVars, callVars
    <2> QED
      BY <2>4, <2>5
  <1> QED
    BY <1>1, <1>2, <1>3

-----------------------------------------------------------------------------
(* The end of a connection.                                                *)

\* handleClose() up to the DOWN callback.
LEMMA CloseKeeps ==
    ASSUME ClientInv, NEW s \in Socks, Live(s), HandleClose(s), channel_ = "null", inner = "none",
           Kept(queue, queue'), KeptStart(queue, queue'),
           UNCHANGED <<connectorVars, clientConnect_, retry_, connection_, phase, callVars>>,
           ready' \subseteq ready, s \notin ready'
    PROVE  ClientInv'
  <1> USE DEF connectorVars, callVars
  <1>1. connection_ = s /\ s # NoSock /\ conn[s] \notin {"none", "kDisconnected"}
    BY ClientAssumption DEF ClientInv, Owned, Live
  <1>2. status_ = "kConnected" /\ ~ ToStart /\ ~ In(queue, Destroy(s))
    BY <1>1 DEF ClientInv, OneAttempt, OneStart, Owned
  <1>3. /\ conn' \in [Socks -> {"none", "kConnected", "kDisconnecting", "kDisconnected"}]
        /\ conn'[s] = "kDisconnected" /\ \A r \in Socks : r # s => conn'[r] = conn[r]
        /\ inner' = "down"
    BY Types DEF HandleClose
  <1>4. \A r \in Socks : r # s => ~ Live(r) /\ ~ Live(r)'
    BY <1>1, <1>3 DEF ClientInv, Owned, Live
  <1>5. ClientTypeOK'
    BY <1>3 DEF ClientInv, ClientTypeOK, Kept
  <1>6. OneStart'
    BY <1>2 DEF ClientInv, OneStart, ToStart, Starting, KeptStart
  <1>7. OneAttempt'
    BY <1>1, <1>2, <1>3 DEF ClientInv, OneAttempt
  <1>8. Owned'
    <2>1. ASSUME NEW r \in Socks
          PROVE  /\ Live(r)' => connection_' = r
                 /\ conn'[r] = "kDisconnected" <=>
                      In(queue', Destroy(r)) \/ (inner' = "down" /\ connection_' = r)
                 /\ In(queue', Destroy(r)) => connection_' # r
                 /\ Single(queue', Destroy(r))
                 /\ In(queue', ForceFn(r)) => conn'[r] # "none"
                 /\ Before(queue', ForceFn(r), Destroy(r))
      <3>1. CASE r = s
        BY <1>1, <1>2, <1>3, <3>1 DEF ClientInv, Owned, Kept
      <3>2. CASE r # s
        BY <1>1, <1>3, <1>4, <3>2 DEF ClientInv, Owned, Kept
      <3> QED
        BY <3>1, <3>2
    <2> QED
      BY <1>1, <1>3, <2>1 DEF Owned
  <1>9. OneReset'
    BY DEF ClientInv, OneReset, Kept
  <1>10. Round'
    BY <1>4 DEF ClientInv, Round
  <1>11. SocketsOwned'
    BY <1>1, <1>3 DEF ClientInv, SocketsOwned
  <1> QED
    BY <1>5, <1>6, <1>7, <1>8, <1>9, <1>10, <1>11 DEF ClientInv

\* A connection is reported closed, or forceCloseInLoop runs.
LEMMA ClosedKeeps ==
    ASSUME ClientInv, RunForceClose \/ \E s \in Socks : ConnectionEvent(s) PROVE ClientInv'
  <1>1. ASSUME NEW s \in Socks, ConnectionEvent(s) PROVE ClientInv'
    <2>1. /\ inner = "none" /\ s \in ready /\ ready' = ready \ {s} /\ HandleClose(s)
          /\ UNCHANGED <<connectorVars, callVars, clientConnect_, retry_, connection_>>
          /\ UNCHANGED <<phase, queue>>
      BY <1>1 DEF ConnectionEvent, Handles
    <2>2. Live(s) /\ channel_ = "null"
      BY <2>1 DEF ClientInv, Round
    <2> QED
      BY <2>1, <2>2, Types, CloseKeeps
  <1>2. CASE RunForceClose
    <2> DEFINE s == Head(queue)[2]
    <2>1. /\ phase = "funcs" /\ inner = "none" /\ queue # <<>> /\ queue' = Tail(queue)
          /\ Head(queue)[1] = "forceCloseInLoop"
          /\ UNCHANGED <<connectorVars, callVars, clientConnect_, retry_, connection_>>
          /\ UNCHANGED <<phase, ready>>
      BY <1>2 DEF RunForceClose, Runs
    <2>2. Head(queue) \in Functor
      BY <2>1, Types, TailFacts
    <2>3. s \in Socks /\ Head(queue) = ForceFn(s)
      BY <2>1, <2>2, HeadName
    <2>4. Kept(queue, queue') /\ KeptStart(queue, queue')
      BY <2>1, Types, TailKept
    <2>5. ready = {}
      BY <2>1 DEF ClientInv, Round
    <2>6. Live(s) => HandleClose(s)
      BY <1>2 DEF RunForceClose, Live
    <2>7. ~ Live(s) => UNCHANGED <<conn, inner>>
      BY <1>2 DEF RunForceClose, Live
    <2> HIDE DEF s
    <2>8. CASE Live(s)
      <3>1. connection_ = s /\ s # NoSock
        BY <2>3, <2>8, ClientAssumption DEF ClientInv, Owned
      <3>2. channel_ # "added"
        BY <3>1 DEF ClientInv, OneAttempt
      <3>3. channel_ # "removed"
        <4>1. channel_ = "removed" =>
                In(queue, Fn("resetChannel")) /\ Before(queue, Fn("resetChannel"), ForceFn(s))
          BY <2>3, <2>8 DEF ClientInv, OneReset
        <4>2. Before(queue, Fn("resetChannel"), ForceFn(s)) => ~ In(queue, Fn("resetChannel"))
          BY <2>1, <2>3, Types, TailFacts
        <4> QED
          BY <4>1, <4>2
      <3>4. channel_ = "null"
        BY <3>2, <3>3 DEF ClientInv, ClientTypeOK
      <3> QED
        BY <2>1, <2>3, <2>4, <2>5, <2>6, <2>8, <3>4, CloseKeeps
    <2>9. CASE ~ Live(s)
      <3>1. UNCHANGED <<conn, inner>>
        BY <2>7, <2>9
      <3>2. \A t \in Threads : Starting(t)' <=> Starting(t)
        BY <2>1 DEF Starting, callVars
      <3>3. Round' /\ phase' # "wait"
        BY <2>1, <2>5 DEF Round
      <3> QED
        BY <2>1, <2>4, <3>1, <3>2, <3>3, Still, Types DEF connectorVars, callVars
    <2> QED
      BY <2>8, <2>9
  <1> QED
    BY <1>1, <1>2

\* removeConnection() lets the connection go and queues its destruction.
LEMMA RemoveKeeps ==
    ASSUME ClientInv, RemoveConnection PROVE ClientInv'
  <1> USE DEF connectorVars, callVars
  <1> DEFINE c == connection_
  <1>1. /\ inner = "down" /\ connection_' = NoSock /\ queue' = Append(queue, Destroy(c))
        /\ inner' \in {"restart", "none"}
        /\ UNCHANGED <<connectorVars, clientConnect_, retry_, conn, phase, ready, callVars>>
    BY DEF RemoveConnection, Destroy
  <1>2. /\ c # NoSock /\ c \in Socks /\ conn[c] = "kDisconnected" /\ channel_ = "null"
        /\ status_ = "kConnected" /\ ~ In(queue, Destroy(c))
    BY <1>1 DEF ClientInv, OneAttempt, ClientTypeOK, Owned
  <1>3. ~ ToStart /\ \A s \in Socks : ~ Live(s)
    BY <1>2 DEF ClientInv, OneStart, Owned, Live
  <1>4. /\ Destroy(c) \in Functor /\ Destroy(c) \notin {Fn("startInLoop"), Fn("resetChannel")}
        /\ \A s : /\ Destroy(c) # ForceFn(s) /\ ForceFn(s) # Destroy(s)
                  /\ s # c => Destroy(s) # Destroy(c)
    BY <1>2, Names
  <1> HIDE DEF c
  <1>5. ASSUME NEW g
        PROVE  /\ queue' \in Seq(Functor) /\ (In(queue', g) <=> In(queue, g) \/ g = Destroy(c))
               /\ Single(queue, g) => Single(queue', g)
    BY <1>1, <1>2, <1>4, Types, AppendFacts
  <1>6. ASSUME NEW s \in Socks, Before(queue, ForceFn(s), Destroy(s))
        PROVE  Before(queue', ForceFn(s), Destroy(s))
    BY <1>1, <1>4, <1>6, Types, AppendFacts
  <1>7. ClientTypeOK'
    BY <1>1, <1>5 DEF ClientInv, ClientTypeOK
  <1>8. OneStart'
    BY <1>1, <1>3, <1>4, <1>5 DEF ClientInv, OneStart, ToStart, Starting
  <1>9. OneAttempt'
    BY <1>1, <1>2 DEF ClientInv, OneAttempt
  <1>10. Owned'
    <2>1. ASSUME NEW s \in Socks
          PROVE  /\ Live(s)' => connection_' = s
                 /\ conn'[s] = "kDisconnected" <=>
                      In(queue', Destroy(s)) \/ (inner' = "down" /\ connection_' = s)
                 /\ In(queue', Destroy(s)) => connection_' # s
                 /\ Single(queue', Destroy(s))
                 /\ In(queue', ForceFn(s)) => conn'[s] # "none"
                 /\ Before(queue', ForceFn(s), Destroy(s))
      <3>1. s # NoSock
        BY ClientAssumption
      <3>2. Live(s)' <=> Live(s)
        BY <1>1 DEF Live
      <3>3. In(queue', ForceFn(s)) <=> In(queue, ForceFn(s))
        BY <1>4, <1>5
      <3>4. CASE s = c
        BY <1>1, <1>2, <1>3, <1>5, <1>6, <3>1, <3>2, <3>3, <3>4 DEF ClientInv, Owned
      <3>5. CASE s # c
        BY <1>1, <1>3, <1>4, <1>5, <1>6, <3>1, <3>2, <3>3, <3>5 DEF ClientInv, Owned, c
      <3> QED
        BY <3>4, <3>5
    <2> QED
      BY <1>1, <2>1 DEF Owned
  <1>11. OneReset'
    BY <1>1, <1>2, <1>4, <1>5 DEF ClientInv, OneReset
  <1>12. Round' /\ SocketsOwned'
    BY <1>1 DEF ClientInv, Round, SocketsOwned, Live
  <1> QED
    BY <1>7, <1>8, <1>9, <1>10, <1>11, <1>12 DEF ClientInv

\* forceClose() by user code queues forceCloseInLoop for the client's connection.
LEMMA ForceKeeps ==
    ASSUME ClientInv, UserForceCloses PROVE ClientInv'
  <1> USE DEF connectorVars, callVars, loopVars
  <1> DEFINE c == connection_
  <1>1. /\ Live(c) /\ c # NoSock /\ queue' = Append(queue, ForceFn(c))
        /\ conn' = [conn EXCEPT ![c] = "kDisconnecting"]
        /\ UNCHANGED <<connectorVars, clientConnect_, retry_, connection_, loopVars, callVars>>
    BY DEF UserForceCloses, ForceFn, Live
  <1>2. c \in Socks /\ ~ In(queue, Destroy(c)) /\ ~ ToStart
    BY <1>1, Types DEF ClientInv, Owned, OneStart
  <1>3. /\ conn' \in [Socks -> {"none", "kConnected", "kDisconnecting", "kDisconnected"}]
        /\ \A s \in Socks : conn'[s] = conn[s] \/ (s = c /\ conn'[s] = "kDisconnecting")
    BY <1>1, <1>2, Types
  <1>4. /\ ForceFn(c) \in Functor /\ ForceFn(c) \notin {Fn("startInLoop"), Fn("resetChannel")}
        /\ \A s : /\ ForceFn(c) # Destroy(s) /\ ForceFn(s) # Destroy(s)
                  /\ Fn("resetChannel") # ForceFn(s)
        /\ \A s : s # c => ForceFn(s) # ForceFn(c)
    BY <1>2, Names
  <1>5. connection_' = c
    BY <1>1
  <1> HIDE DEF c
  <1>6. ASSUME NEW g
        PROVE  /\ queue' \in Seq(Functor) /\ (In(queue', g) <=> In(queue, g) \/ g = ForceFn(c))
               /\ Single(queue, g) /\ g # ForceFn(c) => Single(queue', g)
    BY <1>1, <1>4, Types, AppendFacts
  <1>7. ASSUME NEW g, NEW h, g # h, g = ForceFn(c) => ~ In(queue, h), Before(queue, g, h)
        PROVE  Before(queue', g, h)
    BY <1>1, <1>4, <1>7, Types, AppendFacts
  <1>8. ASSUME NEW s \in Socks PROVE /\ conn'[s] = "none" <=> conn[s] = "none"
                                     /\ conn'[s] = "kDisconnected" <=> conn[s] = "kDisconnected"
                                     /\ Live(s)' <=> Live(s)
    BY <1>1, <1>3 DEF Live
  <1>9. ClientTypeOK'
    BY <1>1, <1>3, <1>6 DEF ClientInv, ClientTypeOK
  <1>10. OneStart'
    BY <1>1, <1>2, <1>4, <1>6 DEF ClientInv, OneStart, ToStart, Starting
  <1>11. OneAttempt'
    BY <1>1, <1>2, <1>5, <1>8 DEF ClientInv, OneAttempt, Live, c
  <1>12. Owned'
    <2>1. ASSUME NEW s \in Socks PROVE Before(queue', ForceFn(s), Destroy(s))
      <3>1. Before(queue, ForceFn(s), Destroy(s))
        BY DEF ClientInv, Owned
      <3>2. ForceFn(s) = ForceFn(c) => ~ In(queue, Destroy(s))
        BY <1>2, <1>4
      <3> QED
        BY <1>4, <1>7, <3>1, <3>2
    <2>2. ASSUME NEW s \in Socks
          PROVE  /\ In(queue', Destroy(s)) <=> In(queue, Destroy(s))
                 /\ Single(queue', Destroy(s))
                 /\ In(queue', ForceFn(s)) => conn'[s] # "none"
      BY <1>1, <1>4, <1>6, <1>8 DEF ClientInv, Owned, Live
    <2>3. connection_' # NoSock => conn'[connection_'] # "none"
      BY <1>1, <1>2, <1>5, <1>8 DEF Live
    <2> QED
      BY <1>1, <1>8, <2>1, <2>2, <2>3 DEF ClientInv, Owned
  <1>13. OneReset'
    <2>1. ASSUME NEW s \in Socks, channel_ = "removed", Live(s)
          PROVE  Before(queue', Fn("resetChannel"), ForceFn(s))
      <3>1. Before(queue, Fn("resetChannel"), ForceFn(s))
        BY <2>1 DEF ClientInv, OneReset
      <3> QED
        BY <1>4, <1>7, <3>1
    <2> QED
      BY <1>1, <1>4, <1>6, <1>8, <2>1 DEF ClientInv, OneReset
  <1>14. Round' /\ SocketsOwned'
    BY <1>1, <1>8 DEF ClientInv, Round, SocketsOwned
  <1> QED
    BY <1>9, <1>10, <1>11, <1>12, <1>13, <1>14 DEF ClientInv

\* connectDestroyed closes the socket, resetChannel destroys the channel.
LEMMA QueuedKeeps ==
    ASSUME ClientInv, RunConnectDestroyed \/ RunResetChannel PROVE ClientInv'
  <1> USE DEF loopVars, callVars
  <1>1. /\ phase = "funcs" /\ queue # <<>> /\ queue' = Tail(queue) /\ inner = "none"
        /\ UNCHANGED <<connect_, status_, retryDelayMs_, timers, fatal, clientConnect_, retry_,
                       connection_, loopVars, callVars>>
    BY DEF RunConnectDestroyed, RunResetChannel, Runs, clientVars
  <1>2. ready = {} /\ ready' = {}
    BY <1>1 DEF ClientInv, Round
  <1>3. queue' \in Seq(Functor) /\ Head(queue) \in Functor
    BY <1>1, Types, TailFacts
  <1>4. ASSUME NEW g
        PROVE  /\ In(queue, g) <=> In(queue', g) \/ Head(queue) = g
               /\ Single(queue, g) => Single(queue', g)
               /\ Single(queue, g) /\ Head(queue) = g => ~ In(queue', g)
    BY <1>1, Types, TailFacts
  <1>5. ASSUME NEW g, NEW h
        PROVE  /\ Before(queue, g, h) => Before(queue', g, h)
               /\ Before(queue, g, h) /\ Head(queue) = h => ~ In(queue, g)
    BY <1>1, Types, TailFacts
  <1>6. CASE RunConnectDestroyed
    <2> DEFINE s == Head(queue)[2]
    <2>1. /\ Head(queue)[1] = "connectDestroyed" /\ conn' = [conn EXCEPT ![s] = "none"]
          /\ open' = open \ {s} /\ UNCHANGED <<channel_, chanFd>>
      BY <1>6 DEF RunConnectDestroyed, Runs
    <2>2. s \in Socks /\ Head(queue) = Destroy(s)
      BY <1>3, <2>1, HeadName
    <2> HIDE DEF s
    <2>3. /\ Head(queue) \notin {Fn("startInLoop"), Fn("resetChannel")}
          /\ \A r : r # s => Head(queue) # Destroy(r)
      BY <2>2, Names
    <2>4. /\ conn[s] = "kDisconnected" /\ connection_ # s /\ ~ In(queue', Destroy(s))
          /\ ~ In(queue', ForceFn(s)) /\ ~ ToStart
      BY <1>4, <1>5, <2>2 DEF ClientInv, Owned, OneStart
    <2>5. /\ conn' \in [Socks -> {"none", "kConnected", "kDisconnecting", "kDisconnected"}]
          /\ conn'[s] = "none" /\ \A r \in Socks : r # s => conn'[r] = conn[r]
      BY <2>1, <2>2, Types
    <2>6. \A r \in Socks : Live(r)' <=> Live(r)
      BY <2>4, <2>5 DEF Live
    <2>7. ClientTypeOK'
      BY <1>1, <1>3, <2>1, <2>5 DEF ClientInv, ClientTypeOK
    <2>8. OneStart'
      BY <1>1, <1>4, <2>3, <2>4 DEF ClientInv, OneStart, ToStart, Starting
    <2>9. OneAttempt'
      BY <1>1, <2>1, <2>4, <2>5 DEF ClientInv, OneAttempt
    <2>10. Owned'
      <3>1. ASSUME NEW r \in Socks
            PROVE  /\ Live(r)' => connection_' = r
                   /\ conn'[r] = "kDisconnected" <=>
                        In(queue', Destroy(r)) \/ (inner' = "down" /\ connection_' = r)
                   /\ In(queue', Destroy(r)) => connection_' # r
                   /\ Single(queue', Destroy(r))
                   /\ In(queue', ForceFn(r)) => conn'[r] # "none"
                   /\ Before(queue', ForceFn(r), Destroy(r))
        <4>1. CASE r = s
          BY <1>1, <1>4, <1>5, <2>4, <2>5, <2>6, <4>1 DEF ClientInv, Owned
        <4>2. CASE r # s
          BY <1>1, <1>4, <1>5, <2>3, <2>5, <2>6, <4>2 DEF ClientInv, Owned
        <4> QED
          BY <4>1, <4>2
      <3>2. connection_' # NoSock => conn'[connection_'] # "none"
        BY <1>1, <2>4, <2>5, Types DEF ClientInv, Owned
      <3> QED
        BY <3>1, <3>2 DEF Owned
    <2>11. OneReset'
      BY <1>1, <1>4, <1>5, <2>1, <2>3, <2>6 DEF ClientInv, OneReset
    <2>12. Round'
      BY <1>2 DEF Round
    <2>13. SocketsOwned'
      BY <2>1, <2>4, <2>5 DEF ClientInv, SocketsOwned, OneAttempt
    <2> QED
      BY <2>7, <2>8, <2>9, <2>10, <2>11, <2>12, <2>13 DEF ClientInv
  <1>7. CASE RunResetChannel
    <2>1. /\ Head(queue)[1] = "resetChannel" /\ channel_' = "null" /\ chanFd' = NoSock
          /\ UNCHANGED <<open, conn>>
      BY <1>7 DEF RunResetChannel, Runs, clientVars
    <2>2. Head(queue) = Fn("resetChannel")
      BY <1>3, <2>1, HeadName
    <2>3. /\ Head(queue) # Fn("startInLoop") /\ \A s : Head(queue) # Destroy(s)
          /\ \A s : Head(queue) # ForceFn(s)
      BY <2>2, Names
    <2>4. channel_ = "removed" /\ ~ In(queue', Fn("resetChannel"))
      BY <1>4, <2>2 DEF ClientInv, OneReset
    <2>5. \A s \in Socks : Live(s)' <=> Live(s)
      BY <2>1 DEF Live
    <2>6. ClientTypeOK'
      BY <1>1, <1>3, <2>1 DEF ClientInv, ClientTypeOK
    <2>7. ~ ToStart
      BY <2>4 DEF ClientInv, OneStart
    <2>8. OneStart'
      BY <1>1, <1>4, <2>3, <2>7 DEF ClientInv, OneStart, ToStart, Starting
    <2>9. OneAttempt'
      BY <1>1, <2>1, <2>4 DEF ClientInv, OneAttempt
    <2>10. Owned'
      BY <1>1, <1>4, <1>5, <2>1, <2>3, <2>5 DEF ClientInv, Owned
    <2>11. OneReset'
      BY <1>4, <2>1, <2>4 DEF ClientInv, OneReset
    <2>12. Round' /\ SocketsOwned'
      BY <1>2, <2>1, <2>4 DEF ClientInv, Round, SocketsOwned
    <2> QED
      BY <2>6, <2>8, <2>9, <2>10, <2>11, <2>12 DEF ClientInv
  <1> QED
    BY <1>6, <1>7

-----------------------------------------------------------------------------
(* The theorems for a client that is told to connect() once.               *)

\* Before loop() there is nothing to be wrong.
LEMMA ClientInitInv == ClientInit => ClientInv
  <1> SUFFICES ASSUME ClientInit PROVE ClientInv
    OBVIOUS
  <1> USE DEF ClientInit
  <1>1. queue \in Seq(Functor) /\ Len(queue) = 0
    OBVIOUS
  <1>2. \A g, h : ~ In(queue, g) /\ Single(queue, g) /\ Before(queue, g, h)
    BY <1>1 DEF In, Single, Before
  <1>3. ClientTypeOK
    <2>1. {connect_, clientConnect_, retry_, fatal} \subseteq BOOLEAN
      OBVIOUS
    <2>2. /\ retryDelayMs_ \in kInitRetryDelayMs..kMaxRetryDelayMs
          /\ timers \in Nat /\ connects \in 0..MaxConnects
      BY ClientAssumption
    <2>3. /\ conn \in [Socks -> {"none", "kConnected", "kDisconnecting", "kDisconnected"}]
          /\ pc \in [Threads -> {"idle", "start", "queueStart", "stop", "queueStop", "shutdown"}]
      OBVIOUS
    <2> QED
      BY <1>1, <2>1, <2>2, <2>3 DEF ClientTypeOK
  <1>4. OneStart
    BY <1>2 DEF OneStart, Starting
  <1>5. OneAttempt
    BY DEF OneAttempt
  <1>6. Owned /\ OneReset
    BY <1>2 DEF Owned, OneReset, Live
  <1>7. Round /\ SocketsOwned
    BY DEF Round, SocketsOwned
  <1> QED
    BY <1>3, <1>4, <1>5, <1>6, <1>7 DEF ClientInv

\* Every step of the loop, of user code and of a thread keeps the invariant.
LEMMA ClientNextInv ==
    ASSUME MaxConnects <= 1, ClientInv, [ClientNext]_vars PROVE ClientInv'
  <1>1. CASE Wait \/ EventsHandled \/ FuncsDone \/ UserEvent \/ HandleWriteAfterError \/ UserReturns
    BY <1>1, RoundStill
  <1>2. CASE \/ UserStops \/ UserDisconnects \/ EnableRetry
             \/ \E t \in Threads :
                  \/ ThreadStarts(t) \/ ThreadStops(t) \/ ThreadClears(t) \/ ThreadQueuesStop(t)
                  \/ ThreadDisconnects(t) \/ ThreadShutsDown(t)
    BY <1>2, CallStill
  <1>3. CASE \E t \in Threads : ThreadConnects(t) \/ ThreadQueuesStart(t)
    BY <1>3, CallKeeps
  <1>4. CASE UserConnects \/ RetryTimer \/ Restart \/ RunStartInLoop
    BY <1>4, StartKeeps
  <1>5. CASE HandleWriteConnected \/ HandleWriteFailed \/ HandleError \/ RunStopInLoop
    BY <1>5, EndKeeps
  <1>6. CASE RunForceClose \/ \E s \in Socks : ConnectionEvent(s)
    BY <1>6, ClosedKeeps
  <1>7. CASE RemoveConnection \/ UserForceCloses
    BY <1>7, RemoveKeeps, ForceKeeps
  <1>8. CASE RunConnectDestroyed \/ RunResetChannel
    BY <1>8, QueuedKeeps
  <1>9. CASE UNCHANGED vars
    <2> USE <1>9 DEF vars, connectorVars, clientVars, loopVars, callVars
    <2>1. ClientTypeOK' /\ OneStart' /\ OneAttempt'
      BY DEF ClientInv, ClientTypeOK, OneStart, OneAttempt, ToStart, Starting
    <2>2. Owned' /\ OneReset' /\ Round' /\ SocketsOwned'
      BY DEF ClientInv, Owned, OneReset, Round, SocketsOwned, Live
    <2> QED
      BY <2>1, <2>2 DEF ClientInv
  <1> QED
    BY <1>1, <1>2, <1>3, <1>4, <1>5, <1>6, <1>7, <1>8, <1>9
       DEF ClientNext, LoopStep, Event, Run, UserNext, ThreadNext, InCall

\* The invariant holds whatever timers, closes, stop() and restart do.
THEOREM ClientInvariant ==
    ASSUME MaxConnects <= 1 PROVE ClientSpec => []ClientInv
  <1>1. ClientInv /\ [ClientNext]_vars => ClientInv'
    BY ClientNextInv
  <1> QED
    BY <1>1, ClientInitInv, PTL DEF ClientSpec

\* No attempt meets another one or the channel of the last one, and the connector's events
\* find the attempt they belong to.
THEOREM StartIsAlwaysSafe ==
    ASSUME MaxConnects <= 1 PROVE ClientSpec => []StartIsSafe
  <1>1. ClientInv => StartIsSafe
    <2> SUFFICES ASSUME ClientInv PROVE StartIsSafe
      OBVIOUS
    <2>1. ASSUME Runs("startInLoop") PROVE status_ = "kDisconnected" /\ channel_ = "null"
      <3>1. queue # <<>> /\ Head(queue)[1] = "startInLoop"
        BY <2>1 DEF Runs
      <3>2. Head(queue) \in Functor
        BY <3>1, Types, TailFacts
      <3>3. Head(queue) = Fn("startInLoop")
        BY <3>1, <3>2, HeadName
      <3>4. In(queue, Fn("startInLoop"))
        BY <3>1, <3>3, Types, TailFacts
      <3> QED
        BY <3>4 DEF ClientInv, OneStart, ToStart
    <2>2. "timer" \in ready => status_ = "kDisconnected" /\ channel_ = "null"
      BY DEF ClientInv, Round, OneAttempt
    <2>3. /\ inner = "restart" => channel_ = "null"
          /\ inner = "error" => status_ = "kDisconnected"
          /\ "connector" \in ready => status_ = "kConnecting" /\ channel_ = "added"
      BY DEF ClientInv, OneAttempt, Round
    <2> QED
      BY <2>1, <2>2, <2>3 DEF StartIsSafe, ClientInv
  <1> QED
    BY <1>1, ClientInvariant, PTL

\* No socket is leaked or closed twice.
THEOREM SocketsAlwaysOwned ==
    ASSUME MaxConnects <= 1 PROVE ClientSpec => []SocketsOwned
  <1>1. ClientInv => SocketsOwned
    BY DEF ClientInv
  <1> QED
    BY <1>1, ClientInvariant, PTL

-----------------------------------------------------------------------------
(***************************************************************************)
(* stop(), however often connect() is called.  A connection may then be    *)
(* removed when there is none (connectDestroyed of no socket), so the      *)
(* types are weaker ones.                                                  *)
(***************************************************************************)
AnyFn == Functor \cup ({"connectDestroyed"} \X {NoSock})

StopInv ==
    /\ queue \in Seq(AnyFn)
    /\ connection_ \in Socks \cup {NoSock} /\ chanFd \in Socks \cup {NoSock}
    /\ pc \in [Threads -> {"idle", "start", "queueStart", "stop", "queueStop", "shutdown"}]
    /\ StopReaches

\* Only stopInLoop itself takes a stopInLoop from the queue.
LEMMA StopStays ==
    ASSUME NEW q \in Seq(AnyFn), NEW f \in AnyFn
    PROVE  /\ Append(q, f) \in Seq(AnyFn)
           /\ In(q, Fn("stopInLoop")) => In(Append(q, f), Fn("stopInLoop"))
           /\ In(Append(q, f), f)
           /\ q # <<>> =>
                /\ Tail(q) \in Seq(AnyFn)
                /\ In(q, Fn("stopInLoop")) /\ Head(q)[1] # "stopInLoop" =>
                     In(Tail(q), Fn("stopInLoop"))
  <1>1. /\ Append(q, f) \in Seq(AnyFn)
        /\ In(q, Fn("stopInLoop")) => In(Append(q, f), Fn("stopInLoop"))
    BY AppendFacts
  <1>2. In(Append(q, f), f)
    BY AppendFacts
  <1>3. ASSUME q # <<>> PROVE /\ Tail(q) \in Seq(AnyFn)
                              /\ In(q, Fn("stopInLoop")) <=>
                                   In(Tail(q), Fn("stopInLoop")) \/ Head(q) = Fn("stopInLoop")
    BY <1>3, TailFacts
  <1>4. Head(q)[1] # "stopInLoop" => Head(q) # Fn("stopInLoop")
    BY DEF Fn
  <1> QED
    BY <1>1, <1>2, <1>3, <1>4

\* An attempt starts only while connect_ is set.
LEMMA StartIsWanted ==
    ASSUME UserConnects \/ RetryTimer \/ Restart \/ RunStartInLoop
    PROVE  /\ status_' = "kConnecting" /\ ~ connect_' => status_ = "kConnecting" /\ ~ connect_
           /\ chanFd' \in Socks \cup {chanFd}
           /\ UNCHANGED <<connection_, pc>>
  <1>1. CASE UserConnects
    BY <1>1 DEF UserConnects, StartInLoop, Connect, Retry
  <1>2. CASE RetryTimer
    BY <1>2 DEF RetryTimer, StartInLoop, Connect, Retry, clientVars, callVars
  <1>3. CASE Restart
    BY <1>3 DEF Restart, Connect, Retry, clientVars, callVars
  <1>4. CASE RunStartInLoop
    BY <1>4 DEF RunStartInLoop, StartInLoop, Connect, Retry, clientVars, callVars
  <1> QED
    BY <1>1, <1>2, <1>3, <1>4

\* Every step keeps what is needed: who clears connect_ queues a stopInLoop.
LEMMA StopNextInv ==
    ASSUME StopInv, [ClientNext]_vars PROVE StopInv'
  <1> USE DEF connectorVars, clientVars, loopVars, callVars
  <1> DEFINE stop == Fn("stopInLoop")
  <1>1. StopQueued <=> In(queue, stop)
    BY DEF StopQueued, In
  <1>2. StopQueued' <=> In(queue', stop)
    BY DEF StopQueued, In
  <1>3. /\ {Fn("startInLoop"), stop, Fn("resetChannel")} \subseteq AnyFn
        /\ \A s \in Socks : ForceFn(s) \in AnyFn
        /\ \A s \in Socks \cup {NoSock} : Destroy(s) \in AnyFn
    BY DEF AnyFn, Functor, Fn, ForceFn, Destroy
  <1> HIDE DEF stop
  <1>4. ASSUME chanFd' \in Socks \cup {NoSock}, connection_' \in Socks \cup {NoSock},
               queue' \in Seq(AnyFn), In(queue, stop) => In(queue', stop),
               status_' = "kConnecting" /\ ~ connect_' => status_ = "kConnecting" /\ ~ connect_,
               pc' \in [Threads -> {"idle", "start", "queueStart", "stop", "queueStop",
                                    "shutdown"}],
               \A t \in Threads : pc[t] = "queueStop" => pc'[t] = "queueStop"
        PROVE  StopInv'
    BY <1>1, <1>2, <1>4 DEF StopInv, StopReaches
  <1>5. CASE \/ Wait \/ EventsHandled \/ FuncsDone \/ UserEvent \/ HandleWriteAfterError
             \/ UserReturns \/ UserDisconnects \/ EnableRetry
             \/ (\E s \in Socks : ConnectionEvent(s)) \/ UNCHANGED vars
    <2>1. UNCHANGED <<connectorVars, connection_, queue, pc>>
      BY <1>5 DEF Wait, EventsHandled, FuncsDone, UserEvent, HandleWriteAfterError, UserReturns,
                  UserDisconnects, EnableRetry, ConnectionEvent, vars
    <2> QED
      BY <1>4, <2>1 DEF StopInv
  <1>6. CASE UserConnects \/ RetryTimer \/ Restart
    <2>1. queue' = queue
      BY <1>6 DEF UserConnects, RetryTimer, Restart
    <2>2. /\ status_' = "kConnecting" /\ ~ connect_' => status_ = "kConnecting" /\ ~ connect_
          /\ chanFd' \in Socks \cup {chanFd} /\ UNCHANGED <<connection_, pc>>
      BY <1>6, StartIsWanted
    <2> QED
      BY <1>4, <2>1, <2>2 DEF StopInv
  <1>7. CASE RunStartInLoop
    <2>1. queue # <<>> /\ Head(queue)[1] = "startInLoop" /\ queue' = Tail(queue)
      BY <1>7 DEF RunStartInLoop, Runs
    <2>2. queue' \in Seq(AnyFn) /\ (In(queue, stop) => In(queue', stop))
      BY <1>3, <2>1, StopStays DEF StopInv, stop
    <2>3. /\ status_' = "kConnecting" /\ ~ connect_' => status_ = "kConnecting" /\ ~ connect_
          /\ chanFd' \in Socks \cup {chanFd} /\ UNCHANGED <<connection_, pc>>
      BY <1>7, StartIsWanted
    <2> QED
      BY <1>4, <2>2, <2>3 DEF StopInv
  <1>8. CASE HandleWriteConnected \/ HandleWriteFailed \/ HandleError
    <2>1. /\ queue' = Append(queue, Fn("resetChannel")) /\ chanFd' = chanFd
          /\ connection_' \in {connection_, chanFd} /\ status_' # "kConnecting" /\ pc' = pc
      BY <1>8 DEF HandleWriteConnected, HandleWriteFailed, HandleError, RemoveAndResetChannel,
                  NewConnection, Retry
    <2>2. queue' \in Seq(AnyFn) /\ (In(queue, stop) => In(queue', stop))
      BY <1>3, <2>1, StopStays DEF StopInv, stop
    <2> QED
      BY <1>4, <2>1, <2>2 DEF StopInv
  <1>9. CASE RemoveConnection \/ UserForceCloses
    <2>1. /\ UNCHANGED <<connectorVars, pc>> /\ connection_' \in {connection_, NoSock}
          /\ \/ queue' = Append(queue, Destroy(connection_))
             \/ connection_ # NoSock /\ queue' = Append(queue, ForceFn(connection_))
      BY <1>9 DEF RemoveConnection, UserForceCloses, Destroy, ForceFn
    <2>2. queue' \in Seq(AnyFn) /\ (In(queue, stop) => In(queue', stop))
      BY <1>3, <2>1, StopStays DEF StopInv, stop
    <2> QED
      BY <1>4, <2>1, <2>2 DEF StopInv
  <1>10. CASE RunResetChannel \/ RunConnectDestroyed \/ RunForceClose
    <2>1. /\ queue # <<>> /\ Head(queue)[1] # "stopInLoop" /\ queue' = Tail(queue)
          /\ UNCHANGED <<status_, connect_, connection_, pc>> /\ chanFd' \in {chanFd, NoSock}
      BY <1>10 DEF RunResetChannel, RunConnectDestroyed, RunForceClose, Runs
    <2>2. queue' \in Seq(AnyFn) /\ (In(queue, stop) => In(queue', stop))
      BY <1>3, <2>1, StopStays DEF StopInv, stop
    <2> QED
      BY <1>4, <2>1, <2>2 DEF StopInv
  <1>11. CASE RunStopInLoop
    <2>1. /\ queue # <<>> /\ status_' # "kConnecting" /\ chanFd' = chanFd
          /\ UNCHANGED <<connection_, pc>>
          /\ queue' = Tail(queue) \/ queue' = Append(Tail(queue), Fn("resetChannel"))
      BY <1>11 DEF RunStopInLoop, Runs, RemoveAndResetChannel
    <2>2. Tail(queue) \in Seq(AnyFn)
      BY <1>3, <2>1, StopStays DEF StopInv
    <2>3. queue' \in Seq(AnyFn)
      BY <1>3, <2>1, <2>2, StopStays
    <2> QED
      BY <2>1, <2>3 DEF StopInv, StopReaches
  <1>12. CASE UserStops
    <2>1. /\ queue' = Append(queue, stop) /\ UNCHANGED <<chanFd, connection_, pc>>
      BY <1>12 DEF UserStops, stop
    <2>2. queue' \in Seq(AnyFn) /\ In(queue', stop)
      BY <1>3, <2>1, StopStays DEF StopInv
    <2> QED
      BY <1>2, <2>1, <2>2 DEF StopInv, StopReaches
  <1>13. ASSUME NEW t \in Threads,
                \/ ThreadConnects(t) \/ ThreadStarts(t) \/ ThreadStops(t) \/ ThreadDisconnects(t)
                \/ ThreadShutsDown(t)
         PROVE  StopInv'
    <2>1. /\ UNCHANGED <<status_, chanFd, connection_, queue>>
          /\ connect_' = connect_ \/ connect_' = TRUE
          /\ pc' \in [Threads -> {"idle", "start", "queueStart", "stop", "queueStop", "shutdown"}]
          /\ \A u \in Threads : pc[u] = "queueStop" => pc'[u] = "queueStop"
      BY <1>13 DEF ThreadConnects, ThreadStarts, ThreadStops, ThreadDisconnects, ThreadShutsDown,
                   Goes, StopInv
    <2> QED
      BY <1>4, <2>1 DEF StopInv
  <1>14. ASSUME NEW t \in Threads, ThreadClears(t) PROVE StopInv'
    <2>1. /\ UNCHANGED <<chanFd, connection_, queue>> /\ pc'[t] = "queueStop"
          /\ pc' \in [Threads -> {"idle", "start", "queueStart", "stop", "queueStop", "shutdown"}]
      BY <1>14 DEF ThreadClears, Goes, StopInv
    <2> QED
      BY <2>1 DEF StopInv, StopReaches
  <1>15. ASSUME NEW t \in Threads, ThreadQueuesStart(t) PROVE StopInv'
    <2>1. /\ UNCHANGED <<connectorVars, connection_>>
          /\ queue' = Append(queue, Fn("startInLoop"))
          /\ pc' \in [Threads -> {"idle", "start", "queueStart", "stop", "queueStop", "shutdown"}]
          /\ \A u \in Threads : pc[u] = "queueStop" => pc'[u] = "queueStop"
      BY <1>15 DEF ThreadQueuesStart, Goes, StopInv
    <2>2. queue' \in Seq(AnyFn) /\ (In(queue, stop) => In(queue', stop))
      BY <1>3, <2>1, StopStays DEF StopInv, stop
    <2> QED
      BY <1>4, <2>1, <2>2 DEF StopInv
  <1>16. ASSUME NEW t \in Threads, ThreadQueuesStop(t) PROVE StopInv'
    <2>1. /\ UNCHANGED <<connectorVars, connection_>> /\ queue' = Append(queue, stop)
          /\ pc' \in [Threads -> {"idle", "start", "queueStart", "stop", "queueStop", "shutdown"}]
      BY <1>16 DEF ThreadQueuesStop, Goes, StopInv, stop
    <2>2. queue' \in Seq(AnyFn) /\ In(queue', stop)
      BY <1>3, <2>1, StopStays DEF StopInv
    <2> QED
      BY <1>2, <2>1, <2>2 DEF StopInv, StopReaches
  <1> QED
    BY <1>5, <1>6, <1>7, <1>8, <1>9, <1>10, <1>11, <1>12, <1>13, <1>14, <1>15, <1>16
       DEF ClientNext, LoopStep, Event, Run, UserNext, ThreadNext, InCall

\* stop() reaches an attempt under way, for any number of connect() and stop().
THEOREM StopAlwaysReaches == ClientSpec => []StopReaches
  <1>1. ClientInit => StopInv
    <2> SUFFICES ASSUME ClientInit PROVE StopInv
      OBVIOUS
    <2>1. queue \in Seq(AnyFn)
      BY DEF ClientInit
    <2> QED
      BY <2>1 DEF ClientInit, StopInv, StopReaches
  <1>2. StopInv /\ [ClientNext]_vars => StopInv'
    BY StopNextInv
  <1>3. StopInv => StopReaches
    BY DEF StopInv
  <1> QED
    BY <1>1, <1>2, <1>3, PTL DEF ClientSpec
=============================================================================
