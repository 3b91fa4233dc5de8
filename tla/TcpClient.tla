----------------------------- MODULE TcpClient -----------------------------
(***************************************************************************)
(* burger/net/Connector.cc and TcpClient.cc: a client that connects with a *)
(* nonblocking socket, retries with back-off, hands an established socket  *)
(* to a TcpConnection, and connects again when that is closed.             *)
(*                                                                         *)
(* The loop thread works in rounds: epoll reports a set of ready channels, *)
(* their handlers run, then the queue of functions is drained.  What was   *)
(* registered during a round is reported in the next one at the earliest,  *)
(* which also holds for a retry timer as long as the handlers of a round   *)
(* take less than the shortest retry delay (half a second).                *)
(* A TcpConnection is reduced to its status, which shutdown() and          *)
(* forceClose() test and set in one step here; see module TcpConnection.   *)
(* The destructor of TcpClient is not modelled.                            *)
(***************************************************************************)
EXTENDS Naturals, Sequences, FiniteSets

CONSTANTS Threads,             \* threads other than the loop thread
          Socks, NoSock,       \* file descriptors of sockets
          kInitRetryDelayMs, kMaxRetryDelayMs,
          MaxConnects,         \* bound: calls of connect()
          MaxPending           \* bound: nobody calls stop() or forceClose() with more queued

ASSUME ClientAssumption ==
    /\ NoSock \notin Socks /\ Socks \cap {"connector", "timer", "user"} = {}
    /\ kInitRetryDelayMs \in Nat /\ kMaxRetryDelayMs \in Nat
    /\ kInitRetryDelayMs <= kMaxRetryDelayMs
    /\ MaxConnects \in Nat /\ MaxPending \in Nat

VARIABLES connect_, status_, retryDelayMs_,   \* of Connector
          channel_,      \* channel_: "null", "added", or "removed" from epoll
          chanFd,        \* its fd
          clientConnect_, retry_, connection_,   \* of TcpClient: connect_, ...
          conn,          \* status of the TcpConnection on a socket, or "none"
          open,          \* open sockets
          phase,         \* the loop: "wait", "events" or "funcs"
          inner,         \* inside a handler: "user" code, the DOWN callback
                         \* ("down"), before restart() ("restart"), between
                         \* the callbacks of one event ("error"), or "none"
          ready,         \* what epoll reported and is still to be handled
          queue,         \* functions queued in the loop: <<name, socket>>
          timers,        \* pending retry timers
          pc,            \* where a thread is inside connect(), stop(), disconnect()
          connects,      \* calls of connect() so far
          fatal          \* connect(2) has failed with an error that is not retried

connectorVars == <<connect_, status_, retryDelayMs_, channel_, chanFd, timers, open, fatal>>
clientVars == <<clientConnect_, retry_, connection_, conn>>
loopVars == <<phase, inner, ready>>
callVars == <<pc, connects>>
vars == <<connectorVars, clientVars, loopVars, queue, callVars>>

Functor == ({"startInLoop", "stopInLoop", "resetChannel"} \X {NoSock})
             \cup ({"connectDestroyed", "forceCloseInLoop"} \X Socks)
Fn(name) == <<name, NoSock>>
Source == {"connector", "timer", "user"} \cup Socks

ClientTypeOK ==
    /\ {connect_, clientConnect_, retry_, fatal} \subseteq BOOLEAN
    /\ status_ \in {"kDisconnected", "kConnecting", "kConnected"}
    /\ retryDelayMs_ \in kInitRetryDelayMs..kMaxRetryDelayMs
    /\ channel_ \in {"null", "added", "removed"} /\ chanFd \in Socks \cup {NoSock}
    /\ connection_ \in Socks \cup {NoSock}
    /\ conn \in [Socks -> {"none", "kConnected", "kDisconnecting", "kDisconnected"}]
    /\ open \in SUBSET Socks
    /\ phase \in {"wait", "events", "funcs"}
    /\ inner \in {"none", "user", "down", "restart", "error"}
    /\ ready \in SUBSET Source /\ queue \in Seq(Functor) /\ timers \in Nat
    /\ pc \in [Threads -> {"idle", "start", "queueStart", "stop", "queueStop", "shutdown"}]
    /\ connects \in 0..MaxConnects

\* Before loop() the loop thread runs user code as well.
ClientInit ==
    /\ connect_ = FALSE /\ status_ = "kDisconnected" /\ retryDelayMs_ = kInitRetryDelayMs
    /\ channel_ = "null" /\ chanFd = NoSock
    /\ clientConnect_ = TRUE /\ retry_ = FALSE /\ connection_ = NoSock
    /\ conn = [s \in Socks |-> "none"] /\ open = {}
    /\ phase = "wait" /\ inner = "user" /\ ready = {}
    /\ queue = <<>> /\ timers = 0 /\ fatal = FALSE
    /\ pc = [t \in Threads |-> "idle"] /\ connects = 0

-----------------------------------------------------------------------------
(* Steps several handlers share.                                           *)

\* A retry() that forgets the timer.
RetryNever(n, d, allowed) ==
    status_' = "kDisconnected" /\ timers' = n /\ retryDelayMs_' = d

\* A retry() that leaves the status to the timer.
RetryStillConnecting(n, d, allowed) ==
    /\ UNCHANGED status_
    /\ timers' = IF allowed THEN n + 1 ELSE n
    /\ retryDelayMs_' = d

\* retry() with the socket closed: a timer, with back-off, unless stopped.
\* n timers are left when it is called, d is retryDelayMs_.
Retry(n, d, allowed) ==
    /\ status_' = "kDisconnected"
    /\ timers' = IF allowed THEN n + 1 ELSE n
    /\ retryDelayMs_' = IF ~ allowed THEN d
                        ELSE IF d * 2 < kMaxRetryDelayMs THEN d * 2 ELSE kMaxRetryDelayMs

\* connect(): connecting(), retry(), or an error that is not retried.
Connect(n, d) ==
    \/ \E s \in Socks \ open :
         /\ open' = open \cup {s} /\ chanFd' = s /\ channel_' = "added"
         /\ status_' = "kConnecting"
         /\ timers' = n /\ retryDelayMs_' = d
         /\ UNCHANGED fatal
    \/ Retry(n, d, TRUE) /\ UNCHANGED <<open, channel_, chanFd, fatal>>
    \/ /\ fatal' = TRUE
       /\ status_' = "kDisconnected" /\ timers' = n /\ retryDelayMs_' = d
       /\ UNCHANGED <<open, channel_, chanFd>>

\* startInLoop(); go is connect_.  That its assertion holds is StartIsSafe.
StartInLoop(go, n) ==
    IF go THEN Connect(n, retryDelayMs_)
    ELSE timers' = n /\ UNCHANGED <<open, status_, retryDelayMs_, channel_, chanFd, fatal>>

\* removeAndResetChannel(): q is the queue.
RemoveAndResetChannel(q) ==
    /\ channel_' = "removed" /\ UNCHANGED chanFd
    /\ queue' = Append(q, Fn("resetChannel"))

\* newConnection(): connectEstablished() calls the UP callback.
NewConnection(s) ==
    /\ connection_' = s /\ conn' = [conn EXCEPT ![s] = "kConnected"]
    /\ inner' = "user"

\* TcpConnection::handleClose() up to the DOWN callback.
HandleClose(s) ==
    /\ conn' = [conn EXCEPT ![s] = "kDisconnected"]
    /\ inner' = "down"

-----------------------------------------------------------------------------
(* The loop's rounds.                                                      *)

\* epoll_wait(): any of the things that are ready, or just a wakeup.
Wait ==
    /\ phase = "wait" /\ inner = "none"
    /\ \E R \in SUBSET Source :
         /\ "connector" \in R => channel_ = "added"
         /\ "timer" \in R => timers > 0
         /\ \A s \in R \cap Socks : conn[s] \in {"kConnected", "kDisconnecting"}
         /\ ready' = R
    /\ phase' = "events"
    /\ UNCHANGED <<connectorVars, clientVars, inner, queue, callVars>>

EventsHandled ==
    /\ phase = "events" /\ ready = {} /\ inner = "none"
    /\ phase' = "funcs"
    /\ UNCHANGED <<connectorVars, clientVars, inner, ready, queue, callVars>>

FuncsDone ==
    /\ phase = "funcs" /\ queue = <<>> /\ inner = "none"
    /\ phase' = "wait"
    /\ UNCHANGED <<connectorVars, clientVars, inner, ready, queue, callVars>>

Handles(src) == phase = "events" /\ inner = "none" /\ src \in ready /\ ready' = ready \ {src}

\* Some other channel's callback.
UserEvent ==
    /\ Handles("user")
    /\ inner' = "user"
    /\ UNCHANGED <<connectorVars, clientVars, phase, queue, callVars>>

\* The retry timer runs startInLoop().
RetryTimer ==
    /\ Handles("timer")
    /\ StartInLoop(connect_, timers - 1)
    /\ UNCHANGED <<connect_, clientVars, phase, inner, queue, callVars>>

\* handleWrite() of an established connection: newConnection(), unless stopped.
HandleWriteConnected ==
    /\ Handles("connector") /\ status_ = "kConnecting"
    /\ RemoveAndResetChannel(queue)
    /\ status_' = "kConnected"
    /\ IF connect_
       THEN NewConnection(chanFd) /\ UNCHANGED open
       ELSE open' = open \ {chanFd} /\ UNCHANGED <<connection_, conn, inner>>
    /\ UNCHANGED <<connect_, retryDelayMs_, timers, fatal, clientConnect_, retry_, phase, callVars>>

\* handleWrite() with SO_ERROR or a self connect, no EPOLLERR reported.
HandleWriteFailed ==
    /\ Handles("connector") /\ status_ = "kConnecting"
    /\ RemoveAndResetChannel(queue)
    /\ open' = open \ {chanFd}
    /\ Retry(timers, retryDelayMs_, connect_)
    /\ UNCHANGED <<connect_, fatal, clientVars, phase, inner, callVars>>

\* handleError(), which handleWrite() follows for the same event.
HandleError ==
    /\ Handles("connector") /\ status_ = "kConnecting"
    /\ RemoveAndResetChannel(queue)
    /\ open' = open \ {chanFd}
    /\ Retry(timers, retryDelayMs_, connect_)
    /\ inner' = "error"
    /\ UNCHANGED <<connect_, fatal, clientVars, phase, callVars>>

\* ... and finds kDisconnected, as it asserts (StartIsSafe).
HandleWriteAfterError ==
    /\ inner = "error" /\ inner' = "none"
    /\ UNCHANGED <<connectorVars, clientVars, phase, ready, queue, callVars>>

\* A closed or reset connection is reported.
ConnectionEvent(s) ==
    /\ Handles(s)
    /\ HandleClose(s)
    /\ UNCHANGED <<connectorVars, clientConnect_, retry_, connection_, phase, queue, callVars>>

\* removeConnection(), called by handleClose() after the DOWN callback ...
RemoveConnection ==
    /\ inner = "down"
    /\ connection_' = NoSock
    /\ queue' = Append(queue, <<"connectDestroyed", connection_>>)
    /\ inner' = IF retry_ /\ clientConnect_ THEN "restart" ELSE "none"
    /\ UNCHANGED <<connectorVars, clientConnect_, retry_, conn, phase, ready, callVars>>

\* ... and connector_->restart().
Restart ==
    /\ inner = "restart" /\ inner' = "none"
    /\ connect_' = TRUE
    /\ Connect(timers, kInitRetryDelayMs)
    /\ UNCHANGED <<clientVars, phase, ready, queue, callVars>>

-----------------------------------------------------------------------------
(* Queued functions.                                                       *)

Runs(name) == phase = "funcs" /\ inner = "none" /\ queue # <<>> /\ Head(queue)[1] = name

RunStartInLoop ==
    /\ Runs("startInLoop")
    /\ StartInLoop(connect_, timers)
    /\ queue' = Tail(queue)
    /\ UNCHANGED <<connect_, clientVars, loopVars, callVars>>

\* A stopInLoop() that does not close the socket.
RunStopKeepsSocket ==
    /\ Runs("stopInLoop")
    /\ IF status_ = "kConnecting"
       THEN status_' = "kDisconnected" /\ RemoveAndResetChannel(Tail(queue))
       ELSE queue' = Tail(queue) /\ UNCHANGED <<status_, channel_, chanFd>>
    /\ UNCHANGED <<connect_, retryDelayMs_, timers, fatal, open, clientVars, loopVars, callVars>>

\* stopInLoop() gives up an attempt under way.
RunStopInLoop ==
    /\ Runs("stopInLoop")
    /\ IF status_ = "kConnecting"
       THEN /\ status_' = "kDisconnected"
            /\ RemoveAndResetChannel(Tail(queue))
            /\ open' = open \ {chanFd}
       ELSE queue' = Tail(queue) /\ UNCHANGED <<status_, channel_, chanFd, open>>
    /\ UNCHANGED <<connect_, retryDelayMs_, timers, fatal, clientVars, loopVars, callVars>>

RunResetChannel ==
    /\ Runs("resetChannel")
    /\ channel_' = "null" /\ chanFd' = NoSock
    /\ queue' = Tail(queue)
    /\ UNCHANGED <<connect_, status_, retryDelayMs_, timers, open, fatal, clientVars, loopVars,
                   callVars>>

\* connectDestroyed(): the last reference, the destructor closes the socket.
RunConnectDestroyed ==
    /\ Runs("connectDestroyed")
    /\ LET s == Head(queue)[2] IN
         conn' = [conn EXCEPT ![s] = "none"] /\ open' = open \ {s}
    /\ queue' = Tail(queue)
    /\ UNCHANGED <<connect_, status_, retryDelayMs_, channel_, chanFd, timers, fatal,
                   clientConnect_, retry_, connection_, loopVars, callVars>>

RunForceClose ==
    /\ Runs("forceCloseInLoop")
    /\ queue' = Tail(queue)
    /\ LET s == Head(queue)[2] IN
         IF conn[s] \in {"kConnected", "kDisconnecting"} THEN HandleClose(s)
         ELSE UNCHANGED <<conn, inner>>
    /\ UNCHANGED <<connectorVars, clientConnect_, retry_, connection_, phase, ready, callVars>>

-----------------------------------------------------------------------------
(* User code in the loop thread: callbacks, and what precedes loop().      *)

InUser == inner \in {"user", "down"}

\* connect(): start() runs startInLoop() at once.
UserConnects ==
    /\ InUser /\ connects < MaxConnects
    /\ connects' = connects + 1
    /\ clientConnect_' = TRUE /\ connect_' = TRUE
    /\ StartInLoop(TRUE, timers)
    /\ UNCHANGED <<retry_, connection_, conn, loopVars, queue, pc>>

\* stop()
UserStops ==
    /\ InUser /\ Len(queue) < MaxPending
    /\ clientConnect_' = FALSE /\ connect_' = FALSE
    /\ queue' = Append(queue, Fn("stopInLoop"))
    /\ UNCHANGED <<status_, retryDelayMs_, channel_, chanFd, timers, open, fatal,
                   retry_, connection_, conn, loopVars, callVars>>

\* disconnect() under mutex_: shutdown() of the connection, if there is one.
ShutDown ==
    conn' = [s \in Socks |-> IF s = connection_ /\ conn[s] = "kConnected"
                             THEN "kDisconnecting" ELSE conn[s]]

UserDisconnects ==
    /\ InUser
    /\ clientConnect_' = FALSE
    /\ ShutDown
    /\ UNCHANGED <<connectorVars, retry_, connection_, loopVars, queue, callVars>>

\* getConnection()->forceClose()
UserForceCloses ==
    /\ InUser /\ Len(queue) < MaxPending
    /\ connection_ # NoSock /\ conn[connection_] \in {"kConnected", "kDisconnecting"}
    /\ conn' = [conn EXCEPT ![connection_] = "kDisconnecting"]
    /\ queue' = Append(queue, <<"forceCloseInLoop", connection_>>)
    /\ UNCHANGED <<connectorVars, clientConnect_, retry_, connection_, loopVars, callVars>>

UserReturns ==
    /\ inner = "user" /\ inner' = "none"
    /\ UNCHANGED <<connectorVars, clientVars, phase, ready, queue, callVars>>

-----------------------------------------------------------------------------
(* Other threads.                                                          *)

Goes(t, from, to) == pc[t] = from /\ pc' = [pc EXCEPT ![t] = to]

\* connect(): the client's connect_ ...
ThreadConnects(t) ==
    /\ Goes(t, "idle", "start") /\ connects < MaxConnects
    /\ connects' = connects + 1
    /\ clientConnect_' = TRUE
    /\ UNCHANGED <<connectorVars, retry_, connection_, conn, loopVars, queue>>

\* ... start(): the connector's connect_ ...
ThreadStarts(t) ==
    /\ Goes(t, "start", "queueStart")
    /\ connect_' = TRUE
    /\ UNCHANGED <<status_, retryDelayMs_, channel_, chanFd, timers, open, fatal, clientVars,
                   loopVars, queue, connects>>

\* ... and runInLoop() of another thread.
ThreadQueuesStart(t) ==
    /\ Goes(t, "queueStart", "idle")
    /\ queue' = Append(queue, Fn("startInLoop"))
    /\ UNCHANGED <<connectorVars, clientVars, loopVars, connects>>

\* stop(): the client's connect_ ...
ThreadStops(t) ==
    /\ Goes(t, "idle", "stop") /\ Len(queue) < MaxPending
    /\ clientConnect_' = FALSE
    /\ UNCHANGED <<connectorVars, retry_, connection_, conn, loopVars, queue, connects>>

\* ... the connector's ...
ThreadClears(t) ==
    /\ Goes(t, "stop", "queueStop")
    /\ connect_' = FALSE
    /\ UNCHANGED <<status_, retryDelayMs_, channel_, chanFd, timers, open, fatal, clientVars,
                   loopVars, queue, connects>>

\* A stop() that leaves it at connect_ = false.
ThreadForgetsStop(t) ==
    /\ Goes(t, "queueStop", "idle")
    /\ UNCHANGED <<connectorVars, clientVars, loopVars, queue, connects>>

\* ... and queueInLoop().
ThreadQueuesStop(t) ==
    /\ Goes(t, "queueStop", "idle")
    /\ queue' = Append(queue, Fn("stopInLoop"))
    /\ UNCHANGED <<connectorVars, clientVars, loopVars, connects>>

\* disconnect(): the client's connect_ ...
ThreadDisconnects(t) ==
    /\ Goes(t, "idle", "shutdown")
    /\ clientConnect_' = FALSE
    /\ UNCHANGED <<connectorVars, retry_, connection_, conn, loopVars, queue, connects>>

\* ... and the connection, under mutex_.
ThreadShutsDown(t) ==
    /\ Goes(t, "shutdown", "idle")
    /\ ShutDown
    /\ UNCHANGED <<connectorVars, clientConnect_, retry_, connection_, loopVars, queue, connects>>

\* enableRetry(), by any thread.
EnableRetry ==
    /\ ~ retry_ /\ retry_' = TRUE
    /\ UNCHANGED <<connectorVars, clientConnect_, connection_, conn, loopVars, queue, callVars>>

-----------------------------------------------------------------------------
Event ==
    \/ UserEvent \/ RetryTimer
    \/ HandleWriteConnected \/ HandleWriteFailed \/ HandleError \/ HandleWriteAfterError
    \/ \E s \in Socks : ConnectionEvent(s)
    \/ RemoveConnection \/ Restart

Run ==
    \/ RunStartInLoop \/ RunStopInLoop \/ RunResetChannel
    \/ RunConnectDestroyed \/ RunForceClose

LoopStep == Wait \/ EventsHandled \/ FuncsDone \/ Event \/ Run \/ UserReturns

UserNext == UserConnects \/ UserStops \/ UserDisconnects \/ UserForceCloses

InCall(t) ==
    \/ ThreadStarts(t) \/ ThreadQueuesStart(t)
    \/ ThreadClears(t) \/ ThreadQueuesStop(t) \/ ThreadShutsDown(t)

ThreadNext(t) == ThreadConnects(t) \/ ThreadStops(t) \/ ThreadDisconnects(t) \/ InCall(t)

ClientNext == LoopStep \/ UserNext \/ EnableRetry \/ \E t \in Threads : ThreadNext(t)

ClientSpec == ClientInit /\ [][ClientNext]_vars

(***************************************************************************)
(* Fairness: the loop and threads inside a call go on and callbacks        *)
(* return; epoll reports a registered connector and a pending timer in the *)
(* end; and the server is there: an attempt that is made again and again   *)
(* is neither refused at once nor fails later each time.                   *)
(***************************************************************************)
ClientFairSpec ==
    /\ ClientSpec
    /\ WF_vars(LoopStep) /\ \A t \in Threads : WF_vars(InCall(t))
    /\ \A src \in {"connector", "timer"} : SF_vars(Wait /\ src \in ready')
    /\ SF_vars(RetryTimer /\ status_' = "kConnecting")
    /\ SF_vars(HandleWriteConnected)

-----------------------------------------------------------------------------
StopQueued == \E i \in 1..Len(queue) : queue[i] = Fn("stopInLoop")

(***************************************************************************)
(* The assertions of startInLoop(), connecting() and handleWrite(): when   *)
(* an attempt starts - from the queue, from a retry timer or because the   *)
(* connection was closed - no other one is under way and the channel of    *)
(* the last one is gone, although that is only destroyed by a queued       *)
(* function; and the connector's events find the attempt they belong to.   *)
(* It holds for one call of connect() (MaxConnects <= 1), as every use in  *)
(* the repository makes.  (Types are included.)                            *)
(***************************************************************************)
StartIsSafe ==
    /\ ClientTypeOK
    /\ Runs("startInLoop") \/ "timer" \in ready =>
          status_ = "kDisconnected" /\ channel_ = "null"
    /\ inner = "restart" => channel_ = "null"
    /\ inner = "error" => status_ = "kDisconnected"
    /\ "connector" \in ready => status_ = "kConnecting" /\ channel_ = "added"

(***************************************************************************)
(* No socket is leaked or closed twice: the open ones are the one the      *)
(* connector is waiting for and those of connections not yet destroyed,    *)
(* whichever of failure, retry, stop() and close came first.               *)
(***************************************************************************)
SocketsOwned ==
    open = {s \in Socks : conn[s] # "none" \/ (channel_ = "added" /\ chanFd = s)}

(***************************************************************************)
(* stop() reaches an attempt under way: while the connector waits for a    *)
(* connection it must not make, stopInLoop() is queued or about to be.     *)
(***************************************************************************)
StopReaches ==
    status_ = "kConnecting" /\ ~ connect_ =>
        StopQueued \/ \E t \in Threads : pc[t] = "queueStop"

(***************************************************************************)
(* A connection that is closed with retry_ on is replaced by a new one,    *)
(* however often attempts fail in between, unless a stop() was under way   *)
(* or somebody stops or disconnects before, or connect(2) fails with an    *)
(* error that is not retried.                                              *)
(***************************************************************************)
Reconnects ==
    /\ inner = "down" /\ retry_ /\ clientConnect_
    /\ ~ StopQueued /\ \A t \in Threads : pc[t] \notin {"stop", "queueStop"}
    ~> \/ inner # "down" /\ connection_ # NoSock
       \/ ~ clientConnect_ \/ fatal
=============================================================================
