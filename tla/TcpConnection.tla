--------------------------- MODULE TcpConnection ---------------------------
(***************************************************************************)
(* burger/net/TcpConnection.cc with the part of TcpServer.cc that creates  *)
(* and removes a connection: one connection from newConnection() to its    *)
(* destruction, driven by its I/O loop, the server's base loop and other   *)
(* threads that hold a TcpConnectionPtr.                                   *)
(*                                                                         *)
(* The loops are used through what EventLoop promises: queued functions    *)
(* run one at a time, in order.  Handlers run in the I/O loop and are      *)
(* atomic up to the user callback they end with; what other threads do to  *)
(* status_ is split where they may be overtaken.  Assertions are not       *)
(* modelled as guards: the properties say that they hold.  The connection  *)
(* is destroyed when nobody refers to it any more (Alive).                 *)
(***************************************************************************)
EXTENDS Naturals, Sequences, SequencesExt

CONSTANTS Threads,       \* threads other than the two loops
          Setups,        \* what the program around a connection may do: see Setup
          Msgs,          \* messages, each sent at most once
          MsgLen,        \* bytes of a message
          HighWaterMark, \* highWaterMark_
          MaxPending,    \* bound: nobody queues a close on top of this many functions
          MaxDowns,      \* bound: no new forceClose() after this many DOWN callbacks
          NoMsg

\* Which threads call send(const std::string&), forceClose() and shutdown(), which
\* never drop their TcpConnectionPtr; whether ~TcpServer() may run while connections
\* exist; what is sent; and whether there are no I/O threads, so that the I/O loop is
\* the base loop.
Setup == [senders : SUBSET Threads, closers : SUBSET Threads, shutters : SUBSET Threads,
          keepers : SUBSET Threads, serverDies : BOOLEAN, msgs : SUBSET Msgs, oneLoop : BOOLEAN]

ASSUME ConnAssumption ==
    /\ Setups \subseteq Setup
    /\ MsgLen \in Nat \ {0} /\ HighWaterMark \in Nat \ {0} /\ MaxPending \in Nat /\ MaxDowns \in Nat
    /\ NoMsg \notin Msgs

VARIABLES status_,        \* "none" before newConnection()
          chan, events,   \* channel_: its status in Epoll, what it waits for
          outputBuffer_,
          connectionsMap_,   \* the server's map holds the connection
          serverAlive,
          ioQueue, baseQueue,   \* functions queued in the two loops
          iopc,           \* the I/O loop runs a user callback of the connection
          tpc, tmsg,      \* where each thread is inside send(), shutdown() or forceClose()
          holds,          \* which threads hold a TcpConnectionPtr
          peer,           \* the other end: "open", "closed" or "reset"
          setup,          \* the one of Setups that holds
          fin,            \* shutdownWrite() has been called
          wire,           \* bytes the kernel took
          sent,           \* bytes sendInLoop() was given while not disconnected
          lost,           \* a write failed with EPIPE/ECONNRESET: data dropped
          unsent,         \* messages not sent yet
          downs,          \* DOWN calls of connectionCallback_
          destroys,       \* calls of connectDestroyed()
          revived         \* a call that had tested status_ set it after the close

envVars == <<peer, setup>>
threadVars == <<tpc, tmsg, holds, unsent>>
dataVars == <<outputBuffer_, wire, sent, lost, fin>>
lifeVars == <<connectionsMap_, serverAlive, baseQueue, downs, destroys, revived>>
chanVars == <<chan, events>>
connVars == <<status_, chanVars, dataVars, lifeVars, ioQueue, iopc, threadVars, envVars>>

Functor == [fn : {"connectEstablished", "connectDestroyed", "forceCloseInLoop", "sendInLoop",
                  "shutdownInLoop", "writeCompleteCallback_", "highWaterMarkCallback_"},
            msg : Msgs \cup {NoMsg}]
Fn(name) == [fn |-> name, msg |-> NoMsg]

Byte == Msgs \X (1..MsgLen)
Bytes(m) == [i \in 1..MsgLen |-> <<m, i>>]

ConnTypeOK ==
    /\ status_ \in {"none", "kConnecting", "kConnected", "kDisconnecting", "kDisconnected"}
    /\ chan \in {"kNew", "kAdded", "kDismissed"} /\ events \subseteq {"read", "write"}
    /\ outputBuffer_ \in Seq(Byte) /\ wire \in Seq(Byte) /\ sent \in Seq(Byte)
    /\ {connectionsMap_, serverAlive, fin, lost, revived} \subseteq BOOLEAN
    /\ ioQueue \in Seq(Functor) /\ baseQueue \in Seq({"removeConnectionInLoop"})
    /\ iopc \in {"idle", "user"}
    /\ tpc \in [Threads -> {"idle", "send", "force", "queueForce",
                         "shutdown", "queueShutdown"}]
    /\ tmsg \in [Threads -> Msgs \cup {NoMsg}] /\ holds \in [Threads -> BOOLEAN]
    /\ peer \in {"open", "closed", "reset"} /\ setup \in Setups
    /\ unsent \subseteq Msgs /\ downs \in Nat /\ destroys \in Nat

ConnInit ==
    /\ status_ = "none" /\ chan = "kNew" /\ events = {}
    /\ outputBuffer_ = <<>> /\ wire = <<>> /\ sent = <<>> /\ fin = FALSE /\ lost = FALSE
    /\ connectionsMap_ = FALSE /\ serverAlive = TRUE
    /\ ioQueue = <<>> /\ baseQueue = <<>> /\ iopc = "idle"
    /\ tpc = [t \in Threads |-> "idle"] /\ tmsg = [t \in Threads |-> NoMsg]
    /\ holds = [t \in Threads |-> FALSE]
    /\ peer = "open" /\ setup \in Setups /\ unsent = setup.msgs
    /\ downs = 0 /\ destroys = 0 /\ revived = FALSE

(***************************************************************************)
(* shared_ptr: the connection lives while the server's map, a callback in  *)
(* progress, a thread, or a queued function that binds conn or             *)
(* shared_from_this() refers to it.  sendInLoop and shutdownInLoop are bound  *)
(* to a plain this.                                                        *)
(***************************************************************************)
Alive ==
    /\ status_ # "none"
    /\ \/ connectionsMap_ \/ iopc = "user" \/ baseQueue # <<>>
       \/ \E t \in Threads : holds[t]
       \/ \E i \in 1..Len(ioQueue) : ioQueue[i].fn \notin {"sendInLoop", "shutdownInLoop"}

-----------------------------------------------------------------------------
(* Steps that several handlers share.                                      *)

\* Channel::update() and Epoll::updateChannel(), see module Epoll.
UpdateChannel(ev) ==
    /\ events' = ev
    /\ chan' = IF chan = "kAdded" /\ ev = {} THEN "kDismissed" ELSE "kAdded"

\* removeConnectionInLoop() that forgets the map.
RemoveWithoutErase(q) ==
    /\ UNCHANGED connectionsMap_
    /\ ioQueue' = Append(q, Fn("connectDestroyed"))

\* removeConnectionInLoop(): erase from the map, queue connectDestroyed().
RemoveConnectionInLoop(q) ==
    /\ connectionsMap_' = FALSE
    /\ ioQueue' = Append(q, Fn("connectDestroyed"))

\* closeCallback_, i.e. removeConnection(): runInLoop() in the base loop.
CloseCallback(q) ==
    IF ~ serverAlive THEN ioQueue' = q /\ UNCHANGED <<connectionsMap_, baseQueue>>
    ELSE IF setup.oneLoop THEN RemoveConnectionInLoop(q) /\ UNCHANGED baseQueue
    ELSE /\ baseQueue' = Append(baseQueue, "removeConnectionInLoop")
         /\ ioQueue' = q /\ UNCHANGED connectionsMap_

\* handleClose(), with q what is left of the I/O loop's queue.
HandleClose(q) ==
    /\ status_' = "kDisconnected"
    /\ UpdateChannel({})
    /\ downs' = downs + 1          \* connectionCallback_
    /\ CloseCallback(q)
    /\ UNCHANGED <<dataVars, serverAlive, destroys, revived, threadVars, envVars>>

\* shutdownInLoop(), given whether the channel waits to write.
ShutdownInLoop(writing) == fin' = (fin \/ ~ writing)

\* A write() now fails with EPIPE or ECONNRESET.
Broken == peer = "reset" \/ fin

\* The end of sendInLoop(): what the kernel did not take goes to the buffer.
Store(rest, q) ==
    /\ outputBuffer_' = outputBuffer_ \o rest
    /\ ioQueue' = IF /\ Len(outputBuffer_) + Len(rest) >= HighWaterMark
                     /\ Len(outputBuffer_) < HighWaterMark
                  THEN Append(q, Fn("highWaterMarkCallback_")) ELSE q
    /\ IF "write" \in events THEN UNCHANGED chanVars ELSE UpdateChannel(events \cup {"write"})

\* A sendInLoop() that writes at once although the buffer still holds data.
SendInLoopOvertaking(m, q) ==
    IF status_ = "kDisconnected"
    THEN ioQueue' = q /\ UNCHANGED <<dataVars, chanVars>>
    ELSE /\ sent' = sent \o Bytes(m)
         /\ UNCHANGED fin
         /\ \/ /\ ~ Broken /\ UNCHANGED lost
               /\ \E k \in 0..MsgLen :
                    /\ wire' = wire \o SubSeq(Bytes(m), 1, k)
                    /\ IF k = MsgLen
                       THEN /\ ioQueue' = Append(q, Fn("writeCompleteCallback_"))
                            /\ UNCHANGED <<outputBuffer_, chanVars>>
                       ELSE Store(SubSeq(Bytes(m), k + 1, MsgLen), q)
            \/ /\ Broken /\ lost' = TRUE
               /\ ioQueue' = q /\ UNCHANGED <<wire, outputBuffer_, chanVars>>

\* sendInLoop().  A short write, EWOULDBLOCK and errors that are no faultError
\* leave k < MsgLen bytes written; EPIPE and ECONNRESET drop the message.
SendInLoop(m, q) ==
    IF status_ = "kDisconnected"
    THEN ioQueue' = q /\ UNCHANGED <<dataVars, chanVars>>
    ELSE /\ sent' = sent \o Bytes(m)
         /\ UNCHANGED fin
         /\ LET direct == "write" \notin events /\ outputBuffer_ = <<>>
            IN  \/ /\ ~ direct /\ Store(Bytes(m), q) /\ UNCHANGED <<wire, lost>>
                \/ /\ direct /\ ~ Broken /\ UNCHANGED lost
                   /\ \E k \in 0..MsgLen :
                        /\ wire' = wire \o SubSeq(Bytes(m), 1, k)
                        /\ IF k = MsgLen
                           THEN /\ ioQueue' = Append(q, Fn("writeCompleteCallback_"))
                                /\ UNCHANGED <<outputBuffer_, chanVars>>
                           ELSE Store(SubSeq(Bytes(m), k + 1, MsgLen), q)
                \/ /\ direct /\ Broken /\ lost' = TRUE
                   /\ ioQueue' = q /\ UNCHANGED <<wire, outputBuffer_, chanVars>>

\* connectEstablished(); ends in connectionCallback_ (UP).
ConnectEstablished ==
    /\ status_' = "kConnected"
    /\ UpdateChannel(events \cup {"read"})
    /\ iopc' = "user"

-----------------------------------------------------------------------------
(* The server.                                                             *)

\* newConnection(): base loop; connectEstablished() by runInLoop().
NewConnection ==
    /\ status_ = "none" /\ serverAlive
    /\ connectionsMap_' = TRUE
    /\ IF setup.oneLoop
       THEN ConnectEstablished /\ UNCHANGED ioQueue
       ELSE /\ status_' = "kConnecting"
            /\ ioQueue' = Append(ioQueue, Fn("connectEstablished"))
            /\ UNCHANGED <<chanVars, iopc>>
    /\ UNCHANGED <<dataVars, serverAlive, baseQueue, downs, destroys, revived, threadVars, envVars>>

\* The base loop runs the removeConnectionInLoop() an I/O loop has queued.
BaseLoopRuns ==
    /\ baseQueue # <<>> /\ serverAlive
    /\ baseQueue' = Tail(baseQueue)
    /\ RemoveConnectionInLoop(ioQueue)
    /\ UNCHANGED <<status_, chanVars, dataVars, serverAlive, downs, destroys, revived, iopc, threadVars, envVars>>

\* ~TcpServer(): nothing but the members' destructors, connectionsMap_'s too.
DestructServer ==
    /\ setup.serverDies /\ serverAlive
    /\ setup.oneLoop => iopc = "idle"
    /\ serverAlive' = FALSE /\ connectionsMap_' = FALSE
    /\ UNCHANGED <<status_, chanVars, dataVars, baseQueue, downs, destroys, revived, ioQueue, iopc,
                   threadVars, envVars>>

-----------------------------------------------------------------------------
(* The I/O loop.                                                           *)

Runs(name) == iopc = "idle" /\ ioQueue # <<>> /\ Head(ioQueue).fn = name

RunEstablished ==
    /\ Runs("connectEstablished")
    /\ ConnectEstablished
    /\ ioQueue' = Tail(ioQueue)
    /\ UNCHANGED <<dataVars, lifeVars, threadVars, envVars>>

\* connectDestroyed() that leaves the channel to its destructor.
RunDestroyedOnly ==
    /\ Runs("connectDestroyed")
    /\ ioQueue' = Tail(ioQueue)
    /\ destroys' = destroys + 1
    /\ UNCHANGED <<status_, chanVars, downs, dataVars, connectionsMap_, serverAlive, baseQueue, revived,
                   iopc, threadVars, envVars>>

\* connectDestroyed(); ends in channel_->remove().
RunDestroyed ==
    /\ Runs("connectDestroyed")
    /\ ioQueue' = Tail(ioQueue)
    /\ destroys' = destroys + 1
    /\ IF status_ = "kConnected"
       THEN status_' = "kDisconnected" /\ downs' = downs + 1
       ELSE UNCHANGED <<status_, downs>>
    /\ chan' = "kNew" /\ events' = {}
    /\ UNCHANGED <<dataVars, connectionsMap_, serverAlive, baseQueue, revived, iopc, threadVars,
                   envVars>>

\* forceCloseInLoop() without its test of status_.
RunForceCloseAlways ==
    /\ Runs("forceCloseInLoop")
    /\ HandleClose(Tail(ioQueue))
    /\ UNCHANGED iopc

\* forceCloseInLoop()
RunForceClose ==
    /\ Runs("forceCloseInLoop")
    /\ IF status_ \in {"kConnected", "kDisconnecting"}
       THEN HandleClose(Tail(ioQueue))
       ELSE /\ ioQueue' = Tail(ioQueue)
            /\ UNCHANGED <<status_, chanVars, dataVars, lifeVars, threadVars, envVars>>
    /\ UNCHANGED iopc

\* sendInLoop() queued by another thread.  (On a destroyed connection this is
\* a use after free; the outcome modelled is that nothing happens.)
RunSend ==
    /\ Runs("sendInLoop")
    /\ IF Alive THEN SendInLoop(Head(ioQueue).msg, Tail(ioQueue))
       ELSE ioQueue' = Tail(ioQueue) /\ UNCHANGED <<dataVars, chanVars>>
    /\ UNCHANGED <<status_, lifeVars, iopc, threadVars, envVars>>

\* shutdownInLoop() queued by another thread; again nothing happens to a
\* connection that is gone.
RunShutdown ==
    /\ Runs("shutdownInLoop")
    /\ IF Alive THEN ShutdownInLoop("write" \in events) ELSE UNCHANGED fin
    /\ ioQueue' = Tail(ioQueue)
    /\ UNCHANGED <<status_, chanVars, outputBuffer_, wire, sent, lost, lifeVars, iopc, threadVars,
                   envVars>>

\* writeCompleteCallback_ and highWaterMarkCallback_ are user code.
RunCallback ==
    /\ Runs("writeCompleteCallback_") \/ Runs("highWaterMarkCallback_")
    /\ ioQueue' = Tail(ioQueue)
    /\ iopc' = "user"
    /\ UNCHANGED <<status_, chanVars, dataVars, lifeVars, threadVars, envVars>>

\* Epoll reports ev; tie_.lock() finds the connection alive.
Reported(ev) == iopc = "idle" /\ Alive /\ ev \in events

\* handleRead() with n > 0: messageCallback_.
HandleReadData ==
    /\ Reported("read") /\ peer = "open"
    /\ iopc' = "user"
    /\ UNCHANGED <<status_, chanVars, dataVars, lifeVars, ioQueue, threadVars, envVars>>

\* handleRead() with n == 0, or closeCallback_ of the channel on EPOLLHUP.
\* (n < 0 only logs.)
HandleReadEnd ==
    /\ Reported("read") /\ peer # "open"
    /\ HandleClose(ioQueue)
    /\ UNCHANGED iopc

\* handleWrite() that forgets a pending shutdown().
HandleWriteOnly ==
    /\ Reported("write") /\ ~ Broken
    /\ \E k \in 1..Len(outputBuffer_) :
        /\ wire' = wire \o SubSeq(outputBuffer_, 1, k)
        /\ outputBuffer_' = SubSeq(outputBuffer_, k + 1, Len(outputBuffer_))
        /\ IF k = Len(outputBuffer_)
           THEN /\ UpdateChannel(events \ {"write"})
                /\ ioQueue' = Append(ioQueue, Fn("writeCompleteCallback_"))
           ELSE UNCHANGED <<chanVars, ioQueue>>
    /\ UNCHANGED <<fin, status_, sent, lost, lifeVars, iopc, threadVars, envVars>>

\* handleWrite() that keeps watching EPOLLOUT.
HandleWriteKeepsWriting ==
    /\ Reported("write") /\ ~ Broken
    /\ \E k \in 1..Len(outputBuffer_) :
        /\ wire' = wire \o SubSeq(outputBuffer_, 1, k)
        /\ outputBuffer_' = SubSeq(outputBuffer_, k + 1, Len(outputBuffer_))
        /\ IF k = Len(outputBuffer_)
           THEN ioQueue' = Append(ioQueue, Fn("writeCompleteCallback_"))
           ELSE UNCHANGED ioQueue
    /\ UNCHANGED <<chanVars, fin, status_, sent, lost, lifeVars, iopc, threadVars, envVars>>

\* handleWrite() with n > 0.  (n <= 0 only logs.)
HandleWrite ==
    /\ Reported("write") /\ ~ Broken
    /\ \E k \in 1..Len(outputBuffer_) :
        /\ wire' = wire \o SubSeq(outputBuffer_, 1, k)
        /\ outputBuffer_' = SubSeq(outputBuffer_, k + 1, Len(outputBuffer_))
        /\ IF k = Len(outputBuffer_)
           THEN /\ UpdateChannel(events \ {"write"})
                /\ ioQueue' = Append(ioQueue, Fn("writeCompleteCallback_"))
                /\ IF status_ = "kDisconnecting" THEN ShutdownInLoop(FALSE) ELSE UNCHANGED fin
           ELSE UNCHANGED <<chanVars, ioQueue, fin>>
    /\ UNCHANGED <<status_, sent, lost, lifeVars, iopc, threadVars, envVars>>

-----------------------------------------------------------------------------
(* User code in a callback of the I/O loop.                                *)

UserSends(m) ==
    /\ iopc = "user" /\ m \in unsent /\ status_ = "kConnected"
    /\ SendInLoop(m, ioQueue)
    /\ unsent' = unsent \ {m}
    /\ UNCHANGED <<status_, lifeVars, iopc, tpc, tmsg, holds, envVars>>

\* shutdown() that closes the write side although output is pending.
UserShutsDownNow ==
    /\ iopc = "user" /\ status_ = "kConnected"
    /\ status_' = "kDisconnecting"
    /\ fin' = TRUE
    /\ UNCHANGED <<chanVars, outputBuffer_, wire, sent, lost, lifeVars, ioQueue, iopc, threadVars,
                   envVars>>

\* shutdown(): runInLoop() in the loop thread is a plain call.
UserShutsDown ==
    /\ iopc = "user" /\ status_ = "kConnected"
    /\ status_' = "kDisconnecting"
    /\ ShutdownInLoop("write" \in events)
    /\ UNCHANGED <<chanVars, outputBuffer_, wire, sent, lost, lifeVars, ioQueue, iopc, threadVars,
                   envVars>>

\* forceClose()
UserForceCloses ==
    /\ iopc = "user" /\ status_ \in {"kConnected", "kDisconnecting"}
    /\ Len(ioQueue) < MaxPending
    /\ status_' = "kDisconnecting"
    /\ ioQueue' = Append(ioQueue, Fn("forceCloseInLoop"))
    /\ UNCHANGED <<chanVars, dataVars, lifeVars, iopc, threadVars, envVars>>

\* The callback hands its TcpConnectionPtr to another thread.
UserShares(t) ==
    /\ iopc = "user" /\ ~ holds[t]
    /\ holds' = [holds EXCEPT ![t] = TRUE]
    /\ UNCHANGED <<status_, chanVars, dataVars, lifeVars, ioQueue, iopc, tpc, tmsg, unsent, envVars>>

UserReturns ==
    /\ iopc = "user"
    /\ iopc' = "idle"
    /\ UNCHANGED <<status_, chanVars, dataVars, lifeVars, ioQueue, threadVars, envVars>>

-----------------------------------------------------------------------------
(* Other threads.                                                          *)

\* send(m): status_ is tested ...
SendTests(t, m) ==
    /\ t \in setup.senders /\ holds[t] /\ tpc[t] = "idle" /\ m \in unsent
    /\ status_ = "kConnected"
    /\ tpc' = [tpc EXCEPT ![t] = "send"] /\ tmsg' = [tmsg EXCEPT ![t] = m]
    /\ unsent' = unsent \ {m}
    /\ UNCHANGED <<status_, chanVars, dataVars, lifeVars, ioQueue, iopc, holds, envVars>>

\* ... and sendInLoop, bound to this and a copy of m, is queued.
SendQueues(t) ==
    /\ tpc[t] = "send"
    /\ ioQueue' = Append(ioQueue, [fn |-> "sendInLoop", msg |-> tmsg[t]])
    /\ tpc' = [tpc EXCEPT ![t] = "idle"] /\ tmsg' = [tmsg EXCEPT ![t] = NoMsg]
    /\ UNCHANGED <<status_, chanVars, dataVars, lifeVars, iopc, holds, unsent, envVars>>

\* forceClose(): status_ is tested, set, and forceCloseInLoop queued.
ForceTests(t) ==
    /\ t \in setup.closers /\ holds[t] /\ tpc[t] = "idle"
    /\ status_ \in {"kConnected", "kDisconnecting"}
    /\ Len(ioQueue) < MaxPending /\ downs < MaxDowns
    /\ tpc' = [tpc EXCEPT ![t] = "force"]
    /\ UNCHANGED <<status_, chanVars, dataVars, lifeVars, ioQueue, iopc, tmsg, holds, unsent, envVars>>

\* status_ = kDisconnecting, whatever has happened since the test
Overwrite ==
    /\ status_' = "kDisconnecting"
    /\ revived' = (revived \/ status_ = "kDisconnected")

ForceSets(t) ==
    /\ tpc[t] = "force"
    /\ Overwrite
    /\ tpc' = [tpc EXCEPT ![t] = "queueForce"]
    /\ UNCHANGED <<chanVars, dataVars, connectionsMap_, serverAlive, baseQueue, downs, destroys, ioQueue,
                   iopc, tmsg, holds, unsent, envVars>>

ForceQueues(t) ==
    /\ tpc[t] = "queueForce"
    /\ ioQueue' = Append(ioQueue, Fn("forceCloseInLoop"))
    /\ tpc' = [tpc EXCEPT ![t] = "idle"]
    /\ UNCHANGED <<status_, chanVars, dataVars, lifeVars, iopc, tmsg, holds, unsent, envVars>>

\* shutdown(): the same, with shutdownInLoop bound to this.
ShutdownTests(t) ==
    /\ t \in setup.shutters /\ holds[t] /\ tpc[t] = "idle"
    /\ status_ = "kConnected"
    /\ Len(ioQueue) < MaxPending
    /\ tpc' = [tpc EXCEPT ![t] = "shutdown"]
    /\ UNCHANGED <<status_, chanVars, dataVars, lifeVars, ioQueue, iopc, tmsg, holds, unsent, envVars>>

ShutdownSets(t) ==
    /\ tpc[t] = "shutdown"
    /\ Overwrite
    /\ tpc' = [tpc EXCEPT ![t] = "queueShutdown"]
    /\ UNCHANGED <<chanVars, dataVars, connectionsMap_, serverAlive, baseQueue, downs, destroys, ioQueue,
                   iopc, tmsg, holds, unsent, envVars>>

ShutdownQueues(t) ==
    /\ tpc[t] = "queueShutdown"
    /\ ioQueue' = Append(ioQueue, Fn("shutdownInLoop"))
    /\ tpc' = [tpc EXCEPT ![t] = "idle"]
    /\ UNCHANGED <<status_, chanVars, dataVars, lifeVars, iopc, tmsg, holds, unsent, envVars>>

\* The thread's TcpConnectionPtr goes out of scope.
Drops(t) ==
    /\ t \notin setup.keepers /\ holds[t] /\ tpc[t] = "idle"
    /\ holds' = [holds EXCEPT ![t] = FALSE]
    /\ UNCHANGED <<status_, chanVars, dataVars, lifeVars, ioQueue, iopc, tpc, tmsg, unsent, envVars>>

\* The peer closes or resets the connection.
PeerEnds ==
    /\ status_ # "none" /\ peer # "reset"
    /\ peer' \in {"closed", "reset"} \ {peer}
    /\ UNCHANGED <<status_, chanVars, dataVars, lifeVars, ioQueue, iopc, threadVars, setup>>

-----------------------------------------------------------------------------
RunFunctor ==
    \/ RunEstablished \/ RunDestroyed \/ RunForceClose \/ RunSend \/ RunShutdown
    \/ RunCallback

UserStep ==
    \/ \E m \in Msgs : UserSends(m)
    \/ UserShutsDown \/ UserForceCloses
    \/ \E t \in Threads : UserShares(t)

CallStep(t) ==
    \/ SendQueues(t) \/ ForceSets(t) \/ ForceQueues(t)
    \/ ShutdownSets(t) \/ ShutdownQueues(t)

ConnNext ==
    \/ NewConnection \/ BaseLoopRuns \/ DestructServer
    \/ RunFunctor \/ HandleReadData \/ HandleReadEnd \/ HandleWrite
    \/ UserStep \/ UserReturns
    \/ \E t \in Threads :
        CallStep(t) \/ ForceTests(t) \/ ShutdownTests(t) \/ Drops(t) \/ \E m \in Msgs : SendTests(t, m)
    \/ PeerEnds

ConnSpec == ConnInit /\ [][ConnNext]_connVars

(***************************************************************************)
(* Fairness.  Both loops keep running: every iteration drains the queue    *)
(* and epoll reports all ready fds, so queued functions and writable       *)
(* sockets get their turn however often other events arrive (SF).  User    *)
(* callbacks return, threads finish their calls, and a peer that neither   *)
(* closes nor resets keeps reading, so the socket becomes writable.        *)
(***************************************************************************)
ConnFairSpec ==
    /\ ConnSpec
    /\ SF_connVars(RunFunctor) /\ SF_connVars(HandleWrite) /\ SF_connVars(HandleReadEnd)
    /\ WF_connVars(UserReturns) /\ WF_connVars(BaseLoopRuns)
    /\ \A t \in Threads : WF_connVars(CallStep(t))

-----------------------------------------------------------------------------
(***************************************************************************)
(* The byte stream: what the kernel got, followed by outputBuffer_, is     *)
(* what sendInLoop() was given, in that order, without gaps, mixing direct *)
(* writes, short writes and handleWrite(); after a failed write, a prefix. *)
(***************************************************************************)
WireInOrder ==
    /\ IsPrefix(wire, sent)
    /\ ~ lost => wire \o outputBuffer_ = sent

(***************************************************************************)
(* shutdown()'s comment: output still in the buffer must be sent first.    *)
(* Until the connection is closed (which discards its output) the write    *)
(* side is never shut over pending output, whichever thread asked for it.  *)
(***************************************************************************)
FinIsLast == fin /\ downs = 0 => outputBuffer_ = <<>> /\ "write" \notin events

(***************************************************************************)
(* A connection with pending output waits for EPOLLOUT, otherwise nobody   *)
(* would ever send the rest; one without does not, otherwise the loop      *)
(* would spin; and a channel is in epoll exactly while it waits for        *)
(* something.  A revived connection aside.  (Types are included.)          *)
(***************************************************************************)
PendingIsWatched ==
    /\ ConnTypeOK
    /\ ~ revived =>
         /\ chan = "kAdded" <=> events # {}
         /\ status_ \in {"kConnected", "kDisconnecting"} =>
                ("write" \in events <=> outputBuffer_ # <<>>)

(***************************************************************************)
(* TcpConnection.h on connectDestroyed(): "called when TcpServer has       *)
(* removed me from its map, should be called only once".  It is called     *)
(* once per connection, after exactly one DOWN callback, and               *)
(* removeConnectionInLoop() finds what it erases (assert(n == 1)).  The    *)
(* one exception: forceClose() tests status_ and assigns it in two steps,  *)
(* and a connection that is closed in between comes back (revived).        *)
(***************************************************************************)
DestroyedOnce ==
    ~ revived => /\ downs <= 1 /\ destroys <= 1
                 /\ destroys = 1 => downs = 1 /\ ~ connectionsMap_
                 /\ baseQueue # <<>> /\ serverAlive => connectionsMap_

(***************************************************************************)
(* ~Channel(): a Channel is unregistered before it dies.  A connection     *)
(* nobody refers to any more has gone through connectDestroyed(), so its   *)
(* channel is neither in channelMap_ nor in epoll: unless ~TcpServer() has *)
(* dropped its map, or a late forceClose() has put the channel back.       *)
(***************************************************************************)
CleanEnd ==
    status_ # "none" /\ ~ Alive /\ serverAlive /\ ~ revived => chan = "kNew" /\ destroys >= 1

(***************************************************************************)
(* After shutdown() the write side is closed in the end, when the pending  *)
(* output is out, unless the connection is closed or reset first, or       *)
(* ~TcpServer() drops it.                                                  *)
(***************************************************************************)
ShutdownSendsFin ==
    status_ = "kDisconnecting"
      ~> fin \/ status_ = "kDisconnected" \/ peer = "reset" \/ revived \/ ~ serverAlive

\* A closed connection goes away once no thread holds on to it, if its server is
\* there to remove it.
ClosedIsDestroyed ==
    status_ = "kDisconnected" ~> ~ Alive \/ ~ serverAlive \/ \E t \in Threads : holds[t]
=============================================================================
