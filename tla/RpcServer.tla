----------------------------- MODULE RpcServer -----------------------------
(***************************************************************************)
(* burger/net/CoTcpServer.cc and CoTcpConnection.cc on top of module       *)
(* Scheduler, with burger/rpc/RpcServer.cc as the connection handler and   *)
(* burger/rpc/RpcChannel.cc as its clients: one connection per call.  The  *)
(* accepting coroutine runs on the main processor and deals connections    *)
(* out; connMap_ and the handler's coroutine own them.  A request arrives  *)
(* in one piece, a response is sent by one write(), and a service runs its *)
(* closure before it returns.                                              *)
(***************************************************************************)
EXTENDS Scheduler, Sequences

CONSTANTS Calls,            \* each is made once
          Valid             \* those whose header and arguments the server can parse
                            \* and whose service and method it has

ASSUME RpcAssumption == Valid \subseteq Calls

VARIABLES acc,              \* startAccept(): "none", "pending", at "accept", "held"
          index,            \* of pickOneWorkProcessor()
          backlog,          \* connections the kernel has for accept()
          cl,               \* CallMethod(): "idle", "sent", then "ok", "empty" (no bytes,
                            \* which parse as a response) or "failed"
          req,              \* the request: "none", on the "wire", "here", "read"
          srv,              \* the handler: "none", "pending", "held" in recv(),
                            \* has "got" the request, the method "ran", the
                            \* answer is "sent", "ended"
          proc_,            \* its processor
          open,             \* connections whose socket is open at the server
          fd_,              \* those whose coroutine has registered its fd
          executed,         \* calls whose method has run
          responseStr,      \* those whose serialised response has any bytes
          resp,             \* those the client has bytes to read of
          fin,              \* shut down: quit_ of the connection, FIN sent
          crashed

kernel == <<backlog, req, resp, fin>>
handlers == <<srv, proc_, open, fd_, executed, responseStr>>
accepting == <<acc, index>>
rpcVars == <<schedVars, accepting, kernel, cl, handlers, crashed>>

RpcTypeOK ==
    /\ SchedTypeOK
    /\ acc \in {"none", "pending", "accept", "held"} /\ index \in 0..MaxWorkProcs
    /\ backlog \in Seq(Calls)
    /\ cl \in [Calls -> {"idle", "sent", "ok", "empty", "failed"}]
    /\ req \in [Calls -> {"none", "wire", "here", "read"}]
    /\ srv \in [Calls -> {"none", "pending", "held", "got", "ran", "sent", "ended"}]
    /\ proc_ \in [Calls -> Procs \cup {NoProc}]
    /\ {open, fd_, executed, responseStr, resp, fin} \subseteq SUBSET Calls
    /\ crashed \in BOOLEAN

RpcInit ==
    /\ SchedInit
    /\ acc = "none" /\ index = 0 /\ backlog = <<>> /\ crashed = FALSE
    /\ cl = [c \in Calls |-> "idle"] /\ req = [c \in Calls |-> "none"]
    /\ srv = [c \in Calls |-> "none"] /\ proc_ = [c \in Calls |-> NoProc]
    /\ open = {} /\ fd_ = {} /\ executed = {} /\ responseStr = {} /\ resp = {}
    /\ fin = {}

OwnerEnded == opc \in {"destroyed", "terminated"}
Listening == acc # "none" /\ ~ OwnerEnded /\ ~ crashed

\* p resumes coroutines, and not the one that is in stop().
Resumes(p) == life[p] = "run" /\ ~ InStop(p)

-----------------------------------------------------------------------------
(* CoTcpServer.                                                            *)

\* start(): listen(), addMainTask(), which asserts that there is a main processor
Start ==
    /\ opc = "go" /\ acc = "none"
    /\ acc' = "pending" /\ crashed' = ~ mainProc_
    /\ UNCHANGED <<schedVars, index, kernel, cl, handlers>>

AcceptBegins ==
    /\ acc = "pending" /\ Resumes(Main) /\ acc' = "accept"
    /\ UNCHANGED <<schedVars, index, kernel, cl, handlers, crashed>>

\* pickOneWorkProcessor(), NoProc if it returns a null pointer
Picked == IF started > 0 THEN index + 1 ELSE IF mainProc_ THEN Main ELSE NoProc
NextIndex == IF started > 0 THEN (index + 1) % started ELSE index

\* The picked processor is gone, and connMap_ with it.
PickedGone == Picked = NoProc \/ life[Picked] = "dead"

\* accept() returns a connection: addToConnMap(), addTask().
Accept ==
    /\ acc = "accept" /\ Resumes(Main) /\ backlog # <<>>
    /\ backlog' = Tail(backlog) /\ index' = NextIndex /\ crashed' = PickedGone
    /\ proc_' = [proc_ EXCEPT ![Head(backlog)] = Picked]
    /\ srv' = [srv EXCEPT ![Head(backlog)] = "pending"]
    /\ open' = open \cup {Head(backlog)}
    /\ UNCHANGED <<schedVars, acc, req, resp, fin, cl, fd_, executed, responseStr>>

\* accept() finds nothing and yields ...
AcceptHolds ==
    /\ acc = "accept" /\ Resumes(Main) /\ backlog = <<>> /\ acc' = "held"
    /\ UNCHANGED <<schedVars, index, kernel, cl, handlers, crashed>>

\* ... and is resumed.  After stop() it returns 8, which passes for a
\* connection: it is given to a processor as well, and accept() called again.
AcceptResumes ==
    /\ acc = "held" /\ Resumes(Main) /\ backlog # <<>> /\ acc' = "accept"
    /\ IF stop_[Main] THEN index' = NextIndex /\ crashed' = PickedGone
       ELSE UNCHANGED <<index, crashed>>
    /\ UNCHANGED <<schedVars, kernel, cl, handlers>>

-----------------------------------------------------------------------------
(* connHandler().                                                          *)

\* run() after a handler has ended: connMap_ is erased by the fd its
\* coroutine had registered, if any.
Ends(c) == open' = IF c \in fd_ THEN open \ {c} ELSE open

HandlerGoes(c, to) ==
    /\ Resumes(proc_[c]) /\ srv' = [srv EXCEPT ![c] = to]
    /\ UNCHANGED <<schedVars, accepting, backlog, cl, proc_, crashed>>

\* The handler begins: recv() reads ...
RecvReads(c) ==
    /\ srv[c] = "pending" /\ req[c] = "here" /\ HandlerGoes(c, "got")
    /\ req' = [req EXCEPT ![c] = "read"]
    /\ UNCHANGED <<resp, fin, open, fd_, executed, responseStr>>

\* The coroutine yields without registering its fd.
RecvHoldsUnseen(c) ==
    /\ srv[c] = "pending" /\ req[c] = "wire" /\ HandlerGoes(c, "held")
    /\ UNCHANGED <<req, resp, fin, open, fd_, executed, responseStr>>

\* ... or registers the fd and waits ...
RecvHolds(c) ==
    /\ srv[c] = "pending" /\ req[c] = "wire" /\ HandlerGoes(c, "held")
    /\ fd_' = fd_ \cup {c}
    /\ UNCHANGED <<req, resp, fin, open, executed, responseStr>>

\* ... until the request is here.  After stop() readv() returns 8 instead of
\* trying again, and eight bytes of zero name no service.
RecvResumes(c) ==
    /\ srv[c] = "held" /\ c \in fd_ /\ req[c] = "here"
    /\ IF stop_[proc_[c]] THEN HandlerGoes(c, "ended") /\ Ends(c) /\ UNCHANGED req
       ELSE HandlerGoes(c, "got") /\ req' = [req EXCEPT ![c] = "read"] /\ UNCHANGED open
    /\ UNCHANGED <<resp, fin, fd_, executed, responseStr>>

\* The header or the arguments do not parse, or the service is not found:
\* connHandler() returns, without shutdown().
Refuse(c) ==
    /\ srv[c] = "got" /\ c \notin Valid /\ HandlerGoes(c, "ended")
    /\ Ends(c)
    /\ UNCHANGED <<req, resp, fin, fd_, executed, responseStr>>

\* The method is not found: connHandler() goes on with methodMap_.end(), which
\* points to nothing.
MethodMissing(c) ==
    /\ srv[c] = "got" /\ c \notin Valid /\ Resumes(proc_[c])
    /\ crashed' = TRUE
    /\ UNCHANGED <<schedVars, accepting, kernel, cl, handlers>>

\* service->CallMethod(): the method runs, and calls sendRpcResonse().  Nothing
\* is left to send of a response that fails to serialise or has default values.
Call(c) ==
    /\ srv[c] = "got" /\ c \in Valid /\ HandlerGoes(c, "ran")
    /\ executed' = executed \cup {c}
    /\ responseStr' \in {responseStr, responseStr \cup {c}}
    /\ UNCHANGED <<req, resp, fin, open, fd_>>

\* shutdown() comes before send(): sendInProc() finds quit_ set and gives up.
SendGivesUp(c) ==
    /\ srv[c] = "ran" /\ HandlerGoes(c, "sent")
    /\ UNCHANGED <<req, resp, fin, open, fd_, executed, responseStr>>

\* conn->send(): sendInProc() writes what there is ...
Send(c) ==
    /\ srv[c] = "ran" /\ HandlerGoes(c, "sent")
    /\ resp' = resp \cup ({c} \cap responseStr)
    /\ UNCHANGED <<req, fin, open, fd_, executed, responseStr>>

\* ... conn->shutdown(), after which recv() returns 0 and connHandler() too
Shutdown(c) ==
    /\ srv[c] = "sent" /\ HandlerGoes(c, "ended")
    /\ fin' = fin \cup {c} /\ Ends(c)
    /\ UNCHANGED <<req, resp, fd_, executed, responseStr>>

Handler(c) ==
    \/ RecvReads(c) \/ RecvHolds(c) \/ RecvResumes(c) \/ Refuse(c) \/ MethodMissing(c)
    \/ Call(c) \/ Send(c) \/ Shutdown(c)

-----------------------------------------------------------------------------
(* The end of a processor.                                                 *)

\* runnableCoQue_.empty()
NothingRunnable(p) ==
    /\ \A c \in Calls : proc_[c] = p => srv[c] \notin {"got", "ran", "sent"}
    /\ p = Main => acc # "accept"

RunEnds(p) ==
    /\ ProcEnds(p) /\ NothingRunnable(p)
    /\ UNCHANGED <<accepting, kernel, cl, handlers, crashed>>

\* ~Processor(): connMap_ and pendingTasks_ go, ~CoEpoll() resumes what is
\* held and recv() returns 8.
DropSockets(p) ==
    /\ srv' = [c \in Calls |-> IF proc_[c] = p /\ srv[c] = "held" THEN "ended" ELSE srv[c]]
    /\ open' = {c \in open : proc_[c] # p}

\* ~CoEpoll() resumes startAccept() too, as in AcceptResumes.
Dies(p) ==
    /\ ProcDies(p) /\ DropSockets(p)
    /\ crashed' = (p = Main /\ acc = "held" /\ PickedGone)
    /\ UNCHANGED <<accepting, kernel, cl, proc_, fd_, executed, responseStr>>

-----------------------------------------------------------------------------
(* CallMethod() and the network.                                           *)

ClientGoes(c, from, to) ==
    /\ cl[c] = from /\ cl' = [cl EXCEPT ![c] = to]
    /\ UNCHANGED <<schedVars, accepting, resp, fin, handlers, crashed>>

\* connect() and send(); a connect() that is refused returns and changes nothing.
Connect(c) ==
    /\ Listening /\ ClientGoes(c, "idle", "sent")
    /\ backlog' = Append(backlog, c) /\ req' = [req EXCEPT ![c] = "wire"]

Arrives(c) ==
    /\ req[c] = "wire" /\ req' = [req EXCEPT ![c] = "here"]
    /\ UNCHANGED <<schedVars, accepting, backlog, resp, fin, cl, handlers, crashed>>

\* recv() returns the response.
Receives(c) == c \in resp /\ ClientGoes(c, "sent", "ok") /\ UNCHANGED <<backlog, req>>

\* The server's socket is closed, or the process has gone.
Gone(c) == (srv[c] # "none" /\ c \notin open) \/ crashed \/ OwnerEnded

\* recv() returns 0, and the response is parsed from nothing ...
ReceivesNothing(c) ==
    /\ c \notin resp /\ (c \in fin \/ Gone(c)) /\ ClientGoes(c, "sent", "empty")
    /\ UNCHANGED <<backlog, req>>

\* ... or -1, if the request was never read.
ReceivesReset(c) ==
    /\ c \notin resp /\ Gone(c) /\ req[c] # "read" /\ ClientGoes(c, "sent", "failed")
    /\ UNCHANGED <<backlog, req>>

Client(c) == Receives(c) \/ ReceivesNothing(c) \/ ReceivesReset(c)

-----------------------------------------------------------------------------
notSched == <<accepting, kernel, cl, handlers, crashed>>

Starter ==
    MakeMain \/ StartProcess \/ PushWorker \/ SetRunning \/ NotifyRunning

Owner == TestRunning \/ FallAsleep \/ TestQuit \/ Wait
Stopper == StopNext \/ StopReturns \/ JoinThread \/ NotifyQuit
Accepter == AcceptBegins \/ Accept \/ AcceptHolds \/ AcceptResumes
ProcessThread(p) == (Publish(p) \/ ProcRun(p)) /\ UNCHANGED notSched
Ending(p) == RunEnds(p) \/ Dies(p)

RpcNext ==
    \/ /\ ~ crashed
       /\ \/ /\ StartAsync \/ Starter \/ Owner \/ SpuriousWakeup \/ Destroy \/ Stopper
                \/ \E p \in Procs \cup {NoProc} : Stop(p)
             /\ UNCHANGED notSched
          \/ Start \/ Accepter
          \/ \E p \in Procs : ProcessThread(p) \/ Ending(p)
          \/ \E c \in Calls : Handler(c)
    \/ \E c \in Calls : Connect(c) \/ Arrives(c) \/ Client(c)

\* The threads go on and the network delivers; nobody has to call stop().
RpcSpec ==
    /\ RpcInit /\ [][RpcNext]_rpcVars
    /\ WF_rpcVars(~ crashed /\ Starter /\ UNCHANGED notSched)
    /\ WF_rpcVars(~ crashed /\ Owner /\ UNCHANGED notSched)
    /\ WF_rpcVars(~ crashed /\ Stopper /\ UNCHANGED notSched)
    /\ WF_rpcVars(~ crashed /\ Accepter)
    /\ \A p \in Procs : WF_rpcVars(~ crashed /\ (ProcessThread(p) \/ Ending(p)))
    /\ \A c \in Calls : /\ WF_rpcVars(~ crashed /\ Handler(c))
                        /\ WF_rpcVars(Arrives(c)) /\ WF_rpcVars(Client(c))

-----------------------------------------------------------------------------
\* Once start() has set running_, and until stop() clears it, every processor
\* that pickOneWorkProcessor() can return exists.  (Types are included.)
RunningIsComplete ==
    /\ RpcTypeOK
    /\ running_ => /\ mainProc_ /\ started = workProcNum_
                   /\ \A p \in 0..started : life[p] \in {"made", "run"}

\* wait() returns after the last processor has been destroyed, so that the
\* owner may destroy what its coroutines use.
WaitedForAll == opc = "done" \/ OwnerEnded => \A p \in 0..started : life[p] = "dead"

\* The client's view agrees with the server's: a response means that the
\* method ran; an error of recv() that it did not and will not, so that the call
\* can be made again; and a call that returned without bytes has had no effect
\* unless its response has none (sendRpcResonse() then writes nothing) or the
\* server crashed between the method and send().
AnswerIsTrue ==
    \A c \in Calls :
       /\ cl[c] = "ok" => c \in executed
       /\ cl[c] = "failed" => c \notin executed
       /\ cl[c] = "empty" /\ c \in executed => c \notin responseStr \/ (crashed /\ srv[c] = "ran")

\* A valid call ends unless the server is stopped.  One that connHandler() gives
\* up (RpcServer.cc:61, 73-76, 88-91) may not: nothing shuts its connection down.
EveryCallEnds ==
    \A c \in Valid : (cl[c] = "sent") ~> (cl[c] # "sent" \/ kpc # "none")

\* stop() when all processors are in run() and startAsync() has returned lets
\* wait() return: the threads do not join in a circle.  A notification may get
\* lost, and a coroutine may crash.
WaitReturns ==
    (/\ kpc = "stop" /\ stopped = 0 /\ opc \in {"go", "quitTest", "quitBlock", "quitAsleep"}
     /\ \A p \in 0..started : life[p] = "run")
      ~> (opc = "done" \/ OwnerEnded \/ lost \/ (crashed /\ acc # "none"))

=============================================================================
