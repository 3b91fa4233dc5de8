------------------------ MODULE TcpConnectionProofs ------------------------
(***************************************************************************)
(* TLAPS proofs about TcpConnection, for any threads, messages and setups. *)
(***************************************************************************)
EXTENDS TcpConnection, SequenceTheorems, TLAPS

-----------------------------------------------------------------------------
(* The inductive invariant.                                                *)

\* A queued function of the given name, and connectDestroyed at most once.
Has(q, name) == \E i \in 1..Len(q) : q[i].fn = name
Once(q) == \A i, j \in 1..Len(q) :
              q[i].fn = "connectDestroyed" /\ q[j].fn = "connectDestroyed" => i = j

\* sendInLoop is bound to a message.
Bound == {f \in Functor : f.fn = "sendInLoop" => f.msg \in Msgs}
Carries ==
    /\ ioQueue \in Seq(Bound)
    /\ \A t \in Threads : tpc[t] = "send" => tmsg[t] \in Msgs

\* Until connectEstablished() nobody but the server knows the connection.
Young ==
    /\ status_ = "none" => ioQueue = <<>>
    /\ status_ = "kConnecting" => ioQueue = <<Fn("connectEstablished")>>
    /\ status_ = "kConnecting" /\ serverAlive => connectionsMap_
    /\ status_ \in {"none", "kConnecting"} =>
          /\ chan = "kNew" /\ events = {} /\ outputBuffer_ = <<>>
          /\ downs = 0 /\ destroys = 0 /\ baseQueue = <<>> /\ iopc = "idle" /\ ~ revived
          /\ \A t \in Threads : tpc[t] = "idle" /\ ~ holds[t]
    /\ Has(ioQueue, "connectEstablished") => status_ = "kConnecting"

\* An open connection is registered, in the map, and nobody removes it.
Live ==
    status_ \in {"kConnected", "kDisconnecting"} /\ ~ revived =>
        /\ chan = "kAdded" /\ "read" \in events
        /\ "write" \in events <=> outputBuffer_ # <<>>
        /\ downs = 0 /\ destroys = 0 /\ baseQueue = <<>>
        /\ ~ Has(ioQueue, "connectDestroyed")
        /\ serverAlive => connectionsMap_

\* A closed one is about to be removed, about to be destroyed, or destroyed -
\* unless its server went first.
Dead ==
    status_ = "kDisconnected" /\ ~ revived =>
        /\ chan # "kAdded" /\ events = {} /\ downs = 1
        /\ \/ destroys = 0
           \/ /\ destroys = 1 /\ chan = "kNew" /\ ~ connectionsMap_ /\ baseQueue = <<>>
              /\ ~ Has(ioQueue, "connectDestroyed")
        /\ \/ baseQueue = <<>>
           \/ Len(baseQueue) = 1 /\ destroys = 0 /\ ~ Has(ioQueue, "connectDestroyed")
        /\ Has(ioQueue, "connectDestroyed") => ~ connectionsMap_ /\ Once(ioQueue)
        /\ serverAlive /\ destroys = 0 /\ ~ Has(ioQueue, "connectDestroyed") => connectionsMap_

\* Only a connection that was closed can be revived.
Late == status_ = "kDisconnected" \/ revived => downs > 0

\* Output is only lost on a connection that cannot be written to any more.
LossIsFinal == lost => Broken

ConnInv ==
    /\ ConnTypeOK /\ Carries /\ Young /\ Live /\ Dead /\ Late
    /\ LossIsFinal /\ WireInOrder /\ FinIsLast

-----------------------------------------------------------------------------
(* What the queue operations do to what the invariant says of the queue.   *)

\* A queue after steps that neither queue nor run connectDestroyed, and do not queue
\* connectEstablished.
Benign(q, r) ==
    /\ r \in Seq(Bound)
    /\ Has(r, "connectDestroyed") <=> Has(q, "connectDestroyed")
    /\ Has(r, "connectEstablished") => Has(q, "connectEstablished")
    /\ Once(q) => Once(r)

\* Functions bound to a message or to none are functors.
LEMMA BoundIsFunctor ==
    /\ \A q : q \in Seq(Bound) => q \in Seq(Functor)
    /\ \A f : f \in Bound => f \in Functor /\ (f.fn = "sendInLoop" => f.msg \in Msgs)
  <1>1. Bound \subseteq Functor
    BY DEF Bound
  <1>2. \A q : q \in Seq(Bound) => q \in Seq(Functor)
    <2> SUFFICES ASSUME NEW q \in Seq(Bound) PROVE q \in Seq(Functor)
      OBVIOUS
    <2> HIDE DEF Bound, Functor
    <2> QED
      BY <1>1, SMT
  <1> QED
    BY <1>2 DEF Bound

\* The functions bound to no message.
LEMMA FnIsBound ==
    ASSUME NEW name \in {"connectEstablished", "connectDestroyed", "forceCloseInLoop",
                         "shutdownInLoop", "writeCompleteCallback_", "highWaterMarkCallback_"}
    PROVE  Fn(name) \in Bound /\ Fn(name).fn = name
  BY DEF Fn, Bound, Functor

\* queueInLoop() puts one function at the end.
LEMMA AppendHas ==
    ASSUME NEW q \in Seq(Bound), NEW f \in Bound, NEW name
    PROVE  /\ Append(q, f) \in Seq(Bound)
           /\ Has(Append(q, f), name) <=> Has(q, name) \/ f.fn = name
           /\ ~ Has(q, "connectDestroyed") => Once(Append(q, f))
  <1> DEFINE r == Append(q, f)
  <1>1. /\ r \in Seq(Bound) /\ Len(r) = Len(q) + 1 /\ Len(q) \in Nat
        /\ \A i \in 1..Len(q) : r[i] = q[i]
        /\ r[Len(q) + 1] = f
    BY SMT
  <1> HIDE DEF r
  <1>2. Has(r, name) <=> Has(q, name) \/ f.fn = name
    BY <1>1 DEF Has
  <1>3. ~ Has(q, "connectDestroyed") => Once(r)
    BY <1>1 DEF Has, Once
  <1> QED
    BY <1>1, <1>2, <1>3 DEF r

\* Any function but the two that begin and end a connection is queued benignly.
LEMMA AppendBenign ==
    ASSUME NEW q \in Seq(Bound), NEW f \in Bound,
           f.fn \notin {"connectDestroyed", "connectEstablished"}
    PROVE  Benign(q, Append(q, f))
  <1>1. /\ Append(q, f) \in Seq(Bound)
        /\ Has(Append(q, f), "connectDestroyed") <=> Has(q, "connectDestroyed")
        /\ Has(Append(q, f), "connectEstablished") => Has(q, "connectEstablished")
    BY AppendHas
  <1> DEFINE r == Append(q, f)
  <1>2. /\ Len(r) = Len(q) + 1 /\ Len(q) \in Nat
        /\ \A i \in 1..Len(q) : r[i] = q[i]
        /\ r[Len(q) + 1] = f
    BY SMT
  <1> HIDE DEF r
  <1>3. Once(q) => Once(r)
    BY <1>2 DEF Once
  <1> QED
    BY <1>1, <1>3 DEF Benign, r

\* The loop takes the first function.
LEMMA TailHas ==
    ASSUME NEW q \in Seq(Bound), q # <<>>, NEW name
    PROVE  /\ Head(q) \in Bound /\ Tail(q) \in Seq(Bound)
           /\ Has(q, name) <=> Has(Tail(q), name) \/ Head(q).fn = name
           /\ Once(q) => Once(Tail(q))
           /\ Once(q) /\ Head(q).fn = "connectDestroyed" => ~ Has(Tail(q), "connectDestroyed")
  <1> DEFINE r == Tail(q)
  <1>1. /\ r \in Seq(Bound) /\ Len(r) = Len(q) - 1 /\ Len(q) \in Nat \ {0}
        /\ Head(q) = q[1] /\ Head(q) \in Bound
    BY SMT
  <1>2. \A i \in 1..Len(r) : r[i] = q[i + 1]
    BY <1>1, SMT
  <1> HIDE DEF r
  <1>3. ASSUME Has(q, name) PROVE Has(r, name) \/ q[1].fn = name
    <2>1. PICK i \in 1..Len(q) : q[i].fn = name
      BY <1>3 DEF Has
    <2>2. CASE i = 1
      BY <2>1, <2>2
    <2>3. CASE i # 1
      <3>1. i - 1 \in 1..Len(r) /\ r[i - 1] = q[i]
        BY <1>1, <1>2, <2>3
      <3> QED
        BY <2>1, <3>1 DEF Has
    <2> QED
      BY <2>2, <2>3
  <1>4. Has(r, name) \/ q[1].fn = name => Has(q, name)
    BY <1>1, <1>2 DEF Has
  <1>5. Once(q) => Once(r)
    BY <1>1, <1>2 DEF Once
  <1>6. Once(q) /\ q[1].fn = "connectDestroyed" => ~ Has(r, "connectDestroyed")
    BY <1>1, <1>2 DEF Once, Has
  <1> QED
    BY <1>1, <1>3, <1>4, <1>5, <1>6 DEF r

\* Running any function but connectDestroyed is benign, and so is leaving the queue alone.
LEMMA TailBenign ==
    ASSUME NEW q \in Seq(Bound)
    PROVE  /\ Benign(q, q)
           /\ q # <<>> /\ Head(q).fn # "connectDestroyed" => Benign(q, Tail(q))
  <1>1. Benign(q, q)
    BY DEF Benign
  <1>2. ASSUME q # <<>>, Head(q).fn # "connectDestroyed" PROVE Benign(q, Tail(q))
    <2>1. /\ Tail(q) \in Seq(Bound)
          /\ Has(q, "connectDestroyed") <=> Has(Tail(q), "connectDestroyed")
          /\ Once(q) => Once(Tail(q))
      BY <1>2, TailHas
    <2>2. Has(Tail(q), "connectEstablished") => Has(q, "connectEstablished")
      BY <1>2, TailHas
    <2> QED
      BY <2>1, <2>2 DEF Benign
  <1> QED
    BY <1>1, <1>2

-----------------------------------------------------------------------------
(* Steps that leave the connection itself alone.                           *)

\* What the invariant says of the threads and the I/O loop's position.
Callers ==
    /\ iopc \in {"idle", "user"}
    /\ tpc \in [Threads -> {"idle", "send", "force", "queueForce", "shutdown", "queueShutdown"}]
    /\ tmsg \in [Threads -> Msgs \cup {NoMsg}] /\ holds \in [Threads -> BOOLEAN]
    /\ unsent \subseteq Msgs
    /\ \A t \in Threads : tpc[t] = "send" => tmsg[t] \in Msgs

\* Whoever knows the connection, runs a callback of it or has queued one knows one that
\* is established.
LEMMA Grown ==
    ASSUME ConnInv,
           \/ iopc = "user" \/ baseQueue # <<>> \/ events # {}
           \/ \E t \in Threads : holds[t] \/ tpc[t] # "idle"
           \/ ioQueue # <<>> /\ Head(ioQueue).fn # "connectEstablished"
    PROVE  /\ status_ \in {"kConnected", "kDisconnecting", "kDisconnected"}
           /\ ~ Has(ioQueue, "connectEstablished")
  <1>1. status_ \in {"none", "kConnecting"} =>
          ioQueue = <<>> \/ Head(ioQueue).fn = "connectEstablished"
    BY FnIsBound DEF ConnInv, Young
  <1>2. status_ \notin {"none", "kConnecting"}
    BY <1>1 DEF ConnInv, Young
  <1> QED
    BY <1>2 DEF ConnInv, Young, ConnTypeOK

\* The queue and the callers keep their types.
LEMMA QueueTypes ==
    ASSUME ConnInv
    PROVE  ioQueue \in Seq(Bound) /\ ioQueue \in Seq(Functor) /\ Callers
  BY BoundIsFunctor DEF ConnInv, Carries, ConnTypeOK, Callers

\* A step of the user code or of a thread that only changes where that is, and queues
\* or runs a benign function.
LEMMA Quiet ==
    ASSUME ConnInv, status_ \in {"kConnected", "kDisconnecting", "kDisconnected"},
           UNCHANGED <<status_, chanVars, dataVars, lifeVars, envVars>>,
           Benign(ioQueue, ioQueue'), Callers'
    PROVE  ConnInv'
  <1> USE DEF ConnInv, chanVars, dataVars, lifeVars, envVars
  <1>1. ioQueue' \in Seq(Bound) /\ ioQueue' \in Seq(Functor)
    BY BoundIsFunctor DEF Benign
  <1>2. ConnTypeOK' /\ Carries'
    BY <1>1 DEF ConnTypeOK, Carries, Callers
  <1>3. Young'
    BY DEF Young, Benign
  <1>4. Live' /\ Dead' /\ Late'
    BY DEF Live, Dead, Late, Benign
  <1>5. LossIsFinal' /\ WireInOrder' /\ FinIsLast'
    BY DEF LossIsFinal, WireInOrder, FinIsLast, Broken
  <1> QED
    BY <1>2, <1>3, <1>4, <1>5

\* User code that shares its pointer or returns; handleRead() that calls user code.
LEMMA UserQuiet ==
    ASSUME ConnInv, (\E t \in Threads : UserShares(t)) \/ UserReturns \/ HandleReadData
    PROVE  ConnInv'
  <1>1. iopc = "user" \/ events # {}
    BY DEF UserShares, UserReturns, HandleReadData, Reported
  <1>2. status_ \in {"kConnected", "kDisconnecting", "kDisconnected"}
    BY <1>1, Grown
  <1>3. Callers /\ Benign(ioQueue, ioQueue)
    BY QueueTypes, TailBenign
  <1>4. ioQueue' = ioQueue /\ UNCHANGED <<status_, chanVars, dataVars, lifeVars, envVars>>
    BY DEF UserShares, UserReturns, HandleReadData
  <1>5. Callers'
    BY <1>3 DEF Callers, UserShares, UserReturns, HandleReadData, threadVars
  <1> QED
    BY <1>2, <1>3, <1>4, <1>5, Quiet

\* Other threads: the tests of status_, the queueing of functions, the end of a pointer.
LEMMA ThreadQuiet ==
    ASSUME ConnInv, NEW t \in Threads,
           \/ SendQueues(t) \/ ForceQueues(t) \/ ShutdownQueues(t)
           \/ ForceTests(t) \/ ShutdownTests(t) \/ Drops(t) \/ \E m \in Msgs : SendTests(t, m)
    PROVE  ConnInv'
  <1> USE DEF SendQueues, ForceQueues, ShutdownQueues, ForceTests, ShutdownTests, Drops, SendTests
  <1>1. Callers /\ ioQueue \in Seq(Bound) /\ Benign(ioQueue, ioQueue)
    BY QueueTypes, TailBenign
  <1>2. holds[t] \/ tpc[t] # "idle"
    OBVIOUS
  <1>3. status_ \in {"kConnected", "kDisconnecting", "kDisconnected"}
    BY <1>2, Grown
  <1>4. UNCHANGED <<status_, chanVars, dataVars, lifeVars, envVars>>
    OBVIOUS
  <1>5. Callers'
    BY <1>1 DEF Callers, threadVars
  <1>6. ASSUME NEW f \in Bound, f.fn \notin {"connectDestroyed", "connectEstablished"}
        PROVE  Benign(ioQueue, Append(ioQueue, f))
    BY <1>1, <1>6, AppendBenign
  <1>7. CASE SendQueues(t)
    <2> DEFINE f == [fn |-> "sendInLoop", msg |-> tmsg[t]]
    <2>1. f \in Bound /\ f.fn = "sendInLoop"
      BY <1>1, <1>7 DEF Callers, Bound, Functor
    <2> QED
      BY <1>3, <1>4, <1>5, <1>6, <1>7, <2>1, Quiet
  <1>8. CASE ForceQueues(t)
    <2>1. Benign(ioQueue, Append(ioQueue, Fn("forceCloseInLoop")))
      BY <1>6, FnIsBound
    <2> QED
      BY <1>3, <1>4, <1>5, <1>8, <2>1, Quiet
  <1>9. CASE ShutdownQueues(t)
    <2>1. Benign(ioQueue, Append(ioQueue, Fn("shutdownInLoop")))
      BY <1>6, FnIsBound
    <2> QED
      BY <1>3, <1>4, <1>5, <1>9, <2>1, Quiet
  <1>10. CASE ForceTests(t) \/ ShutdownTests(t) \/ Drops(t) \/ \E m \in Msgs : SendTests(t, m)
    BY <1>1, <1>3, <1>4, <1>5, <1>10, Quiet
  <1> QED
    BY <1>7, <1>8, <1>9, <1>10

\* The loop calls writeCompleteCallback_ or highWaterMarkCallback_.
LEMMA CallbackQuiet ==
    ASSUME ConnInv, RunCallback PROVE ConnInv'
  <1>1. Callers /\ ioQueue \in Seq(Bound)
    BY QueueTypes
  <1>2. /\ ioQueue # <<>>
        /\ Head(ioQueue).fn \notin {"connectEstablished", "connectDestroyed"}
    BY DEF RunCallback, Runs
  <1>3. status_ \in {"kConnected", "kDisconnecting", "kDisconnected"}
    BY <1>2, Grown
  <1>4. Benign(ioQueue, ioQueue')
    BY <1>1, <1>2, TailBenign DEF RunCallback
  <1>5. Callers' /\ UNCHANGED <<status_, chanVars, dataVars, lifeVars, envVars>>
    BY <1>1 DEF Callers, RunCallback, threadVars
  <1> QED
    BY <1>3, <1>4, <1>5, Quiet

\* The peer ends the connection: a broken one stays broken.
LEMMA PeerQuiet ==
    ASSUME ConnInv, PeerEnds PROVE ConnInv'
  <1> USE DEF ConnInv, PeerEnds, chanVars, dataVars, lifeVars, threadVars
  <1>1. ConnTypeOK' /\ Carries'
    BY DEF ConnTypeOK, Carries
  <1>2. Young' /\ Live' /\ Dead' /\ Late'
    BY DEF Young, Live, Dead, Late
  <1>3. LossIsFinal' /\ WireInOrder' /\ FinIsLast'
    BY DEF LossIsFinal, WireInOrder, FinIsLast, Broken
  <1> QED
    BY <1>1, <1>2, <1>3

-----------------------------------------------------------------------------
(* The byte stream.                                                        *)

\* A sequence is what a write takes of it and what it leaves.
LEMMA SplitSeq ==
    ASSUME NEW S, NEW s \in Seq(S), NEW k \in 0..Len(s)
    PROVE  /\ SubSeq(s, 1, k) \in Seq(S) /\ SubSeq(s, k + 1, Len(s)) \in Seq(S)
           /\ SubSeq(s, 1, k) \o SubSeq(s, k + 1, Len(s)) = s
           /\ SubSeq(s, k + 1, Len(s)) = <<>> <=> k = Len(s)
  <1> DEFINE a == SubSeq(s, 1, k)
             b == SubSeq(s, k + 1, Len(s))
             c == a \o b
  <1>1. /\ a \in Seq(S) /\ Len(a) = k /\ \A i \in 1..k : a[i] = s[i]
        /\ b \in Seq(S) /\ Len(b) = Len(s) - k /\ \A i \in 1..Len(b) : b[i] = s[k + i]
    BY SMT
  <1>2. Len(s) \in Nat /\ k \in Nat /\ k <= Len(s)
    BY SMT
  <1> HIDE DEF a, b
  <1>3. /\ c \in Seq(S) /\ Len(c) = Len(s)
        /\ \A i \in 1..Len(s) : c[i] = IF i <= k THEN a[i] ELSE b[i - k]
    BY <1>1, <1>2, SMT
  <1> HIDE DEF c
  <1>4. ASSUME NEW i \in 1..Len(s) PROVE c[i] = s[i]
    <2>1. CASE i <= k
      BY <1>1, <1>2, <1>3, <2>1
    <2>2. CASE ~ (i <= k)
      <3>1. i - k \in 1..Len(b) /\ k + (i - k) = i
        BY <1>1, <1>2, <2>2
      <3> QED
        BY <1>1, <1>3, <2>2, <3>1
    <2> QED
      BY <2>1, <2>2
  <1>5. c = s
    BY <1>3, <1>4, SeqEqual
  <1>6. b = <<>> <=> k = Len(s)
    BY <1>1, <1>2
  <1> QED
    BY <1>1, <1>5, <1>6 DEF a, b, c

\* Concatenation, and prefixes of concatenations.
LEMMA Stream ==
    ASSUME NEW S, NEW a \in Seq(S), NEW b \in Seq(S), NEW c \in Seq(S)
    PROVE  /\ a \o b \in Seq(S) /\ (a \o b) \o c = a \o (b \o c)
           /\ a \o <<>> = a /\ <<>> \o a = a
           /\ IsPrefix(a, a \o b)
           /\ IsPrefix(a, b) => IsPrefix(a, b \o c)
           /\ a \o b = <<>> => a = <<>> /\ b = <<>>
  <1>1. a \o b \in Seq(S) /\ a \o <<>> = a /\ <<>> \o a = a
    BY SMT
  <1>2. (a \o b) \o c = a \o (b \o c)
    BY SMT
  <1>3. IsPrefix(a, a \o b)
    BY SMT DEF IsPrefix
  <1>4. IsPrefix(a, b) => IsPrefix(a, b \o c)
    BY SMT DEF IsPrefix
  <1>5. a \o b = <<>> => a = <<>> /\ b = <<>>
    BY SMT
  <1> QED
    BY <1>1, <1>2, <1>3, <1>4, <1>5

\* A message is not empty.
LEMMA BytesType ==
    ASSUME NEW m \in Msgs
    PROVE  Bytes(m) \in Seq(Byte) /\ Len(Bytes(m)) = MsgLen /\ Bytes(m) # <<>>
  BY ConnAssumption DEF Bytes, Byte

\* The buffer part of sendInLoop().
LEMMA StoreSafe ==
    ASSUME ConnInv, NEW q \in Seq(Bound), NEW rest \in Seq(Byte), rest # <<>>, Store(rest, q)
    PROVE  /\ outputBuffer_' = outputBuffer_ \o rest
           /\ outputBuffer_' \in Seq(Byte) /\ outputBuffer_' # <<>>
           /\ events' = events \cup {"write"}
           /\ chan' = IF "write" \in events THEN chan ELSE "kAdded"
           /\ Benign(q, ioQueue')
  <1>1. /\ Fn("highWaterMarkCallback_") \in Bound
        /\ Fn("highWaterMarkCallback_").fn = "highWaterMarkCallback_"
    BY FnIsBound
  <1>2. Benign(q, q) /\ Benign(q, Append(q, Fn("highWaterMarkCallback_")))
    BY <1>1, TailBenign, AppendBenign
  <1>3. Benign(q, ioQueue')
    BY <1>2 DEF Store
  <1>4. outputBuffer_ \in Seq(Byte)
    BY DEF ConnInv, ConnTypeOK
  <1>5. outputBuffer_ \o rest \in Seq(Byte) /\ outputBuffer_ \o rest # <<>>
    BY <1>4, Stream
  <1>6. events \cup {"write"} # {}
    OBVIOUS
  <1> QED
    BY <1>3, <1>5, <1>6 DEF Store, UpdateChannel, chanVars

\* sendInLoop() on a connection that is not disconnected.
LEMMA SendSafe ==
    ASSUME ConnInv, NEW m \in Msgs, NEW q \in Seq(Bound), status_ # "kDisconnected",
           SendInLoop(m, q), UNCHANGED peer
    PROVE  /\ outputBuffer_' \in Seq(Byte) /\ wire' \in Seq(Byte) /\ sent' \in Seq(Byte)
           /\ lost' \in BOOLEAN /\ fin' = fin
           /\ \/ UNCHANGED <<outputBuffer_, chan, events>>
              \/ /\ ~ (outputBuffer_ = <<>> /\ "write" \notin events /\ fin)
                 /\ outputBuffer_' # <<>> /\ events' = events \cup {"write"}
                 /\ chan' = IF "write" \in events THEN chan ELSE "kAdded"
           /\ Benign(q, ioQueue')
           /\ WireInOrder' /\ LossIsFinal'
  <1> DEFINE B == Bytes(m)
             direct == "write" \notin events /\ outputBuffer_ = <<>>
  <1>1. /\ outputBuffer_ \in Seq(Byte) /\ wire \in Seq(Byte) /\ sent \in Seq(Byte)
        /\ IsPrefix(wire, sent) /\ (~ lost => wire \o outputBuffer_ = sent)
        /\ lost \in BOOLEAN /\ (lost => Broken)
    BY DEF ConnInv, ConnTypeOK, WireInOrder, LossIsFinal
  <1>2. B \in Seq(Byte) /\ Len(B) = MsgLen /\ B # <<>>
    BY BytesType
  <1>3. sent' = sent \o B /\ fin' = fin /\ sent' \in Seq(Byte)
    <2>1. sent' = sent \o B /\ fin' = fin
      BY DEF SendInLoop
    <2> QED
      BY <1>1, <1>2, <2>1, Stream
  <1>4. Broken' = Broken
    BY <1>3 DEF Broken
  <1>5. IsPrefix(wire, sent \o B)
    BY <1>1, <1>2, Stream
  <1> HIDE DEF B
  <1>6. CASE ~ direct
    <2>1. Store(B, q) /\ wire' = wire /\ lost' = lost
      BY <1>6 DEF SendInLoop, B
    <2>2. /\ outputBuffer_' = outputBuffer_ \o B /\ outputBuffer_' \in Seq(Byte)
          /\ outputBuffer_' # <<>> /\ events' = events \cup {"write"}
          /\ chan' = (IF "write" \in events THEN chan ELSE "kAdded")
          /\ Benign(q, ioQueue')
      BY <1>2, <2>1, StoreSafe
    <2>3. wire \o (outputBuffer_ \o B) = (wire \o outputBuffer_) \o B
      BY <1>1, <1>2, Stream
    <2>4. WireInOrder'
      BY <1>1, <1>3, <1>5, <2>1, <2>2, <2>3 DEF WireInOrder
    <2>5. LossIsFinal'
      BY <1>1, <1>4, <2>1 DEF LossIsFinal
    <2> QED
      BY <1>1, <1>3, <1>6, <2>1, <2>2, <2>4, <2>5
  <1>7. CASE direct /\ Broken
    <2>1. lost' = TRUE /\ ioQueue' = q /\ UNCHANGED <<wire, outputBuffer_, chan, events>>
      BY <1>7 DEF SendInLoop, chanVars
    <2>2. WireInOrder' /\ LossIsFinal'
      BY <1>3, <1>4, <1>5, <1>7, <2>1 DEF WireInOrder, LossIsFinal
    <2>3. Benign(q, ioQueue')
      BY <2>1, TailBenign
    <2> QED
      BY <1>1, <1>3, <2>1, <2>2, <2>3
  <1>8. CASE direct /\ ~ Broken
    <2>1. lost' = lost /\ ~ lost
      BY <1>1, <1>8 DEF SendInLoop
    <2>2. PICK k \in 0..MsgLen :
            /\ wire' = wire \o SubSeq(B, 1, k)
            /\ IF k = MsgLen
               THEN /\ ioQueue' = Append(q, Fn("writeCompleteCallback_"))
                    /\ UNCHANGED <<outputBuffer_, chan, events>>
               ELSE Store(SubSeq(B, k + 1, MsgLen), q)
      BY <1>8 DEF SendInLoop, B, chanVars
    <2> DEFINE b1 == SubSeq(B, 1, k)
               b2 == SubSeq(B, k + 1, Len(B))
    <2>3. /\ b1 \in Seq(Byte) /\ b2 \in Seq(Byte) /\ b1 \o b2 = B
          /\ b2 = <<>> <=> k = MsgLen
      BY <1>2, SplitSeq
    <2> HIDE DEF b1, b2
    <2>4. wire \o <<>> = wire /\ wire \o b1 \in Seq(Byte) /\ (wire \o b1) \o b2 = wire \o (b1 \o b2)
      <3>1. wire \in Seq(Byte) /\ b1 \in Seq(Byte) /\ b2 \in Seq(Byte)
        BY <1>1, <2>3
      <3> QED
        BY <3>1, Stream
    <2>5. IsPrefix(wire \o b1, (wire \o b1) \o b2)
      BY <2>3, <2>4, Stream
    <2>6. wire' = wire \o b1 /\ outputBuffer_ = <<>> /\ sent' = wire' \o b2
      BY <1>1, <1>2, <1>3, <1>8, <2>1, <2>2, <2>3, <2>4 DEF b1
    <2>7. outputBuffer_' = b2
      <3>1. CASE k = MsgLen
        BY <2>2, <2>3, <2>6, <3>1
      <3>2. CASE k # MsgLen
        <4>1. Store(b2, q) /\ b2 # <<>>
          BY <1>2, <2>2, <2>3, <3>2 DEF b2
        <4>2. outputBuffer_' = outputBuffer_ \o b2
          BY <2>3, <4>1, StoreSafe
        <4>3. <<>> \o b2 = b2
          BY <2>3, Stream
        <4> QED
          BY <2>6, <4>2, <4>3
      <3> QED
        BY <3>1, <3>2
    <2>8. WireInOrder' /\ LossIsFinal' /\ wire' \in Seq(Byte) /\ outputBuffer_' \in Seq(Byte)
      BY <2>1, <2>3, <2>4, <2>5, <2>6, <2>7 DEF WireInOrder, LossIsFinal
    <2>9. /\ Benign(q, ioQueue')
          /\ \/ UNCHANGED <<outputBuffer_, chan, events>>
             \/ /\ ~ fin
                /\ outputBuffer_' # <<>> /\ events' = events \cup {"write"}
                /\ chan' = IF "write" \in events THEN chan ELSE "kAdded"
      <3>1. CASE k = MsgLen
        <4>1. /\ Fn("writeCompleteCallback_") \in Bound
              /\ Fn("writeCompleteCallback_").fn = "writeCompleteCallback_"
          BY FnIsBound
        <4>2. Benign(q, Append(q, Fn("writeCompleteCallback_")))
          BY <4>1, AppendBenign
        <4> QED
          BY <2>2, <3>1, <4>2
      <3>2. CASE k # MsgLen
        <4>1. Store(b2, q) /\ b2 # <<>>
          BY <1>2, <2>2, <2>3, <3>2 DEF b2
        <4>2. /\ Benign(q, ioQueue') /\ outputBuffer_' # <<>> /\ events' = events \cup {"write"}
              /\ chan' = IF "write" \in events THEN chan ELSE "kAdded"
          BY <2>3, <4>1, StoreSafe
        <4> QED
          BY <1>8, <4>2 DEF Broken
      <3> QED
        BY <3>1, <3>2
    <2> QED
      BY <1>3, <2>1, <2>8, <2>9, <1>1
  <1> QED
    BY <1>6, <1>7, <1>8

\* Benign changes of the queue add up.
LEMMA BenignTwice ==
    ASSUME NEW a, NEW b, NEW c, Benign(a, b), Benign(b, c) PROVE Benign(a, c)
  BY DEF Benign

\* sendInLoop() as a step, run from the queue or called by user code.
LEMMA SendKeeps ==
    ASSUME ConnInv, NEW m \in Msgs, NEW q, Benign(ioQueue, q), SendInLoop(m, q),
           status_ \in {"kConnected", "kDisconnecting", "kDisconnected"},
           UNCHANGED <<status_, lifeVars, envVars>>, Callers'
    PROVE  ConnInv'
  <1>1. CASE status_ = "kDisconnected"
    <2>1. ioQueue' = q /\ UNCHANGED <<dataVars, chanVars>>
      BY <1>1 DEF SendInLoop
    <2> QED
      BY <2>1, Quiet
  <1>2. CASE status_ # "kDisconnected"
    <2>0. q \in Seq(Bound)
      BY DEF Benign
    <2>1. /\ outputBuffer_' \in Seq(Byte) /\ wire' \in Seq(Byte) /\ sent' \in Seq(Byte)
          /\ lost' \in BOOLEAN /\ fin' = fin
          /\ \/ UNCHANGED <<outputBuffer_, chan, events>>
             \/ /\ ~ (outputBuffer_ = <<>> /\ "write" \notin events /\ fin)
                /\ outputBuffer_' # <<>> /\ events' = events \cup {"write"}
                /\ chan' = IF "write" \in events THEN chan ELSE "kAdded"
          /\ Benign(q, ioQueue')
          /\ WireInOrder' /\ LossIsFinal'
      BY <1>2, <2>0, SendSafe DEF envVars
    <2>2. Benign(ioQueue, ioQueue')
      BY <2>1, BenignTwice
    <2>3. ioQueue' \in Seq(Bound) /\ ioQueue' \in Seq(Functor)
      BY <2>2, BoundIsFunctor DEF Benign
    <2>4. ConnTypeOK' /\ Carries'
      BY <2>1, <2>3 DEF ConnInv, ConnTypeOK, Carries, Callers, lifeVars, envVars
    <2>5. Young'
      BY <1>2, <2>2 DEF ConnInv, Young, Benign
    <2>6. Live' /\ Dead' /\ Late'
      BY <1>2, <2>1, <2>2 DEF ConnInv, Live, Dead, Late, Benign, lifeVars
    <2>7. FinIsLast'
      BY <2>1 DEF ConnInv, FinIsLast, lifeVars
    <2> QED
      BY <2>1, <2>4, <2>5, <2>6, <2>7 DEF ConnInv
  <1> QED
    BY <1>1, <1>2

\* sendInLoop() queued by another thread.
LEMMA RunSendKeeps ==
    ASSUME ConnInv, RunSend PROVE ConnInv'
  <1>1. ioQueue \in Seq(Bound) /\ Callers
    BY QueueTypes
  <1>2. ioQueue # <<>> /\ Head(ioQueue).fn = "sendInLoop"
    BY DEF RunSend, Runs
  <1>3. status_ \in {"kConnected", "kDisconnecting", "kDisconnected"}
    BY <1>2, Grown
  <1>4. Head(ioQueue) \in Bound
    BY <1>1, <1>2, TailHas
  <1>5. Head(ioQueue).msg \in Msgs
    BY <1>2, <1>4, BoundIsFunctor
  <1>6. Benign(ioQueue, Tail(ioQueue))
    BY <1>1, <1>2, TailBenign
  <1>7. Callers' /\ UNCHANGED <<status_, lifeVars, envVars>>
    BY <1>1 DEF Callers, RunSend, threadVars
  <1>8. CASE Alive
    <2>1. SendInLoop(Head(ioQueue).msg, Tail(ioQueue))
      BY <1>8 DEF RunSend
    <2> QED
      BY <1>3, <1>5, <1>6, <1>7, <2>1, SendKeeps
  <1>9. CASE ~ Alive
    <2>1. ioQueue' = Tail(ioQueue) /\ UNCHANGED <<dataVars, chanVars>>
      BY <1>9 DEF RunSend
    <2> QED
      BY <1>3, <1>6, <1>7, <2>1, Quiet
  <1> QED
    BY <1>8, <1>9

\* send() called by user code in the I/O loop.
LEMMA UserSendKeeps ==
    ASSUME ConnInv, NEW m \in Msgs, UserSends(m) PROVE ConnInv'
  <1>1. ioQueue \in Seq(Bound) /\ Callers
    BY QueueTypes
  <1>2. Benign(ioQueue, ioQueue)
    BY <1>1, TailBenign
  <1>3. Callers'
    BY <1>1 DEF Callers, UserSends
  <1>4. SendInLoop(m, ioQueue) /\ status_ = "kConnected" /\ UNCHANGED <<status_, lifeVars, envVars>>
    BY DEF UserSends
  <1> QED
    BY <1>2, <1>3, <1>4, SendKeeps

\* handleWrite() takes bytes from the front of the buffer and stops waiting with the last.
LEMMA WriteKeeps ==
    ASSUME ConnInv, HandleWrite PROVE ConnInv'
  <1>1. ioQueue \in Seq(Bound) /\ Callers
    BY QueueTypes
  <1>2. "write" \in events /\ ~ Broken
    BY DEF HandleWrite, Reported
  <1>3. status_ \in {"kConnected", "kDisconnecting", "kDisconnected"}
    BY <1>2, Grown
  <1>4. ~ lost /\ ~ fin /\ (~ revived => status_ # "kDisconnected")
    BY <1>2 DEF ConnInv, LossIsFinal, Broken, Dead
  <1>5. /\ outputBuffer_ \in Seq(Byte) /\ wire \in Seq(Byte) /\ sent \in Seq(Byte)
        /\ wire \o outputBuffer_ = sent /\ events \subseteq {"read", "write"}
    BY <1>4 DEF ConnInv, ConnTypeOK, WireInOrder
  <1>6. PICK k \in 1..Len(outputBuffer_) :
          /\ wire' = wire \o SubSeq(outputBuffer_, 1, k)
          /\ outputBuffer_' = SubSeq(outputBuffer_, k + 1, Len(outputBuffer_))
          /\ IF k = Len(outputBuffer_)
             THEN /\ UpdateChannel(events \ {"write"})
                  /\ ioQueue' = Append(ioQueue, Fn("writeCompleteCallback_"))
                  /\ IF status_ = "kDisconnecting" THEN ShutdownInLoop(FALSE) ELSE UNCHANGED fin
             ELSE UNCHANGED <<chanVars, ioQueue, fin>>
    BY DEF HandleWrite
  <1>7. UNCHANGED <<status_, sent, lost, lifeVars, iopc, threadVars, envVars>>
    BY DEF HandleWrite
  <1> DEFINE a == SubSeq(outputBuffer_, 1, k)
             b == SubSeq(outputBuffer_, k + 1, Len(outputBuffer_))
  <1>8. k \in 0..Len(outputBuffer_) /\ outputBuffer_ # <<>>
    BY <1>5
  <1>9. /\ a \in Seq(Byte) /\ b \in Seq(Byte) /\ a \o b = outputBuffer_
        /\ b = <<>> <=> k = Len(outputBuffer_)
    BY <1>5, <1>8, SplitSeq
  <1>10. wire' = wire \o a /\ outputBuffer_' = b
    BY <1>6
  <1> HIDE DEF a, b
  <1>11. wire \o a \in Seq(Byte) /\ (wire \o a) \o b = wire \o (a \o b)
    <2>1. wire \in Seq(Byte) /\ a \in Seq(Byte) /\ b \in Seq(Byte)
      BY <1>5, <1>9
    <2> QED
      BY <2>1, Stream
  <1>12. IsPrefix(wire \o a, (wire \o a) \o b)
    BY <1>9, <1>11, Stream
  <1>13. WireInOrder' /\ wire' \in Seq(Byte) /\ outputBuffer_' \in Seq(Byte)
    BY <1>5, <1>7, <1>9, <1>10, <1>11, <1>12 DEF WireInOrder
  <1>14. Benign(ioQueue, ioQueue')
    <2>1. /\ Fn("writeCompleteCallback_") \in Bound
          /\ Fn("writeCompleteCallback_").fn = "writeCompleteCallback_"
      BY FnIsBound
    <2>2. Benign(ioQueue, Append(ioQueue, Fn("writeCompleteCallback_"))) /\ Benign(ioQueue, ioQueue)
      BY <1>1, <2>1, AppendBenign, TailBenign
    <2> QED
      BY <1>6, <2>2
  <1>15. \/ /\ outputBuffer_' = <<>> /\ events' = events \ {"write"} /\ fin' \in BOOLEAN
            /\ chan' = IF chan = "kAdded" /\ events \ {"write"} = {} THEN "kDismissed" ELSE "kAdded"
         \/ outputBuffer_' # <<>> /\ UNCHANGED <<chan, events, fin>>
    <2>1. CASE k = Len(outputBuffer_)
      <3>1. UpdateChannel(events \ {"write"}) /\ b = <<>>
        BY <1>6, <1>9, <2>1
      <3>2. fin \in BOOLEAN /\ (fin' = fin \/ fin' = TRUE)
        BY <1>6, <2>1 DEF ShutdownInLoop, ConnInv, ConnTypeOK
      <3> QED
        BY <1>4, <1>10, <3>1, <3>2 DEF UpdateChannel
    <2>2. CASE k # Len(outputBuffer_)
      BY <1>6, <1>9, <1>10, <2>2 DEF chanVars
    <2> QED
      BY <2>1, <2>2
  <1>16. ioQueue' \in Seq(Bound) /\ ioQueue' \in Seq(Functor) /\ fin' \in BOOLEAN /\ Callers'
    BY <1>1, <1>4, <1>7, <1>14, <1>15, BoundIsFunctor
       DEF Benign, Callers, threadVars, ConnInv, ConnTypeOK
  <1>17. ConnTypeOK' /\ Carries'
    BY <1>7, <1>13, <1>15, <1>16 DEF ConnInv, ConnTypeOK, Carries, Callers, lifeVars, envVars
  <1>18. Young'
    BY <1>3, <1>7, <1>14 DEF ConnInv, Young, Benign
  <1>19. Live' /\ Dead' /\ Late'
    BY <1>3, <1>4, <1>7, <1>8, <1>14, <1>15 DEF ConnInv, Live, Dead, Late, Benign, lifeVars
  <1>20. FinIsLast' /\ LossIsFinal'
    BY <1>4, <1>7, <1>15 DEF FinIsLast, LossIsFinal
  <1> QED
    BY <1>13, <1>17, <1>18, <1>19, <1>20 DEF ConnInv

-----------------------------------------------------------------------------
(* The life of the connection.                                             *)

\* A step that sets status_ to kDisconnecting, perhaps late, perhaps closing the write side.
LEMMA DisconnectingKeeps ==
    ASSUME ConnInv, status_ \in {"kConnected", "kDisconnecting", "kDisconnected"},
           status_' = "kDisconnecting",
           revived' \in BOOLEAN, revived' <=> (revived \/ status_ = "kDisconnected"),
           fin' \in BOOLEAN, fin => fin', fin' => fin \/ "write" \notin events,
           UNCHANGED <<chanVars, outputBuffer_, wire, sent, lost, connectionsMap_, serverAlive,
                       baseQueue, downs, destroys, envVars>>,
           Benign(ioQueue, ioQueue'), Callers'
    PROVE  ConnInv'
  <1> USE DEF chanVars, envVars
  <1>1. ioQueue' \in Seq(Bound) /\ ioQueue' \in Seq(Functor)
    BY BoundIsFunctor DEF Benign
  <1>2. ConnTypeOK' /\ Carries'
    BY <1>1 DEF ConnInv, ConnTypeOK, Carries, Callers
  <1>3. Young' /\ Dead' /\ Late'
    BY DEF ConnInv, Young, Dead, Late, Benign
  <1>4. Live'
    BY DEF ConnInv, Live, Benign
  <1>5. LossIsFinal' /\ WireInOrder'
    BY DEF ConnInv, LossIsFinal, WireInOrder, Broken
  <1>6. FinIsLast'
    BY DEF ConnInv, FinIsLast, Live, Late, ConnTypeOK
  <1> QED
    BY <1>2, <1>3, <1>4, <1>5, <1>6 DEF ConnInv

\* shutdown() and forceClose() of user code and of other threads.
LEMMA DisconnectKeeps ==
    ASSUME ConnInv,
           UserShutsDown \/ UserForceCloses \/ \E t \in Threads : ForceSets(t) \/ ShutdownSets(t)
    PROVE  ConnInv'
  <1>1. /\ ioQueue \in Seq(Bound) /\ Callers /\ Benign(ioQueue, ioQueue)
        /\ fin \in BOOLEAN /\ revived \in BOOLEAN
    BY QueueTypes, TailBenign DEF ConnInv, ConnTypeOK
  <1>2. CASE UserShutsDown
    <2>1. Callers' /\ ioQueue' = ioQueue /\ revived' = revived
      BY <1>1, <1>2 DEF Callers, UserShutsDown, threadVars, lifeVars
    <2>2. fin' \in BOOLEAN /\ (fin => fin') /\ (fin' => fin \/ "write" \notin events)
      BY <1>1, <1>2 DEF UserShutsDown, ShutdownInLoop
    <2> QED
      BY <1>1, <1>2, <2>1, <2>2, DisconnectingKeeps DEF UserShutsDown, lifeVars
  <1>3. CASE UserForceCloses
    <2>1. Callers' /\ revived' = revived /\ fin' = fin
      BY <1>1, <1>3 DEF Callers, UserForceCloses, threadVars, lifeVars, dataVars
    <2>2. Fn("forceCloseInLoop") \in Bound /\ Fn("forceCloseInLoop").fn = "forceCloseInLoop"
      BY FnIsBound
    <2>3. Benign(ioQueue, ioQueue')
      BY <1>1, <1>3, <2>2, AppendBenign DEF UserForceCloses
    <2> QED
      BY <1>1, <1>3, <2>1, <2>3, DisconnectingKeeps DEF UserForceCloses, lifeVars, dataVars
  <1>4. ASSUME NEW t \in Threads, ForceSets(t) \/ ShutdownSets(t) PROVE ConnInv'
    <2>1. Callers' /\ ioQueue' = ioQueue /\ fin' = fin
      BY <1>1, <1>4 DEF Callers, ForceSets, ShutdownSets, dataVars
    <2>2. tpc[t] # "idle"
      BY <1>4 DEF ForceSets, ShutdownSets
    <2>3. status_ \in {"kConnected", "kDisconnecting", "kDisconnected"}
      BY <2>2, Grown
    <2>4. status_' = "kDisconnecting" /\ revived' = (revived \/ status_ = "kDisconnected")
      BY <1>4 DEF ForceSets, ShutdownSets, Overwrite
    <2>5. revived' \in BOOLEAN /\ (revived' <=> (revived \/ status_ = "kDisconnected"))
      BY <2>4, Zenon
    <2>6. UNCHANGED <<chanVars, outputBuffer_, wire, sent, lost, connectionsMap_, serverAlive,
                      baseQueue, downs, destroys, envVars>>
      BY <1>4 DEF ForceSets, ShutdownSets, dataVars
    <2> QED
      BY <1>1, <2>1, <2>3, <2>4, <2>5, <2>6, DisconnectingKeeps
  <1> QED
    BY <1>2, <1>3, <1>4

\* shutdownInLoop() queued by another thread.
LEMMA RunShutdownKeeps ==
    ASSUME ConnInv, RunShutdown PROVE ConnInv'
  <1>1. ioQueue \in Seq(Bound) /\ Callers /\ fin \in BOOLEAN
    BY QueueTypes DEF ConnInv, ConnTypeOK
  <1>2. ioQueue # <<>> /\ Head(ioQueue).fn = "shutdownInLoop" /\ ioQueue' = Tail(ioQueue)
    BY DEF RunShutdown, Runs
  <1>3. /\ status_ \in {"kConnected", "kDisconnecting", "kDisconnected"}
        /\ ~ Has(ioQueue, "connectEstablished")
    BY <1>2, Grown
  <1>4. Benign(ioQueue, ioQueue')
    BY <1>1, <1>2, TailBenign
  <1>5. UNCHANGED <<status_, chanVars, outputBuffer_, wire, sent, lost, lifeVars, envVars>>
    BY DEF RunShutdown
  <1>6. fin' \in BOOLEAN /\ (fin => fin') /\ (fin' => fin \/ "write" \notin events)
    BY <1>1 DEF RunShutdown, ShutdownInLoop
  <1>7. Callers' /\ ioQueue' \in Seq(Bound) /\ ioQueue' \in Seq(Functor)
    BY <1>1, <1>4, BoundIsFunctor DEF Callers, RunShutdown, threadVars, Benign
  <1> USE DEF chanVars, lifeVars, envVars
  <1>8. ConnTypeOK' /\ Carries'
    BY <1>5, <1>6, <1>7 DEF ConnInv, ConnTypeOK, Carries, Callers
  <1>9. Young' /\ Live' /\ Dead' /\ Late'
    BY <1>3, <1>4, <1>5 DEF ConnInv, Young, Live, Dead, Late, Benign
  <1>10. LossIsFinal' /\ WireInOrder'
    BY <1>5, <1>6 DEF ConnInv, LossIsFinal, WireInOrder, Broken
  <1>11. FinIsLast'
    BY <1>3, <1>5, <1>6 DEF ConnInv, FinIsLast, Live, Late, ConnTypeOK
  <1> QED
    BY <1>8, <1>9, <1>10, <1>11 DEF ConnInv

\* handleClose(), on an open connection or on one that was revived.
LEMMA CloseKeeps ==
    ASSUME ConnInv, NEW q, Benign(ioQueue, q),
           status_ \in {"kConnected", "kDisconnecting", "kDisconnected"},
           status_ = "kDisconnected" => revived,
           HandleClose(q), UNCHANGED iopc
    PROVE  ConnInv'
  <1>1. /\ q \in Seq(Bound) /\ Fn("connectDestroyed") \in Bound
        /\ Fn("connectDestroyed").fn = "connectDestroyed"
    BY FnIsBound DEF Benign
  <1> DEFINE r == Append(q, Fn("connectDestroyed"))
  <1>2. /\ r \in Seq(Bound) /\ Has(r, "connectDestroyed")
        /\ ~ Has(q, "connectDestroyed") => Once(r)
        /\ Has(r, "connectEstablished") => Has(q, "connectEstablished")
    <2>1. /\ r \in Seq(Bound) /\ Has(r, "connectDestroyed")
          /\ ~ Has(q, "connectDestroyed") => Once(r)
      BY <1>1, AppendHas
    <2>2. Has(r, "connectEstablished") => Has(q, "connectEstablished")
      BY <1>1, AppendHas
    <2> QED
      BY <2>1, <2>2
  <1> HIDE DEF r
  <1>3. /\ status_' = "kDisconnected" /\ events' = {} /\ downs' = downs + 1
        /\ chan' = IF chan = "kAdded" THEN "kDismissed" ELSE "kAdded"
        /\ UNCHANGED <<outputBuffer_, wire, sent, lost, fin, serverAlive, destroys, revived,
                       threadVars, peer, setup>>
    BY DEF HandleClose, UpdateChannel, dataVars, envVars
  <1>4. \/ ~ serverAlive /\ ioQueue' = q /\ UNCHANGED <<connectionsMap_, baseQueue>>
        \/ serverAlive /\ connectionsMap_' = FALSE /\ ioQueue' = r /\ UNCHANGED baseQueue
        \/ /\ serverAlive /\ ioQueue' = q /\ UNCHANGED connectionsMap_
           /\ baseQueue' = Append(baseQueue, "removeConnectionInLoop")
    BY DEF HandleClose, CloseCallback, RemoveConnectionInLoop, r
  <1>5. ioQueue' \in Seq(Bound) /\ ioQueue' \in Seq(Functor)
    BY <1>1, <1>2, <1>4, BoundIsFunctor
  <1>6. baseQueue \in Seq({"removeConnectionInLoop"}) /\ downs \in Nat
    BY DEF ConnInv, ConnTypeOK
  <1>7. baseQueue' \in Seq({"removeConnectionInLoop"}) /\ connectionsMap_' \in BOOLEAN
    <2>1. Append(baseQueue, "removeConnectionInLoop") \in Seq({"removeConnectionInLoop"})
      BY <1>6
    <2>2. connectionsMap_ \in BOOLEAN
      BY DEF ConnInv, ConnTypeOK
    <2> QED
      BY <1>4, <1>6, <2>1, <2>2
  <1>8. ConnTypeOK' /\ Carries'
    BY <1>3, <1>5, <1>7 DEF ConnInv, ConnTypeOK, Carries, threadVars
  <1>9. Young'
    BY <1>2, <1>3, <1>4 DEF ConnInv, Young, Benign
  <1>10. baseQueue = <<>> => Len(Append(baseQueue, "removeConnectionInLoop")) = 1
    BY <1>6
  <1>11. Dead'
    <2> SUFFICES ASSUME ~ revived PROVE Dead'
      BY <1>3 DEF Dead
    <2>1. /\ chan = "kAdded" /\ downs = 0 /\ destroys = 0 /\ baseQueue = <<>>
          /\ ~ Has(q, "connectDestroyed") /\ (serverAlive => connectionsMap_)
      BY DEF ConnInv, Live, Benign
    <2>2. chan' = "kDismissed" /\ downs' = 1 /\ destroys' = 0 /\ serverAlive' = serverAlive
      BY <1>3, <2>1
    <2>3. CASE ~ serverAlive /\ ioQueue' = q /\ UNCHANGED <<connectionsMap_, baseQueue>>
      BY <1>3, <2>1, <2>2, <2>3 DEF Dead
    <2>4. CASE serverAlive /\ connectionsMap_' = FALSE /\ ioQueue' = r /\ UNCHANGED baseQueue
      BY <1>2, <1>3, <2>1, <2>2, <2>4 DEF Dead
    <2>5. CASE /\ serverAlive /\ ioQueue' = q /\ UNCHANGED connectionsMap_
               /\ baseQueue' = Append(baseQueue, "removeConnectionInLoop")
      BY <1>3, <1>10, <2>1, <2>2, <2>5 DEF Dead
    <2> QED
      BY <1>4, <2>3, <2>4, <2>5
  <1>12. Live' /\ Late' /\ FinIsLast'
    BY <1>3, <1>6 DEF Live, Late, FinIsLast
  <1>13. LossIsFinal' /\ WireInOrder'
    BY <1>3 DEF ConnInv, LossIsFinal, WireInOrder, Broken
  <1> QED
    BY <1>8, <1>9, <1>11, <1>12, <1>13 DEF ConnInv

\* forceCloseInLoop(), and handleRead() at the end of the stream.
LEMMA EndKeeps ==
    ASSUME ConnInv, RunForceClose \/ HandleReadEnd PROVE ConnInv'
  <1>1. ioQueue \in Seq(Bound) /\ Callers /\ Benign(ioQueue, ioQueue)
    BY QueueTypes, TailBenign
  <1>2. CASE RunForceClose
    <2>1. ioQueue # <<>> /\ Head(ioQueue).fn = "forceCloseInLoop"
      BY <1>2 DEF RunForceClose, Runs
    <2>2. status_ \in {"kConnected", "kDisconnecting", "kDisconnected"}
      BY <2>1, Grown
    <2>3. Benign(ioQueue, Tail(ioQueue))
      BY <1>1, <2>1, TailBenign
    <2>4. CASE status_ \in {"kConnected", "kDisconnecting"}
      <3>1. HandleClose(Tail(ioQueue)) /\ UNCHANGED iopc
        BY <1>2, <2>4 DEF RunForceClose
      <3> QED
        BY <2>3, <2>4, <3>1, CloseKeeps
    <2>5. CASE status_ \notin {"kConnected", "kDisconnecting"}
      <3>1. /\ ioQueue' = Tail(ioQueue)
            /\ UNCHANGED <<status_, chanVars, dataVars, lifeVars, envVars, threadVars, iopc>>
        BY <1>2, <2>5 DEF RunForceClose
      <3>2. Callers'
        BY <1>1, <3>1 DEF Callers, threadVars
      <3> QED
        BY <2>2, <2>3, <3>1, <3>2, Quiet
    <2> QED
      BY <2>4, <2>5
  <1>3. CASE HandleReadEnd
    <2>1. events # {} /\ HandleClose(ioQueue) /\ UNCHANGED iopc
      BY <1>3 DEF HandleReadEnd, Reported
    <2>2. status_ \in {"kConnected", "kDisconnecting", "kDisconnected"}
      BY <2>1, Grown
    <2>3. status_ = "kDisconnected" => revived
      BY <2>1 DEF ConnInv, Dead
    <2> QED
      BY <1>1, <2>1, <2>2, <2>3, CloseKeeps
  <1> QED
    BY <1>2, <1>3

\* connectEstablished(), called by newConnection() or run from the I/O loop's queue.
LEMMA EstablishedKeeps ==
    ASSUME ConnInv, status_ \in {"none", "kConnecting"}, ConnectEstablished,
           ioQueue' = <<>>, connectionsMap_' \in BOOLEAN, serverAlive => connectionsMap_',
           UNCHANGED <<dataVars, serverAlive, baseQueue, downs, destroys, revived, threadVars,
                       envVars>>
    PROVE  ConnInv'
  <1> USE DEF dataVars, threadVars, envVars
  <1>1. status_' = "kConnected" /\ chan' = "kAdded" /\ events' = {"read"} /\ iopc' = "user"
    BY DEF ConnectEstablished, UpdateChannel, ConnInv, Young
  <1>2. /\ \A name : ~ Has(ioQueue', name)
        /\ ioQueue' \in Seq(Bound) /\ ioQueue' \in Seq(Functor)
    BY DEF Has
  <1>3. ConnTypeOK' /\ Carries'
    BY <1>1, <1>2 DEF ConnInv, ConnTypeOK, Carries
  <1>4. Young' /\ Live' /\ Dead' /\ Late'
    BY <1>1, <1>2 DEF ConnInv, Young, Live, Dead, Late
  <1>5. LossIsFinal' /\ WireInOrder' /\ FinIsLast'
    BY <1>1 DEF ConnInv, LossIsFinal, WireInOrder, FinIsLast, Broken
  <1> QED
    BY <1>3, <1>4, <1>5 DEF ConnInv

\* newConnection(), and the connectEstablished() it queues.
LEMMA NewKeeps ==
    ASSUME ConnInv, NewConnection \/ RunEstablished PROVE ConnInv'
  <1>1. CASE RunEstablished
    <2>1. ioQueue \in Seq(Bound) /\ ioQueue # <<>> /\ Head(ioQueue).fn = "connectEstablished"
      BY <1>1, QueueTypes DEF RunEstablished, Runs
    <2>2. Has(ioQueue, "connectEstablished")
      BY <2>1, TailHas
    <2>3. status_ = "kConnecting" /\ ioQueue = <<Fn("connectEstablished")>>
      BY <2>2 DEF ConnInv, Young
    <2>4. ioQueue' = <<>>
      BY <1>1, <2>3 DEF RunEstablished
    <2>5. connectionsMap_ \in BOOLEAN /\ (serverAlive => connectionsMap_)
      BY <2>3 DEF ConnInv, Young, ConnTypeOK
    <2> QED
      BY <1>1, <2>3, <2>4, <2>5, EstablishedKeeps DEF RunEstablished, lifeVars
  <1>2. CASE NewConnection /\ setup.oneLoop
    <2>1. status_ = "none" /\ ioQueue' = <<>> /\ connectionsMap_' = TRUE
      BY <1>2 DEF NewConnection, ConnInv, Young
    <2> QED
      BY <1>2, <2>1, EstablishedKeeps DEF NewConnection
  <1>3. CASE NewConnection /\ ~ setup.oneLoop
    <2>1. /\ status_ = "none" /\ ioQueue = <<>>
          /\ ioQueue' = Append(ioQueue, Fn("connectEstablished"))
          /\ status_' = "kConnecting" /\ connectionsMap_' = TRUE
          /\ UNCHANGED <<chanVars, iopc, dataVars, serverAlive, baseQueue, downs, destroys, revived,
                         threadVars, envVars>>
      BY <1>3 DEF NewConnection, ConnInv, Young
    <2>2. Fn("connectEstablished") \in Bound
      BY FnIsBound
    <2>3. ioQueue' = <<Fn("connectEstablished")>> /\ ioQueue' \in Seq(Bound)
      BY <2>1, <2>2
    <2>4. ioQueue' \in Seq(Functor)
      BY <2>3, BoundIsFunctor
    <2> USE DEF chanVars, dataVars, threadVars, envVars
    <2>5. ConnTypeOK' /\ Carries'
      BY <2>1, <2>3, <2>4 DEF ConnInv, ConnTypeOK, Carries
    <2>6. Young' /\ Live' /\ Dead' /\ Late'
      BY <2>1, <2>3 DEF ConnInv, Young, Live, Dead, Late
    <2>7. LossIsFinal' /\ WireInOrder' /\ FinIsLast'
      BY <2>1 DEF ConnInv, LossIsFinal, WireInOrder, FinIsLast, Broken
    <2> QED
      BY <2>5, <2>6, <2>7 DEF ConnInv
  <1> QED
    BY <1>1, <1>2, <1>3

\* The base loop removes the connection and queues its destruction.
LEMMA BaseLoopKeeps ==
    ASSUME ConnInv, BaseLoopRuns PROVE ConnInv'
  <1> USE DEF chanVars, dataVars, threadVars, envVars
  <1>1. /\ baseQueue # <<>> /\ serverAlive /\ baseQueue' = Tail(baseQueue)
        /\ connectionsMap_' = FALSE /\ ioQueue' = Append(ioQueue, Fn("connectDestroyed"))
        /\ UNCHANGED <<status_, chanVars, dataVars, serverAlive, downs, destroys, revived, iopc,
                       threadVars, envVars>>
    BY DEF BaseLoopRuns, RemoveConnectionInLoop
  <1>2. /\ status_ \in {"kConnected", "kDisconnecting", "kDisconnected"}
        /\ ~ Has(ioQueue, "connectEstablished")
    BY <1>1, Grown
  <1>3. ioQueue \in Seq(Bound) /\ baseQueue \in Seq({"removeConnectionInLoop"})
    BY QueueTypes DEF ConnInv, ConnTypeOK
  <1>4. Fn("connectDestroyed") \in Bound /\ Fn("connectDestroyed").fn = "connectDestroyed"
    BY FnIsBound
  <1>5. /\ ioQueue' \in Seq(Bound) /\ Has(ioQueue', "connectDestroyed")
        /\ ~ Has(ioQueue, "connectDestroyed") => Once(ioQueue')
    BY <1>1, <1>3, <1>4, AppendHas
  <1>6. ~ Has(ioQueue', "connectEstablished")
    BY <1>1, <1>2, <1>3, <1>4, AppendHas
  <1>7. ioQueue' \in Seq(Functor)
    BY <1>5, BoundIsFunctor
  <1>8. baseQueue' \in Seq({"removeConnectionInLoop"}) /\ (Len(baseQueue) = 1 => baseQueue' = <<>>)
    BY <1>1, <1>3
  <1>9. ConnTypeOK' /\ Carries'
    BY <1>1, <1>5, <1>7, <1>8 DEF ConnInv, ConnTypeOK, Carries
  <1>10. Young' /\ Live' /\ Late'
    BY <1>1, <1>2, <1>6 DEF ConnInv, Young, Live, Late
  <1>11. Dead'
    BY <1>1, <1>5, <1>8 DEF ConnInv, Dead
  <1>12. LossIsFinal' /\ WireInOrder' /\ FinIsLast'
    BY <1>1 DEF ConnInv, LossIsFinal, WireInOrder, FinIsLast, Broken
  <1> QED
    BY <1>9, <1>10, <1>11, <1>12 DEF ConnInv

\* ~TcpServer() drops the map.
LEMMA DestructKeeps ==
    ASSUME ConnInv, DestructServer PROVE ConnInv'
  <1> USE DEF ConnInv, DestructServer, chanVars, dataVars, threadVars, envVars
  <1>1. ConnTypeOK' /\ Carries'
    BY DEF ConnTypeOK, Carries
  <1>2. Young' /\ Live' /\ Late'
    BY DEF Young, Live, Late
  <1>3. Dead'
    BY DEF Dead
  <1>4. LossIsFinal' /\ WireInOrder' /\ FinIsLast'
    BY DEF LossIsFinal, WireInOrder, FinIsLast, Broken
  <1> QED
    BY <1>1, <1>2, <1>3, <1>4

\* connectDestroyed() is run once, on a closed connection, unless it was revived.
LEMMA DestroyedKeeps ==
    ASSUME ConnInv, RunDestroyed PROVE ConnInv'
  <1> USE DEF dataVars, threadVars, envVars
  <1>1. /\ ioQueue # <<>> /\ Head(ioQueue).fn = "connectDestroyed" /\ ioQueue' = Tail(ioQueue)
        /\ destroys' = destroys + 1 /\ chan' = "kNew" /\ events' = {}
        /\ \/ status_ = "kConnected" /\ status_' = "kDisconnected" /\ downs' = downs + 1
           \/ status_ # "kConnected" /\ UNCHANGED <<status_, downs>>
        /\ UNCHANGED <<dataVars, connectionsMap_, serverAlive, baseQueue, revived, iopc, threadVars,
                       envVars>>
    BY DEF RunDestroyed, Runs
  <1>2. /\ status_ \in {"kConnected", "kDisconnecting", "kDisconnected"}
        /\ ~ Has(ioQueue, "connectEstablished")
    BY <1>1, Grown
  <1>3. ioQueue \in Seq(Bound) /\ downs \in Nat /\ destroys \in Nat
    BY QueueTypes DEF ConnInv, ConnTypeOK
  <1>4. /\ ioQueue' \in Seq(Bound) /\ Has(ioQueue, "connectDestroyed")
        /\ Once(ioQueue) => ~ Has(ioQueue', "connectDestroyed")
    BY <1>1, <1>3, TailHas
  <1>5. ~ Has(ioQueue', "connectEstablished")
    BY <1>1, <1>2, <1>3, TailHas
  <1>6. ioQueue' \in Seq(Functor)
    BY <1>4, BoundIsFunctor
  <1>7. ~ revived => /\ status_ = "kDisconnected" /\ downs = 1 /\ destroys = 0 /\ baseQueue = <<>>
                     /\ ~ connectionsMap_ /\ Once(ioQueue)
    BY <1>2, <1>4 DEF ConnInv, Live, Dead
  <1>8. downs > 0
    BY <1>3, <1>7 DEF ConnInv, Late
  <1>9. ConnTypeOK' /\ Carries'
    BY <1>1, <1>3, <1>4, <1>6 DEF ConnInv, ConnTypeOK, Carries
  <1>10. Young' /\ Live' /\ Late'
    BY <1>1, <1>2, <1>3, <1>5, <1>7, <1>8 DEF Young, Live, Late
  <1>11. Dead'
    BY <1>1, <1>3, <1>4, <1>7 DEF Dead
  <1>12. LossIsFinal' /\ WireInOrder' /\ FinIsLast'
    BY <1>1, <1>3, <1>8 DEF ConnInv, LossIsFinal, WireInOrder, FinIsLast, Broken
  <1> QED
    BY <1>9, <1>10, <1>11, <1>12 DEF ConnInv

-----------------------------------------------------------------------------
(* The theorems.                                                           *)

\* Before newConnection() there is nothing to be wrong.
LEMMA ConnInitInv == ConnInit => ConnInv
  <1> SUFFICES ASSUME ConnInit PROVE ConnInv
    OBVIOUS
  <1> USE DEF ConnInit
  <1>1. setup.msgs \subseteq Msgs
    BY ConnAssumption DEF Setup
  <1>2. /\ ioQueue \in Seq(Functor) /\ ioQueue \in Seq(Bound) /\ Len(ioQueue) = 0
        /\ baseQueue \in Seq({"removeConnectionInLoop"})
        /\ outputBuffer_ \in Seq(Byte) /\ wire \in Seq(Byte) /\ sent \in Seq(Byte)
    OBVIOUS
  <1>3. ConnTypeOK
    BY <1>1, <1>2 DEF ConnTypeOK
  <1>4. Carries /\ Young /\ Live /\ Dead /\ Late
    BY <1>2 DEF Carries, Young, Live, Dead, Late, Has
  <1>5. IsPrefix(wire, sent) /\ wire \o outputBuffer_ = sent
    BY SMT DEF IsPrefix
  <1>6. LossIsFinal /\ WireInOrder /\ FinIsLast
    BY <1>5 DEF LossIsFinal, WireInOrder, FinIsLast
  <1> QED
    BY <1>3, <1>4, <1>6 DEF ConnInv

\* Every step of the server, the loop, the user code, a thread and the peer keeps it.
LEMMA ConnNextInv == ConnInv /\ [ConnNext]_connVars => ConnInv'
  <1> SUFFICES ASSUME ConnInv, [ConnNext]_connVars PROVE ConnInv'
    OBVIOUS
  <1>1. CASE NewConnection \/ RunEstablished
    BY <1>1, NewKeeps
  <1>2. CASE BaseLoopRuns \/ DestructServer
    BY <1>2, BaseLoopKeeps, DestructKeeps
  <1>3. CASE RunDestroyed \/ RunForceClose \/ HandleReadEnd
    BY <1>3, DestroyedKeeps, EndKeeps
  <1>4. CASE RunSend \/ HandleWrite \/ \E m \in Msgs : UserSends(m)
    BY <1>4, RunSendKeeps, WriteKeeps, UserSendKeeps
  <1>5. CASE RunShutdown \/ RunCallback \/ PeerEnds
    BY <1>5, RunShutdownKeeps, CallbackQuiet, PeerQuiet
  <1>6. CASE HandleReadData \/ UserReturns \/ \E t \in Threads : UserShares(t)
    BY <1>6, UserQuiet
  <1>7. CASE UserShutsDown \/ UserForceCloses \/ \E t \in Threads : ForceSets(t) \/ ShutdownSets(t)
    BY <1>7, DisconnectKeeps
  <1>8. CASE \E t \in Threads :
                \/ SendQueues(t) \/ ForceQueues(t) \/ ShutdownQueues(t)
                \/ ForceTests(t) \/ ShutdownTests(t) \/ Drops(t) \/ \E m \in Msgs : SendTests(t, m)
    BY <1>8, ThreadQuiet
  <1>9. CASE UNCHANGED connVars
    <2> USE <1>9 DEF connVars, chanVars, dataVars, lifeVars, threadVars, envVars
    <2>1. ConnTypeOK' /\ Carries' /\ Young' /\ Live' /\ Dead' /\ Late'
      BY DEF ConnInv, ConnTypeOK, Carries, Young, Live, Dead, Late
    <2>2. LossIsFinal' /\ WireInOrder' /\ FinIsLast'
      BY DEF ConnInv, LossIsFinal, WireInOrder, FinIsLast, Broken
    <2> QED
      BY <2>1, <2>2 DEF ConnInv
  <1> QED
    BY <1>1, <1>2, <1>3, <1>4, <1>5, <1>6, <1>7, <1>8, <1>9
       DEF ConnNext, RunFunctor, UserStep, CallStep

\* The invariant holds whatever the server, the user code and the threads do.
THEOREM ConnInvariant == ConnSpec => []ConnInv
  <1> QED
    BY ConnInitInv, ConnNextInv, PTL DEF ConnSpec

\* The byte stream is in order: direct writes, short writes and handleWrite() never
\* overtake one another.
THEOREM WireAlwaysInOrder == ConnSpec => []WireInOrder
  <1>1. ConnInv => WireInOrder
    BY DEF ConnInv
  <1> QED
    BY <1>1, ConnInvariant, PTL

\* shutdown() never closes the write side over pending output.
THEOREM FinIsAlwaysLast == ConnSpec => []FinIsLast
  <1>1. ConnInv => FinIsLast
    BY DEF ConnInv
  <1> QED
    BY <1>1, ConnInvariant, PTL

\* Types, and: a connection waits for EPOLLOUT exactly while it has pending output, and is
\* in epoll exactly while it waits for something.
THEOREM PendingIsAlwaysWatched == ConnSpec => []PendingIsWatched
  <1>1. ConnInv => PendingIsWatched
    <2> SUFFICES ASSUME ConnInv PROVE PendingIsWatched
      OBVIOUS
    <2>1. ConnTypeOK
      BY DEF ConnInv
    <2>2. ASSUME ~ revived PROVE chan = "kAdded" <=> events # {}
      BY <2>2 DEF ConnInv, ConnTypeOK, Young, Live, Dead
    <2>3. ASSUME ~ revived, status_ \in {"kConnected", "kDisconnecting"}
          PROVE  "write" \in events <=> outputBuffer_ # <<>>
      BY <2>3 DEF ConnInv, Live
    <2> QED
      BY <2>1, <2>2, <2>3 DEF PendingIsWatched
  <1> QED
    BY <1>1, ConnInvariant, PTL

\* A connection is closed once and destroyed once, after the server has removed it.
THEOREM DestroyedAlwaysOnce == ConnSpec => []DestroyedOnce
  <1>1. ConnInv => DestroyedOnce
    <2> SUFFICES ASSUME ConnInv, ~ revived
                 PROVE  /\ downs <= 1 /\ destroys <= 1
                        /\ destroys = 1 => downs = 1 /\ ~ connectionsMap_
                        /\ baseQueue # <<>> /\ serverAlive => connectionsMap_
      BY DEF DestroyedOnce
    <2>1. CASE status_ \in {"none", "kConnecting"}
      BY <2>1 DEF ConnInv, Young
    <2>2. CASE status_ \in {"kConnected", "kDisconnecting"}
      BY <2>2 DEF ConnInv, Live
    <2>3. CASE status_ = "kDisconnected"
      BY <2>3 DEF ConnInv, Dead
    <2> QED
      BY <2>1, <2>2, <2>3 DEF ConnInv, ConnTypeOK
  <1> QED
    BY <1>1, ConnInvariant, PTL

\* A connection nobody refers to any more has been taken out of epoll and destroyed.
THEOREM EndIsAlwaysClean == ConnSpec => []CleanEnd
  <1>1. ConnInv => CleanEnd
    <2> SUFFICES ASSUME ConnInv, status_ # "none", ~ Alive, serverAlive, ~ revived
                 PROVE  chan = "kNew" /\ destroys >= 1
      BY DEF CleanEnd
    <2>1. ~ connectionsMap_ /\ ~ Has(ioQueue, "connectDestroyed")
      BY DEF Alive, Has
    <2>2. status_ = "kDisconnected"
      BY <2>1 DEF ConnInv, ConnTypeOK, Young, Live
    <2>3. destroys = 1 /\ chan = "kNew"
      BY <2>1, <2>2 DEF ConnInv, Dead
    <2> QED
      BY <2>3
  <1> QED
    BY <1>1, ConnInvariant, PTL
=============================================================================
