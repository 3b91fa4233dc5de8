---------------------------- MODULE LoopIoProofs ----------------------------
(***************************************************************************)
(* What a loop does I/O with: TLAPS proofs about Epoll, for any channels   *)
(* and fds, and about Buffer, for every size of the prepend area and of    *)
(* the initial buffer, and data of every length.  For Epoll one invariant  *)
(* and a lemma for each operation.  For Buffer first what copying and      *)
(* resizing do to a vector and two indices, then the same for each         *)
(* operation of the object, then the theorems.                             *)
(***************************************************************************)
EXTENDS Epoll, Buffer, SequenceTheorems, TLAPS

-----------------------------------------------------------------------------
(* Epoll: the inductive invariant.                                         *)

\* Destroyed channels carry no state.
GoneIsBlank ==
    \A c \in Channels \ live : status_[c] = "kNew" /\ events_[c] = {} /\ ~ addedToEpoll_[c]

\* A channel epoll knows is flagged as added, which ~Channel() asserts against.
Flagged == \A c \in Channels : status_[c] # "kNew" => addedToEpoll_[c]

\* The channels left in this round are active, registered and not current.
Round ==
    /\ todo \subseteq activeChannels_
    /\ currentActiveChannel_ \notin todo
    /\ \A c \in todo : status_[c] # "kNew"
    /\ ~ eventHandling_ => todo = {} /\ currentActiveChannel_ = NoChannel

EpollInv ==
    /\ EpollTypeOK
    /\ StatusMatchesEpoll /\ InterestIsCurrent /\ NoDanglingChannel
    /\ GoneIsBlank /\ Flagged /\ Round

\* Nothing is constructed or registered at first.
LEMMA EpollInitInv ==
    ASSUME EpollInit
    PROVE  EpollInv
<1> USE ChannelAssumption
<1>1. callbacks \in Seq(Callbacks)
  BY DEF EpollInit
<1>2. EpollTypeOK
  BY <1>1 DEF EpollInit, EpollTypeOK, Statuses
<1>3. StatusMatchesEpoll /\ InterestIsCurrent /\ NoDanglingChannel
  BY DEF EpollInit, StatusMatchesEpoll, InterestIsCurrent, NoDanglingChannel
<1>4. GoneIsBlank /\ Flagged /\ Round
  BY DEF EpollInit, GoneIsBlank, Flagged, Round
<1> QED
  BY <1>2, <1>3, <1>4 DEF EpollInv

\* A new Channel starts unknown to epoll, whoever has its fd.
LEMMA ConstructInv ==
    ASSUME EpollInv, NEW c \in Channels, Construct(c)
    PROVE  EpollInv'
<1> USE ChannelAssumption
<1>1. /\ c \notin live /\ live' = live \cup {c}
      /\ UNCHANGED <<events_, status_, addedToEpoll_, channelMap_, kernelPtr, kernelEvents,
                     handling, activeChannels_, todo, revents, currentActiveChannel_,
                     callbacks, eventHandling_>>
  BY DEF Construct, dispatchVars
<1>2. EpollTypeOK'
  BY <1>1 DEF EpollInv, EpollTypeOK
<1>3. channelMap_[Fd[c]] # c /\ kernelPtr[Fd[c]] # c /\ status_[c] = "kNew"
  BY <1>1 DEF EpollInv, EpollTypeOK, NoDanglingChannel, GoneIsBlank
<1>4. StatusMatchesEpoll' /\ InterestIsCurrent'
  BY <1>1, <1>3 DEF EpollInv, StatusMatchesEpoll, InterestIsCurrent
<1>5. NoDanglingChannel' /\ GoneIsBlank' /\ Flagged' /\ Round'
  BY <1>1 DEF EpollInv, NoDanglingChannel, GoneIsBlank, Flagged, Round
<1> QED
  BY <1>2, <1>4, <1>5 DEF EpollInv

\* An epoll_ctl for c's fd with c's new events leaves the kernel up to date.
LEMMA InterestKept ==
    ASSUME EpollTypeOK, InterestIsCurrent, NEW c \in Channels, NEW ev,
           NEW p \in {c, NoChannel},
           events_' = [events_ EXCEPT ![c] = ev],
           kernelPtr' = [kernelPtr EXCEPT ![Fd[c]] = p],
           kernelEvents' = [kernelEvents EXCEPT ![Fd[c]] = IF p = c THEN ev ELSE {}],
           \A f \in Fds \ {Fd[c]} : kernelPtr[f] # c
    PROVE  InterestIsCurrent'
<1> USE ChannelAssumption
<1> SUFFICES ASSUME NEW f \in Fds
             PROVE  kernelEvents'[f] =
                        IF kernelPtr'[f] = NoChannel THEN {} ELSE events_'[kernelPtr'[f]]
  BY DEF InterestIsCurrent
<1>1. CASE f = Fd[c]
  <2>1. kernelPtr'[f] = p /\ kernelEvents'[f] = (IF p = c THEN ev ELSE {}) /\ events_'[c] = ev
    BY <1>1 DEF EpollTypeOK
  <2> QED
    BY <2>1
<1>2. CASE f # Fd[c]
  <2>1. /\ kernelPtr'[f] = kernelPtr[f] /\ kernelEvents'[f] = kernelEvents[f]
        /\ kernelPtr[f] # c /\ kernelPtr[f] \in Channels \cup {NoChannel}
    BY <1>2 DEF EpollTypeOK
  <2>2. kernelPtr[f] # NoChannel => events_'[kernelPtr[f]] = events_[kernelPtr[f]]
    BY <2>1 DEF EpollTypeOK
  <2> QED
    BY <2>1, <2>2 DEF InterestIsCurrent
<1> QED
  BY <1>1, <1>2

\* enable/disable of a live channel keeps map, kernel and status in step.
LEMMA UpdateInv ==
    ASSUME EpollInv, NEW c \in Channels, NEW ev \in SUBSET Events, Update(c, ev)
    PROVE  EpollInv'
<1> USE ChannelAssumption
<1>1. /\ c \in live
      /\ events_' = [events_ EXCEPT ![c] = ev]
      /\ addedToEpoll_' = [addedToEpoll_ EXCEPT ![c] = TRUE]
      /\ UNCHANGED <<live, handling, activeChannels_, todo, revents, currentActiveChannel_,
                     callbacks, eventHandling_>>
  BY DEF Update, dispatchVars
<1>2. Fd[c] \in Fds
  OBVIOUS
<1>3. /\ channelMap_[Fd[c]] \in {c, NoChannel} /\ kernelPtr[Fd[c]] \in {c, NoChannel}
      /\ \A d \in live : d # c /\ Fd[d] = Fd[c] => status_[d] = "kNew"
      /\ \A f \in Fds \ {Fd[c]} : channelMap_[f] # c /\ kernelPtr[f] # c
  <2>1. status_[c] \in Statuses
    BY DEF EpollInv, EpollTypeOK
  <2>2. channelMap_[Fd[c]] \in {c, NoChannel}
    BY <1>1, <2>1 DEF EpollInv, StatusMatchesEpoll, Statuses, Update
  <2>3. kernelPtr[Fd[c]] \in {c, NoChannel}
    BY <1>2, <2>2 DEF EpollInv, NoDanglingChannel
  <2>4. ASSUME NEW d \in live, d # c, Fd[d] = Fd[c]
        PROVE  status_[d] = "kNew"
    <3>1. d \in Channels /\ status_[d] \in Statuses
      BY DEF EpollInv, EpollTypeOK
    <3> QED
      BY <2>2, <2>4, <3>1 DEF EpollInv, StatusMatchesEpoll, Statuses
  <2>5. \A f \in Fds \ {Fd[c]} : channelMap_[f] # c /\ kernelPtr[f] # c
    BY DEF EpollInv, NoDanglingChannel
  <2> QED
    BY <2>2, <2>3, <2>4, <2>5
<1>4. CASE /\ channelMap_' = [channelMap_ EXCEPT ![Fd[c]] = c]
           /\ status_' = [status_ EXCEPT ![c] = "kAdded"]
           /\ Watch(c, ev)
  <2>1. EpollTypeOK'
    BY <1>1, <1>2, <1>4 DEF EpollInv, EpollTypeOK, Watch, Statuses
  <2>2. StatusMatchesEpoll'
    BY <1>1, <1>2, <1>3, <1>4 DEF EpollInv, EpollTypeOK, Watch, StatusMatchesEpoll
  <2>5. InterestIsCurrent'
    <3>1. /\ kernelPtr' = [kernelPtr EXCEPT ![Fd[c]] = c]
          /\ kernelEvents' = [kernelEvents EXCEPT ![Fd[c]] = IF c = c THEN ev ELSE {}]
      BY <1>4 DEF Watch
    <3>2. events_' = [events_ EXCEPT ![c] = ev]
      BY <1>1
    <3>3. \A f \in Fds \ {Fd[c]} : kernelPtr[f] # c
      BY <1>3
    <3> QED
      BY <3>1, <3>2, <3>3, InterestKept DEF EpollInv
  <2>3. NoDanglingChannel'
    BY <1>1, <1>2, <1>4 DEF EpollInv, EpollTypeOK, Watch, NoDanglingChannel
  <2>4. GoneIsBlank' /\ Flagged' /\ Round'
    BY <1>1, <1>2, <1>4 DEF EpollInv, EpollTypeOK, Watch, GoneIsBlank, Flagged, Round
  <2> QED
    BY <2>1, <2>2, <2>3, <2>4, <2>5 DEF EpollInv
<1>5. CASE /\ status_[c] = "kAdded" /\ ev # {}
           /\ UNCHANGED <<channelMap_, status_>>
           /\ Watch(c, ev)
  <2>1. EpollTypeOK'
    BY <1>1, <1>2, <1>5 DEF EpollInv, EpollTypeOK, Watch
  <2>2. StatusMatchesEpoll'
    BY <1>1, <1>2, <1>3, <1>5 DEF EpollInv, EpollTypeOK, Watch, StatusMatchesEpoll
  <2>5. InterestIsCurrent'
    <3>1. /\ kernelPtr' = [kernelPtr EXCEPT ![Fd[c]] = c]
          /\ kernelEvents' = [kernelEvents EXCEPT ![Fd[c]] = IF c = c THEN ev ELSE {}]
      BY <1>5 DEF Watch
    <3>2. events_' = [events_ EXCEPT ![c] = ev]
      BY <1>1
    <3>3. \A f \in Fds \ {Fd[c]} : kernelPtr[f] # c
      BY <1>3
    <3> QED
      BY <3>1, <3>2, <3>3, InterestKept DEF EpollInv
  <2>3. NoDanglingChannel'
    BY <1>1, <1>2, <1>5 DEF EpollInv, EpollTypeOK, Watch, NoDanglingChannel, StatusMatchesEpoll
  <2>4. GoneIsBlank' /\ Flagged' /\ Round'
    BY <1>1, <1>2, <1>5 DEF EpollInv, EpollTypeOK, Watch, GoneIsBlank, Flagged, Round
  <2> QED
    BY <2>1, <2>2, <2>3, <2>4, <2>5 DEF EpollInv
<1>6. CASE /\ status_[c] = "kAdded" /\ ev = {}
           /\ UNCHANGED channelMap_
           /\ Unwatch(c)
           /\ status_' = [status_ EXCEPT ![c] = "kDismissed"]
  <2>1. EpollTypeOK'
    BY <1>1, <1>2, <1>6 DEF EpollInv, EpollTypeOK, Unwatch, Statuses
  <2>2. StatusMatchesEpoll'
    BY <1>1, <1>2, <1>3, <1>6 DEF EpollInv, EpollTypeOK, Unwatch, StatusMatchesEpoll
  <2>5. InterestIsCurrent'
    <3>1. /\ kernelPtr' = [kernelPtr EXCEPT ![Fd[c]] = NoChannel]
          /\ kernelEvents' = [kernelEvents EXCEPT ![Fd[c]] = IF NoChannel = c THEN ev ELSE {}]
      BY <1>6 DEF Unwatch
    <3>2. events_' = [events_ EXCEPT ![c] = ev]
      BY <1>1
    <3>3. \A f \in Fds \ {Fd[c]} : kernelPtr[f] # c
      BY <1>3
    <3> QED
      BY <3>1, <3>2, <3>3, InterestKept DEF EpollInv
  <2>3. NoDanglingChannel'
    BY <1>1, <1>2, <1>6 DEF EpollInv, EpollTypeOK, Unwatch, NoDanglingChannel
  <2>4. GoneIsBlank' /\ Flagged' /\ Round'
    BY <1>1, <1>2, <1>6 DEF EpollInv, EpollTypeOK, Unwatch, GoneIsBlank, Flagged, Round
  <2> QED
    BY <2>1, <2>2, <2>3, <2>4, <2>5 DEF EpollInv
<1>7. ASSUME status_[c] = "kDismissed"
      PROVE  channelMap_ = [channelMap_ EXCEPT ![Fd[c]] = c]
  BY <1>1, <1>2, <1>7 DEF EpollInv, EpollTypeOK, StatusMatchesEpoll
<1>8. status_[c] \in Statuses
  BY DEF EpollInv, EpollTypeOK
<1> QED
  BY <1>4, <1>5, <1>6, <1>7, <1>8 DEF Update, UpdateChannel, Statuses

\* remove() makes epoll forget the channel entirely.
LEMMA RemoveInv ==
    ASSUME EpollInv, NEW c \in Channels, Remove(c)
    PROVE  EpollInv'
<1> USE ChannelAssumption
<1>1. /\ c \in live /\ events_[c] = {} /\ status_[c] # "kNew" /\ Fd[c] \in Fds
      /\ UserCode /\ (eventHandling_ => (currentActiveChannel_ = c \/ c \notin activeChannels_))
      /\ addedToEpoll_' = [addedToEpoll_ EXCEPT ![c] = FALSE]
      /\ channelMap_' = [channelMap_ EXCEPT ![Fd[c]] = NoChannel]
      /\ status_' = [status_ EXCEPT ![c] = "kNew"]
      /\ UNCHANGED <<live, events_, handling, activeChannels_, todo, revents,
                     currentActiveChannel_, callbacks, eventHandling_>>
  BY DEF Remove, dispatchVars
<1>2. /\ kernelPtr' = [kernelPtr EXCEPT ![Fd[c]] = NoChannel]
      /\ kernelEvents' = [kernelEvents EXCEPT ![Fd[c]] = {}]
  <2>1. CASE status_[c] = "kAdded"
    BY <2>1 DEF Remove, Unwatch
  <2>2. CASE status_[c] # "kAdded"
    <3>1. kernelPtr[Fd[c]] = NoChannel /\ kernelEvents[Fd[c]] = {}
      BY <1>1, <2>2 DEF EpollInv, EpollTypeOK, Statuses, StatusMatchesEpoll, InterestIsCurrent
    <3> QED
      BY <1>1, <2>2, <3>1 DEF Remove, EpollInv, EpollTypeOK
  <2> QED
    BY <2>1, <2>2
<1>3. EpollTypeOK'
  BY <1>1, <1>2 DEF EpollInv, EpollTypeOK, Statuses
<1>4. /\ channelMap_[Fd[c]] = c
      /\ \A f \in Fds \ {Fd[c]} : channelMap_[f] # c /\ kernelPtr[f] # c
  BY <1>1 DEF EpollInv, EpollTypeOK, Statuses, StatusMatchesEpoll, NoDanglingChannel
<1>5. StatusMatchesEpoll'
  <2>1. ASSUME NEW d \in live, d # c, Fd[d] = Fd[c]
        PROVE  status_[d] = "kNew"
    <3>1. d \in Channels /\ status_[d] \in Statuses
      BY DEF EpollInv, EpollTypeOK
    <3> QED
      BY <1>4, <2>1, <3>1 DEF EpollInv, StatusMatchesEpoll, Statuses
  <2> QED
    BY <1>1, <1>2, <1>4, <2>1 DEF EpollInv, EpollTypeOK, StatusMatchesEpoll
<1>6. InterestIsCurrent'
  <2>1. events_' = [events_ EXCEPT ![c] = {}]
    BY <1>1 DEF EpollInv, EpollTypeOK
  <2>2. kernelEvents' = [kernelEvents EXCEPT ![Fd[c]] = IF NoChannel = c THEN {} ELSE {}]
    BY <1>2
  <2> QED
    BY <1>2, <1>4, <2>1, <2>2, InterestKept DEF EpollInv
<1>7. NoDanglingChannel'
  BY <1>1, <1>2 DEF EpollInv, EpollTypeOK, NoDanglingChannel
<1>8. GoneIsBlank' /\ Flagged'
  BY <1>1, <1>2 DEF EpollInv, EpollTypeOK, GoneIsBlank, Flagged
<1>9. c \notin todo
  BY <1>1 DEF EpollInv, Round
<1>10. Round'
  BY <1>1, <1>9 DEF EpollInv, EpollTypeOK, Round
<1> QED
  BY <1>3, <1>5, <1>6, <1>7, <1>8, <1>10 DEF EpollInv

\* A destroyed channel is neither registered nor waiting to be handled.
LEMMA DestructInv ==
    ASSUME EpollInv, NEW c \in Channels, Destruct(c)
    PROVE  EpollInv'
<1> USE ChannelAssumption
<1>1. /\ c \in live /\ ~ handling[c] /\ ~ addedToEpoll_[c] /\ Fd[c] \in Fds
      /\ live' = live \ {c}
      /\ events_' = [events_ EXCEPT ![c] = {}]
      /\ status_' = [status_ EXCEPT ![c] = "kNew"]
      /\ UNCHANGED <<addedToEpoll_, channelMap_, kernelPtr, kernelEvents, handling,
                     activeChannels_, todo, revents, currentActiveChannel_,
                     callbacks, eventHandling_>>
  BY DEF Destruct, dispatchVars
<1>2. status_[c] = "kNew" /\ c \notin todo /\ currentActiveChannel_ # c
  BY <1>1 DEF EpollInv, EpollTypeOK, Flagged, Round
<1>3. /\ channelMap_[Fd[c]] # c /\ kernelPtr[Fd[c]] # c
      /\ \A f \in Fds : channelMap_[f] # c /\ kernelPtr[f] # c
  BY <1>1, <1>2 DEF EpollInv, StatusMatchesEpoll, NoDanglingChannel
<1>4. EpollTypeOK'
  BY <1>1 DEF EpollInv, EpollTypeOK, Statuses
<1>5. StatusMatchesEpoll' /\ GoneIsBlank' /\ Flagged' /\ Round'
  BY <1>1, <1>2 DEF EpollInv, EpollTypeOK, StatusMatchesEpoll, GoneIsBlank, Flagged, Round
<1>7. InterestIsCurrent'
  BY <1>1, <1>3 DEF EpollInv, EpollTypeOK, InterestIsCurrent
<1>6. NoDanglingChannel'
  BY <1>1, <1>2, <1>3 DEF EpollInv, EpollTypeOK, NoDanglingChannel
<1> QED
  BY <1>4, <1>5, <1>6, <1>7 DEF EpollInv

\* Every channel the kernel reports is live and registered.
LEMMA WaitInv ==
    ASSUME EpollInv, Wait
    PROVE  EpollInv'
<1> USE ChannelAssumption
<1>1. /\ ~ eventHandling_ /\ eventHandling_' = TRUE
      /\ UNCHANGED <<live, events_, status_, addedToEpoll_, channelMap_, kernelPtr,
                     kernelEvents, handling, currentActiveChannel_, callbacks>>
  BY DEF Wait, chanVars
<1>2. PICK F \in SUBSET {f \in Fds : kernelPtr[f] # NoChannel} :
        \E R \in [F -> SUBSET Revents \ {{}}] :
            /\ activeChannels_' = {kernelPtr[f] : f \in F}
            /\ todo' = activeChannels_'
            /\ revents' = [c \in Channels |->
                    IF \E f \in F : kernelPtr[f] = c
                    THEN R[CHOOSE f \in F : kernelPtr[f] = c] ELSE {}]
  BY DEF Wait
<1>3. PICK R \in [F -> SUBSET Revents \ {{}}] :
            /\ activeChannels_' = {kernelPtr[f] : f \in F}
            /\ todo' = activeChannels_'
            /\ revents' = [c \in Channels |->
                    IF \E f \in F : kernelPtr[f] = c
                    THEN R[CHOOSE f \in F : kernelPtr[f] = c] ELSE {}]
  BY <1>2
<1>4. revents' \in [Channels -> SUBSET Revents]
  <2>1. ASSUME NEW c \in Channels, \E f \in F : kernelPtr[f] = c
        PROVE  (CHOOSE f \in F : kernelPtr[f] = c) \in F
    BY <2>1
  <2> QED
    BY <1>3, <2>1
<1>5. \A f \in F : kernelPtr[f] \in live /\ status_[kernelPtr[f]] # "kNew"
  BY DEF EpollInv, EpollTypeOK, NoDanglingChannel, StatusMatchesEpoll
<1>6. todo' \subseteq live /\ \A c \in todo' : status_[c] # "kNew"
  BY <1>3, <1>5
<1>7. EpollTypeOK'
  BY <1>1, <1>3, <1>4, <1>6 DEF EpollInv, EpollTypeOK
<1>8. StatusMatchesEpoll' /\ InterestIsCurrent' /\ GoneIsBlank' /\ Flagged'
  BY <1>1 DEF EpollInv, StatusMatchesEpoll, InterestIsCurrent, GoneIsBlank, Flagged
<1>9. NoDanglingChannel'
  BY <1>1, <1>6 DEF EpollInv, NoDanglingChannel
<1>10. Round'
  <2>1. currentActiveChannel_ = NoChannel
    BY <1>1 DEF EpollInv, Round
  <2>2. NoChannel \notin todo'
    BY <1>6 DEF EpollInv, EpollTypeOK
  <2> QED
    BY <1>1, <1>3, <1>6, <2>1, <2>2 DEF Round
<1> QED
  BY <1>7, <1>8, <1>9, <1>10 DEF EpollInv

\* What handleEventWithGuard() invokes, and what is left of it, are callbacks.
LEMMA InvokedType ==
    ASSUME NEW R
    PROVE  Invoked(R) \in Seq(Callbacks)
<1> DEFINE If(b, cb) == IF b THEN <<cb>> ELSE <<>>
<1>1. ASSUME NEW b, NEW cb \in Callbacks
      PROVE  If(b, cb) \in Seq(Callbacks)
  OBVIOUS
<1>2. {"close", "error", "read", "write"} \subseteq Callbacks
  BY DEF Callbacks
<1>3. ASSUME NEW s \in Seq(Callbacks), NEW t \in Seq(Callbacks)
      PROVE  s \o t \in Seq(Callbacks)
  OBVIOUS
<1>4. Invoked(R) = If("HUP" \in R /\ "IN" \notin R, "close") \o If("ERR" \in R, "error")
                   \o If(R \cap {"IN", "PRI"} # {}, "read") \o If("OUT" \in R, "write")
  BY DEF Invoked
<1> HIDE DEF If
<1> QED
  BY <1>1, <1>2, <1>3, <1>4

\* One step of a round: begin or end a channel, end the round.
LEMMA DispatchInv ==
    ASSUME EpollInv,
           \/ \E c \in Channels : HandleEvent(c)
           \/ CallbackReturns \/ HandleEventReturns \/ RoundEnds
    PROVE  EpollInv'
<1> USE ChannelAssumption
<1>1. UNCHANGED <<live, events_, status_, addedToEpoll_, channelMap_, kernelPtr, kernelEvents>>
  BY DEF HandleEvent, CallbackReturns, HandleEventReturns, RoundEnds, chanVars
<1>2. StatusMatchesEpoll' /\ InterestIsCurrent' /\ GoneIsBlank' /\ Flagged'
  BY <1>1 DEF EpollInv, StatusMatchesEpoll, InterestIsCurrent, GoneIsBlank, Flagged
<1>3. callbacks' \in Seq(Callbacks)
  <2>1. callbacks \in Seq(Callbacks)
    BY DEF EpollInv, EpollTypeOK
  <2>2. CASE CallbackReturns
    BY <2>1, <2>2 DEF CallbackReturns
  <2> QED
    BY <2>1, <2>2, InvokedType DEF HandleEvent, HandleEventReturns, RoundEnds
<1>4. ASSUME NEW c \in Channels, HandleEvent(c)
      PROVE  EpollTypeOK' /\ NoDanglingChannel' /\ Round'
  BY <1>1, <1>3, <1>4 DEF EpollInv, EpollTypeOK, HandleEvent, NoDanglingChannel, Round
<1>5. CASE CallbackReturns
  BY <1>1, <1>2, <1>3, <1>5 DEF EpollInv, EpollTypeOK, CallbackReturns, NoDanglingChannel, Round
<1>6. CASE HandleEventReturns
  BY <1>1, <1>2, <1>3, <1>6 DEF EpollInv, EpollTypeOK, HandleEventReturns, NoDanglingChannel, Round
<1>7. CASE RoundEnds
  BY <1>1, <1>2, <1>3, <1>7 DEF EpollInv, EpollTypeOK, RoundEnds, NoDanglingChannel, Round
<1> QED
  BY <1>2, <1>4, <1>5, <1>6, <1>7 DEF EpollInv

-----------------------------------------------------------------------------
\* EpollInv holds in every reachable state.
LEMMA EpollInvariance == EpollSpec => []EpollInv
<1>1. ASSUME EpollInv, [EpollNext]_epollVars
      PROVE  EpollInv'
  <2>1. ASSUME NEW c \in Channels, UserStep(c)
        PROVE  EpollInv'
    <3>1. events_[c] \in SUBSET Events
      BY <1>1 DEF EpollInv, EpollTypeOK
    <3>2. ASSUME NEW ev \in SUBSET Events, Update(c, ev)
          PROVE  EpollInv'
      BY <1>1, <3>2, UpdateInv
    <3>3. /\ events_[c] \cup {"read"} \in SUBSET Events
          /\ events_[c] \ {"read"} \in SUBSET Events
          /\ events_[c] \cup {"write"} \in SUBSET Events
          /\ events_[c] \ {"write"} \in SUBSET Events
          /\ {} \in SUBSET Events
      BY <3>1 DEF Events
    <3> QED
      BY <1>1, <2>1, <3>2, <3>3, ConstructInv, DestructInv, RemoveInv
      DEF UserStep, EnableReading, DisableReading, EnableWriting, DisableWriting, DisableAll
  <2>2. CASE Wait
    BY <1>1, <2>2, WaitInv
  <2>3. CASE UNCHANGED epollVars
    BY <1>1, <2>3
    DEF EpollInv, EpollTypeOK, StatusMatchesEpoll, InterestIsCurrent, NoDanglingChannel,
        GoneIsBlank, Flagged, Round, epollVars, chanVars, dispatchVars
  <2> QED
    BY <1>1, <2>1, <2>2, <2>3, DispatchInv DEF EpollNext
<1> QED
  BY <1>1, EpollInitInv, PTL DEF EpollSpec

(***************************************************************************)
(* The types of Epoll's and Channel's fields hold in every reachable state *)
(***************************************************************************)
THEOREM EpollTypeCorrect == EpollSpec => []EpollTypeOK
  BY EpollInvariance, PTL DEF EpollInv

(***************************************************************************)
(* A channel's status_, Epoll's channelMap_ and the kernel's interest list *)
(* agree, whatever sequence of enable, disable and remove calls user code  *)
(* makes inside and outside callbacks.                                     *)
(***************************************************************************)
THEOREM StatusCorrect == EpollSpec => []StatusMatchesEpoll
  BY EpollInvariance, PTL DEF EpollInv

(***************************************************************************)
(* The kernel watches every registered fd for the channel's events_.       *)
(***************************************************************************)
THEOREM InterestCorrect == EpollSpec => []InterestIsCurrent
  BY EpollInvariance, PTL DEF EpollInv

(***************************************************************************)
(* The kernel, channelMap_ and the round in progress point to live         *)
(* channels only: loop() never calls handleEvent() on a destroyed Channel. *)
(***************************************************************************)
THEOREM NeverDangling == EpollSpec => []NoDanglingChannel
  BY EpollInvariance, PTL DEF EpollInv

-----------------------------------------------------------------------------
(* Buffer: its vector and its two indices.                                 *)

\* A vector and two indices in the order of the picture in Buffer.h.
InOrder(buf, r, w) ==
    /\ buf \in Seq(Byte) /\ r \in Nat /\ w \in Nat
    /\ r <= w /\ w <= Len(buf) /\ kCheapPrepend + kInitialSize <= Len(buf)

\* The bytes between them.
Data(buf, r, w) == SubSeq(buf, r + 1, w)

-----------------------------------------------------------------------------
(* Vectors.                                                                *)

\* A function on 1..n is a sequence of length n.
LEMMA SeqIntro ==
    ASSUME NEW S, NEW n \in Nat, NEW f \in [1..n -> S]
    PROVE  f \in Seq(S) /\ Len(f) = n
  BY SMT

\* resize() keeps the bytes there is room for.
LEMMA ResizedLemma ==
    ASSUME NEW buf \in Seq(Byte), NEW n \in Nat
    PROVE  /\ Resized(buf, n) \in Seq(Byte) /\ Len(Resized(buf, n)) = n
           /\ \A k \in 1..n : k <= Len(buf) => Resized(buf, n)[k] = buf[k]
<1>1. Resized(buf, n) \in [1..n -> Byte]
  BY BufferAssumption, LenProperties DEF Resized
<1>2. QED
  BY <1>1, SeqIntro, SMT DEF Resized

\* std::copy writes data and leaves the other bytes.
LEMMA CopiedLemma ==
    ASSUME NEW buf \in Seq(Byte), NEW i \in Nat, NEW data \in Seq(Byte),
           i + Len(data) <= Len(buf)
    PROVE  /\ Copied(buf, i, data) \in Seq(Byte) /\ Len(Copied(buf, i, data)) = Len(buf)
           /\ \A k \in 1..Len(buf) :
                 Copied(buf, i, data)[k] =
                     IF k \in i + 1..i + Len(data) THEN data[k - i] ELSE buf[k]
<1>1. Copied(buf, i, data) \in [1..Len(buf) -> Byte]
  BY LenProperties, SMT DEF Copied
<1>2. QED
  BY <1>1, SeqIntro, LenProperties, SMT DEF Copied

\* Length and elements of the readable bytes.
LEMMA DataLemma ==
    ASSUME NEW buf, NEW r, NEW w, InOrder(buf, r, w)
    PROVE  /\ Data(buf, r, w) \in Seq(Byte) /\ Len(Data(buf, r, w)) = w - r /\ w - r \in Nat
           /\ \A k \in 1..w - r : Data(buf, r, w)[k] = buf[r + k]
<1>0. r \in Nat /\ w \in Nat /\ r <= w /\ r + 1 \in Int /\ w \in Int
  BY DEF InOrder
<1>1. \A k \in r + 1..w : buf[k] \in Byte
  BY LenProperties DEF InOrder
<1>2. /\ Data(buf, r, w) \in Seq(Byte)
      /\ Len(Data(buf, r, w)) = IF r + 1 <= w THEN w - (r + 1) + 1 ELSE 0
      /\ \A k \in 1..w - (r + 1) + 1 : Data(buf, r, w)[k] = buf[r + 1 + k - 1]
  BY <1>0, <1>1, SubSeqProperties DEF Data
<1>3. Len(Data(buf, r, w)) = w - r /\ w - r \in Nat
  BY <1>0, <1>2
<1>4. ASSUME NEW k \in 1..w - r PROVE Data(buf, r, w)[k] = buf[r + k]
  <2>1. k \in 1..w - (r + 1) + 1 /\ r + 1 + k - 1 = r + k
    BY <1>0
  <2>2. QED
    BY <1>2, <2>1
<1>5. QED
  BY <1>2, <1>3, <1>4

\* Copying behind the write index and moving it appends.
LEMMA WriteLemma ==
    ASSUME NEW buf, NEW r, NEW w, InOrder(buf, r, w),
           NEW data \in Seq(Byte), w + Len(data) <= Len(buf)
    PROVE  /\ InOrder(Copied(buf, w, data), r, w + Len(data))
           /\ Data(Copied(buf, w, data), r, w + Len(data)) = Data(buf, r, w) \o data
<1> DEFINE c == Copied(buf, w, data)
           v == w + Len(data)
<1>1. /\ buf \in Seq(Byte) /\ r \in Nat /\ w \in Nat /\ r <= w /\ w <= Len(buf)
      /\ Len(data) \in Nat /\ Len(buf) \in Nat /\ v \in Nat
  BY LenProperties DEF InOrder
<1>2. /\ c \in Seq(Byte) /\ Len(c) = Len(buf)
      /\ \A k \in 1..Len(buf) : c[k] = IF k \in w + 1..w + Len(data) THEN data[k - w] ELSE buf[k]
  BY <1>1, CopiedLemma
<1> HIDE DEF c
<1>3. InOrder(c, r, v)
  BY <1>1, <1>2 DEF InOrder
<1>4. /\ Data(buf, r, w) \in Seq(Byte) /\ Len(Data(buf, r, w)) = w - r /\ w - r \in Nat
      /\ \A k \in 1..w - r : Data(buf, r, w)[k] = buf[r + k]
  BY DataLemma
<1>5. /\ Data(c, r, v) \in Seq(Byte) /\ Len(Data(c, r, v)) = v - r
      /\ \A k \in 1..v - r : Data(c, r, v)[k] = c[r + k]
  BY <1>3, DataLemma
<1>6. /\ Data(buf, r, w) \o data \in Seq(Byte)
      /\ Len(Data(buf, r, w) \o data) = v - r
      /\ \A k \in 1..v - r : (Data(buf, r, w) \o data)[k] =
            IF k <= w - r THEN Data(buf, r, w)[k] ELSE data[k - (w - r)]
  <2>1. w - r + Len(data) = v - r
    BY <1>1
  <2>2. QED
    <3> DEFINE d == Data(buf, r, w)
    <3>1. /\ d \o data \in Seq(Byte) /\ Len(d \o data) = Len(d) + Len(data)
          /\ \A k \in 1..Len(d) + Len(data) :
                (d \o data)[k] = IF k <= Len(d) THEN d[k] ELSE data[k - Len(d)]
      BY <1>4, ConcatProperties
    <3> HIDE DEF d
    <3>2. Len(d) = w - r
      BY <1>4 DEF d
    <3>3. QED
      BY <2>1, <3>1, <3>2 DEF d
<1>7. ASSUME NEW k \in 1..v - r PROVE Data(c, r, v)[k] = (Data(buf, r, w) \o data)[k]
  <2>1. r + k \in 1..Len(buf) /\ r + k - w = k - (w - r)
    BY <1>1
  <2>2. c[r + k] = IF k <= w - r THEN buf[r + k] ELSE data[k - (w - r)]
    <3>1. (r + k \in w + 1..w + Len(data)) <=> ~(k <= w - r)
      BY <1>1
    <3>2. c[r + k] = IF r + k \in w + 1..w + Len(data) THEN data[r + k - w] ELSE buf[r + k]
      BY <1>1, <1>2, <2>1
    <3>3. QED
      BY <2>1, <3>1, <3>2
  <2>3. k <= w - r => k \in 1..w - r
    BY <1>1
  <2>4. QED
    BY <1>4, <1>5, <1>6, <2>2, <2>3
<1>8. Data(c, r, v) = Data(buf, r, w) \o data
  BY <1>5, <1>6, <1>7, SeqEqual
<1>9. QED
  BY <1>3, <1>8 DEF c

\* Two vectors with the same bytes between their indices.
LEMMA SameData ==
    ASSUME NEW buf, NEW r, NEW w, InOrder(buf, r, w),
           NEW c, NEW q, NEW v, InOrder(c, q, v),
           v - q = w - r, \A k \in 1..w - r : c[q + k] = buf[r + k]
    PROVE  Data(c, q, v) = Data(buf, r, w)
<1>1. /\ Data(buf, r, w) \in Seq(Byte) /\ Len(Data(buf, r, w)) = w - r
      /\ \A k \in 1..w - r : Data(buf, r, w)[k] = buf[r + k]
  BY DataLemma
<1>2. /\ Data(c, q, v) \in Seq(Byte) /\ Len(Data(c, q, v)) = w - r
      /\ \A k \in 1..w - r : Data(c, q, v)[k] = c[q + k]
  BY DataLemma
<1>3. QED
  BY <1>1, <1>2, SeqEqual

\* A larger vector has the same bytes.
LEMMA GrowLemma ==
    ASSUME NEW buf, NEW r, NEW w, InOrder(buf, r, w), NEW n \in Nat, Len(buf) <= n
    PROVE  /\ InOrder(Resized(buf, n), r, w)
           /\ Data(Resized(buf, n), r, w) = Data(buf, r, w)
           /\ Len(Resized(buf, n)) = n
<1>1. /\ buf \in Seq(Byte) /\ r \in Nat /\ w \in Nat /\ r <= w /\ w <= Len(buf)
      /\ Len(buf) \in Nat /\ kCheapPrepend + kInitialSize <= Len(buf)
      /\ kCheapPrepend + kInitialSize \in Nat
  BY LenProperties, BufferAssumption DEF InOrder
<1>2. /\ Resized(buf, n) \in Seq(Byte) /\ Len(Resized(buf, n)) = n
      /\ \A k \in 1..n : k <= Len(buf) => Resized(buf, n)[k] = buf[k]
  BY <1>1, ResizedLemma
<1>3. InOrder(Resized(buf, n), r, w)
  BY <1>1, <1>2 DEF InOrder
<1>4. ASSUME NEW k \in 1..w - r PROVE Resized(buf, n)[r + k] = buf[r + k]
  <2>1. r + k \in 1..n /\ r + k <= Len(buf)
    BY <1>1
  <2>2. QED
    BY <1>2, <2>1
<1>5. QED
  BY <1>2, <1>3, <1>4, SameData

\* Bytes copied to another place of the vector.
LEMMA PlaceLemma ==
    ASSUME NEW buf, NEW r, NEW w, InOrder(buf, r, w),
           NEW q \in Nat, NEW v \in Nat, v = q + (w - r), v <= Len(buf)
    PROVE  /\ InOrder(Copied(buf, q, Data(buf, r, w)), q, v)
           /\ Data(Copied(buf, q, Data(buf, r, w)), q, v) = Data(buf, r, w)
           /\ Len(Copied(buf, q, Data(buf, r, w))) = Len(buf)
<1> DEFINE d == Data(buf, r, w)
           c == Copied(buf, q, d)
<1>1. /\ buf \in Seq(Byte) /\ r \in Nat /\ w \in Nat /\ r <= w /\ w <= Len(buf)
      /\ Len(buf) \in Nat
  BY LenProperties DEF InOrder
<1>2. /\ d \in Seq(Byte) /\ Len(d) = w - r /\ w - r \in Nat
      /\ \A k \in 1..w - r : d[k] = buf[r + k]
  BY DataLemma
<1> HIDE DEF d
<1>3. /\ c \in Seq(Byte) /\ Len(c) = Len(buf)
      /\ \A k \in 1..Len(buf) : c[k] = IF k \in q + 1..q + Len(d) THEN d[k - q] ELSE buf[k]
  BY <1>1, <1>2, CopiedLemma
<1> HIDE DEF c
<1>4. InOrder(c, q, v)
  BY <1>1, <1>3 DEF InOrder
<1>5. ASSUME NEW k \in 1..w - r PROVE c[q + k] = d[k]
  <2>1. q + k \in 1..Len(buf) /\ q + k \in q + 1..q + Len(d) /\ q + k - q = k
    BY <1>1, <1>2
  <2>2. QED
    BY <1>3, <2>1
<1>6. /\ Data(c, q, v) \in Seq(Byte) /\ Len(Data(c, q, v)) = w - r
      /\ \A k \in 1..w - r : Data(c, q, v)[k] = c[q + k]
  <2>1. v - q = w - r
    BY <1>1
  <2>2. QED
    BY <1>4, <2>1, DataLemma
<1>7. Data(c, q, v) = d
  BY <1>2, <1>5, <1>6, SeqEqual
<1>8. QED
  BY <1>3, <1>4, <1>7 DEF c, d

\* Copying in front of the read index and moving it prepends.
LEMMA FrontLemma ==
    ASSUME NEW buf, NEW r, NEW w, InOrder(buf, r, w),
           NEW data \in Seq(Byte), Len(data) <= r
    PROVE  /\ InOrder(Copied(buf, r - Len(data), data), r - Len(data), w)
           /\ Data(Copied(buf, r - Len(data), data), r - Len(data), w) = data \o Data(buf, r, w)
<1> DEFINE q == r - Len(data)
           c == Copied(buf, q, data)
           d == Data(buf, r, w)
<1>1. /\ buf \in Seq(Byte) /\ r \in Nat /\ w \in Nat /\ r <= w /\ w <= Len(buf)
      /\ Len(data) \in Nat /\ Len(buf) \in Nat
      /\ q \in Nat /\ q + Len(data) = r /\ q <= w
  BY LenProperties DEF InOrder
<1> HIDE DEF q
<1>2. /\ c \in Seq(Byte) /\ Len(c) = Len(buf)
      /\ \A k \in 1..Len(buf) : c[k] = IF k \in q + 1..q + Len(data) THEN data[k - q] ELSE buf[k]
  BY <1>1, CopiedLemma
<1> HIDE DEF c
<1>3. InOrder(c, q, w)
  BY <1>1, <1>2 DEF InOrder
<1>4. /\ d \in Seq(Byte) /\ Len(d) = w - r /\ \A k \in 1..w - r : d[k] = buf[r + k]
  BY DataLemma
<1>5. /\ Data(c, q, w) \in Seq(Byte) /\ Len(Data(c, q, w)) = w - q
      /\ \A k \in 1..w - q : Data(c, q, w)[k] = c[q + k]
  BY <1>3, DataLemma
<1> HIDE DEF d
<1>6. /\ data \o d \in Seq(Byte) /\ Len(data \o d) = w - q
      /\ \A k \in 1..w - q :
            (data \o d)[k] = IF k <= Len(data) THEN data[k] ELSE d[k - Len(data)]
  <2>1. /\ data \o d \in Seq(Byte) /\ Len(data \o d) = Len(data) + Len(d)
        /\ \A k \in 1..Len(data) + Len(d) :
              (data \o d)[k] = IF k <= Len(data) THEN data[k] ELSE d[k - Len(data)]
    BY <1>4, ConcatProperties
  <2>2. Len(data) + Len(d) = w - q
    BY <1>1, <1>4
  <2>3. QED
    BY <2>1, <2>2
<1>7. ASSUME NEW k \in 1..w - q PROVE Data(c, q, w)[k] = (data \o d)[k]
  <2>1. q + k \in 1..Len(buf) /\ q + k - q = k
    BY <1>1
  <2>2. c[q + k] = IF k <= Len(data) THEN data[k] ELSE buf[q + k]
    <3>1. (q + k \in q + 1..q + Len(data)) <=> k <= Len(data)
      BY <1>1
    <3>2. c[q + k] = IF q + k \in q + 1..q + Len(data) THEN data[q + k - q] ELSE buf[q + k]
      BY <1>1, <1>2, <2>1
    <3>3. QED
      BY <2>1, <3>1, <3>2
  <2>3. ~(k <= Len(data)) => d[k - Len(data)] = buf[q + k]
    <3>1. SUFFICES ASSUME ~(k <= Len(data)) PROVE d[k - Len(data)] = buf[q + k]
      OBVIOUS
    <3>2. k - Len(data) \in 1..w - r /\ r + (k - Len(data)) = q + k
      BY <1>1, <3>1
    <3>3. QED
      BY <1>4, <3>2
  <2>4. QED
    BY <1>5, <1>6, <2>2, <2>3
<1>8. Data(c, q, w) = data \o d
  BY <1>5, <1>6, <1>7, SeqEqual
<1>9. QED
  BY <1>3, <1>8 DEF c, d, q

\* Moving the read index drops bytes in front.
LEMMA DropLemma ==
    ASSUME NEW buf, NEW r, NEW w, InOrder(buf, r, w), NEW len \in Nat, len <= w - r
    PROVE  /\ InOrder(buf, r + len, w)
           /\ Data(buf, r + len, w) = SubSeq(Data(buf, r, w), len + 1, w - r)
<1> DEFINE d == Data(buf, r, w)
<1>1. buf \in Seq(Byte) /\ r \in Nat /\ w \in Nat /\ r <= w /\ w <= Len(buf)
  BY DEF InOrder
<1>2. InOrder(buf, r + len, w)
  BY <1>1 DEF InOrder
<1>3. /\ d \in Seq(Byte) /\ Len(d) = w - r /\ \A k \in 1..w - r : d[k] = buf[r + k]
  BY DataLemma
<1>4. /\ Data(buf, r + len, w) \in Seq(Byte) /\ Len(Data(buf, r + len, w)) = w - (r + len)
      /\ \A k \in 1..w - (r + len) : Data(buf, r + len, w)[k] = buf[r + len + k]
  BY <1>2, DataLemma
<1> HIDE DEF d
<1>5. /\ SubSeq(d, len + 1, w - r) \in Seq(Byte)
      /\ Len(SubSeq(d, len + 1, w - r)) = w - (r + len)
      /\ \A k \in 1..w - (r + len) : SubSeq(d, len + 1, w - r)[k] = d[len + k]
  <2>1. \A k \in len + 1..w - r : d[k] \in Byte
    BY <1>1, <1>3, ElementOfSeq
  <2>2. len + 1 \in Int /\ w - r \in Int
    BY <1>1
  <2>3. /\ SubSeq(d, len + 1, w - r) \in Seq(Byte)
        /\ Len(SubSeq(d, len + 1, w - r)) =
              IF len + 1 <= w - r THEN w - r - (len + 1) + 1 ELSE 0
        /\ \A k \in 1..w - r - (len + 1) + 1 :
              SubSeq(d, len + 1, w - r)[k] = d[len + 1 + k - 1]
    BY <2>1, <2>2, SubSeqProperties
  <2>4. ASSUME NEW k \in 1..w - (r + len)
        PROVE  SubSeq(d, len + 1, w - r)[k] = d[len + k]
    <3>1. k \in 1..w - r - (len + 1) + 1 /\ len + 1 + k - 1 = len + k
      BY <1>1
    <3>2. QED
      BY <2>3, <3>1
  <2>5. QED
    BY <1>1, <2>3, <2>4
<1>6. ASSUME NEW k \in 1..w - (r + len)
      PROVE  Data(buf, r + len, w)[k] = SubSeq(d, len + 1, w - r)[k]
  <2>1. len + k \in 1..w - r /\ r + (len + k) = r + len + k
    BY <1>1
  <2>2. QED
    BY <1>3, <1>4, <1>5, <2>1
<1>7. Data(buf, r + len, w) = SubSeq(d, len + 1, w - r)
  BY <1>4, <1>5, <1>6, SeqEqual
<1>8. QED
  BY <1>2, <1>7 DEF d

\* Both indices at the end of the prepend area: nothing to read.
LEMMA EmptyLemma ==
    ASSUME NEW buf \in Seq(Byte), kCheapPrepend + kInitialSize <= Len(buf)
    PROVE  /\ InOrder(buf, kCheapPrepend, kCheapPrepend)
           /\ Data(buf, kCheapPrepend, kCheapPrepend) = <<>>
<1>1. kCheapPrepend \in Nat /\ kInitialSize \in Nat /\ Len(buf) \in Nat
  BY BufferAssumption, LenProperties
<1>2. InOrder(buf, kCheapPrepend, kCheapPrepend)
  BY <1>1 DEF InOrder
<1>3. kCheapPrepend + 1 \in Int /\ kCheapPrepend \in Int /\ kCheapPrepend < kCheapPrepend + 1
  BY <1>1
<1>4. QED
  BY <1>2, <1>3, SubSeqEmpty DEF Data

-----------------------------------------------------------------------------
(* The object.                                                             *)

\* An object none of whose assertions has failed.
Obj(buf, r, w) == [buffer_ |-> buf, readrIndex_ |-> r, writerIndex_ |-> w, ok |-> TRUE]

Wf(b) == \E buf, r, w : InOrder(buf, r, w) /\ b = Obj(buf, r, w)

\* Its fields, and what the accessors return.
Is(b, buf, r, w) ==
    /\ b.buffer_ = buf /\ b.readrIndex_ = r /\ b.writerIndex_ = w /\ b.ok = TRUE
    /\ Readable(b) = Data(buf, r, w)
    /\ getReadableBytes(b) = w - r
    /\ getWritableBytes(b) = Len(buf) - w
    /\ getPrependableBytes(b) = r

\* An object made from its fields.
LEMMA ObjIs ==
    ASSUME NEW buf, NEW r, NEW w
    PROVE  Is(Obj(buf, r, w), buf, r, w)
<1> DEFINE b == Obj(buf, r, w)
<1>1. b.buffer_ = buf /\ b.readrIndex_ = r /\ b.writerIndex_ = w /\ b.ok = TRUE
  BY DEF Obj
<1> HIDE DEF b
<1>2. Is(b, buf, r, w)
  BY <1>1 DEF Is, Readable, Data, getReadableBytes, getWritableBytes, getPrependableBytes
<1>3. QED
  BY <1>2 DEF b

\* A well-formed object.
LEMMA WfElim ==
    ASSUME NEW b, Wf(b)
    PROVE  \E buf, r, w : InOrder(buf, r, w) /\ b = Obj(buf, r, w) /\ Is(b, buf, r, w)
  BY ObjIs DEF Wf

\* An object whose fields are in order is well-formed.
LEMMA WfIntro ==
    ASSUME NEW buf, NEW r, NEW w, InOrder(buf, r, w)
    PROVE  Wf(Obj(buf, r, w)) /\ Is(Obj(buf, r, w), buf, r, w)
  BY ObjIs DEF Wf

\* The readable bytes of a well-formed object.
LEMMA ReadableLemma ==
    ASSUME NEW b, Wf(b)
    PROVE  /\ Readable(b) \in Seq(Byte) /\ Len(Readable(b)) = getReadableBytes(b)
           /\ getReadableBytes(b) \in Nat
<1>1. PICK buf, r, w : InOrder(buf, r, w) /\ b = Obj(buf, r, w) /\ Is(b, buf, r, w)
  BY WfElim
<1>2. QED
  BY <1>1, DataLemma DEF Is

\* hasWritten() after a copy that fits.
LEMMA WrittenLemma ==
    ASSUME NEW b, Wf(b), NEW data \in Seq(Byte), Len(data) <= getWritableBytes(b)
    PROVE  Wf(Written(b, data)) /\ Readable(Written(b, data)) = Readable(b) \o data
<1>1. PICK buf, r, w : InOrder(buf, r, w) /\ b = Obj(buf, r, w) /\ Is(b, buf, r, w)
  BY WfElim
<1>2. /\ b.buffer_ = buf /\ b.writerIndex_ = w /\ b.ok = TRUE
      /\ Readable(b) = Data(buf, r, w) /\ getWritableBytes(b) = Len(buf) - w
  BY <1>1 DEF Is
<1>3. w \in Nat /\ Len(buf) \in Nat /\ Len(data) \in Nat
  BY <1>1, LenProperties DEF InOrder
<1>4. w + Len(data) <= Len(buf)
  BY <1>2, <1>3
<1>5. Written(b, data) = Obj(Copied(buf, w, data), r, w + Len(data))
  <2>1. (b.ok /\ Len(data) <= getWritableBytes(b)) = TRUE
    BY <1>2
  <2>2. Written(b, data) = [b EXCEPT !.buffer_ = Copied(buf, w, data),
                                     !.writerIndex_ = w + Len(data), !.ok = TRUE]
    BY <1>2, <2>1 DEF Written
  <2>3. QED
    BY <1>1, <2>2 DEF Obj
<1>6. /\ InOrder(Copied(buf, w, data), r, w + Len(data))
      /\ Data(Copied(buf, w, data), r, w + Len(data)) = Data(buf, r, w) \o data
  BY <1>1, <1>4, WriteLemma
<1>7. Wf(Written(b, data)) /\ Is(Written(b, data), Copied(buf, w, data), r, w + Len(data))
  BY <1>5, <1>6, WfIntro
<1>8. QED
  BY <1>2, <1>6, <1>7 DEF Is

\* makeSpace(): its assertion holds, there is room, and the bytes are the same.
LEMMA MakeSpaceLemma ==
    ASSUME NEW b, Wf(b), NEW len \in Nat, getWritableBytes(b) < len
    PROVE  /\ Wf(makeSpace(b, len)) /\ Readable(makeSpace(b, len)) = Readable(b)
           /\ len <= getWritableBytes(makeSpace(b, len))
<1>1. PICK buf, r, w : InOrder(buf, r, w) /\ b = Obj(buf, r, w) /\ Is(b, buf, r, w)
  BY WfElim
<1>2. /\ b.buffer_ = buf /\ b.readrIndex_ = r /\ b.writerIndex_ = w /\ b.ok = TRUE
      /\ Readable(b) = Data(buf, r, w) /\ getReadableBytes(b) = w - r
      /\ getWritableBytes(b) = Len(buf) - w /\ getPrependableBytes(b) = r
  BY <1>1 DEF Is
<1>3. /\ buf \in Seq(Byte) /\ r \in Nat /\ w \in Nat /\ Len(buf) \in Nat
      /\ r <= w /\ w <= Len(buf) /\ kCheapPrepend \in Nat
  BY <1>1, LenProperties, BufferAssumption DEF InOrder
<1>4. CASE getWritableBytes(b) + getPrependableBytes(b) < len + kCheapPrepend
  <2>1. makeSpace(b, len) = Obj(Resized(buf, w + len), r, w)
    <3>1. makeSpace(b, len) = [b EXCEPT !.buffer_ = Resized(buf, w + len)]
      BY <1>2, <1>4 DEF makeSpace
    <3>2. QED
      BY <1>1, <3>1 DEF Obj
  <2>2. w + len \in Nat /\ Len(buf) <= w + len
    BY <1>2, <1>3
  <2>3. /\ InOrder(Resized(buf, w + len), r, w)
        /\ Data(Resized(buf, w + len), r, w) = Data(buf, r, w)
        /\ Len(Resized(buf, w + len)) = w + len
    BY <1>1, <2>2, GrowLemma
  <2>4. /\ Wf(makeSpace(b, len)) /\ Readable(makeSpace(b, len)) = Readable(b)
        /\ getWritableBytes(makeSpace(b, len)) = w + len - w
    <3>1. Wf(makeSpace(b, len)) /\ Is(makeSpace(b, len), Resized(buf, w + len), r, w)
      BY <2>1, <2>3, WfIntro
    <3>2. QED
      BY <1>2, <1>3, <2>3, <3>1 DEF Is
  <2>5. QED
    BY <1>3, <2>4
<1>5. CASE ~(getWritableBytes(b) + getPrependableBytes(b) < len + kCheapPrepend)
  <2> DEFINE c == Copied(buf, kCheapPrepend, Data(buf, r, w))
             v == kCheapPrepend + (w - r)
  <2>1. kCheapPrepend < r /\ v <= Len(buf) /\ v \in Nat /\ len <= Len(buf) - v
    BY <1>2, <1>3, <1>5
  <2>2. makeSpace(b, len) = Obj(c, kCheapPrepend, v)
    <3>1. (b.ok /\ kCheapPrepend < b.readrIndex_) = TRUE
      BY <1>2, <2>1
    <3>2. makeSpace(b, len) = [b EXCEPT !.buffer_ = c, !.readrIndex_ = kCheapPrepend,
                                        !.writerIndex_ = v, !.ok = TRUE]
      BY <1>2, <1>5, <3>1 DEF makeSpace
    <3>3. QED
      BY <1>1, <3>2 DEF Obj
  <2>3. v = kCheapPrepend + (w - r)
    OBVIOUS
  <2> HIDE DEF v
  <2>4. /\ InOrder(c, kCheapPrepend, v) /\ Data(c, kCheapPrepend, v) = Data(buf, r, w)
        /\ Len(c) = Len(buf)
    BY <1>1, <1>3, <2>1, <2>3, PlaceLemma
  <2> HIDE DEF c
  <2>5. Wf(makeSpace(b, len)) /\ Is(makeSpace(b, len), c, kCheapPrepend, v)
    BY <2>2, <2>4, WfIntro
  <2>6. QED
    BY <1>2, <2>1, <2>4, <2>5 DEF Is
<1>6. QED
  BY <1>4, <1>5

\* ensureWritableBytes(): its assertion holds.
LEMMA EnsuredLemma ==
    ASSUME NEW b, Wf(b), NEW len \in Nat
    PROVE  /\ Wf(Ensured(b, len)) /\ Readable(Ensured(b, len)) = Readable(b)
           /\ len <= getWritableBytes(Ensured(b, len))
<1> DEFINE c == IF getWritableBytes(b) < len THEN makeSpace(b, len) ELSE b
<1>1. Wf(c) /\ Readable(c) = Readable(b) /\ len <= getWritableBytes(c)
  <2>1. CASE getWritableBytes(b) < len
    BY <2>1, MakeSpaceLemma
  <2>2. CASE ~(getWritableBytes(b) < len)
    <3>1. getWritableBytes(b) \in Int
      <4>1. PICK buf, r, w : InOrder(buf, r, w) /\ b = Obj(buf, r, w) /\ Is(b, buf, r, w)
        BY WfElim
      <4>2. getWritableBytes(b) = Len(buf) - w
        BY <4>1 DEF Is
      <4>3. QED
        BY <4>1, <4>2, LenProperties DEF InOrder
    <3>2. QED
      BY <2>2, <3>1
  <2>3. QED
    BY <2>1, <2>2
<1>2. Ensured(b, len) = [c EXCEPT !.ok = c.ok /\ getWritableBytes(c) >= len]
  BY DEF Ensured
<1> HIDE DEF c
<1>3. PICK buf, r, w : InOrder(buf, r, w) /\ c = Obj(buf, r, w) /\ Is(c, buf, r, w)
  BY <1>1, WfElim
<1>4. c.ok = TRUE /\ getWritableBytes(c) = Len(buf) - w
  BY <1>3 DEF Is
<1>5. (c.ok /\ getWritableBytes(c) >= len) = TRUE
  <2>1. Len(buf) \in Nat /\ w \in Nat
    BY <1>3, LenProperties DEF InOrder
  <2>2. QED
    BY <1>1, <1>4, <2>1
<1>6. Ensured(b, len) = c
  BY <1>2, <1>3, <1>5 DEF Obj
<1>7. QED
  BY <1>1, <1>6

\* append(): hasWritten() keeps within what ensureWritableBytes() has made.
LEMMA AppendedLemma ==
    ASSUME NEW b, Wf(b), NEW data \in Seq(Byte)
    PROVE  Wf(Appended(b, data)) /\ Readable(Appended(b, data)) = Readable(b) \o data
<1>1. Len(data) \in Nat
  BY LenProperties
<1>2. /\ Wf(Ensured(b, Len(data))) /\ Readable(Ensured(b, Len(data))) = Readable(b)
      /\ Len(data) <= getWritableBytes(Ensured(b, Len(data)))
  BY <1>1, EnsuredLemma
<1>3. QED
  BY <1>2, WrittenLemma DEF Appended

\* readFd(): what fits and what went to extrabuf come in order.
LEMMA ReadFromLemma ==
    ASSUME NEW b, Wf(b), NEW data \in Seq(Byte)
    PROVE  Wf(ReadFrom(b, data)) /\ Readable(ReadFrom(b, data)) = Readable(b) \o data
<1> DEFINE n == getWritableBytes(b)
<1>1. n \in Nat /\ Len(data) \in Nat
  <2>1. PICK buf, r, w : InOrder(buf, r, w) /\ b = Obj(buf, r, w) /\ Is(b, buf, r, w)
    BY WfElim
  <2>2. w \in Nat /\ Len(buf) \in Nat /\ w <= Len(buf)
    BY <2>1, LenProperties DEF InOrder
  <2>3. n = Len(buf) - w
    BY <2>1 DEF Is
  <2>4. QED
    BY <2>2, <2>3, LenProperties
<1>2. CASE Len(data) <= n
  BY <1>2, WrittenLemma DEF ReadFrom
<1>3. CASE ~(Len(data) <= n)
  <2> DEFINE head == SubSeq(data, 1, n)
             rest == SubSeq(data, n + 1, Len(data))
  <2>1. ReadFrom(b, data) = Appended(Written(b, head), rest)
    BY <1>3 DEF ReadFrom
  <2>2. head \in Seq(Byte) /\ Len(head) = n
    <3>1. \A k \in 1..n : data[k] \in Byte
      BY <1>1, <1>3, ElementOfSeq
    <3>2. head \in Seq(Byte) /\ Len(head) = IF 1 <= n THEN n - 1 + 1 ELSE 0
      BY <1>1, <3>1, SubSeqProperties
    <3>3. QED
      BY <1>1, <3>2
  <2>3. rest \in Seq(Byte)
    <3>1. \A k \in n + 1..Len(data) : data[k] \in Byte
      BY <1>1, <1>3, ElementOfSeq
    <3>2. n + 1 \in Int /\ Len(data) \in Int
      BY <1>1
    <3>3. QED
      BY <3>1, <3>2, SubSeqProperties
  <2>4. head \o rest = data
    <3>1. 1 \in 1..Len(data) + 1 /\ n \in 1 - 1..Len(data) /\ Len(data) \in n..Len(data)
      BY <1>1, <1>3
    <3>2. head \o rest = SubSeq(data, 1, Len(data))
      BY <3>1, ConcatAdjacentSubSeq, Zenon
    <3>3. QED
      BY <3>2, SubSeqFull
  <2> HIDE DEF head, rest
  <2>5. Wf(Written(b, head)) /\ Readable(Written(b, head)) = Readable(b) \o head
    BY <1>1, <2>2, WrittenLemma
  <2>6. /\ Wf(ReadFrom(b, data))
        /\ Readable(ReadFrom(b, data)) = (Readable(b) \o head) \o rest
    BY <2>1, <2>3, <2>5, AppendedLemma
  <2>7. (Readable(b) \o head) \o rest = Readable(b) \o (head \o rest)
    BY <2>2, <2>3, ReadableLemma, ConcatAssociative
  <2>8. QED
    BY <2>4, <2>6, <2>7
<1>4. QED
  BY <1>2, <1>3

\* prepend() of what fits in front of the read index.
LEMMA PrependedLemma ==
    ASSUME NEW b, Wf(b), NEW data \in Seq(Byte), Len(data) <= getPrependableBytes(b)
    PROVE  Wf(Prepended(b, data)) /\ Readable(Prepended(b, data)) = data \o Readable(b)
<1>1. PICK buf, r, w : InOrder(buf, r, w) /\ b = Obj(buf, r, w) /\ Is(b, buf, r, w)
  BY WfElim
<1>2. b.buffer_ = buf /\ b.readrIndex_ = r /\ Readable(b) = Data(buf, r, w) /\ Len(data) <= r
  BY <1>1 DEF Is
<1> DEFINE q == r - Len(data)
           c == Copied(buf, q, data)
<1>3. Prepended(b, data) = Obj(c, q, w)
  <2>1. Prepended(b, data) = [b EXCEPT !.readrIndex_ = q, !.buffer_ = c]
    BY <1>2 DEF Prepended
  <2>2. QED
    BY <1>1, <2>1 DEF Obj
<1>4. InOrder(c, q, w) /\ Data(c, q, w) = data \o Data(buf, r, w)
  BY <1>1, <1>2, FrontLemma
<1> HIDE DEF c, q
<1>5. Wf(Prepended(b, data)) /\ Is(Prepended(b, data), c, q, w)
  BY <1>3, <1>4, WfIntro
<1>6. QED
  BY <1>2, <1>4, <1>5 DEF Is

\* retrieveAll()
LEMMA RetrieveAllLemma ==
    ASSUME NEW b, Wf(b)
    PROVE  Wf(retrieveAll(b)) /\ Readable(retrieveAll(b)) = <<>>
<1>1. PICK buf, r, w : InOrder(buf, r, w) /\ b = Obj(buf, r, w) /\ Is(b, buf, r, w)
  BY WfElim
<1>2. retrieveAll(b) = Obj(buf, kCheapPrepend, kCheapPrepend)
  <2>1. retrieveAll(b) = [b EXCEPT !.readrIndex_ = kCheapPrepend, !.writerIndex_ = kCheapPrepend]
    BY DEF retrieveAll
  <2>2. QED
    BY <1>1, <2>1 DEF Obj
<1>3. /\ InOrder(buf, kCheapPrepend, kCheapPrepend)
      /\ Data(buf, kCheapPrepend, kCheapPrepend) = <<>>
  BY <1>1, EmptyLemma DEF InOrder
<1>4. Wf(retrieveAll(b)) /\ Is(retrieveAll(b), buf, kCheapPrepend, kCheapPrepend)
  BY <1>2, <1>3, WfIntro
<1>5. QED
  BY <1>3, <1>4 DEF Is

\* retrieve() of what is readable.
LEMMA RetrievedLemma ==
    ASSUME NEW b, Wf(b), NEW len \in Nat, len <= getReadableBytes(b)
    PROVE  /\ Wf(Retrieved(b, len))
           /\ Readable(Retrieved(b, len)) = SubSeq(Readable(b), len + 1, Len(Readable(b)))
<1>1. PICK buf, r, w : InOrder(buf, r, w) /\ b = Obj(buf, r, w) /\ Is(b, buf, r, w)
  BY WfElim
<1>2. b.readrIndex_ = r /\ Readable(b) = Data(buf, r, w) /\ getReadableBytes(b) = w - r
  BY <1>1 DEF Is
<1>3. Len(Readable(b)) = w - r /\ w - r \in Nat
  BY <1>1, <1>2, DataLemma
<1>4. CASE len < getReadableBytes(b)
  <2> DEFINE q == r + len
  <2>1. Retrieved(b, len) = Obj(buf, q, w)
    <3>1. Retrieved(b, len) = [b EXCEPT !.readrIndex_ = q]
      BY <1>2, <1>4 DEF Retrieved
    <3>2. QED
      BY <1>1, <3>1 DEF Obj
  <2>2. InOrder(buf, q, w) /\ Data(buf, q, w) = SubSeq(Data(buf, r, w), len + 1, w - r)
    BY <1>1, <1>2, DropLemma
  <2> HIDE DEF q
  <2>3. Wf(Retrieved(b, len)) /\ Is(Retrieved(b, len), buf, q, w)
    BY <2>1, <2>2, WfIntro
  <2>4. QED
    BY <1>2, <1>3, <2>2, <2>3 DEF Is
<1>5. CASE ~(len < getReadableBytes(b))
  <2>1. Retrieved(b, len) = retrieveAll(b)
    BY <1>5 DEF Retrieved
  <2>2. len + 1 \in Int /\ Len(Readable(b)) \in Int /\ Len(Readable(b)) < len + 1
    BY <1>2, <1>3, <1>5
  <2>3. SubSeq(Readable(b), len + 1, Len(Readable(b))) = <<>>
    BY <2>2, SubSeqEmpty
  <2>4. QED
    BY <2>1, <2>3, RetrieveAllLemma
<1>6. QED
  BY <1>4, <1>5

\* The constructor.
LEMMA NewLemma == Wf(New(kInitialSize)) /\ Readable(New(kInitialSize)) = <<>>
<1> DEFINE z == [k \in 1..kCheapPrepend + kInitialSize |-> Zero]
<1>1. New(kInitialSize) = Obj(z, kCheapPrepend, kCheapPrepend)
  BY DEF New, Obj
<1>2. kCheapPrepend \in Nat /\ kInitialSize \in Nat /\ kCheapPrepend + kInitialSize \in Nat
  BY BufferAssumption
<1>3. z \in Seq(Byte) /\ Len(z) = kCheapPrepend + kInitialSize
  <2>1. z \in [1..kCheapPrepend + kInitialSize -> Byte]
    BY BufferAssumption
  <2> HIDE DEF z
  <2>2. QED
    BY <1>2, <2>1, SeqIntro
<1> HIDE DEF z
<1>4. /\ InOrder(z, kCheapPrepend, kCheapPrepend)
      /\ Data(z, kCheapPrepend, kCheapPrepend) = <<>>
  BY <1>2, <1>3, EmptyLemma
<1>5. Wf(New(kInitialSize)) /\ Is(New(kInitialSize), z, kCheapPrepend, kCheapPrepend)
  BY <1>1, <1>4, WfIntro
<1>6. QED
  BY <1>4, <1>5 DEF Is

\* shrink() keeps the bytes.
LEMMA ShrunkLemma ==
    ASSUME NEW b, Wf(b), NEW reserve \in Nat
    PROVE  Wf(Shrunk(b, reserve)) /\ Readable(Shrunk(b, reserve)) = Readable(b)
<1> DEFINE other == Ensured(New(kInitialSize), getReadableBytes(b) + reserve)
           c == Appended(other, Readable(b))
<1>1. Readable(b) \in Seq(Byte) /\ getReadableBytes(b) + reserve \in Nat
  BY ReadableLemma
<1>2. Wf(other) /\ Readable(other) = <<>>
  BY <1>1, NewLemma, EnsuredLemma
<1> HIDE DEF other
<1>3. Wf(c) /\ Readable(c) = Readable(b)
  <2>1. Wf(c) /\ Readable(c) = <<>> \o Readable(b)
    BY <1>1, <1>2, AppendedLemma
  <2>2. QED
    BY <1>1, <2>1, ConcatEmptySeq
<1>4. Shrunk(b, reserve) = [c EXCEPT !.ok = c.ok /\ b.ok]
  BY DEF Shrunk, other
<1> HIDE DEF c
<1>5. (c.ok /\ b.ok) = TRUE
  BY <1>3, WfElim DEF Is
<1>6. PICK buf, r, w : InOrder(buf, r, w) /\ c = Obj(buf, r, w) /\ Is(c, buf, r, w)
  BY <1>3, WfElim
<1>7. Shrunk(b, reserve) = c
  BY <1>4, <1>5, <1>6 DEF Obj
<1>8. QED
  BY <1>3, <1>7

-----------------------------------------------------------------------------
\* The inductive invariant.
BufferInv == Wf(this) /\ Readable(this) = content

\* Every operation keeps it.
LEMMA BufferStep == BufferInv /\ [BufferNext]_bufVars => BufferInv'
<1> SUFFICES ASSUME BufferInv, [BufferNext]_bufVars PROVE BufferInv'
  OBVIOUS
<1>0. Wf(this) /\ Readable(this) = content
  BY DEF BufferInv
<1>1. ASSUME NEW data \in Seq(Byte), Append_(data) PROVE BufferInv'
  BY <1>0, <1>1, AppendedLemma DEF Append_, ContentGrows, BufferInv
<1>2. ASSUME NEW data \in Seq(Byte), ReadFd(data) PROVE BufferInv'
  BY <1>0, <1>2, ReadFromLemma DEF ReadFd, ContentGrows, BufferInv
<1>3. ASSUME NEW data \in Seq(Byte), Prepend(data) PROVE BufferInv'
  BY <1>0, <1>3, PrependedLemma DEF Prepend, ContentGrowsInFront, BufferInv
<1>4. ASSUME NEW len \in Nat, Retrieve(len) PROVE BufferInv'
  BY <1>0, <1>4, RetrievedLemma DEF Retrieve, ContentShrinks, BufferInv
<1>5. ASSUME NEW len \in Nat, Shrink(len) PROVE BufferInv'
  BY <1>0, <1>5, ShrunkLemma DEF Shrink, BufferInv
<1>6. CASE RetrieveAll
  <2>1. Readable(retrieveAll(this)) = <<>> /\ Wf(retrieveAll(this))
    BY <1>0, RetrieveAllLemma
  <2>2. SubSeq(content, Len(content) + 1, Len(content)) = <<>>
    <3>1. Len(content) \in Nat
      BY <1>0, ReadableLemma
    <3>2. QED
      BY <3>1, SubSeqEmpty
  <2>3. QED
    BY <1>6, <2>1, <2>2 DEF RetrieveAll, ContentShrinks, BufferInv
<1>7. CASE UNCHANGED bufVars
  BY <1>0, <1>7 DEF bufVars, BufferInv, Wf, Readable
<1>8. QED
  BY <1>1, <1>2, <1>3, <1>4, <1>5, <1>6, <1>7 DEF BufferNext

\* The invariant holds throughout.
LEMMA BufferInvariance == BufferSpec => []BufferInv
<1>1. BufferInit => BufferInv
  BY NewLemma DEF BufferInit, ContentInit, BufferInv
<1>2. QED
  BY <1>1, BufferStep, PTL DEF BufferSpec

\* Buffer holds what a plain byte sequence would hold, for every sequence of
\* append(), readFd(), prepend(), retrieve(), retrieveAll() and shrink() with data
\* of any length, and any kCheapPrepend and kInitialSize.
THEOREM ContentCorrect == BufferSpec => []ContentIsRight
<1>1. BufferInv => ContentIsRight
  BY DEF BufferInv, ContentIsRight
<1>2. QED
  BY <1>1, BufferInvariance, PTL

\* No assertion in makeSpace(), ensureWritableBytes() and hasWritten() fails, and
\* the indices stay in order.
THEOREM NoAssertionFails == BufferSpec => []AssertionsHold
<1>1. BufferInv => AssertionsHold
  <2>1. SUFFICES ASSUME BufferInv PROVE AssertionsHold
    OBVIOUS
  <2>2. PICK buf, r, w : InOrder(buf, r, w) /\ this = Obj(buf, r, w) /\ Is(this, buf, r, w)
    BY <2>1, WfElim DEF BufferInv
  <2>3. QED
    BY <2>2 DEF InOrder, Is, AssertionsHold
<1>2. QED
  BY <1>1, BufferInvariance, PTL
=============================================================================
