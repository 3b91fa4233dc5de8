------------------------------- MODULE Epoll -------------------------------
(***************************************************************************)
(* burger/net/Epoll.cc, Channel.cc and the parts of EventLoop.cc that      *)
(* drive them: which channels the poller knows, which fds the kernel       *)
(* watches for them, and how one round of events is dispatched.            *)
(*                                                                         *)
(* The kernel's interest list is external; it is keyed by fd and holds the *)
(* Channel* and the events of the last epoll_ctl.  User code (callbacks    *)
(* and queued functions) calls the Channel operations within the contract  *)
(* their assertions state: remove() only after disableAll(), a Channel is  *)
(* destroyed only when removed, and a new Channel is only added when no    *)
(* other Channel of its fd is.  Several live Channels may have the same    *)
(* fd: Connector keeps its removed Channel until resetChannel() runs,      *)
(* while TcpConnection has made and enabled another one for the socket.    *)
(***************************************************************************)
EXTENDS Naturals, Sequences, FiniteSets

CONSTANTS Channels,     \* Channel objects (addresses)
          Fds,
          Fd,           \* fd_ of a channel: [Channels -> Fds]
          NoChannel     \* nullptr / no entry

ASSUME ChannelAssumption == NoChannel \notin Channels /\ Fd \in [Channels -> Fds]

VARIABLES live,             \* constructed, not yet destroyed channels
          events_, status_, addedToEpoll_, handling,   \* of each channel
          channelMap_,      \* Epoll's map from fds to channels
          kernelPtr,        \* epoll_event.data.ptr the kernel holds for an fd
          kernelEvents,     \* the events it watches the fd for
          activeChannels_, todo,   \* this round's channels, those left to handle
          revents,          \* events reported for each channel
          currentActiveChannel_,
          callbacks,        \* callbacks left to invoke for the current channel
          eventHandling_    \* EventLoop::eventHandling_

chanVars == <<live, events_, status_, addedToEpoll_, channelMap_, kernelPtr, kernelEvents>>
dispatchVars == <<handling, activeChannels_, todo, revents, currentActiveChannel_,
                  callbacks, eventHandling_>>
epollVars == <<chanVars, dispatchVars>>

Events == {"read", "write"}
Revents == {"IN", "PRI", "OUT", "HUP", "ERR"}
Statuses == {"kNew", "kAdded", "kDismissed"}
Callbacks == {"close", "error", "read", "write"}

EpollTypeOK ==
    /\ live \in SUBSET Channels
    /\ events_ \in [Channels -> SUBSET Events]
    /\ status_ \in [Channels -> Statuses]
    /\ addedToEpoll_ \in [Channels -> BOOLEAN]
    /\ handling \in [Channels -> BOOLEAN]
    /\ channelMap_ \in [Fds -> Channels \cup {NoChannel}]
    /\ kernelPtr \in [Fds -> Channels \cup {NoChannel}]
    /\ kernelEvents \in [Fds -> SUBSET Events]
    /\ activeChannels_ \in SUBSET Channels /\ todo \in SUBSET Channels
    /\ revents \in [Channels -> SUBSET Revents]
    /\ currentActiveChannel_ \in Channels \cup {NoChannel}
    /\ callbacks \in Seq(Callbacks)
    /\ eventHandling_ \in BOOLEAN
    /\ \A c \in Channels : handling[c] <=> currentActiveChannel_ = c

EpollInit ==
    /\ live = {}
    /\ events_ = [c \in Channels |-> {}]
    /\ status_ = [c \in Channels |-> "kNew"]
    /\ addedToEpoll_ = [c \in Channels |-> FALSE]
    /\ handling = [c \in Channels |-> FALSE]
    /\ channelMap_ = [f \in Fds |-> NoChannel]
    /\ kernelPtr = [f \in Fds |-> NoChannel]
    /\ kernelEvents = [f \in Fds |-> {}]
    /\ activeChannels_ = {} /\ todo = {}
    /\ revents = [c \in Channels |-> {}]
    /\ currentActiveChannel_ = NoChannel
    /\ callbacks = <<>>
    /\ eventHandling_ = FALSE

-----------------------------------------------------------------------------
(* Operations of user code.  It runs between two rounds (queued functions) *)
(* and inside the callbacks of the current channel.                        *)

UserCode == eventHandling_ => currentActiveChannel_ # NoChannel

\* Channel(loop, fd), for an fd that may have other channels.  Its fields
\* start as they are for a channel that is not live: kNew, no events.
Construct(c) ==
    /\ UserCode /\ c \notin live
    /\ live' = live \cup {c}
    /\ UNCHANGED <<events_, status_, addedToEpoll_, channelMap_, kernelPtr, kernelEvents, dispatchVars>>

\* epollctl(EPOLL_CTL_ADD or EPOLL_CTL_MOD, channel)
Watch(c, ev) ==
    /\ kernelPtr' = [kernelPtr EXCEPT ![Fd[c]] = c]
    /\ kernelEvents' = [kernelEvents EXCEPT ![Fd[c]] = ev]

\* epollctl(EPOLL_CTL_DEL, channel)
Unwatch(c) ==
    /\ kernelPtr' = [kernelPtr EXCEPT ![Fd[c]] = NoChannel]
    /\ kernelEvents' = [kernelEvents EXCEPT ![Fd[c]] = {}]

\* Epoll::updateChannel that leaves a channel added when its events are gone.
UpdateChannelNoDel(c, ev) ==
    /\ IF status_[c] # "kAdded"
       THEN /\ IF status_[c] = "kNew" THEN channelMap_' = [channelMap_ EXCEPT ![Fd[c]] = c]
                                      ELSE UNCHANGED channelMap_
            /\ status_' = [status_ EXCEPT ![c] = "kAdded"]
            /\ Watch(c, ev)
       ELSE /\ UNCHANGED channelMap_
            /\ IF ev = {}
               THEN /\ Unwatch(c) /\ UNCHANGED status_
               ELSE /\ Watch(c, ev) /\ UNCHANGED status_

\* Epoll::updateChannel: a new or dismissed channel is added - whatever its
\* events are - a channel without events is dismissed, others are modified.
UpdateChannel(c, ev) ==
    /\ IF status_[c] # "kAdded"
       THEN /\ IF status_[c] = "kNew" THEN channelMap_' = [channelMap_ EXCEPT ![Fd[c]] = c]
                                      ELSE UNCHANGED channelMap_
            /\ status_' = [status_ EXCEPT ![c] = "kAdded"]
            /\ Watch(c, ev)
       ELSE /\ UNCHANGED channelMap_
            /\ IF ev = {}
               THEN /\ Unwatch(c)
                    /\ status_' = [status_ EXCEPT ![c] = "kDismissed"]
               ELSE /\ Watch(c, ev) /\ UNCHANGED status_

\* events_ = ev; Channel::update().  Asserted by updateChannel(): the fd of a
\* channel it does not know is not in channelMap_.
Update(c, ev) ==
    /\ UserCode /\ c \in live
    /\ status_[c] = "kNew" => channelMap_[Fd[c]] = NoChannel
    /\ events_' = [events_ EXCEPT ![c] = ev]
    /\ addedToEpoll_' = [addedToEpoll_ EXCEPT ![c] = TRUE]
    /\ UpdateChannel(c, ev)
    /\ UNCHANGED <<live, dispatchVars>>

EnableReading(c)  == Update(c, events_[c] \cup {"read"})
DisableReading(c) == Update(c, events_[c] \ {"read"})
EnableWriting(c)  == Update(c, events_[c] \cup {"write"})
DisableWriting(c) == Update(c, events_[c] \ {"write"})
DisableAll(c)     == Update(c, {})

\* remove() while another callback's channel is current.
RemoveAnyTime(c) ==
    /\ UserCode /\ c \in live
    /\ events_[c] = {} /\ status_[c] # "kNew"
    /\ addedToEpoll_' = [addedToEpoll_ EXCEPT ![c] = FALSE]
    /\ channelMap_' = [channelMap_ EXCEPT ![Fd[c]] = NoChannel]
    /\ IF status_[c] = "kAdded" THEN Unwatch(c) ELSE UNCHANGED <<kernelPtr, kernelEvents>>
    /\ status_' = [status_ EXCEPT ![c] = "kNew"]
    /\ UNCHANGED <<live, events_, dispatchVars>>

\* Channel::remove(), EventLoop::removeChannel, Epoll::removeChannel.  The
\* guards are their assertions: no events, known to epoll, and during a round
\* either the current channel or one that is not active.
Remove(c) ==
    /\ UserCode /\ c \in live
    /\ events_[c] = {} /\ status_[c] # "kNew"
    /\ eventHandling_ => (currentActiveChannel_ = c \/ c \notin activeChannels_)
    /\ addedToEpoll_' = [addedToEpoll_ EXCEPT ![c] = FALSE]
    /\ channelMap_' = [channelMap_ EXCEPT ![Fd[c]] = NoChannel]
    /\ IF status_[c] = "kAdded" THEN Unwatch(c) ELSE UNCHANGED <<kernelPtr, kernelEvents>>
    /\ status_' = [status_ EXCEPT ![c] = "kNew"]
    /\ UNCHANGED <<live, events_, dispatchVars>>

\* ~Channel().  Asserted: not being handled, not added to epoll.
Destruct(c) ==
    /\ UserCode /\ c \in live
    /\ ~ handling[c] /\ ~ addedToEpoll_[c]
    /\ live' = live \ {c}
    /\ events_' = [events_ EXCEPT ![c] = {}]        \* the memory is gone
    /\ status_' = [status_ EXCEPT ![c] = "kNew"]
    /\ UNCHANGED <<addedToEpoll_, channelMap_, kernelPtr, kernelEvents, dispatchVars>>

-----------------------------------------------------------------------------
(* One round of EventLoop::loop().                                         *)

\* What the kernel may report for an fd: HUP and ERR need not be asked for.
Reportable(f) ==
    {r \in Revents : \/ r \in {"HUP", "ERR"}
                     \/ r \in {"IN", "PRI"} /\ "read" \in kernelEvents[f]
                     \/ r = "OUT" /\ "write" \in kernelEvents[f]}

\* epoll_wait() returns; fillActiveChannels() stores what it reports.
Wait ==
    /\ ~ eventHandling_
    /\ \E F \in SUBSET {f \in Fds : kernelPtr[f] # NoChannel} :
        \E R \in [F -> SUBSET Revents \ {{}}] :
            /\ \A f \in F : R[f] \subseteq Reportable(f)
            /\ activeChannels_' = {kernelPtr[f] : f \in F}
            /\ todo' = activeChannels_'
            /\ revents' = [c \in Channels |->
                    IF \E f \in F : kernelPtr[f] = c
                    THEN R[CHOOSE f \in F : kernelPtr[f] = c] ELSE {}]
    /\ eventHandling_' = TRUE
    /\ UNCHANGED <<chanVars, handling, currentActiveChannel_, callbacks>>

\* handleEventWithGuard() asks close, error, read and write in this order.
Invoked(R) ==
    LET If(b, cb) == IF b THEN <<cb>> ELSE <<>>
    IN  If("HUP" \in R /\ "IN" \notin R, "close") \o If("ERR" \in R, "error")
        \o If(R \cap {"IN", "PRI"} # {}, "read") \o If("OUT" \in R, "write")

\* The next active channel's handleEvent() begins.
HandleEvent(c) ==
    /\ eventHandling_ /\ currentActiveChannel_ = NoChannel /\ c \in todo
    /\ currentActiveChannel_' = c
    /\ handling' = [handling EXCEPT ![c] = TRUE]
    /\ callbacks' = Invoked(revents[c])
    /\ todo' = todo \ {c}
    /\ revents' = [revents EXCEPT ![c] = {}]      \* not read again
    /\ UNCHANGED <<chanVars, activeChannels_, eventHandling_>>

\* One of its callbacks returns (what it did are the user actions before).
CallbackReturns ==
    /\ currentActiveChannel_ # NoChannel /\ callbacks # <<>>
    /\ callbacks' = Tail(callbacks)
    /\ UNCHANGED <<chanVars, handling, activeChannels_, todo, revents, currentActiveChannel_,
                   eventHandling_>>

\* handleEvent() returns.
HandleEventReturns ==
    /\ currentActiveChannel_ # NoChannel /\ callbacks = <<>>
    /\ handling' = [handling EXCEPT ![currentActiveChannel_] = FALSE]
    /\ currentActiveChannel_' = NoChannel
    /\ UNCHANGED <<chanVars, activeChannels_, todo, revents, callbacks, eventHandling_>>

\* The round is over: eventHandling_ = false.  (activeChannels_ is cleared at
\* the start of the next round; nobody reads it before.)
RoundEnds ==
    /\ eventHandling_ /\ currentActiveChannel_ = NoChannel /\ todo = {}
    /\ eventHandling_' = FALSE
    /\ activeChannels_' = {}
    /\ UNCHANGED <<chanVars, handling, todo, revents, currentActiveChannel_,
                   callbacks>>

-----------------------------------------------------------------------------
UserStep(c) ==
    \/ Construct(c) \/ Destruct(c) \/ Remove(c)
    \/ EnableReading(c) \/ DisableReading(c)
    \/ EnableWriting(c) \/ DisableWriting(c) \/ DisableAll(c)

EpollNext ==
    \/ \E c \in Channels : UserStep(c) \/ HandleEvent(c)
    \/ Wait \/ CallbackReturns \/ HandleEventReturns \/ RoundEnds

EpollSpec == EpollInit /\ [][EpollNext]_epollVars

-----------------------------------------------------------------------------
(***************************************************************************)
(* Channel.h's status comments and the assertions of updateChannel and     *)
(* removeChannel: a kNew channel is neither in channelMap_ nor in epoll    *)
(* (another channel of its fd may be), a kAdded one in both, a kDismissed  *)
(* one in channelMap_ only, with nothing watched for its fd; so at most    *)
(* one channel of an fd is registered, and every epoll_ctl operation is    *)
(* one the kernel accepts.                                                 *)
(***************************************************************************)
StatusMatchesEpoll ==
    \A c \in live :
        /\ status_[c] = "kNew" =>
              channelMap_[Fd[c]] # c /\ kernelPtr[Fd[c]] # c
        /\ status_[c] = "kAdded" => channelMap_[Fd[c]] = c /\ kernelPtr[Fd[c]] = c
        /\ status_[c] = "kDismissed" =>
              channelMap_[Fd[c]] = c /\ kernelPtr[Fd[c]] = NoChannel

(***************************************************************************)
(* What the kernel watches an fd for is what the channel registered for it *)
(* last asked for, whatever other channels of the fd did before; an fd no  *)
(* channel is registered for is not watched.                               *)
(***************************************************************************)
InterestIsCurrent ==
    \A f \in Fds :
        kernelEvents[f] = IF kernelPtr[f] = NoChannel THEN {} ELSE events_[kernelPtr[f]]

(***************************************************************************)
(* ~Channel()'s comment: epoll does not own channels, so they unregister   *)
(* before they die: neither channelMap_, nor the kernel, nor the channels  *)
(* this round still has to handle point to a destroyed Channel.            *)
(***************************************************************************)
NoDanglingChannel ==
    /\ \A f \in Fds : channelMap_[f] # NoChannel => channelMap_[f] \in live /\ Fd[channelMap_[f]] = f
    /\ \A f \in Fds : kernelPtr[f] # NoChannel => kernelPtr[f] = channelMap_[f]
    /\ todo \subseteq live
    /\ currentActiveChannel_ # NoChannel => currentActiveChannel_ \in live
=============================================================================
