------------------------------- MODULE Poller -------------------------------
(***************************************************************************)
(* arale/net/Poller.h with its two implementations, EPollPoller.{h,cc} and *)
(* PollPoller.{h,cc}, and the Channels (Channel.{h,cc}) that use it.       *)
(*                                                                         *)
(* Everything here is done by the loop thread: poll, then the handlers of  *)
(* the channels it reported, then functors.  Handlers and functors enable, *)
(* disable, remove and create channels; a channel is destroyed only by a   *)
(* functor or outside loop(), as the comment in TcpServer.cc demands.  Two *)
(* channels may have one descriptor when the first has been removed        *)
(* (Connector hands its socket on).  A failed assert stops the program.    *)
(***************************************************************************)
EXTENDS Integers, Sequences

CONSTANTS
    Channels,     \* the Channel objects
    Fds,          \* the descriptors
    NULL          \* no channel

ASSUME FdsAssumption == Fds \subseteq Nat
ASSUME NullAssumption == NULL \notin Channels

VARIABLES
    kind,                             \* the poller that setDefaultPoller made
    alive,                            \* the channels that exist
    fd_, events_, index_, isInLoop_,  \* of each channel
    channels_,                        \* Poller's map from descriptors
    epoll,                            \* the kernel's set: channels by descriptor
    watched,                          \* and the events of each descriptor
    pollfds_,
    activeChannels_,                  \* reported and not handled yet
    aborted

channelVars == <<alive, fd_, events_, index_, isInLoop_>>
pollerVars == <<channels_, epoll, watched, pollfds_>>
vars == <<kind, channelVars, pollerVars, activeChannels_, aborted>>

-----------------------------------------------------------------------------
Events == {"read", "write"}

kNew == -1
kAdded == 1
kDeleted == 2

\* How PollPoller marks a descriptor that ::poll is to ignore.
Ignored(f) == -f - 1

Pollfd == [fd : Fds \cup {Ignored(f) : f \in Fds}, events : SUBSET Events]

\* The variables have their types, and a channel in the loop exists.
TypeOK ==
    /\ kind \in {"epoll", "poll"}
    /\ alive \subseteq Channels
    /\ fd_ \in [Channels -> Fds]
    /\ events_ \in [Channels -> SUBSET Events]
    /\ index_ \in [Channels -> Int]
    /\ isInLoop_ \in [Channels -> BOOLEAN]
    /\ channels_ \in [Fds -> Channels \cup {NULL}]
    /\ epoll \in [Fds -> Channels \cup {NULL}]
    /\ watched \in [Fds -> SUBSET Events]
    /\ pollfds_ \in Seq(Pollfd)
    /\ activeChannels_ \subseteq Channels
    /\ aborted \in BOOLEAN
    /\ \A c \in Channels : isInLoop_[c] => c \in alive

Init ==
    /\ kind \in {"epoll", "poll"}
    /\ alive = {}
    /\ fd_ \in {[c \in Channels |-> f] : f \in Fds}
    /\ events_ = [c \in Channels |-> {}]
    /\ index_ = [c \in Channels |-> kNew]
    /\ isInLoop_ = [c \in Channels |-> FALSE]
    /\ channels_ = [f \in Fds |-> NULL]
    /\ epoll = [f \in Fds |-> NULL]
    /\ watched = [f \in Fds |-> {}]
    /\ pollfds_ = <<>>
    /\ activeChannels_ = {}
    /\ aborted = FALSE

Running == ~aborted

Abort == aborted' = TRUE /\ UNCHANGED <<index_, pollerVars>>

-----------------------------------------------------------------------------
(* EPollPoller.  evs are the events that the channel has by now.            *)

\* EPOLL_CTL_ADD and EPOLL_CTL_MOD
Watch(c, evs) ==
    /\ epoll' = [epoll EXCEPT ![fd_[c]] = c]
    /\ watched' = [watched EXCEPT ![fd_[c]] = evs]

\* EPOLL_CTL_DEL
Forget(c) ==
    /\ epoll' = [epoll EXCEPT ![fd_[c]] = NULL]
    /\ watched' = [watched EXCEPT ![fd_[c]] = {}]

\* A channel that is kDeleted is still in channels_: its update fails the assert
\* that it is not.
EPollUpdateChannel(c, evs) ==
    \/ /\ index_[c] \in {kNew, kDeleted} /\ channels_[fd_[c]] # NULL
       /\ Abort
    \/ /\ index_[c] \in {kNew, kDeleted} /\ channels_[fd_[c]] = NULL
       /\ channels_' = [channels_ EXCEPT ![fd_[c]] = c]
       /\ index_' = [index_ EXCEPT ![c] = kAdded]
       /\ Watch(c, evs)
       /\ UNCHANGED <<pollfds_, aborted>>
    \/ /\ index_[c] = kAdded
       /\ IF channels_[fd_[c]] # c THEN Abort
          ELSE /\ IF evs = {} THEN index_' = [index_ EXCEPT ![c] = kDeleted] /\ Forget(c)
                              ELSE UNCHANGED index_ /\ Watch(c, evs)
               /\ UNCHANGED <<channels_, pollfds_, aborted>>

\* Mutant of EPollRemoveChannel: the descriptor is left to epoll.
EPollRemoveChannelLazy(c) ==
    /\ channels_' = [channels_ EXCEPT ![fd_[c]] = NULL]
    /\ index_' = [index_ EXCEPT ![c] = kNew]
    /\ UNCHANGED <<epoll, watched, pollfds_, aborted>>

EPollRemoveChannel(c) ==
    \/ /\ channels_[fd_[c]] # c \/ events_[c] # {} \/ index_[c] = kNew
       /\ Abort
    \/ /\ channels_[fd_[c]] = c /\ events_[c] = {} /\ index_[c] # kNew
       /\ channels_' = [channels_ EXCEPT ![fd_[c]] = NULL]
       /\ IF index_[c] = kAdded THEN Forget(c) ELSE UNCHANGED <<epoll, watched>>
       /\ index_' = [index_ EXCEPT ![c] = kNew]
       /\ UNCHANGED <<pollfds_, aborted>>

-----------------------------------------------------------------------------
(* PollPoller.  index_ counts from 0.                                       *)

At(c) == index_[c] + 1

\* A new channel is put at the end.  For another the events are assigned, and its
\* descriptor is marked when it has none; the mark is never taken back.
PollUpdateChannel(c, evs) ==
    \/ /\ index_[c] < 0 /\ channels_[fd_[c]] # NULL
       /\ Abort
    \/ /\ index_[c] < 0 /\ channels_[fd_[c]] = NULL
       /\ pollfds_' = Append(pollfds_, [fd |-> fd_[c], events |-> evs])
       /\ index_' = [index_ EXCEPT ![c] = Len(pollfds_)]
       /\ channels_' = [channels_ EXCEPT ![fd_[c]] = c]
       /\ UNCHANGED <<epoll, watched, aborted>>
    \/ /\ index_[c] >= 0 /\ channels_[fd_[c]] = NULL
       /\ Abort
    \/ /\ index_[c] >= 0 /\ channels_[fd_[c]] # NULL
       /\ IF pollfds_[At(c)].fd \notin {fd_[c], Ignored(fd_[c])} THEN Abort
          ELSE /\ pollfds_' = [pollfds_ EXCEPT ![At(c)] =
                                  [fd |-> IF evs = {} THEN Ignored(fd_[c]) ELSE @.fd,
                                   events |-> evs]]
               /\ UNCHANGED <<index_, channels_, epoll, watched, aborted>>

\* The descriptor behind an entry of pollfds_.
FdOf(pfd) == IF pfd.fd < 0 THEN Ignored(pfd.fd) ELSE pfd.fd

\* Mutant of Reindexed: the channel that was moved keeps its index.
ReindexedNot(c) == index_

\* The indexes when the last entry has been moved to the place of channel c.
Reindexed(c) ==
    LET last == pollfds_[Len(pollfds_)]
    IN IF At(c) = Len(pollfds_) THEN index_
                                ELSE [index_ EXCEPT ![channels_[FdOf(last)]] = index_[c]]

\* The last entry takes the place of the one removed.  The index of the removed
\* channel stays.
PollRemoveChannel(c) ==
    \/ /\ channels_[fd_[c]] = NULL \/ events_[c] # {} \/ At(c) \notin DOMAIN pollfds_
       /\ Abort
    \/ /\ channels_[fd_[c]] # NULL /\ events_[c] = {} /\ At(c) \in DOMAIN pollfds_
       /\ index_' = Reindexed(c)
       /\ pollfds_' = SubSeq([pollfds_ EXCEPT ![At(c)] = pollfds_[Len(pollfds_)]],
                             1, Len(pollfds_) - 1)
       /\ channels_' = [channels_ EXCEPT ![fd_[c]] = NULL]
       /\ UNCHANGED <<epoll, watched, aborted>>

-----------------------------------------------------------------------------
(* The channels' calls                                                     *)

\* EventLoop::updateChannel and removeChannel, of whichever poller there is.
updateChannel(c, evs) ==
    \/ kind = "epoll" /\ EPollUpdateChannel(c, evs)
    \/ kind = "poll" /\ PollUpdateChannel(c, evs)

removeChannel(c) ==
    \/ kind = "epoll" /\ EPollRemoveChannel(c)
    \/ kind = "poll" /\ PollRemoveChannel(c)

\* Channel::update.
SetEvents(c, evs) ==
    /\ events_' = [events_ EXCEPT ![c] = evs]
    /\ isInLoop_' = [isInLoop_ EXCEPT ![c] = TRUE]
    /\ updateChannel(c, evs)
    /\ UNCHANGED <<kind, alive, fd_, activeChannels_>>

\* Nobody uses a channel whose descriptor has been handed on.
MayUpdate(c) == Running /\ c \in alive /\ channels_[fd_[c]] \in {c, NULL}

enableRead(c) == MayUpdate(c) /\ SetEvents(c, events_[c] \cup {"read"})
enableWrite(c) == MayUpdate(c) /\ SetEvents(c, events_[c] \cup {"write"})
disableRead(c) == MayUpdate(c) /\ SetEvents(c, events_[c] \ {"read"})
disableWrite(c) == MayUpdate(c) /\ SetEvents(c, events_[c] \cap {"write"})
disableAll(c) == MayUpdate(c) /\ SetEvents(c, {})

remove(c) ==
    /\ Running /\ c \in alive /\ isInLoop_[c]
    /\ isInLoop_' = [isInLoop_ EXCEPT ![c] = FALSE]
    /\ removeChannel(c)
    /\ UNCHANGED <<kind, alive, fd_, events_, activeChannels_>>

\* A Channel is constructed for a descriptor that no channel in the loop has.
NewChannel(c, f) ==
    /\ Running /\ c \notin alive
    /\ \A d \in alive : fd_[d] = f => ~isInLoop_[d]
    /\ alive' = alive \cup {c}
    /\ fd_' = [fd_ EXCEPT ![c] = f]
    /\ events_' = [events_ EXCEPT ![c] = {}]
    /\ index_' = [index_ EXCEPT ![c] = kNew]
    /\ isInLoop_' = [isInLoop_ EXCEPT ![c] = FALSE]
    /\ UNCHANGED <<kind, pollerVars, activeChannels_, aborted>>

\* ~Channel, after the handlers.
DestroyChannel(c) ==
    /\ Running /\ c \in alive /\ activeChannels_ = {}
    /\ \/ ~isInLoop_[c] /\ alive' = alive \ {c} /\ UNCHANGED aborted
       \/ isInLoop_[c] /\ aborted' = TRUE /\ UNCHANGED alive
    /\ UNCHANGED <<kind, fd_, events_, index_, isInLoop_, pollerVars, activeChannels_>>

-----------------------------------------------------------------------------
(* The loop                                                                *)

\* What poll would report for descriptor f.
Reported(f) == IF kind = "epoll" THEN epoll[f] ELSE channels_[f]

Polled == IF kind = "epoll" THEN {f \in Fds : epoll[f] # NULL}
                            ELSE {pollfds_[i].fd : i \in DOMAIN pollfds_} \cap Fds

\* poll and fillActiveChannels, with its assert that the channel is in channels_.
Poll ==
    /\ Running /\ activeChannels_ = {}
    /\ \E ready \in (SUBSET Polled) \ {{}} :
          /\ activeChannels_' = {Reported(f) : f \in ready}
          /\ aborted' = \E f \in ready : channels_[f] # Reported(f) \/ Reported(f) = NULL
    /\ UNCHANGED <<kind, channelVars, pollerVars>>

\* handleEvent of a channel returns.
HandleEvent(c) ==
    /\ Running /\ c \in activeChannels_
    /\ activeChannels_' = activeChannels_ \ {c}
    /\ UNCHANGED <<kind, channelVars, pollerVars, aborted>>

Next ==
    \/ Poll
    \/ \E c \in Channels :
          \/ enableRead(c) \/ enableWrite(c) \/ disableRead(c) \/ disableWrite(c)
          \/ disableAll(c) \/ remove(c) \/ DestroyChannel(c) \/ HandleEvent(c)
          \/ \E f \in Fds : NewChannel(c, f)

Spec == Init /\ [][Next]_vars

-----------------------------------------------------------------------------
(* Properties                                                              *)

InLoop == {c \in alive : isInLoop_[c]}

\* EPollPoller::updateChannel and removeChannel: the kernel watches every channel in
\* the loop that has events, nothing that is not in the loop, and each for the
\* events it has now, through any enabling, disabling and reuse of descriptors.
EPollWatches ==
    kind = "epoll" /\ Running =>
        /\ \A c \in InLoop : events_[c] # {} => epoll[fd_[c]] = c
        /\ \A f \in Fds : epoll[f] # NULL =>
              epoll[f] \in InLoop /\ fd_[epoll[f]] = f /\ watched[f] = events_[epoll[f]]

\* PollPoller::updateChannel and removeChannel: after any removals each channel in
\* the loop finds its own entry of pollfds_ at its index, with its events, and
\* there are no other entries.
PollfdsIndexed ==
    kind = "poll" /\ Running =>
        /\ \A c \in InLoop :
              /\ At(c) \in DOMAIN pollfds_
              /\ FdOf(pollfds_[At(c)]) = fd_[c]
              /\ pollfds_[At(c)].events = events_[c]
        /\ \A i \in DOMAIN pollfds_ : \E c \in InLoop : At(c) = i

\* Poller.h, "every Channel object should [...] unregister itself from poller before
\* destruction": the map holds, each under its descriptor, exactly the channels that
\* believe to be in the loop, so no two share an entry; what either poller would
\* report is a channel that exists and that fillActiveChannels finds in the map, and
\* what waits for its handler exists.
NoDangling ==
    /\ TypeOK
    /\ Running =>
          /\ {c \in Channels : \E f \in Fds : channels_[f] = c} = InLoop
          /\ \A c \in InLoop : channels_[fd_[c]] = c
          /\ activeChannels_ \subseteq alive
          /\ \A f \in Polled : Reported(f) \in alive /\ channels_[f] = Reported(f)
=============================================================================
