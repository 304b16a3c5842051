---------------------------- MODULE PollerProofs ----------------------------
(***************************************************************************)
(* The two pollers, for any sets of channels and descriptors.              *)
(***************************************************************************)
EXTENDS Poller, SequenceTheorems, TLAPS

\* The map and the channels agree about who is in the loop.
MapOK ==
    /\ \A c \in Channels : isInLoop_[c] => channels_[fd_[c]] = c
    /\ \A f \in Fds : channels_[f] # NULL =>
          isInLoop_[channels_[f]] /\ fd_[channels_[f]] = f
    /\ activeChannels_ \subseteq alive

\* index_ tells EPollPoller which channels the kernel watches; what it watches is in
\* the map, for the events of its channel.
EPollOK ==
    /\ \A c \in Channels : isInLoop_[c] =>
          \/ index_[c] = kAdded /\ epoll[fd_[c]] = c
          \/ index_[c] = kDeleted /\ events_[c] = {} /\ epoll[fd_[c]] = NULL
    /\ \A f \in Fds : epoll[f] # NULL =>
          channels_[f] = epoll[f] /\ watched[f] = events_[epoll[f]]

\* index_ tells PollPoller where the entry of a channel is, and every entry has one.
PollOK ==
    /\ \A c \in Channels : isInLoop_[c] =>
          /\ index_[c] >= 0 /\ At(c) \in DOMAIN pollfds_
          /\ FdOf(pollfds_[At(c)]) = fd_[c] /\ pollfds_[At(c)].events = events_[c]
    /\ \A i \in DOMAIN pollfds_ : \E c \in Channels : isInLoop_[c] /\ At(c) = i

\* The inductive invariant.
PollerInv ==
    /\ TypeOK
    /\ Running => /\ MapOK
                  /\ kind = "epoll" => EPollOK
                  /\ kind = "poll" => PollOK

\* A pollfd gives its descriptor back, also when -fd - 1 hides it (PollPoller.cc:91).
LEMMA FdFacts ==
  /\ \A f \in Fds : f \in Nat /\ FdOf([fd |-> f, events |-> {}]) = f
  /\ \A f \in Fds : \A e : FdOf([fd |-> f, events |-> e]) = f
  /\ \A f \in Fds : \A e : FdOf([fd |-> Ignored(f), events |-> e]) = f
BY FdsAssumption DEF FdOf, Ignored

-----------------------------------------------------------------------------
(* Channel::update                                                         *)

\* An update that fails an assert leaves only what needs no poller.
LEMMA UpdateAborts ==
  ASSUME PollerInv, NEW c \in Channels, c \in alive, NEW evs \in SUBSET Events,
         events_' = [events_ EXCEPT ![c] = evs],
         isInLoop_' = [isInLoop_ EXCEPT ![c] = TRUE],
         UNCHANGED <<kind, alive, fd_, activeChannels_>>, Abort
  PROVE  PollerInv'
BY DEF PollerInv, TypeOK, Abort, pollerVars, Running

\* EPollPoller::updateChannel: ADD, MOD or DEL, with channels_ and the epoll set.
LEMMA EPollUpdate ==
  ASSUME PollerInv, kind = "epoll", NEW c \in Channels, MayUpdate(c), ~Abort,
         NEW evs \in SUBSET Events, SetEvents(c, evs)
  PROVE  PollerInv'
<1>0. /\ TypeOK /\ MapOK /\ EPollOK /\ Running /\ c \in alive /\ fd_[c] \in Fds
      /\ channels_[fd_[c]] \in {c, NULL}
  BY DEF PollerInv, MayUpdate, TypeOK
<1>1. /\ EPollUpdateChannel(c, evs) /\ UNCHANGED <<kind, alive, fd_, activeChannels_>>
      /\ events_' = [events_ EXCEPT ![c] = evs]
      /\ isInLoop_' = [isInLoop_ EXCEPT ![c] = TRUE]
  BY DEF SetEvents, updateChannel
<1>2. CASE /\ channels_[fd_[c]] = NULL
           /\ channels_' = [channels_ EXCEPT ![fd_[c]] = c]
           /\ index_' = [index_ EXCEPT ![c] = kAdded]
           /\ Watch(c, evs)
           /\ UNCHANGED <<pollfds_, aborted>>
  <2>1. ~isInLoop_[c]
    BY <1>0, <1>2, NullAssumption DEF MapOK
  <2>2. TypeOK'
    BY <1>0, <1>1, <1>2 DEF TypeOK, Watch, kAdded
  <2>3. MapOK'
    BY <1>0, <1>1, <1>2, <2>1, NullAssumption DEF MapOK, TypeOK
  <2>4. EPollOK'
    BY <1>0, <1>1, <1>2, <2>1, NullAssumption DEF EPollOK, MapOK, TypeOK, Watch
  <2> QED
    BY <1>0, <1>1, <2>2, <2>3, <2>4 DEF PollerInv
<1>3. CASE /\ index_[c] = kAdded /\ channels_[fd_[c]] = c
           /\ IF evs = {} THEN index_' = [index_ EXCEPT ![c] = kDeleted] /\ Forget(c)
                          ELSE UNCHANGED index_ /\ Watch(c, evs)
           /\ UNCHANGED <<channels_, pollfds_, aborted>>
  <2>1. isInLoop_[c]
    BY <1>0, <1>3, NullAssumption DEF MapOK
  <2>2. PICK x \in {c, NULL}, n \in {kAdded, kDeleted} :
             /\ epoll' = [epoll EXCEPT ![fd_[c]] = x]
             /\ watched' = [watched EXCEPT ![fd_[c]] = evs]
             /\ index_' = [index_ EXCEPT ![c] = n]
             /\ (x = c /\ n = kAdded) \/ (x = NULL /\ n = kDeleted /\ evs = {})
    <3>1. CASE evs = {}
      BY <1>3, <3>1 DEF Forget
    <3>2. CASE evs # {}
      <4>1. index_' = [index_ EXCEPT ![c] = kAdded]
        BY <1>0, <1>3, <3>2 DEF TypeOK
      <4> QED
        BY <1>3, <3>2, <4>1 DEF Watch
    <3> QED
      BY <3>1, <3>2
  <2>3. TypeOK'
    BY <1>0, <1>1, <1>3, <2>2 DEF TypeOK, kAdded, kDeleted
  <2>4. MapOK'
    BY <1>0, <1>1, <1>3, <2>1, NullAssumption DEF MapOK, TypeOK
  <2>5. EPollOK'
    <3>1. ASSUME NEW d \in Channels, d # c, isInLoop_[d] PROVE fd_[d] # fd_[c]
      BY <1>0, <2>1, <3>1 DEF MapOK
    <3>2. ASSUME NEW d \in Channels, isInLoop_'[d]
          PROVE  \/ index_'[d] = kAdded /\ epoll'[fd_[d]] = d
                 \/ index_'[d] = kDeleted /\ events_'[d] = {} /\ epoll'[fd_[d]] = NULL
      <4>1. CASE d = c
        BY <1>0, <1>1, <2>2, <4>1 DEF TypeOK
      <4>2. CASE d # c
        BY <1>0, <1>1, <2>2, <3>1, <3>2, <4>2 DEF TypeOK, EPollOK
      <4> QED
        BY <4>1, <4>2
    <3>3. ASSUME NEW f \in Fds, epoll'[f] # NULL
          PROVE  channels_'[f] = epoll'[f] /\ watched'[f] = events_'[epoll'[f]]
      <4>1. CASE f = fd_[c]
        BY <1>0, <1>1, <1>3, <2>2, <3>3, <4>1 DEF TypeOK
      <4>2. CASE f # fd_[c]
        <5>1. epoll'[f] = epoll[f] /\ watched'[f] = watched[f]
          BY <1>0, <2>2, <4>2 DEF TypeOK
        <5>2. epoll[f] \in Channels /\ epoll[f] # c
          BY <1>0, <3>3, <4>2, <5>1 DEF TypeOK, EPollOK, MapOK
        <5> QED
          BY <1>0, <1>1, <1>3, <3>3, <5>1, <5>2 DEF TypeOK, EPollOK
      <4> QED
        BY <4>1, <4>2
    <3> QED
      BY <1>1, <3>2, <3>3 DEF EPollOK
  <2> QED
    BY <1>0, <1>1, <2>3, <2>4, <2>5 DEF PollerInv
<1> QED
  BY <1>1, <1>2, <1>3 DEF EPollUpdateChannel

\* PollPoller::updateChannel: a new pollfd at the end, or the channel's own rewritten.
LEMMA PollUpdate ==
  ASSUME PollerInv, kind = "poll", NEW c \in Channels, MayUpdate(c), ~Abort,
         NEW evs \in SUBSET Events, SetEvents(c, evs)
  PROVE  PollerInv'
<1>0. /\ TypeOK /\ MapOK /\ PollOK /\ Running /\ c \in alive /\ fd_[c] \in Fds
      /\ channels_[fd_[c]] \in {c, NULL}
  BY DEF PollerInv, MayUpdate, TypeOK
<1>1. /\ PollUpdateChannel(c, evs) /\ UNCHANGED <<kind, alive, fd_, activeChannels_>>
      /\ events_' = [events_ EXCEPT ![c] = evs]
      /\ isInLoop_' = [isInLoop_ EXCEPT ![c] = TRUE]
  BY DEF SetEvents, updateChannel
<1>2. /\ Len(pollfds_) \in Nat /\ DOMAIN pollfds_ = 1..Len(pollfds_)
      /\ pollfds_ \in Seq(Pollfd)
  BY <1>0, LenProperties DEF TypeOK
<1>3. CASE /\ channels_[fd_[c]] = NULL
           /\ pollfds_' = Append(pollfds_, [fd |-> fd_[c], events |-> evs])
           /\ index_' = [index_ EXCEPT ![c] = Len(pollfds_)]
           /\ channels_' = [channels_ EXCEPT ![fd_[c]] = c]
           /\ UNCHANGED <<epoll, watched, aborted>>
  <2> DEFINE e == [fd |-> fd_[c], events |-> evs]
  <2>1. ~isInLoop_[c]
    BY <1>0, <1>3, NullAssumption DEF MapOK
  <2>2. e \in Pollfd
    BY <1>0 DEF Pollfd
  <2>3. /\ pollfds_' \in Seq(Pollfd) /\ DOMAIN pollfds_' = 1..Len(pollfds_) + 1
        /\ \A i \in 1..Len(pollfds_) : pollfds_'[i] = pollfds_[i]
        /\ pollfds_'[Len(pollfds_) + 1] = e
    <3> HIDE DEF e
    <3> QED
      BY <1>2, <1>3, <2>2, AppendProperties, LenProperties DEF e
  <2>4. TypeOK'
    BY <1>0, <1>1, <1>2, <1>3, <2>3 DEF TypeOK
  <2>5. MapOK'
    BY <1>0, <1>1, <1>3, <2>1, NullAssumption DEF MapOK, TypeOK
  <2>6. PollOK'
    <3>1. At(c)' = Len(pollfds_) + 1 /\ index_'[c] >= 0
      BY <1>0, <1>2, <1>3 DEF At, TypeOK
    <3>2. ASSUME NEW d \in Channels, d # c
          PROVE  At(d)' = At(d) /\ index_'[d] = index_[d] /\ isInLoop_'[d] = isInLoop_[d]
                 /\ events_'[d] = events_[d]
      BY <1>0, <1>1, <1>3, <3>2 DEF At, TypeOK
    <3>3. FdOf(e) = fd_[c] /\ e.events = events_'[c] /\ isInLoop_'[c]
      BY <1>0, <1>1, FdFacts DEF TypeOK
    <3>4. ASSUME NEW d \in Channels, isInLoop_'[d]
          PROVE  /\ index_'[d] >= 0 /\ At(d)' \in DOMAIN pollfds_'
                 /\ FdOf(pollfds_'[At(d)']) = fd_[d] /\ pollfds_'[At(d)'].events = events_'[d]
      <4>1. CASE d = c
        BY <1>2, <2>3, <3>1, <3>3, <4>1
      <4>2. CASE d # c
        BY <1>0, <1>2, <2>3, <3>2, <3>4, <4>2 DEF PollOK
      <4> QED
        BY <4>1, <4>2
    <3>5. ASSUME NEW i \in DOMAIN pollfds_'
          PROVE  \E d \in Channels : isInLoop_'[d] /\ At(d)' = i
      <4>1. CASE i = Len(pollfds_) + 1
        BY <3>1, <3>3, <4>1
      <4>2. CASE i \in DOMAIN pollfds_
        <5>1. PICK d \in Channels : isInLoop_[d] /\ At(d) = i
          BY <1>0, <4>2 DEF PollOK
        <5> QED
          BY <5>1, <2>1, <3>2
      <4> QED
        BY <1>2, <2>3, <4>1, <4>2
    <3> QED
      BY <1>1, <3>4, <3>5, Zenon DEF PollOK, FdOf
  <2> QED
    BY <1>0, <1>1, <2>4, <2>5, <2>6 DEF PollerInv
<1>4. CASE /\ index_[c] >= 0 /\ channels_[fd_[c]] # NULL
           /\ pollfds_[At(c)].fd \in {fd_[c], Ignored(fd_[c])}
           /\ pollfds_' = [pollfds_ EXCEPT ![At(c)] =
                                  [fd |-> IF evs = {} THEN Ignored(fd_[c]) ELSE @.fd,
                                   events |-> evs]]
           /\ UNCHANGED <<index_, channels_, epoll, watched, aborted>>
  <2>1. isInLoop_[c] /\ At(c) \in DOMAIN pollfds_ /\ At(c) \in 1..Len(pollfds_)
    BY <1>0, <1>2, <1>4, NullAssumption DEF MapOK, PollOK
  <2>2. PICK e : /\ pollfds_' = [pollfds_ EXCEPT ![At(c)] = e]
                 /\ e \in Pollfd /\ FdOf(e) = fd_[c] /\ e.events = evs
    <3> DEFINE e == [fd |-> IF evs = {} THEN Ignored(fd_[c]) ELSE pollfds_[At(c)].fd,
                     events |-> evs]
    <3>1. pollfds_' = [pollfds_ EXCEPT ![At(c)] = e]
      BY <1>4
    <3>2. e = [fd |-> fd_[c], events |-> evs] \/ e = [fd |-> Ignored(fd_[c]), events |-> evs]
      BY <1>4
    <3>3. e \in Pollfd /\ e.events = evs
      BY <1>0, <3>2 DEF Pollfd
    <3>4. FdOf(e) = fd_[c]
      BY <1>0, <3>2, FdFacts
    <3> QED
      BY <3>1, <3>3, <3>4
  <2>3. /\ pollfds_' \in Seq(Pollfd) /\ DOMAIN pollfds_' = DOMAIN pollfds_
        /\ \A i \in DOMAIN pollfds_ : pollfds_'[i] = IF i = At(c) THEN e ELSE pollfds_[i]
    BY <1>2, <2>1, <2>2, ExceptSeq
  <2>4. TypeOK'
    BY <1>0, <1>1, <1>4, <2>3 DEF TypeOK
  <2>5. MapOK'
    BY <1>0, <1>1, <1>4, <2>1, NullAssumption DEF MapOK, TypeOK
  <2>6. PollOK'
    <3>1. ASSUME NEW d \in Channels
          PROVE  /\ At(d)' = At(d) /\ isInLoop_'[d] = isInLoop_[d]
                 /\ d # c => events_'[d] = events_[d]
      BY <1>0, <1>1, <1>4, <2>1 DEF At, TypeOK
    <3>2. events_'[c] = evs
      BY <1>0, <1>1 DEF TypeOK
    <3>3. ASSUME NEW d \in Channels, d # c, isInLoop_[d] PROVE At(d) # At(c)
      BY <1>0, <2>1, <3>3 DEF PollOK, MapOK
    <3>4. ASSUME NEW d \in Channels, isInLoop_'[d]
          PROVE  /\ index_'[d] >= 0 /\ At(d)' \in DOMAIN pollfds_'
                 /\ FdOf(pollfds_'[At(d)']) = fd_[d] /\ pollfds_'[At(d)'].events = events_'[d]
      <4>1. CASE d = c
        BY <1>4, <2>1, <2>2, <2>3, <3>1, <3>2, <4>1
      <4>2. CASE d # c
        BY <1>0, <1>4, <2>3, <3>1, <3>3, <3>4, <4>2 DEF PollOK
      <4> QED
        BY <4>1, <4>2
    <3>5. ASSUME NEW i \in DOMAIN pollfds_'
          PROVE  \E d \in Channels : isInLoop_'[d] /\ At(d)' = i
      BY <1>0, <2>3, <3>1 DEF PollOK
    <3> QED
      BY <1>1, <3>4, <3>5, Zenon DEF PollOK, FdOf
  <2> QED
    BY <1>0, <1>1, <2>4, <2>5, <2>6 DEF PollerInv
<1> QED
  BY <1>1, <1>3, <1>4 DEF PollUpdateChannel

-----------------------------------------------------------------------------
(* Channel::remove                                                         *)

\* A removal that fails an assert leaves only what needs no poller.
LEMMA RemoveAborts ==
  ASSUME PollerInv, NEW c \in Channels, remove(c), Abort
  PROVE  PollerInv'
BY DEF PollerInv, TypeOK, Abort, pollerVars, Running, remove

\* EPollPoller::removeChannel takes the channel out of channels_ and the epoll set.
LEMMA EPollRemove ==
  ASSUME PollerInv, kind = "epoll", NEW c \in Channels, remove(c), ~Abort
  PROVE  PollerInv'
<1>0. /\ TypeOK /\ MapOK /\ EPollOK /\ Running /\ fd_[c] \in Fds /\ isInLoop_[c]
      /\ channels_[fd_[c]] = c
  BY DEF PollerInv, remove, TypeOK, MapOK
<1>1. /\ isInLoop_' = [isInLoop_ EXCEPT ![c] = FALSE]
      /\ channels_' = [channels_ EXCEPT ![fd_[c]] = NULL]
      /\ IF index_[c] = kAdded THEN Forget(c) ELSE UNCHANGED <<epoll, watched>>
      /\ index_' = [index_ EXCEPT ![c] = kNew]
      /\ UNCHANGED <<kind, alive, fd_, events_, activeChannels_, pollfds_, aborted>>
  BY DEF remove, removeChannel, EPollRemoveChannel
<1>2. /\ epoll' = [epoll EXCEPT ![fd_[c]] = NULL]
      /\ watched' \in [Fds -> SUBSET Events]
      /\ \A f \in Fds : f # fd_[c] => watched'[f] = watched[f]
  <2>1. CASE index_[c] = kAdded
    BY <1>0, <1>1, <2>1 DEF Forget, TypeOK
  <2>2. CASE index_[c] # kAdded
    <3>1. epoll[fd_[c]] = NULL
      BY <1>0, <2>2 DEF EPollOK
    <3> QED
      BY <1>0, <1>1, <2>2, <3>1 DEF TypeOK
  <2> QED
    BY <2>1, <2>2
<1>3. TypeOK'
  BY <1>0, <1>1, <1>2 DEF TypeOK, kNew
<1>4. ASSUME NEW d \in Channels, d # c, isInLoop_[d] PROVE fd_[d] # fd_[c]
  BY <1>0, <1>4 DEF MapOK
<1>5. MapOK'
  BY <1>0, <1>1, <1>4 DEF MapOK, TypeOK
<1>6. EPollOK'
  <2>1. ASSUME NEW d \in Channels, isInLoop_'[d]
        PROVE  \/ index_'[d] = kAdded /\ epoll'[fd_[d]] = d
               \/ index_'[d] = kDeleted /\ events_[d] = {} /\ epoll'[fd_[d]] = NULL
    BY <1>0, <1>1, <1>2, <1>4, <2>1 DEF TypeOK, EPollOK
  <2>2. ASSUME NEW f \in Fds, epoll'[f] # NULL
        PROVE  channels_'[f] = epoll'[f] /\ watched'[f] = events_[epoll'[f]]
    BY <1>0, <1>1, <1>2, <2>2 DEF TypeOK, EPollOK
  <2> QED
    BY <1>1, <2>1, <2>2 DEF EPollOK
<1> QED
  BY <1>0, <1>1, <1>3, <1>5, <1>6 DEF PollerInv

\* PollPoller::removeChannel: the channel of the last entry is the one that gets the
\* index of the removed one.
LEMMA PollRemove ==
  ASSUME PollerInv, kind = "poll", NEW c \in Channels, remove(c), ~Abort
  PROVE  PollerInv'
<1> DEFINE n == Len(pollfds_)
           last == pollfds_[n]
<1>0. /\ TypeOK /\ MapOK /\ PollOK /\ Running /\ fd_[c] \in Fds /\ isInLoop_[c]
      /\ channels_[fd_[c]] = c
  BY DEF PollerInv, remove, TypeOK, MapOK
<1>1. /\ isInLoop_' = [isInLoop_ EXCEPT ![c] = FALSE]
      /\ index_' = Reindexed(c)
      /\ pollfds_' = SubSeq([pollfds_ EXCEPT ![At(c)] = last], 1, n - 1)
      /\ channels_' = [channels_ EXCEPT ![fd_[c]] = NULL]
      /\ UNCHANGED <<kind, alive, fd_, events_, activeChannels_, epoll, watched, aborted>>
  BY DEF remove, removeChannel, PollRemoveChannel
<1>2. /\ n \in Nat /\ DOMAIN pollfds_ = 1..n /\ pollfds_ \in Seq(Pollfd)
      /\ At(c) \in 1..n /\ n \in 1..n /\ last \in Pollfd
  <2>1. n \in Nat /\ DOMAIN pollfds_ = 1..n /\ pollfds_ \in Seq(Pollfd)
    BY <1>0, LenProperties DEF TypeOK
  <2>2. At(c) \in 1..n /\ n \in 1..n
    BY <1>0, <2>1 DEF PollOK
  <2> QED
    BY <2>1, <2>2, ElementOfSeq
<1> HIDE DEF n, last
<1>3. /\ pollfds_' \in Seq(Pollfd) /\ DOMAIN pollfds_' = 1..n - 1
      /\ \A i \in 1..n - 1 : pollfds_'[i] = IF i = At(c) THEN last ELSE pollfds_[i]
  <2>1. PICK q : q = [pollfds_ EXCEPT ![At(c)] = last]
    OBVIOUS
  <2>2. /\ q \in Seq(Pollfd) /\ Len(q) = n
        /\ \A i \in 1..n : q[i] = IF i = At(c) THEN last ELSE pollfds_[i]
    BY <1>2, <2>1, ExceptSeq DEF n
  <2>3. 1 \in Int /\ n - 1 \in Int /\ \A i \in 1..n - 1 : q[i] \in Pollfd
    BY <1>2, <2>2, ElementOfSeq
  <2>4. /\ SubSeq(q, 1, n - 1) \in Seq(Pollfd)
        /\ Len(SubSeq(q, 1, n - 1)) = IF 1 <= n - 1 THEN n - 1 - 1 + 1 ELSE 0
        /\ \A i \in 1..n - 1 - 1 + 1 : SubSeq(q, 1, n - 1)[i] = q[1 + i - 1]
    BY <2>3, SubSeqProperties
  <2>5. Len(SubSeq(q, 1, n - 1)) = n - 1
    BY <1>2, <2>4
  <2>6. \A i \in 1..n - 1 : SubSeq(q, 1, n - 1)[i] = q[i]
    BY <1>2, <2>4
  <2> QED
    BY <1>1, <1>2, <2>1, <2>2, <2>4, <2>5, <2>6, LenProperties
<1>4. ASSUME NEW d \in Channels, d # c, isInLoop_[d] PROVE fd_[d] # fd_[c] /\ At(d) # At(c)
  BY <1>0, <1>4 DEF MapOK, PollOK
<1>5. MapOK'
  BY <1>0, <1>1, <1>4 DEF MapOK, TypeOK
<1>6. PICK m \in Channels : isInLoop_[m] /\ At(m) = n
  BY <1>0, <1>2 DEF PollOK
<1>7. ASSUME NEW d \in Channels, isInLoop_[d], At(d) = n PROVE d = m
  BY <1>0, <1>6, <1>7 DEF MapOK, PollOK
<1>8. index_' = IF At(c) = n THEN index_ ELSE [index_ EXCEPT ![m] = index_[c]]
  <2>1. channels_[FdOf(last)] = m
    BY <1>0, <1>6 DEF MapOK, PollOK, last
  <2> QED
    BY <1>1, <2>1 DEF Reindexed, n, last
<1>9. TypeOK'
  BY <1>0, <1>1, <1>3, <1>8 DEF TypeOK
<1>10. ASSUME NEW d \in Channels, isInLoop_'[d]
       PROVE  /\ d # c /\ isInLoop_[d]
              /\ At(d)' = IF d = m THEN At(c) ELSE At(d)
              /\ At(d)' \in 1..n - 1 /\ index_'[d] >= 0
  <2>1. d # c /\ isInLoop_[d]
    BY <1>0, <1>1, <1>10 DEF TypeOK
  <2>2. CASE d = m
    <3>1. At(c) # n
      BY <1>4, <1>6, <2>1, <2>2
    <3>2. index_'[d] = index_[c]
      BY <1>0, <1>8, <2>2, <3>1 DEF TypeOK
    <3>3. index_[c] >= 0 /\ index_[c] \in Int
      BY <1>0 DEF PollOK, TypeOK
    <3> QED
      BY <1>2, <2>1, <2>2, <3>1, <3>2, <3>3 DEF At
  <2>3. CASE d # m
    <3>1. index_'[d] = index_[d] /\ index_[d] \in Int
      BY <1>0, <1>8, <2>3 DEF TypeOK
    <3>2. At(d) # n /\ At(d) \in 1..n /\ index_[d] >= 0
      BY <1>0, <1>2, <1>7, <2>1, <2>3 DEF PollOK
    <3> QED
      BY <1>2, <2>1, <2>3, <3>1, <3>2 DEF At
  <2> QED
    BY <2>2, <2>3
<1>11. PollOK'
  <2>1. ASSUME NEW d \in Channels, isInLoop_'[d]
        PROVE  /\ index_'[d] >= 0 /\ At(d)' \in DOMAIN pollfds_'
               /\ FdOf(pollfds_'[At(d)']) = fd_[d] /\ pollfds_'[At(d)'].events = events_[d]
    <3>1. CASE d = m
      <4>1. pollfds_'[At(d)'] = last /\ last = pollfds_[At(d)]
        BY <1>3, <1>6, <1>10, <2>1, <3>1 DEF last
      <4> QED
        BY <1>0, <1>3, <1>10, <2>1, <4>1 DEF PollOK
    <3>2. CASE d # m
      <4>1. pollfds_'[At(d)'] = pollfds_[At(d)]
        BY <1>3, <1>4, <1>10, <2>1, <3>2
      <4> QED
        BY <1>0, <1>3, <1>10, <2>1, <4>1 DEF PollOK
    <3> QED
      BY <3>1, <3>2
  <2>2. ASSUME NEW i \in DOMAIN pollfds_'
        PROVE  \E d \in Channels : isInLoop_'[d] /\ At(d)' = i
    <3>1. i \in 1..n - 1 /\ i \in 1..n /\ i # n
      BY <1>2, <1>3
    <3>2. CASE i = At(c)
      <4>1. m # c
        BY <1>6, <3>1, <3>2
      <4>2. isInLoop_'[m]
        BY <1>0, <1>1, <1>6, <4>1 DEF TypeOK
      <4> QED
        BY <1>10, <3>2, <4>2
    <3>3. CASE i # At(c)
      <4>1. PICK d \in Channels : isInLoop_[d] /\ At(d) = i
        BY <1>0, <1>2, <3>1 DEF PollOK
      <4>2. d # c /\ d # m
        BY <1>6, <3>1, <3>3, <4>1
      <4>3. isInLoop_'[d]
        BY <1>0, <1>1, <4>1, <4>2 DEF TypeOK
      <4> QED
        BY <1>10, <4>1, <4>2, <4>3
    <3> QED
      BY <3>2, <3>3
  <2> QED
    BY <1>1, <2>1, <2>2, Zenon DEF PollOK, FdOf
<1> QED
  BY <1>0, <1>1, <1>5, <1>9, <1>11 DEF PollerInv

-----------------------------------------------------------------------------
(* The properties                                                          *)

\* Both pollers begin with no channel.
LEMMA PollerInvInitially == Init => PollerInv
<1> SUFFICES ASSUME Init PROVE PollerInv
  OBVIOUS
<1>1. pollfds_ \in Seq(Pollfd) /\ DOMAIN pollfds_ = {}
  BY EmptySeq DEF Init
<1>2. TypeOK
  <2>1. PICK f \in Fds : fd_ = [c \in Channels |-> f]
    BY DEF Init
  <2>2. fd_ \in [Channels -> Fds]
    BY <2>1
  <2>3. index_ \in [Channels -> Int]
    BY DEF Init, kNew
  <2> QED
    BY <1>1, <2>2, <2>3 DEF Init, TypeOK
<1>3. MapOK /\ EPollOK /\ PollOK
  BY <1>1 DEF Init, MapOK, EPollOK, PollOK
<1> QED
  BY <1>2, <1>3 DEF PollerInv

\* Every step of the loop thread keeps poller and channels in agreement.
LEMMA PollerInvKept == PollerInv /\ [Next]_vars => PollerInv'
<1> SUFFICES ASSUME PollerInv, [Next]_vars PROVE PollerInv'
  OBVIOUS
<1>1. ASSUME NEW c \in Channels, NEW evs \in SUBSET Events, MayUpdate(c), SetEvents(c, evs)
      PROVE  PollerInv'
  <2>1. CASE Abort
    BY <1>1, <2>1, UpdateAborts DEF MayUpdate, SetEvents
  <2>2. CASE ~Abort
    BY <1>1, <2>2, EPollUpdate, PollUpdate DEF PollerInv, TypeOK
  <2> QED
    BY <2>1, <2>2
<1>2. ASSUME NEW c \in Channels,
             enableRead(c) \/ enableWrite(c) \/ disableRead(c) \/ disableWrite(c) \/ disableAll(c)
      PROVE  PollerInv'
  <2>1. events_[c] \subseteq Events
    BY DEF PollerInv, TypeOK
  <2>2. PICK evs \in SUBSET Events : MayUpdate(c) /\ SetEvents(c, evs)
    BY <1>2, <2>1 DEF enableRead, enableWrite, disableRead, disableWrite, disableAll, Events
  <2> QED
    BY <1>1, <2>2
<1>3. ASSUME NEW c \in Channels, remove(c) PROVE PollerInv'
  <2>1. CASE Abort
    BY <1>3, <2>1, RemoveAborts
  <2>2. CASE ~Abort
    BY <1>3, <2>2, EPollRemove, PollRemove DEF PollerInv, TypeOK
  <2> QED
    BY <2>1, <2>2
<1>4. ASSUME NEW c \in Channels, NEW f \in Fds, NewChannel(c, f) PROVE PollerInv'
  <2>0. TypeOK /\ Running /\ MapOK /\ ~isInLoop_[c]
    BY <1>4 DEF PollerInv, NewChannel, TypeOK
  <2>1. TypeOK'
    BY <1>4, <2>0 DEF NewChannel, TypeOK, pollerVars, kNew
  <2>2. MapOK'
    BY <1>4, <2>0 DEF NewChannel, TypeOK, pollerVars, MapOK
  <2>3. CASE kind = "epoll"
    <3>1. EPollOK
      BY <2>0, <2>3 DEF PollerInv
    <3>2. ASSUME NEW g \in Fds, epoll[g] = c PROVE FALSE
      <4>1. c # NULL
        BY NullAssumption
      <4>2. channels_[g] = c
        BY <3>1, <3>2, <4>1 DEF EPollOK
      <4> QED
        BY <2>0, <4>1, <4>2 DEF MapOK
    <3>3. \A d \in Channels : isInLoop_'[d] =>
             /\ isInLoop_[d]
             /\ fd_'[d] = fd_[d] /\ events_'[d] = events_[d] /\ index_'[d] = index_[d]
      BY <1>4, <2>0 DEF NewChannel, TypeOK
    <3>4. \A g \in Fds : epoll[g] # NULL => events_'[epoll[g]] = events_[epoll[g]]
      BY <1>4, <2>0, <3>2 DEF NewChannel, TypeOK
    <3>5. EPollOK'
      BY <1>4, <3>1, <3>3, <3>4 DEF NewChannel, pollerVars, EPollOK
    <3> QED
      BY <1>4, <2>1, <2>2, <2>3, <3>5 DEF PollerInv, NewChannel
  <2>4. CASE kind = "poll"
    <3>1. PollOK
      BY <2>0, <2>4 DEF PollerInv
    <3>2. \A d \in Channels : isInLoop_'[d] <=> isInLoop_[d]
      BY <1>4, <2>0 DEF NewChannel, TypeOK
    <3>3. \A d \in Channels : isInLoop_[d] =>
             fd_'[d] = fd_[d] /\ events_'[d] = events_[d] /\ index_'[d] = index_[d]
      BY <1>4, <2>0 DEF NewChannel, TypeOK
    <3>4. PollOK'
      BY <1>4, <3>1, <3>2, <3>3 DEF NewChannel, PollOK, pollerVars, At
    <3> QED
      BY <1>4, <2>1, <2>2, <2>4, <3>4 DEF PollerInv, NewChannel
  <2> QED
    BY <2>0, <2>3, <2>4 DEF TypeOK
<1>5. ASSUME NEW c \in Channels, DestroyChannel(c) PROVE PollerInv'
  <2>1. CASE isInLoop_[c]
    BY <1>5, <2>1 DEF DestroyChannel, PollerInv, TypeOK, Running, pollerVars
  <2>2. CASE ~isInLoop_[c]
    <3>1. TypeOK'
      BY <1>5, <2>2 DEF DestroyChannel, PollerInv, TypeOK, pollerVars
    <3>2. MapOK'
      BY <1>5, <2>2 DEF DestroyChannel, PollerInv, MapOK, pollerVars
    <3>3. kind = "epoll" => EPollOK'
      BY <1>5, <2>2 DEF DestroyChannel, PollerInv, EPollOK, pollerVars
    <3>4. kind = "poll" => PollOK'
      BY <1>5, <2>2 DEF DestroyChannel, PollerInv, PollOK, pollerVars, At
    <3> QED
      BY <1>5, <3>1, <3>2, <3>3, <3>4 DEF DestroyChannel, PollerInv
  <2> QED
    BY <2>1, <2>2
<1>6. ASSUME UNCHANGED <<kind, channelVars, pollerVars>>, Running, aborted' \in BOOLEAN,
             activeChannels_' \subseteq Channels,
             ~aborted' => activeChannels_' \subseteq alive
      PROVE  PollerInv'
  <2>1. TypeOK'
    BY <1>6 DEF channelVars, PollerInv, TypeOK, pollerVars
  <2>2. ~aborted' => MapOK'
    BY <1>6 DEF channelVars, PollerInv, MapOK, pollerVars
  <2>3. kind = "epoll" => EPollOK'
    BY <1>6 DEF channelVars, PollerInv, EPollOK, pollerVars
  <2>4. kind = "poll" => PollOK'
    BY <1>6 DEF channelVars, PollerInv, PollOK, pollerVars, At
  <2> QED
    BY <1>6, <2>1, <2>2, <2>3, <2>4 DEF PollerInv, Running
<1>7. CASE Poll
  <2>1. PICK ready \in (SUBSET Polled) \ {{}} :
             /\ activeChannels_' = {Reported(f) : f \in ready}
             /\ aborted' = \E f \in ready : channels_[f] # Reported(f) \/ Reported(f) = NULL
    BY <1>7 DEF Poll
  <2>2. UNCHANGED <<kind, channelVars, pollerVars>> /\ Running /\ aborted' \in BOOLEAN
    BY <1>7, <2>1 DEF Poll
  <2>3. TypeOK /\ MapOK /\ ready \subseteq Fds
    BY <2>2 DEF PollerInv, Polled
  <2>4. ASSUME NEW f \in ready PROVE Reported(f) \in Channels
    <3>1. CASE kind = "epoll"
      BY <2>1, <2>3, <3>1 DEF Reported, Polled, TypeOK
    <3>2. CASE kind = "poll"
      <4>1. PollOK /\ f \in Fds
        BY <2>2, <2>3, <3>2 DEF PollerInv
      <4>2. PICK i \in DOMAIN pollfds_ : pollfds_[i].fd = f
        BY <2>1, <3>2 DEF Polled
      <4>3. PICK d \in Channels : isInLoop_[d] /\ At(d) = i
        BY <4>1, <4>2 DEF PollOK
      <4>4. FdOf(pollfds_[i]) = f
        BY <4>1, <4>2, FdsAssumption DEF FdOf
      <4>5. channels_[f] = d
        BY <2>3, <4>1, <4>3, <4>4 DEF PollOK, MapOK
      <4> QED
        BY <3>2, <4>5 DEF Reported
    <3> QED
      BY <2>3, <3>1, <3>2 DEF TypeOK
  <2>5. ASSUME ~aborted', NEW f \in ready PROVE Reported(f) \in alive
    BY <2>1, <2>3, <2>4, <2>5 DEF MapOK, TypeOK
  <2> QED
    BY <1>6, <2>1, <2>2, <2>4, <2>5
<1>8. ASSUME NEW c \in Channels, HandleEvent(c) PROVE PollerInv'
  BY <1>6, <1>8 DEF HandleEvent, PollerInv, TypeOK, MapOK, Running
<1>9. CASE UNCHANGED vars
  <2>1. TypeOK'
    BY <1>9 DEF channelVars, PollerInv, TypeOK, pollerVars, vars
  <2>2. Running' => MapOK'
    BY <1>9 DEF channelVars, PollerInv, MapOK, pollerVars, vars, Running
  <2>3. Running' /\ kind = "epoll" => EPollOK'
    BY <1>9 DEF channelVars, PollerInv, EPollOK, pollerVars, vars, Running
  <2>4. Running' /\ kind = "poll" => PollOK'
    BY <1>9 DEF channelVars, PollerInv, PollOK, pollerVars, At, vars, Running
  <2> QED
    BY <1>9, <2>1, <2>2, <2>3, <2>4 DEF PollerInv, vars
<1> QED
  BY <1>2, <1>3, <1>4, <1>5, <1>7, <1>8, <1>9 DEF Next

\* EPollPoller and PollPoller: the channels, the map, index_ and what the kernel is told
\* stay consistent, for any number of channels and descriptors.
THEOREM PollerConsistent == Spec => []PollerInv
BY PollerInvInitially, PollerInvKept, PTL DEF Spec

\* EPollPoller: the kernel watches exactly the channels in the loop that have events,
\* each for the events it has now.
THEOREM EPollCorrect == Spec => []EPollWatches
<1>1. PollerInv => EPollWatches
  BY NullAssumption DEF PollerInv, TypeOK, MapOK, EPollOK, EPollWatches, InLoop
<1> QED
  BY <1>1, PollerConsistent, PTL

\* PollPoller: removing by moving the last entry keeps every channel at its index.
THEOREM PollfdsCorrect == Spec => []PollfdsIndexed
<1>1. PollerInv => PollfdsIndexed
  BY DEF PollerInv, TypeOK, PollOK, PollfdsIndexed, InLoop
<1> QED
  BY <1>1, PollerConsistent, PTL

\* Poller.h: the map holds exactly the channels in the loop, and nothing that either
\* poller reports has been destroyed.
THEOREM NothingDangles == Spec => []NoDangling
<1>1. PollerInv => NoDangling
  <2> SUFFICES ASSUME PollerInv, Running
               PROVE  /\ {c \in Channels : \E f \in Fds : channels_[f] = c} = InLoop
                      /\ \A c \in InLoop : channels_[fd_[c]] = c
                      /\ activeChannels_ \subseteq alive
                      /\ \A f \in Polled : Reported(f) \in alive /\ channels_[f] = Reported(f)
    BY DEF PollerInv, NoDangling
  <2>0. TypeOK /\ MapOK
    BY DEF PollerInv
  <2>1. {c \in Channels : \E f \in Fds : channels_[f] = c} = InLoop
    BY <2>0, NullAssumption DEF TypeOK, MapOK, InLoop
  <2>2. (\A c \in InLoop : channels_[fd_[c]] = c) /\ activeChannels_ \subseteq alive
    BY <2>0 DEF TypeOK, MapOK, InLoop
  <2>3. ASSUME NEW f \in Polled PROVE Reported(f) \in alive /\ channels_[f] = Reported(f)
    <3>1. CASE kind = "epoll"
      BY <2>0, <3>1 DEF TypeOK, MapOK, PollerInv, EPollOK, Polled, Reported
    <3>2. CASE kind = "poll"
      <4>1. PollOK /\ f \in Fds
        BY <3>2 DEF PollerInv, Polled
      <4>2. PICK i \in DOMAIN pollfds_ : pollfds_[i].fd = f
        BY <3>2 DEF Polled
      <4>3. PICK d \in Channels : isInLoop_[d] /\ At(d) = i
        BY <4>1, <4>2 DEF PollOK
      <4>4. FdOf(pollfds_[i]) = f
        BY <4>1, <4>2, FdsAssumption DEF FdOf
      <4>5. channels_[f] = d
        BY <2>0, <4>1, <4>3, <4>4 DEF PollOK, MapOK
      <4> QED
        BY <2>0, <3>2, <4>3, <4>5 DEF Reported, TypeOK
    <3> QED
      BY <2>0, <3>1, <3>2 DEF TypeOK
  <2> QED
    BY <2>1, <2>2, <2>3
<1> QED
  BY <1>1, PollerConsistent, PTL
=============================================================================
