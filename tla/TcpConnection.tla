--------------------------- MODULE TcpConnection ---------------------------
(***************************************************************************)
(* arale/net/TcpConnection.{h,cc} and the Channel (Channel.{h,cc}) that it *)
(* drives: one connection, its loop thread, other threads that call it,    *)
(* the peer behind the socket, and the owner (TcpServer or TcpClient).     *)
(*                                                                         *)
(* Bytes are numbered as sendInLoop takes them.  Handlers and functors are *)
(* steps of the loop thread; a call from another thread is split where it  *)
(* reads state_, where it assigns it and where it posts.  Functors run in  *)
(* the order of their posts, as EventLoop promises.  The poller keeps   *)
(* the events and the index of the channel.  A failed assert stops the     *)
(* program (build.sh builds with asserts), and a caller keeps the memory   *)
(* it passes to send until it is sent.                                     *)
(***************************************************************************)
EXTENDS Naturals, Sequences

CONSTANTS
    Threads,          \* threads other than the loop thread
    LoopCalls,        \* the public calls that the loop thread makes
    RemoteCalls,      \* the public calls that the other threads make
    OwnerMayDie,      \* the owner may be destroyed before the connection
    MaxSend,          \* bound: bytes in one send
    MaxBytes,         \* bound: bytes given to sendInLoop
    MaxPending,       \* bound: functors pending when a thread posts
    HighWaterMark     \* highWaterMark_

AllCalls == {"send", "sendBuffer", "shutdown", "forceClose", "forceCloseWithDelay",
             "startRead", "stopRead"}

ASSUME CallsAssumption == LoopCalls \subseteq AllCalls /\ RemoteCalls \subseteq AllCalls
ASSUME OwnerAssumption == OwnerMayDie \in BOOLEAN
ASSUME BoundsAssumption == /\ MaxSend \in Nat /\ MaxBytes \in Nat
                           /\ MaxPending \in Nat /\ HighWaterMark \in Nat

VARIABLES
    state_, reading_,
    events_,         \* of readWriteChannel_
    isInLoop_,       \* of readWriteChannel_
    index_,          \* of readWriteChannel_; "abort": an assert of the poller failed
    revents,         \* what poll reported and handleEvent has not handled yet
    output,          \* outputBuffer_
    sent,            \* history: the bytes the kernel took
    accepted,        \* number of the bytes sendInLoop has written or buffered
    fin,             \* shutDownWrite was called
    peer,            \* "open", "fin" (it will send no more) or "reset"
    sockErr,         \* SO_ERROR is pending
    inbound,         \* there is data to read
    pending,         \* the functors of this connection in the loop
    pc,              \* for each other thread, the call it is in
    delayed,         \* the timer of forceCloseWithDelay is running
    owner,           \* "holds", "removing" or "released": the owner's pointer
    closed,          \* history: handleClose or connectionDestroyed has disabled
                     \* the channel
    failed           \* the assert that failed; "deleted": the connection has ended

inPoller == <<isInLoop_, index_>>
connVars == <<state_, reading_, events_, inPoller, output>>
netVars == <<sent, fin, peer, sockErr, inbound>>
vars == <<connVars, netVars, revents, accepted, pending, pc, delayed, owner,
          closed, failed>>

-----------------------------------------------------------------------------
States == {"kConnecting", "kConnected", "kDisconnecting", "kDisconnected"}
Events == {"read", "write"}
Revents == {"hup", "err", "in", "out"}

Sends == [op : {"send", "sendBuffer"}, len : 1..MaxSend]

Functors ==
    [op : {"established", "destroyed", "writeComplete", "highWater", "shutdown",
           "forceClose", "startRead", "stopRead"}]
    \cup Sends

Idle == [op |-> "idle"]
Pcs == {Idle} \cup [op : RemoteCalls, at : {"set", "post"}]

Failures == {"no", "handleClose", "forceClose", "closeTwice", "remove", "~TcpConnection",
             "~Channel", "dangling", "deleted"}

\* The connection is there and no assert has failed.
Running == failed = "no" /\ index_ # "abort"

\* The variables have their types, the output buffer and what was sent are made of
\* bytes that sendInLoop took, and a channel that the poller watches knows that it
\* does (Channel::isInLoop_).
TypeOK ==
    /\ state_ \in States
    /\ reading_ \in BOOLEAN
    /\ events_ \subseteq Events
    /\ isInLoop_ \in BOOLEAN
    /\ index_ \in {"kNew", "kAdded", "kDeleted", "abort"}
    /\ revents \subseteq Revents
    /\ accepted \in Nat
    /\ output \in Seq(1..accepted)
    /\ sent \in Seq(1..accepted)
    /\ fin \in BOOLEAN
    /\ peer \in {"open", "fin", "reset"}
    /\ sockErr \in BOOLEAN
    /\ inbound \in BOOLEAN
    /\ pending \in Seq(Functors)
    /\ pc \in [Threads -> Pcs]
    /\ delayed \in BOOLEAN
    /\ owner \in {"holds", "removing", "released"}
    /\ closed \in BOOLEAN
    /\ failed \in Failures
    /\ Running => (isInLoop_ <=> index_ # "kNew") /\ (events_ # {} => index_ = "kAdded")

\* The owner has constructed the connection and run connectionEstablished in its
\* loop (TcpServer::newConncetion).
Init ==
    /\ state_ = "kConnecting"
    /\ reading_ = FALSE
    /\ events_ = {}
    /\ isInLoop_ = FALSE
    /\ index_ = "kNew"
    /\ revents = {}
    /\ output = <<>>
    /\ sent = <<>>
    /\ accepted = 0
    /\ fin = FALSE
    /\ peer = "open"
    /\ sockErr = FALSE
    /\ inbound = FALSE
    /\ pending = <<[op |-> "established"]>>
    /\ pc = [t \in Threads |-> Idle]
    /\ delayed = FALSE
    /\ owner = "holds"
    /\ closed = FALSE
    /\ failed = "no"

-----------------------------------------------------------------------------
(* Channel                                                                 *)

\* EPollPoller::updateChannel: a channel that is kDeleted is still in channels_, and
\* assert(channels_.find(fd) == channels_.end()) fails for it.
updateChannel(evs) ==
    \/ index_ = "kNew" /\ index_' = "kAdded"
    \/ index_ = "kDeleted" /\ index_' = "abort"
    \/ index_ = "kAdded" /\ index_' = IF evs = {} THEN "kDeleted" ELSE "kAdded"

\* events_ is assigned, and update() called.
SetEvents(evs) == events_' = evs /\ isInLoop_' = TRUE /\ updateChannel(evs)

enableRead == SetEvents(events_ \cup {"read"})
disableRead == SetEvents(events_ \ {"read"})
enableWrite == SetEvents(events_ \cup {"write"})

\* events_ &= kWriteEvent
disableWrite == SetEvents(events_ \cap {"write"})

\* Mutant of disableAll: reading is left enabled.
disableAllButRead == SetEvents(events_ \ {"write"})

disableAll == SetEvents({})

isWriting == "write" \in events_

-----------------------------------------------------------------------------
(* The functions that run in the loop thread.  Each says what becomes of    *)
(* connVars, sent, accepted, fin, sockErr, owner, closed and failed; q is   *)
(* the sequence of functors that pending had before it posts.               *)

\* write(2) to a socket that was shut down or reset fails.
Broken == fin \/ peer = "reset"

Post(q, ops) == pending' = q \o [i \in DOMAIN ops |-> [op |-> ops[i]]]

\* Mutant of sendInLoop: the write is tried although data is queued.
sendInLoopOvertakes(n, q) ==
    LET data == [i \in 1..n |-> accepted + i]
    IN /\ ~Broken
       /\ accepted' = accepted + n
       /\ \E k \in 0..n :
             /\ sent' = sent \o SubSeq(data, 1, k)
             /\ output' = output \o SubSeq(data, k + 1, n)
             /\ IF k = n THEN UNCHANGED <<events_, inPoller>> ELSE enableWrite
             /\ Post(q, IF k = n THEN <<"writeComplete">> ELSE <<>>)
       /\ UNCHANGED <<state_, reading_, fin, sockErr, owner, closed, failed>>

\* Mutant of sendInLoop: the rest is buffered and writing is not enabled.
sendInLoopForgets(n, q) ==
    LET data == [i \in 1..n |-> accepted + i]
    IN /\ ~Broken
       /\ accepted' = accepted + n
       /\ \E k \in 0..n :
             /\ k > 0 => output = <<>> /\ ~isWriting
             /\ sent' = sent \o SubSeq(data, 1, k)
             /\ output' = output \o SubSeq(data, k + 1, n)
       /\ Post(q, <<>>)
       /\ UNCHANGED <<state_, reading_, events_, inPoller, fin, sockErr, owner,
                      closed, failed>>

\* The data is written when none is queued, k bytes of it, and the rest is put in
\* outputBuffer_; when the write finds the connection broken it is given up.
sendInLoop(n, q) ==
    LET data == [i \in 1..n |-> accepted + i]
        direct == ~isWriting /\ output = <<>>
    IN /\ \/ /\ direct /\ Broken
             /\ sockErr' = FALSE
             /\ Post(q, <<>>)
             /\ UNCHANGED <<accepted, sent, output, events_, inPoller>>
          \/ /\ ~(direct /\ Broken)
             /\ accepted' = accepted + n
             /\ \E k \in IF direct THEN 0..n ELSE {0} :
                   LET queued == Len(output) + n - k
                   IN /\ sent' = sent \o SubSeq(data, 1, k)
                      /\ output' = output \o SubSeq(data, k + 1, n)
                      /\ IF k = n \/ isWriting THEN UNCHANGED <<events_, inPoller>>
                                             ELSE enableWrite
                      /\ Post(q, IF k = n THEN <<"writeComplete">>
                                 ELSE IF /\ Len(output) < HighWaterMark
                                         /\ queued >= HighWaterMark
                                      THEN <<"highWater">> ELSE <<>>)
             /\ UNCHANGED sockErr
       /\ UNCHANGED <<state_, reading_, fin, owner, closed, failed>>

\* socket_->shutDownWrite() unless the channel, with these events, is writing.
shutdownInLoop(evs) == fin' = (fin \/ "write" \notin evs)

\* handleClose, with the owner's closeCallback_: the owner finds the connection in
\* its map, or asserts (TcpServer::removeConnectionInLoop).
handleClose ==
    \/ /\ state_ \notin {"kConnected", "kDisconnecting"}
       /\ failed' = "handleClose"
       /\ UNCHANGED <<connVars, owner, closed>>
    \/ /\ state_ \in {"kConnected", "kDisconnecting"}
       /\ state_' = "kDisconnected"
       /\ disableAll
       /\ closed' = TRUE
       /\ owner' = IF owner = "holds" THEN "removing" ELSE owner
       /\ failed' = IF closed THEN "closeTwice" ELSE failed
       /\ UNCHANGED <<reading_, output>>

-----------------------------------------------------------------------------
(* Events: poll reports them and handleEventWithGuard handles them          *)

\* handleEventWithGuard: event e is the next that it handles, in the order hup, err,
\* in, out.
handleEventWithGuard(e) ==
    /\ Running /\ e \in revents
    /\ e # "hup" => "hup" \notin revents
    /\ e \in {"in", "out"} => "err" \notin revents
    /\ e = "out" => "in" \notin revents

\* What the kernel can report; POLLOUT comes and goes with the send buffer.
Ready ==
    {e \in Revents :
        \/ e = "hup" /\ (peer = "reset" \/ (peer = "fin" /\ fin))
        \/ e = "err" /\ sockErr
        \/ e = "in" /\ "read" \in events_ /\ (inbound \/ peer # "open")
        \/ e = "out" /\ isWriting}

Poll(out) ==
    /\ Running /\ revents = {} /\ events_ # {}
    /\ revents' = IF out THEN Ready ELSE Ready \ {"out"}
    /\ revents' # {}
    /\ UNCHANGED <<connVars, netVars, accepted, pending, pc, delayed, owner, closed, failed>>

\* POLLHUP: closeCallback_, unless there is something to read.
HandleHup ==
    /\ handleEventWithGuard("hup")
    /\ revents' = revents \ {"hup"}
    /\ IF "in" \in revents THEN UNCHANGED <<connVars, owner, closed, failed>>
                           ELSE handleClose
    /\ UNCHANGED <<netVars, accepted, pending, pc, delayed>>

\* POLLERR: handleError reads SO_ERROR, which clears it.
HandleError ==
    /\ handleEventWithGuard("err")
    /\ revents' = revents \ {"err"}
    /\ sockErr' = FALSE
    /\ UNCHANGED <<connVars, sent, fin, peer, inbound, accepted, pending, pc, delayed,
                   owner, closed, failed>>

\* Mutant of HandleRead: end of file is taken for data.
HandleReadNoEof ==
    /\ handleEventWithGuard("in")
    /\ revents' = revents \ {"in"}
    /\ inbound' = FALSE
    /\ sockErr' = FALSE
    /\ UNCHANGED <<connVars, sent, fin, peer, accepted, pending, pc, delayed, owner,
                   closed, failed>>

\* handleRead: data, or an error that becomes a positive size_t, goes to
\* messageCallback_; end of file closes.
HandleRead ==
    /\ handleEventWithGuard("in")
    /\ revents' = revents \ {"in"}
    /\ \/ /\ inbound
          /\ inbound' = FALSE
          /\ UNCHANGED <<connVars, sockErr, owner, closed, failed>>
       \/ /\ ~inbound /\ (sockErr \/ peer = "open")
          /\ sockErr' = FALSE
          /\ UNCHANGED <<connVars, inbound, owner, closed, failed>>
       \/ /\ ~inbound /\ ~sockErr /\ peer # "open"
          /\ handleClose
          /\ UNCHANGED <<inbound, sockErr>>
    /\ UNCHANGED <<sent, fin, peer, accepted, pending, pc, delayed>>

\* Mutant of HandleWrite: the shutdown is done when the write was partial.
HandleWriteHasty ==
    /\ handleEventWithGuard("out")
    /\ revents' = {}
    /\ isWriting /\ output # <<>> /\ ~Broken
    /\ \E k \in 1..Len(output) :
          /\ sent' = sent \o SubSeq(output, 1, k)
          /\ output' = SubSeq(output, k + 1, Len(output))
    /\ fin' = (fin \/ state_ = "kDisconnecting")
    /\ UNCHANGED <<state_, reading_, events_, inPoller, peer, sockErr, inbound,
                   accepted, pending, pc, delayed, owner, closed, failed>>

\* handleWrite: k bytes are written; when nothing is left writing is disabled,
\* writeCompleteCallback_ is posted and a shutdown that was waiting is done.  A
\* write of nothing, or one that fails, changes nothing.
HandleWrite ==
    /\ handleEventWithGuard("out")
    /\ revents' = {}
    /\ \/ /\ isWriting /\ output # <<>> /\ ~Broken
          /\ \E k \in 1..Len(output) :
                /\ sent' = sent \o SubSeq(output, 1, k)
                /\ output' = SubSeq(output, k + 1, Len(output))
                /\ \/ /\ k < Len(output)
                      /\ UNCHANGED <<events_, inPoller, pending, fin>>
                   \/ /\ k = Len(output)
                      /\ disableWrite
                      /\ Post(pending, <<"writeComplete">>)
                      /\ IF state_ = "kDisconnecting" THEN shutdownInLoop(events_')
                                                      ELSE UNCHANGED fin
          /\ UNCHANGED sockErr
       \/ /\ isWriting /\ output # <<>> /\ Broken
          /\ sockErr' = FALSE
          /\ UNCHANGED <<sent, output, events_, inPoller, pending, fin>>
       \/ /\ ~isWriting \/ output = <<>>
          /\ UNCHANGED <<sent, output, events_, inPoller, pending, fin, sockErr>>
    /\ UNCHANGED <<state_, reading_, peer, inbound, accepted, pc, delayed, owner,
                   closed, failed>>

-----------------------------------------------------------------------------
(* Functors: doPendingFunctors runs the next one, after the events.         *)

connectionEstablished ==
    /\ state_' = "kConnected"
    /\ enableRead
    /\ UNCHANGED <<reading_, output, closed, failed>>

\* A connection that is not kConnected is taken to be disabled already; the
\* poller asserts that it is (EPollPoller::removeChannel).  One that is kConnected is
\* disabled, which fails when its channel is kDeleted already (updateChannel).
connectionDestroyed ==
    LET evs == IF state_ = "kConnected" THEN {} ELSE events_
        aborts == state_ = "kConnected" /\ index_ = "kDeleted"
    IN /\ state_' = IF state_ = "kConnected" THEN "kDisconnected" ELSE state_
       /\ events_' = evs
       /\ closed' = TRUE
       /\ isInLoop_' = aborts
       /\ index_' = IF aborts THEN "abort" ELSE "kNew"
       /\ failed' = IF evs # {} THEN "remove" ELSE failed
       /\ UNCHANGED <<reading_, output>>

startReadInLoop ==
    /\ IF ~reading_ \/ "read" \notin events_
       THEN enableRead /\ reading_' = TRUE
       ELSE UNCHANGED <<events_, inPoller, reading_>>
    /\ UNCHANGED <<state_, output, owner, closed, failed>>

stopReadInLoop ==
    /\ IF reading_ \/ "read" \in events_
       THEN disableRead /\ reading_' = FALSE
       ELSE UNCHANGED <<events_, inPoller, reading_>>
    /\ UNCHANGED <<state_, output, owner, closed, failed>>

forceCloseInLoop ==
    \/ /\ state_ # "kDisconnecting"
       /\ failed' = "forceClose"
       /\ UNCHANGED <<connVars, owner, closed>>
    \/ state_ = "kDisconnecting" /\ handleClose

\* The functors that neither send nor post.
RunOther(op) ==
    \/ op = "established" /\ connectionEstablished /\ UNCHANGED <<owner, fin>>
    \/ op = "destroyed" /\ connectionDestroyed /\ UNCHANGED <<owner, fin>>
    \/ op = "startRead" /\ startReadInLoop /\ UNCHANGED fin
    \/ op = "stopRead" /\ stopReadInLoop /\ UNCHANGED fin
    \/ op = "shutdown" /\ shutdownInLoop(events_)
                        /\ UNCHANGED <<connVars, owner, closed, failed>>
    \/ op = "forceClose" /\ forceCloseInLoop /\ UNCHANGED fin
    \/ op \in {"writeComplete", "highWater"}
       /\ UNCHANGED <<connVars, fin, owner, closed, failed>>

\* A posted send(Buffer*) is send(string) in the loop thread: it looks at state_
\* again.  A posted send(void*) is sendInLoop.
RunFunctor ==
    /\ Running /\ revents = {} /\ pending # <<>>
    /\ LET f == Head(pending)
       IN \/ /\ \/ f.op = "send"
                \/ f.op = "sendBuffer" /\ state_ = "kConnected"
             /\ sendInLoop(f.len, Tail(pending))
          \/ /\ f.op = "sendBuffer" /\ state_ # "kConnected"
             /\ pending' = Tail(pending)
             /\ UNCHANGED <<connVars, sent, accepted, fin, sockErr, owner, closed,
                            failed>>
          \/ /\ f.op \notin {"send", "sendBuffer"}
             /\ RunOther(f.op)
             /\ pending' = Tail(pending)
             /\ UNCHANGED <<sent, accepted, sockErr>>
    /\ UNCHANGED <<peer, inbound, revents, pc, delayed>>

-----------------------------------------------------------------------------
(* Calls in the loop thread: runInLoop executes them at once.  They are     *)
(* made by callbacks of this or of other channels, or by functors.          *)

LoopSend ==
    /\ Running /\ state_ = "kConnected"
    /\ LoopCalls \cap {"send", "sendBuffer"} # {}
    /\ \E n \in 1..MaxSend : accepted + n <= MaxBytes /\ sendInLoop(n, pending)
    /\ UNCHANGED <<peer, inbound, revents, pc, delayed>>

LoopShutdown ==
    /\ Running /\ "shutdown" \in LoopCalls /\ state_ = "kConnected"
    /\ state_' = "kDisconnecting"
    /\ shutdownInLoop(events_)
    /\ UNCHANGED <<reading_, events_, inPoller, output, sent, peer, sockErr, inbound,
                   revents, accepted, pending, pc, delayed, owner, closed,
                   failed>>

\* forceClose, by the user or by the timer of forceCloseWithDelay.
LoopForceClose ==
    /\ Running /\ state_ \in {"kConnected", "kDisconnecting"}
    /\ \/ "forceClose" \in LoopCalls /\ UNCHANGED delayed
       \/ delayed /\ delayed' = FALSE
    /\ handleClose
    /\ UNCHANGED <<netVars, revents, accepted, pending, pc>>

LoopForceCloseWithDelay ==
    /\ Running /\ "forceCloseWithDelay" \in LoopCalls
    /\ state_ \in {"kConnected", "kDisconnecting"}
    /\ state_' = "kDisconnecting"
    /\ delayed' = TRUE
    /\ UNCHANGED <<reading_, events_, inPoller, output, netVars, revents, accepted,
                   pending, pc, owner, closed, failed>>

LoopStartStopRead ==
    /\ Running /\ state_ = "kConnected"
    /\ \/ "startRead" \in LoopCalls /\ startReadInLoop
       \/ "stopRead" \in LoopCalls /\ stopReadInLoop
    /\ UNCHANGED <<netVars, revents, accepted, pending, pc, delayed>>

-----------------------------------------------------------------------------
(* Calls in another thread                                                 *)

\* The call looks at state_, without a lock; startRead and stopRead assert it.
RemoteCheck(t, c) ==
    /\ Running /\ pc[t] = Idle
    /\ \/ state_ = "kConnected"
       \/ state_ = "kDisconnecting" /\ c \in {"forceClose", "forceCloseWithDelay"}
    /\ pc' = [pc EXCEPT ![t] =
                 [op |-> c, at |-> IF c \in {"shutdown", "forceClose",
                                             "forceCloseWithDelay"}
                                   THEN "set" ELSE "post"]]
    /\ UNCHANGED <<connVars, netVars, revents, accepted, pending, delayed, owner,
                   closed, failed>>

\* setState(kDisconnecting)
RemoteSetState(t) ==
    /\ Running /\ pc[t] # Idle /\ pc[t].at = "set"
    /\ state_' = "kDisconnecting"
    /\ pc' = [pc EXCEPT ![t].at = "post"]
    /\ UNCHANGED <<reading_, events_, inPoller, output, netVars, revents, accepted,
                   pending, delayed, owner, closed, failed>>

\* Bytes that sends still pending will take.
RoomFor(n) == accepted + n + MaxSend * Len(SelectSeq(pending, LAMBDA f : f \in Sends))
                  <= MaxBytes

\* loop_->runInLoop, or runAfter
RemotePost(t) ==
    /\ Running /\ pc[t] # Idle /\ pc[t].at = "post"
    /\ Len(pending) < MaxPending
    /\ LET c == pc[t].op
       IN \/ /\ c \in {"send", "sendBuffer"}
             /\ \E n \in 1..MaxSend :
                   /\ RoomFor(n)
                   /\ pending' = Append(pending, [op |-> c, len |-> n])
             /\ UNCHANGED delayed
          \/ /\ c = "forceCloseWithDelay"
             /\ delayed' = TRUE
             /\ UNCHANGED pending
          \/ /\ c \in {"shutdown", "forceClose", "startRead", "stopRead"}
             /\ pending' = Append(pending, [op |-> c])
             /\ UNCHANGED delayed
    /\ pc' = [pc EXCEPT ![t] = Idle]
    /\ UNCHANGED <<connVars, netVars, revents, accepted, owner, closed, failed>>

-----------------------------------------------------------------------------
(* The owner and the peer                                                  *)

\* The owner posts connectionDestroyed: because closeCallback_ told it to remove
\* the connection, or because it is itself destroyed (~TcpServer).
OwnerReleases ==
    /\ Running
    /\ owner = "removing" \/ (owner = "holds" /\ OwnerMayDie)
    /\ owner' = "released"
    /\ pending' = Append(pending, [op |-> "destroyed"])
    /\ UNCHANGED <<connVars, netVars, revents, accepted, pc, delayed, closed,
                   failed>>

\* ~TcpConnection, when the owner, the functors bound to a shared pointer, the guard of
\* handleEvent and every caller have let go of the connection.  A functor bound to a
\* raw this may still be pending.
LastReference ==
    /\ Running /\ owner = "released" /\ revents = {}
    /\ \A t \in Threads : pc[t] = Idle
    /\ \A i \in DOMAIN pending :
          pending[i].op \notin {"established", "destroyed", "writeComplete", "highWater"}
    /\ failed' = IF state_ # "kDisconnected" THEN "~TcpConnection"
                 ELSE IF isInLoop_ THEN "~Channel"
                 ELSE IF pending # <<>> THEN "dangling" ELSE "deleted"
    /\ UNCHANGED <<connVars, netVars, revents, accepted, pending, pc, delayed, owner,
                   closed>>

PeerSends ==
    /\ Running /\ peer = "open" /\ ~inbound
    /\ inbound' = TRUE
    /\ UNCHANGED <<connVars, sent, fin, peer, sockErr, revents, accepted, pending, pc,
                   delayed, owner, closed, failed>>

PeerCloses ==
    /\ Running /\ peer = "open"
    /\ peer' = "fin"
    /\ UNCHANGED <<connVars, sent, fin, sockErr, inbound, revents, accepted, pending,
                   pc, delayed, owner, closed, failed>>

PeerResets ==
    /\ Running /\ peer # "reset"
    /\ peer' = "reset"
    /\ sockErr' = TRUE
    /\ UNCHANGED <<connVars, sent, fin, inbound, revents, accepted, pending, pc, delayed,
                   owner, closed, failed>>

-----------------------------------------------------------------------------
LoopStep ==
    \/ \E out \in BOOLEAN : Poll(out)
    \/ HandleHup \/ HandleError \/ HandleRead \/ HandleWrite \/ RunFunctor

LoopCall ==
    \/ LoopSend \/ LoopShutdown \/ LoopForceClose \/ LoopForceCloseWithDelay
    \/ LoopStartStopRead

RemoteCall(t) ==
    (\E c \in RemoteCalls : RemoteCheck(t, c)) \/ RemoteSetState(t) \/ RemotePost(t)

Next ==
    \/ LoopStep \/ LoopCall
    \/ \E t \in Threads : RemoteCall(t)
    \/ OwnerReleases \/ LastReference \/ PeerSends \/ PeerCloses \/ PeerResets

Spec == Init /\ [][Next]_vars

(***************************************************************************)
(* The loop keeps running, it does not put off functors for ever, a peer   *)
(* that is there makes room in the send buffer again and again, and a      *)
(* thread finishes the call it has begun.                                  *)
(***************************************************************************)
Fairness ==
    /\ SF_vars(Poll(TRUE)) /\ SF_vars(RunFunctor)
    /\ WF_vars(HandleHup) /\ WF_vars(HandleError)
    /\ WF_vars(HandleRead) /\ WF_vars(HandleWrite)
    /\ \A t \in Threads : WF_vars(RemoteSetState(t)) /\ WF_vars(RemotePost(t))

FairSpec == Spec /\ Fairness

-----------------------------------------------------------------------------
(* Properties                                                              *)

\* sendInLoop and handleWrite: the kernel is given the bytes in the order in which
\* sendInLoop took them, none twice and none left out, whichever mixture of direct
\* and buffered writes was used.
InOrder ==
    /\ TypeOK
    /\ sent \o output = [i \in 1..accepted |-> i]

\* sendInLoop and handleWrite: while the connection is up, data in outputBuffer_
\* has the channel enabled for writing, or nothing would ever send it.
BufferedIsWatched == output # <<>> /\ ~closed => "write" \in events_

\* shutdownInLoop: the write side of a connection that is up is shut down only
\* when all that was taken has been sent.
FinAfterData == fin /\ ~closed => output = <<>>

\* handleEventWithGuard, shutdown and connectionDestroyed: as long as nobody, the loop
\* thread included, calls forceClose or forceCloseWithDelay, and other threads call
\* nothing but send(Buffer*) and shutdown, the connection is closed once and
\* closeCallback_ called once, whatever events were collected and however those
\* calls race with them.
CloseOnce == failed \notin {"handleClose", "forceClose", "closeTwice"}

\* handleWrite: what sendInLoop has buffered leaves the buffer, unless the
\* connection is closed or broken first.
Flushes ==
    (output # <<>> /\ ~closed) ~> (output = <<>> \/ closed \/ Broken \/ ~Running)

\* handleRead and Channel::handleEventWithGuard: when the peer is gone, by FIN or
\* by RST, a channel that stays enabled for reading brings the connection to its
\* close, although an error of readv is taken for data.
PeerCloseSeen ==
    (peer # "open" /\ "read" \in events_) ~> (closed \/ "read" \notin events_ \/ ~Running)

\* The comment in shutdown, "tells the handlewrite function to shutdwon when all
\* the data have been sent out": a shutdown is carried out.
ShutdownCompletes ==
    (state_ = "kDisconnecting" /\ ~closed) ~> (fin \/ closed \/ Broken \/ ~Running)
=============================================================================
