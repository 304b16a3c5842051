----------------------------- MODULE TcpClient -----------------------------
(***************************************************************************)
(* arale/net/TcpClient.{h,cc} over its Connector, with the connections it  *)
(* makes.  Of a TcpConnection only what its owner sees is kept: state_,    *)
(* which any thread may assign, how far the loop thread has come in        *)
(* closing it, and whom closeCallback_ calls; the races of its other calls *)
(* are those of module TcpConnection.  mutex_ is held by the thread that   *)
(* is in the shutdown call of disconnect.                                  *)
(***************************************************************************)
EXTENDS Connector

CONSTANTS
    MaxConns,        \* bound: connections made
    MaxCalls         \* bound: calls of the client's user

ASSUME ClientBounds == MaxConns \in Nat /\ MaxCalls \in Nat

VARIABLES
    connect_, retry_, connID_,
    connection_,     \* 0 for a null pointer
    conns,           \* the connections, by connID_
    client,          \* "alive", "dying" (in the destructor) or "gone"
    calls            \* calls made by the user

clientVars == <<connect_, retry_, connID_, connection_, conns, client>>
vars == <<connectorVars, connected_, held, pending, loopPc, pc, failed, clientVars, calls>>

Conns == 1..MaxConns
Open == {"kConnected", "kDisconnecting"}
Phases ==            \* of a connection, in the order of the loop thread
    {"none",         \* not made yet
     "up",           \* established
     "closing",      \* handleClose is about to call the client
     "closed",       \* the channel is disabled, kDeleted in the poller
     "destroyed"}    \* connectionDestroyed has removed the channel: kNew
Live == {"up", "closing"}
ConnFunctors == [op : {"setCloseCallback", "forceCloseInLoop", "connectionDestroyed"},
                 conn : Conns]
Functors == [op : {"startInLoop", "stopInLoop", "resetChannel"}] \cup ConnFunctors

\* The variables have their types; the back-off never leaves its range, and an
\* established connection has no attempt beside it.
TypeOK ==
    /\ state_ \in {"kDisconnected", "kConnecting", "kConnected"}
    /\ connectChannel_ \in {"null", "watched", "removed"}
    /\ {connected_, reported, givenUp, held, connect_, retry_} \subseteq BOOLEAN
    /\ retryDelayMs_ \in kInitRetryDelayMs..kMaxRetryDelayMs
    /\ sockets \in Nat /\ timers \in Nat /\ calls \in 0..MaxCalls
    /\ pending \in Seq(Functors)
    /\ loopPc \in {"idle", "startInLoop", "connect", "restart", "remove"}
    /\ connID_ \in 1..MaxConns + 1
    /\ connection_ \in 0..connID_ - 1
    /\ conns \in [Conns -> [state : {"kConnecting", "kDisconnected"} \cup Open,
                            phase : Phases, closeCallback : {"client", "loop"}]]
    /\ client \in {"alive", "dying", "gone"}
    /\ Running /\ (\E c \in Conns : conns[c].phase \in Live) => state_ = "kConnected"

Init ==
    /\ ConnectorInit
    /\ connect_ = TRUE
    /\ retry_ = FALSE
    /\ connID_ = 1
    /\ connection_ = 0
    /\ conns = [c \in Conns |-> [state |-> "kConnecting", phase |-> "none",
                                 closeCallback |-> "client"]]
    /\ client = "alive"
    /\ calls = 0

-----------------------------------------------------------------------------
(* The loop thread                                                         *)

Dangling == Fail("dangling") /\ UNCHANGED <<clientVars, calls>>

\* handleWrite of the Connector calls newConnection, which runs connectionEstablished.
NewConnection ==
    /\ HandleConnected(TRUE)
    /\ client # "gone" /\ connID_ <= MaxConns
    /\ connID_' = connID_ + 1
    /\ connection_' = connID_
    /\ conns' = [conns EXCEPT ![connID_].state = "kConnected", ![connID_].phase = "up"]
    /\ UNCHANGED <<connect_, retry_, client, calls>>

\* The same, called by a Connector that a timer has kept longer than the client.
NewConnectionDangling ==
    /\ LoopIdle /\ reported /\ ~Freed /\ state_ = "kConnecting" /\ connected_
    /\ client = "gone"
    /\ Dangling

\* Mutant of removeConnection: connectionDestroyed is not posted.
removeConnectionForgets(c) ==
    /\ connection_' = 0
    /\ pending' = pending
    /\ loopPc' = IF retry_ /\ connect_ THEN "restart" ELSE "idle"

\* TcpClient::removeConnection; the restart is a step of its own, as it assigns
\* connected_ after connect_ was read.
removeConnection(c) ==
    /\ connection_' = 0
    /\ pending' = Append(pending, [op |-> "connectionDestroyed", conn |-> c])
    /\ loopPc' = IF retry_ /\ connect_ THEN "restart" ELSE "idle"

\* TcpConnection::handleClose, and whom closeCallback_ calls: the client through a
\* raw this, which is the next step, or removeTcpConnection.
handleClose(c, q) ==
    \/ /\ conns[c].closeCallback = "client" /\ (client = "gone" \/ connection_ # c)
       /\ Dangling
    \/ /\ conns[c].closeCallback = "client" /\ client # "gone" /\ connection_ = c
       /\ conns' = [conns EXCEPT ![c].state = "kDisconnected", ![c].phase = "closing"]
       /\ pending' = q
       /\ loopPc' = "remove"
       /\ UNCHANGED <<connectorVars, connected_, held, pc, failed, connect_, retry_, connID_,
                      connection_, client, calls>>
    \/ /\ conns[c].closeCallback = "loop"
       /\ conns' = [conns EXCEPT ![c].state = "kDisconnected", ![c].phase = "closed"]
       /\ pending' = Append(q, [op |-> "connectionDestroyed", conn |-> c])
       /\ UNCHANGED <<connectorVars, connected_, held, loopPc, pc, failed, connect_, retry_,
                      connID_, connection_, client, calls>>

MutexFree == \A t \in Threads : pc[t][1] # "shutdown"

\* closeCallback_ of handleClose calls the client, which locks mutex_.
RemoveConnection(c) ==
    /\ Running /\ loopPc = "remove" /\ conns[c].phase = "closing"
    /\ \/ client = "gone" /\ Dangling
       \/ /\ client # "gone" /\ MutexFree
          /\ removeConnection(c)
          /\ conns' = [conns EXCEPT ![c].phase = "closed"]
          /\ UNCHANGED <<connectorVars, connected_, held, pc, failed, connect_, retry_,
                         connID_, client, calls>>

\* The peer closes.
ConnectionCloses(c) == LoopIdle /\ conns[c].phase = "up" /\ handleClose(c, pending)

\* forceCloseInLoop, setCloseCallback and connectionDestroyed.  forceCloseInLoop closes
\* a second time when state_ was assigned after the close: disableAll fails then for a
\* channel that is kDeleted, and not for one that was removed.
ConnectionFunctor ==
    /\ Due({"setCloseCallback", "forceCloseInLoop", "connectionDestroyed"})
    /\ LET f == Head(pending)
           c == f.conn
       IN \/ /\ f.op = "forceCloseInLoop" /\ conns[c].state = "kDisconnecting"
             /\ conns[c].phase \in {"up", "destroyed"}
             /\ handleClose(c, Tail(pending))
          \/ /\ f.op = "forceCloseInLoop" /\ conns[c].state = "kDisconnecting"
             /\ conns[c].phase \notin {"up", "destroyed"}
             /\ Fail("disableAll") /\ UNCHANGED <<clientVars, calls>>
          \/ /\ f.op = "forceCloseInLoop" /\ conns[c].state # "kDisconnecting"
             /\ Fail("forceCloseInLoop") /\ UNCHANGED <<clientVars, calls>>
          \/ /\ f.op # "forceCloseInLoop"
             /\ conns' = [conns EXCEPT ![c] =
                    IF f.op = "setCloseCallback" THEN [@ EXCEPT !.closeCallback = "loop"]
                                                 ELSE [@ EXCEPT !.phase = "destroyed"]]
             /\ pending' = Tail(pending)
             /\ UNCHANGED <<connectorVars, connected_, held, loopPc, pc, failed, connect_,
                            retry_, connID_, connection_, client, calls>>

\* The pointers to a connection: the client's, those of functors, and the one in the
\* destructor of the client.
Referenced(c) ==
    \/ client # "gone" /\ connection_ = c
    \/ \E op \in {"setCloseCallback", "connectionDestroyed"} :
          \E i \in DOMAIN pending : pending[i] = [op |-> op, conn |-> c]
    \/ \E t \in Threads, at \in {"setClose", "setCloseUnique", "forceClose", "setState",
                                 "postForceClose", "release"} : pc[t] = <<at, c>>

\* ~TcpConnection asserts that the connection is kDisconnected.
LastReference(c) ==
    /\ LoopIdle /\ conns[c].state \in Open /\ ~Referenced(c)
    /\ Fail("~TcpConnection") /\ UNCHANGED <<clientVars, calls>>

-----------------------------------------------------------------------------
(* The user's calls, in the loop thread                                    *)

MayCall == Running /\ client = "alive" /\ calls < MaxCalls /\ calls' = calls + 1

LoopConnect ==
    /\ MayCall /\ LoopIdle
    /\ connect_' = TRUE
    /\ connected_' = TRUE
    /\ loopPc' = "startInLoop"
    /\ UNCHANGED <<connectorVars, held, pending, pc, failed, retry_, connID_, connection_,
                   conns, client>>

\* disconnect in the loop thread, where no thread can close between the test of state_
\* and its assignment.
LoopDisconnect ==
    /\ MayCall /\ LoopIdle /\ MutexFree
    /\ connect_' = FALSE
    /\ conns' = [c \in Conns |->
          IF c = connection_ /\ conns[c].state = "kConnected"
          THEN [conns[c] EXCEPT !.state = "kDisconnecting"] ELSE conns[c]]
    /\ UNCHANGED <<connectorVars, connected_, held, pending, loopPc, pc, failed, retry_,
                   connID_, connection_, client>>

LoopStop ==
    /\ MayCall /\ LoopIdle
    /\ connect_' = FALSE
    /\ connected_' = FALSE
    /\ stopInLoop(pending, FALSE)
    /\ UNCHANGED <<reported, givenUp, held, loopPc, pc, failed,
                   retry_, connID_, connection_, conns, client>>

\* ~TcpClient in the loop thread, where runInLoop calls at once.
LoopDestroy ==
    /\ MayCall /\ LoopIdle
    /\ \A t \in Threads : pc[t] = <<"idle">>
    /\ client' = "gone"
    /\ held' = FALSE
    /\ IF connection_ # 0
       THEN \E unique \in BOOLEAN :
              /\ conns' = [conns EXCEPT ![connection_] =
                    [state |-> IF unique THEN "kDisconnected" ELSE @.state,
                     phase |-> IF unique THEN "closed" ELSE @.phase,
                     closeCallback |-> "loop"]]
              /\ pending' = IF unique
                    THEN Append(pending, [op |-> "connectionDestroyed", conn |-> connection_])
                    ELSE pending
              /\ UNCHANGED <<connected_, connectorVars>>
       ELSE /\ connected_' = FALSE
            /\ stopInLoop(pending, FALSE)
            /\ UNCHANGED <<reported, givenUp, conns>>
    /\ UNCHANGED <<loopPc, pc, failed, connect_, retry_, connID_, connection_>>

-----------------------------------------------------------------------------
(* The user's calls, in another thread                                     *)

\* connect and stop assign connect_ and go on in the Connector.
Call(t, op) ==
    /\ MayCall /\ pc[t] = <<"idle">>
    /\ connect_' = (op = "start")
    /\ pc' = [pc EXCEPT ![t] = <<op, "idle">>]
    /\ UNCHANGED <<connectorVars, connected_, held, pending, loopPc, failed, retry_, connID_,
                   connection_, conns, client>>

\* disconnect, before it locks mutex_.
Disconnect(t) ==
    /\ MayCall /\ pc[t] = <<"idle">>
    /\ connect_' = FALSE
    /\ pc' = [pc EXCEPT ![t] = <<"disconnect">>]
    /\ UNCHANGED <<connectorVars, connected_, held, pending, loopPc, failed, retry_, connID_,
                   connection_, conns, client>>

\* disconnect has locked mutex_ and calls shutdown, which tests state_.
ShutdownTests(t) ==
    /\ Running /\ pc[t] = <<"disconnect">> /\ MutexFree
    /\ pc' = [pc EXCEPT ![t] =
          IF connection_ # 0 /\ conns[connection_].state = "kConnected"
          THEN <<"shutdown", connection_>> ELSE <<"idle">>]
    /\ UNCHANGED <<connectorVars, connected_, held, pending, loopPc, failed, clientVars, calls>>

\* setState(kDisconnecting) of shutdown, which unlocks mutex_, or of forceClose.
SetState(t) ==
    /\ Running /\ pc[t][1] \in {"shutdown", "setState"}
    /\ conns' = [conns EXCEPT ![pc[t][2]].state = "kDisconnecting"]
    /\ pc' = [pc EXCEPT ![t] = IF @[1] = "shutdown" THEN <<"idle">>
                                                    ELSE <<"postForceClose", @[2]>>]
    /\ UNCHANGED <<connectorVars, connected_, held, pending, loopPc, failed, connect_, retry_,
                   connID_, connection_, client, calls>>

EnableRetry ==
    /\ MayCall /\ ~retry_
    /\ retry_' = TRUE
    /\ UNCHANGED <<connectorVars, connected_, held, pending, loopPc, pc, failed, connect_,
                   connID_, connection_, conns, client>>

\* ~TcpClient reads connection_ and unique() under mutex_: a loop thread that is closing
\* the connection holds another pointer.  Without a connection it calls Connector::stop.
Destroy(t) ==
    /\ MayCall
    /\ \A u \in Threads : pc[u] = <<"idle">>
    /\ client' = "dying"
    /\ \E at \in {"setClose", "setCloseUnique"} :
          /\ at = "setCloseUnique" => loopPc # "remove"
          /\ pc' = [pc EXCEPT ![t] = IF connection_ = 0 THEN <<"stop", "release">>
                                                        ELSE <<at, connection_>>]
    /\ UNCHANGED <<connectorVars, connected_, held, pending, loopPc, failed, connect_,
                   retry_, connID_, connection_, conns>>

\* setCloseCallback is posted.
DestroySetsCallback(t) ==
    /\ Running /\ pc[t][1] \in {"setClose", "setCloseUnique"}
    /\ pending' = Append(pending, [op |-> "setCloseCallback", conn |-> pc[t][2]])
    /\ pc' = [pc EXCEPT ![t] = <<IF @[1] = "setCloseUnique" THEN "forceClose" ELSE "release",
                                 @[2]>>]
    /\ UNCHANGED <<connectorVars, connected_, held, loopPc, failed, clientVars, calls>>

\* TcpConnection::forceClose tests state_; the assignment is SetState.
ForceCloseTests(t) ==
    /\ Running /\ pc[t][1] = "forceClose"
    /\ pc' = [pc EXCEPT ![t] =
          <<IF conns[@[2]].state \in Open THEN "setState" ELSE "release", @[2]>>]
    /\ UNCHANGED <<connectorVars, connected_, held, pending, loopPc, failed, clientVars, calls>>

\* TcpConnection::forceClose posts forceCloseInLoop.
ForceClosePosts(t) ==
    /\ Running /\ pc[t][1] = "postForceClose"
    /\ pending' = Append(pending, [op |-> "forceCloseInLoop", conn |-> pc[t][2]])
    /\ pc' = [pc EXCEPT ![t] = <<"release", @[2]>>]
    /\ UNCHANGED <<connectorVars, connected_, held, loopPc, failed, clientVars, calls>>

\* The members are destroyed: the pointer to the Connector, and with it the Connector,
\* unless a timer has it; ~Channel asserts that its channel has left the loop.
Release(t) ==
    /\ Running /\ pc[t][1] = "release"
    /\ \/ /\ timers = 0 /\ connectChannel_ = "watched"
          /\ Fail("~Channel") /\ UNCHANGED <<clientVars, calls>>
       \/ /\ timers > 0 \/ connectChannel_ # "watched"
          /\ held' = FALSE
          /\ client' = "gone"
          /\ pc' = [pc EXCEPT ![t] = <<"idle">>]
          /\ UNCHANGED <<connectorVars, connected_, pending, loopPc, failed, connect_, retry_,
                         connID_, connection_, conns, calls>>

-----------------------------------------------------------------------------
\* Steps of the Connector that do not concern the client.
ConnectorStep ==
    /\ \/ StartInLoop \/ SocketFails \/ ConnectProceeds \/ ConnectRefused \/ ConnectFails
       \/ PollReports \/ HandleFailure \/ HandleConnected(FALSE) \/ HandleStale
       \/ TimerFires \/ ConnectorFunctor \/ Restart
       \/ \E t \in Threads : Assign(t) \/ PostCall(t)
    /\ UNCHANGED <<clientVars, calls>>

Next ==
    \/ ConnectorStep \/ NewConnection \/ NewConnectionDangling \/ ConnectionFunctor
    \/ \E c \in Conns : ConnectionCloses(c) \/ RemoveConnection(c) \/ LastReference(c)
    \/ LoopConnect \/ LoopStop \/ LoopDisconnect \/ LoopDestroy \/ EnableRetry
    \/ \E t \in Threads :
          \/ Call(t, "start") \/ Call(t, "stop") \/ Disconnect(t) \/ Destroy(t)
          \/ ShutdownTests(t) \/ SetState(t) \/ DestroySetsCallback(t)
          \/ ForceCloseTests(t) \/ ForceClosePosts(t) \/ Release(t)

Spec == Init /\ [][Next]_vars

\* The loop thread goes on, calls that were begun are finished, and a server that is
\* tried for ever is reached in the end; the user need not call anything.
Fairness ==
    /\ WF_vars(ConnectorStep /\ (StartInLoop \/ Restart \/ TimerFires \/ ConnectorFunctor))
    /\ WF_vars(loopPc = "connect" /\ ConnectorStep)
    /\ WF_vars(ConnectorStep /\ (PollReports \/ HandleFailure \/ HandleConnected(FALSE)
                                  \/ HandleStale))
    /\ SF_vars(ConnectorStep /\ ConnectProceeds)
    /\ SF_vars(NewConnection)
    /\ WF_vars(ConnectionFunctor) /\ WF_vars(\E c \in Conns : RemoveConnection(c))
    /\ \A t \in Threads : /\ WF_vars(ConnectorStep /\ (Assign(t) \/ PostCall(t)))
                          /\ WF_vars(ShutdownTests(t) \/ SetState(t))

FairSpec == Spec /\ Fairness

-----------------------------------------------------------------------------
(* Properties                                                              *)

Pending(f) == Cardinality({i \in DOMAIN pending : pending[i] = f})
InCall(ops) == \E t \in Threads : pc[t][1] \in ops
One(b) == IF b THEN 1 ELSE 0

\* Connector: whatever is started, stopped, restarted and retried, there is at most
\* one attempt: one socket, watched by the channel exactly in kConnecting, no socket is
\* leaked, every posted resetChannel destroys the channel it was posted for, and an
\* event that comes late finds kDisconnected, as handleWrite asserts.
OneAttempt ==
    /\ TypeOK
    /\ Running =>
        /\ sockets = One(connectChannel_ = "watched") + One(loopPc = "connect")
        /\ state_ = "kConnecting" <=> connectChannel_ = "watched"
        /\ Pending(Functor("resetChannel")) = One(connectChannel_ = "removed")
        /\ reported => state_ # "kConnected"

\* Connector::stop: when connected_ is false and stopInLoop has run, nothing is being
\* connected, although events, timers and functors of earlier attempts still arrive.
StoppedIsIdle ==
    Running /\ ~connected_ /\ loopPc # "connect" /\ ~InCall({"stop", "stopInLoop"})
        /\ Pending(Functor("stopInLoop")) = 0
    => state_ # "kConnecting"

\* Connector::retry and restart: while connected_ asks for a connection and there is
\* none, an attempt is scheduled, unless connect gave up for good.
KeepsTrying ==
    Running /\ connected_ /\ state_ = "kDisconnected" /\ ~givenUp
    => \/ timers > 0 \/ loopPc \in {"startInLoop", "connect"}
       \/ InCall({"startInLoop"}) \/ Pending(Functor("startInLoop")) > 0

\* TcpClient: a connection that is up, or is being closed, is the client's own as long as
\* there is a client, as removeConnection asserts, and every close of a connection, by
\* the peer, by forceClose or by the destructor, is followed by exactly one
\* connectionDestroyed, however disconnect and the destructor race with it.  (There may
\* be two closes: the forceClose of ~TcpClient assigns state_ after the loop thread has
\* closed and destroyed the connection, and its functor closes it again.)
ClosedOnce ==
    Running => \A c \in Conns :
        /\ conns[c].phase \in Live /\ client = "alive" => connection_ = c
        /\ Pending([op |-> "connectionDestroyed", conn |-> c])
              = One(conns[c].phase = "closed")

\* Connector: a client that waits for a retry gets its connection, if the server can
\* be reached now and then and nobody stops or destroys the client.
Connects ==
    (Running /\ connected_ /\ timers > 0)
        ~> (state_ = "kConnected" \/ ~connected_ \/ givenUp \/ ~Running
            \/ client = "gone" \/ connID_ > MaxConns)
=============================================================================
