----------------------------- MODULE TcpServer -----------------------------
(***************************************************************************)
(* arale/net/TcpServer.{h,cc} with its Acceptor and EventLoopThreadPool:   *)
(* connections are accepted in the base loop, live each in one loop of the *)
(* pool, are taken out of connections_ in the base loop again and          *)
(* destroyed in their own; and the server is destroyed at any time.  The   *)
(* user of the server is examples/maxconnection, which closes what is too  *)
(* much.  Of a TcpConnection only what its owner sees is kept.             *)
(*                                                                         *)
(* A loop runs its functors in the order of their posts (EventLoop), and   *)
(* startLoop returns a loop that is about to run (EventLoopThread).  A     *)
(* loop ends when it tests quit_, which may be before functors that were   *)
(* posted after its last swap.  A failed assert ends the program.          *)
(***************************************************************************)
EXTENDS Naturals, Sequences, SequencesExt, FiniteSets

CONSTANTS
    MaxThreads,        \* bound: threads of the pool
    MaxConns,          \* bound: connections accepted
    maxConnections_    \* of EchoServer

ASSUME ServerBounds == MaxThreads \in Nat /\ MaxConns \in Nat /\ maxConnections_ \in Nat

VARIABLES
    started_, isListening_,
    numThread_, next_,        \* of the pool
    nextConnId_, connections_,
    conns,                    \* each connection's state and loop
    numConnection_,           \* of EchoServer
    pending,                  \* for each loop, its functors
    looping,                  \* the loops that are in loop()
    quit_,                    \* the loops whose quit_ is true
    told,                     \* the loops whose ~EventLoopThread has called quitLoop
    ended,                    \* the loops that have returned from loop()
    server,                   \* "alive", "dying" (in the destructor) or "gone"
    failed

acceptVars == <<started_, isListening_, numThread_, next_, nextConnId_>>
loopVars == <<looping, quit_, told, ended>>
vars == <<acceptVars, connections_, conns, numConnection_, pending, loopVars, server, failed>>

Conns == 1..MaxConns
Base == 0
AllLoops == 0..MaxThreads
IoLoops == 1..numThread_                    \* loops_ of the pool
Open == {"kConnected", "kDisconnecting"}
Functors == [op : {"established", "destroyed", "remove"}, conn : Conns]

Running == failed = "no"
Fail(why) ==
    /\ failed' = why
    /\ UNCHANGED <<acceptVars, connections_, conns, numConnection_, pending, loopVars, server>>

\* The variables have their types, and the pool's index stays within its loops.
TypeOK ==
    /\ started_ \in 0..2
    /\ isListening_ \in BOOLEAN
    /\ numThread_ \in 0..MaxThreads
    /\ next_ \in 0..MaxThreads
    /\ numThread_ > 0 => next_ < numThread_
    /\ nextConnId_ \in 1..MaxConns + 1
    /\ connections_ \subseteq 1..nextConnId_ - 1
    /\ conns \in [Conns -> [state : {"none", "kConnecting", "kDisconnected", "destroyed"}
                                        \cup Open, loop : AllLoops]]
    /\ numConnection_ \in 0..MaxConns
    /\ pending \in [AllLoops -> Seq(Functors)]
    /\ looping \subseteq AllLoops /\ quit_ \subseteq AllLoops
    /\ told \subseteq AllLoops /\ ended \subseteq AllLoops
    /\ server \in {"alive", "dying", "gone"}

\* The server is constructed, and setThreadNum was called.
Init ==
    /\ started_ = 0
    /\ isListening_ = FALSE
    /\ numThread_ \in 0..MaxThreads
    /\ next_ = 0
    /\ nextConnId_ = 1
    /\ connections_ = {}
    /\ conns = [c \in Conns |-> [state |-> "none", loop |-> Base]]
    /\ numConnection_ = 0
    /\ pending = [l \in AllLoops |-> <<>>]
    /\ looping = {}
    /\ quit_ = {}
    /\ told = {}
    /\ ended = {}
    /\ server = "alive"
    /\ failed = "no"

-----------------------------------------------------------------------------
(* The base loop: starting and accepting                                   *)

\* Loop l handles events and functors; the base loop waits while its thread is in the
\* destructor of the server.
LoopRuns(l) == Running /\ l \in looping /\ (l = Base => server # "dying")
BaseRuns == LoopRuns(Base)

startListening == isListening_' = TRUE

\* start, in the base loop's thread as EventLoopThreadPool::start asserts; only the
\* first call starts the pool and startListening.
Start ==
    /\ Running /\ server = "alive" /\ started_ < 2
    /\ started_' = started_ + 1
    /\ IF started_ = 0 THEN startListening ELSE UNCHANGED isListening_
    /\ UNCHANGED <<numThread_, next_, nextConnId_, connections_, conns, numConnection_,
                   pending, loopVars, server, failed>>

\* startListening cannot listen: listenOrDie ends the program.
StartFails == Running /\ server = "alive" /\ started_ = 0 /\ Fail("listen")

\* The loop that getNextLoop returns, and next_ after it.
getNextLoop ==
    IF numThread_ = 0 THEN [loop |-> Base, next |-> next_]
    ELSE [loop |-> next_ + 1, next |-> (next_ + 1) % numThread_]

\* EchoServer::onConnection on a connection that is up: one too many is shut down, and
\* will be closed by a timer.  With a pool several loops increment the plain int at a time,
\* and any connection may be found to be one too many.
UpStates ==
    IF numThread_ > 0 THEN Open
    ELSE {IF numConnection_ + 1 > maxConnections_ THEN "kDisconnecting" ELSE "kConnected"}

\* Mutant of newConncetion: connectionEstablished is posted to the base loop.
newConncetionWrongLoop(c, l) ==
    /\ conns' = [conns EXCEPT ![c] = [state |-> "kConnecting", loop |-> l]]
    /\ pending' = [pending EXCEPT ![Base] = Append(@, [op |-> "established", conn |-> c])]
    /\ UNCHANGED numConnection_

\* newConncetion: the new connection is in the map, and is established in its loop; at
\* once when that is the base loop.
newConncetion(c, l) ==
    IF l = Base
    THEN /\ \E up \in UpStates : conns' = [conns EXCEPT ![c] = [state |-> up, loop |-> l]]
         /\ numConnection_' = numConnection_ + 1
         /\ UNCHANGED pending
    ELSE /\ conns' = [conns EXCEPT ![c] = [state |-> "kConnecting", loop |-> l]]
         /\ pending' = [pending EXCEPT ![l] = Append(@, [op |-> "established", conn |-> c])]
         /\ UNCHANGED numConnection_

\* Acceptor::handleNewConnection, accept succeeds.
HandleNewConnection ==
    /\ BaseRuns /\ server = "alive" /\ isListening_ /\ nextConnId_ <= MaxConns
    /\ next_' = getNextLoop.next
    /\ nextConnId_' = nextConnId_ + 1
    /\ connections_' = connections_ \cup {nextConnId_}
    /\ newConncetion(nextConnId_, getNextLoop.loop)
    /\ UNCHANGED <<started_, isListening_, numThread_, loopVars, server, failed>>

\* accept fails, for want of descriptors or because the peer has gone: sockets::accept
\* ends the program before it looks at errno, and backupFd_ is never used.
AcceptFails == BaseRuns /\ server = "alive" /\ isListening_ /\ Fail("accept")

-----------------------------------------------------------------------------
(* The loop of a connection                                                *)

\* Functor f is taken from the queue of loop l, and others are posted.
Take(l) == [pending EXCEPT ![l] = Tail(@)]
Post(p, l, op, c) == [p EXCEPT ![l] = Append(@, [op |-> op, conn |-> c])]
Due(l, op) == LoopRuns(l) /\ pending[l] # <<>> /\ Head(pending[l]).op = op

\* connectionEstablished, with the user's callback.
Established(l) ==
    /\ Due(l, "established")
    /\ \E up \in UpStates : conns' = [conns EXCEPT ![Head(pending[l]).conn].state = up]
    /\ numConnection_' = numConnection_ + 1
    /\ pending' = Take(l)
    /\ UNCHANGED <<acceptVars, connections_, loopVars, server, failed>>

\* Mutant of removeConnectionInLoop: connectionDestroyed is not posted.
removeConnectionInLoopForgets(c, p) == connections_' = connections_ \ {c} /\ pending' = p

\* The entry is erased, and connectionDestroyed posted to the connection's loop.
removeConnectionInLoop(c, p) ==
    /\ connections_' = connections_ \ {c}
    /\ pending' = Post(p, conns[c].loop, "destroyed", c)

MayClose(c) == LoopRuns(conns[c].loop) /\ conns[c].state \in Open

\* handleClose, by the peer or by the timer of forceCloseWithDelay: the user's
\* callback, then closeCallback_, which is removeConnection of a server bound by a raw
\* this (OneDestroyer says that it is there).
HandleClose(c) ==
    /\ MayClose(c)
    /\ conns' = [conns EXCEPT ![c].state = "kDisconnected"]
    /\ numConnection_' = numConnection_ - 1
    /\ IF conns[c].loop = Base THEN removeConnectionInLoop(c, pending)
       ELSE pending' = Post(pending, Base, "remove", c) /\ UNCHANGED connections_
    /\ UNCHANGED <<acceptVars, loopVars, server, failed>>

\* removeConnectionInLoop as a functor, on a server that is there or not.
RemoveConnection ==
    /\ Due(Base, "remove")
    /\ \/ server = "gone" /\ Fail("dangling")
       \/ /\ server = "alive"
          /\ removeConnectionInLoop(Head(pending[Base]).conn, Take(Base))
          /\ UNCHANGED <<acceptVars, conns, numConnection_, loopVars, server, failed>>

\* connectionDestroyed: a connection that is up is closed first.  One that is shutting
\* down is taken for closed, and its channel removed while enabled: removeChannel asserts.
Destroyed(l) ==
    /\ Due(l, "destroyed")
    /\ LET c == Head(pending[l]).conn IN
       \/ conns[c].state = "kDisconnecting" /\ Fail("remove")
       \/ /\ conns[c].state # "kDisconnecting"
          /\ conns' = [conns EXCEPT ![c].state = "destroyed"]
          /\ numConnection_' = IF conns[c].state = "kConnected" THEN numConnection_ - 1
                                                               ELSE numConnection_
          /\ pending' = Take(l)
          /\ UNCHANGED <<acceptVars, connections_, loopVars, server, failed>>

-----------------------------------------------------------------------------
(* The end                                                                 *)

\* Mutant of ToDestroy: connections that are closed are left to removeConnectionInLoop.
ToDestroyOpen == {c \in connections_ : conns[c].state # "kDisconnected"}

\* What the loop in ~TcpServer goes through, and the part of it that is in loop l.
ToDestroy == connections_
ToDestroyIn(l) == {c \in ToDestroy : conns[c].loop = l}

\* ~TcpServer, in the base loop's thread: runInLoop of connectionDestroyed for every
\* connection, in some order of the map, at once for those of the base loop.
Destroy ==
    /\ Running /\ server = "alive"
    /\ \/ /\ \E c \in ToDestroyIn(Base) : conns[c].state = "kDisconnecting"
          /\ Fail("remove")
       \/ /\ \A c \in ToDestroyIn(Base) : conns[c].state # "kDisconnecting"
          /\ connections_' = {}
          /\ conns' = [c \in Conns |->
                IF c \in ToDestroyIn(Base) THEN [conns[c] EXCEPT !.state = "destroyed"]
                                           ELSE conns[c]]
          /\ pending' = [l \in AllLoops |-> IF l = Base THEN pending[l] ELSE pending[l] \o
                LET ids == SetToSeq(ToDestroyIn(l))
                IN [i \in DOMAIN ids |-> [op |-> "destroyed", conn |-> ids[i]]]]
          /\ numConnection_' = numConnection_
                - Cardinality({c \in ToDestroyIn(Base) : conns[c].state = "kConnected"})
          /\ server' = "dying"
          /\ isListening_' = FALSE
          /\ UNCHANGED <<started_, numThread_, next_, nextConnId_, loopVars, failed>>

\* A thread enters loop(), a thread of the pool some time after startLoop has returned:
\* a quit that came before is lost.
LoopBegins(l) ==
    /\ Running /\ l \notin looping \cup ended
    /\ IF l = Base THEN server # "dying" ELSE l \in IoLoops /\ started_ > 0
    /\ looping' = looping \cup {l}
    /\ quit_' = quit_ \ {l}
    /\ UNCHANGED <<acceptVars, connections_, conns, numConnection_, pending, told, ended,
                   server, failed>>

\* The pool is destroyed: each ~EventLoopThread quits its loop and waits for it.
QuitLoop(l) ==
    /\ Running /\ server = "dying"
    /\ l \in IoLoops /\ started_ > 0 /\ l \notin told
    /\ \A k \in 1..l - 1 : k \in ended
    /\ told' = told \cup {l}
    /\ quit_' = quit_ \cup {l}
    /\ UNCHANGED <<acceptVars, connections_, conns, numConnection_, pending, looping, ended,
                   server, failed>>

\* The user ends the base loop.
QuitBase ==
    /\ Running /\ Base \notin quit_
    /\ quit_' = quit_ \cup {Base}
    /\ UNCHANGED <<acceptVars, connections_, conns, numConnection_, pending, looping, told,
                   ended, server, failed>>

\* A loop returns.  A functor left in a loop of the pool is dropped with the loop, and
\* its connection with it: ~TcpConnection and ~Channel assert that it was destroyed.
LoopEnds(l) ==
    /\ LoopRuns(l) /\ l \in quit_
    /\ \/ l # Base /\ pending[l] # <<>> /\ Fail("~TcpConnection")
       \/ /\ l = Base \/ pending[l] = <<>>
          /\ looping' = looping \ {l}
          /\ ended' = ended \cup {l}
          /\ UNCHANGED <<acceptVars, connections_, conns, numConnection_, pending, quit_, told,
                         server, failed>>

\* Mutant of DestroyEnds: threads that were never started are waited for.
DestroyEndsJoinsAll ==
    /\ Running /\ server = "dying" /\ IoLoops \subseteq ended
    /\ server' = "gone"
    /\ UNCHANGED <<acceptVars, connections_, conns, numConnection_, pending, loopVars, failed>>

\* The server is gone.
DestroyEnds ==
    /\ Running /\ server = "dying"
    /\ started_ > 0 => IoLoops \subseteq ended
    /\ server' = "gone"
    /\ UNCHANGED <<acceptVars, connections_, conns, numConnection_, pending, loopVars, failed>>

-----------------------------------------------------------------------------
LoopStep(l) == Established(l) \/ Destroyed(l)

Next ==
    \/ Start \/ StartFails \/ HandleNewConnection \/ AcceptFails \/ RemoveConnection
    \/ \E l \in AllLoops : LoopBegins(l) \/ LoopStep(l) \/ QuitLoop(l) \/ LoopEnds(l)
    \/ \E c \in Conns : HandleClose(c)
    \/ QuitBase \/ Destroy \/ DestroyEnds

Spec == Init /\ [][Next]_vars

\* Every loop runs its functors and ends when it sees quit_, the threads of the pool enter
\* their loops, and the timer of forceCloseWithDelay fires; nothing makes the user start,
\* run the base loop, quit or destroy, or a peer close.
Fairness ==
    /\ WF_vars(RemoveConnection) /\ WF_vars(DestroyEnds)
    /\ \A l \in AllLoops : WF_vars(LoopStep(l)) /\ WF_vars(QuitLoop(l)) /\ WF_vars(LoopEnds(l))
    /\ \A l \in AllLoops \ {Base} : WF_vars(LoopBegins(l))
    /\ \A c \in Conns : WF_vars(conns[c].state = "kDisconnecting" /\ HandleClose(c))

FairSpec == Spec /\ Fairness

-----------------------------------------------------------------------------
(* Properties                                                              *)

Pending(l, op, c) ==
    Cardinality({i \in DOMAIN pending[l] : pending[l][i] = [op |-> op, conn |-> c]})
Accepted == 1..nextConnId_ - 1
One(b) == IF b THEN 1 ELSE 0

\* TcpServer: a connection that is not destroyed is in connections_ or has one
\* connectionDestroyed on its way in its own loop, never both; and one that is closed
\* is in the map only while its removeConnectionInLoop is on its way.  So ~TcpServer
\* leaves no open connection behind, whose closeCallback_ would be bound to a server that
\* is gone.
OneDestroyer ==
    /\ TypeOK
    /\ Running /\ server = "gone" =>
          \A c \in Conns : conns[c].state \notin Open \cup {"kConnecting"}
    /\ Running => \A c \in Accepted :
        /\ Pending(conns[c].loop, "destroyed", c) + One(c \in connections_)
              = One(conns[c].state # "destroyed")
        /\ server = "alive" => Pending(Base, "remove", c)
              = One(c \in connections_ /\ conns[c].state = "kDisconnected")

\* newConncetion and the two ways to connectionDestroyed, over two loops: a connection
\* is established before it is destroyed, and both happen in its own loop.
EstablishedFirst ==
    Running => \A c \in Accepted :
        LET p == pending[conns[c].loop] IN
        /\ Pending(conns[c].loop, "established", c) = One(conns[c].state = "kConnecting")
        /\ \A i, j \in DOMAIN p :
              p[i] = [op |-> "established", conn |-> c]
              /\ p[j] = [op |-> "destroyed", conn |-> c] => i < j

\* TcpServer: a connection that is closed is destroyed in the end, whether the server
\* stays, is destroyed meanwhile, or its base loop ends before.
ClosedIsDestroyed ==
    \A c \in Conns :
        (conns[c].state = "kDisconnected")
            ~> (conns[c].state = "destroyed" \/ ~Running
                \/ (server = "alive" /\ Base \in ended)
                \/ (conns[c].loop = Base /\ Base \in ended))

\* ~TcpServer returns: no loop of the pool keeps its thread waiting, but for one whose
\* thread has entered loop() after ~EventLoopThread called quitLoop, and has set quit_ back
\* to false: it is waited for without end.
DestructorReturns == server = "dying" ~> (server = "gone" \/ ~Running \/ told \ quit_ # {})

=============================================================================
