----------------------------- MODULE Connector -----------------------------
(***************************************************************************)
(* arale/net/Connector.{h,cc}: connects a socket, again and again after    *)
(* errors, until it is connected or stopped.  connected_ is assigned by    *)
(* any thread and read by the loop thread, so that a step of the loop      *)
(* thread reads it at most once; everything else belongs to the loop.      *)
(* Functors run in the order of their posts and after the events of the    *)
(* same poll, as EventLoop promises.  A failed assert, and a functor that  *)
(* runs on an object that is gone, end the program.                        *)
(***************************************************************************)
EXTENDS Naturals, Sequences, FiniteSets

CONSTANTS
    Threads,             \* threads other than the loop thread
    kInitRetryDelayMs, kMaxRetryDelayMs

ASSUME DelayAssumption ==
    /\ kInitRetryDelayMs \in Nat \ {0} /\ kMaxRetryDelayMs \in Nat
    /\ kInitRetryDelayMs <= kMaxRetryDelayMs

VARIABLES
    state_, connected_, retryDelayMs_,
    connectChannel_,  \* "null", "watched" by the poller, or "removed" from it
    reported,         \* connectChannel_ is in activeChannels_, not handled yet
    sockets,          \* sockets of connect() neither closed nor handed on
    givenUp,          \* the last connect(2) failed with an error not retried
    timers,           \* retry timers; each holds a shared_ptr to the Connector
    held,             \* the owner's shared_ptr to the Connector is there
    pending,          \* functors of the loop
    loopPc,           \* "idle", or what the loop thread is about to do
    pc,               \* for each other thread, where it is in a call
    failed

connectorVars == <<state_, retryDelayMs_, connectChannel_, reported, sockets,
                   givenUp, timers>>

Running == failed = "no"
LoopIdle == Running /\ loopPc = "idle"

\* Nothing keeps the Connector any more.
Freed == ~held /\ timers = 0

ConnectorInit ==
    /\ state_ = "kDisconnected"
    /\ connected_ = FALSE
    /\ retryDelayMs_ = kInitRetryDelayMs
    /\ connectChannel_ = "null"
    /\ reported = FALSE
    /\ sockets = 0
    /\ givenUp = FALSE
    /\ timers = 0
    /\ held = TRUE
    /\ pending = <<>>
    /\ loopPc = "idle"
    /\ pc = [t \in Threads |-> <<"idle">>]
    /\ failed = "no"

-----------------------------------------------------------------------------
(* Functions of the loop thread; q is the queue that they post to.         *)

Functor(op) == [op |-> op]

\* The channel leaves the poller; it is destroyed later, as its handler may be running.
removeAndResetChannel(q) ==
    /\ connectChannel_' = "removed"
    /\ pending' = Append(q, Functor("resetChannel"))

\* Mutant of retry: the socket is not closed.
retryLeaks(again) ==
    /\ state_' = "kDisconnected"
    /\ timers' = IF again THEN timers + 1 ELSE timers
    /\ UNCHANGED <<sockets, retryDelayMs_>>

\* Mutant of retry: no timer is started once the delay has reached its maximum.
retryEnds(again) ==
    /\ state_' = "kDisconnected"
    /\ sockets' = sockets - 1
    /\ timers' = IF again /\ retryDelayMs_ < kMaxRetryDelayMs THEN timers + 1 ELSE timers
    /\ retryDelayMs_' = kMaxRetryDelayMs

\* The socket is closed and, if connected_ reads again, another attempt is made after
\* a delay that doubles.
retry(again) ==
    /\ state_' = "kDisconnected"
    /\ sockets' = sockets - 1
    /\ IF again
       THEN /\ timers' = timers + 1
            /\ retryDelayMs_' = IF 2 * retryDelayMs_ < kMaxRetryDelayMs
                                THEN 2 * retryDelayMs_ ELSE kMaxRetryDelayMs
       ELSE UNCHANGED <<timers, retryDelayMs_>>

\* An assert fails, or an object is used that is gone.
Fail(why) ==
    /\ failed' = why
    /\ UNCHANGED <<connectorVars, connected_, held, pending, loopPc, pc>>

\* Mutant of stopInLoop: a connect in progress is left alone.
stopInLoopIgnored(q, again) ==
    pending' = q /\ UNCHANGED <<state_, connectChannel_, sockets, timers, retryDelayMs_>>

\* Only a connect in progress can be stopped.
stopInLoop(q, again) ==
    IF state_ = "kConnecting" THEN removeAndResetChannel(q) /\ retry(again)
    ELSE /\ pending' = q
         /\ UNCHANGED <<state_, connectChannel_, sockets, timers, retryDelayMs_>>

-----------------------------------------------------------------------------
(* The loop thread                                                         *)

\* startInLoop: its assert, and the first read of connected_; then connect() and its socket.
StartInLoop ==
    /\ Running /\ loopPc = "startInLoop"
    /\ \/ state_ # "kDisconnected" /\ Fail("startInLoop")
       \/ /\ state_ = "kDisconnected"
          /\ loopPc' = IF connected_ THEN "connect" ELSE "idle"
          /\ sockets' = IF connected_ THEN sockets + 1 ELSE sockets
          /\ UNCHANGED <<state_, retryDelayMs_, connectChannel_, reported, givenUp, timers,
                         connected_, held, pending, pc, failed>>

\* There is no socket to be had: createNonblockingOrDie ends the program.
SocketFails ==
    /\ Running /\ loopPc = "startInLoop"
    /\ state_ = "kDisconnected" /\ connected_
    /\ Fail("socket")

\* connect(2) is under way: connecting(sock), with its two asserts.
ConnectProceeds ==
    /\ Running /\ loopPc = "connect"
    /\ \/ ~connected_ /\ Fail("connecting")
       \/ connected_ /\ connectChannel_ # "null" /\ Fail("connectChannel_")
       \/ /\ connected_ /\ connectChannel_ = "null"
          /\ state_' = "kConnecting"
          /\ connectChannel_' = "watched"
          /\ givenUp' = FALSE
          /\ loopPc' = "idle"
          /\ UNCHANGED <<retryDelayMs_, reported, sockets, timers, connected_, held,
                         pending, pc, failed>>

\* connect(2) fails at once, with an error that is retried.
ConnectRefused ==
    /\ Running /\ loopPc = "connect"
    /\ retry(connected_)
    /\ givenUp' = FALSE
    /\ loopPc' = "idle"
    /\ UNCHANGED <<connectChannel_, reported, connected_, held, pending, pc, failed>>

\* connect(2) fails with any other error: the socket is closed, and that is all.
ConnectFails ==
    /\ Running /\ loopPc = "connect"
    /\ sockets' = sockets - 1
    /\ givenUp' = TRUE
    /\ loopPc' = "idle"
    /\ UNCHANGED <<state_, retryDelayMs_, connectChannel_, reported, timers, connected_,
                   held, pending, pc, failed>>

\* poll reports connectChannel_.
PollReports ==
    /\ LoopIdle /\ connectChannel_ = "watched" /\ ~reported
    /\ reported' = TRUE
    /\ UNCHANGED <<state_, retryDelayMs_, connectChannel_, sockets, givenUp, timers,
                   connected_, held, pending, loopPc, pc, failed>>

\* handleError, or handleWrite that finds SO_ERROR or a self-connect.
HandleFailure ==
    /\ LoopIdle /\ reported /\ ~Freed
    /\ state_ = "kConnecting"
    /\ reported' = FALSE
    /\ removeAndResetChannel(pending)
    /\ retry(connected_)
    /\ UNCHANGED <<givenUp, connected_, held, loopPc, pc, failed>>

\* handleWrite on a connected socket: it is handed to connectionCallback_, or
\* closed when stop was called meanwhile.
HandleConnected(handOver) ==
    /\ LoopIdle /\ reported /\ ~Freed
    /\ state_ = "kConnecting" /\ connected_ = handOver
    /\ reported' = FALSE
    /\ removeAndResetChannel(pending)
    /\ sockets' = sockets - 1
    /\ state_' = IF handOver THEN "kConnected" ELSE "kDisconnected"
    /\ UNCHANGED <<retryDelayMs_, givenUp, timers, connected_, held, loopPc, pc, failed>>

\* An event that was collected before a callback of the same poll stopped the Connector;
\* that handleWrite's assert(state_ == kDisconnected) holds is part of OneAttempt.
HandleStale ==
    /\ LoopIdle /\ reported
    /\ \/ Freed /\ Fail("dangling")
       \/ /\ ~Freed /\ state_ # "kConnecting"
          /\ reported' = FALSE
          /\ UNCHANGED <<state_, retryDelayMs_, connectChannel_, sockets, givenUp, timers,
                         connected_, held, pending, loopPc, pc, failed>>

\* The timer of retry.
TimerFires ==
    /\ LoopIdle /\ timers > 0
    /\ timers' = timers - 1
    /\ loopPc' = "startInLoop"
    /\ UNCHANGED <<state_, retryDelayMs_, connectChannel_, reported, sockets, givenUp,
                   connected_, held, pending, pc, failed>>

\* The functors; the Connector's are bound to a raw this.
Due(ops) == LoopIdle /\ ~reported /\ pending # <<>> /\ Head(pending).op \in ops

ConnectorFunctor ==
    /\ Due({"startInLoop", "stopInLoop", "resetChannel"})
    /\ LET op == Head(pending).op IN
       \/ Freed /\ Fail("dangling")
       \/ /\ ~Freed /\ op = "startInLoop"
          /\ pending' = Tail(pending)
          /\ loopPc' = "startInLoop"
          /\ UNCHANGED <<connectorVars, connected_, held, pc, failed>>
       \/ /\ ~Freed /\ op = "stopInLoop"
          /\ stopInLoop(Tail(pending), connected_)
          /\ UNCHANGED <<reported, givenUp, connected_, held, loopPc, pc, failed>>
       \/ /\ ~Freed /\ op = "resetChannel"
          /\ connectChannel_' = "null"
          /\ pending' = Tail(pending)
          /\ UNCHANGED <<state_, retryDelayMs_, reported, sockets, givenUp, timers,
                         connected_, held, loopPc, pc, failed>>

\* Mutant of Restart: startInLoop is not called.
RestartForgets ==
    /\ Running /\ loopPc = "restart"
    /\ connected_' = TRUE
    /\ state_' = "kDisconnected"
    /\ retryDelayMs_' = kInitRetryDelayMs
    /\ loopPc' = "idle"
    /\ UNCHANGED <<connectChannel_, reported, sockets, givenUp, timers, held, pending, pc,
                   failed>>

\* restart, up to its call of startInLoop.
Restart ==
    /\ Running /\ loopPc = "restart"
    /\ connected_' = TRUE
    /\ state_' = "kDisconnected"
    /\ retryDelayMs_' = kInitRetryDelayMs
    /\ loopPc' = "startInLoop"
    /\ UNCHANGED <<connectChannel_, reported, sockets, givenUp, timers, held, pending, pc,
                   failed>>

-----------------------------------------------------------------------------
(* start and stop in another thread: the assignment, and the post.         *)

Assign(t) ==
    /\ Running /\ pc[t][1] \in {"start", "stop"}
    /\ connected_' = (pc[t][1] = "start")
    /\ pc' = [pc EXCEPT ![t][1] = IF @ = "start" THEN "startInLoop" ELSE "stopInLoop"]
    /\ UNCHANGED <<connectorVars, held, pending, loopPc, failed>>

PostCall(t) ==
    /\ Running /\ pc[t][1] \in {"startInLoop", "stopInLoop"}
    /\ pending' = Append(pending, Functor(pc[t][1]))
    /\ pc' = [pc EXCEPT ![t] = <<pc[t][2]>>]
    /\ UNCHANGED <<connectorVars, connected_, held, loopPc, failed>>
=============================================================================
