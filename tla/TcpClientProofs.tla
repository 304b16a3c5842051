-------------------------- MODULE TcpClientProofs --------------------------
(***************************************************************************)
(* The safety properties of TcpClient over its Connector, for any threads, *)
(* delays and bounds.                                                      *)
(***************************************************************************)
EXTENDS TcpClient, SequenceTheorems, FiniteSetTheorems, TLAPS

-----------------------------------------------------------------------------
(* The parts of the inductive invariant                                    *)

ConnectorType ==
    /\ state_ \in {"kDisconnected", "kConnecting", "kConnected"}
    /\ connectChannel_ \in {"null", "watched", "removed"}
    /\ connected_ \in BOOLEAN /\ reported \in BOOLEAN /\ givenUp \in BOOLEAN /\ held \in BOOLEAN
    /\ retryDelayMs_ \in kInitRetryDelayMs..kMaxRetryDelayMs
    /\ sockets \in Nat /\ timers \in Nat
    /\ loopPc \in {"idle", "startInLoop", "connect", "restart", "remove"}

ConnRecord == [state : {"kConnecting", "kDisconnected"} \cup Open,
               phase : Phases, closeCallback : {"client", "loop"}]

ClientType ==
    /\ connect_ \in BOOLEAN /\ retry_ \in BOOLEAN
    /\ calls \in 0..MaxCalls
    /\ connID_ \in 1..MaxConns + 1
    /\ connection_ \in 0..connID_ - 1
    /\ conns \in [Conns -> ConnRecord]
    /\ client \in {"alive", "dying", "gone"}

\* Where a thread is in connect, stop or the destructor.
Waits == {<<"idle">>, <<"release">>, <<"disconnect">>}
Starts == {"start", "stop", "startInLoop", "stopInLoop"} \X {"idle", "release"}
Destructs == {"setClose", "setCloseUnique", "forceClose", "setState", "postForceClose", "release"}
Closes == (Destructs \cup {"shutdown"}) \X Conns
ThreadType == pc \in [Threads -> Waits \cup Starts \cup Closes]
UserCalls == {<<"idle">>, <<"disconnect">>} \cup {"shutdown"} \X Conns
    \cup {"start", "stop", "startInLoop", "stopInLoop"} \X {"idle"}

\* How often a functor is in a queue.
Places(q, f) == {i \in DOMAIN q : q[i] = f}
Count(q, f) == Cardinality(Places(q, f))

\* One attempt at a time, and what the loop thread is about to do agrees with state_.
Attempt ==
    /\ sockets = One(connectChannel_ = "watched") + One(loopPc = "connect")
    /\ state_ = "kConnecting" <=> connectChannel_ = "watched"
    /\ Count(pending, Functor("resetChannel")) = One(connectChannel_ = "removed")
    /\ reported => state_ # "kConnected"
    /\ loopPc = "connect" => state_ = "kDisconnected"
    /\ loopPc = "restart" => state_ = "kConnected"

\* StoppedIsIdle and KeepsTrying while the program runs.
StopSeen ==
    ~connected_ /\ loopPc # "connect" /\ ~InCall({"stop", "stopInLoop"})
        /\ Count(pending, Functor("stopInLoop")) = 0
    => state_ # "kConnecting"
Tries ==
    connected_ /\ state_ = "kDisconnected" /\ ~givenUp
    => \/ timers > 0 \/ loopPc \in {"startInLoop", "connect"}
       \/ InCall({"startInLoop"}) \/ Count(pending, Functor("startInLoop")) > 0

\* A connection that is up, or is being closed, is the one that connection_ points to; no
\* restart is under way beside it, and the Connector has not been restarted.
OneOpen ==
    \A c \in Conns : conns[c].phase \in Live =>
        connection_ = c /\ state_ = "kConnected" /\ loopPc # "restart"

Destroyed(c) == [op |-> "connectionDestroyed", conn |-> c]
SetClose(c) == [op |-> "setCloseCallback", conn |-> c]

\* A closed connection is destroyed by exactly one functor, and identifiers are used
\* once.
DestroyedOnce ==
    \A c \in Conns : Count(pending, Destroyed(c)) = One(conns[c].phase = "closed")
Fresh == \A c \in Conns : c >= connID_ => conns[c].phase = "none"

\* The connection of the client is up until the client is told that it is closed; while
\* there is a client nothing of the destructor has been done.
OwnOpen ==
    \A c \in Conns : connection_ = c /\ conns[c].closeCallback = "client"
                     => conns[c].phase \in Live
NotClosing == client = "alive" => \A t \in Threads : pc[t] \in UserCalls
OwnCallback ==
    client = "alive" =>
        \A c \in Conns : conns[c].closeCallback = "client" /\ Count(pending, SetClose(c)) = 0

Closing == DestroyedOnce /\ Fresh /\ OwnOpen /\ NotClosing /\ OwnCallback

Types == ConnectorType /\ ClientType /\ ThreadType /\ pending \in Seq(Functors)
    /\ failed \in {"no", "startInLoop", "socket", "connecting", "connectChannel_", "dangling",
                   "forceCloseInLoop", "disableAll", "~TcpConnection", "~Channel"}

\* The inductive invariant.
ClientInv ==
    /\ Types
    /\ Running => Attempt /\ StopSeen /\ Tries /\ OneOpen /\ Closing

-----------------------------------------------------------------------------
(* Counting functors                                                       *)

\* A functor is counted with a natural number, which is 0 iff it is not there.
LEMMA CountType ==
    ASSUME NEW S, NEW q \in Seq(S), NEW f
    PROVE /\ IsFiniteSet(Places(q, f)) /\ Count(q, f) \in Nat
          /\ (\E i \in DOMAIN q : q[i] = f) <=> Count(q, f) > 0
<1>1. Len(q) \in Nat /\ DOMAIN q = 1..Len(q)
  BY LenProperties
<1>2. IsFiniteSet(1..Len(q))
  BY <1>1, FS_Interval
<1>3. Places(q, f) \in SUBSET (1..Len(q))
  BY <1>1 DEF Places
<1>4. IsFiniteSet(Places(q, f))
  BY <1>2, <1>3, FS_Subset
<1>5. Count(q, f) \in Nat
  BY <1>4, FS_CardinalityType DEF Count
<1>6. Count(q, f) = 0 <=> Places(q, f) = {}
  BY <1>4, FS_EmptySet DEF Count
<1>7. Places(q, f) # {} <=> \E i \in DOMAIN q : q[i] = f
  BY DEF Places
<1> QED
  BY <1>4, <1>5, <1>6, <1>7

\* A post adds one.
LEMMA CountAppend ==
    ASSUME NEW S, NEW q \in Seq(S), NEW g \in S, NEW f
    PROVE Count(Append(q, g), f) = IF g = f THEN Count(q, f) + 1 ELSE Count(q, f)
<1> DEFINE r == Append(q, g)
           n == Len(q) + 1
<1>1. /\ Len(q) \in Nat /\ DOMAIN q = 1..Len(q) /\ DOMAIN r = 1..n /\ r[n] = g
      /\ \A i \in 1..Len(q) : r[i] = q[i]
  BY LenProperties, AppendProperties
<1>2. DOMAIN r = DOMAIN q \cup {n} /\ n \notin DOMAIN q
  BY <1>1
<1> HIDE DEF r, n
<1>3. CASE g = f
  <2>1. Places(r, f) = Places(q, f) \cup {n} /\ n \notin Places(q, f)
    BY <1>1, <1>2, <1>3 DEF Places
  <2>2. IsFiniteSet(Places(q, f))
    BY CountType
  <2>3. Cardinality(Places(q, f) \cup {n}) = Cardinality(Places(q, f)) + 1
    BY <2>1, <2>2, FS_AddElement
  <2> QED
    BY <1>3, <2>1, <2>3 DEF Count, r
<1>4. CASE g # f
  <2>1. Places(r, f) = Places(q, f)
    BY <1>1, <1>2, <1>4 DEF Places
  <2> QED
    BY <1>4, <2>1 DEF Count, r
<1> QED
  BY <1>3, <1>4

\* doPendingFunctors takes one.
LEMMA CountTail ==
    ASSUME NEW S, NEW q \in Seq(S), q # <<>>, NEW f
    PROVE /\ Count(Tail(q), f) = IF Head(q) = f THEN Count(q, f) - 1 ELSE Count(q, f)
          /\ Head(q) = f => Count(q, f) > 0
<1> DEFINE r == Tail(q)
           A == Places(q, f)
           B == A \ {1}
<1>1. /\ Len(q) \in Nat /\ Len(q) > 0 /\ DOMAIN q = 1..Len(q) /\ DOMAIN r = 1..(Len(q) - 1)
      /\ q[1] = Head(q)
      /\ \A i \in 1..(Len(q) - 1) : r[i] = q[i + 1]
  OBVIOUS
<1>2. IsFiniteSet(A) /\ Count(q, f) \in Nat
  BY CountType
<1>3. IsFiniteSet(B) /\ Cardinality(B) = IF 1 \in A THEN Cardinality(A) - 1 ELSE Cardinality(A)
  BY <1>2, FS_RemoveElement
<1>4. 1 \in A <=> Head(q) = f
  BY <1>1 DEF Places
<1> HIDE DEF r
<1> DEFINE h == [i \in B |-> i - 1]
<1>5. h \in Bijection(B, Places(r, f))
  <2>1. \A i \in B : i \in 2..Len(q) /\ q[i] = f
    BY <1>1 DEF Places
  <2>2. \A i \in B : i - 1 \in DOMAIN r /\ r[i - 1] = f
    BY <1>1, <2>1
  <2>3. h \in [B -> Places(r, f)]
    BY <2>2 DEF Places
  <2>4. \A i, j \in B : h[i] = h[j] => i = j
    BY <2>1
  <2>5. \A j \in Places(r, f) : \E i \in B : h[i] = j
    <3> SUFFICES ASSUME NEW j \in Places(r, f)
                 PROVE \E i \in B : h[i] = j
      OBVIOUS
    <3>1. j \in 1..(Len(q) - 1) /\ r[j] = f
      BY <1>1 DEF Places
    <3>2. j + 1 \in B
      BY <1>1, <3>1 DEF Places
    <3>3. h[j + 1] = j
      BY <3>1, <3>2
    <3> QED
      BY <3>2, <3>3
  <2> HIDE DEF h, B
  <2> QED
    BY <2>3, <2>4, <2>5 DEF Bijection, Injection, Surjection, IsInjective
<1>6. Cardinality(Places(r, f)) = Cardinality(B)
  <2>1. ExistsBijection(B, Places(r, f))
    BY <1>5 DEF ExistsBijection
  <2> QED
    BY <1>3, <2>1, FS_Bijection
<1>7. Head(q) = f => Count(q, f) > 0
  BY <1>1, CountType
<1> HIDE DEF A, B
<1>8. Count(r, f) = IF Head(q) = f THEN Cardinality(A) - 1 ELSE Cardinality(A)
  BY <1>3, <1>4, <1>6 DEF Count
<1> QED
  BY <1>7, <1>8 DEF Count, A, r

\* Pending of module TcpClient is Count of the queue.
LEMMA PendingIs ==
    ASSUME NEW f
    PROVE Pending(f) = Count(pending, f) /\ Pending(f)' = Count(pending', f)
BY Zenon DEF Pending, Count, Places

\* Posting a functor raises its count by one, and no other.
LEMMA Post ==
    ASSUME NEW q \in Seq(Functors), NEW g \in Functors
    PROVE /\ Append(q, g) \in Seq(Functors)
          /\ \A f : Count(q, f) \in Nat
          /\ \A f : Count(Append(q, g), f) = IF g = f THEN Count(q, f) + 1 ELSE Count(q, f)
<1>1. Append(q, g) \in Seq(Functors)
  BY AppendProperties
<1> QED
  BY <1>1, CountType, CountAppend, ZenonT(60)

\* Taking the first functor lowers its count by one, and no other.
LEMMA Take ==
    ASSUME NEW q \in Seq(Functors), q # <<>>
    PROVE /\ Tail(q) \in Seq(Functors) /\ Head(q) \in Functors
          /\ \A f : Count(q, f) \in Nat
          /\ \A f : Count(Tail(q), f) = IF Head(q) = f THEN Count(q, f) - 1 ELSE Count(q, f)
          /\ \A f : Head(q) = f => Count(q, f) > 0
<1>1. Tail(q) \in Seq(Functors) /\ Head(q) \in Functors
  BY HeadTailProperties
<1> QED
  BY <1>1, CountType, CountTail, Zenon

\* What the code posts are functors.
LEMMA FunctorTypes ==
    /\ Functor("startInLoop") \in Functors /\ Functor("stopInLoop") \in Functors
    /\ Functor("resetChannel") \in Functors
    /\ \A c \in Conns : Destroyed(c) \in Functors /\ SetClose(c) \in Functors
                        /\ [op |-> "forceCloseInLoop", conn |-> c] \in Functors
BY DEF Functor, Functors, ConnFunctors, Destroyed, SetClose

\* Functors are told apart by their names, and those of connections by the connection.
LEMMA FunctorsDiffer ==
    /\ Functor("startInLoop").op = "startInLoop" /\ Functor("stopInLoop").op = "stopInLoop"
    /\ Functor("resetChannel").op = "resetChannel"
    /\ \A c \in Conns : Destroyed(c).op = "connectionDestroyed" /\ SetClose(c).op = "setCloseCallback"
    /\ \A c \in Conns : [op |-> "forceCloseInLoop", conn |-> c].op = "forceCloseInLoop"
    /\ \A c, d \in Conns : (Destroyed(c) = Destroyed(d) => c = d) /\ (SetClose(c) = SetClose(d) => c = d)
<1>1. \A c \in Conns : Destroyed(c).conn = c /\ SetClose(c).conn = c
  BY DEF Destroyed, SetClose
<1>2. \A c, d \in Conns : (Destroyed(c) = Destroyed(d) => c = d) /\ (SetClose(c) = SetClose(d) => c = d)
  BY <1>1, Zenon
<1> QED
  BY <1>2 DEF Functor, Destroyed, SetClose

\* The other way round: what a functor of a name is.
LEMMA FunctorIs ==
    ASSUME NEW f \in Functors
    PROVE /\ f.op \in {"startInLoop", "stopInLoop", "resetChannel", "setCloseCallback",
                       "forceCloseInLoop", "connectionDestroyed"}
          /\ f.op \in {"startInLoop", "stopInLoop", "resetChannel"} => f = Functor(f.op)
          /\ f.op = "connectionDestroyed" => f.conn \in Conns /\ f = Destroyed(f.conn)
          /\ f.op = "setCloseCallback" => f.conn \in Conns /\ f = SetClose(f.conn)
          /\ f.op = "forceCloseInLoop" => f.conn \in Conns
<1>1. CASE f \in [op : {"startInLoop", "stopInLoop", "resetChannel"}]
  <2>1. f.op \in {"startInLoop", "stopInLoop", "resetChannel"} /\ f = [op |-> f.op]
    BY <1>1
  <2> QED
    BY <2>1 DEF Functor
<1>2. CASE f \in ConnFunctors
  <2>1. /\ f.op \in {"setCloseCallback", "forceCloseInLoop", "connectionDestroyed"}
        /\ f.conn \in Conns /\ f = [op |-> f.op, conn |-> f.conn]
    BY <1>2 DEF ConnFunctors
  <2> QED
    BY <2>1 DEF Destroyed, SetClose
<1> QED
  BY <1>1, <1>2 DEF Functors

-----------------------------------------------------------------------------
(* The steps of the Connector                                              *)

\* A failed assert ends the program; nothing else changes.
LEMMA FailKeeps ==
    ASSUME ClientInv, NEW why \in {"startInLoop", "socket", "connecting", "connectChannel_",
                                   "dangling", "forceCloseInLoop", "disableAll", "~TcpConnection", "~Channel"},
           Fail(why), UNCHANGED <<clientVars, calls>>
    PROVE ClientInv'
<1>1. /\ state_' = state_ /\ retryDelayMs_' = retryDelayMs_ /\ connectChannel_' = connectChannel_
      /\ reported' = reported /\ sockets' = sockets /\ givenUp' = givenUp /\ timers' = timers
      /\ connected_' = connected_ /\ held' = held /\ pending' = pending /\ loopPc' = loopPc
      /\ pc' = pc /\ connect_' = connect_ /\ retry_' = retry_ /\ connID_' = connID_
      /\ connection_' = connection_ /\ conns' = conns /\ client' = client /\ calls' = calls
  BY Zenon DEF Fail, connectorVars, clientVars
<1>2. failed' = why
  BY Zenon DEF Fail
<1>3. /\ failed' # "no"
      /\ failed' \in {"no", "startInLoop", "socket", "connecting", "connectChannel_", "dangling",
                   "forceCloseInLoop", "disableAll", "~TcpConnection", "~Channel"}
  BY <1>2
<1>4. ConnectorType'
  BY <1>1, Zenon DEF ClientInv, Types, ConnectorType
<1>5. ClientType' /\ ThreadType' /\ pending' \in Seq(Functors)
  BY <1>1, Zenon DEF ClientInv, Types, ClientType, ThreadType
<1> QED
  BY <1>3, <1>4, <1>5, Zenon DEF ClientInv, Types, Running

\* What a step of the loop thread has to show when it leaves the client, the threads
\* and the functors of connections alone.
LEMMA LoopStepKeeps ==
    ASSUME ClientInv, Running, UNCHANGED <<pc, failed, clientVars, calls>>,
           ConnectorType', pending' \in Seq(Functors),
           Attempt', StopSeen', Tries',
           \A c \in Conns : /\ Count(pending', Destroyed(c)) = Count(pending, Destroyed(c))
                            /\ Count(pending', SetClose(c)) = Count(pending, SetClose(c)),
           state_ = "kConnected" /\ loopPc # "restart"
              => state_' = "kConnected" /\ loopPc' # "restart"
    PROVE ClientInv'
<1>1. /\ pc' = pc /\ failed' = failed /\ connect_' = connect_ /\ retry_' = retry_
      /\ connID_' = connID_ /\ connection_' = connection_ /\ conns' = conns
      /\ client' = client /\ calls' = calls
  BY Zenon DEF clientVars
<1>2. Types'
  BY <1>1, Zenon DEF ClientInv, Types, ClientType, ThreadType
<1>3. OneOpen'
  BY <1>1, Zenon DEF ClientInv, OneOpen
<1>4. DestroyedOnce'
  <2>1. \A c \in Conns : Count(pending', Destroyed(c)) = One(conns[c].phase = "closed")
    BY Zenon DEF ClientInv, Closing, DestroyedOnce
  <2> QED
    BY <1>1, <2>1, Zenon DEF DestroyedOnce, Destroyed, One, Count, Places
<1>5. OwnCallback'
  <2>1. client = "alive" => \A c \in Conns : conns[c].closeCallback = "client"
                                            /\ Count(pending', SetClose(c)) = 0
    BY Zenon DEF ClientInv, Closing, OwnCallback
  <2> QED
    BY <1>1, <2>1, Zenon DEF OwnCallback, SetClose, Count, Places
<1>6. Fresh' /\ OwnOpen' /\ NotClosing'
  BY <1>1, Zenon DEF ClientInv, Closing, Fresh, OwnOpen, NotClosing
<1> QED
  BY <1>2, <1>3, <1>4, <1>5, <1>6, Zenon DEF ClientInv, Closing

\* Calls in progress are as they were.
LEMMA InCallStays ==
    ASSUME pc' = pc, NEW ops
    PROVE InCall(ops)' <=> InCall(ops)
BY Zenon DEF InCall

\* Connector::retry closes the socket, and starts a timer when it is to try again.
LEMMA RetryFacts ==
    ASSUME ConnectorType, NEW again \in BOOLEAN, retry(again), sockets > 0
    PROVE /\ state_' = "kDisconnected" /\ sockets' = sockets - 1 /\ sockets' \in Nat
          /\ timers' \in Nat /\ timers' >= timers /\ (again => timers' > 0)
          /\ retryDelayMs_' \in kInitRetryDelayMs..kMaxRetryDelayMs
<1>1. sockets \in Nat /\ timers \in Nat /\ retryDelayMs_ \in kInitRetryDelayMs..kMaxRetryDelayMs
  BY DEF ConnectorType
<1>2. state_' = "kDisconnected" /\ sockets' = sockets - 1
  BY Zenon DEF retry
<1>3. CASE again
  <2>1. /\ timers' = timers + 1
        /\ retryDelayMs_' = IF 2 * retryDelayMs_ < kMaxRetryDelayMs
                            THEN 2 * retryDelayMs_ ELSE kMaxRetryDelayMs
    BY <1>3, Zenon DEF retry
  <2>2. retryDelayMs_' \in kInitRetryDelayMs..kMaxRetryDelayMs
    BY <1>1, <2>1, DelayAssumption
  <2> QED
    BY <1>1, <1>2, <2>1, <2>2
<1>4. CASE ~again
  <2>1. timers' = timers /\ retryDelayMs_' = retryDelayMs_
    BY <1>4, Zenon DEF retry
  <2> QED
    BY <1>1, <1>2, <1>4, <2>1
<1> QED
  BY <1>3, <1>4

\* The parts of the invariant after a step, with the queue after the step spelt out.
LEMMA AttemptIntro ==
    ASSUME sockets' = One(connectChannel_' = "watched") + One(loopPc' = "connect"),
           state_' = "kConnecting" <=> connectChannel_' = "watched",
           Count(pending', Functor("resetChannel")) = One(connectChannel_' = "removed"),
           reported' => state_' # "kConnected",
           loopPc' = "connect" => state_' = "kDisconnected",
           loopPc' = "restart" => state_' = "kConnected"
    PROVE Attempt'
BY Zenon DEF Attempt, One, Count, Places, Functor

\* StopSeen in the next state, with its functor counted.
LEMMA StopSeenIntro ==
    ASSUME ~connected_' /\ loopPc' # "connect" /\ ~InCall({"stop", "stopInLoop"})'
              /\ Count(pending', Functor("stopInLoop")) = 0
           => state_' # "kConnecting"
    PROVE StopSeen'
BY Zenon DEF StopSeen, Count, Places, Functor

\* Tries in the next state, with its functor counted.
LEMMA TriesIntro ==
    ASSUME connected_' /\ state_' = "kDisconnected" /\ ~givenUp'
           => \/ timers' > 0 \/ loopPc' \in {"startInLoop", "connect"}
              \/ InCall({"startInLoop"})' \/ Count(pending', Functor("startInLoop")) > 0
    PROVE Tries'
BY Zenon DEF Tries, Count, Places, Functor

\* The steps that only move the loop thread on: the queue and connected_ stay.
LEMMA QuietKeeps ==
    ASSUME ClientInv, Running, UNCHANGED <<pc, failed, clientVars, calls>>,
           UNCHANGED <<pending, connected_>>, ConnectorType',
           sockets' = One(connectChannel_' = "watched") + One(loopPc' = "connect"),
           state_' = "kConnecting" <=> connectChannel_' = "watched",
           connectChannel_' = "removed" <=> connectChannel_ = "removed",
           reported' => state_' # "kConnected",
           loopPc' = "connect" => state_' = "kDisconnected", loopPc' # "restart",
           state_' = "kConnecting" => connected_ \/ state_ = "kConnecting",
           connected_ /\ state_' = "kDisconnected" /\ ~givenUp'
              => \/ timers' > 0 \/ loopPc' \in {"startInLoop", "connect"}
                 \/ /\ state_ = "kDisconnected" /\ ~givenUp /\ timers = 0
                    /\ loopPc \notin {"startInLoop", "connect"},
           state_ = "kConnected" /\ loopPc # "restart"
              => state_' = "kConnected"
    PROVE ClientInv'
<1>1. pending' = pending /\ connected_' = connected_ /\ pc' = pc
  BY Zenon
<1>2. Types /\ Attempt /\ StopSeen /\ Tries
  BY Zenon DEF ClientInv
<1>3. Attempt'
  <2>1. Count(pending', Functor("resetChannel")) = One(connectChannel_' = "removed")
    <3>1. Count(pending, Functor("resetChannel")) = One(connectChannel_ = "removed")
      BY <1>2, Zenon DEF Attempt
    <3> QED
      BY <1>1, <3>1 DEF One
  <2> QED
    BY <2>1, AttemptIntro
<1>4. \A ops : InCall(ops)' <=> InCall(ops)
  BY <1>1, InCallStays, Zenon
<1>5. connected_' <=> connected_
  BY <1>1
<1>6. StopSeen'
  <2>1. state_ = "kConnecting" => loopPc # "connect"
    BY <1>2 DEF Attempt
  <2>2. ~connected_' /\ loopPc' # "connect" /\ ~InCall({"stop", "stopInLoop"})'
              /\ Count(pending', Functor("stopInLoop")) = 0
           => state_' # "kConnecting"
    <3> SUFFICES ASSUME ~connected_', loopPc' # "connect", ~InCall({"stop", "stopInLoop"})',
                        Count(pending', Functor("stopInLoop")) = 0, state_' = "kConnecting"
                 PROVE FALSE
      BY Zenon
    <3>1. ~connected_ /\ ~InCall({"stop", "stopInLoop"})
      BY <1>4, <1>5, Zenon
    <3>2. Count(pending, Functor("stopInLoop")) = 0
      BY <1>1
    <3>3. state_ = "kConnecting"
      BY <3>1, Zenon
    <3> QED
      BY <1>2, <2>1, <3>1, <3>2, <3>3, Zenon DEF StopSeen
  <2> QED
    BY <2>2, StopSeenIntro
<1>7. Tries'
  <2>1. connected_' /\ state_' = "kDisconnected" /\ ~givenUp'
           => \/ timers' > 0 \/ loopPc' \in {"startInLoop", "connect"}
              \/ InCall({"startInLoop"})' \/ Count(pending', Functor("startInLoop")) > 0
    <3> SUFFICES ASSUME connected_', state_' = "kDisconnected", ~givenUp',
                        ~(timers' > 0), loopPc' \notin {"startInLoop", "connect"}
                 PROVE InCall({"startInLoop"})' \/ Count(pending', Functor("startInLoop")) > 0
      BY Zenon
    <3>1. connected_
      BY <1>5, Zenon
    <3>2. /\ state_ = "kDisconnected" /\ ~givenUp /\ timers = 0
          /\ loopPc \notin {"startInLoop", "connect"}
      BY <3>1, Zenon
    <3>3. ~(timers > 0)
      BY <3>2
    <3>4. InCall({"startInLoop"}) \/ Count(pending, Functor("startInLoop")) > 0
      BY <1>2, <3>1, <3>2, <3>3, Zenon DEF Tries
    <3>5. Count(pending', Functor("startInLoop")) = Count(pending, Functor("startInLoop"))
      BY <1>1
    <3> QED
      BY <1>4, <3>4, <3>5, Zenon
  <2> QED
    BY <2>1, TriesIntro
<1>8. pending' \in Seq(Functors)
  BY <1>1, <1>2, Zenon DEF Types
<1> QED
  BY <1>1, <1>3, <1>6, <1>7, <1>8, LoopStepKeeps, Zenon

\* Connector::startInLoop reads connected_ and goes on to connect, or not.
LEMMA StartInLoopKeeps ==
    ASSUME ClientInv, Running, StartInLoop, UNCHANGED <<clientVars, calls>>
    PROVE ClientInv'
<1>1. CASE Fail("startInLoop")
  BY <1>1, FailKeeps
<1>2. CASE ~Fail("startInLoop")
  <2>1. /\ loopPc = "startInLoop" /\ state_ = "kDisconnected"
        /\ loopPc' = (IF connected_ THEN "connect" ELSE "idle")
        /\ sockets' = (IF connected_ THEN sockets + 1 ELSE sockets)
        /\ state_' = state_ /\ retryDelayMs_' = retryDelayMs_ /\ connectChannel_' = connectChannel_
        /\ reported' = reported /\ givenUp' = givenUp /\ timers' = timers /\ connected_' = connected_
        /\ held' = held /\ pending' = pending /\ pc' = pc /\ failed' = failed
    BY <1>2, Zenon DEF StartInLoop
  <2>2. ConnectorType /\ Attempt
    BY Zenon DEF ClientInv, Types
  <2>3. ConnectorType'
    <3>1. loopPc' \in {"idle", "startInLoop", "connect", "restart", "remove"} /\ sockets' \in Nat
      BY <2>1, <2>2 DEF ConnectorType
    <3> QED
      BY <2>1, <2>2, <3>1, Zenon DEF ConnectorType
  <2>4. sockets' = One(connectChannel_' = "watched") + One(loopPc' = "connect")
    BY <2>1, <2>2 DEF Attempt, One, ConnectorType
  <2>5. /\ state_' = "kConnecting" <=> connectChannel_' = "watched"
        /\ connectChannel_' = "removed" <=> connectChannel_ = "removed"
        /\ reported' => state_' # "kConnected"
        /\ loopPc' = "connect" => state_' = "kDisconnected"
        /\ state_' = "kConnecting" => connected_ \/ state_ = "kConnecting"
    BY <2>1, <2>2, Zenon DEF Attempt
  <2>6. /\ connected_ => loopPc' \in {"startInLoop", "connect"}
        /\ ~(state_ = "kConnected") /\ loopPc' # "restart"
    BY <2>1
  <2> QED
    BY <2>1, <2>3, <2>4, <2>5, <2>6, QuietKeeps, Zenon
<1> QED
  BY <1>1, <1>2

\* connect(2) is in progress: connecting makes a channel.
LEMMA ConnectProceedsKeeps ==
    ASSUME ClientInv, Running, ConnectProceeds, UNCHANGED <<clientVars, calls>>
    PROVE ClientInv'
<1>1. CASE Fail("connecting") \/ Fail("connectChannel_")
  BY <1>1, FailKeeps
<1>2. CASE ~(Fail("connecting") \/ Fail("connectChannel_"))
  <2>1. /\ loopPc = "connect" /\ connected_ /\ connectChannel_ = "null"
        /\ state_' = "kConnecting" /\ connectChannel_' = "watched" /\ givenUp' = FALSE
        /\ loopPc' = "idle" /\ retryDelayMs_' = retryDelayMs_ /\ reported' = reported
        /\ sockets' = sockets /\ timers' = timers /\ connected_' = connected_ /\ held' = held
        /\ pending' = pending /\ pc' = pc /\ failed' = failed
    BY <1>2, Zenon DEF ConnectProceeds
  <2>2. ConnectorType /\ Attempt
    BY Zenon DEF ClientInv, Types
  <2>3. ConnectorType'
    <3>1. /\ state_' \in {"kDisconnected", "kConnecting", "kConnected"}
          /\ connectChannel_' \in {"null", "watched", "removed"}
          /\ loopPc' \in {"idle", "startInLoop", "connect", "restart", "remove"} /\ givenUp' \in BOOLEAN
      BY <2>1
    <3> QED
      BY <2>1, <2>2, <3>1, Zenon DEF ConnectorType
  <2>4. sockets' = One(connectChannel_' = "watched") + One(loopPc' = "connect")
    BY <2>1, <2>2 DEF Attempt, One, ConnectorType
  <2>5. /\ state_ = "kDisconnected" /\ state_' # "kConnected" /\ state_' # "kDisconnected"
        /\ connectChannel_' # "removed" /\ connectChannel_ # "removed" /\ loopPc' # "connect"
        /\ state_ # "kConnected" /\ loopPc' # "restart"
    BY <2>1, <2>2 DEF Attempt
  <2> QED
    BY <2>1, <2>3, <2>4, <2>5, QuietKeeps, Zenon
<1> QED
  BY <1>1, <1>2

\* connect(2) failed: a retry timer, or the Connector gives up.
LEMMA ConnectEndsKeeps ==
    ASSUME ClientInv, Running, ConnectRefused \/ ConnectFails, UNCHANGED <<clientVars, calls>>
    PROVE ClientInv'
<1>1. ConnectorType /\ Attempt
  BY Zenon DEF ClientInv, Types
<1>2. loopPc = "connect" /\ loopPc' = "idle"
  BY Zenon DEF ConnectRefused, ConnectFails
<1>3. /\ connectChannel_' = connectChannel_ /\ reported' = reported /\ connected_' = connected_
      /\ held' = held /\ pending' = pending /\ pc' = pc /\ failed' = failed
  BY Zenon DEF ConnectRefused, ConnectFails
<1>4. state_ = "kDisconnected" /\ connectChannel_ # "watched"
  BY <1>1, <1>2 DEF Attempt
<1>5. sockets = 1
  BY <1>1, <1>2, <1>4 DEF Attempt, One
<1>6. /\ state_' = "kDisconnected" /\ sockets' = 0 /\ timers' \in Nat
      /\ retryDelayMs_' \in kInitRetryDelayMs..kMaxRetryDelayMs
      /\ givenUp' \in BOOLEAN /\ (connected_ /\ ~givenUp' => timers' > 0)
  <2>1. CASE ConnectRefused
    <3>1. retry(connected_) /\ givenUp' = FALSE
      BY <2>1, Zenon DEF ConnectRefused
    <3>2. connected_ \in BOOLEAN
      BY <1>1, Zenon DEF ConnectorType
    <3>3. sockets > 0
      BY <1>5
    <3>4. /\ state_' = "kDisconnected" /\ sockets' = sockets - 1
          /\ timers' \in Nat /\ (connected_ => timers' > 0)
          /\ retryDelayMs_' \in kInitRetryDelayMs..kMaxRetryDelayMs
      BY <1>1, <3>1, <3>2, <3>3, RetryFacts
    <3>5. sockets' = 0
      BY <1>5, <3>4
    <3> QED
      BY <3>1, <3>4, <3>5
  <2>2. CASE ConnectFails
    <3>1. /\ sockets' = sockets - 1 /\ givenUp' = TRUE /\ state_' = state_
          /\ retryDelayMs_' = retryDelayMs_ /\ timers' = timers
      BY <2>2, Zenon DEF ConnectFails
    <3>2. sockets' = 0
      BY <1>5, <3>1
    <3> QED
      BY <1>1, <1>4, <3>1, <3>2 DEF ConnectorType
  <2> QED
    BY <2>1, <2>2
<1>7. ConnectorType'
  <2>1. /\ state_' \in {"kDisconnected", "kConnecting", "kConnected"} /\ sockets' \in Nat
        /\ loopPc' \in {"idle", "startInLoop", "connect", "restart", "remove"}
    BY <1>2, <1>6
  <2> QED
    BY <1>1, <1>3, <1>6, <2>1, Zenon DEF ConnectorType
<1>8. sockets' = One(connectChannel_' = "watched") + One(loopPc' = "connect")
  BY <1>2, <1>3, <1>4, <1>6 DEF One
<1>9. /\ state_' # "kConnected" /\ state_' # "kConnecting" /\ loopPc' # "connect"
      /\ state_ # "kConnected" /\ loopPc' # "restart"
  BY <1>2, <1>4, <1>6
<1> QED
  BY <1>3, <1>4, <1>6, <1>7, <1>8, <1>9, QuietKeeps, Zenon

\* The poll reports the channel of the attempt.
LEMMA PollReportsKeeps ==
    ASSUME ClientInv, Running, PollReports, UNCHANGED <<clientVars, calls>>
    PROVE ClientInv'
<1>1. ConnectorType /\ Attempt
  BY Zenon DEF ClientInv, Types
<1>2. /\ loopPc = "idle" /\ connectChannel_ = "watched" /\ reported' = TRUE
      /\ state_' = state_ /\ retryDelayMs_' = retryDelayMs_ /\ connectChannel_' = connectChannel_
      /\ sockets' = sockets /\ givenUp' = givenUp /\ timers' = timers
      /\ connected_' = connected_ /\ held' = held /\ pending' = pending /\ loopPc' = loopPc
      /\ pc' = pc /\ failed' = failed
  BY Zenon DEF PollReports, LoopIdle
<1>3. state_ = "kConnecting" /\ state_ # "kConnected" /\ state_ # "kDisconnected"
  BY <1>1, <1>2 DEF Attempt
<1>4. ConnectorType'
  <2>1. reported' \in BOOLEAN
    BY <1>2
  <2> QED
    BY <1>1, <1>2, <2>1, Zenon DEF ConnectorType
<1>5. sockets' = One(connectChannel_' = "watched") + One(loopPc' = "connect")
  BY <1>1, <1>2, Zenon DEF Attempt, One
<1>6. loopPc' # "connect" /\ loopPc' # "restart"
  BY <1>2
<1> QED
  BY <1>2, <1>3, <1>4, <1>5, <1>6, QuietKeeps, Zenon

\* A retry timer fires; a stale event is handled; no socket can be made.
LEMMA TimerFiresKeeps ==
    ASSUME ClientInv, Running, TimerFires \/ HandleStale \/ SocketFails,
           UNCHANGED <<clientVars, calls>>
    PROVE ClientInv'
<1>1. ConnectorType /\ Attempt
  BY Zenon DEF ClientInv, Types
<1>2. CASE TimerFires
  <2>1. /\ loopPc = "idle" /\ timers > 0 /\ timers' = timers - 1 /\ loopPc' = "startInLoop"
        /\ state_' = state_ /\ retryDelayMs_' = retryDelayMs_ /\ connectChannel_' = connectChannel_
        /\ reported' = reported /\ sockets' = sockets /\ givenUp' = givenUp
        /\ connected_' = connected_ /\ held' = held /\ pending' = pending
        /\ pc' = pc /\ failed' = failed
    BY <1>2, Zenon DEF TimerFires, LoopIdle
  <2>2. ConnectorType'
    <3>1. timers' \in Nat /\ loopPc' \in {"idle", "startInLoop", "connect", "restart", "remove"}
      BY <1>1, <2>1 DEF ConnectorType
    <3> QED
      BY <1>1, <2>1, <3>1, Zenon DEF ConnectorType
  <2>3. loopPc' # "connect" /\ loopPc # "connect" /\ loopPc' # "restart"
        /\ loopPc' \in {"startInLoop", "connect"}
    BY <2>1
  <2>4. sockets' = One(connectChannel_' = "watched") + One(loopPc' = "connect")
    BY <1>1, <2>1, <2>3 DEF Attempt, One
  <2>5. /\ state_' = "kConnecting" <=> connectChannel_' = "watched"
        /\ reported' => state_' # "kConnected"
    BY <1>1, <2>1 DEF Attempt
  <2> QED
    BY <2>1, <2>2, <2>3, <2>4, <2>5, QuietKeeps, Zenon
<1>3. CASE HandleStale /\ ~Fail("dangling")
  <2>1. /\ loopPc = "idle" /\ state_ # "kConnecting" /\ reported' = FALSE
        /\ state_' = state_ /\ retryDelayMs_' = retryDelayMs_ /\ connectChannel_' = connectChannel_
        /\ sockets' = sockets /\ givenUp' = givenUp /\ timers' = timers
        /\ connected_' = connected_ /\ held' = held /\ pending' = pending /\ loopPc' = loopPc
        /\ pc' = pc /\ failed' = failed
    BY <1>3, Zenon DEF HandleStale, LoopIdle
  <2>2. ConnectorType'
    <3>1. reported' \in BOOLEAN
      BY <2>1
    <3> QED
      BY <1>1, <2>1, <3>1, Zenon DEF ConnectorType
  <2>3. loopPc' # "connect" /\ loopPc \notin {"startInLoop", "connect"} /\ loopPc' # "restart"
        /\ ~reported'
    BY <2>1
  <2>4. sockets' = One(connectChannel_' = "watched") + One(loopPc' = "connect")
    BY <1>1, <2>1, <2>3 DEF Attempt, One
  <2>5. state_' = "kConnecting" <=> connectChannel_' = "watched"
    BY <1>1, <2>1 DEF Attempt
  <2>6. ~givenUp' => ~givenUp
    BY <2>1
  <2>7. timers' > 0 \/ timers = 0
    BY <1>1, <2>1 DEF ConnectorType
  <2> QED
    BY <2>1, <2>2, <2>3, <2>4, <2>5, <2>6, <2>7, QuietKeeps, Zenon
<1>4. CASE SocketFails \/ Fail("dangling")
  BY <1>4, FailKeeps DEF SocketFails
<1> QED
  BY <1>2, <1>3, <1>4

\* A connect in progress is given up or has succeeded: its channel leaves the poller.
LEMMA LeavesPoller ==
    ASSUME ClientInv, Running, NEW q, state_ = "kConnecting", loopPc = "idle",
           \/ q = pending
           \/ pending # <<>> /\ q = Tail(pending) /\ Head(pending) = Functor("stopInLoop"),
           removeAndResetChannel(q), sockets' = sockets - 1, loopPc' = loopPc,
           state_' \in {"kDisconnected", "kConnected"}, reported' => state_' # "kConnected"
    PROVE /\ sockets > 0 /\ sockets' = 0 /\ connectChannel_' = "removed"
          /\ pending' \in Seq(Functors) /\ Attempt' /\ StopSeen'
          /\ \A c \in Conns : /\ Count(pending', Destroyed(c)) = Count(pending, Destroyed(c))
                              /\ Count(pending', SetClose(c)) = Count(pending, SetClose(c))
<1> DEFINE r == Functor("resetChannel")
<1>1. Attempt /\ pending \in Seq(Functors)
  BY Zenon DEF ClientInv, Types
<1>2. connectChannel_ = "watched" /\ Count(pending, r) = 0 /\ sockets = 1
  BY <1>1 DEF Attempt, One
<1>3. connectChannel_' = "removed" /\ pending' = Append(q, r)
  BY Zenon DEF removeAndResetChannel
<1>4. r \in Functors /\ r.op = "resetChannel" /\ Functor("stopInLoop").op = "stopInLoop"
  BY FunctorTypes, FunctorsDiffer, Zenon
<1>5. \A c \in Conns : /\ Destroyed(c).op = "connectionDestroyed"
                        /\ SetClose(c).op = "setCloseCallback"
  BY FunctorsDiffer, Zenon
<1> HIDE DEF r
<1>6. /\ q \in Seq(Functors) /\ Count(q, r) = 0
      /\ \A c \in Conns : /\ Count(q, Destroyed(c)) = Count(pending, Destroyed(c))
                          /\ Count(q, SetClose(c)) = Count(pending, SetClose(c))
  <2>1. CASE q = pending
    BY <1>1, <1>2, <2>1
  <2>2. CASE pending # <<>> /\ q = Tail(pending) /\ Head(pending) = Functor("stopInLoop")
    <3>1. /\ q \in Seq(Functors)
          /\ \A f : Count(q, f) = IF Head(pending) = f THEN Count(pending, f) - 1 ELSE Count(pending, f)
      BY <1>1, <2>2, Take, Zenon
    <3>2. Head(pending) # r
      BY <1>4, <2>2
    <3>3. \A c \in Conns : Head(pending) # Destroyed(c) /\ Head(pending) # SetClose(c)
      BY <1>4, <1>5, <2>2
    <3> QED
      BY <1>2, <3>1, <3>2, <3>3, Zenon
  <2> QED
    BY <2>1, <2>2
<1>7. /\ pending' \in Seq(Functors)
      /\ \A f : Count(pending', f) = IF r = f THEN Count(q, f) + 1 ELSE Count(q, f)
  BY <1>3, <1>4, <1>6, Post, ZenonT(60)
<1>8. Count(pending', r) = 1
  <2>1. Count(pending', r) = 0 + 1
    BY <1>6, <1>7, Zenon
  <2> QED
    BY <2>1
<1>9. \A c \in Conns : r # Destroyed(c) /\ r # SetClose(c)
  BY <1>4, <1>5
<1>10. \A c \in Conns : /\ Count(pending', Destroyed(c)) = Count(pending, Destroyed(c))
                         /\ Count(pending', SetClose(c)) = Count(pending, SetClose(c))
  BY <1>6, <1>7, <1>9, Zenon
<1>11. Attempt'
  <2>1. sockets' = One(connectChannel_' = "watched") + One(loopPc' = "connect")
    BY <1>2, <1>3 DEF One
  <2>2. /\ state_' = "kConnecting" <=> connectChannel_' = "watched"
        /\ loopPc' = "connect" => state_' = "kDisconnected"
        /\ loopPc' = "restart" => state_' = "kConnected"
    BY <1>3
  <2>3. Count(pending', Functor("resetChannel")) = One(connectChannel_' = "removed")
    BY <1>3, <1>8 DEF One, r
  <2> QED
    BY <2>1, <2>2, <2>3, AttemptIntro
<1>12. StopSeen'
  <2>1. state_' # "kConnecting"
    OBVIOUS
  <2> QED
    BY <2>1, StopSeenIntro
<1>13. sockets > 0 /\ sockets' = 0
  BY <1>2
<1> QED
  BY <1>3, <1>7, <1>10, <1>11, <1>12, <1>13

\* handleWrite or handleError of an attempt that fails, or of a Connector stopped since.
LEMMA HandleEventKeeps ==
    ASSUME ClientInv, Running, HandleFailure \/ HandleConnected(FALSE),
           UNCHANGED <<clientVars, calls>>
    PROVE ClientInv'
<1>1. ConnectorType
  BY Zenon DEF ClientInv, Types
<1>2. /\ loopPc = "idle" /\ state_ = "kConnecting" /\ reported' = FALSE
      /\ removeAndResetChannel(pending)
      /\ givenUp' = givenUp /\ connected_' = connected_ /\ held' = held
      /\ loopPc' = loopPc /\ pc' = pc /\ failed' = failed
  BY Zenon DEF HandleFailure, HandleConnected, LoopIdle
<1>3. sockets' = sockets - 1 /\ state_' = "kDisconnected"
  BY Zenon DEF HandleFailure, HandleConnected, retry
<1>4. ~reported' /\ state_' \in {"kDisconnected", "kConnected"}
  BY <1>2, <1>3
<1>5. /\ sockets > 0 /\ sockets' = 0 /\ connectChannel_' = "removed"
      /\ pending' \in Seq(Functors) /\ Attempt' /\ StopSeen'
      /\ \A c \in Conns : /\ Count(pending', Destroyed(c)) = Count(pending, Destroyed(c))
                          /\ Count(pending', SetClose(c)) = Count(pending, SetClose(c))
  BY <1>2, <1>3, <1>4, LeavesPoller, Zenon
<1>6. /\ timers' \in Nat /\ (connected_' => timers' > 0)
      /\ retryDelayMs_' \in kInitRetryDelayMs..kMaxRetryDelayMs
  <2>1. CASE HandleFailure
    <3>1. retry(connected_) /\ connected_ \in BOOLEAN
      BY <1>1, <2>1, Zenon DEF HandleFailure, ConnectorType
    <3> QED
      BY <1>1, <1>2, <1>5, <3>1, RetryFacts
  <2>2. CASE HandleConnected(FALSE)
    <3>1. connected_ = FALSE /\ retryDelayMs_' = retryDelayMs_ /\ timers' = timers
      BY <2>2, Zenon DEF HandleConnected
    <3> QED
      BY <1>1, <1>2, <3>1 DEF ConnectorType
  <2> QED
    BY <2>1, <2>2
<1>7. ConnectorType'
  <2>1. /\ connectChannel_' \in {"null", "watched", "removed"} /\ sockets' \in Nat
        /\ reported' \in BOOLEAN /\ state_' \in {"kDisconnected", "kConnecting", "kConnected"}
    BY <1>2, <1>4, <1>5
  <2> QED
    BY <1>1, <1>2, <1>6, <2>1, Zenon DEF ConnectorType
<1>8. Tries'
  BY <1>6, TriesIntro, Zenon
<1>9. state_ # "kConnected"
  BY <1>2
<1> QED
  BY <1>2, <1>5, <1>7, <1>8, <1>9, LoopStepKeeps, Zenon

\* What is left of the Connector's part when a step leaves its attempt alone.
LEMMA AttemptStays ==
    ASSUME ClientInv, Running, UNCHANGED connectorVars,
           loopPc' = "connect" <=> loopPc = "connect",
           loopPc' = "restart" => loopPc = "restart" \/ state_ = "kConnected",
           Count(pending', Functor("resetChannel")) = Count(pending, Functor("resetChannel")),
           state_ = "kConnecting" /\ ~connected_' /\ ~InCall({"stop", "stopInLoop"})'
                /\ Count(pending', Functor("stopInLoop")) = 0
              => ~connected_ /\ ~InCall({"stop", "stopInLoop"})
                    /\ Count(pending, Functor("stopInLoop")) = 0,
           connected_' /\ ~InCall({"startInLoop"})' /\ ~(Count(pending', Functor("startInLoop")) > 0)
                /\ loopPc' # "startInLoop"
              => connected_ /\ ~InCall({"startInLoop"})
                    /\ ~(Count(pending, Functor("startInLoop")) > 0) /\ loopPc # "startInLoop"
    PROVE Attempt' /\ StopSeen' /\ Tries'
<1>1. Attempt /\ StopSeen /\ Tries
  BY Zenon DEF ClientInv
<1>2. /\ state_' = state_ /\ connectChannel_' = connectChannel_ /\ reported' = reported
      /\ sockets' = sockets /\ givenUp' = givenUp /\ timers' = timers
  BY Zenon DEF connectorVars
<1>3. (reported' <=> reported) /\ (givenUp' <=> givenUp)
  BY <1>2
<1>4. Attempt'
  <2>1. sockets' = One(connectChannel_' = "watched") + One(loopPc' = "connect")
    BY <1>1, <1>2 DEF Attempt, One
  <2>2. /\ state_' = "kConnecting" <=> connectChannel_' = "watched"
        /\ loopPc' = "connect" => state_' = "kDisconnected"
        /\ loopPc' = "restart" => state_' = "kConnected"
    BY <1>1, <1>2, Zenon DEF Attempt
  <2>3. reported' => state_' # "kConnected"
    BY <1>1, <1>2, <1>3, Zenon DEF Attempt
  <2>4. Count(pending', Functor("resetChannel")) = One(connectChannel_' = "removed")
    BY <1>1, <1>2, Zenon DEF Attempt
  <2> QED
    BY <2>1, <2>2, <2>3, <2>4, AttemptIntro
<1>5. StopSeen'
  <2> SUFFICES ASSUME ~connected_', loopPc' # "connect", ~InCall({"stop", "stopInLoop"})',
                      Count(pending', Functor("stopInLoop")) = 0, state_' = "kConnecting"
               PROVE FALSE
    BY StopSeenIntro, Zenon
  <2>1. state_ = "kConnecting"
    BY <1>2, Zenon
  <2> QED
    BY <1>1, <2>1, Zenon DEF StopSeen
<1>6. Tries'
  <2> SUFFICES ASSUME connected_', state_' = "kDisconnected", ~givenUp',
                      ~(timers' > 0), loopPc' \notin {"startInLoop", "connect"},
                      ~InCall({"startInLoop"})', ~(Count(pending', Functor("startInLoop")) > 0)
               PROVE FALSE
    BY TriesIntro, Zenon
  <2>1. loopPc' # "startInLoop" /\ loopPc' # "connect"
    OBVIOUS
  <2>2. /\ connected_ /\ ~InCall({"startInLoop"}) /\ ~(Count(pending, Functor("startInLoop")) > 0)
        /\ loopPc # "startInLoop" /\ loopPc # "connect"
    BY <2>1, Zenon
  <2>3. loopPc \notin {"startInLoop", "connect"}
    BY <2>2
  <2>4. state_ = "kDisconnected" /\ ~(timers > 0)
    BY <1>2, Zenon
  <2> QED
    BY <1>1, <1>3, <2>2, <2>3, <2>4, Zenon DEF Tries
<1> QED
  BY <1>4, <1>5, <1>6

\* What is left of the client's part when a step leaves the connections alone, but for
\* their state_.
LEMMA PhasesStay ==
    ASSUME ClientInv, Running, connID_' = connID_, connection_' = connection_,
           \A c \in Conns : /\ conns'[c].phase = conns[c].phase
                            /\ conns'[c].closeCallback = conns[c].closeCallback,
           client' = "alive" => client = "alive",
           client' = "alive" =>
              \A t \in Threads : pc'[t] = pc[t] \/ pc'[t] \in UserCalls,
           \A c \in Conns : Count(pending', Destroyed(c)) = Count(pending, Destroyed(c)),
           client' = "alive" =>
              \A c \in Conns : Count(pending', SetClose(c)) = Count(pending, SetClose(c)),
           state_ = "kConnected" /\ loopPc # "restart"
              => state_' = "kConnected" /\ loopPc' # "restart"
    PROVE OneOpen' /\ Closing'
<1>1. OneOpen /\ DestroyedOnce /\ Fresh /\ OwnOpen /\ NotClosing /\ OwnCallback
  BY Zenon DEF ClientInv, Closing
<1>2. OneOpen'
  BY <1>1, Zenon DEF OneOpen, Conns
<1>3. DestroyedOnce'
  <2>1. \A c \in Conns : Count(pending', Destroyed(c)) = One(conns'[c].phase = "closed")
    BY <1>1, Zenon DEF DestroyedOnce
  <2> QED
    BY <2>1, Zenon DEF DestroyedOnce, Destroyed, One, Count, Places, Conns
<1>4. OwnCallback'
  <2>1. client' = "alive" => \A c \in Conns : conns'[c].closeCallback = "client"
                                             /\ Count(pending', SetClose(c)) = 0
    BY <1>1, Zenon DEF OwnCallback
  <2> QED
    BY <2>1, Zenon DEF OwnCallback, SetClose, Count, Places, Conns
<1>5. Fresh' /\ OwnOpen'
  BY <1>1, Zenon DEF Fresh, OwnOpen, Conns
<1>6. NotClosing'
  <2> SUFFICES ASSUME client' = "alive", NEW t \in Threads
               PROVE pc'[t] \in UserCalls
    BY Zenon DEF NotClosing, UserCalls, Conns
  <2>1. pc[t] \in UserCalls
    BY <1>1, Zenon DEF NotClosing
  <2>2. CASE pc'[t] = pc[t]
    BY <2>1, <2>2, Zenon
  <2> QED
    BY <2>2, Zenon
<1> QED
  BY <1>2, <1>3, <1>4, <1>5, <1>6, Zenon DEF Closing

\* The same, for a step that leaves the connections alone.
LEMMA ConnsStay ==
    ASSUME ClientInv, Running, UNCHANGED <<connID_, connection_, conns>>,
           client' = "alive" => client = "alive",
           client' = "alive" =>
              \A t \in Threads : pc'[t] = pc[t] \/ pc'[t] \in UserCalls,
           \A c \in Conns : Count(pending', Destroyed(c)) = Count(pending, Destroyed(c)),
           client' = "alive" =>
              \A c \in Conns : Count(pending', SetClose(c)) = Count(pending, SetClose(c)),
           state_ = "kConnected" /\ loopPc # "restart"
              => state_' = "kConnected" /\ loopPc' # "restart"
    PROVE OneOpen' /\ Closing'
<1>1. connID_' = connID_ /\ connection_' = connection_ /\ conns' = conns
  BY Zenon
<1> QED
  BY <1>1, PhasesStay, Zenon

\* Connector::restart, after a connection was lost.
LEMMA RestartKeeps ==
    ASSUME ClientInv, Running, Restart, UNCHANGED <<clientVars, calls>>
    PROVE ClientInv'
<1>1. ConnectorType /\ Attempt /\ pending \in Seq(Functors)
  BY Zenon DEF ClientInv, Types
<1>2. /\ loopPc = "restart" /\ connected_' = TRUE /\ state_' = "kDisconnected"
      /\ retryDelayMs_' = kInitRetryDelayMs /\ loopPc' = "startInLoop"
      /\ connectChannel_' = connectChannel_ /\ reported' = reported /\ sockets' = sockets
      /\ givenUp' = givenUp /\ timers' = timers /\ held' = held /\ pending' = pending
      /\ pc' = pc /\ failed' = failed
  BY Zenon DEF Restart
<1>3. connectChannel_ # "watched" /\ loopPc' # "connect" /\ loopPc' # "restart"
      /\ loopPc # "connect"
  BY <1>1, <1>2 DEF Attempt
<1>4. ConnectorType'
  <2>1. /\ state_' \in {"kDisconnected", "kConnecting", "kConnected"}
        /\ loopPc' \in {"idle", "startInLoop", "connect", "restart", "remove"} /\ connected_' \in BOOLEAN
        /\ retryDelayMs_' \in kInitRetryDelayMs..kMaxRetryDelayMs
    BY <1>2, DelayAssumption
  <2> QED
    BY <1>1, <1>2, <2>1, Zenon DEF ConnectorType
<1>5. Attempt'
  <2>1. sockets' = One(connectChannel_' = "watched") + One(loopPc' = "connect")
    BY <1>1, <1>2, <1>3 DEF Attempt, One
  <2>2. state_' # "kConnecting" /\ connectChannel_' # "watched" /\ state_' # "kConnected"
    BY <1>2, <1>3
  <2>3. Count(pending', Functor("resetChannel")) = One(connectChannel_' = "removed")
    BY <1>1, <1>2 DEF Attempt
  <2> QED
    BY <1>3, <2>1, <2>2, <2>3, AttemptIntro, Zenon
<1>6. StopSeen' /\ Tries'
  <2>1. connected_' /\ loopPc' \in {"startInLoop", "connect"}
    BY <1>2
  <2> QED
    BY <2>1, StopSeenIntro, TriesIntro, Zenon
<1>7. /\ pending' \in Seq(Functors)
      /\ \A f : Count(pending', f) = Count(pending, f)
  BY <1>1, <1>2, Zenon
<1> QED
  BY <1>2, <1>4, <1>5, <1>6, <1>7, LoopStepKeeps, Zenon

\* A functor of the Connector is taken from the queue: the others stay.
LEMMA ConnectorFunctorTaken ==
    ASSUME pending \in Seq(Functors), pending # <<>>,
           Head(pending).op \in {"startInLoop", "stopInLoop", "resetChannel"}
    PROVE /\ Head(pending) = Functor(Head(pending).op) /\ Tail(pending) \in Seq(Functors)
          /\ Count(pending, Head(pending)) \in Nat /\ Count(pending, Head(pending)) > 0
          /\ Count(Tail(pending), Head(pending)) = Count(pending, Head(pending)) - 1
          /\ \A op \in {"startInLoop", "stopInLoop", "resetChannel"} :
                op # Head(pending).op
                   => Count(Tail(pending), Functor(op)) = Count(pending, Functor(op))
          /\ \A c \in Conns : /\ Count(Tail(pending), Destroyed(c)) = Count(pending, Destroyed(c))
                              /\ Count(Tail(pending), SetClose(c)) = Count(pending, SetClose(c))
<1>1. PICK h : h = Head(pending)
  OBVIOUS
<1>2. /\ Tail(pending) \in Seq(Functors) /\ h \in Functors
      /\ \A f : Count(pending, f) \in Nat
      /\ \A f : Count(Tail(pending), f) = IF h = f THEN Count(pending, f) - 1 ELSE Count(pending, f)
      /\ \A f : h = f => Count(pending, f) > 0
  BY <1>1, Take, Zenon
<1>3. h = Functor(h.op) /\ h.op \in {"startInLoop", "stopInLoop", "resetChannel"}
  BY <1>1, <1>2, FunctorIs, Zenon
<1>4. \A op \in {"startInLoop", "stopInLoop", "resetChannel"} : op # h.op => h # Functor(op)
  BY FunctorsDiffer
<1>5. \A c \in Conns : h # Destroyed(c) /\ h # SetClose(c)
  BY <1>3, FunctorsDiffer
<1>6. Count(Tail(pending), h) = Count(pending, h) - 1 /\ Count(pending, h) > 0 /\ Count(pending, h) \in Nat
  BY <1>2, Zenon
<1>7. \A op \in {"startInLoop", "stopInLoop", "resetChannel"} :
         op # h.op => Count(Tail(pending), Functor(op)) = Count(pending, Functor(op))
  BY <1>2, <1>4, Zenon
<1>8. \A c \in Conns : /\ Count(Tail(pending), Destroyed(c)) = Count(pending, Destroyed(c))
                       /\ Count(Tail(pending), SetClose(c)) = Count(pending, SetClose(c))
  BY <1>2, <1>5, Zenon
<1> QED
  BY <1>1, <1>2, <1>3, <1>6, <1>7, <1>8, Zenon

\* stopInLoop, whether it is run as a functor or called: a connect in progress ends.
LEMMA StopFacts ==
    ASSUME ClientInv, Running, NEW q, NEW again \in BOOLEAN, stopInLoop(q, again),
           q \in Seq(Functors), loopPc = "idle", loopPc' = loopPc,
           reported' = reported, givenUp' = givenUp, connected_' => again,
           \/ q = pending /\ ~connected_'
           \/ /\ pending # <<>> /\ q = Tail(pending) /\ Head(pending) = Functor("stopInLoop")
              /\ pc' = pc /\ connected_' = connected_
    PROVE /\ state_' \in {"kDisconnected", "kConnecting", "kConnected"} /\ sockets' \in Nat
          /\ retryDelayMs_' \in kInitRetryDelayMs..kMaxRetryDelayMs
          /\ timers' \in Nat /\ connectChannel_' \in {"null", "watched", "removed"}
          /\ pending' \in Seq(Functors) /\ Attempt' /\ StopSeen' /\ Tries'
          /\ \A c \in Conns : /\ Count(pending', Destroyed(c)) = Count(pending, Destroyed(c))
                              /\ Count(pending', SetClose(c)) = Count(pending, SetClose(c))
          /\ state_ = "kConnected" => state_' = "kConnected"
<1>1. ConnectorType /\ Attempt /\ pending \in Seq(Functors)
  BY Zenon DEF ClientInv, Types
<1>2. CASE state_ = "kConnecting"
  <2>1. removeAndResetChannel(q) /\ retry(again)
    BY <1>2, Zenon DEF stopInLoop
  <2>2. sockets' = sockets - 1 /\ state_' = "kDisconnected"
    BY <2>1, Zenon DEF retry
  <2>3. state_' \in {"kDisconnected", "kConnected"} /\ state_' # "kConnected"
    BY <2>2
  <2>4. \/ q = pending
        \/ pending # <<>> /\ q = Tail(pending) /\ Head(pending) = Functor("stopInLoop")
    BY Zenon
  <2>5. /\ sockets > 0 /\ sockets' = 0 /\ connectChannel_' = "removed"
        /\ pending' \in Seq(Functors) /\ Attempt' /\ StopSeen'
        /\ \A c \in Conns : /\ Count(pending', Destroyed(c)) = Count(pending, Destroyed(c))
                            /\ Count(pending', SetClose(c)) = Count(pending, SetClose(c))
    BY <1>2, <2>1, <2>2, <2>3, <2>4, LeavesPoller, Zenon
  <2>6. /\ timers' \in Nat /\ (again => timers' > 0)
        /\ retryDelayMs_' \in kInitRetryDelayMs..kMaxRetryDelayMs
    BY <1>1, <2>1, <2>5, RetryFacts
  <2>7. Tries'
    BY <2>6, TriesIntro, Zenon
  <2>8. /\ state_' \in {"kDisconnected", "kConnecting", "kConnected"} /\ sockets' \in Nat
        /\ connectChannel_' \in {"null", "watched", "removed"} /\ state_ # "kConnected"
    BY <1>2, <2>3, <2>5
  <2> QED
    BY <2>5, <2>6, <2>7, <2>8, Zenon
<1>3. CASE state_ # "kConnecting"
  <2>1. /\ pending' = q /\ state_' = state_ /\ connectChannel_' = connectChannel_
        /\ sockets' = sockets /\ timers' = timers /\ retryDelayMs_' = retryDelayMs_
    BY <1>3, Zenon DEF stopInLoop
  <2>2. /\ Count(pending', Functor("resetChannel")) = Count(pending, Functor("resetChannel"))
        /\ Count(pending', Functor("startInLoop")) = Count(pending, Functor("startInLoop"))
        /\ \A c \in Conns : /\ Count(pending', Destroyed(c)) = Count(pending, Destroyed(c))
                            /\ Count(pending', SetClose(c)) = Count(pending, SetClose(c))
        /\ connected_' => connected_ /\ pc' = pc
    <3>1. CASE q = pending /\ ~connected_'
      BY <2>1, <3>1, Zenon
    <3>2. CASE /\ pending # <<>> /\ q = Tail(pending) /\ Head(pending) = Functor("stopInLoop")
               /\ pc' = pc /\ connected_' = connected_
      <4>1. Head(pending).op = "stopInLoop"
        BY <3>2, FunctorsDiffer
      <4>2. /\ Head(pending).op \in {"startInLoop", "stopInLoop", "resetChannel"}
            /\ Head(pending).op # "startInLoop" /\ Head(pending).op # "resetChannel"
            /\ "startInLoop" \in {"startInLoop", "stopInLoop", "resetChannel"}
            /\ "resetChannel" \in {"startInLoop", "stopInLoop", "resetChannel"}
        BY <4>1
      <4>3. /\ Count(Tail(pending), Functor("startInLoop")) = Count(pending, Functor("startInLoop"))
            /\ Count(Tail(pending), Functor("resetChannel")) = Count(pending, Functor("resetChannel"))
            /\ \A c \in Conns : /\ Count(Tail(pending), Destroyed(c)) = Count(pending, Destroyed(c))
                                /\ Count(Tail(pending), SetClose(c)) = Count(pending, SetClose(c))
        BY <1>1, <3>2, <4>2, ConnectorFunctorTaken, Zenon
      <4>4. pending' = Tail(pending)
        BY <2>1, <3>2, Zenon
      <4>5. connected_' <=> connected_
        BY <3>2
      <4> QED
        BY <3>2, <4>3, <4>4, <4>5, Zenon
    <3> QED
      BY <3>1, <3>2
  <2>3. UNCHANGED connectorVars
    BY <2>1, Zenon DEF connectorVars
  <2>4. connected_' => (InCall({"startInLoop"})' <=> InCall({"startInLoop"}))
    BY <2>2, InCallStays, Zenon
  <2>5. /\ loopPc' = "connect" <=> loopPc = "connect"
        /\ loopPc' = "restart" => loopPc = "restart" \/ state_ = "kConnected"
        /\ loopPc # "startInLoop"
    OBVIOUS
  <2>6. connected_' /\ ~InCall({"startInLoop"})' /\ ~(Count(pending', Functor("startInLoop")) > 0)
             /\ loopPc' # "startInLoop"
           => connected_ /\ ~InCall({"startInLoop"})
                 /\ ~(Count(pending, Functor("startInLoop")) > 0) /\ loopPc # "startInLoop"
    BY <2>2, <2>4, <2>5, Zenon
  <2>7. Attempt' /\ StopSeen' /\ Tries'
    BY <1>3, <2>2, <2>3, <2>5, <2>6, AttemptStays, Zenon
  <2>8. pending' \in Seq(Functors)
    BY <2>1, Zenon
  <2> QED
    BY <1>1, <2>1, <2>2, <2>7, <2>8, Zenon DEF ConnectorType
<1> QED
  BY <1>2, <1>3

\* The Connector's functors: startInLoop, stopInLoop, resetChannel.
LEMMA ConnectorFunctorKeeps ==
    ASSUME ClientInv, Running, ConnectorFunctor, UNCHANGED <<clientVars, calls>>
    PROVE ClientInv'
<1>1. ConnectorType /\ Attempt /\ pending \in Seq(Functors)
  BY Zenon DEF ClientInv, Types
<1>2. PICK h : h = Head(pending)
  OBVIOUS
<1>3. /\ loopPc = "idle" /\ ~reported /\ pending # <<>>
      /\ h.op \in {"startInLoop", "stopInLoop", "resetChannel"}
  BY <1>2, Zenon DEF ConnectorFunctor, Due, LoopIdle
<1>4. /\ h = Functor(h.op) /\ Tail(pending) \in Seq(Functors)
      /\ Count(pending, h) \in Nat /\ Count(pending, h) > 0
      /\ Count(Tail(pending), h) = Count(pending, h) - 1
      /\ \A op \in {"startInLoop", "stopInLoop", "resetChannel"} :
            op # h.op => Count(Tail(pending), Functor(op)) = Count(pending, Functor(op))
      /\ \A c \in Conns : /\ Count(Tail(pending), Destroyed(c)) = Count(pending, Destroyed(c))
                          /\ Count(Tail(pending), SetClose(c)) = Count(pending, SetClose(c))
  BY <1>1, <1>2, <1>3, ConnectorFunctorTaken, Zenon
<1>5. CASE Fail("dangling")
  BY <1>5, FailKeeps
<1>6. CASE h.op = "startInLoop" /\ ~Fail("dangling")
  <2>1. /\ pending' = Tail(pending) /\ loopPc' = "startInLoop"
        /\ UNCHANGED <<connectorVars, connected_, held, pc, failed>>
    <3>1. h.op # "stopInLoop" /\ h.op # "resetChannel"
      BY <1>6
    <3> QED
      BY <1>2, <1>6, <3>1, Zenon DEF ConnectorFunctor
  <2>2. /\ Count(pending', Functor("stopInLoop")) = Count(pending, Functor("stopInLoop"))
        /\ Count(pending', Functor("resetChannel")) = Count(pending, Functor("resetChannel"))
    BY <1>4, <1>6, <2>1
  <2>3. /\ loopPc' = "connect" <=> loopPc = "connect"
        /\ loopPc' = "restart" => loopPc = "restart" \/ state_ = "kConnected"
        /\ loopPc' # "restart" /\ loopPc' = "startInLoop"
    BY <1>3, <2>1
  <2>4. /\ connected_' <=> connected_
        /\ InCall({"stop", "stopInLoop"})' <=> InCall({"stop", "stopInLoop"})
    <3>1. connected_' = connected_ /\ pc' = pc
      BY <2>1, Zenon
    <3>2. connected_' <=> connected_
      BY <3>1
    <3> QED
      BY <3>1, <3>2, InCallStays, Zenon
  <2>5. Attempt' /\ StopSeen' /\ Tries'
    BY <2>1, <2>2, <2>3, <2>4, AttemptStays, Zenon
  <2>6. ConnectorType'
    <3>1. loopPc' \in {"idle", "startInLoop", "connect", "restart", "remove"}
      BY <2>1
    <3> QED
      BY <1>1, <2>1, <3>1, Zenon DEF ConnectorType, connectorVars
  <2>7. state_' = state_
    BY <2>1, Zenon DEF connectorVars
  <2>8. /\ pending' \in Seq(Functors)
        /\ \A c \in Conns : /\ Count(pending', Destroyed(c)) = Count(pending, Destroyed(c))
                            /\ Count(pending', SetClose(c)) = Count(pending, SetClose(c))
    BY <1>4, <2>1, Zenon
  <2> QED
    BY <2>1, <2>3, <2>5, <2>6, <2>7, <2>8, LoopStepKeeps, Zenon
<1>7. CASE h.op = "stopInLoop" /\ ~Fail("dangling")
  <2>1. /\ stopInLoop(Tail(pending), connected_)
        /\ UNCHANGED <<reported, givenUp, connected_, held, loopPc, pc, failed>>
    <3>1. h.op # "startInLoop" /\ h.op # "resetChannel"
      BY <1>7
    <3> QED
      BY <1>2, <1>7, <3>1, Zenon DEF ConnectorFunctor
  <2>2. /\ reported' = reported /\ givenUp' = givenUp /\ connected_' = connected_ /\ held' = held
        /\ loopPc' = loopPc /\ pc' = pc /\ failed' = failed
    BY <2>1, Zenon
  <2>3. connected_ \in BOOLEAN /\ (connected_' => connected_)
    BY <1>1, <2>2 DEF ConnectorType
  <2>4. Head(pending) = Functor("stopInLoop")
    BY <1>2, <1>4, <1>7
  <2>5. PICK q : q = Tail(pending)
    OBVIOUS
  <2>6. stopInLoop(q, connected_) /\ q \in Seq(Functors)
    BY <1>4, <2>1, <2>5, Zenon
  <2>7. /\ state_' \in {"kDisconnected", "kConnecting", "kConnected"} /\ sockets' \in Nat
        /\ retryDelayMs_' \in kInitRetryDelayMs..kMaxRetryDelayMs
        /\ timers' \in Nat /\ connectChannel_' \in {"null", "watched", "removed"}
        /\ pending' \in Seq(Functors) /\ Attempt' /\ StopSeen' /\ Tries'
        /\ \A c \in Conns : /\ Count(pending', Destroyed(c)) = Count(pending, Destroyed(c))
                            /\ Count(pending', SetClose(c)) = Count(pending, SetClose(c))
        /\ state_ = "kConnected" => state_' = "kConnected"
    BY <1>3, <2>2, <2>3, <2>4, <2>5, <2>6, StopFacts, Zenon
  <2>8. ConnectorType'
    BY <1>1, <2>2, <2>7, Zenon DEF ConnectorType
  <2> QED
    BY <2>2, <2>7, <2>8, LoopStepKeeps, Zenon
<1>8. CASE h.op = "resetChannel" /\ ~Fail("dangling")
  <2>1. /\ connectChannel_' = "null" /\ pending' = Tail(pending)
        /\ state_' = state_ /\ retryDelayMs_' = retryDelayMs_ /\ reported' = reported
        /\ sockets' = sockets /\ givenUp' = givenUp /\ timers' = timers
        /\ connected_' = connected_ /\ held' = held /\ loopPc' = loopPc /\ pc' = pc
        /\ failed' = failed
    <3>1. h.op # "startInLoop" /\ h.op # "stopInLoop"
      BY <1>8
    <3> QED
      BY <1>2, <1>8, <3>1, Zenon DEF ConnectorFunctor
  <2>2. h = Functor("resetChannel")
    BY <1>4, <1>8
  <2>3. /\ connectChannel_ = "removed" /\ Count(pending', Functor("resetChannel")) = 0
        /\ Count(pending', Functor("startInLoop")) = Count(pending, Functor("startInLoop"))
        /\ Count(pending', Functor("stopInLoop")) = Count(pending, Functor("stopInLoop"))
    <3>1. Count(pending, h) = One(connectChannel_ = "removed")
      BY <1>1, <2>2 DEF Attempt
    <3>2. connectChannel_ = "removed" /\ Count(pending, h) = 1
      BY <1>4, <3>1 DEF One
    <3>3. Count(pending', h) = 0
      BY <1>4, <2>1, <3>2
    <3>4. /\ h.op # "startInLoop" /\ h.op # "stopInLoop"
          /\ "startInLoop" \in {"startInLoop", "stopInLoop", "resetChannel"}
          /\ "stopInLoop" \in {"startInLoop", "stopInLoop", "resetChannel"}
      BY <1>8
    <3>5. /\ Count(Tail(pending), Functor("startInLoop")) = Count(pending, Functor("startInLoop"))
          /\ Count(Tail(pending), Functor("stopInLoop")) = Count(pending, Functor("stopInLoop"))
      BY <1>4, <3>4, Zenon
    <3> QED
      BY <2>1, <2>2, <3>2, <3>3, <3>5
  <2>4. Attempt'
    <3>1. sockets' = One(connectChannel_' = "watched") + One(loopPc' = "connect")
      BY <1>1, <1>3, <2>1, <2>3 DEF Attempt, One
    <3>2. /\ state_' = "kConnecting" <=> connectChannel_' = "watched"
          /\ loopPc' = "connect" => state_' = "kDisconnected"
          /\ loopPc' = "restart" => state_' = "kConnected"
          /\ reported' => state_' # "kConnected"
      BY <1>1, <1>3, <2>1, <2>3 DEF Attempt
    <3>3. Count(pending', Functor("resetChannel")) = One(connectChannel_' = "removed")
      BY <2>1, <2>3 DEF One
    <3> QED
      BY <3>1, <3>2, <3>3, AttemptIntro
  <2>5. StopSeen'
    <3>1. state_' # "kConnecting"
      BY <1>1, <2>1, <2>3 DEF Attempt
    <3> QED
      BY <3>1, StopSeenIntro
  <2>6. Tries'
    <3> SUFFICES ASSUME connected_', state_' = "kDisconnected", ~givenUp'
                 PROVE \/ timers' > 0 \/ loopPc' \in {"startInLoop", "connect"}
                       \/ InCall({"startInLoop"})' \/ Count(pending', Functor("startInLoop")) > 0
      BY TriesIntro, Zenon
    <3>1. connected_ /\ state_ = "kDisconnected" /\ ~givenUp
      BY <2>1
    <3>2. \/ timers > 0 \/ loopPc \in {"startInLoop", "connect"}
          \/ InCall({"startInLoop"}) \/ Count(pending, Functor("startInLoop")) > 0
      BY <3>1, Zenon DEF ClientInv, Tries
    <3>3. InCall({"startInLoop"})' <=> InCall({"startInLoop"})
      BY <2>1, InCallStays, Zenon
    <3> QED
      BY <2>1, <2>3, <3>2, <3>3, Zenon
  <2>7. ConnectorType'
    <3>1. connectChannel_' \in {"null", "watched", "removed"}
      BY <2>1
    <3> QED
      BY <1>1, <2>1, <3>1, Zenon DEF ConnectorType
  <2>8. /\ pending' \in Seq(Functors)
        /\ \A c \in Conns : /\ Count(pending', Destroyed(c)) = Count(pending, Destroyed(c))
                            /\ Count(pending', SetClose(c)) = Count(pending, SetClose(c))
    BY <1>4, <2>1, Zenon
  <2> QED
    BY <2>1, <2>4, <2>5, <2>6, <2>7, <2>8, LoopStepKeeps, Zenon
<1> QED
  BY <1>3, <1>5, <1>6, <1>7, <1>8

-----------------------------------------------------------------------------
(* start and stop in another thread                                        *)

\* Where a thread is, as a tuple.
LEMMA ThreadAt ==
    ASSUME ThreadType, NEW t \in Threads
    PROVE /\ pc[t][1] \in {"start", "stop", "startInLoop", "stopInLoop"}
                => pc[t][2] \in {"idle", "release"} /\ pc[t] = <<pc[t][1], pc[t][2]>>
          /\ pc[t][1] \in {"setClose", "setCloseUnique", "forceClose", "setState",
                            "postForceClose", "shutdown"}
                => pc[t][2] \in Conns /\ pc[t] = <<pc[t][1], pc[t][2]>>
          /\ pc[t] \in UserCalls /\ pc[t][1] \in {"start", "stop", "startInLoop", "stopInLoop"}
                => pc[t][2] = "idle"
          /\ pc[t] \in UserCalls => pc[t][1] \notin Destructs
<1>1. PICK p : p = pc[t]
  OBVIOUS
<1>2. p \in Waits \cup Starts \cup Closes
  BY <1>1 DEF ThreadType
<1>3. CASE p \in Waits
  BY <1>1, <1>3 DEF Waits, UserCalls, Destructs
<1>4. CASE p \in Starts
  BY <1>1, <1>4 DEF Starts, UserCalls, Destructs
<1>5. CASE p \in Closes
  BY <1>1, <1>5 DEF Closes, UserCalls, Destructs
<1> QED
  BY <1>2, <1>3, <1>4, <1>5

\* One thread moves on.
LEMMA ThreadMoves ==
    ASSUME ThreadType, NEW t \in Threads, NEW p \in Waits \cup Starts \cup Closes,
           pc' = [pc EXCEPT ![t] = p]
    PROVE /\ ThreadType' /\ pc'[t] = p
          /\ \A u \in Threads : u # t => pc'[u] = pc[u]
          /\ \A ops : (pc[t][1] \in ops => p[1] \in ops) => (InCall(ops) => InCall(ops)')
          /\ \A ops : p[1] \in ops => InCall(ops)'
<1>1. pc \in [Threads -> Waits \cup Starts \cup Closes]
  BY DEF ThreadType
<1>2. ThreadType' /\ pc'[t] = p /\ \A u \in Threads : u # t => pc'[u] = pc[u]
  BY <1>1 DEF ThreadType, Waits, Starts, Closes, Destructs, Conns
<1>3. \A ops : (pc[t][1] \in ops => p[1] \in ops) => (InCall(ops) => InCall(ops)')
  BY <1>2, Zenon DEF InCall
<1>4. \A ops : p[1] \in ops => InCall(ops)'
  BY <1>2, Zenon DEF InCall
<1> QED
  BY <1>2, <1>3, <1>4

\* The types after a step that leaves the Connector's attempt alone.
LEMMA TypesStay ==
    ASSUME Types, UNCHANGED <<connectorVars, failed>>, connected_' \in BOOLEAN,
           held' \in BOOLEAN, loopPc' \in {"idle", "startInLoop", "connect", "restart", "remove"},
           ClientType', ThreadType', pending' \in Seq(Functors)
    PROVE Types'
<1>1. ConnectorType
  BY Zenon DEF Types
<1>2. /\ state_' = state_ /\ connectChannel_' = connectChannel_ /\ reported' = reported
      /\ sockets' = sockets /\ givenUp' = givenUp /\ timers' = timers
      /\ retryDelayMs_' = retryDelayMs_ /\ failed' = failed
  BY Zenon DEF connectorVars
<1>3. ConnectorType'
  BY <1>1, <1>2, Zenon DEF ConnectorType
<1> QED
  BY <1>2, <1>3, Zenon DEF Types

\* A step of the Connector leaves the client's variables as they are.
LEMMA ClientTypeStays ==
    ASSUME Types, UNCHANGED <<clientVars, calls>>
    PROVE ClientType'
<1>1. /\ connect_' = connect_ /\ retry_' = retry_ /\ connID_' = connID_
      /\ connection_' = connection_ /\ conns' = conns /\ client' = client /\ calls' = calls
  BY Zenon DEF clientVars
<1> QED
  BY <1>1, Zenon DEF Types, ClientType

\* What a step of another thread has to show when it leaves the Connector's attempt
\* and the connections alone.
LEMMA ThreadStepKeeps ==
    ASSUME ClientInv, Running, UNCHANGED <<connectorVars, loopPc, failed>>,
           UNCHANGED <<connID_, connection_, conns>>,
           Types', Attempt', StopSeen', Tries',
           client' = "alive" => client = "alive",
           client' = "alive" => \A t \in Threads : pc'[t] = pc[t] \/ pc'[t] \in UserCalls,
           \A c \in Conns : Count(pending', Destroyed(c)) = Count(pending, Destroyed(c)),
           client' = "alive" =>
              \A c \in Conns : Count(pending', SetClose(c)) = Count(pending, SetClose(c))
    PROVE ClientInv'
<1>1. state_' = state_ /\ loopPc' = loopPc
  BY Zenon DEF connectorVars
<1>2. OneOpen' /\ Closing'
  BY <1>1, ConnsStay, Zenon
<1> QED
  BY <1>2, Zenon DEF ClientInv

\* Another thread assigns connected_ in start or stop.
LEMMA AssignKeeps ==
    ASSUME ClientInv, Running, NEW t \in Threads, Assign(t), UNCHANGED <<clientVars, calls>>
    PROVE ClientInv'
<1>1. Types /\ ThreadType /\ ConnectorType
  BY Zenon DEF ClientInv, Types
<1>2. PICK op \in {"start", "stop"} : op = pc[t][1]
  BY Zenon DEF Assign
<1>3. PICK b : b = pc[t][2]
  OBVIOUS
<1>4. pc[t] = <<op, b>> /\ b \in {"idle", "release"} /\ (pc[t] \in UserCalls => b = "idle")
  BY <1>1, <1>2, <1>3, ThreadAt
<1>5. PICK p : p = <<IF op = "start" THEN "startInLoop" ELSE "stopInLoop", b>>
  OBVIOUS
<1>6. /\ connected_' = (op = "start")
      /\ UNCHANGED <<connectorVars, held, pending, loopPc, failed>>
  BY <1>2, Zenon DEF Assign
<1>7. pc' = [pc EXCEPT ![t] = p]
  <2>1. pc' = [pc EXCEPT ![t] = [pc[t] EXCEPT ![1] = IF pc[t][1] = "start" THEN "startInLoop" ELSE "stopInLoop"]]
    BY DEF Assign
  <2>2. [pc[t] EXCEPT ![1] = IF pc[t][1] = "start" THEN "startInLoop" ELSE "stopInLoop"] = p
    BY <1>2, <1>4, <1>5
  <2> QED
    BY <2>1, <2>2, Zenon
<1>8. /\ p \in Waits \cup Starts \cup Closes /\ (b = "idle" => p \in UserCalls)
      /\ op = "start" => p[1] \in {"startInLoop"}
      /\ op = "stop" => p[1] \in {"stop", "stopInLoop"}
  BY <1>4, <1>5 DEF Starts, UserCalls
<1>9. /\ ThreadType' /\ pc'[t] = p /\ (\A u \in Threads : u # t => pc'[u] = pc[u])
      /\ \A ops : p[1] \in ops => InCall(ops)'
  BY <1>1, <1>7, <1>8, ThreadMoves, Zenon
<1>10. /\ connected_' => InCall({"startInLoop"})'
       /\ ~connected_' => InCall({"stop", "stopInLoop"})'
       /\ connected_' \in BOOLEAN
  BY <1>2, <1>6, <1>8, <1>9
<1>11. pending' = pending /\ loopPc' = loopPc
  BY <1>6, Zenon
<1>12. /\ loopPc' = "restart" => loopPc = "restart" \/ state_ = "kConnected"
       /\ loopPc' = "connect" <=> loopPc = "connect"
       /\ \A f : Count(pending', f) = Count(pending, f)
  BY <1>11, Zenon
<1>13. Attempt' /\ StopSeen' /\ Tries'
  BY <1>6, <1>10, <1>12, AttemptStays, Zenon
<1>14. Types'
  <2>1. held' = held /\ loopPc' = loopPc
    BY <1>6, Zenon
  <2>2. /\ held' \in BOOLEAN /\ loopPc' \in {"idle", "startInLoop", "connect", "restart", "remove"}
        /\ pending' \in Seq(Functors)
    BY <1>1, <1>11, <2>1, Zenon DEF Types, ConnectorType
  <2> QED
    BY <1>1, <1>6, <1>9, <1>10, <2>2, ClientTypeStays, TypesStay, Zenon
<1>15. client' = "alive" => \A u \in Threads : pc'[u] = pc[u] \/ pc'[u] \in UserCalls
  BY <1>4, <1>8, <1>9, Zenon DEF ClientInv, Closing, NotClosing, clientVars
<1>16. client' = client /\ connID_' = connID_ /\ connection_' = connection_ /\ conns' = conns
  BY Zenon DEF clientVars
<1> QED
  BY <1>6, <1>12, <1>13, <1>14, <1>15, <1>16, ThreadStepKeeps, Zenon

\* Another thread posts startInLoop or stopInLoop.
LEMMA PostCallKeeps ==
    ASSUME ClientInv, Running, NEW t \in Threads, PostCall(t), UNCHANGED <<clientVars, calls>>
    PROVE ClientInv'
<1>1. Types /\ ThreadType /\ ConnectorType /\ pending \in Seq(Functors)
  BY Zenon DEF ClientInv, Types
<1>2. PICK op \in {"startInLoop", "stopInLoop"} : op = pc[t][1]
  BY Zenon DEF PostCall
<1>3. PICK b : b = pc[t][2]
  OBVIOUS
<1>4. pc[t] = <<op, b>> /\ b \in {"idle", "release"} /\ (pc[t] \in UserCalls => b = "idle")
  BY <1>1, <1>2, <1>3, ThreadAt
<1>5. PICK p : p = <<b>>
  OBVIOUS
<1>6. /\ pending' = Append(pending, Functor(op)) /\ pc' = [pc EXCEPT ![t] = p]
      /\ UNCHANGED <<connectorVars, connected_, held, loopPc, failed>>
  BY <1>2, <1>3, <1>5, Zenon DEF PostCall
<1>7. p \in Waits \cup Starts \cup Closes /\ (b = "idle" => p \in UserCalls)
  BY <1>4, <1>5 DEF Waits, UserCalls
<1>8. /\ ThreadType' /\ pc'[t] = p /\ (\A u \in Threads : u # t => pc'[u] = pc[u])
      /\ \A ops : (pc[t][1] \in ops => p[1] \in ops) => (InCall(ops) => InCall(ops)')
  BY <1>1, <1>6, <1>7, ThreadMoves, Zenon
<1>9. PICK g : g = Functor(op)
  OBVIOUS
<1>10. g \in Functors /\ g.op = op
  BY <1>9, FunctorTypes, FunctorsDiffer
<1>11. /\ pending' \in Seq(Functors) /\ \A f : Count(pending, f) \in Nat
       /\ \A f : Count(pending', f) = IF g = f THEN Count(pending, f) + 1 ELSE Count(pending, f)
  <2>1. pending' = Append(pending, g)
    BY <1>6, <1>9, Zenon
  <2> QED
    BY <1>1, <1>10, <2>1, Post, ZenonT(60)
<1>12. /\ g # Functor("resetChannel")
       /\ \A c \in Conns : g # Destroyed(c) /\ g # SetClose(c)
       /\ op = "startInLoop" => g # Functor("stopInLoop")
       /\ op = "stopInLoop" => g # Functor("startInLoop")
  BY <1>10, FunctorsDiffer
<1>13. /\ Count(pending', Functor("resetChannel")) = Count(pending, Functor("resetChannel"))
       /\ \A c \in Conns : Count(pending', Destroyed(c)) = Count(pending, Destroyed(c))
       /\ \A c \in Conns : Count(pending', SetClose(c)) = Count(pending, SetClose(c))
       /\ op = "startInLoop" =>
             Count(pending', Functor("stopInLoop")) = Count(pending, Functor("stopInLoop"))
       /\ op = "stopInLoop" =>
             Count(pending', Functor("startInLoop")) = Count(pending, Functor("startInLoop"))
  BY <1>11, <1>12, Zenon
<1>14. /\ op = "startInLoop" => Count(pending', Functor("startInLoop")) > 0
       /\ op = "stopInLoop" => Count(pending', Functor("stopInLoop")) # 0
  <2>1. Count(pending', g) = Count(pending, g) + 1 /\ Count(pending, g) \in Nat
    BY <1>11, Zenon
  <2> QED
    BY <1>9, <2>1
<1>15. /\ op = "startInLoop" =>
             (InCall({"stop", "stopInLoop"}) => InCall({"stop", "stopInLoop"})')
       /\ op = "stopInLoop" => (InCall({"startInLoop"}) => InCall({"startInLoop"})')
  <2>1. /\ op = "startInLoop" => pc[t][1] \notin {"stop", "stopInLoop"}
        /\ op = "stopInLoop" => pc[t][1] \notin {"startInLoop"}
    BY <1>2
  <2> QED
    BY <1>8, <2>1, Zenon
<1>16. loopPc' = loopPc /\ connected_' = connected_ /\ (connected_' <=> connected_)
  BY <1>6
<1>17. /\ loopPc' = "restart" => loopPc = "restart" \/ state_ = "kConnected"
       /\ loopPc' = "connect" <=> loopPc = "connect"
       /\ loopPc' # "startInLoop" => loopPc # "startInLoop"
  BY <1>16, Zenon
<1>18. op = "startInLoop" \/ op = "stopInLoop"
  BY <1>2
<1>19. /\ ~connected_' /\ ~InCall({"stop", "stopInLoop"})'
                /\ Count(pending', Functor("stopInLoop")) = 0
              => ~connected_ /\ ~InCall({"stop", "stopInLoop"})
                    /\ Count(pending, Functor("stopInLoop")) = 0
       /\ connected_' /\ ~InCall({"startInLoop"})' /\ ~(Count(pending', Functor("startInLoop")) > 0)
                /\ loopPc' # "startInLoop"
              => connected_ /\ ~InCall({"startInLoop"})
                    /\ ~(Count(pending, Functor("startInLoop")) > 0) /\ loopPc # "startInLoop"
  BY <1>13, <1>14, <1>15, <1>16, <1>17, <1>18, Zenon
<1>20. Attempt' /\ StopSeen' /\ Tries'
  BY <1>6, <1>13, <1>17, <1>19, AttemptStays, Zenon
<1>21. Types'
  <2>1. held' = held
    BY <1>6, Zenon
  <2>2. /\ held' \in BOOLEAN /\ loopPc' \in {"idle", "startInLoop", "connect", "restart", "remove"}
        /\ connected_' \in BOOLEAN
    BY <1>1, <1>16, <2>1, Zenon DEF ConnectorType
  <2> QED
    BY <1>1, <1>6, <1>8, <1>11, <2>2, ClientTypeStays, TypesStay, Zenon
<1>22. client' = "alive" => \A u \in Threads : pc'[u] = pc[u] \/ pc'[u] \in UserCalls
  BY <1>4, <1>7, <1>8, Zenon DEF ClientInv, Closing, NotClosing, clientVars
<1>23. client' = client /\ connID_' = connID_ /\ connection_' = connection_ /\ conns' = conns
  BY Zenon DEF clientVars
<1> QED
  BY <1>6, <1>13, <1>20, <1>21, <1>22, <1>23, ThreadStepKeeps, Zenon

\* Every step of the Connector alone.
LEMMA ConnectorStepKeeps ==
    ASSUME ClientInv, Running, ConnectorStep
    PROVE ClientInv'
<1>1. UNCHANGED <<clientVars, calls>>
  BY Zenon DEF ConnectorStep
<1>2. CASE StartInLoop
  BY <1>1, <1>2, StartInLoopKeeps, Zenon
<1>3. CASE ConnectProceeds
  BY <1>1, <1>3, ConnectProceedsKeeps, Zenon
<1>4. CASE ConnectRefused \/ ConnectFails
  BY <1>1, <1>4, ConnectEndsKeeps, Zenon
<1>5. CASE PollReports
  BY <1>1, <1>5, PollReportsKeeps, Zenon
<1>6. CASE HandleFailure \/ HandleConnected(FALSE)
  BY <1>1, <1>6, HandleEventKeeps, Zenon
<1>7. CASE TimerFires \/ HandleStale \/ SocketFails
  BY <1>1, <1>7, TimerFiresKeeps, Zenon
<1>8. CASE ConnectorFunctor
  BY <1>1, <1>8, ConnectorFunctorKeeps, Zenon
<1>9. CASE Restart
  BY <1>1, <1>9, RestartKeeps, Zenon
<1>10. CASE \E t \in Threads : Assign(t) \/ PostCall(t)
  BY <1>1, <1>10, AssignKeeps, PostCallKeeps, Zenon
<1> QED
  BY <1>2, <1>3, <1>4, <1>5, <1>6, <1>7, <1>8, <1>9, <1>10, Zenon DEF ConnectorStep

-----------------------------------------------------------------------------
(* The steps that change a connection                                      *)

\* One connection changes: what is left of the client's part.
LEMMA OneConnChanges ==
    ASSUME ClientInv, Running, NEW c \in Conns, NEW r \in ConnRecord,
           conns' = [conns EXCEPT ![c] = r],
           Count(pending', Destroyed(c)) = One(r.phase = "closed"),
           \A d \in Conns : d # c => Count(pending', Destroyed(d)) = Count(pending, Destroyed(d)),
           \A d \in Conns : d >= connID_' => d >= connID_ /\ (d = c => r.phase = "none"),
           client' = "alive" =>
              /\ client = "alive" /\ pc' = pc /\ r.closeCallback = "client"
              /\ \A d \in Conns : Count(pending', SetClose(d)) = Count(pending, SetClose(d)),
           connection_' = c /\ r.closeCallback = "client" => r.phase \in Live,
           \A d \in Conns : d # c /\ connection_' = d => connection_ = d,
           r.phase \in Live => connection_' = c /\ state_' = "kConnected" /\ loopPc' # "restart",
           \A d \in Conns : d # c /\ conns[d].phase \in Live
              => connection_' = d /\ state_' = "kConnected" /\ loopPc' # "restart"
    PROVE conns' \in [Conns -> ConnRecord] /\ OneOpen' /\ Closing'
<1>1. conns \in [Conns -> ConnRecord]
  BY Zenon DEF ClientInv, Types, ClientType
<1>2. /\ conns' \in [Conns -> ConnRecord] /\ conns'[c] = r
      /\ \A d \in Conns : d # c => conns'[d] = conns[d]
  BY <1>1, Zenon
<1>3. OneOpen'
  BY <1>2, Zenon DEF OneOpen, Conns
<1>4. DestroyedOnce /\ Fresh /\ OwnOpen /\ NotClosing /\ OwnCallback
  BY Zenon DEF ClientInv, Closing
<1>5. DestroyedOnce'
  <2>1. \A d \in Conns : Count(pending', Destroyed(d)) = One(conns'[d].phase = "closed")
    BY <1>2, <1>4, Zenon DEF DestroyedOnce
  <2> QED
    BY <2>1, Zenon DEF DestroyedOnce, Destroyed, One, Count, Places, Conns
<1>6. Fresh'
  BY <1>2, <1>4, Zenon DEF Fresh, Conns
<1>7. OwnOpen'
  BY <1>2, <1>4, Zenon DEF OwnOpen, Conns
<1>8. NotClosing'
  BY <1>4, Zenon DEF NotClosing, UserCalls, Conns
<1>9. OwnCallback'
  <2>1. client' = "alive" => \A d \in Conns : conns'[d].closeCallback = "client"
                                             /\ Count(pending', SetClose(d)) = 0
    BY <1>2, <1>4, Zenon DEF OwnCallback
  <2> QED
    BY <2>1, Zenon DEF OwnCallback, SetClose, Count, Places, Conns
<1> QED
  BY <1>2, <1>3, <1>5, <1>6, <1>7, <1>8, <1>9, Zenon DEF Closing

\* TcpClient::newConnection takes over the socket of the attempt.
LEMMA NewConnectionKeeps ==
    ASSUME ClientInv, Running, NewConnection
    PROVE ClientInv'
<1>1. Types /\ ConnectorType /\ ClientType /\ Attempt
  BY Zenon DEF ClientInv, Types
<1>2. PICK c : c = connID_
  OBVIOUS
<1>3. PICK r : r = [conns[c] EXCEPT !.state = "kConnected", !.phase = "up"]
  OBVIOUS
<1>4. /\ loopPc = "idle" /\ state_ = "kConnecting" /\ reported' = FALSE
      /\ removeAndResetChannel(pending) /\ sockets' = sockets - 1 /\ state_' = "kConnected"
      /\ retryDelayMs_' = retryDelayMs_ /\ givenUp' = givenUp /\ timers' = timers
      /\ connected_' = connected_ /\ held' = held /\ loopPc' = loopPc /\ pc' = pc
      /\ failed' = failed
  BY Zenon DEF NewConnection, HandleConnected, LoopIdle
<1>5. /\ client # "gone" /\ c <= MaxConns /\ connID_' = c + 1 /\ connection_' = c
      /\ connect_' = connect_ /\ retry_' = retry_ /\ client' = client /\ calls' = calls
  BY <1>2, Zenon DEF NewConnection
<1>6. conns' = [conns EXCEPT ![c] = r]
  <2>1. conns' = [conns EXCEPT ![c].state = "kConnected", ![c].phase = "up"]
    BY <1>2, Zenon DEF NewConnection
  <2> QED
    BY <1>1, <1>3, <2>1 DEF ClientType
<1>7. c \in Conns /\ c # 0 /\ connID_' \in 1..MaxConns + 1 /\ connection_' \in 0..(connID_' - 1)
  BY <1>1, <1>2, <1>5, ClientBounds DEF ClientType, Conns
<1>8. /\ conns[c] \in ConnRecord /\ conns[c].phase = "none"
      /\ client = "alive" => conns[c].closeCallback = "client"
  <2>1. conns[c] \in ConnRecord
    BY <1>1, <1>7, Zenon DEF ClientType
  <2>2. c >= connID_
    BY <1>1, <1>2 DEF ClientType
  <2>3. Fresh /\ OwnCallback
    BY Zenon DEF ClientInv, Closing
  <2>4. conns[c].phase = "none"
    BY <1>7, <2>2, <2>3, Zenon DEF Fresh
  <2>5. client = "alive" => conns[c].closeCallback = "client"
    BY <1>7, <2>3, Zenon DEF OwnCallback
  <2> QED
    BY <2>1, <2>4, <2>5, Zenon
<1>9. /\ r \in ConnRecord /\ r.phase = "up" /\ r.closeCallback = conns[c].closeCallback
  <2>1. "kConnected" \in {"kConnecting", "kDisconnected"} \cup Open /\ "up" \in Phases
    BY DEF Open, Phases
  <2> QED
    BY <1>3, <1>8, <2>1 DEF ConnRecord
<1>10. ~reported' /\ state_' \in {"kDisconnected", "kConnected"} /\ loopPc' # "restart"
  BY <1>4
<1>11. /\ sockets' = 0 /\ connectChannel_' = "removed"
       /\ pending' \in Seq(Functors) /\ Attempt' /\ StopSeen'
       /\ \A d \in Conns : /\ Count(pending', Destroyed(d)) = Count(pending, Destroyed(d))
                           /\ Count(pending', SetClose(d)) = Count(pending, SetClose(d))
  BY <1>4, <1>10, LeavesPoller, Zenon
<1>12. Tries'
  <2>1. state_' # "kDisconnected"
    BY <1>4
  <2> QED
    BY <2>1, TriesIntro
<1>13. Count(pending', Destroyed(c)) = One(r.phase = "closed")
  <2>1. Count(pending, Destroyed(c)) = One(conns[c].phase = "closed")
    BY <1>7, Zenon DEF ClientInv, Closing, DestroyedOnce
  <2> QED
    BY <1>7, <1>8, <1>9, <1>11, <2>1 DEF One
<1>14. \A d \in Conns : d >= connID_' => d >= connID_ /\ d # c
  BY <1>1, <1>2, <1>5 DEF ClientType, Conns
<1>15. \A d \in Conns : ~(conns[d].phase \in Live)
  <2>1. state_ # "kConnected"
    BY <1>4
  <2> QED
    BY <2>1, Zenon DEF ClientInv, OneOpen
<1>16. r.phase \in Live
  BY <1>9 DEF Live
<1>17. conns' \in [Conns -> ConnRecord] /\ OneOpen' /\ Closing'
  BY <1>4, <1>5, <1>6, <1>7, <1>8, <1>9, <1>10, <1>11, <1>13, <1>14, <1>15, <1>16,
     OneConnChanges, Zenon
<1>18. ConnectorType'
  <2>1. /\ connectChannel_' \in {"null", "watched", "removed"} /\ sockets' \in Nat
        /\ reported' \in BOOLEAN /\ state_' \in {"kDisconnected", "kConnecting", "kConnected"}
    <3>1. reported' = FALSE /\ state_' = "kConnected" /\ sockets' = 0 /\ connectChannel_' = "removed"
      BY <1>4, <1>11, Zenon
    <3> QED
      BY <3>1
  <2>2. /\ retryDelayMs_' = retryDelayMs_ /\ givenUp' = givenUp /\ timers' = timers
        /\ connected_' = connected_ /\ held' = held /\ loopPc' = loopPc
    BY <1>4, Zenon
  <2> QED
    BY <1>1, <2>1, <2>2, Zenon DEF ConnectorType
<1>19. ClientType'
  BY <1>1, <1>5, <1>7, <1>17, Zenon DEF ClientType
<1>20. Types'
  BY <1>1, <1>4, <1>11, <1>18, <1>19, Zenon DEF Types, ThreadType
<1> QED
  BY <1>11, <1>12, <1>17, <1>20, Zenon DEF ClientInv

\* A step that posts or takes functors of connections leaves the Connector's part alone.
LEMMA AttemptUntouched ==
    ASSUME ClientInv, Running, UNCHANGED <<connectorVars, connected_>>, pc' = pc,
           \/ loopPc' = loopPc
           \/ /\ loopPc # "connect" /\ loopPc # "startInLoop" /\ loopPc' # "connect"
              /\ loopPc' = "restart" => state_ = "kConnected",
           \A op \in {"startInLoop", "stopInLoop", "resetChannel"} :
              Count(pending', Functor(op)) = Count(pending, Functor(op))
    PROVE Attempt' /\ StopSeen' /\ Tries'
<1>1. connected_' <=> connected_
  BY Zenon
<1>2. /\ loopPc' = "connect" <=> loopPc = "connect"
      /\ loopPc' = "restart" => loopPc = "restart" \/ state_ = "kConnected"
      /\ loopPc' # "startInLoop" => loopPc # "startInLoop"
  BY Zenon
<1>3. \A ops : InCall(ops)' <=> InCall(ops)
  BY InCallStays, Zenon
<1>4. /\ Count(pending', Functor("startInLoop")) = Count(pending, Functor("startInLoop"))
      /\ Count(pending', Functor("stopInLoop")) = Count(pending, Functor("stopInLoop"))
      /\ Count(pending', Functor("resetChannel")) = Count(pending, Functor("resetChannel"))
  OBVIOUS
<1> QED
  BY <1>1, <1>2, <1>3, <1>4, AttemptStays, Zenon

\* A step of the loop thread that changes one connection and leaves the Connector alone.
LEMMA ConnStepKeeps ==
    ASSUME ClientInv, Running, NEW c \in Conns, NEW r \in ConnRecord,
           conns' = [conns EXCEPT ![c] = r], pending' \in Seq(Functors),
           UNCHANGED <<connectorVars, connected_>>, held' = held, pc' = pc, failed' = failed,
           connect_' = connect_, retry_' = retry_, connID_' = connID_, client' = client,
           calls' = calls, connection_' = connection_ \/ connection_' = 0,
           loopPc \in {"idle", "remove"}, loopPc' \in {"idle", "restart", "remove"},
           loopPc' = "restart" => state_ = "kConnected",
           \A op \in {"startInLoop", "stopInLoop", "resetChannel"} :
              Count(pending', Functor(op)) = Count(pending, Functor(op)),
           client = "alive" =>
              /\ r.closeCallback = "client"
              /\ \A d \in Conns : Count(pending', SetClose(d)) = Count(pending, SetClose(d)),
           \A d \in Conns : d # c => Count(pending', Destroyed(d)) = Count(pending, Destroyed(d)),
           Count(pending', Destroyed(c)) = One(r.phase = "closed"),
           conns[c].phase = "none" => r.phase = "none",
           connection_' = c /\ r.closeCallback = "client" => r.phase \in Live,
           r.phase \in Live => conns[c].phase \in Live,
           loopPc' = "restart" \/ connection_' # connection_
              => r.phase \notin Live /\ \A d \in Conns : d # c => conns[d].phase \notin Live
    PROVE ClientInv'
<1>1. Types /\ ConnectorType /\ ClientType /\ OneOpen /\ Fresh
  BY Zenon DEF ClientInv, Types, Closing
<1>2. /\ loopPc # "connect" /\ loopPc # "startInLoop" /\ loopPc' # "connect"
      /\ loopPc' \in {"idle", "startInLoop", "connect", "restart", "remove"}
  OBVIOUS
<1>3. Attempt' /\ StopSeen' /\ Tries'
  BY <1>2, AttemptUntouched, Zenon
<1>4. state_' = state_ /\ connected_' = connected_
  BY Zenon DEF connectorVars
<1>5. \A d \in Conns : d >= connID_' => d >= connID_ /\ (d = c => r.phase = "none")
  BY <1>1, Zenon DEF Fresh
<1>6. \A d \in Conns : connection_' = d => connection_ = d
  BY DEF Conns
<1>7. r.phase \in Live => connection_' = c /\ state_' = "kConnected" /\ loopPc' # "restart"
  BY <1>1, <1>4, Zenon DEF OneOpen
<1>8. \A d \in Conns : d # c /\ conns[d].phase \in Live
         => connection_' = d /\ state_' = "kConnected" /\ loopPc' # "restart"
  BY <1>1, <1>4, Zenon DEF OneOpen
<1>9. conns' \in [Conns -> ConnRecord] /\ OneOpen' /\ Closing'
  BY <1>5, <1>6, <1>7, <1>8, OneConnChanges, Zenon
<1>10. connection_' \in 0..connID_' - 1
  BY <1>1 DEF ClientType
<1>11. ClientType'
  BY <1>1, <1>9, <1>10, Zenon DEF ClientType
<1>12. ThreadType' /\ connected_' \in BOOLEAN /\ held' \in BOOLEAN
  BY <1>1, <1>4, Zenon DEF Types, ThreadType, ConnectorType
<1>13. Types'
  BY <1>1, <1>2, <1>11, <1>12, TypesStay, Zenon
<1> QED
  BY <1>3, <1>9, <1>13, Zenon DEF ClientInv

\* A closed connection is removed by connectionDestroyed, which is posted.
LEMMA PostsDestroyed ==
    ASSUME NEW c \in Conns, NEW q \in Seq(Functors), pending' = Append(q, Destroyed(c)),
           \A f : f.op # "forceCloseInLoop" => Count(q, f) = Count(pending, f)
    PROVE /\ pending' \in Seq(Functors)
          /\ \A op \in {"startInLoop", "stopInLoop", "resetChannel"} :
                Count(pending', Functor(op)) = Count(pending, Functor(op))
          /\ \A d \in Conns : Count(pending', SetClose(d)) = Count(pending, SetClose(d))
          /\ \A d \in Conns : d # c => Count(pending', Destroyed(d)) = Count(pending, Destroyed(d))
          /\ Count(pending', Destroyed(c)) = Count(pending, Destroyed(c)) + 1
<1>1. PICK g : g = Destroyed(c)
  OBVIOUS
<1>2. g \in Functors /\ g.op = "connectionDestroyed" /\ \A d \in Conns : g = Destroyed(d) => c = d
  BY <1>1, FunctorTypes, FunctorsDiffer, Zenon
<1>3. /\ pending' \in Seq(Functors)
      /\ \A f : Count(pending', f) = IF g = f THEN Count(q, f) + 1 ELSE Count(q, f)
  <2>1. pending' = Append(q, g) /\ g \in Functors
    BY <1>1, <1>2, Zenon
  <2> QED
    BY ONLY q \in Seq(Functors), <2>1, Post, ZenonT(60)
<1>4. \A op \in {"startInLoop", "stopInLoop", "resetChannel"} :
         Functor(op).op # "forceCloseInLoop" /\ g # Functor(op)
  BY <1>2, FunctorsDiffer
<1>5. \A d \in Conns : /\ SetClose(d).op # "forceCloseInLoop" /\ g # SetClose(d)
                       /\ Destroyed(d).op # "forceCloseInLoop" /\ (d # c => g # Destroyed(d))
  BY <1>2, FunctorsDiffer
<1>6. Count(pending', g) = Count(q, g) + 1
  BY <1>3, Zenon
<1>7. Count(pending', Destroyed(c)) = Count(pending, Destroyed(c)) + 1
  BY <1>1, <1>5, <1>6, Zenon
<1> QED
  BY <1>3, <1>4, <1>5, <1>7, Zenon

\* TcpConnection::handleClose in the loop, with the client's or the destructor's callback.
LEMMA HandleCloseKeeps ==
    ASSUME ClientInv, Running, NEW c \in Conns, NEW q \in Seq(Functors), loopPc = "idle",
           conns[c].phase \in {"up", "destroyed"}, handleClose(c, q),
           \A f : f.op # "forceCloseInLoop" => Count(q, f) = Count(pending, f)
    PROVE ClientInv'
<1>1. ClientType /\ OneOpen /\ DestroyedOnce /\ OwnOpen /\ OwnCallback
  BY Zenon DEF ClientInv, Types, Closing
<1>2. conns[c] \in ConnRecord
  BY <1>1, Zenon DEF ClientType
<1>3. "kDisconnected" \in {"kConnecting", "kDisconnected"} \cup Open
      /\ "closing" \in Phases /\ "closed" \in Phases
  BY DEF Phases
<1>4. conns[c].phase # "none" /\ conns[c].phase # "closed" /\ loopPc \in {"idle", "remove"}
  OBVIOUS
<1>5. Count(pending, Destroyed(c)) = 0
  BY <1>1, <1>4 DEF DestroyedOnce, One
<1>6. CASE Dangling
  BY <1>6, FailKeeps DEF Dangling
<1>7. CASE ~Dangling /\ conns[c].closeCallback = "client"
  <2>1. PICK r : r = [conns[c] EXCEPT !.state = "kDisconnected", !.phase = "closing"]
    OBVIOUS
  <2>2. /\ connection_ = c /\ pending' = q /\ loopPc' = "remove"
        /\ conns' = [conns EXCEPT ![c].state = "kDisconnected", ![c].phase = "closing"]
    BY <1>7 DEF handleClose
  <2>3. /\ UNCHANGED <<connectorVars, connected_>> /\ held' = held /\ pc' = pc /\ failed' = failed
        /\ connect_' = connect_ /\ retry_' = retry_ /\ connID_' = connID_ /\ client' = client
        /\ calls' = calls /\ connection_' = connection_
    BY <1>7 DEF handleClose
  <2>4. conns' = [conns EXCEPT ![c] = r]
    BY <1>1, <2>1, <2>2 DEF ClientType
  <2>5. r \in ConnRecord /\ r.phase = "closing" /\ r.closeCallback = conns[c].closeCallback
    BY <1>2, <1>3, <2>1 DEF ConnRecord
  <2>6. conns[c].phase \in Live /\ r.phase \in Live
    BY <1>1, <1>7, <2>2, <2>5 DEF OwnOpen, Live
  <2>7. /\ loopPc' \in {"idle", "restart", "remove"} /\ loopPc' # "restart"
        /\ Count(pending', Destroyed(c)) = One(r.phase = "closed")
        /\ \A d \in Conns : Count(pending', Destroyed(d)) = Count(pending, Destroyed(d))
        /\ \A d \in Conns : Count(pending', SetClose(d)) = Count(pending, SetClose(d))
        /\ \A op \in {"startInLoop", "stopInLoop", "resetChannel"} :
              Count(pending', Functor(op)) = Count(pending, Functor(op))
    <3>1. /\ \A d \in Conns : /\ SetClose(d).op # "forceCloseInLoop"
                              /\ Destroyed(d).op # "forceCloseInLoop"
          /\ \A op \in {"startInLoop", "stopInLoop", "resetChannel"} :
                Functor(op).op # "forceCloseInLoop"
      BY FunctorsDiffer
    <3>2. /\ \A d \in Conns : Count(pending', Destroyed(d)) = Count(pending, Destroyed(d))
          /\ \A d \in Conns : Count(pending', SetClose(d)) = Count(pending, SetClose(d))
          /\ \A op \in {"startInLoop", "stopInLoop", "resetChannel"} :
                Count(pending', Functor(op)) = Count(pending, Functor(op))
      BY <2>2, <3>1, Zenon
    <3>3. Count(pending', Destroyed(c)) = One(r.phase = "closed")
      BY <1>5, <2>5, <3>2 DEF One
    <3> QED
      BY <2>2, <3>2, <3>3
  <2>8. pending' \in Seq(Functors)
    BY <2>2, Zenon
  <2> QED
    BY <1>4, <1>7, <2>3, <2>4, <2>5, <2>6, <2>7, <2>8, ConnStepKeeps, Zenon
<1>8. CASE ~Dangling /\ conns[c].closeCallback = "loop"
  <2>1. PICK r : r = [conns[c] EXCEPT !.state = "kDisconnected", !.phase = "closed"]
    OBVIOUS
  <2>2. /\ pending' = Append(q, Destroyed(c)) /\ loopPc' = loopPc
        /\ conns' = [conns EXCEPT ![c].state = "kDisconnected", ![c].phase = "closed"]
    BY <1>8 DEF handleClose, Destroyed
  <2>3. /\ UNCHANGED <<connectorVars, connected_>> /\ held' = held /\ pc' = pc /\ failed' = failed
        /\ connect_' = connect_ /\ retry_' = retry_ /\ connID_' = connID_ /\ client' = client
        /\ calls' = calls /\ connection_' = connection_
    BY <1>8 DEF handleClose
  <2>4. conns' = [conns EXCEPT ![c] = r]
    BY <1>1, <2>1, <2>2 DEF ClientType
  <2>5. /\ r \in ConnRecord /\ r.phase = "closed" /\ r.closeCallback = conns[c].closeCallback
        /\ r.phase \notin Live /\ r.closeCallback # "client"
    <3>1. r \in ConnRecord /\ r.phase = "closed" /\ r.closeCallback = conns[c].closeCallback
      BY <1>2, <1>3, <2>1 DEF ConnRecord
    <3> QED
      BY <1>8, <3>1 DEF Live
  <2>6. /\ pending' \in Seq(Functors)
        /\ \A op \in {"startInLoop", "stopInLoop", "resetChannel"} :
              Count(pending', Functor(op)) = Count(pending, Functor(op))
        /\ \A d \in Conns : Count(pending', SetClose(d)) = Count(pending, SetClose(d))
        /\ \A d \in Conns : d # c => Count(pending', Destroyed(d)) = Count(pending, Destroyed(d))
        /\ Count(pending', Destroyed(c)) = Count(pending, Destroyed(c)) + 1
    BY <2>2, PostsDestroyed, Zenon
  <2>7. Count(pending', Destroyed(c)) = One(r.phase = "closed")
    BY <1>5, <2>5, <2>6 DEF One
  <2>8. loopPc' \in {"idle", "restart", "remove"} /\ loopPc' # "restart"
    BY <2>2
  <2>9. client # "alive"
    <3>1. conns[c].closeCallback # "client"
      BY <1>8
    <3> QED
      BY <1>1, <3>1, Zenon DEF OwnCallback
  <2> QED
    BY <1>4, <2>3, <2>4, <2>5, <2>6, <2>7, <2>8, <2>9, ConnStepKeeps, Zenon
<1> QED
  BY <1>6, <1>7, <1>8 DEF handleClose

\* TcpClient::removeConnection, called by handleClose.
LEMMA RemoveConnectionKeeps ==
    ASSUME ClientInv, Running, NEW c \in Conns, RemoveConnection(c)
    PROVE ClientInv'
<1>1. ClientType /\ OneOpen /\ DestroyedOnce /\ OwnCallback /\ pending \in Seq(Functors)
  BY Zenon DEF ClientInv, Types, Closing
<1>2. loopPc = "remove" /\ conns[c].phase = "closing"
  BY Zenon DEF RemoveConnection
<1>3. CASE Dangling
  BY <1>3, FailKeeps DEF Dangling
<1>4. CASE ~Dangling
  <2>1. PICK r : r = [conns[c] EXCEPT !.phase = "closed"]
    OBVIOUS
  <2>2. /\ removeConnection(c) /\ conns' = [conns EXCEPT ![c].phase = "closed"]
        /\ UNCHANGED <<connectorVars, connected_>> /\ held' = held /\ pc' = pc /\ failed' = failed
        /\ connect_' = connect_ /\ retry_' = retry_ /\ connID_' = connID_ /\ client' = client
        /\ calls' = calls
    BY <1>4, Zenon DEF RemoveConnection
  <2>3. /\ connection_' = 0 /\ pending' = Append(pending, Destroyed(c))
        /\ loopPc' = IF retry_ /\ connect_ THEN "restart" ELSE "idle"
    BY <2>2, Zenon DEF removeConnection, Destroyed
  <2>4. conns' = [conns EXCEPT ![c] = r]
    BY <2>1, <2>2
  <2>5. conns[c] \in ConnRecord /\ "closed" \in Phases
    BY <1>1 DEF ClientType, Phases
  <2>6. /\ r \in ConnRecord /\ r.phase = "closed" /\ r.closeCallback = conns[c].closeCallback
        /\ r.phase \notin Live
    <3>1. "kConnecting" \in {"kConnecting", "kDisconnected"} \cup Open
      OBVIOUS
    <3>2. r \in ConnRecord /\ r.phase = "closed" /\ r.closeCallback = conns[c].closeCallback
      BY <2>1, <2>5, <3>1 DEF ConnRecord
    <3> QED
      BY <3>2 DEF Live
  <2>7. /\ pending' \in Seq(Functors)
        /\ \A op \in {"startInLoop", "stopInLoop", "resetChannel"} :
              Count(pending', Functor(op)) = Count(pending, Functor(op))
        /\ \A d \in Conns : Count(pending', SetClose(d)) = Count(pending, SetClose(d))
        /\ \A d \in Conns : d # c => Count(pending', Destroyed(d)) = Count(pending, Destroyed(d))
        /\ Count(pending', Destroyed(c)) = Count(pending, Destroyed(c)) + 1
    BY <1>1, <2>3, PostsDestroyed, Zenon
  <2>8. Count(pending', Destroyed(c)) = One(r.phase = "closed")
    <3>1. conns[c].phase # "closed"
      BY <1>2
    <3>2. Count(pending, Destroyed(c)) = 0
      BY <1>1, <3>1 DEF DestroyedOnce, One
    <3> QED
      BY <2>6, <2>7, <3>2 DEF One
  <2>9. /\ conns[c].phase # "none" /\ conns[c].phase \in Live /\ loopPc \in {"idle", "remove"}
        /\ loopPc' \in {"idle", "restart", "remove"} /\ connection_' # c
    BY <1>2, <2>3 DEF Live, Conns
  <2>10. connection_ = c /\ state_ = "kConnected"
    BY <1>1, <2>9, Zenon DEF OneOpen
  <2>11. \A d \in Conns : d # c => conns[d].phase \notin Live
    BY <1>1, <2>10, Zenon DEF OneOpen
  <2>12. client = "alive" => r.closeCallback = "client"
    BY <1>1, <2>6, Zenon DEF OwnCallback
  <2> QED
    BY <2>2, <2>3, <2>4, <2>6, <2>7, <2>8, <2>9, <2>10, <2>11, <2>12, ConnStepKeeps, Zenon
<1> QED
  BY <1>3, <1>4

\* The peer closes the connection, or it was told to close.
LEMMA ConnectionClosesKeeps ==
    ASSUME ClientInv, Running, NEW c \in Conns, ConnectionCloses(c)
    PROVE ClientInv'
<1>1. loopPc = "idle" /\ conns[c].phase = "up" /\ handleClose(c, pending)
  BY Zenon DEF ConnectionCloses, LoopIdle
<1>2. pending \in Seq(Functors) /\ conns[c].phase \in {"up", "destroyed"}
  BY <1>1, Zenon DEF ClientInv, Types
<1> QED
  BY <1>1, <1>2, HandleCloseKeeps, Zenon

\* The functors of connections: destroyed, setCloseCallback, forceCloseInLoop.
LEMMA ConnectionFunctorKeeps ==
    ASSUME ClientInv, Running, ConnectionFunctor
    PROVE ClientInv'
<1>1. ClientType /\ pending \in Seq(Functors)
  BY Zenon DEF ClientInv, Types
<1>2. PICK f : f = Head(pending)
  OBVIOUS
<1>3. PICK c : c = f.conn
  OBVIOUS
<1>4. /\ loopPc = "idle" /\ pending # <<>>
      /\ f.op \in {"setCloseCallback", "forceCloseInLoop", "connectionDestroyed"}
  BY <1>2, Zenon DEF ConnectionFunctor, Due, LoopIdle
<1>5. /\ Tail(pending) \in Seq(Functors) /\ f \in Functors
      /\ \A g : Count(Tail(pending), g) = IF f = g THEN Count(pending, g) - 1 ELSE Count(pending, g)
      /\ \A g : f = g => Count(pending, g) > 0
  BY <1>1, <1>2, <1>4, Take, Zenon
<1>6. /\ f.op = "connectionDestroyed" => f = Destroyed(c)
      /\ f.op = "setCloseCallback" => f = SetClose(c)
      /\ c \in Conns
  BY <1>3, <1>4, <1>5, FunctorIs
<1>7. CASE f.op = "forceCloseInLoop"
  <2>1. CASE \/ Fail("forceCloseInLoop") /\ UNCHANGED <<clientVars, calls>>
             \/ Fail("disableAll") /\ UNCHANGED <<clientVars, calls>>
    BY <2>1, FailKeeps
  <2>2. CASE conns[c].phase \in {"up", "destroyed"} /\ handleClose(c, Tail(pending))
    <3>1. \A g : g.op # "forceCloseInLoop" => Count(Tail(pending), g) = Count(pending, g)
      BY <1>5, <1>7, Zenon
    <3>2. PICK q : q = Tail(pending)
      OBVIOUS
    <3> QED
      BY <1>4, <1>5, <1>6, <2>2, <3>1, <3>2, HandleCloseKeeps, Zenon
  <2> QED
    BY <1>2, <1>3, <1>7, <2>1, <2>2, Zenon DEF ConnectionFunctor
<1>8. CASE f.op # "forceCloseInLoop"
  <2>1. PICK r : r = IF f.op = "setCloseCallback" THEN [conns[c] EXCEPT !.closeCallback = "loop"]
                                                  ELSE [conns[c] EXCEPT !.phase = "destroyed"]
    OBVIOUS
  <2>2. conns' = [conns EXCEPT ![c] = r]
    BY <1>2, <1>3, <1>8, <2>1, Zenon DEF ConnectionFunctor
  <2>3. /\ pending' = Tail(pending) /\ UNCHANGED <<connectorVars, connected_>>
        /\ held' = held /\ loopPc' = loopPc /\ pc' = pc
        /\ failed' = failed /\ connect_' = connect_ /\ retry_' = retry_ /\ connID_' = connID_
        /\ connection_' = connection_ /\ client' = client /\ calls' = calls
    BY <1>2, <1>8, Zenon DEF ConnectionFunctor
  <2>4. /\ loopPc \in {"idle", "remove"} /\ loopPc' \in {"idle", "restart", "remove"}
        /\ loopPc' # "restart" /\ pending' \in Seq(Functors)
    BY <1>4, <1>5, <2>3
  <2>5. f.op = "setCloseCallback" \/ f.op = "connectionDestroyed"
    BY <1>4, <1>8
  <2>6. conns[c] \in ConnRecord
    BY <1>1, <1>6, Zenon DEF ClientType
  <2>7. \A op \in {"startInLoop", "stopInLoop", "resetChannel"} :
            Count(pending', Functor(op)) = Count(pending, Functor(op))
    <3>1. \A op \in {"startInLoop", "stopInLoop", "resetChannel"} : f # Functor(op)
      BY <2>5, FunctorsDiffer
    <3> QED
      BY <1>5, <2>3, <3>1, Zenon
  <2>8. \A d \in Conns : d # c => Count(pending', Destroyed(d)) = Count(pending, Destroyed(d))
    <3>1. \A d \in Conns : d # c => f # Destroyed(d)
      BY <1>6, <2>5, FunctorsDiffer
    <3> QED
      BY <1>5, <2>3, <3>1, Zenon
  <2>9. Count(pending, Destroyed(c)) = One(conns[c].phase = "closed")
    BY <1>6, Zenon DEF ClientInv, Closing, DestroyedOnce
  <2>10. OwnCallback /\ OwnOpen
    BY Zenon DEF ClientInv, Closing
  <2>11. "kConnecting" \in {"kConnecting", "kDisconnected"} \cup Open /\ "destroyed" \in Phases
    BY DEF Phases
  <2>12. CASE f.op = "setCloseCallback"
    <3>1. /\ r = [conns[c] EXCEPT !.closeCallback = "loop"] /\ f = SetClose(c)
          /\ f.op # "connectionDestroyed"
      BY <1>6, <2>1, <2>12
    <3>2. r \in ConnRecord /\ r.phase = conns[c].phase /\ r.closeCallback # "client"
      <4>1. r \in ConnRecord /\ r.phase = conns[c].phase /\ r.closeCallback = "loop"
        BY <2>6, <2>11, <3>1 DEF ConnRecord
      <4> QED
        BY <4>1
    <3>3. client # "alive"
      <4>1. Count(pending, SetClose(c)) > 0
        BY <1>5, <3>1, Zenon
      <4>2. client = "alive" => Count(pending, SetClose(c)) = 0
        BY <1>6, <2>10, Zenon DEF OwnCallback
      <4> QED
        BY <4>1, <4>2
    <3>4. Count(pending', Destroyed(c)) = One(r.phase = "closed")
      <4>1. f # Destroyed(c)
        BY <1>6, <3>1, FunctorsDiffer
      <4> QED
        BY <1>5, <2>3, <2>9, <3>2, <4>1, Zenon
    <3> QED
      BY <1>6, <2>2, <2>3, <2>4, <2>7, <2>8, <3>2, <3>3, <3>4, ConnStepKeeps, Zenon
  <2>13. CASE f.op = "connectionDestroyed"
    <3>1. /\ r = [conns[c] EXCEPT !.phase = "destroyed"] /\ f = Destroyed(c)
          /\ f.op # "setCloseCallback"
      BY <1>6, <2>1, <2>13
    <3>2. /\ r \in ConnRecord /\ r.phase = "destroyed"
          /\ r.closeCallback = conns[c].closeCallback
      BY <2>6, <2>11, <3>1 DEF ConnRecord
    <3>3. conns[c].phase = "closed" /\ Count(pending, Destroyed(c)) = 1
      <4>1. Count(pending, Destroyed(c)) > 0
        BY <1>5, <3>1, Zenon
      <4> QED
        BY <2>9, <4>1 DEF One
    <3>4. Count(pending', Destroyed(c)) = One(r.phase = "closed")
      <4>1. Count(pending', Destroyed(c)) = Count(pending, Destroyed(c)) - 1
        BY <1>5, <2>3, <3>1, Zenon
      <4> QED
        BY <3>2, <3>3, <4>1 DEF One
    <3>5. conns[c].phase # "none" /\ conns[c].phase \notin Live /\ r.phase \notin Live
      BY <3>2, <3>3 DEF Live
    <3>6. \A d \in Conns : Count(pending', SetClose(d)) = Count(pending, SetClose(d))
      <4>1. \A d \in Conns : f # SetClose(d)
        BY <2>13, FunctorsDiffer
      <4> QED
        BY <1>5, <2>3, <4>1, Zenon
    <3>7. /\ client = "alive" => r.closeCallback = "client"
          /\ ~(connection_' = c /\ r.closeCallback = "client")
      BY <1>6, <2>3, <2>10, <3>2, <3>5, Zenon DEF OwnCallback, OwnOpen
    <3> QED
      BY <1>6, <2>2, <2>3, <2>4, <2>7, <2>8, <3>2, <3>4, <3>5, <3>6, <3>7, ConnStepKeeps, Zenon
  <2> QED
    BY <2>5, <2>12, <2>13
<1> QED
  BY <1>7, <1>8

-----------------------------------------------------------------------------
(* The user's calls                                                        *)

\* The user calls only while there is a client, and no more often than the bound.
LEMMA MayCallFacts ==
    ASSUME Types, MayCall
    PROVE client = "alive" /\ calls' \in 0..MaxCalls
BY ClientBounds DEF Types, ClientType, MayCall

\* TcpClient::connect in the loop thread.
LEMMA LoopConnectKeeps ==
    ASSUME ClientInv, Running, LoopConnect
    PROVE ClientInv'
<1>1. Types /\ ConnectorType /\ ClientType /\ MayCall
  BY Zenon DEF ClientInv, Types, LoopConnect
<1>2. client = "alive" /\ calls' \in 0..MaxCalls
  BY <1>1, MayCallFacts, Zenon
<1>3. /\ loopPc = "idle" /\ connect_' = TRUE /\ connected_' = TRUE /\ loopPc' = "startInLoop"
      /\ UNCHANGED <<connectorVars, failed>>
      /\ held' = held /\ pending' = pending /\ pc' = pc /\ retry_' = retry_ /\ connID_' = connID_
      /\ connection_' = connection_ /\ conns' = conns /\ client' = client
  BY Zenon DEF LoopConnect, LoopIdle
<1>4. /\ connected_' /\ loopPc' # "restart" /\ loopPc' = "startInLoop"
      /\ loopPc' = "connect" <=> loopPc = "connect"
      /\ loopPc' \in {"idle", "startInLoop", "connect", "restart", "remove"}
      /\ connected_' \in BOOLEAN /\ connect_' \in BOOLEAN
  BY <1>3
<1>5. \A f : Count(pending', f) = Count(pending, f)
  BY <1>3, Zenon
<1>6. Attempt' /\ StopSeen' /\ Tries'
  BY <1>3, <1>4, <1>5, AttemptStays, Zenon
<1>7. state_' = state_
  BY <1>3, Zenon DEF connectorVars
<1>8. OneOpen' /\ Closing'
  BY <1>3, <1>4, <1>5, <1>7, ConnsStay, Zenon
<1>9. ClientType' /\ ThreadType' /\ held' \in BOOLEAN /\ pending' \in Seq(Functors)
  <2>1. ClientType'
    BY <1>1, <1>2, <1>3, <1>4, Zenon DEF ClientType
  <2>2. ThreadType' /\ held' \in BOOLEAN /\ pending' \in Seq(Functors)
    BY <1>1, <1>3, Zenon DEF Types, ThreadType, ConnectorType
  <2> QED
    BY <2>1, <2>2
<1>10. Types'
  BY <1>1, <1>3, <1>4, <1>9, TypesStay, Zenon
<1> QED
  BY <1>6, <1>8, <1>10, Zenon DEF ClientInv

\* TcpClient::stop in the loop thread.
LEMMA LoopStopKeeps ==
    ASSUME ClientInv, Running, LoopStop
    PROVE ClientInv'
<1>1. Types /\ ConnectorType /\ ClientType /\ MayCall /\ pending \in Seq(Functors)
  BY Zenon DEF ClientInv, Types, LoopStop
<1>2. client = "alive" /\ calls' \in 0..MaxCalls
  BY <1>1, MayCallFacts, Zenon
<1>3. /\ loopPc = "idle" /\ connect_' = FALSE /\ connected_' = FALSE /\ stopInLoop(pending, FALSE)
      /\ reported' = reported /\ givenUp' = givenUp /\ held' = held /\ loopPc' = loopPc
      /\ pc' = pc /\ failed' = failed /\ retry_' = retry_ /\ connID_' = connID_
      /\ connection_' = connection_ /\ conns' = conns /\ client' = client
  BY Zenon DEF LoopStop, LoopIdle
<1>4. ~connected_' /\ loopPc' # "restart" /\ connected_' \in BOOLEAN /\ connect_' \in BOOLEAN
      /\ FALSE \in BOOLEAN
  BY <1>3
<1>5. /\ state_' \in {"kDisconnected", "kConnecting", "kConnected"} /\ sockets' \in Nat
      /\ retryDelayMs_' \in kInitRetryDelayMs..kMaxRetryDelayMs
      /\ timers' \in Nat /\ connectChannel_' \in {"null", "watched", "removed"}
      /\ pending' \in Seq(Functors) /\ Attempt' /\ StopSeen' /\ Tries'
      /\ \A c \in Conns : /\ Count(pending', Destroyed(c)) = Count(pending, Destroyed(c))
                          /\ Count(pending', SetClose(c)) = Count(pending, SetClose(c))
      /\ state_ = "kConnected" => state_' = "kConnected"
  BY <1>1, <1>3, <1>4, StopFacts, Zenon
<1>6. OneOpen' /\ Closing'
  BY <1>3, <1>4, <1>5, ConnsStay, Zenon
<1>7. ConnectorType'
  BY <1>1, <1>3, <1>4, <1>5, Zenon DEF ConnectorType
<1>8. ClientType'
  BY <1>1, <1>2, <1>3, <1>4, Zenon DEF ClientType
<1>9. Types'
  BY <1>1, <1>3, <1>5, <1>7, <1>8, Zenon DEF Types, ThreadType
<1> QED
  BY <1>5, <1>6, <1>9, Zenon DEF ClientInv

\* An assert that fails in a step of the client.
LEMMA ClientFailsKeeps ==
    ASSUME ClientInv, Running,
           NewConnectionDangling \/ \E c \in Conns : LastReference(c)
    PROVE ClientInv'
BY FailKeeps DEF NewConnectionDangling, Dangling, LastReference

\* TcpClient::enableRetry.
LEMMA EnableRetryKeeps ==
    ASSUME ClientInv, Running, EnableRetry
    PROVE ClientInv'
<1>1. Types /\ ConnectorType /\ ClientType /\ MayCall
  BY Zenon DEF ClientInv, Types, EnableRetry
<1>2. client = "alive" /\ calls' \in 0..MaxCalls
  BY <1>1, MayCallFacts, Zenon
<1>3. /\ retry_' = TRUE /\ UNCHANGED <<connectorVars, connected_>> /\ failed' = failed
      /\ held' = held /\ pending' = pending /\ pc' = pc /\ connect_' = connect_
      /\ connected_' = connected_ /\ loopPc' = loopPc /\ connID_' = connID_
      /\ connection_' = connection_ /\ conns' = conns /\ client' = client
  BY Zenon DEF EnableRetry
<1>4. \A f : Count(pending', f) = Count(pending, f)
  BY <1>3, Zenon
<1>5. Attempt' /\ StopSeen' /\ Tries'
  BY <1>3, <1>4, AttemptUntouched, Zenon
<1>6. ClientType'
  <2>1. retry_' \in BOOLEAN
    BY <1>3
  <2> QED
    BY <1>1, <1>2, <1>3, <2>1, Zenon DEF ClientType
<1>7. Types'
  <2>1. /\ ThreadType' /\ held' \in BOOLEAN /\ pending' \in Seq(Functors) /\ connected_' \in BOOLEAN
        /\ loopPc' \in {"idle", "startInLoop", "connect", "restart", "remove"}
    BY <1>1, <1>3, Zenon DEF Types, ThreadType, ConnectorType
  <2> QED
    BY <1>1, <1>3, <1>6, <2>1, TypesStay, Zenon
<1> QED
  BY <1>3, <1>4, <1>5, <1>7, ThreadStepKeeps, Zenon

\* TcpClient::disconnect in the loop thread.
LEMMA LoopDisconnectKeeps ==
    ASSUME ClientInv, Running, LoopDisconnect
    PROVE ClientInv'
<1>1. Types /\ ConnectorType /\ ClientType /\ MayCall
  BY Zenon DEF ClientInv, Types, LoopDisconnect
<1>2. client = "alive" /\ calls' \in 0..MaxCalls
  BY <1>1, MayCallFacts, Zenon
<1>3. /\ connect_' = FALSE /\ UNCHANGED <<connectorVars, connected_>> /\ failed' = failed
      /\ held' = held /\ pending' = pending /\ pc' = pc /\ retry_' = retry_
      /\ connected_' = connected_ /\ loopPc' = loopPc /\ connID_' = connID_
      /\ connection_' = connection_ /\ client' = client
  BY Zenon DEF LoopDisconnect
<1>4. \A f : Count(pending', f) = Count(pending, f)
  BY <1>3, Zenon
<1>5. Attempt' /\ StopSeen' /\ Tries'
  BY <1>3, <1>4, AttemptUntouched, Zenon
<1>6. state_' = state_
  BY <1>3, Zenon DEF connectorVars
<1>7. conns' = [c \in Conns |-> IF c = connection_ /\ conns[c].state = "kConnected"
                               THEN [conns[c] EXCEPT !.state = "kDisconnecting"] ELSE conns[c]]
  BY Zenon DEF LoopDisconnect
<1>8. \A c \in Conns : /\ conns'[c] \in ConnRecord /\ conns'[c].phase = conns[c].phase
                       /\ conns'[c].closeCallback = conns[c].closeCallback
  <2> SUFFICES ASSUME NEW c \in Conns
               PROVE /\ conns'[c] \in ConnRecord /\ conns'[c].phase = conns[c].phase
                     /\ conns'[c].closeCallback = conns[c].closeCallback
    OBVIOUS
  <2>1. conns'[c] = conns[c] \/ conns'[c] = [conns[c] EXCEPT !.state = "kDisconnecting"]
    BY <1>7
  <2>2. conns[c] \in ConnRecord
    BY <1>1, Zenon DEF ClientType
  <2>3. /\ "kDisconnecting" \in {"kConnecting", "kDisconnected"} \cup Open
        /\ "none" \in Phases
    BY DEF Open, Phases
  <2> QED
    BY <2>1, <2>2, <2>3 DEF ConnRecord
<1>9. conns' \in [Conns -> ConnRecord]
  BY <1>7, <1>8
<1>10. OneOpen' /\ Closing'
  BY <1>3, <1>4, <1>6, <1>8, PhasesStay, Zenon
<1>11. ClientType'
  <2>1. connect_' \in BOOLEAN
    BY <1>3
  <2> QED
    BY <1>1, <1>2, <1>3, <1>9, <2>1, Zenon DEF ClientType
<1>12. Types'
  <2>1. /\ ThreadType' /\ held' \in BOOLEAN /\ pending' \in Seq(Functors) /\ connected_' \in BOOLEAN
        /\ loopPc' \in {"idle", "startInLoop", "connect", "restart", "remove"}
    BY <1>1, <1>3, Zenon DEF Types, ThreadType, ConnectorType
  <2> QED
    BY <1>1, <1>3, <1>11, <2>1, TypesStay, Zenon
<1> QED
  BY <1>5, <1>10, <1>12, Zenon DEF ClientInv

\* A step in which one thread moves on and nothing is posted, started or stopped.
LEMMA OneThreadMoves ==
    ASSUME ClientInv, Running, NEW t \in Threads, NEW p \in Waits \cup Starts \cup Closes,
           pc' = [pc EXCEPT ![t] = p],
           UNCHANGED <<connectorVars, connected_, loopPc, failed>>,
           \A op \in {"startInLoop", "stopInLoop", "resetChannel"} :
              Count(pending', Functor(op)) = Count(pending, Functor(op)),
           pc[t][1] \notin {"start", "stop", "startInLoop", "stopInLoop"},
           pending' \in Seq(Functors), ClientType', held' \in BOOLEAN
    PROVE /\ Types' /\ Attempt' /\ StopSeen' /\ Tries'
          /\ pc'[t] = p /\ \A u \in Threads : u # t => pc'[u] = pc[u]
<1>1. Types /\ ThreadType /\ ConnectorType
  BY Zenon DEF ClientInv, Types
<1>2. /\ ThreadType' /\ pc'[t] = p /\ (\A u \in Threads : u # t => pc'[u] = pc[u])
      /\ \A ops : (pc[t][1] \in ops => p[1] \in ops) => (InCall(ops) => InCall(ops)')
  BY <1>1, ThreadMoves, Zenon
<1>3. /\ InCall({"stop", "stopInLoop"}) => InCall({"stop", "stopInLoop"})'
      /\ InCall({"startInLoop"}) => InCall({"startInLoop"})'
  <2>1. pc[t][1] \notin {"stop", "stopInLoop"} /\ pc[t][1] \notin {"startInLoop"}
    OBVIOUS
  <2> QED
    BY <1>2, <2>1, Zenon
<1>4. connected_' = connected_ /\ loopPc' = loopPc
  BY Zenon
<1>5. connected_' <=> connected_
  BY <1>4
<1>6. /\ loopPc' = "connect" <=> loopPc = "connect"
      /\ loopPc' = "restart" => loopPc = "restart" \/ state_ = "kConnected"
      /\ loopPc' # "startInLoop" => loopPc # "startInLoop"
  BY <1>4, Zenon
<1>7. /\ Count(pending', Functor("startInLoop")) = Count(pending, Functor("startInLoop"))
      /\ Count(pending', Functor("stopInLoop")) = Count(pending, Functor("stopInLoop"))
      /\ Count(pending', Functor("resetChannel")) = Count(pending, Functor("resetChannel"))
  OBVIOUS
<1>8. Attempt' /\ StopSeen' /\ Tries'
  BY <1>3, <1>5, <1>6, <1>7, AttemptStays, Zenon
<1>9. /\ connected_' \in BOOLEAN
      /\ loopPc' \in {"idle", "startInLoop", "connect", "restart", "remove"}
  BY <1>1, <1>4, Zenon DEF ConnectorType
<1>10. Types'
  BY <1>1, <1>2, <1>9, TypesStay, Zenon
<1> QED
  BY <1>2, <1>8, <1>10

\* TcpClient::connect or stop begins in another thread.
LEMMA CallKeeps ==
    ASSUME ClientInv, Running, NEW t \in Threads, NEW op \in {"start", "stop"}, Call(t, op)
    PROVE ClientInv'
<1>1. Types /\ ConnectorType /\ ClientType /\ MayCall
  BY Zenon DEF ClientInv, Types, Call
<1>2. client = "alive" /\ calls' \in 0..MaxCalls
  BY <1>1, MayCallFacts, Zenon
<1>3. PICK p : p = <<op, "idle">>
  OBVIOUS
<1>4. /\ connect_' = (op = "start") /\ pc[t] = <<"idle">> /\ pc' = [pc EXCEPT ![t] = p]
      /\ UNCHANGED <<connectorVars, connected_, loopPc, failed>>
      /\ held' = held /\ pending' = pending /\ retry_' = retry_ /\ connID_' = connID_
      /\ connection_' = connection_ /\ conns' = conns /\ client' = client
  BY <1>3, Zenon DEF Call
<1>5. /\ p \in Waits \cup Starts \cup Closes /\ p \in UserCalls
      /\ pc[t][1] \notin {"start", "stop", "startInLoop", "stopInLoop"}
  BY <1>3, <1>4 DEF Starts, UserCalls
<1>6. ClientType' /\ held' \in BOOLEAN /\ pending' \in Seq(Functors)
  <2>1. connect_' \in BOOLEAN
    BY <1>4
  <2>2. ClientType'
    BY <1>1, <1>2, <1>4, <2>1, Zenon DEF ClientType
  <2> QED
    BY <1>1, <1>4, <2>2, Zenon DEF Types, ConnectorType
<1>7. \A f : Count(pending', f) = Count(pending, f)
  BY <1>4, Zenon
<1>8. /\ Types' /\ Attempt' /\ StopSeen' /\ Tries'
      /\ pc'[t] = p /\ \A u \in Threads : u # t => pc'[u] = pc[u]
  BY <1>4, <1>5, <1>6, <1>7, OneThreadMoves, Zenon
<1> QED
  BY <1>4, <1>5, <1>7, <1>8, ThreadStepKeeps, Zenon

\* TcpClient::disconnect begins in another thread.
LEMMA DisconnectKeeps ==
    ASSUME ClientInv, Running, NEW t \in Threads, Disconnect(t)
    PROVE ClientInv'
<1>1. Types /\ ConnectorType /\ ClientType /\ MayCall
  BY Zenon DEF ClientInv, Types, Disconnect
<1>2. client = "alive" /\ calls' \in 0..MaxCalls
  BY <1>1, MayCallFacts, Zenon
<1>3. PICK p : p = <<"disconnect">>
  OBVIOUS
<1>4. /\ connect_' = FALSE /\ pc[t] = <<"idle">> /\ pc' = [pc EXCEPT ![t] = p]
      /\ UNCHANGED <<connectorVars, connected_, loopPc, failed>>
      /\ held' = held /\ pending' = pending /\ retry_' = retry_ /\ connID_' = connID_
      /\ connection_' = connection_ /\ conns' = conns /\ client' = client
  BY <1>3, Zenon DEF Disconnect
<1>5. /\ p \in Waits \cup Starts \cup Closes /\ p \in UserCalls
      /\ pc[t][1] \notin {"start", "stop", "startInLoop", "stopInLoop"}
  BY <1>3, <1>4 DEF Waits, UserCalls
<1>6. ClientType' /\ held' \in BOOLEAN /\ pending' \in Seq(Functors)
  <2>1. connect_' \in BOOLEAN
    BY <1>4
  <2>2. ClientType'
    BY <1>1, <1>2, <1>4, <2>1, Zenon DEF ClientType
  <2> QED
    BY <1>1, <1>4, <2>2, Zenon DEF Types, ConnectorType
<1>7. \A f : Count(pending', f) = Count(pending, f)
  BY <1>4, Zenon
<1>8. /\ Types' /\ Attempt' /\ StopSeen' /\ Tries'
      /\ pc'[t] = p /\ \A u \in Threads : u # t => pc'[u] = pc[u]
  BY <1>4, <1>5, <1>6, <1>7, OneThreadMoves, Zenon
<1> QED
  BY <1>4, <1>5, <1>7, <1>8, ThreadStepKeeps, Zenon

\* ~TcpClient begins in another thread.
LEMMA DestroyKeeps ==
    ASSUME ClientInv, Running, NEW t \in Threads, Destroy(t)
    PROVE ClientInv'
<1>1. Types /\ ConnectorType /\ ClientType /\ MayCall
  BY Zenon DEF ClientInv, Types, Destroy
<1>2. client = "alive" /\ calls' \in 0..MaxCalls
  BY <1>1, MayCallFacts, Zenon
<1>3. PICK p : /\ \E at \in {"setClose", "setCloseUnique"} :
                     p = IF connection_ = 0 THEN <<"stop", "release">> ELSE <<at, connection_>>
               /\ pc' = [pc EXCEPT ![t] = p]
  BY Zenon DEF Destroy
<1>4. /\ client' = "dying" /\ pc[t] = <<"idle">> /\ pc' = [pc EXCEPT ![t] = p]
      /\ UNCHANGED <<connectorVars, connected_, loopPc, failed>>
      /\ held' = held /\ pending' = pending /\ connect_' = connect_ /\ retry_' = retry_
      /\ connID_' = connID_ /\ connection_' = connection_ /\ conns' = conns
  BY <1>3, Zenon DEF Destroy
<1>5. /\ p \in Waits \cup Starts \cup Closes /\ client' # "alive"
      /\ pc[t][1] \notin {"start", "stop", "startInLoop", "stopInLoop"}
  <2>1. connection_ = 0 \/ connection_ \in Conns
    BY <1>1, ClientBounds DEF ClientType, Conns
  <2> QED
    BY <1>3, <1>4, <2>1 DEF Starts, Closes, Destructs
<1>6. ClientType' /\ held' \in BOOLEAN /\ pending' \in Seq(Functors)
  <2>1. client' \in {"alive", "dying", "gone"}
    BY <1>4
  <2>2. ClientType'
    BY <1>1, <1>2, <1>4, <2>1, Zenon DEF ClientType
  <2> QED
    BY <1>1, <1>4, <2>2, Zenon DEF Types, ConnectorType
<1>7. \A f : Count(pending', f) = Count(pending, f)
  BY <1>4, Zenon
<1>8. Types' /\ Attempt' /\ StopSeen' /\ Tries'
  BY <1>4, <1>5, <1>6, <1>7, OneThreadMoves, Zenon
<1> QED
  BY <1>4, <1>5, <1>7, <1>8, ThreadStepKeeps, Zenon

\* In the destructor there is no client that is alive.
LEMMA Destructing ==
    ASSUME ClientInv, Running, NEW t \in Threads,
           pc[t][1] \in Destructs
    PROVE client # "alive"
<1>1. ThreadType /\ NotClosing
  BY Zenon DEF ClientInv, Types, Closing
<1>2. pc[t] \notin UserCalls
  BY <1>1, ThreadAt, Zenon
<1> QED
  BY <1>1, <1>2, Zenon DEF NotClosing

\* A thread that moves on in disconnect or in the destructor, and may post what the
\* destructor has for the connection.
LEMMA ThreadPosts ==
    ASSUME ClientInv, Running, NEW t \in Threads, NEW p \in Waits \cup Starts \cup Closes,
           pc' = [pc EXCEPT ![t] = p],
           pc[t][1] \notin {"start", "stop", "startInLoop", "stopInLoop"},
           UNCHANGED <<connectorVars, connected_, held, loopPc, failed, clientVars, calls>>,
           NEW g,
           \/ pending' = pending
           \/ /\ g \in Functors /\ g.op \in {"setCloseCallback", "forceCloseInLoop"}
              /\ pending' = Append(pending, g),
           client = "alive" => p \in UserCalls /\ pending' = pending
    PROVE ClientInv'
<1>1. Types /\ ConnectorType /\ pending \in Seq(Functors)
  BY Zenon DEF ClientInv, Types
<1>2. /\ UNCHANGED <<connectorVars, connected_, loopPc, failed>> /\ held' = held
      /\ UNCHANGED <<clientVars, calls>> /\ client' = client /\ connID_' = connID_
      /\ connection_' = connection_ /\ conns' = conns
  BY Zenon DEF clientVars
<1>3. /\ pending' \in Seq(Functors)
      /\ \A op \in {"startInLoop", "stopInLoop", "resetChannel"} :
            Count(pending', Functor(op)) = Count(pending, Functor(op))
      /\ \A d \in Conns : Count(pending', Destroyed(d)) = Count(pending, Destroyed(d))
  <2>1. CASE pending' = pending
    BY <1>1, <2>1, Zenon
  <2>2. CASE /\ g \in Functors /\ g.op \in {"setCloseCallback", "forceCloseInLoop"}
             /\ pending' = Append(pending, g)
    <3>1. /\ pending' \in Seq(Functors)
          /\ \A f : Count(pending', f) = IF g = f THEN Count(pending, f) + 1 ELSE Count(pending, f)
      BY <1>1, <2>2, Post, ZenonT(60)
    <3>2. /\ \A op \in {"startInLoop", "stopInLoop", "resetChannel"} : g # Functor(op)
          /\ \A d \in Conns : g # Destroyed(d)
      BY <2>2, FunctorsDiffer
    <3> QED
      BY <3>1, <3>2, Zenon
  <2> QED
    BY <2>1, <2>2
<1>4. ClientType' /\ held' \in BOOLEAN
  BY <1>1, <1>2, ClientTypeStays, Zenon DEF ConnectorType
<1>5. /\ Types' /\ Attempt' /\ StopSeen' /\ Tries'
      /\ pc'[t] = p /\ \A u \in Threads : u # t => pc'[u] = pc[u]
  BY <1>2, <1>3, <1>4, OneThreadMoves, Zenon
<1>6. client' = "alive" => /\ \A u \in Threads : pc'[u] = pc[u] \/ pc'[u] \in UserCalls
                           /\ \A c \in Conns : Count(pending', SetClose(c)) = Count(pending, SetClose(c))
  BY <1>2, <1>5, Zenon
<1> QED
  BY <1>2, <1>3, <1>5, <1>6, ThreadStepKeeps, Zenon

\* TcpClient::disconnect in another thread, up to the test of state_ in shutdown.
LEMMA ShutdownTestsKeeps ==
    ASSUME ClientInv, Running, NEW t \in Threads, ShutdownTests(t)
    PROVE ClientInv'
<1>1. ClientType
  BY Zenon DEF ClientInv, Types
<1>2. PICK p : p = IF connection_ # 0 /\ conns[connection_].state = "kConnected"
                   THEN <<"shutdown", connection_>> ELSE <<"idle">>
  OBVIOUS
<1>3. /\ pc[t] = <<"disconnect">> /\ pc' = [pc EXCEPT ![t] = p] /\ pending' = pending
      /\ UNCHANGED <<connectorVars, connected_, held, loopPc, failed, clientVars, calls>>
  BY <1>2, Zenon DEF ShutdownTests
<1>4. connection_ # 0 => connection_ \in Conns
  BY <1>1, ClientBounds DEF ClientType, Conns
<1>5. p = <<"idle">> \/ \E c \in Conns : p = <<"shutdown", c>>
  BY <1>2, <1>4, Zenon
<1>6. /\ p \in Waits \cup Starts \cup Closes /\ p \in UserCalls
      /\ pc[t][1] \notin {"start", "stop", "startInLoop", "stopInLoop"}
  BY <1>3, <1>5 DEF Waits, Closes, UserCalls
<1>7. PICK g : g = Functor("stopInLoop")
  OBVIOUS
<1> QED
  BY <1>3, <1>6, <1>7, ThreadPosts, Zenon

\* setState(kDisconnecting) of shutdown or forceClose, whatever the loop thread has made
\* of the connection since the test.
LEMMA SetStateKeeps ==
    ASSUME ClientInv, Running, NEW t \in Threads, SetState(t)
    PROVE ClientInv'
<1>1. Types /\ ConnectorType /\ ClientType /\ ThreadType /\ pending \in Seq(Functors)
  BY Zenon DEF ClientInv, Types
<1>2. PICK c : c = pc[t][2]
  OBVIOUS
<1>3. PICK r : r = [conns[c] EXCEPT !.state = "kDisconnecting"]
  OBVIOUS
<1>4. PICK p : p = IF pc[t][1] = "shutdown" THEN <<"idle">> ELSE <<"postForceClose", c>>
  OBVIOUS
<1>5. /\ pc[t][1] \in {"shutdown", "setState"}
      /\ UNCHANGED <<connectorVars, connected_, loopPc, failed>> /\ held' = held
      /\ pending' = pending /\ connect_' = connect_ /\ retry_' = retry_ /\ connID_' = connID_
      /\ connection_' = connection_ /\ client' = client /\ calls' = calls
  BY Zenon DEF SetState
<1>6. conns' = [conns EXCEPT ![c].state = "kDisconnecting"] /\ pc' = [pc EXCEPT ![t] = p]
  BY <1>2, <1>4, Zenon DEF SetState
<1>7. /\ pc[t][1] \in {"setClose", "setCloseUnique", "forceClose", "setState",
                       "postForceClose", "shutdown"}
      /\ pc[t][1] \notin {"start", "stop", "startInLoop", "stopInLoop"}
      /\ pc[t][1] # "shutdown" => pc[t][1] \in Destructs
  BY <1>5 DEF Destructs
<1>8. c \in Conns
  BY <1>1, <1>2, <1>7, ThreadAt, Zenon
<1>9. client = "alive" => pc[t][1] = "shutdown"
  BY <1>7, Destructing, Zenon
<1>10. p \in Waits \cup Starts \cup Closes /\ (client = "alive" => p \in UserCalls)
  BY <1>4, <1>8, <1>9 DEF Waits, Closes, Destructs, UserCalls
<1>11. conns' = [conns EXCEPT ![c] = r] /\ conns[c] \in ConnRecord
  BY <1>1, <1>3, <1>6, <1>8 DEF ClientType
<1>12. r \in ConnRecord /\ r.phase = conns[c].phase /\ r.closeCallback = conns[c].closeCallback
  <2>1. "kDisconnecting" \in {"kConnecting", "kDisconnected"} \cup Open /\ "none" \in Phases
    BY DEF Open, Phases
  <2> QED
    BY <1>3, <1>11, <2>1 DEF ConnRecord
<1>13. /\ conns' \in [Conns -> ConnRecord]
       /\ \A d \in Conns : /\ conns'[d].phase = conns[d].phase
                           /\ conns'[d].closeCallback = conns[d].closeCallback
  <2>1. /\ conns' \in [Conns -> ConnRecord] /\ conns'[c] = r
        /\ \A d \in Conns : d # c => conns'[d] = conns[d]
    BY <1>1, <1>8, <1>11, <1>12, Zenon DEF ClientType
  <2> QED
    BY <1>12, <2>1, Zenon
<1>14. ClientType' /\ held' \in BOOLEAN /\ pending' \in Seq(Functors)
  BY <1>1, <1>5, <1>13, Zenon DEF ClientType, ConnectorType
<1>15. \A f : Count(pending', f) = Count(pending, f)
  BY <1>5, Zenon
<1>16. /\ Types' /\ Attempt' /\ StopSeen' /\ Tries'
       /\ pc'[t] = p /\ \A u \in Threads : u # t => pc'[u] = pc[u]
  BY <1>5, <1>6, <1>7, <1>10, <1>14, <1>15, OneThreadMoves, Zenon
<1>17. state_' = state_ /\ loopPc' = loopPc
  BY <1>5, Zenon DEF connectorVars
<1>18. client' = "alive" => \A u \in Threads : pc'[u] = pc[u] \/ pc'[u] \in UserCalls
  BY <1>5, <1>10, <1>16, Zenon
<1>19. OneOpen' /\ Closing'
  BY <1>5, <1>13, <1>15, <1>17, <1>18, PhasesStay, Zenon
<1> QED
  BY <1>16, <1>19, Zenon DEF ClientInv

\* ~TcpClient posts the new close callback of the connection it has seen.
LEMMA DestroySetsCallbackKeeps ==
    ASSUME ClientInv, Running, NEW t \in Threads, DestroySetsCallback(t)
    PROVE ClientInv'
<1>1. ThreadType
  BY Zenon DEF ClientInv, Types
<1>2. PICK c : c = pc[t][2]
  OBVIOUS
<1>3. PICK p : p = <<IF pc[t][1] = "setCloseUnique" THEN "forceClose" ELSE "release", c>>
  OBVIOUS
<1>4. PICK g : g = SetClose(c)
  OBVIOUS
<1>5. /\ pc[t][1] \in {"setClose", "setCloseUnique"} /\ pending' = Append(pending, g)
      /\ pc' = [pc EXCEPT ![t] = p]
      /\ UNCHANGED <<connectorVars, connected_, held, loopPc, failed, clientVars, calls>>
  BY <1>2, <1>3, <1>4, Zenon DEF DestroySetsCallback, SetClose
<1>6. /\ pc[t][1] \in {"setClose", "setCloseUnique", "forceClose", "setState",
                       "postForceClose", "shutdown"}
      /\ pc[t][1] \notin {"start", "stop", "startInLoop", "stopInLoop"}
      /\ pc[t][1] \in Destructs
  BY <1>5 DEF Destructs
<1>7. c \in Conns /\ client # "alive"
  BY <1>1, <1>2, <1>6, ThreadAt, Destructing, Zenon
<1>8. p \in Waits \cup Starts \cup Closes
  BY <1>3, <1>7 DEF Closes, Destructs
<1>9. g \in Functors /\ g.op = "setCloseCallback"
  BY <1>4, <1>7, FunctorTypes, FunctorsDiffer, Zenon
<1>10. g.op \in {"setCloseCallback", "forceCloseInLoop"}
  BY <1>9
<1> QED
  BY <1>5, <1>6, <1>7, <1>8, <1>9, <1>10, ThreadPosts, Zenon

\* ~TcpClient closes a connection that only it holds: the test of state_.
LEMMA ForceCloseTestsKeeps ==
    ASSUME ClientInv, Running, NEW t \in Threads, ForceCloseTests(t)
    PROVE ClientInv'
<1>1. ThreadType
  BY Zenon DEF ClientInv, Types
<1>2. PICK c : c = pc[t][2]
  OBVIOUS
<1>3. PICK p : p = <<IF conns[c].state \in Open THEN "setState" ELSE "release", c>>
  OBVIOUS
<1>4. PICK g : g = SetClose(c)
  OBVIOUS
<1>5. /\ pc[t][1] = "forceClose" /\ pending' = pending /\ pc' = [pc EXCEPT ![t] = p]
      /\ UNCHANGED <<connectorVars, connected_, held, loopPc, failed, clientVars, calls>>
  BY <1>2, <1>3, Zenon DEF ForceCloseTests
<1>6. /\ pc[t][1] \in {"setClose", "setCloseUnique", "forceClose", "setState",
                       "postForceClose", "shutdown"}
      /\ pc[t][1] \notin {"start", "stop", "startInLoop", "stopInLoop"}
      /\ pc[t][1] \in Destructs
  BY <1>5 DEF Destructs
<1>7. c \in Conns /\ client # "alive"
  BY <1>1, <1>2, <1>6, ThreadAt, Destructing, Zenon
<1>8. p \in Waits \cup Starts \cup Closes
  BY <1>3, <1>7 DEF Closes, Destructs
<1> QED
  BY <1>4, <1>5, <1>6, <1>7, <1>8, ThreadPosts, Zenon

\* ~TcpClient closes a connection that only it holds: forceCloseInLoop is posted.
LEMMA ForceClosePostsKeeps ==
    ASSUME ClientInv, Running, NEW t \in Threads, ForceClosePosts(t)
    PROVE ClientInv'
<1>1. ThreadType
  BY Zenon DEF ClientInv, Types
<1>2. PICK c : c = pc[t][2]
  OBVIOUS
<1>3. PICK p : p = <<"release", c>>
  OBVIOUS
<1>4. PICK g : g = [op |-> "forceCloseInLoop", conn |-> c]
  OBVIOUS
<1>5. /\ pc[t][1] = "postForceClose" /\ pending' = Append(pending, g)
      /\ pc' = [pc EXCEPT ![t] = p]
      /\ UNCHANGED <<connectorVars, connected_, held, loopPc, failed, clientVars, calls>>
  BY <1>2, <1>3, <1>4, Zenon DEF ForceClosePosts
<1>6. /\ pc[t][1] \in {"setClose", "setCloseUnique", "forceClose", "setState",
                       "postForceClose", "shutdown"}
      /\ pc[t][1] \notin {"start", "stop", "startInLoop", "stopInLoop"}
      /\ pc[t][1] \in Destructs
  BY <1>5 DEF Destructs
<1>7. c \in Conns /\ client # "alive"
  BY <1>1, <1>2, <1>6, ThreadAt, Destructing, Zenon
<1>8. p \in Waits \cup Starts \cup Closes
  BY <1>3, <1>7 DEF Closes, Destructs
<1>9. g \in Functors /\ g.op = "forceCloseInLoop"
  BY <1>4, <1>7, FunctorTypes, FunctorsDiffer, Zenon
<1>10. g.op \in {"setCloseCallback", "forceCloseInLoop"}
  BY <1>9
<1> QED
  BY <1>5, <1>6, <1>7, <1>8, <1>9, <1>10, ThreadPosts, Zenon

\* The client's members are destroyed.
LEMMA ReleaseKeeps ==
    ASSUME ClientInv, Running, NEW t \in Threads, Release(t)
    PROVE ClientInv'
<1>1. CASE Fail("~Channel") /\ UNCHANGED <<clientVars, calls>>
  BY <1>1, FailKeeps
<1>2. CASE ~(Fail("~Channel") /\ UNCHANGED <<clientVars, calls>>)
  <2>1. Types /\ ConnectorType /\ ClientType
    BY Zenon DEF ClientInv, Types
  <2>2. PICK p : p = <<"idle">>
    OBVIOUS
  <2>3. /\ pc[t][1] = "release" /\ held' = FALSE /\ client' = "gone" /\ pc' = [pc EXCEPT ![t] = p]
        /\ UNCHANGED <<connectorVars, connected_, loopPc, failed>>
        /\ pending' = pending /\ connect_' = connect_ /\ retry_' = retry_ /\ connID_' = connID_
        /\ connection_' = connection_ /\ conns' = conns /\ calls' = calls
    BY <1>2, <2>2, Zenon DEF Release
  <2>4. /\ p \in Waits \cup Starts \cup Closes /\ client' # "alive"
        /\ pc[t][1] \notin {"start", "stop", "startInLoop", "stopInLoop"}
        /\ held' \in BOOLEAN /\ client' \in {"alive", "dying", "gone"}
    BY <2>2, <2>3 DEF Waits
  <2>5. ClientType' /\ pending' \in Seq(Functors)
    BY <2>1, <2>3, <2>4, Zenon DEF Types, ClientType
  <2>6. \A f : Count(pending', f) = Count(pending, f)
    BY <2>3, Zenon
  <2>7. Types' /\ Attempt' /\ StopSeen' /\ Tries'
    BY <2>3, <2>4, <2>5, <2>6, OneThreadMoves, Zenon
  <2> QED
    BY <2>3, <2>4, <2>6, <2>7, ThreadStepKeeps, Zenon
<1> QED
  BY <1>1, <1>2

\* ~TcpClient in the loop thread.
LEMMA LoopDestroyKeeps ==
    ASSUME ClientInv, Running, LoopDestroy
    PROVE ClientInv'
<1>1. Types /\ ConnectorType /\ ClientType /\ MayCall /\ pending \in Seq(Functors)
  BY Zenon DEF ClientInv, Types, LoopDestroy
<1>2. client = "alive" /\ calls' \in 0..MaxCalls
  BY <1>1, MayCallFacts, Zenon
<1>3. /\ loopPc = "idle" /\ client' = "gone" /\ held' = FALSE /\ loopPc' = loopPc /\ pc' = pc
      /\ failed' = failed /\ connect_' = connect_ /\ retry_' = retry_ /\ connID_' = connID_
      /\ connection_' = connection_
  BY Zenon DEF LoopDestroy, LoopIdle
<1>4. /\ client' # "alive" /\ client' \in {"alive", "dying", "gone"} /\ held' \in BOOLEAN
      /\ loopPc' # "restart"
  BY <1>3
<1>5. CASE connection_ # 0
  <2>1. PICK unique \in BOOLEAN :
           /\ conns' = [conns EXCEPT ![connection_] =
                 [state |-> IF unique THEN "kDisconnected" ELSE @.state,
                  phase |-> IF unique THEN "closed" ELSE @.phase, closeCallback |-> "loop"]]
           /\ pending' = IF unique
                 THEN Append(pending, [op |-> "connectionDestroyed", conn |-> connection_])
                 ELSE pending
           /\ UNCHANGED <<connected_, connectorVars>>
    BY <1>5, Zenon DEF LoopDestroy
  <2>2. PICK c \in Conns : c = connection_
    BY <1>1, <1>5, ClientBounds DEF ClientType, Conns
  <2>3. PICK r : r = [state |-> IF unique THEN "kDisconnected" ELSE conns[c].state,
                      phase |-> IF unique THEN "closed" ELSE conns[c].phase,
                      closeCallback |-> "loop"]
    OBVIOUS
  <2>4. PICK g : g = Destroyed(c)
    OBVIOUS
  <2>5. /\ conns' = [conns EXCEPT ![c] = r]
        /\ pending' = IF unique THEN Append(pending, g) ELSE pending
        /\ UNCHANGED <<connectorVars, connected_>>
    BY <2>1, <2>2, <2>3, <2>4, Zenon DEF Destroyed
  <2>6. OneOpen /\ DestroyedOnce /\ Fresh /\ OwnOpen /\ OwnCallback
    BY Zenon DEF ClientInv, Closing
  <2>7. conns[c].phase \in Live /\ conns[c] \in ConnRecord
    BY <1>1, <1>2, <2>2, <2>6, Zenon DEF OwnOpen, OwnCallback, ClientType
  <2>8. /\ r \in ConnRecord /\ r.closeCallback # "client" /\ (unique => r.phase = "closed")
        /\ ~unique => r.phase = conns[c].phase
    BY <2>3, <2>7 DEF ConnRecord, Phases
  <2>9. g \in Functors /\ g.op = "connectionDestroyed" /\ \A d \in Conns : g = Destroyed(d) => c = d
    BY <2>4, FunctorTypes, FunctorsDiffer, Zenon
  <2>10. /\ Append(pending, g) \in Seq(Functors)
         /\ \A f : Count(pending, f) \in Nat
         /\ \A f : Count(Append(pending, g), f) = IF g = f THEN Count(pending, f) + 1 ELSE Count(pending, f)
    BY <1>1, <2>9, Post, Zenon
  <2>11. /\ pending' \in Seq(Functors)
         /\ \A f : g # f => Count(pending', f) = Count(pending, f)
    BY <1>1, <2>5, <2>10, Zenon
  <2>12. /\ \A op \in {"startInLoop", "stopInLoop", "resetChannel"} :
               Count(pending', Functor(op)) = Count(pending, Functor(op))
         /\ \A d \in Conns : d # c => Count(pending', Destroyed(d)) = Count(pending, Destroyed(d))
    <3>1. /\ \A op \in {"startInLoop", "stopInLoop", "resetChannel"} : g # Functor(op)
          /\ \A d \in Conns : d # c => g # Destroyed(d)
      BY <2>9, FunctorsDiffer
    <3> QED
      BY <2>11, <3>1, Zenon
  <2>13. Count(pending', Destroyed(c)) = One(r.phase = "closed")
    <3>1. Count(pending, Destroyed(c)) = One(conns[c].phase = "closed")
      BY <2>6, Zenon DEF DestroyedOnce
    <3>2. conns[c].phase # "closed"
      BY <2>7 DEF Live
    <3>3. Count(pending, g) = 0
      BY <2>4, <3>1, <3>2 DEF One
    <3>4. CASE unique
      <4>1. pending' = Append(pending, g)
        BY <2>5, <3>4, Zenon
      <4>2. Count(pending', g) = Count(pending, g) + 1
        BY <2>10, <4>1, Zenon
      <4> QED
        BY <2>4, <2>8, <3>3, <3>4, <4>2 DEF One
    <3>5. CASE ~unique
      <4>1. pending' = pending
        BY <2>5, <3>5, Zenon
      <4> QED
        BY <2>4, <2>8, <3>2, <3>3, <3>5, <4>1 DEF One
    <3> QED
      BY <3>4, <3>5
  <2>14. \A d \in Conns : d >= connID_' => d >= connID_ /\ d # c
    <3>1. conns[c].phase # "none"
      BY <2>7 DEF Live
    <3> QED
      BY <1>3, <2>6, <3>1, Zenon DEF Fresh
  <2>15. state_' = state_
    BY <2>5, Zenon DEF connectorVars
  <2>16. \A d \in Conns : conns[d].phase \in Live
            => connection_' = d /\ state_' = "kConnected" /\ loopPc' # "restart"
    BY <1>3, <2>6, <2>15, Zenon DEF OneOpen
  <2>17. conns' \in [Conns -> ConnRecord] /\ OneOpen' /\ Closing'
    BY <1>4, <2>5, <2>7, <2>8, <2>12, <2>13, <2>14, <2>16, OneConnChanges, Zenon
  <2>18. Attempt' /\ StopSeen' /\ Tries'
    BY <1>3, <2>5, <2>12, AttemptUntouched, Zenon
  <2>19. ClientType'
    BY <1>1, <1>2, <1>3, <1>4, <2>17, Zenon DEF ClientType
  <2>20. Types'
    <3>1. connected_' = connected_ /\ UNCHANGED <<connectorVars, failed>>
      BY <1>3, <2>5, Zenon
    <3>2. /\ ThreadType' /\ connected_' \in BOOLEAN
          /\ loopPc' \in {"idle", "startInLoop", "connect", "restart", "remove"}
      BY <1>1, <1>3, <3>1, Zenon DEF Types, ThreadType, ConnectorType
    <3> QED
      BY <1>1, <1>4, <2>11, <2>19, <3>1, <3>2, TypesStay, Zenon
  <2> QED
    BY <2>17, <2>18, <2>20, Zenon DEF ClientInv
<1>6. CASE connection_ = 0
  <2>1. /\ connected_' = FALSE /\ stopInLoop(pending, FALSE)
        /\ reported' = reported /\ givenUp' = givenUp /\ conns' = conns
    BY <1>6, Zenon DEF LoopDestroy
  <2>2. ~connected_' /\ connected_' \in BOOLEAN /\ FALSE \in BOOLEAN
    BY <2>1
  <2>3. /\ state_' \in {"kDisconnected", "kConnecting", "kConnected"} /\ sockets' \in Nat
        /\ retryDelayMs_' \in kInitRetryDelayMs..kMaxRetryDelayMs
        /\ timers' \in Nat /\ connectChannel_' \in {"null", "watched", "removed"}
        /\ pending' \in Seq(Functors) /\ Attempt' /\ StopSeen' /\ Tries'
        /\ \A c \in Conns : /\ Count(pending', Destroyed(c)) = Count(pending, Destroyed(c))
                            /\ Count(pending', SetClose(c)) = Count(pending, SetClose(c))
        /\ state_ = "kConnected" => state_' = "kConnected"
    BY <1>1, <1>3, <2>1, <2>2, StopFacts, Zenon
  <2>4. OneOpen' /\ Closing'
    BY <1>3, <1>4, <2>1, <2>3, ConnsStay, Zenon
  <2>5. ConnectorType'
    BY <1>1, <1>3, <1>4, <2>1, <2>2, <2>3, Zenon DEF ConnectorType
  <2>6. ClientType'
    BY <1>1, <1>2, <1>3, <1>4, <2>1, Zenon DEF ClientType
  <2>7. Types'
    BY <1>1, <1>3, <2>3, <2>5, <2>6, Zenon DEF Types, ThreadType
  <2> QED
    BY <2>3, <2>4, <2>7, Zenon DEF ClientInv
<1> QED
  BY <1>5, <1>6

-----------------------------------------------------------------------------
(* The theorems                                                            *)

\* A new client with a new Connector.
LEMMA InitClientInv ==
    ASSUME Init
    PROVE ClientInv
<1>1. /\ state_ = "kDisconnected" /\ connected_ = FALSE /\ retryDelayMs_ = kInitRetryDelayMs
      /\ connectChannel_ = "null" /\ reported = FALSE /\ sockets = 0 /\ givenUp = FALSE
      /\ timers = 0 /\ held = TRUE /\ pending = <<>> /\ loopPc = "idle" /\ failed = "no"
      /\ pc = [t \in Threads |-> <<"idle">>]
  BY DEF Init, ConnectorInit
<1>2. /\ connect_ = TRUE /\ retry_ = FALSE /\ connID_ = 1 /\ connection_ = 0
      /\ conns = [c \in Conns |-> [state |-> "kConnecting", phase |-> "none",
                                   closeCallback |-> "client"]]
      /\ client = "alive" /\ calls = 0
  BY DEF Init
<1>3. \A f : Count(pending, f) = 0
  <2>1. \A f : Places(pending, f) = {}
    BY <1>1 DEF Places
  <2> QED
    BY <2>1, FS_EmptySet DEF Count
<1>4. ConnectorType
  <2>1. connected_ \in BOOLEAN /\ reported \in BOOLEAN /\ givenUp \in BOOLEAN /\ held \in BOOLEAN
    BY <1>1, Zenon
  <2>2. /\ state_ \in {"kDisconnected", "kConnecting", "kConnected"}
        /\ connectChannel_ \in {"null", "watched", "removed"}
        /\ sockets \in Nat /\ timers \in Nat
        /\ loopPc \in {"idle", "startInLoop", "connect", "restart", "remove"}
        /\ retryDelayMs_ \in kInitRetryDelayMs..kMaxRetryDelayMs
    BY <1>1, DelayAssumption
  <2> QED
    BY <2>1, <2>2, Zenon DEF ConnectorType
<1>5. ClientType
  <2>1. connect_ \in BOOLEAN /\ retry_ \in BOOLEAN
    BY <1>2, Zenon
  <2>2. /\ calls \in 0..MaxCalls /\ connID_ \in 1..MaxConns + 1 /\ connection_ \in 0..connID_ - 1
        /\ client \in {"alive", "dying", "gone"}
    BY <1>2, ClientBounds
  <2>3. conns \in [Conns -> ConnRecord]
    BY <1>2 DEF ConnRecord, Phases
  <2> QED
    BY <2>1, <2>2, <2>3, Zenon DEF ClientType
<1>6. \A t \in Threads : pc[t] = <<"idle">>
  BY <1>1
<1>7. ThreadType
  BY <1>1 DEF ThreadType, Waits
<1>8. Types
  BY <1>1, <1>4, <1>5, <1>7 DEF Types
<1>9. Attempt /\ StopSeen /\ Tries
  BY <1>1, <1>3 DEF Attempt, StopSeen, Tries, One
<1>10. \A c \in Conns : conns[c].phase = "none" /\ conns[c].closeCallback = "client"
  BY <1>2
<1>11. OneOpen
  BY <1>10 DEF OneOpen, Live
<1>12. DestroyedOnce /\ Fresh /\ OwnOpen /\ OwnCallback
  BY <1>2, <1>3, <1>10 DEF DestroyedOnce, Fresh, OwnOpen, OwnCallback, One, Conns
<1>13. NotClosing
  BY <1>6 DEF NotClosing, UserCalls
<1> QED
  BY <1>8, <1>9, <1>11, <1>12, <1>13 DEF ClientInv, Closing

\* Every step keeps the inductive invariant: the Connector's steps, the connections'
\* and the user's calls, in whichever thread.
LEMMA ClientInvKept ==
    ASSUME ClientInv, [Next]_vars
    PROVE ClientInv'
<1>1. CASE UNCHANGED vars
  <2>1. /\ state_' = state_ /\ retryDelayMs_' = retryDelayMs_ /\ connectChannel_' = connectChannel_
        /\ reported' = reported /\ sockets' = sockets /\ givenUp' = givenUp /\ timers' = timers
        /\ connected_' = connected_ /\ held' = held /\ pending' = pending /\ loopPc' = loopPc
        /\ pc' = pc /\ failed' = failed /\ connect_' = connect_ /\ retry_' = retry_
        /\ connID_' = connID_ /\ connection_' = connection_ /\ conns' = conns /\ client' = client
        /\ calls' = calls
    BY <1>1, Zenon DEF vars, connectorVars, clientVars
  <2>2. Types'
    <3>1. Types /\ ConnectorType /\ ClientType /\ ThreadType
      BY Zenon DEF ClientInv, Types
    <3>2. ConnectorType'
      BY <2>1, <3>1, Zenon DEF ConnectorType
    <3>3. ClientType'
      BY <2>1, <3>1, Zenon DEF ClientType
    <3>4. ThreadType'
      BY <2>1, <3>1, Zenon DEF ThreadType
    <3> QED
      BY <2>1, <3>1, <3>2, <3>3, <3>4, Zenon DEF Types
  <2>3. ~Running => ~Running'
    BY <2>1, Zenon DEF Running
  <2>4. CASE Running
    <3>1. UNCHANGED <<connectorVars, connected_>> /\ UNCHANGED <<connectorVars, loopPc, failed>>
      BY <2>1, Zenon DEF connectorVars
    <3>2. \A f : Count(pending', f) = Count(pending, f)
      BY <2>1, Zenon
    <3>3. Attempt' /\ StopSeen' /\ Tries'
      BY <2>1, <2>4, <3>1, <3>2, AttemptUntouched, Zenon
    <3> QED
      BY <2>1, <2>2, <2>4, <3>1, <3>2, <3>3, ThreadStepKeeps, Zenon
  <2> QED
    BY <2>2, <2>3, <2>4, Zenon DEF ClientInv
<1>2. CASE Next
  <2>1. Running
    BY <1>2, Zenon DEF Next, ConnectorStep, StartInLoop, SocketFails, ConnectProceeds,
       ConnectRefused, ConnectFails, PollReports, HandleFailure, HandleConnected, HandleStale,
       TimerFires, ConnectorFunctor, Due, Restart, Assign, PostCall, LoopIdle, NewConnection,
       NewConnectionDangling, ConnectionFunctor, ConnectionCloses, RemoveConnection,
       LastReference, MayCall, LoopConnect, LoopStop, LoopDisconnect, LoopDestroy, EnableRetry,
       Call, Disconnect, Destroy, ShutdownTests, SetState, DestroySetsCallback,
       ForceCloseTests, ForceClosePosts, Release
  <2>2. CASE ConnectorStep
    BY <2>1, <2>2, ConnectorStepKeeps, Zenon
  <2>3. CASE NewConnection
    BY <2>1, <2>3, NewConnectionKeeps, Zenon
  <2>4. CASE NewConnectionDangling \/ \E c \in Conns : LastReference(c)
    BY <2>1, <2>4, ClientFailsKeeps, Zenon
  <2>5. CASE ConnectionFunctor \/ \E c \in Conns : ConnectionCloses(c) \/ RemoveConnection(c)
    BY <2>1, <2>5, ConnectionFunctorKeeps, ConnectionClosesKeeps, RemoveConnectionKeeps, Zenon
  <2>6. CASE LoopConnect \/ LoopStop \/ LoopDestroy
    BY <2>1, <2>6, LoopConnectKeeps, LoopStopKeeps, LoopDestroyKeeps, Zenon
  <2>7. CASE LoopDisconnect \/ EnableRetry
    BY <2>1, <2>7, LoopDisconnectKeeps, EnableRetryKeeps, Zenon
  <2>8. ASSUME NEW t \in Threads,
               Call(t, "start") \/ Call(t, "stop") \/ Disconnect(t) \/ Destroy(t)
        PROVE ClientInv'
    <3>1. "start" \in {"start", "stop"} /\ "stop" \in {"start", "stop"}
      OBVIOUS
    <3> QED
      BY <2>1, <2>8, <3>1, CallKeeps, DisconnectKeeps, DestroyKeeps, Zenon
  <2>9. ASSUME NEW t \in Threads,
               \/ ShutdownTests(t) \/ SetState(t) \/ DestroySetsCallback(t)
               \/ ForceCloseTests(t) \/ ForceClosePosts(t) \/ Release(t)
        PROVE ClientInv'
    BY <2>1, <2>9, ShutdownTestsKeeps, SetStateKeeps, DestroySetsCallbackKeeps,
       ForceCloseTestsKeeps, ForceClosePostsKeeps, ReleaseKeeps, Zenon
  <2> QED
    BY <1>2, <2>2, <2>3, <2>4, <2>5, <2>6, <2>7, <2>8, <2>9, Zenon DEF Next
<1> QED
  BY <1>1, <1>2, Zenon

\* The Connector and the client, for any threads, delays and bounds: one attempt at a
\* time, stop and retry are heeded, the open connection is the client's own, and every
\* closed connection is destroyed once.
THEOREM ClientIsConsistent == Spec => []ClientInv
<1>1. Init => ClientInv
  BY InitClientInv
<1>2. ClientInv /\ [Next]_vars => ClientInv'
  BY ClientInvKept
<1> QED
  BY <1>1, <1>2, PTL DEF Spec

\* Connector: start, stop, restart, retry and events that come late never make two
\* attempts, leak a socket or destroy another channel than theirs.
THEOREM OneAttemptAtATime == Spec => []OneAttempt
<1>1. ClientInv => OneAttempt
  <2> SUFFICES ASSUME ClientInv
               PROVE OneAttempt
    OBVIOUS
  <2>1. ConnectorType /\ ClientType /\ pending \in Seq(Functors)
    BY Zenon DEF ClientInv, Types
  <2>2. Running /\ (\E c \in Conns : conns[c].phase \in Live) => state_ = "kConnected"
    BY Zenon DEF ClientInv, OneOpen
  <2>3. {connected_, reported, givenUp, held, connect_, retry_} \subseteq BOOLEAN
    BY <2>1, Zenon DEF ConnectorType, ClientType
  <2>4. TypeOK
    BY <2>1, <2>2, <2>3, Zenon DEF TypeOK, ConnectorType, ClientType, ConnRecord
  <2>5. Running => Pending(Functor("resetChannel")) = One(connectChannel_ = "removed")
    BY PendingIs, Zenon DEF ClientInv, Attempt
  <2> QED
    BY <2>4, <2>5, Zenon DEF OneAttempt, ClientInv, Attempt
<1> QED
  BY <1>1, ClientIsConsistent, PTL

\* Connector::stop: once stopInLoop has run nothing is being connected.
THEOREM StopStops == Spec => []StoppedIsIdle
<1>1. ClientInv => StoppedIsIdle
  BY PendingIs, Zenon DEF ClientInv, StopSeen, StoppedIsIdle
<1> QED
  BY <1>1, ClientIsConsistent, PTL

\* Connector::retry and restart: a client that wants a connection always has an attempt
\* under way or scheduled, unless connect(2) failed for good.
THEOREM RetryIsScheduled == Spec => []KeepsTrying
<1>1. ClientInv => KeepsTrying
  BY PendingIs, Zenon DEF ClientInv, Tries, KeepsTrying
<1> QED
  BY <1>1, ClientIsConsistent, PTL

\* TcpClient: the open connection is the client's own, and each close of a connection, by
\* the peer, by the user or by the destructor, is followed by exactly one
\* connectionDestroyed, also the second close that a racing forceClose causes.
THEOREM ClosedIsDestroyedOnce == Spec => []ClosedOnce
<1>1. ClientInv => ClosedOnce
  <2> SUFFICES ASSUME ClientInv, Running, NEW c \in Conns
               PROVE /\ conns[c].phase \in Live /\ client = "alive" => connection_ = c
                     /\ Pending([op |-> "connectionDestroyed", conn |-> c])
                           = One(conns[c].phase = "closed")
    BY Zenon DEF ClosedOnce
  <2>1. OneOpen /\ DestroyedOnce
    BY Zenon DEF ClientInv, Closing
  <2>2. Pending(Destroyed(c)) = One(conns[c].phase = "closed")
    BY <2>1, PendingIs, Zenon DEF DestroyedOnce
  <2> QED
    BY <2>1, <2>2, Zenon DEF OneOpen, Destroyed
<1> QED
  BY <1>1, ClientIsConsistent, PTL
=============================================================================
