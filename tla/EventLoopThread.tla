-------------------------- MODULE EventLoopThread --------------------------
(***************************************************************************)
(* arale/net/EventLoopThread.{h,cc}: an owner starts a thread that runs an *)
(* EventLoop, and stops it from the destructor.  The EventLoop is the one  *)
(* of module EventLoop: its loop thread is the thread of threadFunc, and   *)
(* the owner is one of the threads that call it.                           *)
(*                                                                         *)
(* A condition variable is its waiting flag: testing the predicate and     *)
(* starting to wait is one step (under the mutex), setting the predicate   *)
(* and notifying is another.                                               *)
(***************************************************************************)
EXTENDS EventLoop

CONSTANT Owner       \* the thread that owns the EventLoopThread

ASSUME OwnerAssumption == Owner \in Threads

VARIABLES
    loop_,       \* loop_ # NULL
    start_,
    ownerPc,     \* where the owner is, in its calls of EventLoopThread
    threadPc,    \* where the thread is, in threadFunc
    returned,    \* what startLoop returned is not NULL
    quitSeen     \* ghost: the owner's quitLoop came after loop() had begun

threadVars == <<loop_, start_, ownerPc, threadPc, returned, quitSeen>>
allVars == <<vars, threadVars>>

OwnerPcs == {"created", "test", "wait", "return", "started", "quit", "wakeup", "join",
             "joined", "terminated"}
ThreadPcs == {"test", "wait", "init", "enter", "loop", "exited"}

\* The variables have their types, and loop_ is NULL unless the EventLoop exists
\* and threadFunc is past initCallback_.
ThreadTypeOK ==
    /\ TypeOK
    /\ loop_ \in BOOLEAN
    /\ start_ \in BOOLEAN
    /\ ownerPc \in OwnerPcs
    /\ threadPc \in ThreadPcs
    /\ returned \in BOOLEAN /\ quitSeen \in BOOLEAN
    /\ islooping_ => threadPc = "loop" /\ start_
    /\ loop_ => threadPc \in {"enter", "loop"}

\* The constructor has run: thread_ executes threadFunc.
ThreadInit ==
    /\ Init
    /\ loop_ = FALSE
    /\ start_ = FALSE
    /\ ownerPc = "created"
    /\ threadPc = "test"
    /\ returned = FALSE
    /\ quitSeen = FALSE

-----------------------------------------------------------------------------
(* The owner                                                               *)

\* startLoop, first block: start_ = true and con2_.notify_one, under mutex2_.
StartLoop ==
    /\ ownerPc = "created"
    /\ ownerPc' = "test"
    /\ start_' = TRUE
    /\ threadPc' = IF threadPc = "wait" THEN "test" ELSE threadPc
    /\ UNCHANGED <<vars, loop_, returned, quitSeen>>

\* startLoop, second block: while (loop_ == NULL) con_.wait(lock).
AwaitLoop ==
    /\ ownerPc = "test"
    /\ ownerPc' = IF loop_ THEN "return" ELSE "wait"
    /\ UNCHANGED <<vars, loop_, start_, threadPc, returned, quitSeen>>

\* return loop_, which is read again and without mutex_: the loop may have ended.
ReturnLoop ==
    /\ ownerPc = "return"
    /\ ownerPc' = "started"
    /\ returned' = loop_
    /\ UNCHANGED <<vars, loop_, start_, threadPc, quitSeen>>

\* Mutant of SpuriousWakeup: con_.wait without the loop around it.
WakeupIsBelieved ==
    /\ \/ ownerPc = "wait" /\ ownerPc' = "return" /\ UNCHANGED threadPc
       \/ threadPc = "wait" /\ threadPc' = "test" /\ UNCHANGED ownerPc
    /\ UNCHANGED <<vars, loop_, start_, returned, quitSeen>>

\* A condition variable may wake its waiter without a notification.
SpuriousWakeup ==
    /\ \/ ownerPc = "wait" /\ ownerPc' = "test" /\ UNCHANGED threadPc
       \/ threadPc = "wait" /\ threadPc' = "test" /\ UNCHANGED ownerPc
    /\ UNCHANGED <<vars, loop_, start_, returned, quitSeen>>

\* The destructor reads loop_, without mutex_.  When it is NULL thread_ is
\* destroyed while joinable, which calls std::terminate.
Destroy ==
    /\ ownerPc \in {"created", "started"}
    /\ ownerPc' = IF loop_ THEN "quit" ELSE "terminated"
    /\ UNCHANGED <<vars, loop_, start_, threadPc, returned, quitSeen>>

\* loop_->quitLoop(): quit_ = true.  The loop may have gone since loop_ was read.
DestroyQuit ==
    /\ ownerPc = "quit"
    /\ \/ /\ threadPc # "exited"
          /\ ownerPc' = "wakeup"
          /\ Quit(Owner)
          /\ quitSeen' = islooping_
       \/ /\ threadPc = "exited"
          /\ ownerPc' = "terminated"
          /\ UNCHANGED <<vars, quitSeen>>
    /\ UNCHANGED <<loop_, start_, threadPc, returned>>

\* weakup() of quitLoop; on a loop that has been destroyed it writes to a
\* descriptor that is closed.
DestroyWakeup ==
    /\ ownerPc = "wakeup"
    /\ WeakUp(Owner)
    /\ ownerPc' = "join"
    /\ UNCHANGED <<loop_, start_, threadPc, returned, quitSeen>>

\* thread_.join() returns.
Join ==
    /\ ownerPc = "join"
    /\ threadPc = "exited"
    /\ ownerPc' = "joined"
    /\ UNCHANGED <<vars, loop_, start_, threadPc, returned, quitSeen>>

-----------------------------------------------------------------------------
(* threadFunc                                                              *)

\* while (start_ == false) con2_.wait(lock); then the EventLoop is constructed.
AwaitStart ==
    /\ threadPc = "test"
    /\ threadPc' = IF start_ THEN "init" ELSE "wait"
    /\ UNCHANGED <<vars, loop_, start_, ownerPc, returned, quitSeen>>

\* Mutant of PublishLoop: con_ is not notified.
PublishLoopSilent ==
    /\ threadPc = "init"
    /\ threadPc' = "enter"
    /\ loop_' = TRUE
    /\ UNCHANGED <<vars, start_, ownerPc, returned, quitSeen>>

\* initCallback_ has returned; loop_ = &loop and con_.notify_one, under mutex_.
PublishLoop ==
    /\ threadPc = "init"
    /\ threadPc' = "enter"
    /\ loop_' = TRUE
    /\ ownerPc' = IF ownerPc = "wait" THEN "test" ELSE ownerPc
    /\ UNCHANGED <<vars, start_, returned, quitSeen>>

\* loop.loop() is called.
EnterLoop ==
    /\ threadPc = "enter"
    /\ LoopEnter
    /\ threadPc' = "loop"
    /\ UNCHANGED <<loop_, start_, ownerPc, returned, quitSeen>>

\* loop() has returned: loop_ = NULL, and the EventLoop is destroyed.
ExitThread ==
    /\ threadPc = "loop"
    /\ loopPc = "idle"
    /\ threadPc' = "exited"
    /\ loop_' = FALSE
    /\ UNCHANGED <<vars, start_, ownerPc, returned, quitSeen>>

\* The steps of the EventLoop itself: in loop(), and those of the user code
\* that initCallback_ runs before it.
LoopRuns ==
    /\ threadPc = "loop" /\ loopPc # "idle"
    /\ LoopStep \/ PollEmpty
    /\ UNCHANGED threadVars

UserRuns ==
    /\ threadPc = "init" \/ (threadPc = "loop" /\ loopPc # "idle")
    /\ UserCall
    /\ UNCHANGED threadVars

\* The other threads use the loop while it exists.
OthersRun ==
    /\ threadPc \notin {"test", "wait", "exited"}
    /\ \/ \E t \in Threads \ {Owner} : ThreadStep(t)
       \/ \E c \in IoSources : RaiseIo(c)
    /\ UNCHANGED threadVars

-----------------------------------------------------------------------------
ThreadNext ==
    \/ StartLoop \/ AwaitLoop \/ ReturnLoop \/ SpuriousWakeup
    \/ Destroy \/ DestroyQuit \/ DestroyWakeup \/ Join
    \/ AwaitStart \/ PublishLoop \/ EnterLoop \/ ExitThread
    \/ LoopRuns \/ UserRuns \/ OthersRun

ThreadSpec == ThreadInit /\ [][ThreadNext]_allVars

(***************************************************************************)
(* Both threads are scheduled and weakup() follows every push; whether the *)
(* owner calls startLoop or the destructor is its own choice.              *)
(***************************************************************************)
ThreadFairness ==
    /\ WF_allVars(AwaitLoop \/ ReturnLoop)
    /\ WF_allVars(DestroyQuit)
    /\ WF_allVars(DestroyWakeup)
    /\ WF_allVars(Join)
    /\ WF_allVars(AwaitStart \/ PublishLoop \/ EnterLoop \/ ExitThread
                  \/ (LoopRuns /\ LoopStep))
    /\ \A t \in Threads \ {Owner} : WF_allVars(OthersRun /\ WeakUp(t))

FairThreadSpec == ThreadSpec /\ ThreadFairness

-----------------------------------------------------------------------------
(* Properties                                                              *)

\* What the owner may rely on, whatever wake-ups con_ and con2_ deliver and although
\* startLoop's return and ~EventLoopThread read loop_ without its mutex.  startLoop
\* returns only when initCallback_ has returned and loop_ was published; it returns NULL
\* only if the loop has been run to its end meanwhile; loop_ is not NULL only while the
\* EventLoop exists; and the destructor ends in std::terminate, on a thread_ that is
\* joinable, only if startLoop was never called or the loop had been stopped by somebody
\* else: it never abandons a thread that is still running.
OwnerSeesThread ==
    /\ ThreadTypeOK
    /\ ownerPc \in {"return", "started", "quit", "wakeup", "join", "joined"}
          => start_ /\ threadPc \notin {"test", "wait", "init"}
    /\ ownerPc \in {"started", "quit", "wakeup", "join", "joined"}
          => returned \/ threadPc = "exited"
    /\ ownerPc = "terminated" => ~start_ \/ threadPc = "exited"

\* startLoop: neither notification is lost, so the call returns, unless the
\* loop has already been run to its end.
StartReturns == ownerPc = "test" ~> ownerPc = "started" \/ threadPc = "exited"

\* ~EventLoopThread: once quitLoop has set quit_ inside loop(), join returns.
JoinReturns ==
    (ownerPc \in {"wakeup", "join"} /\ quitSeen) ~> ownerPc = "joined"
=============================================================================
