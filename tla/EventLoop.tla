----------------------------- MODULE EventLoop -----------------------------
(***************************************************************************)
(* arale/net/EventLoop.{h,cc}: one thread polls descriptors, dispatches    *)
(* their callbacks and runs the functors that any thread posts to it.      *)
(*                                                                         *)
(* The steps of the loop thread are the accesses to shared state between   *)
(* which another thread can run: the test of quit_, the poll, each         *)
(* callback, the swap of pendingFunctors_ under pendingMutex_ and each     *)
(* functor.  A poster takes two steps: the push under the mutex, and the   *)
(* write to wakeupFd_.                                                     *)
(***************************************************************************)
EXTENDS Naturals, Sequences

CONSTANTS
    Threads,     \* the threads other than the loop thread
    Loop,        \* the loop thread
    IoSources,   \* the channels other than wakeupChannel_
    MaxPosts     \* bound: functors posted in a behaviour

ASSUME LoopAssumption == Loop \notin Threads
ASSUME BoundAssumption == MaxPosts \in Nat

VARIABLES
    loopPc,                     \* where the loop thread is; "idle": outside loop()
    islooping_,
    quit_,
    isHandlingPendingFunctors_,
    pendingFunctors_,
    functors,                   \* the local vector of doPendingFunctors, from i on
    activeChannels_,            \* those whose handleEvent is still to come
    wakeupFd_,                  \* the eventfd's counter is not zero
    ready,                      \* the channels whose descriptor is ready
    pc,                         \* "wakeup": the thread has still to write wakeupFd_
    posted, executed            \* histories of pushes and of runs

loopVars == <<loopPc, islooping_, quit_, isHandlingPendingFunctors_,
              functors, activeChannels_>>
vars == <<loopVars, pendingFunctors_, wakeupFd_, ready, pc, posted, executed>>

-----------------------------------------------------------------------------
LoopPcs == {"idle", "check", "poll", "dispatch", "swap", "run"}

\* wakeupChannel_ is a channel like the others
Wakeup == "wakeup"
Channels == IoSources \cup {Wakeup}

ASSUME WakeupAssumption == Wakeup \notin IoSources

(***************************************************************************)
(* A functor is known by its poster.  "early" marks the ones that the loop *)
(* thread itself posts while it is not in loop().                          *)
(***************************************************************************)
Functor == [by : Threads \cup {Loop}, early : BOOLEAN]

\* The flag that postFuntor consults is set exactly while doPendingFunctors is
\* running, so a post from a functor is never mistaken for one from a callback;
\* islooping_ is set exactly inside loop().
FlagsTellWhere ==
    /\ isHandlingPendingFunctors_ <=> loopPc \in {"swap", "run"}
    /\ islooping_ <=> loopPc # "idle"
    /\ functors # <<>> => loopPc = "run"
    /\ activeChannels_ # {} => loopPc = "dispatch"

\* The variables have their types, and the flags that EventLoop.cc keeps agree
\* with the place the loop thread is at.
TypeOK ==
    /\ FlagsTellWhere
    /\ loopPc \in LoopPcs
    /\ islooping_ \in BOOLEAN
    /\ quit_ \in BOOLEAN
    /\ isHandlingPendingFunctors_ \in BOOLEAN
    /\ pendingFunctors_ \in Seq(Functor)
    /\ functors \in Seq(Functor)
    /\ activeChannels_ \subseteq Channels
    /\ wakeupFd_ \in BOOLEAN
    /\ ready \subseteq IoSources
    /\ pc \in [Threads -> {"idle", "wakeup"}]
    /\ posted \in Seq(Functor)
    /\ executed \in Seq(Functor)

\* The state the constructor leaves: wakeupChannel_ is enabled for reading.
Init ==
    /\ loopPc = "idle"
    /\ islooping_ = FALSE
    /\ quit_ = FALSE
    /\ isHandlingPendingFunctors_ = FALSE
    /\ pendingFunctors_ = <<>>
    /\ functors = <<>>
    /\ activeChannels_ = {}
    /\ wakeupFd_ = FALSE
    /\ ready = {}
    /\ pc = [t \in Threads |-> "idle"]
    /\ posted = <<>>
    /\ executed = <<>>

-----------------------------------------------------------------------------
(* loop()                                                                  *)

\* loop() begins; what quit_ was is forgotten.
LoopEnter ==
    /\ loopPc = "idle"
    /\ loopPc' = "check"
    /\ islooping_' = TRUE
    /\ quit_' = FALSE
    /\ UNCHANGED <<isHandlingPendingFunctors_, functors, activeChannels_,
                   pendingFunctors_, wakeupFd_, ready, pc, posted, executed>>

\* Mutant of CheckQuit: the load of quit_ is hoisted out of the loop.
CheckQuitHoisted ==
    /\ loopPc = "check"
    /\ loopPc' = "poll"
    /\ UNCHANGED <<islooping_, quit_, isHandlingPendingFunctors_, functors,
                   activeChannels_, pendingFunctors_, wakeupFd_, ready, pc,
                   posted, executed>>

\* while (!quit_): another iteration, or loop() returns.
CheckQuit ==
    /\ loopPc = "check"
    /\ \/ ~quit_ /\ loopPc' = "poll" /\ UNCHANGED islooping_
       \/ quit_ /\ loopPc' = "idle" /\ islooping_' = FALSE
    /\ UNCHANGED <<quit_, isHandlingPendingFunctors_, functors, activeChannels_,
                   pendingFunctors_, wakeupFd_, ready, pc, posted, executed>>

Readable == ready \cup (IF wakeupFd_ THEN {Wakeup} ELSE {})

\* poll returns some of the ready channels: the poller's event list is finite.
PollReturn ==
    /\ loopPc = "poll"
    /\ loopPc' = "dispatch"
    /\ activeChannels_' \in (SUBSET Readable) \ {{}}
    /\ UNCHANGED <<islooping_, quit_, isHandlingPendingFunctors_, functors,
                   pendingFunctors_, wakeupFd_, ready, pc, posted, executed>>

\* poll returns nothing: kPollTimeMs have passed, or a signal interrupted it.
PollEmpty ==
    /\ loopPc = "poll"
    /\ loopPc' = "dispatch"
    /\ activeChannels_' = {}
    /\ UNCHANGED <<islooping_, quit_, isHandlingPendingFunctors_, functors,
                   pendingFunctors_, wakeupFd_, ready, pc, posted, executed>>

HandleWakeup ==
    /\ loopPc = "dispatch"
    /\ Wakeup \in activeChannels_
    /\ activeChannels_' = activeChannels_ \ {Wakeup}
    /\ wakeupFd_' = FALSE
    /\ UNCHANGED <<loopPc, islooping_, quit_, isHandlingPendingFunctors_,
                   functors, pendingFunctors_, ready, pc, posted, executed>>

\* The callback of another channel returns; its descriptor is no longer ready.
HandleIo(c) ==
    /\ loopPc = "dispatch"
    /\ c \in activeChannels_
    /\ activeChannels_' = activeChannels_ \ {c}
    /\ ready' = ready \ {c}
    /\ UNCHANGED <<loopPc, islooping_, quit_, isHandlingPendingFunctors_,
                   functors, pendingFunctors_, wakeupFd_, pc, posted, executed>>

\* The callbacks are done: doPendingFunctors is called.
DispatchEnd ==
    /\ loopPc = "dispatch"
    /\ activeChannels_ = {}
    /\ loopPc' = "swap"
    /\ isHandlingPendingFunctors_' = TRUE
    /\ UNCHANGED <<islooping_, quit_, functors, activeChannels_,
                   pendingFunctors_, wakeupFd_, ready, pc, posted, executed>>

\* Mutant of Swap: the vector is copied and not swapped out.
SwapCopies ==
    /\ loopPc = "swap"
    /\ loopPc' = "run"
    /\ functors' = pendingFunctors_
    /\ UNCHANGED <<islooping_, quit_, isHandlingPendingFunctors_,
                   activeChannels_, pendingFunctors_, wakeupFd_, ready, pc,
                   posted, executed>>

\* functors.swap(pendingFunctors_), under pendingMutex_.
Swap ==
    /\ loopPc = "swap"
    /\ loopPc' = "run"
    /\ functors' = pendingFunctors_
    /\ pendingFunctors_' = <<>>
    /\ UNCHANGED <<islooping_, quit_, isHandlingPendingFunctors_,
                   activeChannels_, wakeupFd_, ready, pc, posted, executed>>

\* Mutant of RunFunctor: the batch is run from its back.
RunFunctorLifo ==
    /\ loopPc = "run"
    /\ functors # <<>>
    /\ executed' = Append(executed, functors[Len(functors)])
    /\ functors' = SubSeq(functors, 1, Len(functors) - 1)
    /\ UNCHANGED <<loopPc, islooping_, quit_, isHandlingPendingFunctors_,
                   activeChannels_, pendingFunctors_, wakeupFd_, ready, pc,
                   posted>>

\* functors[i]() returns.
RunFunctor ==
    /\ loopPc = "run"
    /\ functors # <<>>
    /\ executed' = Append(executed, Head(functors))
    /\ functors' = Tail(functors)
    /\ UNCHANGED <<loopPc, islooping_, quit_, isHandlingPendingFunctors_,
                   activeChannels_, pendingFunctors_, wakeupFd_, ready, pc,
                   posted>>

\* Mutant of RunEnd: isHandlingPendingFunctors_ stays set.
RunEndKeepsFlag ==
    /\ loopPc = "run"
    /\ functors = <<>>
    /\ loopPc' = "check"
    /\ UNCHANGED <<islooping_, quit_, isHandlingPendingFunctors_, functors,
                   activeChannels_, pendingFunctors_, wakeupFd_, ready, pc,
                   posted, executed>>

RunEnd ==
    /\ loopPc = "run"
    /\ functors = <<>>
    /\ loopPc' = "check"
    /\ isHandlingPendingFunctors_' = FALSE
    /\ UNCHANGED <<islooping_, quit_, functors, activeChannels_,
                   pendingFunctors_, wakeupFd_, ready, pc, posted, executed>>

-----------------------------------------------------------------------------
(* Calls of the loop thread, made by user code: outside loop(), from the   *)
(* callback of a channel, or from a functor.                               *)

InUserCode ==
    \/ loopPc = "idle"
    \/ loopPc = "dispatch" /\ activeChannels_ \cap IoSources # {}
    \/ loopPc = "run" /\ functors # <<>>

\* Mutant of LoopPost: the loop thread never wakes itself.
LoopPostSilent ==
    /\ InUserCode
    /\ Len(posted) < MaxPosts
    /\ LET f == [by |-> Loop, early |-> loopPc = "idle"]
       IN /\ pendingFunctors_' = Append(pendingFunctors_, f)
          /\ posted' = Append(posted, f)
    /\ UNCHANGED <<loopVars, wakeupFd_, ready, pc, executed>>

\* postFuntor in the loop thread: the wake-up is written only while handling
\* pending functors.
LoopPost ==
    /\ InUserCode
    /\ Len(posted) < MaxPosts
    /\ LET f == [by |-> Loop, early |-> loopPc = "idle"]
       IN /\ pendingFunctors_' = Append(pendingFunctors_, f)
          /\ posted' = Append(posted, f)
    /\ wakeupFd_' = (wakeupFd_ \/ isHandlingPendingFunctors_)
    /\ UNCHANGED <<loopVars, ready, pc, executed>>

\* quitLoop in the loop thread.
LoopQuit ==
    /\ InUserCode
    /\ quit_' = TRUE
    /\ UNCHANGED <<loopPc, islooping_, isHandlingPendingFunctors_, functors,
                   activeChannels_, pendingFunctors_, wakeupFd_, ready, pc,
                   posted, executed>>

-----------------------------------------------------------------------------
(* Calls of the other threads.                                             *)

\* Mutant of Push: no wake-up follows.
PushSilent(t) ==
    /\ pc[t] = "idle"
    /\ Len(posted) < MaxPosts
    /\ LET f == [by |-> t, early |-> FALSE]
       IN /\ pendingFunctors_' = Append(pendingFunctors_, f)
          /\ posted' = Append(posted, f)
    /\ UNCHANGED <<loopVars, wakeupFd_, ready, pc, executed>>

\* postFuntor, and runInLoop, which is the same here: the push.
Push(t) ==
    /\ pc[t] = "idle"
    /\ Len(posted) < MaxPosts
    /\ LET f == [by |-> t, early |-> FALSE]
       IN /\ pendingFunctors_' = Append(pendingFunctors_, f)
          /\ posted' = Append(posted, f)
    /\ pc' = [pc EXCEPT ![t] = "wakeup"]
    /\ UNCHANGED <<loopVars, wakeupFd_, ready, executed>>

\* Mutant of Quit: no wake-up follows.
QuitSilent(t) ==
    /\ pc[t] = "idle"
    /\ quit_' = TRUE
    /\ UNCHANGED <<loopPc, islooping_, isHandlingPendingFunctors_, functors,
                   activeChannels_, pendingFunctors_, wakeupFd_, ready, pc,
                   posted, executed>>

\* quitLoop: the assignment of quit_.
Quit(t) ==
    /\ pc[t] = "idle"
    /\ quit_' = TRUE
    /\ pc' = [pc EXCEPT ![t] = "wakeup"]
    /\ UNCHANGED <<loopPc, islooping_, isHandlingPendingFunctors_, functors,
                   activeChannels_, pendingFunctors_, wakeupFd_, ready,
                   posted, executed>>

\* weakup(), the last step of both.
WeakUp(t) ==
    /\ pc[t] = "wakeup"
    /\ pc' = [pc EXCEPT ![t] = "idle"]
    /\ wakeupFd_' = TRUE
    /\ UNCHANGED <<loopVars, pendingFunctors_, ready, posted, executed>>

\* The kernel: a descriptor becomes ready.
RaiseIo(c) ==
    /\ c \notin ready
    /\ ready' = ready \cup {c}
    /\ UNCHANGED <<loopVars, pendingFunctors_, wakeupFd_, pc, posted, executed>>

-----------------------------------------------------------------------------
\* What the loop thread does by itself once it is in loop() and not blocked.
LoopStep ==
    \/ CheckQuit \/ PollReturn
    \/ HandleWakeup \/ (\E c \in IoSources : HandleIo(c)) \/ DispatchEnd
    \/ Swap \/ RunFunctor \/ RunEnd

UserCall == LoopPost \/ LoopQuit

ThreadStep(t) == Push(t) \/ Quit(t) \/ WeakUp(t)

Next ==
    \/ LoopEnter \/ PollEmpty \/ LoopStep \/ UserCall
    \/ \E t \in Threads : ThreadStep(t)
    \/ \E c \in IoSources : RaiseIo(c)

Spec == Init /\ [][Next]_vars

(***************************************************************************)
(* The scheduler runs the loop thread while it can run, callbacks return,  *)
(* and a thread that has pushed goes on to write wakeupFd_.  Nothing makes *)
(* a thread post, or call loop(); and the poll's time-out is left without  *)
(* fairness, so that what is shown does not rest on waiting 10 seconds.    *)
(***************************************************************************)
Fairness == WF_vars(LoopStep) /\ \A t \in Threads : WF_vars(WeakUp(t))

FairSpec == Spec /\ Fairness

-----------------------------------------------------------------------------
(* Properties                                                              *)

\* postFuntor and doPendingFunctors: what was pushed is, in order, what has
\* run, what is left of the batch being run, and what is still pending; no
\* functor is lost, repeated or overtaken by the swap of the two vectors.
ExactlyOnceInOrder == posted = executed \o functors \o pendingFunctors_

WakeupComing == wakeupFd_ \/ \E t \in Threads : pc[t] = "wakeup"

\* The wake-up policy of postFuntor: when a functor is pending, the loop has
\* still to reach doPendingFunctors in this iteration, or the next poll is
\* made to return.  (Functors posted by the loop thread before loop() are
\* outside the policy.)
NoLostWakeup ==
    (\E i \in DOMAIN pendingFunctors_ : ~pendingFunctors_[i].early)
        => WakeupComing \/ loopPc \in {"dispatch", "swap"}

\* quitLoop: the loop thread never waits in poll with quit_ set unless the
\* wake-up that ends the wait is there or about to be written.
QuitNotLost == loopPc = "poll" /\ quit_ => WakeupComing

\* postFuntor: a functor posted while the loop is running is run, unless the
\* loop ends first, without waiting for the poll's time-out.
PostedRuns ==
    \A n \in 1..MaxPosts :
        (islooping_ /\ Len(posted) >= n /\ ~posted[n].early)
            ~> (Len(executed) >= n \/ ~islooping_)

\* The loop thread and its posters implement a serial executor.
Executor == INSTANCE SerialExecutor WITH posted <- posted, executed <- executed
ImplementsExecutor == Executor!Spec
=============================================================================
