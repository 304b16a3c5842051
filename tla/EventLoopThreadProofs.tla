----------------------- MODULE EventLoopThreadProofs -----------------------
(***************************************************************************)
(* EventLoop and EventLoopThread, for any set of threads and channels and  *)
(* any bound on posts: the safety properties of EventLoop; the EventLoop   *)
(* inside an EventLoopThread is one of them, and its owner can rely on     *)
(* startLoop and on the destructor.                                        *)
(***************************************************************************)
EXTENDS EventLoopThread, SequenceTheorems, TLAPS

-----------------------------------------------------------------------------
(* EventLoop                                                               *)

\* EventLoop.cc: every variable keeps its type, and islooping_ and
\* isHandlingPendingFunctors_ agree with the place the loop thread is at.
THEOREM TypeCorrect == Spec => []TypeOK
<1>1. Init => TypeOK
  <2> SUFFICES ASSUME Init PROVE TypeOK
    OBVIOUS
  <2>1. FlagsTellWhere
    BY DEF Init, FlagsTellWhere
  <2>2. TypeOK!2 /\ TypeOK!6 /\ TypeOK!7 /\ TypeOK!8 /\ TypeOK!10 /\ TypeOK!11
        /\ TypeOK!12 /\ TypeOK!13
    BY DEF Init, LoopPcs
  <2>3. TypeOK!3 /\ TypeOK!4 /\ TypeOK!5 /\ TypeOK!9
    BY Zenon DEF Init
  <2> QED
    BY <2>1, <2>2, <2>3 DEF TypeOK
<1>2. TypeOK /\ [Next]_vars => TypeOK'
  <2> SUFFICES ASSUME TypeOK, [Next]_vars PROVE TypeOK'
    OBVIOUS
  <2> USE DEF TypeOK, FlagsTellWhere, LoopPcs
  <2>1. CASE LoopEnter
    BY <2>1 DEF LoopEnter
  <2>2. CASE CheckQuit
    BY <2>2 DEF CheckQuit
  <2>3. CASE PollReturn
    BY <2>3 DEF PollReturn, Readable, Channels
  <2>4. CASE PollEmpty
    BY <2>4 DEF PollEmpty
  <2>5. CASE HandleWakeup
    BY <2>5 DEF HandleWakeup
  <2>6. ASSUME NEW c \in IoSources, HandleIo(c) PROVE TypeOK'
    BY <2>6 DEF HandleIo
  <2>7. CASE DispatchEnd
    BY <2>7 DEF DispatchEnd
  <2>8. CASE Swap
    BY <2>8 DEF Swap
  <2>9. CASE RunFunctor
    BY <2>9 DEF RunFunctor
  <2>10. CASE RunEnd
    BY <2>10 DEF RunEnd
  <2>11. CASE LoopPost
    <3> DEFINE f == [by |-> Loop, early |-> loopPc = "idle"]
    <3>1. f \in Functor
      BY DEF Functor
    <3> QED
      BY <2>11, <3>1 DEF LoopPost, loopVars
  <2>12. CASE LoopQuit
    BY <2>12 DEF LoopQuit
  <2>13. ASSUME NEW t \in Threads, Push(t) PROVE TypeOK'
    <3> DEFINE f == [by |-> t, early |-> FALSE]
    <3>1. f \in Functor
      BY DEF Functor
    <3> QED
      BY <2>13, <3>1 DEF Push, loopVars
  <2>14. ASSUME NEW t \in Threads, Quit(t) PROVE TypeOK'
    BY <2>14 DEF Quit
  <2>15. ASSUME NEW t \in Threads, WeakUp(t) PROVE TypeOK'
    BY <2>15 DEF WeakUp, loopVars
  <2>16. ASSUME NEW c \in IoSources, RaiseIo(c) PROVE TypeOK'
    BY <2>16 DEF RaiseIo, loopVars
  <2>17. CASE UNCHANGED vars
    BY <2>17 DEF vars, loopVars
  <2> QED
    BY <2>1, <2>2, <2>3, <2>4, <2>5, <2>6, <2>7, <2>8, <2>9, <2>10, <2>11,
       <2>12, <2>13, <2>14, <2>15, <2>16, <2>17
       DEF Next, LoopStep, UserCall, ThreadStep
<1> QED
  BY <1>1, <1>2, PTL DEF Spec

\* One functor moves from the head of the batch to what has run.
LEMMA MoveHead ==
  ASSUME NEW S, NEW a \in Seq(S), NEW b \in Seq(S), NEW c \in Seq(S), b # <<>>
  PROVE  a \o b \o c = Append(a, Head(b)) \o Tail(b) \o c
<1>1. Head(b) \in S /\ Tail(b) \in Seq(S) /\ b = <<Head(b)>> \o Tail(b)
  BY HeadTailProperties
<1>2. <<Head(b)>> \in Seq(S) /\ Append(a, Head(b)) = a \o <<Head(b)>>
  BY <1>1, AppendIsConcat
<1>3. a \o b = (a \o <<Head(b)>>) \o Tail(b)
  BY <1>1, <1>2, ConcatAssociative, SMTT(30)
<1> QED
  BY <1>2, <1>3

\* postFuntor and doPendingFunctors: every functor pushed is run exactly once
\* and in the order of the pushes.
THEOREM ExactlyOnce == Spec => []ExactlyOnceInOrder
<1>1. Init => ExactlyOnceInOrder
  BY DEF Init, ExactlyOnceInOrder
<1>2. TypeOK /\ ExactlyOnceInOrder /\ [Next]_vars => ExactlyOnceInOrder'
  <2> SUFFICES ASSUME TypeOK, ExactlyOnceInOrder, [Next]_vars
               PROVE  ExactlyOnceInOrder'
    OBVIOUS
  <2> USE DEF ExactlyOnceInOrder
  <2>0. /\ pendingFunctors_ \in Seq(Functor) /\ functors \in Seq(Functor)
        /\ executed \in Seq(Functor) /\ posted \in Seq(Functor)
    BY DEF TypeOK
  <2>1. CASE Swap
    <3>1. functors = <<>>
      BY <2>1 DEF Swap, TypeOK, FlagsTellWhere
    <3>2. executed \o <<>> \o pendingFunctors_ = executed \o pendingFunctors_ \o <<>>
      BY <2>0, ConcatEmptySeq, ConcatProperties
    <3> QED
      BY <2>1, <3>1, <3>2 DEF Swap
  <2>2. CASE RunFunctor
    BY <2>0, <2>2, MoveHead, SMTT(30) DEF RunFunctor
  <2>3. CASE LoopPost \/ \E t \in Threads : Push(t)
    <3>1. PICK f \in Functor : /\ pendingFunctors_' = Append(pendingFunctors_, f)
                              /\ posted' = Append(posted, f)
                              /\ UNCHANGED <<executed, functors>>
      BY <2>3 DEF LoopPost, Push, loopVars, Functor
    <3>2. /\ pendingFunctors_' = pendingFunctors_ \o <<f>>
          /\ posted' = posted \o <<f>>
          /\ <<f>> \in Seq(Functor)
      BY <2>0, <3>1, AppendIsConcat, SMTT(30)
    <3>3. executed \o functors \in Seq(Functor)
      BY <2>0, ConcatProperties
    <3>4. executed \o functors \o pendingFunctors_ \o <<f>>
            = executed \o functors \o (pendingFunctors_ \o <<f>>)
      BY <2>0, <3>2, <3>3, ConcatAssociative, SMTT(30)
    <3> QED
      BY <3>1, <3>2, <3>4
  <2>4. CASE \/ LoopEnter \/ CheckQuit \/ PollReturn \/ PollEmpty \/ HandleWakeup
             \/ (\E c \in IoSources : HandleIo(c) \/ RaiseIo(c))
             \/ DispatchEnd \/ RunEnd \/ LoopQuit
             \/ (\E t \in Threads : Quit(t) \/ WeakUp(t)) \/ UNCHANGED vars
    <3>1. UNCHANGED <<posted, executed, functors, pendingFunctors_>>
      BY <2>4 DEF LoopEnter, CheckQuit, PollReturn, PollEmpty, HandleWakeup,
                  HandleIo, RaiseIo, DispatchEnd, RunEnd, LoopQuit, Quit, WeakUp,
                  vars, loopVars
    <3> QED
      BY <3>1
  <2> QED
    BY <2>1, <2>2, <2>3, <2>4 DEF Next, LoopStep, UserCall, ThreadStep
<1> QED
  BY <1>1, <1>2, TypeCorrect, PTL DEF Spec

\* The wake-up policy of postFuntor: a pending functor is always ahead of a
\* doPendingFunctors that the loop reaches without blocking in poll.
THEOREM WakeupNotLost == Spec => []NoLostWakeup
<1>1. Init => NoLostWakeup
  BY DEF Init, NoLostWakeup
<1>2. TypeOK /\ NoLostWakeup /\ [Next]_vars => NoLostWakeup'
  <2> SUFFICES ASSUME TypeOK, NoLostWakeup, [Next]_vars PROVE NoLostWakeup'
    OBVIOUS
  <2> USE DEF NoLostWakeup, WakeupComing, TypeOK, FlagsTellWhere
  <2>1. CASE \/ LoopEnter \/ CheckQuit \/ RunFunctor \/ RunEnd \/ LoopQuit
             \/ \E c \in IoSources : RaiseIo(c)
    BY <2>1 DEF LoopEnter, CheckQuit, RunFunctor, RunEnd, LoopQuit, RaiseIo, loopVars
  <2>2. CASE \/ PollReturn \/ PollEmpty \/ HandleWakeup \/ DispatchEnd
             \/ \E c \in IoSources : HandleIo(c)
    BY <2>2 DEF PollReturn, PollEmpty, HandleWakeup, DispatchEnd, HandleIo
  <2>3. CASE Swap
    BY <2>3 DEF Swap
  <2>4. CASE LoopPost
    <3> DEFINE f == [by |-> Loop, early |-> loopPc = "idle"]
    <3>1. CASE loopPc = "idle"
      <4>1. f.early
        BY <3>1
      <4>2. ASSUME NEW i \in DOMAIN pendingFunctors_', ~pendingFunctors_'[i].early
            PROVE  i \in DOMAIN pendingFunctors_ /\ ~pendingFunctors_[i].early
        BY <2>4, <4>1, <4>2 DEF LoopPost
      <4> QED
        BY <2>4, <4>2 DEF LoopPost, loopVars
    <3>2. CASE loopPc \in {"dispatch", "swap"}
      BY <2>4, <3>2 DEF LoopPost, loopVars
    <3>3. CASE loopPc = "run"
      BY <2>4, <3>3 DEF LoopPost
    <3> QED
      BY <2>4, <3>1, <3>2, <3>3 DEF LoopPost, InUserCode
  <2>5. ASSUME NEW t \in Threads, Push(t) \/ Quit(t) PROVE NoLostWakeup'
    <3>1. pc'[t] = "wakeup"
      BY <2>5 DEF Push, Quit
    <3> QED
      BY <3>1
  <2>6. ASSUME NEW t \in Threads, WeakUp(t) PROVE NoLostWakeup'
    BY <2>6 DEF WeakUp
  <2>7. CASE UNCHANGED vars
    BY <2>7 DEF vars, loopVars
  <2> QED
    BY <2>1, <2>2, <2>3, <2>4, <2>5, <2>6, <2>7
       DEF Next, LoopStep, UserCall, ThreadStep
<1> QED
  BY <1>1, <1>2, TypeCorrect, PTL DEF Spec

\* quitLoop: the loop thread does not stay in poll once quit_ is set.
THEOREM QuitWakesLoop == Spec => []QuitNotLost
<1>1. Init => QuitNotLost
  BY DEF Init, QuitNotLost
<1>2. TypeOK /\ QuitNotLost /\ [Next]_vars => QuitNotLost'
  <2> SUFFICES ASSUME TypeOK, QuitNotLost, [Next]_vars PROVE QuitNotLost'
    OBVIOUS
  <2> USE DEF QuitNotLost, WakeupComing, TypeOK
  <2>1. CASE \/ LoopEnter \/ PollReturn \/ PollEmpty \/ HandleWakeup \/ DispatchEnd
             \/ Swap \/ RunFunctor \/ RunEnd \/ \E c \in IoSources : HandleIo(c)
    BY <2>1 DEF LoopEnter, PollReturn, PollEmpty, HandleWakeup, DispatchEnd, Swap,
                RunFunctor, RunEnd, HandleIo
  <2>2. CASE CheckQuit
    BY <2>2 DEF CheckQuit
  <2>3. CASE LoopPost \/ LoopQuit
    BY <2>3 DEF LoopPost, LoopQuit, InUserCode, loopVars
  <2>4. ASSUME NEW t \in Threads, Push(t) \/ Quit(t) PROVE QuitNotLost'
    <3>1. pc'[t] = "wakeup"
      BY <2>4 DEF Push, Quit
    <3> QED
      BY <3>1
  <2>5. ASSUME NEW t \in Threads, WeakUp(t) PROVE QuitNotLost'
    BY <2>5 DEF WeakUp
  <2>6. CASE UNCHANGED vars \/ \E c \in IoSources : RaiseIo(c)
    BY <2>6 DEF vars, loopVars, RaiseIo
  <2> QED
    BY <2>1, <2>2, <2>3, <2>4, <2>5, <2>6
       DEF Next, LoopStep, UserCall, ThreadStep
<1> QED
  BY <1>1, <1>2, TypeCorrect, PTL DEF Spec

\* The functor at the head of the batch is the next one that was pushed.
LEMMA NextInOrder ==
  ASSUME NEW S, NEW a \in Seq(S), NEW b \in Seq(S), NEW c \in Seq(S), b # <<>>
  PROVE  /\ Len(a) < Len(a \o b \o c)
         /\ (a \o b \o c)[Len(a) + 1] = Head(b)
<1>1. Len(b) \in Nat /\ Len(b) > 0 /\ Len(a) \in Nat /\ Len(c) \in Nat /\ Head(b) = b[1]
  BY EmptySeq, LenProperties
<1>2. /\ a \o b \in Seq(S) /\ Len(a \o b) = Len(a) + Len(b)
      /\ (a \o b)[Len(a) + 1] = b[1]
  BY <1>1, ConcatProperties
<1>3. /\ Len(a \o b \o c) = Len(a) + Len(b) + Len(c)
      /\ (a \o b \o c)[Len(a) + 1] = (a \o b)[Len(a) + 1]
  BY <1>1, <1>2, ConcatProperties
<1> QED
  BY <1>1, <1>2, <1>3

\* EventLoop implements the serial executor: a push is a Post, the return of
\* a functor is an Execute, and every other step of every thread is invisible.
THEOREM Refinement == Spec => ImplementsExecutor
<1>1. Init => Executor!Init
  BY DEF Init, Executor!Init
<1>2. TypeOK /\ ExactlyOnceInOrder /\ [Next]_vars => [Executor!Next]_(Executor!vars)
  <2> SUFFICES ASSUME TypeOK, ExactlyOnceInOrder, [Next]_vars
               PROVE  [Executor!Next]_(Executor!vars)
    OBVIOUS
  <2> USE DEF Executor!Next, Executor!vars
  <2>1. CASE LoopPost \/ \E t \in Threads : Push(t)
    <3>1. \E f \in Functor : posted' = Append(posted, f) /\ UNCHANGED executed
      BY <2>1 DEF LoopPost, Push, Functor
    <3> QED
      BY <3>1 DEF Executor!Post
  <2>2. CASE RunFunctor
    <3>1. /\ Len(executed) < Len(posted)
          /\ posted[Len(executed) + 1] = Head(functors)
      BY <2>2, NextInOrder DEF RunFunctor, TypeOK, ExactlyOnceInOrder
    <3> QED
      BY <2>2, <3>1 DEF RunFunctor, Executor!Execute
  <2>3. CASE \/ LoopEnter \/ CheckQuit \/ PollReturn \/ PollEmpty \/ HandleWakeup
             \/ (\E c \in IoSources : HandleIo(c) \/ RaiseIo(c))
             \/ DispatchEnd \/ Swap \/ RunEnd \/ LoopQuit
             \/ (\E t \in Threads : Quit(t) \/ WeakUp(t)) \/ UNCHANGED vars
    <3>1. UNCHANGED <<posted, executed>>
      BY <2>3 DEF LoopEnter, CheckQuit, PollReturn, PollEmpty, HandleWakeup,
                  HandleIo, RaiseIo, DispatchEnd, Swap, RunEnd, LoopQuit, Quit,
                  WeakUp, vars, loopVars
    <3> QED
      BY <3>1
  <2> QED
    BY <2>1, <2>2, <2>3 DEF Next, LoopStep, UserCall, ThreadStep
<1> QED
  BY <1>1, <1>2, TypeCorrect, ExactlyOnce, PTL DEF Spec, ImplementsExecutor, Executor!Spec

-----------------------------------------------------------------------------
(* EventLoopThread                                                         *)

\* EventLoopThread.cc: whatever the owner and threadFunc do, the EventLoop they share
\* takes only steps of its own; so what holds of every EventLoop holds of this one.
THEOREM ThreadRunsEventLoop == ThreadSpec => Spec
<1>1. ThreadInit => Init
  BY DEF ThreadInit
<1>2. [ThreadNext]_allVars => [Next]_vars
  <2> SUFFICES ASSUME [ThreadNext]_allVars PROVE Next \/ UNCHANGED vars
    OBVIOUS
  <2>1. CASE \/ StartLoop \/ AwaitLoop \/ ReturnLoop \/ SpuriousWakeup \/ Destroy \/ Join
             \/ AwaitStart \/ PublishLoop \/ ExitThread
    BY <2>1, Zenon DEF StartLoop, AwaitLoop, ReturnLoop, SpuriousWakeup, Destroy, Join,
                AwaitStart, PublishLoop, ExitThread
  <2>2. CASE DestroyQuit \/ DestroyWakeup
    <3>1. Owner \in Threads
      BY OwnerAssumption
    <3>2. Quit(Owner) \/ WeakUp(Owner) \/ UNCHANGED vars
      BY <2>2 DEF DestroyQuit, DestroyWakeup
    <3> QED
      BY <3>1, <3>2 DEF Next, ThreadStep
  <2>3. CASE EnterLoop \/ LoopRuns \/ UserRuns
    BY <2>3 DEF EnterLoop, LoopRuns, UserRuns, Next
  <2>4. CASE OthersRun
    BY <2>4 DEF OthersRun, Next
  <2>5. CASE UNCHANGED allVars
    BY <2>5, Zenon DEF allVars
  <2> QED
    BY <2>1, <2>2, <2>3, <2>4, <2>5 DEF ThreadNext
<1> QED
  BY <1>1, <1>2, PTL DEF ThreadSpec, Spec

\* postFuntor, quitLoop and doPendingFunctors inside an EventLoopThread: functors run
\* once and in order, no wake-up and no quit is lost.
THEOREM ThreadLoopIsSafe ==
  ThreadSpec => [](TypeOK /\ ExactlyOnceInOrder /\ NoLostWakeup /\ QuitNotLost)
BY ThreadRunsEventLoop, TypeCorrect, ExactlyOnce, WakeupNotLost, QuitWakesLoop, PTL

\* The EventLoop of an EventLoopThread implements the serial executor.
THEOREM ThreadLoopRefinement == ThreadSpec => ImplementsExecutor
BY ThreadRunsEventLoop, Refinement, PTL

\* Where start_ and loop_ stand, given where the two threads are.
Handshake ==
    /\ threadPc \notin {"test", "wait"} => start_
    /\ threadPc \in {"enter", "loop"} => loop_
    /\ ownerPc = "created" => ~start_
    /\ ownerPc \in {"test", "wait"} => start_

\* startLoop, threadFunc and ~EventLoopThread: startLoop returns when the loop has been
\* published, and NULL only when that loop has ended since; the destructor never abandons
\* a thread that is running, whatever wake-ups the condition variables deliver.
THEOREM OwnerMayRely == ThreadSpec => []OwnerSeesThread
<1> USE DEF OwnerSeesThread, ThreadTypeOK, Handshake, OwnerPcs, ThreadPcs
<1>1. ThreadInit /\ TypeOK => OwnerSeesThread /\ Handshake
  BY DEF ThreadInit, Init
<1>2. TypeOK' /\ OwnerSeesThread /\ Handshake /\ [ThreadNext]_allVars
        => OwnerSeesThread' /\ Handshake'
  <2> SUFFICES ASSUME TypeOK', OwnerSeesThread, Handshake, [ThreadNext]_allVars
               PROVE  OwnerSeesThread' /\ Handshake'
    OBVIOUS
  <2>0. loopPc = "idle" => ~islooping_
    BY DEF TypeOK, FlagsTellWhere
  <2>1. CASE StartLoop
    BY <2>1 DEF StartLoop, vars, loopVars
  <2>2. CASE AwaitLoop
    BY <2>2 DEF AwaitLoop, vars, loopVars
  <2>15. CASE ReturnLoop
    BY <2>15 DEF ReturnLoop, vars, loopVars
  <2>3. CASE SpuriousWakeup
    BY <2>3 DEF SpuriousWakeup, vars, loopVars
  <2>4. CASE Destroy
    <3>1. UNCHANGED <<loop_, start_, threadPc, returned, quitSeen, islooping_>>
      BY <2>4, Zenon DEF Destroy, vars, loopVars
    <3>2. \/ ownerPc = "started" /\ loop_ /\ ownerPc' = "quit"
          \/ ownerPc' = "terminated" /\ (~start_ \/ threadPc = "exited")
      BY <2>4 DEF Destroy
    <3> QED
      BY <3>1, <3>2
  <2>5. CASE Join
    BY <2>5 DEF Join, vars, loopVars
  <2>6. CASE AwaitStart
    BY <2>6 DEF AwaitStart, vars, loopVars
  <2>7. CASE PublishLoop
    <3>1. UNCHANGED <<start_, returned, quitSeen, islooping_>>
      BY <2>7, Zenon DEF PublishLoop, vars, loopVars
    <3>2. threadPc = "init" /\ threadPc' = "enter" /\ loop_' = TRUE
      BY <2>7 DEF PublishLoop
    <3>3. \/ ownerPc' = ownerPc /\ ownerPc # "wait"
          \/ ownerPc = "wait" /\ ownerPc' = "test"
      BY <2>7 DEF PublishLoop
    <3> QED
      BY <3>1, <3>2, <3>3
  <2>8. CASE ExitThread
    <3>1. UNCHANGED <<start_, ownerPc, returned, quitSeen, islooping_>>
      BY <2>8, Zenon DEF ExitThread, vars, loopVars
    <3>2. threadPc' = "exited" /\ loop_' = FALSE /\ ~islooping_ /\ threadPc = "loop"
      BY <2>0, <2>8 DEF ExitThread
    <3> QED
      BY <3>1, <3>2
  <2>9. CASE DestroyQuit
    <3>1. UNCHANGED <<loop_, start_, threadPc, returned, islooping_>>
      BY <2>9, Zenon DEF DestroyQuit, Quit, vars, loopVars
    <3>2. quitSeen' \in BOOLEAN
      BY <2>9 DEF DestroyQuit, TypeOK
    <3>3. /\ ownerPc = "quit"
          /\ ownerPc' = "wakeup" \/ (ownerPc' = "terminated" /\ threadPc = "exited")
      BY <2>9 DEF DestroyQuit
    <3> QED
      BY <3>1, <3>2, <3>3
  <2>10. CASE DestroyWakeup
    BY <2>10 DEF DestroyWakeup, WeakUp, loopVars
  <2>11. CASE EnterLoop
    BY <2>11 DEF EnterLoop, LoopEnter
  <2>12. CASE LoopRuns
    BY <2>12 DEF LoopRuns, threadVars
  <2>13. CASE UserRuns \/ OthersRun
    <3>1. UNCHANGED <<islooping_, threadVars>>
      BY <2>13 DEF UserRuns, OthersRun, UserCall, LoopPost, LoopQuit, ThreadStep, Push, Quit,
                  WeakUp, RaiseIo, loopVars
    <3> QED
      BY <3>1 DEF threadVars
  <2>14. CASE UNCHANGED allVars
    BY <2>14 DEF allVars, threadVars, vars, loopVars
  <2> QED
    BY <2>1, <2>2, <2>3, <2>4, <2>5, <2>6, <2>7, <2>8, <2>9, <2>10, <2>11, <2>12, <2>13,
       <2>14, <2>15 DEF ThreadNext
<1> QED
  BY <1>1, <1>2, ThreadLoopIsSafe, PTL DEF ThreadSpec
=============================================================================
