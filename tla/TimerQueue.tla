----------------------------- MODULE TimerQueue -----------------------------
(***************************************************************************)
(* arale/net/TimerQueue.{h,cc}, Timer.{h,cc} and TimerID.h: the timers of  *)
(* one EventLoop, kept in two ordered sets over one timerfd.               *)
(*                                                                         *)
(* A Timer* is an address of a small heap, allocated and freed so that an  *)
(* address is used again as it is in the program.  Time is a counter of    *)
(* ticks.  The loop thread executes the calls of other threads in the      *)
(* order of their posts, as EventLoop promises (SerialExecutor).           *)
(***************************************************************************)
EXTENDS Naturals, Sequences

CONSTANTS
    Addr,        \* the addresses the allocator hands out
    Threads,     \* threads other than the loop thread
    Delays,      \* how far ahead addTimer is asked to fire
    Intervals,   \* the intervals of the timers, 0 for a one-shot timer
    MaxSeq,      \* bound: timers created in a behaviour
    MaxTime,     \* bound: the clock
    MaxPending   \* bound: functors pending in the loop

ASSUME DelaysAssumption == Delays \subseteq Nat
ASSUME IntervalsAssumption == Intervals \subseteq Nat
ASSUME BoundsAssumption == MaxSeq \in Nat /\ MaxTime \in Nat /\ MaxPending \in Nat

VARIABLES
    now,
    mem,                \* what each address holds, or held when it was freed
    live,               \* the addresses that are allocated
    counter_,           \* Timer::counter_
    timers_, activeTimers_, cancelledTimers_, isHandlingTimeout_,
    handling,           \* handleTimeout is being executed
    batchNow,           \* its "now"
    expired,            \* its expired timers that have not run yet
    ran,                \* its expired timers that have
    timerfd,            \* "off", "armed" or "readable"
    deadline,           \* when the armed timerfd becomes readable
    active,             \* timerfdChannel_ is in activeChannels_
    pending,            \* pendingFunctors_ of the loop
    pc,                 \* for each thread, the timer it is adding, if any
    made,               \* the TimerIDs returned by addTimer, each with the
                        \* sequence of the timer it was made for
    cancelled,          \* history: sequences of the timers that were cancelled
    aborted             \* an assert has failed

heapVars == <<mem, live, counter_>>
batchVars == <<handling, batchNow, expired, ran>>
fdVars == <<timerfd, deadline>>
vars == <<now, heapVars, timers_, activeTimers_, cancelledTimers_,
          isHandlingTimeout_, batchVars, fdVars, active, pending, pc, made,
          cancelled, aborted>>

-----------------------------------------------------------------------------
Seqs == 1..MaxSeq
Timer == [seq : 0..MaxSeq, expiration : Nat, interval : Nat]
Entry == Nat \X Addr
TimerID == Addr \X Seqs              \* ActiveTimerEntry is the same pair

AddFunctor == [op : {"add"}, timer : Addr]
CancelFunctor == [op : {"cancel"}, id : TimerID]

Idle == <<>>                         \* pc of a thread that is not in addTimer

\* The key of the timer at an address, as the sets know it.
EntryOf(a) == <<mem[a].expiration, a>>
IdOf(a) == <<a, mem[a].seq>>

Batch == {e[2] : e \in expired \cup ran}

\* The variables have their types, and isHandlingTimeout_ is set while handleTimeout
\* runs, so that a cancellation by a callback is never ignored.
TypeOK ==
    /\ now \in Nat
    /\ mem \in [Addr -> Timer]
    /\ live \subseteq Addr
    /\ counter_ \in 0..MaxSeq
    /\ timers_ \subseteq Entry
    /\ activeTimers_ \subseteq TimerID
    /\ cancelledTimers_ \subseteq TimerID
    /\ isHandlingTimeout_ \in BOOLEAN
    /\ handling \in BOOLEAN
    /\ batchNow \in Nat
    /\ expired \subseteq Entry
    /\ ran \subseteq Entry
    /\ timerfd \in {"off", "armed", "readable"}
    /\ deadline \in Nat
    /\ active \in BOOLEAN
    /\ pending \in Seq(AddFunctor \cup CancelFunctor)
    /\ pc \in [Threads -> {Idle} \cup TimerID]
    /\ made \subseteq [id : TimerID, seq : Seqs]
    /\ cancelled \subseteq Seqs
    /\ aborted \in BOOLEAN
    /\ ~handling => expired = {} /\ ran = {}
    /\ handling => isHandlingTimeout_

\* The state the constructor leaves: it does not initialise isHandlingTimeout_.
Init ==
    /\ now = 0
    /\ mem = [a \in Addr |-> [seq |-> 0, expiration |-> 0, interval |-> 0]]
    /\ live = {}
    /\ counter_ = 0
    /\ timers_ = {}
    /\ activeTimers_ = {}
    /\ cancelledTimers_ = {}
    /\ isHandlingTimeout_ \in BOOLEAN
    /\ handling = FALSE
    /\ batchNow = 0
    /\ expired = {}
    /\ ran = {}
    /\ timerfd = "off"
    /\ deadline = 0
    /\ active = FALSE
    /\ pending = <<>>
    /\ pc = [t \in Threads |-> Idle]
    /\ made = {}
    /\ cancelled = {}
    /\ aborted = FALSE

-----------------------------------------------------------------------------
(* The functions of TimerQueue                                             *)

\* new Timer(callback, when, interval) at a free address.
NewTimer(a, when, interval) ==
    /\ a \notin live
    /\ counter_ < MaxSeq
    /\ counter_' = counter_ + 1
    /\ live' = live \cup {a}
    /\ mem' = [mem EXCEPT ![a] = [seq |-> counter_ + 1, expiration |-> when,
                                  interval |-> interval]]

\* The moment that howMuchTimeFromNow leads to: a time that has passed becomes a
\* moment from now.
howMuchTimeFromNow(when) == IF when > now THEN when ELSE now

\* Setting the timerfd discards an expiry that was not read.
resetTimerfd(when) == timerfd' = "armed" /\ deadline' = howMuchTimeFromNow(when)

\* Mutant of needResetTimerfd: the timerfd is set only for the first timer.
needResetTimerfdFirst(when) == timers_ = {}

\* insert's result: the new timer is ahead of all the others.
needResetTimerfd(when) == \A e \in timers_ : when < e[1]

\* insert's effect on the two sets.
insert(a) ==
    /\ timers_' = timers_ \cup {<<mem'[a].expiration, a>>}
    /\ activeTimers_' = activeTimers_ \cup {<<a, mem'[a].seq>>}

addTimerInLoop(a) ==
    /\ insert(a)
    /\ IF needResetTimerfd(mem'[a].expiration) THEN resetTimerfd(mem'[a].expiration)
                                              ELSE UNCHANGED fdVars

\* Mutant of EraseTimer: activeTimers_ keeps the timer.
EraseTimerHalf(id) == timers_' = timers_ \ {EntryOf(id[1])} /\ UNCHANGED activeTimers_

\* The two calls of erase in cancelTimerInLoop.
EraseTimer(id) ==
    /\ timers_' = timers_ \ {EntryOf(id[1])}
    /\ activeTimers_' = activeTimers_ \ {id}

\* The timer is removed and deleted (through an iterator to the node just erased,
\* whose pointer is still there); or, while handleTimeout runs callbacks, its
\* cancellation is remembered, once; or it is not known.
cancelTimerInLoop(id) ==
    /\ \/ /\ id \in activeTimers_
          /\ EraseTimer(id)
          /\ live' = live \ {id[1]}
          /\ cancelled' = cancelled \cup {id[2]}
          /\ UNCHANGED <<cancelledTimers_, aborted>>
       \/ /\ id \notin activeTimers_ /\ isHandlingTimeout_
          /\ aborted' = (id \in cancelledTimers_)
          /\ cancelledTimers_' = cancelledTimers_ \cup {id}
          /\ cancelled' = cancelled \cup {IdOf(a)[2] : a \in {b \in Batch : IdOf(b) = id}}
          /\ UNCHANGED <<timers_, activeTimers_, live>>
       \/ /\ id \notin activeTimers_ /\ ~isHandlingTimeout_
          /\ UNCHANGED <<timers_, activeTimers_, cancelledTimers_, live, cancelled,
                         aborted>>

-----------------------------------------------------------------------------
(* The loop thread                                                         *)

Running == ~aborted

\* isHandlingTimeout_ is assigned before the first callback and after the last.
MarkHandling(b) == handling' = b /\ isHandlingTimeout_' = b

\* readTimerfd: a timerfd that has expired is read; the others have nothing to read,
\* which is logged.
readTimerfd == timerfd' = IF timerfd = "readable" THEN "off" ELSE timerfd

\* handleTimeout up to its loop: the timerfd is read, and getExpiredTimers moves
\* the timers that are due out of both sets.
HandleTimeout ==
    /\ Running /\ active /\ ~handling
    /\ active' = FALSE
    /\ readTimerfd
    /\ batchNow' = now
    /\ expired' = {e \in timers_ : e[1] <= now}
    /\ timers_' = timers_ \ expired'
    /\ activeTimers_' = activeTimers_ \ {IdOf(e[2]) : e \in expired'}
    /\ MarkHandling(TRUE)
    /\ cancelledTimers_' = {}
    /\ UNCHANGED <<now, heapVars, ran, deadline, pending, pc, made, cancelled, aborted>>

\* The next callback is called.
RunTimer ==
    /\ Running /\ handling
    /\ \E e \in expired :
          /\ \A f \in expired : e[1] <= f[1]
          /\ expired' = expired \ {e}
          /\ ran' = ran \cup {e}
    /\ UNCHANGED <<now, heapVars, timers_, activeTimers_, cancelledTimers_,
                   isHandlingTimeout_, handling, batchNow, fdVars, active, pending,
                   pc, made, cancelled, aborted>>

\* Mutant of Restarted: cancelledTimers_ is not consulted.
RestartedAll == {a \in Batch : mem[a].interval > 0}

\* The timers of the batch that resetTimers puts back.
Restarted == {a \in Batch : mem[a].interval > 0 /\ IdOf(a) \notin cancelledTimers_}

\* Mutant of Deleted: repeated timers are kept although they were cancelled.
DeletedOneShot == {a \in Batch : mem[a].interval = 0}

\* The timers of the batch that resetTimers deletes.
Deleted == Batch \ Restarted

\* Mutant of RearmTimerfd: the timerfd is left alone.
RearmTimerfdNever == UNCHANGED fdVars

\* The end of resetTimers: the timerfd is set to the earliest timer, if any.
RearmTimerfd ==
    \/ timers_' = {} /\ UNCHANGED fdVars
    \/ \E e \in timers_' : (\A f \in timers_' : e[1] <= f[1]) /\ resetTimerfd(e[1])

\* Timer::reset: the next expiration, or Timestamp::invalid().
reset(timer, time) ==
    [timer EXCEPT !.expiration = IF timer.interval > 0 THEN time + timer.interval ELSE 0]

\* The callbacks are done: resetTimers restarts the repeated timers that were not
\* cancelled, deletes the others, and sets the timerfd to the earliest timer.
ResetTimers ==
    /\ Running /\ handling /\ expired = {}
    /\ MarkHandling(FALSE)
    /\ mem' = [a \in Addr |-> IF a \in Restarted THEN reset(mem[a], batchNow) ELSE mem[a]]
    /\ timers_' = timers_ \cup {<<mem'[a].expiration, a>> : a \in Restarted}
    /\ activeTimers_' = activeTimers_ \cup {IdOf(a) : a \in Restarted}
    /\ live' = live \ Deleted
    /\ RearmTimerfd
    /\ ran' = {}
    /\ UNCHANGED <<now, counter_, cancelledTimers_, batchNow, expired, active,
                   pending, pc, made, cancelled, aborted>>

\* User code of the loop thread runs in a timer's callback or anywhere outside
\* handleTimeout.
InUserCode == Running /\ (handling => ran # {})

\* runAt, runAfter, runEvery called in the loop thread.
LoopAdd ==
    /\ InUserCode
    /\ \E a \in Addr, d \in Delays, i \in Intervals :
          /\ NewTimer(a, now + d, i)
          /\ addTimerInLoop(a)
          /\ made' = made \cup {[id |-> <<a, counter_'>>, seq |-> counter_']}
    /\ UNCHANGED <<now, cancelledTimers_, isHandlingTimeout_, batchVars, active,
                   pending, pc, cancelled, aborted>>

\* cancelTimer called in the loop thread.
LoopCancel ==
    /\ InUserCode
    /\ \E m \in made : cancelTimerInLoop(m.id)
    /\ UNCHANGED <<now, mem, counter_, isHandlingTimeout_, batchVars, fdVars, active,
                   pending, pc, made>>

\* doPendingFunctors runs the next functor.
RunPending ==
    /\ Running /\ ~handling /\ pending # <<>>
    /\ pending' = Tail(pending)
    /\ LET f == Head(pending)
       IN \/ /\ f.op = "add"
             /\ UNCHANGED <<heapVars, cancelledTimers_, cancelled, aborted>>
             /\ addTimerInLoop(f.timer)
          \/ /\ f.op = "cancel"
             /\ cancelTimerInLoop(f.id)
             /\ UNCHANGED <<mem, counter_, fdVars>>
    /\ UNCHANGED <<now, isHandlingTimeout_, batchVars, active, pc, made>>

-----------------------------------------------------------------------------
(* The other threads                                                       *)

\* addTimer: the timer is created and addTimerInLoop is posted.
RemoteAdd(t) ==
    /\ Running /\ pc[t] = Idle
    /\ Len(pending) < MaxPending
    /\ \E a \in Addr, d \in Delays, i \in Intervals :
          /\ NewTimer(a, now + d, i)
          /\ pending' = Append(pending, [op |-> "add", timer |-> a])
          /\ pc' = [pc EXCEPT ![t] = <<a, counter_'>>]
    /\ UNCHANGED <<now, timers_, activeTimers_, cancelledTimers_, isHandlingTimeout_,
                   batchVars, fdVars, active, made, cancelled, aborted>>

\* addTimer: return TimerID(timer, timer->getSequence()).  The loop thread may
\* have deleted the timer by now, and another may live at its address.
RemoteAddReturns(t) ==
    /\ Running /\ pc[t] # Idle
    /\ made' = made \cup {[id |-> IdOf(pc[t][1]), seq |-> pc[t][2]]}
    /\ pc' = [pc EXCEPT ![t] = Idle]
    /\ UNCHANGED <<now, heapVars, timers_, activeTimers_, cancelledTimers_,
                   isHandlingTimeout_, batchVars, fdVars, active, pending, cancelled,
                   aborted>>

\* cancelTimer: cancelTimerInLoop is posted.
RemoteCancel(t) ==
    /\ Running /\ pc[t] = Idle
    /\ Len(pending) < MaxPending
    /\ \E m \in made : pending' = Append(pending, [op |-> "cancel", id |-> m.id])
    /\ UNCHANGED <<now, heapVars, timers_, activeTimers_, cancelledTimers_,
                   isHandlingTimeout_, batchVars, fdVars, active, pc, made, cancelled,
                   aborted>>

-----------------------------------------------------------------------------
(* The kernel: the clock, the timerfd, and the poll that reports it.        *)

Tick ==
    /\ Running /\ now < MaxTime
    /\ now' = now + 1
    /\ UNCHANGED <<heapVars, timers_, activeTimers_, cancelledTimers_,
                   isHandlingTimeout_, batchVars, fdVars, active, pending, pc, made,
                   cancelled, aborted>>

TimerfdExpires ==
    /\ Running /\ timerfd = "armed" /\ now >= deadline
    /\ timerfd' = "readable"
    /\ UNCHANGED <<now, heapVars, timers_, activeTimers_, cancelledTimers_,
                   isHandlingTimeout_, batchVars, deadline, active, pending, pc, made,
                   cancelled, aborted>>

PollReturns ==
    /\ Running /\ ~handling /\ ~active /\ timerfd = "readable"
    /\ active' = TRUE
    /\ UNCHANGED <<now, heapVars, timers_, activeTimers_, cancelledTimers_,
                   isHandlingTimeout_, batchVars, fdVars, pending, pc, made, cancelled,
                   aborted>>

-----------------------------------------------------------------------------
Loop == HandleTimeout \/ RunTimer \/ ResetTimers \/ RunPending

Next ==
    \/ Loop \/ LoopAdd \/ LoopCancel
    \/ \E t \in Threads : RemoteAdd(t) \/ RemoteAddReturns(t) \/ RemoteCancel(t)
    \/ Tick \/ TimerfdExpires \/ PollReturns

Spec == Init /\ [][Next]_vars

\* Time passes, the kernel reports what expires, and the loop is not stuck in a
\* callback.
Fairness ==
    /\ WF_vars(Tick) /\ WF_vars(TimerfdExpires) /\ WF_vars(PollReturns)
    /\ WF_vars(HandleTimeout) /\ WF_vars(RunTimer) /\ WF_vars(ResetTimers)
    /\ WF_vars(RunPending)

FairSpec == Spec /\ Fairness

-----------------------------------------------------------------------------
(* Properties                                                              *)

Scheduled == {e[2] : e \in timers_}
Adding == {pending[i].timer : i \in {j \in DOMAIN pending : pending[j].op = "add"}}

\* TimerQueue.h, "the timers_ and activeTimers_ have the same timers": each timer
\* of one set is in the other, under the expiration and the sequence that it has
\* now.  Every assert of TimerQueue.cc on the sets' sizes and on the results of
\* erase rests on this.
SameTimers ==
    /\ TypeOK
    /\ timers_ = {EntryOf(a) : a \in Scheduled}
    /\ activeTimers_ = {IdOf(a) : a \in Scheduled}

\* Each Timer that exists has exactly one place: a posted addTimerInLoop, the two
\* sets, or the batch of handleTimeout.  So nothing reached from TimerQueue is a
\* deleted timer, none is deleted twice, and none leaks.
Ownership ==
    /\ live = Scheduled \cup Batch \cup Adding
    /\ Scheduled \cap Batch = {}
    /\ Adding \cap (Scheduled \cup Batch) = {}
    /\ \A i, j \in DOMAIN pending :
          pending[i].op = "add" /\ pending[j] = pending[i] => i = j

\* Outside handleTimeout, a timer that is waiting has the timerfd set for it, at
\* its own time at the latest, or already expired; a cancellation or an insertion
\* by another callback of the same iteration does not undo this.
TimerfdCovers ==
    ~handling /\ timers_ # {} =>
        \/ timerfd = "readable"
        \/ timerfd = "armed" /\ \A e \in timers_ : deadline <= e[1] \/ deadline <= now

\* cancelTimer: a timer that was cancelled while it was waiting or in the batch of
\* handleTimeout is never waiting again; until resetTimers it is remembered.
CancelHolds ==
    /\ \A a \in Scheduled : mem[a].seq \notin cancelled
    /\ \A a \in Batch : mem[a].seq \in cancelled => IdOf(a) \in cancelledTimers_

\* handleTimeout: every timer that is waiting, and due before the clock's bound,
\* is taken out to be run, or cancelled, without any further call.
Expires ==
    \A a \in Addr, s \in Seqs :
        (<<a, s>> \in activeTimers_ /\ mem[a].expiration <= MaxTime)
            ~> (<<a, s>> \notin activeTimers_ \/ aborted)
=============================================================================
