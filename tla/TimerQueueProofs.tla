-------------------------- MODULE TimerQueueProofs --------------------------
(***************************************************************************)
(* The safety properties of TimerQueue, for any heap, any threads, delays  *)
(* and intervals, and any bounds.                                          *)
(***************************************************************************)
EXTENDS TimerQueue, SequenceTheorems, TLAPS

\* Sequences are given once: a Timer that exists has one, and so has the one whose
\* address a thread in addTimer still holds; no two addresses have the same.
SequencesOK ==
    /\ \A a \in live : mem[a].seq # 0
    /\ \A t \in Threads : pc[t] # Idle => mem[pc[t][1]].seq # 0
    /\ \A a \in Addr : mem[a].seq <= counter_
    /\ \A a, b \in Addr : mem[a].seq = mem[b].seq => a = b \/ mem[a].seq = 0

\* The inductive invariant behind SameTimers and Ownership.
OwnershipInv == SameTimers /\ Ownership /\ SequencesOK

\* The one behind CancelHolds: only sequences that were given are cancelled, and no
\* timer outside the batch has a cancelled one, the timers still being added included.
CancelInv ==
    /\ cancelled \subseteq 1..counter_
    /\ \A a \in live \ Batch : mem[a].seq \notin cancelled
    /\ \A a \in Batch : mem[a].seq \in cancelled => IdOf(a) \in cancelledTimers_

-----------------------------------------------------------------------------
(* The sets as functions of the timers that are in them                    *)

EntriesOf(m, S) == {<<m[a].expiration, a>> : a \in S}
IdsOf(m, S) == {<<a, m[a].seq>> : a \in S}
AddressesOf(E) == {e[2] : e \in E}
AddingOf(q) == {q[i].timer : i \in {j \in DOMAIN q : q[j].op = "add"}}
UniqueAdds(q) == \A i, j \in DOMAIN q : q[i].op = "add" /\ q[j] = q[i] => i = j

Functors == AddFunctor \cup CancelFunctor

\* The addresses of the entries of a set of timers are these timers.
LEMMA Projection ==
    ASSUME NEW m, NEW S
    PROVE AddressesOf(EntriesOf(m, S)) = S
<1>1. \A a \in S : <<m[a].expiration, a>> \in EntriesOf(m, S) /\ <<m[a].expiration, a>>[2] = a
  BY DEF EntriesOf
<1>2. \A e \in EntriesOf(m, S) : e[2] \in S
  BY DEF EntriesOf
<1> QED
  BY <1>1, <1>2 DEF AddressesOf

\* A post of addTimerInLoop for a timer that is not being added.
LEMMA AppendAdd ==
    ASSUME NEW q \in Seq(Functors), NEW a \in Addr, a \notin AddingOf(q), UniqueAdds(q)
    PROVE LET r == Append(q, [op |-> "add", timer |-> a])
          IN /\ r \in Seq(Functors)
             /\ AddingOf(r) = AddingOf(q) \cup {a}
             /\ UniqueAdds(r)
<1> DEFINE f == [op |-> "add", timer |-> a]
           r == Append(q, f)
<1>1. f \in Functors
  BY DEF Functors, AddFunctor
<1>2. /\ r \in Seq(Functors) /\ Len(q) \in Nat /\ Len(r) = Len(q) + 1
      /\ DOMAIN q = 1..Len(q) /\ DOMAIN r = 1..(Len(q) + 1)
      /\ r[Len(q) + 1] = f
      /\ \A i \in 1..Len(q) : r[i] = q[i]
  BY <1>1
<1>3. f.op = "add" /\ f.timer = a
  OBVIOUS
<1> HIDE DEF f, r
<1>4. AddingOf(r) = AddingOf(q) \cup {a}
  BY <1>2, <1>3 DEF AddingOf
<1>5. \A i \in 1..Len(q) : q[i] # f
  BY <1>2, <1>3 DEF AddingOf
<1>6. UniqueAdds(r)
  BY <1>2, <1>5 DEF UniqueAdds
<1> QED
  BY <1>2, <1>4, <1>6 DEF r, f

\* A post of cancelTimerInLoop.
LEMMA AppendCancel ==
    ASSUME NEW q \in Seq(Functors), NEW id \in TimerID, UniqueAdds(q)
    PROVE LET r == Append(q, [op |-> "cancel", id |-> id])
          IN /\ r \in Seq(Functors)
             /\ AddingOf(r) = AddingOf(q)
             /\ UniqueAdds(r)
<1> DEFINE f == [op |-> "cancel", id |-> id]
           r == Append(q, f)
<1>1. f \in Functors
  BY DEF Functors, CancelFunctor
<1>2. /\ r \in Seq(Functors) /\ Len(q) \in Nat /\ Len(r) = Len(q) + 1
      /\ DOMAIN q = 1..Len(q) /\ DOMAIN r = 1..(Len(q) + 1)
      /\ r[Len(q) + 1] = f
      /\ \A i \in 1..Len(q) : r[i] = q[i]
  BY <1>1
<1>3. f.op # "add"
  OBVIOUS
<1> HIDE DEF f, r
<1>4. AddingOf(r) = AddingOf(q)
  BY <1>2, <1>3 DEF AddingOf
<1>5. UniqueAdds(r)
  BY <1>2, <1>3 DEF UniqueAdds
<1> QED
  BY <1>2, <1>4, <1>5 DEF r, f

\* doPendingFunctors takes the first functor.
LEMMA TakeFunctor ==
    ASSUME NEW q \in Seq(Functors), q # <<>>, UniqueAdds(q)
    PROVE /\ Tail(q) \in Seq(Functors)
          /\ Head(q) \in Functors
          /\ UniqueAdds(Tail(q))
          /\ Head(q).op = "add" => /\ Head(q).timer \in AddingOf(q)
                                   /\ AddingOf(Tail(q)) = AddingOf(q) \ {Head(q).timer}
          /\ Head(q).op = "cancel" => AddingOf(Tail(q)) = AddingOf(q)
<1> DEFINE r == Tail(q)
<1>1. /\ r \in Seq(Functors) /\ Len(q) \in Nat /\ Len(q) > 0
      /\ DOMAIN q = 1..Len(q) /\ DOMAIN r = 1..(Len(q) - 1)
      /\ Head(q) = q[1]
      /\ \A i \in 1..(Len(q) - 1) : r[i] = q[i + 1]
      /\ \A i \in 1..Len(q) : q[i] \in Functors
  OBVIOUS
<1> HIDE DEF r
<1>2. UniqueAdds(r)
  <2> SUFFICES ASSUME NEW i \in DOMAIN r, NEW j \in DOMAIN r, r[i].op = "add", r[j] = r[i]
               PROVE i = j
    BY DEF UniqueAdds
  <2>1. /\ i + 1 \in DOMAIN q /\ j + 1 \in DOMAIN q
        /\ q[i + 1] = r[i] /\ q[j + 1] = r[j] /\ i \in Nat /\ j \in Nat
    BY <1>1
  <2>2. i + 1 = j + 1
    BY <2>1 DEF UniqueAdds
  <2> QED
    BY <2>1, <2>2
<1>3. /\ AddingOf(r) \subseteq AddingOf(q)
      /\ \A a \in AddingOf(q) : a \in AddingOf(r) \/ (q[1].op = "add" /\ a = q[1].timer)
  <2>1. \A i \in DOMAIN r : i + 1 \in DOMAIN q /\ r[i] = q[i + 1]
    BY <1>1
  <2>2. \A i \in DOMAIN q : i = 1 \/ (i - 1 \in DOMAIN r /\ r[i - 1] = q[i])
    BY <1>1
  <2>3. ASSUME NEW a \in AddingOf(r)
        PROVE a \in AddingOf(q)
    <3>1. PICK i \in DOMAIN r : r[i].op = "add" /\ r[i].timer = a
      BY DEF AddingOf
    <3>2. i + 1 \in DOMAIN q /\ q[i + 1].op = "add" /\ q[i + 1].timer = a
      BY <2>1, <3>1
    <3> QED
      BY <3>2 DEF AddingOf
  <2>4. ASSUME NEW a \in AddingOf(q)
        PROVE a \in AddingOf(r) \/ (q[1].op = "add" /\ a = q[1].timer)
    <3>1. PICK i \in DOMAIN q : q[i].op = "add" /\ q[i].timer = a
      BY DEF AddingOf
    <3>2. CASE i = 1
      BY <3>1, <3>2
    <3>3. CASE i # 1
      <4>1. i - 1 \in DOMAIN r /\ r[i - 1].op = "add" /\ r[i - 1].timer = a
        BY <2>2, <3>1, <3>3
      <4> QED
        BY <4>1 DEF AddingOf
    <3> QED
      BY <3>2, <3>3
  <2> QED
    BY <2>3, <2>4
<1>4. ASSUME q[1].op = "add"
      PROVE q[1].timer \in AddingOf(q) /\ q[1].timer \notin AddingOf(r)
  <2>1. q[1].timer \in AddingOf(q)
    BY <1>1, <1>4 DEF AddingOf
  <2>2. ASSUME q[1].timer \in AddingOf(r)
        PROVE FALSE
    <3>1. PICK i \in DOMAIN r : r[i].op = "add" /\ r[i].timer = q[1].timer
      BY <2>2 DEF AddingOf
    <3>2. /\ i + 1 \in DOMAIN q /\ i + 1 # 1 /\ q[i + 1].op = "add"
          /\ q[i + 1].timer = q[1].timer /\ 1 \in DOMAIN q
      BY <1>1, <3>1
    <3>3. q[i + 1] = q[1]
      BY <1>1, <1>4, <3>2 DEF Functors, AddFunctor, CancelFunctor
    <3> QED
      BY <1>4, <3>2, <3>3 DEF UniqueAdds
  <2> QED
    BY <2>1, <2>2
<1>5. q[1].op = "cancel" => AddingOf(r) = AddingOf(q)
  BY <1>3
<1>6. q[1].op = "add" => AddingOf(r) = AddingOf(q) \ {q[1].timer}
  BY <1>3, <1>4
<1>7. q[1] \in Functors
  BY <1>1
<1> QED
  BY <1>1, <1>2, <1>4, <1>5, <1>6, <1>7, Zenon DEF r

-----------------------------------------------------------------------------
(* Each timer has one place                                                *)

SameSets == timers_ = EntriesOf(mem, Scheduled) /\ activeTimers_ = IdsOf(mem, Scheduled)

\* OwnershipInv, in the words of the lemmas above.
LEMMA Shape ==
    ASSUME OwnershipInv
    PROVE /\ TypeOK /\ SequencesOK /\ SameSets
          /\ Scheduled = AddressesOf(timers_)
          /\ Batch = AddressesOf(expired \cup ran)
          /\ live = Scheduled \cup Batch \cup AddingOf(pending)
          /\ Scheduled \cap Batch = {}
          /\ AddingOf(pending) \cap (Scheduled \cup Batch) = {}
          /\ UniqueAdds(pending)
          /\ Scheduled \subseteq Addr /\ Batch \subseteq Addr
<1>1. /\ TypeOK /\ SequencesOK
      /\ Scheduled = AddressesOf(timers_)
      /\ Batch = AddressesOf(expired \cup ran)
      /\ live = Scheduled \cup Batch \cup AddingOf(pending)
      /\ Scheduled \cap Batch = {}
      /\ AddingOf(pending) \cap (Scheduled \cup Batch) = {}
      /\ UniqueAdds(pending)
  BY Zenon DEF OwnershipInv, SameTimers, Ownership, Scheduled, Batch, Adding, AddressesOf,
               AddingOf, UniqueAdds
<1>2. SameSets
  BY Zenon DEF OwnershipInv, SameTimers, SameSets, EntriesOf, IdsOf, EntryOf, IdOf
<1>3. live \subseteq Addr
  BY <1>1 DEF TypeOK
<1> QED
  BY <1>1, <1>2, <1>3

\* And back, after a step: it is enough to say which timers are in the sets.
LEMMA Unshape ==
    ASSUME NEW S, NEW B,
           TypeOK', SequencesOK',
           timers_' = EntriesOf(mem', S), activeTimers_' = IdsOf(mem', S),
           B = AddressesOf(expired' \cup ran'),
           live' = S \cup B \cup AddingOf(pending'),
           S \cap B = {},
           AddingOf(pending') \cap (S \cup B) = {},
           UniqueAdds(pending')
    PROVE OwnershipInv' /\ Scheduled' = S /\ Batch' = B
<1>1. Scheduled' = S
  BY Projection, Zenon DEF Scheduled, AddressesOf
<1>2. Batch' = B /\ Adding' = AddingOf(pending')
  BY Zenon DEF Batch, AddressesOf, Adding, AddingOf
<1>3. SameTimers'
  BY <1>1, Zenon DEF SameTimers, EntriesOf, IdsOf, EntryOf, IdOf
<1>4. Ownership'
  BY <1>1, <1>2, Zenon DEF Ownership, UniqueAdds
<1> QED
  BY <1>1, <1>2, <1>3, <1>4 DEF OwnershipInv

\* A timer that is waiting is in both sets under its own keys.
LEMMA Waiting ==
    ASSUME OwnershipInv
    PROVE /\ \A e \in timers_ : e[2] \in Scheduled /\ e = EntryOf(e[2])
          /\ \A id \in activeTimers_ : id[1] \in Scheduled /\ id = IdOf(id[1])
          /\ \A a \in Scheduled : EntryOf(a) \in timers_ /\ IdOf(a) \in activeTimers_
<1>1. SameSets
  BY Shape
<1>2. \A e \in EntriesOf(mem, Scheduled) : e[2] \in Scheduled /\ e = EntryOf(e[2])
  BY DEF EntriesOf, EntryOf
<1>3. \A id \in IdsOf(mem, Scheduled) : id[1] \in Scheduled /\ id = IdOf(id[1])
  BY DEF IdsOf, IdOf
<1>4. \A a \in Scheduled : EntryOf(a) \in EntriesOf(mem, Scheduled)
                          /\ IdOf(a) \in IdsOf(mem, Scheduled)
  BY DEF EntriesOf, IdsOf, EntryOf, IdOf
<1> QED
  BY <1>1, <1>2, <1>3, <1>4, Zenon DEF SameSets

\* new Timer: the address is taken, and its sequence is new.
LEMMA NewTimerFacts ==
    ASSUME TypeOK, SequencesOK,
           NEW a \in Addr, NEW d \in Delays, NEW i \in Intervals,
           NewTimer(a, now + d, i)
    PROVE /\ a \notin live /\ live' = live \cup {a}
          /\ mem' \in [Addr -> Timer] /\ counter_' \in 1..MaxSeq
          /\ counter_' = counter_ + 1
          /\ \A b \in Addr \ {a} : mem'[b] = mem[b]
          /\ mem'[a].seq = counter_' /\ mem'[a].expiration \in Nat
          /\ mem'[a].expiration = now + d
<1>1. now + d \in Nat /\ i \in Nat /\ counter_ \in 0..MaxSeq /\ MaxSeq \in Nat
  BY DelaysAssumption, IntervalsAssumption, BoundsAssumption DEF TypeOK
<1>2. mem \in [Addr -> Timer]
  BY DEF TypeOK
<1>3. counter_ + 1 \in 1..MaxSeq
  BY <1>1 DEF NewTimer
<1>4. [seq |-> counter_ + 1, expiration |-> now + d, interval |-> i] \in Timer
  BY <1>1, <1>3 DEF Timer
<1> QED
  BY <1>1, <1>2, <1>3, <1>4 DEF NewTimer

\* Sequences stay unique when a timer is created.
LEMMA NewTimerSequences ==
    ASSUME TypeOK, SequencesOK,
           NEW a \in Addr, NEW d \in Delays, NEW i \in Intervals,
           NewTimer(a, now + d, i),
           \A t \in Threads : pc'[t] # Idle => pc'[t] = pc[t] \/ pc'[t][1] = a,
           \A t \in Threads : pc[t] # Idle => pc[t][1] \in Addr
    PROVE SequencesOK'
<1>1. /\ live' = live \cup {a} /\ mem' \in [Addr -> Timer]
      /\ counter_ \in Nat /\ counter_' = counter_ + 1
      /\ \A b \in Addr \ {a} : mem'[b] = mem[b]
      /\ mem'[a].seq = counter_'
      /\ live \subseteq Addr
      /\ \A b \in Addr : mem[b].seq \in Nat
  <2>1. \A b \in Addr : mem[b].seq \in Nat
    BY DEF TypeOK, Timer
  <2> QED
    BY <2>1, NewTimerFacts, BoundsAssumption DEF TypeOK
<1>2. \A b \in Addr : mem[b].seq <= counter_
  BY DEF SequencesOK
<1>3. \A b \in Addr : mem'[b].seq <= counter_'
  BY <1>1, <1>2
<1>4. \A b \in live' : mem'[b].seq # 0
  BY <1>1 DEF SequencesOK
<1>5. \A t \in Threads : pc'[t] # Idle => mem'[pc'[t][1]].seq # 0
  <2> SUFFICES ASSUME NEW t \in Threads, pc'[t] # Idle
               PROVE mem'[pc'[t][1]].seq # 0
    OBVIOUS
  <2>1. CASE pc'[t][1] = a
    BY <1>1, <2>1
  <2>2. CASE pc'[t][1] # a /\ pc'[t] = pc[t]
    BY <1>1, <2>2 DEF SequencesOK
  <2> QED
    BY <2>1, <2>2
<1>6. \A b, c \in Addr : mem'[b].seq = mem'[c].seq => b = c \/ mem'[b].seq = 0
  <2> SUFFICES ASSUME NEW b \in Addr, NEW c \in Addr, mem'[b].seq = mem'[c].seq
               PROVE b = c \/ mem'[b].seq = 0
    OBVIOUS
  <2>1. CASE b = a \/ c = a
    BY <1>1, <1>2, <2>1
  <2>2. CASE b # a /\ c # a
    BY <1>1, <2>2 DEF SequencesOK
  <2> QED
    BY <2>1, <2>2
<1> QED
  BY <1>3, <1>4, <1>5, <1>6 DEF SequencesOK

\* cancelTimerInLoop takes at most one timer out of its place and deletes it.
LEMMA CancelInLoop ==
    ASSUME OwnershipInv, NEW id \in TimerID, cancelTimerInLoop(id), UNCHANGED mem
    PROVE /\ \E D \in SUBSET Scheduled :
                /\ timers_' = EntriesOf(mem', Scheduled \ D)
                /\ activeTimers_' = IdsOf(mem', Scheduled \ D)
                /\ live' = live \ D
                /\ (\E a \in D : TRUE) => D = {id[1]} /\ id = IdOf(id[1])
          /\ timers_' \subseteq timers_ /\ activeTimers_' \subseteq activeTimers_
          /\ cancelledTimers_' \subseteq cancelledTimers_ \cup {id}
          /\ cancelled' \subseteq cancelled \cup {id[2]}
          /\ aborted' \in BOOLEAN
<1>1. TypeOK /\ SameSets
  BY Shape
<1>2. CASE id \in activeTimers_
  <2>1. /\ EraseTimer(id) /\ live' = live \ {id[1]} /\ cancelled' = cancelled \cup {id[2]}
        /\ cancelledTimers_' = cancelledTimers_ /\ aborted' = aborted
    BY <1>2, Zenon DEF cancelTimerInLoop
  <2>2. id[1] \in Scheduled /\ id = IdOf(id[1])
    BY <1>2, Waiting, Zenon
  <2>3. EntriesOf(mem, {id[1]}) = {EntryOf(id[1])} /\ IdsOf(mem, {id[1]}) = {id}
    BY <2>2 DEF EntriesOf, IdsOf, EntryOf, IdOf
  <2>4. timers_' = timers_ \ EntriesOf(mem, {id[1]}) /\ activeTimers_' = activeTimers_ \ IdsOf(mem, {id[1]})
    BY <2>1, <2>3, Zenon DEF EraseTimer
  <2>5. /\ timers_' = EntriesOf(mem, Scheduled \ {id[1]})
        /\ activeTimers_' = IdsOf(mem, Scheduled \ {id[1]})
    <3>1. /\ EntriesOf(mem, Scheduled) \ EntriesOf(mem, {id[1]})
                = EntriesOf(mem, Scheduled \ {id[1]})
          /\ IdsOf(mem, Scheduled) \ IdsOf(mem, {id[1]}) = IdsOf(mem, Scheduled \ {id[1]})
      BY DEF EntriesOf, IdsOf
    <3> QED
      BY <1>1, <2>4, <3>1, Zenon DEF SameSets
  <2>6. timers_' \subseteq timers_ /\ activeTimers_' \subseteq activeTimers_
    BY <2>4
  <2>7. aborted' \in BOOLEAN
    BY <1>1, <2>1, Zenon DEF TypeOK
  <2>8. \E D \in SUBSET Scheduled :
            /\ timers_' = EntriesOf(mem', Scheduled \ D)
            /\ activeTimers_' = IdsOf(mem', Scheduled \ D)
            /\ live' = live \ D
            /\ (\E a \in D : TRUE) => D = {id[1]} /\ id = IdOf(id[1])
    <3>1. {id[1]} \in SUBSET Scheduled
      BY <2>2
    <3> QED
      BY <2>1, <2>2, <2>5, <3>1, Zenon
  <2>9. /\ cancelledTimers_' \subseteq cancelledTimers_ \cup {id}
        /\ cancelled' \subseteq cancelled \cup {id[2]}
    BY <2>1
  <2> QED
    BY <2>6, <2>7, <2>8, <2>9, Zenon
<1>3. CASE id \notin activeTimers_
  <2>1. timers_' = timers_ /\ activeTimers_' = activeTimers_ /\ live' = live
    BY <1>3, Zenon DEF cancelTimerInLoop
  <2>2. \E D \in SUBSET Scheduled :
            /\ timers_' = EntriesOf(mem', Scheduled \ D)
            /\ activeTimers_' = IdsOf(mem', Scheduled \ D)
            /\ live' = live \ D
            /\ (\E a \in D : TRUE) => D = {id[1]} /\ id = IdOf(id[1])
    <3>1. PICK D : D = Scheduled \ Scheduled
      OBVIOUS
    <3>2. D \in SUBSET Scheduled /\ Scheduled \ D = Scheduled /\ live \ D = live /\ ~\E a \in D : TRUE
      BY <3>1
    <3> QED
      BY <1>1, <2>1, <3>2, Zenon DEF SameSets
  <2>3. /\ cancelledTimers_' \subseteq cancelledTimers_ \cup {id} /\ aborted' \in BOOLEAN
        /\ cancelled' \subseteq cancelled \cup {id[2]}
    <3>1. CASE isHandlingTimeout_
      <4>1. /\ aborted' = (id \in cancelledTimers_)
            /\ cancelledTimers_' = cancelledTimers_ \cup {id}
            /\ cancelled' = cancelled \cup {IdOf(a)[2] : a \in {b \in Batch : IdOf(b) = id}}
        BY <1>3, <3>1, Zenon DEF cancelTimerInLoop
      <4>2. aborted' \in BOOLEAN
        BY <4>1
      <4>3. {IdOf(a)[2] : a \in {b \in Batch : IdOf(b) = id}} \subseteq {id[2]}
        <5> SUFFICES ASSUME NEW a \in Batch, IdOf(a) = id
                     PROVE IdOf(a)[2] = id[2]
          OBVIOUS
        <5> QED
          OBVIOUS
      <4> QED
        BY <4>1, <4>2, <4>3
    <3>2. CASE ~isHandlingTimeout_
      <4>1. cancelledTimers_' = cancelledTimers_ /\ cancelled' = cancelled /\ aborted' = aborted
        BY <1>3, <3>2, Zenon DEF cancelTimerInLoop
      <4>2. aborted' \in BOOLEAN
        BY <1>1, <4>1, Zenon DEF TypeOK
      <4> QED
        BY <4>1, <4>2
    <3> QED
      BY <3>1, <3>2
  <2> QED
    BY <2>1, <2>2, <2>3
<1> QED
  BY <1>2, <1>3

\* Nothing else about sequences changes when no timer is created or restarted.
LEMMA SequencesStay ==
    ASSUME SequencesOK, UNCHANGED <<mem, counter_, pc>>, live' \subseteq live
    PROVE SequencesOK'
BY DEF SequencesOK

\* cancelTimerInLoop called in the loop thread.
LEMMA LoopCancelKeeps ==
    ASSUME OwnershipInv, LoopCancel
    PROVE OwnershipInv'
<1>1. PICK m \in made : cancelTimerInLoop(m.id)
  BY DEF LoopCancel
<1>2. TypeOK /\ SequencesOK
  BY Shape
<1>3. m.id \in TimerID
  BY <1>2 DEF TypeOK
<1>4. /\ now' = now /\ mem' = mem /\ counter_' = counter_
      /\ isHandlingTimeout_' = isHandlingTimeout_ /\ handling' = handling
      /\ batchNow' = batchNow /\ expired' = expired /\ ran' = ran
      /\ timerfd' = timerfd /\ deadline' = deadline /\ active' = active
      /\ pending' = pending /\ pc' = pc /\ made' = made
  BY Zenon DEF LoopCancel, batchVars, fdVars
<1>5. PICK D \in SUBSET Scheduled :
            /\ timers_' = EntriesOf(mem', Scheduled \ D)
            /\ activeTimers_' = IdsOf(mem', Scheduled \ D)
            /\ live' = live \ D
  BY <1>1, <1>3, <1>4, CancelInLoop, Zenon
<1>6. /\ timers_' \subseteq timers_ /\ activeTimers_' \subseteq activeTimers_
      /\ cancelledTimers_' \subseteq cancelledTimers_ \cup {m.id}
      /\ cancelled' \subseteq cancelled \cup {m.id[2]}
      /\ aborted' \in BOOLEAN
  BY <1>1, <1>3, <1>4, CancelInLoop, Zenon
<1>7. TypeOK'
  <2>1. m.id[2] \in Seqs
    BY <1>3 DEF TimerID
  <2>2. /\ timers_' \subseteq Entry /\ activeTimers_' \subseteq TimerID
        /\ cancelledTimers_' \subseteq TimerID /\ cancelled' \subseteq Seqs /\ live' \subseteq Addr
    BY <1>2, <1>3, <1>5, <1>6, <2>1 DEF TypeOK
  <2> QED
    BY <1>2, <1>4, <1>6, <2>2, Zenon DEF TypeOK
<1>8. SequencesOK'
  BY <1>2, <1>4, <1>5, SequencesStay
<1> DEFINE S == Scheduled \ D
           B == Batch
<1>9. /\ B = AddressesOf(expired' \cup ran')
      /\ live' = S \cup B \cup AddingOf(pending')
      /\ S \cap B = {}
      /\ AddingOf(pending') \cap (S \cup B) = {}
      /\ UniqueAdds(pending')
  <2>1. /\ Batch = AddressesOf(expired \cup ran)
        /\ live = Scheduled \cup Batch \cup AddingOf(pending)
        /\ Scheduled \cap Batch = {}
        /\ AddingOf(pending) \cap (Scheduled \cup Batch) = {}
        /\ UniqueAdds(pending)
    BY Shape
  <2> QED
    BY <1>4, <1>5, <2>1
<1> QED
  BY <1>5, <1>7, <1>8, <1>9, Unshape, Zenon

\* The timerfd keeps its type when a timer is added.
LEMMA AddTimerfdType ==
    ASSUME TypeOK, NEW a, addTimerInLoop(a), mem'[a].expiration \in Nat
    PROVE timerfd' \in {"off", "armed", "readable"} /\ deadline' \in Nat
<1>1. now \in Nat
  BY DEF TypeOK
<1>2. CASE needResetTimerfd(mem'[a].expiration)
  <2>1. timerfd' = "armed" /\ deadline' = howMuchTimeFromNow(mem'[a].expiration)
    BY <1>2, Zenon DEF addTimerInLoop, resetTimerfd
  <2> QED
    BY <1>1, <2>1 DEF howMuchTimeFromNow
<1>3. CASE ~needResetTimerfd(mem'[a].expiration)
  <2>1. timerfd' = timerfd /\ deadline' = deadline
    BY <1>3, Zenon DEF addTimerInLoop, fdVars
  <2> QED
    BY <2>1, Zenon DEF TypeOK
<1> QED
  BY <1>2, <1>3

\* A posted addTimerInLoop or cancelTimerInLoop is run.
LEMMA RunPendingKeeps ==
    ASSUME OwnershipInv, RunPending
    PROVE OwnershipInv'
<1>1. /\ TypeOK /\ SequencesOK /\ SameSets
      /\ Batch = AddressesOf(expired \cup ran)
      /\ live = Scheduled \cup Batch \cup AddingOf(pending)
      /\ Scheduled \cap Batch = {}
      /\ AddingOf(pending) \cap (Scheduled \cup Batch) = {}
      /\ UniqueAdds(pending)
  BY Shape
<1>2. pending \in Seq(Functors) /\ pending # <<>> /\ pending' = Tail(pending)
  BY <1>1, Zenon DEF TypeOK, RunPending, Functors
<1>3. PICK f : f = Head(pending)
  OBVIOUS
<1>4. /\ pending' \in Seq(Functors) /\ f \in Functors /\ UniqueAdds(pending')
      /\ f.op = "add" => /\ f.timer \in AddingOf(pending)
                         /\ AddingOf(pending') = AddingOf(pending) \ {f.timer}
      /\ f.op = "cancel" => AddingOf(pending') = AddingOf(pending)
  BY <1>1, <1>2, <1>3, TakeFunctor, Zenon
<1>5. /\ now' = now /\ isHandlingTimeout_' = isHandlingTimeout_ /\ handling' = handling
      /\ batchNow' = batchNow /\ expired' = expired /\ ran' = ran
      /\ active' = active /\ pc' = pc /\ made' = made
  BY Zenon DEF RunPending, batchVars
<1>6. pending' \in Seq(AddFunctor \cup CancelFunctor)
  BY <1>4, Zenon DEF Functors
<1>7. CASE f.op = "add"
  <2>1. /\ mem' = mem /\ live' = live /\ counter_' = counter_ /\ cancelledTimers_' = cancelledTimers_
        /\ cancelled' = cancelled /\ aborted' = aborted /\ addTimerInLoop(f.timer)
    <3>1. f.op # "cancel"
      BY <1>7
    <3> QED
      BY <1>3, <1>7, <3>1 DEF RunPending, heapVars
  <2>2. PICK a : a = f.timer
    OBVIOUS
  <2>3. a \in AddingOf(pending) /\ a \in live /\ a \in Addr /\ a \notin Scheduled
    BY <1>1, <1>4, <1>7, <2>2 DEF TypeOK
  <2>4. /\ timers_' = timers_ \cup {<<mem'[a].expiration, a>>}
        /\ activeTimers_' = activeTimers_ \cup {<<a, mem'[a].seq>>}
    BY <2>1, <2>2, Zenon DEF addTimerInLoop, insert
  <2>5. /\ timers_' = EntriesOf(mem', Scheduled \cup {a})
        /\ activeTimers_' = IdsOf(mem', Scheduled \cup {a})
    <3>1. \A b \in Scheduled : mem'[b] = mem[b]
      BY <2>1
    <3>2. /\ EntriesOf(mem, Scheduled) \cup {<<mem'[a].expiration, a>>}
                = EntriesOf(mem', Scheduled \cup {a})
          /\ IdsOf(mem, Scheduled) \cup {<<a, mem'[a].seq>>} = IdsOf(mem', Scheduled \cup {a})
      BY <3>1 DEF EntriesOf, IdsOf
    <3> QED
      BY <1>1, <2>4, <3>2, Zenon DEF SameSets
  <2>6. mem[a] \in Timer /\ mem[a].seq # 0
    BY <1>1, <2>3 DEF TypeOK, SequencesOK
  <2>7. <<mem'[a].expiration, a>> \in Entry /\ <<a, mem'[a].seq>> \in TimerID
    BY <2>1, <2>3, <2>6, BoundsAssumption DEF Timer, Entry, TimerID, Seqs
  <2>8. timerfd' \in {"off", "armed", "readable"} /\ deadline' \in Nat
    <3>1. mem'[a].expiration \in Nat
      BY <2>1, <2>6 DEF Timer
    <3> QED
      BY <1>1, <2>1, <2>2, <3>1, AddTimerfdType
  <2>9. TypeOK'
    <3>1. timers_' \subseteq Entry /\ activeTimers_' \subseteq TimerID
      BY <1>1, <2>4, <2>7 DEF TypeOK
    <3> QED
      BY <1>1, <1>5, <1>6, <2>1, <2>8, <3>1, Zenon DEF TypeOK
  <2>10. SequencesOK'
    BY <1>1, <1>5, <2>1, SequencesStay
  <2> DEFINE S == Scheduled \cup {a}
             B == Batch
  <2>11. /\ B = AddressesOf(expired' \cup ran')
         /\ live' = S \cup B \cup AddingOf(pending')
         /\ S \cap B = {}
         /\ AddingOf(pending') \cap (S \cup B) = {}
         /\ UniqueAdds(pending')
    BY <1>1, <1>4, <1>5, <1>7, <2>1, <2>2, <2>3
  <2> QED
    BY <2>5, <2>9, <2>10, <2>11, Unshape, Zenon
<1>8. CASE f.op = "cancel"
  <2>1. f.id \in TimerID
    BY <1>4, <1>8 DEF Functors, AddFunctor, CancelFunctor
  <2>2. /\ cancelTimerInLoop(f.id) /\ mem' = mem /\ counter_' = counter_
        /\ timerfd' = timerfd /\ deadline' = deadline
    <3>1. f.op # "add"
      BY <1>8
    <3> QED
      BY <1>3, <1>8, <3>1, Zenon DEF RunPending, fdVars
  <2>3. PICK D \in SUBSET Scheduled :
            /\ timers_' = EntriesOf(mem', Scheduled \ D)
            /\ activeTimers_' = IdsOf(mem', Scheduled \ D)
            /\ live' = live \ D
    BY <2>1, <2>2, CancelInLoop, Zenon
  <2>4. /\ timers_' \subseteq timers_ /\ activeTimers_' \subseteq activeTimers_
        /\ cancelledTimers_' \subseteq cancelledTimers_ \cup {f.id}
        /\ cancelled' \subseteq cancelled \cup {f.id[2]}
        /\ aborted' \in BOOLEAN
    BY <2>1, <2>2, CancelInLoop, Zenon
  <2>5. TypeOK'
    <3>1. f.id[2] \in Seqs
      BY <2>1 DEF TimerID
    <3>2. /\ timers_' \subseteq Entry /\ activeTimers_' \subseteq TimerID
          /\ cancelledTimers_' \subseteq TimerID /\ cancelled' \subseteq Seqs /\ live' \subseteq Addr
      BY <1>1, <2>1, <2>3, <2>4, <3>1 DEF TypeOK
    <3> QED
      BY <1>1, <1>5, <1>6, <2>2, <2>4, <3>2, Zenon DEF TypeOK
  <2>6. SequencesOK'
    BY <1>1, <1>5, <2>2, <2>3, SequencesStay
  <2> DEFINE S == Scheduled \ D
             B == Batch
  <2>7. /\ B = AddressesOf(expired' \cup ran')
        /\ live' = S \cup B \cup AddingOf(pending')
        /\ S \cap B = {}
        /\ AddingOf(pending') \cap (S \cup B) = {}
        /\ UniqueAdds(pending')
    BY <1>1, <1>4, <1>5, <1>8, <2>2, <2>3
  <2> QED
    BY <2>3, <2>5, <2>6, <2>7, Unshape, Zenon
<1>9. f.op = "add" \/ f.op = "cancel"
  BY <1>4 DEF Functors, AddFunctor, CancelFunctor
<1> QED
  BY <1>7, <1>8, <1>9

\* addTimer in the loop thread, also from a callback.
LEMMA LoopAddKeeps ==
    ASSUME OwnershipInv, LoopAdd
    PROVE OwnershipInv'
<1>1. /\ TypeOK /\ SequencesOK /\ SameSets
      /\ Batch = AddressesOf(expired \cup ran)
      /\ live = Scheduled \cup Batch \cup AddingOf(pending)
      /\ Scheduled \cap Batch = {}
      /\ AddingOf(pending) \cap (Scheduled \cup Batch) = {}
      /\ UniqueAdds(pending) /\ Scheduled \subseteq Addr
  BY Shape
<1>2. PICK a \in Addr, d \in Delays, i \in Intervals :
            /\ NewTimer(a, now + d, i) /\ addTimerInLoop(a)
            /\ made' = made \cup {[id |-> <<a, counter_'>>, seq |-> counter_']}
  BY Zenon DEF LoopAdd
<1>3. /\ now' = now /\ cancelledTimers_' = cancelledTimers_
      /\ isHandlingTimeout_' = isHandlingTimeout_ /\ handling' = handling
      /\ batchNow' = batchNow /\ expired' = expired /\ ran' = ran /\ active' = active
      /\ pending' = pending /\ pc' = pc /\ cancelled' = cancelled /\ aborted' = aborted
  BY Zenon DEF LoopAdd, batchVars
<1>4. /\ a \notin live /\ live' = live \cup {a}
      /\ mem' \in [Addr -> Timer] /\ counter_' \in 1..MaxSeq
      /\ \A b \in Addr \ {a} : mem'[b] = mem[b]
      /\ mem'[a].seq = counter_' /\ mem'[a].expiration \in Nat
  BY <1>1, <1>2, NewTimerFacts
<1>5. SequencesOK'
  <2>1. \A t \in Threads : pc[t] # Idle => pc[t][1] \in Addr
    BY <1>1 DEF TypeOK, TimerID
  <2>2. \A t \in Threads : pc'[t] # Idle => pc'[t] = pc[t] \/ pc'[t][1] = a
    BY <1>3
  <2> QED
    BY <1>1, <1>2, <2>1, <2>2, NewTimerSequences
<1>6. /\ timers_' = timers_ \cup {<<mem'[a].expiration, a>>}
      /\ activeTimers_' = activeTimers_ \cup {<<a, mem'[a].seq>>}
  BY <1>2, Zenon DEF addTimerInLoop, insert
<1>7. TypeOK'
  <2>1. timerfd' \in {"off", "armed", "readable"} /\ deadline' \in Nat
    BY <1>1, <1>2, <1>4, AddTimerfdType
  <2>2. <<mem'[a].expiration, a>> \in Entry /\ <<a, mem'[a].seq>> \in TimerID
    BY <1>4 DEF Entry, TimerID, Seqs
  <2>3. timers_' \subseteq Entry /\ activeTimers_' \subseteq TimerID
    BY <1>1, <1>6, <2>2 DEF TypeOK
  <2>4. made' \subseteq [id : TimerID, seq : Seqs]
    <3>1. [id |-> <<a, counter_'>>, seq |-> counter_'] \in [id : TimerID, seq : Seqs]
      BY <1>4 DEF TimerID, Seqs
    <3>2. made \subseteq [id : TimerID, seq : Seqs]
      BY <1>1 DEF TypeOK
    <3> QED
      BY <1>2, <3>1, <3>2
  <2>5. live' \subseteq Addr /\ counter_' \in 0..MaxSeq
    <3>1. counter_' \in 0..MaxSeq
      BY <1>4, BoundsAssumption
    <3>2. live \subseteq Addr
      BY <1>1 DEF TypeOK
    <3> QED
      BY <1>4, <3>1, <3>2
  <2> QED
    BY <1>1, <1>3, <1>4, <2>1, <2>3, <2>4, <2>5, Zenon DEF TypeOK
<1> DEFINE S == Scheduled \cup {a}
           B == Batch
<1>8. timers_' = EntriesOf(mem', S) /\ activeTimers_' = IdsOf(mem', S)
  <2>1. \A b \in Scheduled : mem'[b] = mem[b]
    BY <1>1, <1>4
  <2>2. /\ EntriesOf(mem, Scheduled) \cup {<<mem'[a].expiration, a>>} = EntriesOf(mem', S)
        /\ IdsOf(mem, Scheduled) \cup {<<a, mem'[a].seq>>} = IdsOf(mem', S)
    BY <2>1 DEF EntriesOf, IdsOf
  <2> QED
    BY <1>1, <1>6, <2>2, Zenon DEF SameSets
<1>9. /\ B = AddressesOf(expired' \cup ran')
      /\ live' = S \cup B \cup AddingOf(pending')
      /\ S \cap B = {}
      /\ AddingOf(pending') \cap (S \cup B) = {}
      /\ UniqueAdds(pending')
  BY <1>1, <1>3, <1>4
<1> QED
  BY <1>5, <1>7, <1>8, <1>9, Unshape, Zenon

\* addTimer in another thread: a timer is allocated and posted.
LEMMA RemoteAddKeeps ==
    ASSUME OwnershipInv, NEW t \in Threads, RemoteAdd(t)
    PROVE OwnershipInv'
<1>1. /\ TypeOK /\ SequencesOK /\ SameSets
      /\ Batch = AddressesOf(expired \cup ran)
      /\ live = Scheduled \cup Batch \cup AddingOf(pending)
      /\ Scheduled \cap Batch = {}
      /\ AddingOf(pending) \cap (Scheduled \cup Batch) = {}
      /\ UniqueAdds(pending) /\ Scheduled \subseteq Addr
  BY Shape
<1>2. PICK a \in Addr, d \in Delays, i \in Intervals :
            /\ NewTimer(a, now + d, i)
            /\ pending' = Append(pending, [op |-> "add", timer |-> a])
            /\ pc' = [pc EXCEPT ![t] = <<a, counter_'>>]
  BY Zenon DEF RemoteAdd
<1>3. /\ now' = now /\ timers_' = timers_ /\ activeTimers_' = activeTimers_
      /\ cancelledTimers_' = cancelledTimers_
      /\ isHandlingTimeout_' = isHandlingTimeout_ /\ handling' = handling
      /\ batchNow' = batchNow /\ expired' = expired /\ ran' = ran
      /\ timerfd' = timerfd /\ deadline' = deadline /\ active' = active
      /\ made' = made /\ cancelled' = cancelled /\ aborted' = aborted
  BY Zenon DEF RemoteAdd, batchVars, fdVars
<1>4. /\ a \notin live /\ live' = live \cup {a}
      /\ mem' \in [Addr -> Timer] /\ counter_' \in 1..MaxSeq
      /\ \A b \in Addr \ {a} : mem'[b] = mem[b]
  BY <1>1, <1>2, NewTimerFacts
<1>5. /\ pending' \in Seq(AddFunctor \cup CancelFunctor)
      /\ AddingOf(pending') = AddingOf(pending) \cup {a}
      /\ UniqueAdds(pending')
  <2>1. a \notin AddingOf(pending)
    BY <1>1, <1>4
  <2>2. pending \in Seq(Functors)
    BY <1>1, Zenon DEF TypeOK, Functors
  <2> QED
    BY <1>1, <1>2, <2>1, <2>2, AppendAdd, Zenon DEF Functors
<1>6. pc' \in [Threads -> {Idle} \cup TimerID]
  <2>1. <<a, counter_'>> \in TimerID
    BY <1>4 DEF TimerID, Seqs
  <2> QED
    BY <1>1, <1>2, <2>1 DEF TypeOK
<1>7. SequencesOK'
  <2>1. \A u \in Threads : pc[u] # Idle => pc[u][1] \in Addr
    BY <1>1 DEF TypeOK, TimerID
  <2>2. \A u \in Threads : pc'[u] # Idle => pc'[u] = pc[u] \/ pc'[u][1] = a
    BY <1>1, <1>2 DEF TypeOK
  <2> QED
    BY <1>1, <1>2, <2>1, <2>2, NewTimerSequences
<1>8. TypeOK'
  <2>1. live' \subseteq Addr /\ counter_' \in 0..MaxSeq
    <3>1. counter_' \in 0..MaxSeq
      BY <1>4, BoundsAssumption
    <3>2. live \subseteq Addr
      BY <1>1 DEF TypeOK
    <3> QED
      BY <1>4, <3>1, <3>2
  <2> QED
    BY <1>1, <1>3, <1>4, <1>5, <1>6, <2>1, Zenon DEF TypeOK
<1> DEFINE S == Scheduled
           B == Batch
<1>9. timers_' = EntriesOf(mem', S) /\ activeTimers_' = IdsOf(mem', S)
  <2>1. \A b \in Scheduled : mem'[b] = mem[b]
    BY <1>1, <1>4
  <2>2. EntriesOf(mem, S) = EntriesOf(mem', S) /\ IdsOf(mem, S) = IdsOf(mem', S)
    BY <2>1 DEF EntriesOf, IdsOf
  <2> QED
    BY <1>1, <1>3, <2>2, Zenon DEF SameSets
<1>10. /\ B = AddressesOf(expired' \cup ran')
       /\ live' = S \cup B \cup AddingOf(pending')
       /\ S \cap B = {}
       /\ AddingOf(pending') \cap (S \cup B) = {}
  BY <1>1, <1>3, <1>4, <1>5
<1> QED
  BY <1>5, <1>7, <1>8, <1>9, <1>10, Unshape, Zenon

\* handleTimeout takes the due timers out of both sets.
LEMMA HandleTimeoutKeeps ==
    ASSUME OwnershipInv, HandleTimeout
    PROVE OwnershipInv'
<1>1. /\ TypeOK /\ SequencesOK /\ SameSets
      /\ Batch = AddressesOf(expired \cup ran)
      /\ live = Scheduled \cup Batch \cup AddingOf(pending)
      /\ AddingOf(pending) \cap (Scheduled \cup Batch) = {}
      /\ UniqueAdds(pending) /\ Scheduled \subseteq Addr
  BY Shape
<1>2. /\ now' = now /\ mem' = mem /\ live' = live /\ counter_' = counter_
      /\ ran' = ran /\ deadline' = deadline /\ pending' = pending /\ pc' = pc
      /\ made' = made /\ cancelled' = cancelled /\ aborted' = aborted
      /\ active' = FALSE /\ batchNow' = now /\ cancelledTimers_' = {}
      /\ handling' = TRUE /\ isHandlingTimeout_' = TRUE
      /\ timers_' = timers_ \ expired'
      /\ activeTimers_' = activeTimers_ \ {IdOf(e[2]) : e \in expired'}
      /\ ~handling
  BY Zenon DEF HandleTimeout, heapVars, MarkHandling
<1>3. expired' \subseteq timers_
  BY DEF HandleTimeout
<1>4. expired = {} /\ ran = {}
  BY <1>1, <1>2, Zenon DEF TypeOK
<1>5. Batch = {}
  BY <1>1, <1>4 DEF AddressesOf
<1>6. TypeOK'
  <2>1. timerfd' \in {"off", "armed", "readable"}
    BY <1>1 DEF HandleTimeout, readTimerfd, TypeOK
  <2>2. /\ timers_' \subseteq Entry /\ activeTimers_' \subseteq TimerID
        /\ cancelledTimers_' \subseteq TimerID /\ expired' \subseteq Entry
    BY <1>1, <1>2, <1>3 DEF TypeOK
  <2>3. /\ now' \in Nat /\ batchNow' \in Nat /\ active' \in BOOLEAN /\ handling' \in BOOLEAN
        /\ isHandlingTimeout_' \in BOOLEAN
    BY <1>1, <1>2 DEF TypeOK
  <2>4. (~handling' => expired' = {} /\ ran' = {}) /\ (handling' => isHandlingTimeout_')
    BY <1>2, Zenon
  <2> QED
    BY <1>1, <1>2, <2>1, <2>2, <2>3, <2>4, Zenon DEF TypeOK
<1>7. SequencesOK'
  BY <1>1, <1>2, SequencesStay
<1> DEFINE B == AddressesOf(expired')
           S == Scheduled \ B
<1>8. \A e \in timers_ : e[2] \in Scheduled /\ e = EntryOf(e[2])
  BY Waiting
<1>9. \A id \in activeTimers_ : id[1] \in Scheduled /\ id = IdOf(id[1])
  BY Waiting
<1>10. \A a \in Scheduled : EntryOf(a) \in timers_ /\ IdOf(a) \in activeTimers_
  BY Waiting
<1>11. /\ \A e \in expired' : e[2] \in B
       /\ \A a \in B : a \in Scheduled /\ EntryOf(a) \in expired'
  <2>1. \A e \in expired' : e[2] \in B
    BY DEF AddressesOf
  <2>2. ASSUME NEW a \in B
        PROVE a \in Scheduled /\ EntryOf(a) \in expired'
    <3>1. PICK e \in expired' : e[2] = a
      BY DEF AddressesOf
    <3> QED
      BY <1>3, <1>8, <3>1
  <2> QED
    BY <2>1, <2>2
<1> HIDE DEF B
<1>12. timers_' = EntriesOf(mem', S)
  <2>1. ASSUME NEW e \in timers_'
        PROVE e \in EntriesOf(mem, S)
    <3>1. e \in timers_ /\ e \notin expired'
      BY <1>2
    <3>2. e[2] \in S /\ e = EntryOf(e[2])
      BY <1>8, <1>11, <3>1
    <3> QED
      BY <3>2, Zenon DEF EntriesOf, EntryOf
  <2>2. ASSUME NEW a \in S
        PROVE EntryOf(a) \in timers_'
    <3>1. EntryOf(a) \in timers_ /\ EntryOf(a)[2] = a
      BY <1>10 DEF EntryOf
    <3>2. EntryOf(a) \notin expired'
      BY <1>11, <3>1
    <3> QED
      BY <1>2, <3>1, <3>2
  <2>3. \A e \in EntriesOf(mem, S) : \E a \in S : e = EntryOf(a)
    BY Zenon DEF EntriesOf, EntryOf
  <2>4. timers_' = EntriesOf(mem, S)
    BY <2>1, <2>2, <2>3
  <2> QED
    BY <1>2, <2>4
<1>13. activeTimers_' = IdsOf(mem', S)
  <2> DEFINE R == {IdOf(e[2]) : e \in expired'}
  <2>1. \A id \in R : id[1] \in B
    BY <1>11 DEF IdOf
  <2>2. \A a \in B : IdOf(a) \in R
    <3> SUFFICES ASSUME NEW a \in B
                 PROVE IdOf(a) \in R
      OBVIOUS
    <3>1. EntryOf(a) \in expired' /\ EntryOf(a)[2] = a
      BY <1>11 DEF EntryOf
    <3> QED
      BY <3>1
  <2>3. activeTimers_' = activeTimers_ \ R
    BY <1>2
  <2> HIDE DEF R
  <2>4. ASSUME NEW id \in activeTimers_'
        PROVE id \in IdsOf(mem, S)
    <3>1. id[1] \in S /\ id = IdOf(id[1])
      BY <1>9, <2>2, <2>3
    <3> QED
      BY <3>1, Zenon DEF IdsOf, IdOf
  <2>5. ASSUME NEW a \in S
        PROVE IdOf(a) \in activeTimers_'
    <3>1. IdOf(a) \in activeTimers_ /\ IdOf(a)[1] = a
      BY <1>10 DEF IdOf
    <3> QED
      BY <2>1, <2>3, <3>1
  <2>6. \A id \in IdsOf(mem, S) : \E a \in S : id = IdOf(a)
    BY Zenon DEF IdsOf, IdOf
  <2>7. activeTimers_' = IdsOf(mem, S)
    BY <2>4, <2>5, <2>6
  <2> QED
    BY <1>2, <2>7
<1>14. /\ B = AddressesOf(expired' \cup ran')
       /\ live' = S \cup B \cup AddingOf(pending')
       /\ S \cap B = {}
       /\ AddingOf(pending') \cap (S \cup B) = {}
       /\ UniqueAdds(pending')
  <2>1. expired' \cup ran' = expired'
    BY <1>2, <1>4
  <2>2. B = AddressesOf(expired' \cup ran')
    BY <2>1 DEF B
  <2> QED
    BY <1>1, <1>2, <1>5, <1>11, <2>2
<1> QED
  BY <1>6, <1>7, <1>12, <1>13, <1>14, Unshape, Zenon

\* One callback of the batch is run; the batch remains what it was.
LEMMA RunTimerKeeps ==
    ASSUME OwnershipInv, RunTimer
    PROVE OwnershipInv' /\ expired' \cup ran' = expired \cup ran
<1>1. /\ TypeOK /\ SequencesOK /\ SameSets
      /\ Batch = AddressesOf(expired \cup ran)
      /\ live = Scheduled \cup Batch \cup AddingOf(pending)
      /\ Scheduled \cap Batch = {}
      /\ AddingOf(pending) \cap (Scheduled \cup Batch) = {}
      /\ UniqueAdds(pending)
  BY Shape
<1>2. /\ now' = now /\ mem' = mem /\ live' = live /\ counter_' = counter_
      /\ timers_' = timers_ /\ activeTimers_' = activeTimers_
      /\ cancelledTimers_' = cancelledTimers_ /\ isHandlingTimeout_' = isHandlingTimeout_
      /\ handling' = handling /\ batchNow' = batchNow /\ timerfd' = timerfd
      /\ deadline' = deadline /\ active' = active /\ pending' = pending /\ pc' = pc
      /\ made' = made /\ cancelled' = cancelled /\ aborted' = aborted /\ handling
  BY Zenon DEF RunTimer, heapVars, fdVars
<1>3. PICK e \in expired : expired' = expired \ {e} /\ ran' = ran \cup {e}
  BY Zenon DEF RunTimer
<1>4. expired' \cup ran' = expired \cup ran
  BY <1>3
<1>5. TypeOK'
  <2>1. expired' \subseteq Entry /\ ran' \subseteq Entry
    BY <1>1, <1>3 DEF TypeOK
  <2> QED
    BY <1>1, <1>2, <2>1, Zenon DEF TypeOK
<1>6. SequencesOK'
  BY <1>1, <1>2, SequencesStay
<1>7. Batch = AddressesOf(expired' \cup ran')
  BY <1>1, <1>4
<1> QED
  BY <1>1, <1>2, <1>4, <1>5, <1>6, <1>7, Unshape, Zenon DEF SameSets

\* Timer::reset changes the expiration of a timer and nothing else.
LEMMA ResetTimerMem ==
    ASSUME TypeOK, ResetTimers
    PROVE /\ mem' \in [Addr -> Timer]
          /\ \A a \in Addr : mem'[a].seq = mem[a].seq
          /\ \A a \in Addr \ Restarted : mem'[a] = mem[a]
<1>1. mem' = [a \in Addr |-> IF a \in Restarted THEN reset(mem[a], batchNow) ELSE mem[a]]
  BY Zenon DEF ResetTimers
<1>2. batchNow \in Nat /\ \A a \in Addr : mem[a] \in Timer
  BY DEF TypeOK
<1>3. \A a \in Addr : reset(mem[a], batchNow) \in Timer /\ reset(mem[a], batchNow).seq = mem[a].seq
  <2> SUFFICES ASSUME NEW a \in Addr
               PROVE reset(mem[a], batchNow) \in Timer /\ reset(mem[a], batchNow).seq = mem[a].seq
    OBVIOUS
  <2>1. PICK m : m = mem[a]
    OBVIOUS
  <2>2. PICK x : x = IF m.interval > 0 THEN batchNow + m.interval ELSE 0
    OBVIOUS
  <2>3. m \in Timer
    BY <1>2, <2>1
  <2>4. m.interval \in Nat
    BY <2>3 DEF Timer
  <2>5. x \in Nat
    BY <1>2, <2>2, <2>4
  <2>6. reset(m, batchNow) = [m EXCEPT !.expiration = x]
    BY <2>2, Zenon DEF reset
  <2>7. [m EXCEPT !.expiration = x] \in Timer /\ [m EXCEPT !.expiration = x].seq = m.seq
    BY <2>3, <2>5 DEF Timer
  <2> QED
    BY <2>1, <2>6, <2>7
<1>4. \A a \in Addr : /\ a \in Restarted => mem'[a] = reset(mem[a], batchNow)
                      /\ a \notin Restarted => mem'[a] = mem[a]
  BY <1>1
<1>5. DOMAIN mem' = Addr /\ mem' = [a \in Addr |-> mem'[a]]
  BY <1>1
<1>6. \A a \in Addr : mem'[a] \in Timer /\ mem'[a].seq = mem[a].seq
  BY <1>2, <1>3, <1>4
<1>7. mem' \in [Addr -> Timer]
  BY <1>5, <1>6
<1> QED
  BY <1>4, <1>6, <1>7

\* resetTimers schedules the repeating ones that were not cancelled and deletes the rest.
LEMMA ResetTimersKeeps ==
    ASSUME OwnershipInv, ResetTimers
    PROVE OwnershipInv' /\ Scheduled' = Scheduled \cup Restarted /\ Batch' = {}
<1>1. /\ TypeOK /\ SequencesOK /\ SameSets
      /\ live = Scheduled \cup Batch \cup AddingOf(pending)
      /\ Scheduled \cap Batch = {}
      /\ AddingOf(pending) \cap (Scheduled \cup Batch) = {}
      /\ UniqueAdds(pending) /\ Scheduled \subseteq Addr /\ Batch \subseteq Addr
  BY Shape
<1>2. /\ now' = now /\ counter_' = counter_ /\ cancelledTimers_' = cancelledTimers_
      /\ batchNow' = batchNow /\ expired' = expired /\ active' = active
      /\ pending' = pending /\ pc' = pc /\ made' = made /\ cancelled' = cancelled
      /\ aborted' = aborted /\ handling' = FALSE /\ isHandlingTimeout_' = FALSE
      /\ expired = {} /\ ran' = {} /\ live' = live \ Deleted
      /\ timers_' = timers_ \cup {<<mem'[a].expiration, a>> : a \in Restarted}
      /\ activeTimers_' = activeTimers_ \cup {IdOf(a) : a \in Restarted}
  BY Zenon DEF ResetTimers, MarkHandling
<1>3. /\ mem' \in [Addr -> Timer]
      /\ \A a \in Addr : mem'[a].seq = mem[a].seq
      /\ \A a \in Addr \ Restarted : mem'[a] = mem[a]
  BY <1>1, ResetTimerMem
<1>4. Restarted \subseteq Batch /\ Deleted = Batch \ Restarted
  BY DEF Restarted, Deleted
<1> DEFINE S == Scheduled \cup Restarted
<1>5. timers_' = EntriesOf(mem', S) /\ activeTimers_' = IdsOf(mem', S)
  <2>1. \A b \in Scheduled : mem'[b] = mem[b]
    BY <1>1, <1>3, <1>4
  <2>2. \A b \in Restarted : mem'[b].seq = mem[b].seq
    BY <1>1, <1>3, <1>4
  <2> HIDE DEF Restarted
  <2>3. EntriesOf(mem, Scheduled) \cup {<<mem'[a].expiration, a>> : a \in Restarted} = EntriesOf(mem', S)
    BY <2>1 DEF EntriesOf
  <2>4. IdsOf(mem, Scheduled) \cup {IdOf(a) : a \in Restarted} = IdsOf(mem', S)
    BY <2>1, <2>2 DEF IdsOf, IdOf
  <2> QED
    BY <1>1, <1>2, <2>3, <2>4, Zenon DEF SameSets
<1>6. SequencesOK'
  <2>1. /\ \A a \in Addr : mem'[a].seq = mem[a].seq
        /\ live' \subseteq live /\ live \subseteq Addr
        /\ \A t \in Threads : pc[t] # Idle => pc[t][1] \in Addr
    BY <1>1, <1>2, <1>3 DEF TypeOK, TimerID
  <2> QED
    BY <1>1, <1>2, <2>1 DEF SequencesOK
<1>7. TypeOK'
  <2>1. RearmTimerfd /\ now \in Nat /\ \A a \in Addr : mem'[a].expiration \in Nat
    BY <1>1, <1>3 DEF ResetTimers, TypeOK, Timer
  <2>2. \A a \in S : <<mem'[a].expiration, a>> \in Entry /\ <<a, mem'[a].seq>> \in TimerID
    <3> SUFFICES ASSUME NEW a \in S
                 PROVE <<mem'[a].expiration, a>> \in Entry /\ <<a, mem'[a].seq>> \in TimerID
      OBVIOUS
    <3>1. a \in live /\ a \in Addr
      BY <1>1, <1>4
    <3>2. mem'[a].seq # 0 /\ mem'[a] \in Timer
      BY <1>1, <1>3, <3>1 DEF SequencesOK
    <3> QED
      BY <3>1, <3>2, BoundsAssumption DEF Timer, Entry, TimerID, Seqs
  <2>3. timers_' \subseteq Entry /\ activeTimers_' \subseteq TimerID
    BY <1>5, <2>2 DEF EntriesOf, IdsOf
  <2>4. timerfd' \in {"off", "armed", "readable"} /\ deadline' \in Nat
    <3>1. CASE UNCHANGED fdVars
      BY <1>1, <3>1, Zenon DEF TypeOK, fdVars
    <3>2. CASE \E e \in timers_' : resetTimerfd(e[1])
      <4>1. PICK e \in timers_' : timerfd' = "armed" /\ deadline' = howMuchTimeFromNow(e[1])
        BY <3>2, Zenon DEF resetTimerfd
      <4>2. e[1] \in Nat
        BY <2>3, <4>1 DEF Entry
      <4> QED
        BY <2>1, <4>1, <4>2 DEF howMuchTimeFromNow
    <3> QED
      BY <2>1, <3>1, <3>2, Zenon DEF RearmTimerfd
  <2>5. /\ live' \subseteq Addr /\ handling' \in BOOLEAN /\ isHandlingTimeout_' \in BOOLEAN
        /\ expired' \subseteq Entry /\ ran' \subseteq Entry
    BY <1>1, <1>2 DEF TypeOK
  <2>6. (~handling' => expired' = {} /\ ran' = {}) /\ (handling' => isHandlingTimeout_')
    BY <1>2, Zenon
  <2> QED
    BY <1>1, <1>2, <1>3, <2>3, <2>4, <2>5, <2>6, Zenon DEF TypeOK
<1> DEFINE B == {}
<1>8. /\ B = AddressesOf(expired' \cup ran')
      /\ live' = S \cup B \cup AddingOf(pending')
      /\ S \cap B = {}
      /\ AddingOf(pending') \cap (S \cup B) = {}
      /\ UniqueAdds(pending')
  <2>1. B = AddressesOf(expired' \cup ran')
    BY <1>2 DEF AddressesOf
  <2> QED
    BY <1>1, <1>2, <1>4, <2>1
<1> HIDE DEF B, S
<1>9. OwnershipInv' /\ Scheduled' = S /\ Batch' = B
  BY <1>5, <1>6, <1>7, <1>8, Unshape, Zenon
<1> QED
  BY <1>9 DEF S, B

\* A new queue owns no timer.
LEMMA OwnershipInitially == Init => OwnershipInv
<1> SUFFICES ASSUME Init PROVE OwnershipInv
  OBVIOUS
<1>1. Scheduled = {} /\ Batch = {} /\ Adding = {}
  BY DEF Init, Scheduled, Batch, Adding
<1>2. TypeOK
  <2>1. pending \in Seq(AddFunctor \cup CancelFunctor)
    BY DEF Init
  <2>2. mem \in [Addr -> Timer] /\ pc \in [Threads -> {Idle} \cup TimerID]
    BY BoundsAssumption DEF Init, Timer
  <2>3. now \in Nat /\ counter_ \in 0..MaxSeq /\ batchNow \in Nat /\ deadline \in Nat
    BY BoundsAssumption DEF Init
  <2>4. /\ live \subseteq Addr /\ timers_ \subseteq Entry /\ activeTimers_ \subseteq TimerID
        /\ cancelledTimers_ \subseteq TimerID /\ expired \subseteq Entry /\ ran \subseteq Entry
        /\ made \subseteq [id : TimerID, seq : Seqs] /\ cancelled \subseteq Seqs
        /\ timerfd \in {"off", "armed", "readable"}
    BY DEF Init
  <2>5. /\ isHandlingTimeout_ \in BOOLEAN /\ handling \in BOOLEAN /\ active \in BOOLEAN
        /\ aborted \in BOOLEAN
        /\ (~handling => expired = {} /\ ran = {}) /\ (handling => isHandlingTimeout_)
    BY Zenon DEF Init
  <2> QED
    BY <2>1, <2>2, <2>3, <2>4, <2>5, Zenon DEF TypeOK
<1>3. SameTimers
  BY <1>1, <1>2 DEF SameTimers, Init
<1>4. Ownership
  BY <1>1 DEF Ownership, Init
<1>5. SequencesOK
  BY DEF SequencesOK, Init
<1> QED
  BY <1>3, <1>4, <1>5 DEF OwnershipInv

\* The steps that leave every timer where it is: a thread in addTimer returns, a
\* cancellation is posted, the clock ticks, the timerfd expires, poll reports it.
LEMMA OthersKeep ==
    ASSUME OwnershipInv,
           UNCHANGED <<heapVars, timers_, activeTimers_, cancelledTimers_,
                       isHandlingTimeout_, batchVars, cancelled, aborted>>,
           now' \in Nat, timerfd' \in {"off", "armed", "readable"}, deadline' = deadline,
           active' \in BOOLEAN,
           pending' \in Seq(AddFunctor \cup CancelFunctor),
           AddingOf(pending') = AddingOf(pending), UniqueAdds(pending'),
           pc' \in [Threads -> {Idle} \cup TimerID],
           \A t \in Threads : pc'[t] # Idle => pc'[t] = pc[t],
           made' \subseteq [id : TimerID, seq : Seqs]
    PROVE OwnershipInv' /\ Scheduled' = Scheduled /\ Batch' = Batch
<1>1. /\ TypeOK /\ SequencesOK /\ SameSets
      /\ Batch = AddressesOf(expired \cup ran)
      /\ live = Scheduled \cup Batch \cup AddingOf(pending)
      /\ Scheduled \cap Batch = {}
      /\ AddingOf(pending) \cap (Scheduled \cup Batch) = {}
  BY Shape
<1>2. /\ mem' = mem /\ live' = live /\ counter_' = counter_
      /\ timers_' = timers_ /\ activeTimers_' = activeTimers_
      /\ cancelledTimers_' = cancelledTimers_ /\ isHandlingTimeout_' = isHandlingTimeout_
      /\ handling' = handling /\ batchNow' = batchNow /\ expired' = expired /\ ran' = ran
      /\ cancelled' = cancelled /\ aborted' = aborted
  BY Zenon DEF heapVars, batchVars
<1>3. TypeOK'
  <2>1. deadline' \in Nat
    BY <1>1 DEF TypeOK
  <2>2. (~handling' => expired' = {} /\ ran' = {}) /\ (handling' => isHandlingTimeout_')
    BY <1>1, <1>2, SMT DEF TypeOK
  <2>3. /\ mem' \in [Addr -> Timer] /\ live' \subseteq Addr /\ counter_' \in 0..MaxSeq
        /\ timers_' \subseteq Entry /\ activeTimers_' \subseteq TimerID
        /\ cancelledTimers_' \subseteq TimerID /\ isHandlingTimeout_' \in BOOLEAN
        /\ handling' \in BOOLEAN /\ batchNow' \in Nat /\ expired' \subseteq Entry
        /\ ran' \subseteq Entry /\ cancelled' \subseteq Seqs /\ aborted' \in BOOLEAN
    BY <1>1, <1>2, Zenon DEF TypeOK
  <2> QED
    BY <2>1, <2>2, <2>3, Zenon DEF TypeOK
<1>4. SequencesOK'
  BY <1>1, <1>2 DEF SequencesOK
<1>5. Batch = AddressesOf(expired' \cup ran')
  BY <1>1, <1>2
<1> QED
  BY <1>1, <1>2, <1>3, <1>4, <1>5, Unshape, Zenon DEF SameSets

\* The clock, the kernel and calls of other threads touch neither set nor batch.
LEMMA OtherStepsKeep ==
    ASSUME OwnershipInv,
           (\E t \in Threads : RemoteAddReturns(t) \/ RemoteCancel(t))
              \/ Tick \/ TimerfdExpires \/ PollReturns \/ UNCHANGED vars
    PROVE OwnershipInv' /\ Scheduled' = Scheduled /\ Batch' = Batch
<1>1. /\ TypeOK /\ SequencesOK /\ UniqueAdds(pending)
  BY Shape
<1>2. /\ now \in Nat /\ timerfd \in {"off", "armed", "readable"} /\ active \in BOOLEAN
      /\ pending \in Seq(AddFunctor \cup CancelFunctor)
      /\ pc \in [Threads -> {Idle} \cup TimerID]
      /\ made \subseteq [id : TimerID, seq : Seqs]
      /\ mem \in [Addr -> Timer]
  BY <1>1, Zenon DEF TypeOK
<1>3. ASSUME NEW t \in Threads, RemoteAddReturns(t)
      PROVE OwnershipInv' /\ Scheduled' = Scheduled /\ Batch' = Batch
  <2>1. /\ now' = now /\ timerfd' = timerfd /\ deadline' = deadline /\ active' = active
        /\ pending' = pending /\ pc' = [pc EXCEPT ![t] = Idle] /\ pc[t] # Idle
        /\ made' = made \cup {[id |-> IdOf(pc[t][1]), seq |-> pc[t][2]]}
        /\ UNCHANGED <<heapVars, timers_, activeTimers_, cancelledTimers_,
                       isHandlingTimeout_, batchVars, cancelled, aborted>>
    BY <1>3, Zenon DEF RemoteAddReturns, fdVars
  <2>2. pc[t] \in TimerID /\ mem[pc[t][1]].seq # 0
    BY <1>1, <1>2, <2>1 DEF SequencesOK
  <2>3. pc[t][1] \in Addr /\ pc[t][2] \in Seqs
    BY <2>2 DEF TimerID
  <2>4. IdOf(pc[t][1]) \in TimerID
    <3>1. mem[pc[t][1]] \in Timer
      BY <1>2, <2>3
    <3> QED
      BY <2>2, <2>3, <3>1, BoundsAssumption DEF IdOf, TimerID, Seqs, Timer
  <2>5. made' \subseteq [id : TimerID, seq : Seqs]
    BY <1>2, <2>1, <2>3, <2>4
  <2>6. /\ pc' \in [Threads -> {Idle} \cup TimerID]
        /\ \A u \in Threads : pc'[u] # Idle => pc'[u] = pc[u]
    BY <1>2, <2>1
  <2> QED
    BY <1>1, <1>2, <2>1, <2>5, <2>6, OthersKeep, Zenon
<1>4. ASSUME NEW t \in Threads, RemoteCancel(t)
      PROVE OwnershipInv' /\ Scheduled' = Scheduled /\ Batch' = Batch
  <2>1. /\ now' = now /\ timerfd' = timerfd /\ deadline' = deadline /\ active' = active
        /\ pc' = pc /\ made' = made
        /\ UNCHANGED <<heapVars, timers_, activeTimers_, cancelledTimers_,
                       isHandlingTimeout_, batchVars, cancelled, aborted>>
    BY <1>4, Zenon DEF RemoteCancel, fdVars
  <2>2. PICK m \in made : pending' = Append(pending, [op |-> "cancel", id |-> m.id])
    BY <1>4, Zenon DEF RemoteCancel
  <2>3. m.id \in TimerID
    BY <1>2
  <2>4. /\ pending' \in Seq(AddFunctor \cup CancelFunctor)
        /\ AddingOf(pending') = AddingOf(pending) /\ UniqueAdds(pending')
    <3>1. pending \in Seq(Functors)
      BY <1>2, Zenon DEF Functors
    <3> QED
      BY <1>1, <2>2, <2>3, <3>1, AppendCancel, Zenon DEF Functors
  <2>5. \A u \in Threads : pc'[u] # Idle => pc'[u] = pc[u]
    BY <2>1, Zenon
  <2> QED
    BY <1>2, <2>1, <2>4, <2>5, OthersKeep, Zenon
<1>5. CASE Tick \/ TimerfdExpires \/ PollReturns \/ UNCHANGED vars
  <2>1. /\ deadline' = deadline /\ pending' = pending /\ pc' = pc /\ made' = made
        /\ UNCHANGED <<heapVars, timers_, activeTimers_, cancelledTimers_,
                       isHandlingTimeout_, batchVars, cancelled, aborted>>
    BY <1>5, Zenon DEF Tick, TimerfdExpires, PollReturns, vars, fdVars
  <2>2. now' \in Nat
    <3>1. now' = now \/ now' = now + 1
      BY <1>5, Zenon DEF Tick, TimerfdExpires, PollReturns, vars
    <3> QED
      BY <1>2, <3>1
  <2>3. timerfd' = timerfd \/ timerfd' = "readable"
    BY <1>5, Zenon DEF Tick, TimerfdExpires, PollReturns, vars, fdVars
  <2>4. active' \in BOOLEAN
    BY <1>2, <1>5, Zenon DEF Tick, TimerfdExpires, PollReturns, vars
  <2>5. timerfd' \in {"off", "armed", "readable"}
    BY <1>2, <2>3
  <2>6. \A u \in Threads : pc'[u] # Idle => pc'[u] = pc[u]
    BY <2>1, Zenon
  <2> QED
    BY <1>1, <1>2, <2>1, <2>2, <2>4, <2>5, <2>6, OthersKeep, Zenon
<1> QED
  BY <1>3, <1>4, <1>5

\* Every step of the timers keeps OwnershipInv.
LEMMA OwnershipKept == OwnershipInv /\ [Next]_vars => OwnershipInv'
BY HandleTimeoutKeeps, RunTimerKeeps, ResetTimersKeeps, RunPendingKeeps, LoopAddKeeps,
   LoopCancelKeeps, RemoteAddKeeps, OtherStepsKeep, Zenon DEF Next, Loop

\* The inductive invariant of TimerQueue: the two sets hold the same timers, and each
\* timer on the heap is in exactly one place: scheduled, in the batch, or in a functor.
THEOREM OneTimerOnePlace == Spec => []OwnershipInv
BY OwnershipInitially, OwnershipKept, PTL DEF Spec

\* TimerQueue.h, "the timers_ and activeTimers_ have the same timers".
THEOREM SetsAgree == Spec => []SameTimers
<1>1. OwnershipInv => SameTimers
  BY DEF OwnershipInv
<1> QED
  BY <1>1, OneTimerOnePlace, PTL

\* Every Timer that exists has exactly one owner; none leaks, none is deleted twice.
THEOREM TimersOwned == Spec => []Ownership
<1>1. OwnershipInv => Ownership
  BY DEF OwnershipInv
<1> QED
  BY <1>1, OneTimerOnePlace, PTL

-----------------------------------------------------------------------------
(* The timerfd is set for the timers that wait                             *)

\* The timerfd and its deadline cover a set of entries.
Covered(E) ==
    \/ timerfd = "readable"
    \/ timerfd = "armed" /\ \A e \in E : deadline <= e[1] \/ deadline <= now

\* addTimerInLoop outside handleTimeout.
LEMMA AddCovers ==
    ASSUME TypeOK, TypeOK', TimerfdCovers, ~handling, now' = now, NEW a \in Addr,
           addTimerInLoop(a), mem'[a].expiration \in Nat
    PROVE Covered(timers_)'
<1> DEFINE w == mem'[a].expiration
<1>1. /\ now \in Nat /\ deadline \in Nat
      /\ \A e \in timers_ : e[1] \in Nat
  BY DEF TypeOK, Entry
<1>2. \A e \in timers_' : e \in timers_ \/ e[1] = w
  BY DEF addTimerInLoop, insert
<1> HIDE DEF w
<1>3. CASE needResetTimerfd(w)
  <2>1. timerfd' = "armed" /\ deadline' = howMuchTimeFromNow(w)
    BY <1>3, Zenon DEF addTimerInLoop, resetTimerfd, w
  <2>2. \A e \in timers_ : w < e[1]
    BY <1>3, Zenon DEF needResetTimerfd
  <2>3. w \in Nat
    BY DEF w
  <2>4. \A e \in timers_' : deadline' <= e[1] \/ deadline' <= now
    BY <1>1, <1>2, <2>1, <2>2, <2>3 DEF howMuchTimeFromNow
  <2> QED
    BY <2>1, <2>4, Zenon DEF Covered
<1>4. CASE ~needResetTimerfd(w)
  <2>1. timerfd' = timerfd /\ deadline' = deadline
    BY <1>4, Zenon DEF addTimerInLoop, fdVars, w
  <2>2. PICK f \in timers_ : ~(w < f[1])
    BY <1>4, Zenon DEF needResetTimerfd
  <2>3. Covered(timers_)
    BY <2>2 DEF TimerfdCovers, Covered
  <2>4. w \in Nat /\ f[1] \in Nat
    BY <1>1, <2>2 DEF w
  <2>5. CASE timerfd = "readable"
    BY <2>1, <2>5, Zenon DEF Covered
  <2>6. CASE timerfd = "armed" /\ \A e \in timers_ : deadline <= e[1] \/ deadline <= now
    <3>1. \A e \in timers_' : deadline <= e[1] \/ deadline <= now
      BY <1>1, <1>2, <2>2, <2>4, <2>6
    <3> QED
      BY <2>1, <2>6, <3>1, Zenon DEF Covered
  <2> QED
    BY <2>3, <2>5, <2>6, Zenon DEF Covered
<1> QED
  BY <1>3, <1>4

\* A cancellation only takes timers out.
LEMMA FewerCovered ==
    ASSUME TimerfdCovers, ~handling, timers_' \subseteq timers_, now' = now,
           timerfd' = timerfd, deadline' = deadline
    PROVE TimerfdCovers'
BY DEF TimerfdCovers

\* Every step that schedules an earlier timer sets the timerfd (TimerQueue.cc:100, 213).
LEMMA TimerfdKept == OwnershipInv /\ TimerfdCovers /\ [Next]_vars => TimerfdCovers'
<1> SUFFICES ASSUME OwnershipInv, TimerfdCovers, [Next]_vars
             PROVE TimerfdCovers'
  OBVIOUS
<1>1. TypeOK /\ TypeOK'
  <2>1. OwnershipInv'
    BY OwnershipKept
  <2>2. OwnershipInv => TypeOK
    BY DEF OwnershipInv, SameTimers
  <2>3. (OwnershipInv => TypeOK)'
    BY DEF OwnershipInv, SameTimers
  <2> QED
    BY <2>1, <2>2, <2>3
<1>2. CASE handling'
  BY <1>2, Zenon DEF TimerfdCovers
<1>3. CASE ~handling' /\ handling
  <2>1. ResetTimers
    BY <1>3, Zenon DEF Next, Loop, HandleTimeout, RunTimer, RunPending, LoopAdd, LoopCancel,
         RemoteAdd, RemoteAddReturns, RemoteCancel, Tick, TimerfdExpires, PollReturns,
         vars, batchVars
  <2>2. CASE timers_' = {}
    BY <2>2, Zenon DEF TimerfdCovers
  <2>3. CASE \E e \in timers_' : (\A f \in timers_' : e[1] <= f[1]) /\ resetTimerfd(e[1])
    <3>1. PICK e \in timers_' : (\A f \in timers_' : e[1] <= f[1]) /\ resetTimerfd(e[1])
      BY <2>3
    <3>2. now' = now /\ timerfd' = "armed" /\ deadline' = howMuchTimeFromNow(e[1])
      BY <2>1, <3>1, Zenon DEF ResetTimers, resetTimerfd
    <3>3. now \in Nat /\ \A f \in timers_' : f[1] \in Nat
      BY <1>1 DEF TypeOK, Entry
    <3>4. \A f \in timers_' : deadline' <= f[1] \/ deadline' <= now
      BY <3>1, <3>2, <3>3 DEF howMuchTimeFromNow
    <3> QED
      BY <3>2, <3>4, Zenon DEF TimerfdCovers
  <2> QED
    BY <2>1, <2>2, <2>3, Zenon DEF ResetTimers, RearmTimerfd
<1>4. CASE ~handling' /\ ~handling
  <2>1. ASSUME NEW a \in Addr, addTimerInLoop(a), mem'[a].expiration \in Nat, now' = now
        PROVE TimerfdCovers'
    <3>1. Covered(timers_)'
      BY <1>1, <1>4, <2>1, AddCovers, Zenon
    <3> QED
      BY <3>1, Zenon DEF Covered, TimerfdCovers
  <2>2. \A a \in Addr : mem'[a].expiration \in Nat
    BY <1>1 DEF TypeOK, Timer
  <2>3. CASE LoopAdd
    BY <2>1, <2>2, <2>3, Zenon DEF LoopAdd
  <2>4. CASE LoopCancel
    <3>1. PICK m \in made : cancelTimerInLoop(m.id)
      BY <2>4 DEF LoopCancel
    <3>2. /\ now' = now /\ timerfd' = timerfd /\ deadline' = deadline /\ mem' = mem
      BY <2>4, Zenon DEF LoopCancel, fdVars
    <3>3. timers_' \subseteq timers_
      <4>1. m.id \in TimerID
        BY <1>1 DEF TypeOK
      <4> QED
        BY <3>1, <3>2, <4>1, CancelInLoop, Zenon
    <3> QED
      BY <1>4, <3>2, <3>3, FewerCovered
  <2>5. CASE RunPending
    <3>1. PICK f : f = Head(pending)
      OBVIOUS
    <3>2. f \in Functors /\ now' = now
      <4>1. pending \in Seq(Functors) /\ pending # <<>> /\ now' = now
        BY <1>1, <2>5, Zenon DEF TypeOK, RunPending, Functors
      <4>2. UniqueAdds(pending)
        BY Shape
      <4> QED
        BY <3>1, <4>1, <4>2, TakeFunctor, Zenon
    <3>3. CASE f.op = "add" /\ addTimerInLoop(f.timer)
      <4>1. f.timer \in Addr
        BY <3>2, <3>3 DEF Functors, AddFunctor, CancelFunctor
      <4> QED
        BY <2>1, <2>2, <3>2, <3>3, <4>1, Zenon
    <3>4. CASE f.op = "cancel" /\ cancelTimerInLoop(f.id) /\ UNCHANGED <<mem, counter_, fdVars>>
      <4>1. f.id \in TimerID
        BY <3>2, <3>4 DEF Functors, AddFunctor, CancelFunctor
      <4>2. mem' = mem /\ timerfd' = timerfd /\ deadline' = deadline
        BY <3>4, Zenon DEF fdVars
      <4>3. timers_' \subseteq timers_
        BY <3>4, <4>1, <4>2, CancelInLoop, Zenon
      <4> QED
        BY <1>4, <3>2, <4>2, <4>3, FewerCovered
    <3> QED
      BY <2>5, <3>1, <3>3, <3>4 DEF RunPending
  <2>6. CASE Tick
    <3>1. /\ now' = now + 1 /\ timerfd' = timerfd /\ deadline' = deadline /\ timers_' = timers_
          /\ now \in Nat /\ deadline \in Nat
      BY <1>1, <2>6, Zenon DEF Tick, fdVars, TypeOK
    <3> QED
      BY <1>4, <3>1 DEF TimerfdCovers
  <2>7. CASE TimerfdExpires
    BY <2>7, Zenon DEF TimerfdExpires, TimerfdCovers
  <2>8. CASE PollReturns \/ UNCHANGED vars
             \/ \E t \in Threads : RemoteAdd(t) \/ RemoteAddReturns(t) \/ RemoteCancel(t)
    <3>1. timers_' = timers_ /\ now' = now /\ timerfd' = timerfd /\ deadline' = deadline
      BY <2>8, Zenon DEF PollReturns, vars, RemoteAdd, RemoteAddReturns, RemoteCancel, fdVars
    <3> QED
      BY <1>4, <3>1, FewerCovered
  <2>9. ~HandleTimeout /\ ~RunTimer /\ ~ResetTimers
    BY <1>4, Zenon DEF HandleTimeout, RunTimer, ResetTimers, MarkHandling
  <2> QED
    BY <2>3, <2>4, <2>5, <2>6, <2>7, <2>8, <2>9, Zenon DEF Next, Loop
<1> QED
  BY <1>2, <1>3, <1>4

\* Outside handleTimeout no timer waits without a timerfd that is set for it.
THEOREM TimersAreArmed == Spec => []TimerfdCovers
<1>1. Init => TimerfdCovers
  BY Zenon DEF Init, TimerfdCovers
<1> QED
  BY <1>1, TimerfdKept, OneTimerOnePlace, PTL DEF Spec

-----------------------------------------------------------------------------
(* A cancelled timer stays cancelled                                       *)

\* The sequences of the timers that exist were given, and are told apart.
LEMMA LiveSequences ==
    ASSUME OwnershipInv
    PROVE /\ counter_ \in Nat /\ live \subseteq Addr /\ Batch \subseteq live /\ Scheduled \subseteq live
          /\ Scheduled \cap Batch = {}
          /\ \A a \in live : mem[a].seq \in 1..counter_
          /\ \A a, b \in live : mem[a].seq = mem[b].seq => a = b
<1>1. /\ TypeOK /\ SequencesOK
      /\ live = Scheduled \cup Batch \cup AddingOf(pending)
      /\ Scheduled \cap Batch = {}
  BY Shape
<1>2. counter_ \in Nat /\ live \subseteq Addr /\ \A a \in Addr : mem[a].seq \in Nat
  <2>1. counter_ \in 0..MaxSeq /\ live \subseteq Addr /\ mem \in [Addr -> Timer]
    BY <1>1, Zenon DEF TypeOK
  <2>2. \A a \in Addr : mem[a].seq \in Nat
    BY <2>1, BoundsAssumption DEF Timer
  <2>3. counter_ \in Nat
    BY <2>1, BoundsAssumption
  <2> QED
    BY <2>1, <2>2, <2>3
<1>3. \A a \in live : mem[a].seq \in 1..counter_
  <2>1. \A a \in live : mem[a].seq # 0
    BY <1>1, Zenon DEF SequencesOK
  <2>2. \A a \in Addr : mem[a].seq <= counter_
    BY <1>1, Zenon DEF SequencesOK
  <2>3. ASSUME NEW a \in live PROVE mem[a].seq \in 1..counter_
    <3>1. PICK n : n = mem[a].seq
      OBVIOUS
    <3>2. n \in Nat /\ n # 0 /\ n <= counter_ /\ counter_ \in Nat
      BY <1>2, <2>1, <2>2, <3>1
    <3>3. n \in 1..counter_
      BY <3>2
    <3> QED
      BY <3>1, <3>3, Zenon
  <2> QED
    BY <2>3
<1>4. \A a, b \in live : mem[a].seq = mem[b].seq => a = b
  BY <1>1, <1>2 DEF SequencesOK
<1> QED
  BY <1>1, <1>2, <1>3, <1>4

\* new Timer: the sequence it takes is not one that was cancelled.
LEMMA NewTimerCancel ==
    ASSUME OwnershipInv, CancelInv,
           NEW a \in Addr, NEW d \in Delays, NEW i \in Intervals,
           NewTimer(a, now + d, i),
           expired' = expired, ran' = ran,
           cancelled' = cancelled, cancelledTimers_' = cancelledTimers_
    PROVE CancelInv'
<1>1. /\ a \notin live /\ live' = live \cup {a} /\ counter_' = counter_ + 1
      /\ \A b \in Addr \ {a} : mem'[b] = mem[b]
      /\ mem'[a].seq = counter_ + 1
  BY Shape, NewTimerFacts
<1>2. /\ counter_ \in Nat /\ live \subseteq Addr /\ Batch \subseteq live
  BY LiveSequences
<1>3. Batch' = Batch
  BY Zenon DEF Batch
<1>4. /\ cancelled \subseteq 1..counter_
      /\ \A b \in live \ Batch : mem[b].seq \notin cancelled
      /\ \A b \in Batch : mem[b].seq \in cancelled => IdOf(b) \in cancelledTimers_
  BY Zenon DEF CancelInv
<1>5. cancelled' \subseteq 1..counter_'
  BY <1>1, <1>2, <1>4
<1>6. \A b \in live' \ Batch' : mem'[b].seq \notin cancelled'
  BY <1>1, <1>2, <1>3, <1>4
<1>7. \A b \in Batch' : mem'[b].seq \in cancelled' => IdOf(b)' \in cancelledTimers_'
  <2>1. \A b \in Batch : mem'[b] = mem[b]
    BY <1>1, <1>2
  <2> QED
    BY <1>3, <1>4, <2>1 DEF IdOf
<1> QED
  BY <1>5, <1>6, <1>7, Zenon DEF CancelInv

\* cancelTimerInLoop: the timer that it cancels is deleted, or remembered.
LEMMA CancelInLoopCancel ==
    ASSUME OwnershipInv, CancelInv, NEW id \in TimerID, cancelTimerInLoop(id),
           UNCHANGED <<mem, counter_>>, expired' = expired, ran' = ran
    PROVE CancelInv'
<1>1. /\ counter_ \in Nat /\ live \subseteq Addr /\ Batch \subseteq live /\ Scheduled \subseteq live
      /\ Scheduled \cap Batch = {}
      /\ \A a \in live : mem[a].seq \in 1..counter_
      /\ \A a, b \in live : mem[a].seq = mem[b].seq => a = b
  BY LiveSequences
<1>2. Batch' = Batch /\ mem' = mem /\ counter_' = counter_
  BY Zenon DEF Batch
<1>3. /\ cancelled \subseteq 1..counter_
      /\ \A b \in live \ Batch : mem[b].seq \notin cancelled
      /\ \A b \in Batch : mem[b].seq \in cancelled => IdOf(b) \in cancelledTimers_
  BY Zenon DEF CancelInv
<1>4. CASE id \in activeTimers_
  <2>1. /\ live' = live \ {id[1]} /\ cancelled' = cancelled \cup {id[2]}
        /\ cancelledTimers_' = cancelledTimers_
    BY <1>4, Zenon DEF cancelTimerInLoop
  <2>2. id[1] \in Scheduled /\ id = IdOf(id[1])
    BY <1>4, Waiting, Zenon
  <2>3. id[2] = mem[id[1]].seq /\ id[1] \in live
    BY <1>1, <2>2 DEF IdOf
  <2>4. cancelled' \subseteq 1..counter_
    BY <1>1, <1>3, <2>1, <2>3, ZenonT(60)
  <2>5. \A b \in live' \ Batch : mem[b].seq \notin cancelled'
    BY <1>1, <1>3, <2>1, <2>3
  <2>6. \A b \in Batch : mem[b].seq \in cancelled' => IdOf(b) \in cancelledTimers_
    BY <1>1, <1>3, <2>1, <2>2, <2>3
  <2> QED
    BY <1>2, <2>1, <2>4, <2>5, <2>6, Zenon DEF CancelInv, IdOf
<1>5. CASE id \notin activeTimers_ /\ isHandlingTimeout_
  <2> DEFINE C == {IdOf(a)[2] : a \in {b \in Batch : IdOf(b) = id}}
  <2>1. /\ live' = live /\ cancelled' = cancelled \cup C
        /\ cancelledTimers_' = cancelledTimers_ \cup {id}
    BY <1>5, Zenon DEF cancelTimerInLoop
  <2>2. \A s \in C : \E a \in Batch : IdOf(a) = id /\ s = mem[a].seq
    <3>1. \A a \in Batch : IdOf(a)[2] = mem[a].seq
      BY DEF IdOf
    <3> QED
      BY <3>1, Zenon
  <2> HIDE DEF C
  <2>3. cancelled' \subseteq 1..counter_
    BY <1>1, <1>3, <2>1, <2>2, ZenonT(60)
  <2>4. \A b \in live' \ Batch : mem[b].seq \notin cancelled'
    BY <1>1, <1>3, <2>1, <2>2
  <2>5. \A b \in Batch : mem[b].seq \in cancelled' => IdOf(b) \in cancelledTimers_'
    BY <1>1, <1>3, <2>1, <2>2
  <2> QED
    BY <1>2, <2>3, <2>4, <2>5, Zenon DEF CancelInv, IdOf
<1>6. CASE id \notin activeTimers_ /\ ~isHandlingTimeout_
  <2>1. live' = live /\ cancelled' = cancelled /\ cancelledTimers_' = cancelledTimers_
    BY <1>6, Zenon DEF cancelTimerInLoop
  <2> QED
    BY <1>2, <1>3, <2>1, Zenon DEF CancelInv, IdOf
<1> QED
  BY <1>4, <1>5, <1>6

\* No timer taken into the batch was cancelled before.
LEMMA HandleTimeoutCancel ==
    ASSUME OwnershipInv, CancelInv, HandleTimeout
    PROVE CancelInv'
<1>1. /\ Batch \subseteq live /\ Scheduled \subseteq live /\ TypeOK
  BY LiveSequences, Shape
<1>2. /\ mem' = mem /\ live' = live /\ counter_' = counter_ /\ cancelled' = cancelled
      /\ ran' = ran /\ ~handling
  BY Zenon DEF HandleTimeout, heapVars
<1>3. expired = {} /\ ran = {}
  BY <1>1, <1>2, Zenon DEF TypeOK
<1>4. Batch = {}
  BY <1>3 DEF Batch
<1>5. expired' \subseteq timers_
  BY DEF HandleTimeout
<1>6. Batch' \subseteq Scheduled
  BY <1>2, <1>3, <1>5 DEF Batch, Scheduled
<1>7. /\ cancelled \subseteq 1..counter_
      /\ \A b \in live \ Batch : mem[b].seq \notin cancelled
  BY Zenon DEF CancelInv
<1>8. \A b \in live : mem[b].seq \notin cancelled
  BY <1>4, <1>7
<1>9. /\ \A b \in live' \ Batch' : mem'[b].seq \notin cancelled'
      /\ \A b \in Batch' : mem'[b].seq \notin cancelled'
  BY <1>1, <1>2, <1>6, <1>8
<1> QED
  BY <1>2, <1>7, <1>9, Zenon DEF CancelInv

\* resetTimers schedules no timer of cancelledTimers_ (TimerQueue.cc:202).
LEMMA ResetTimersCancel ==
    ASSUME OwnershipInv, CancelInv, ResetTimers
    PROVE CancelInv'
<1>1. /\ live \subseteq Addr /\ Batch \subseteq live /\ TypeOK
  BY LiveSequences, Shape
<1>2. Batch' = {}
  BY ResetTimersKeeps
<1>3. /\ counter_' = counter_ /\ cancelled' = cancelled /\ live' = live \ Deleted
      /\ cancelledTimers_' = cancelledTimers_
  BY Zenon DEF ResetTimers
<1>4. \A a \in Addr : mem'[a].seq = mem[a].seq
  BY <1>1, ResetTimerMem
<1>5. /\ cancelled \subseteq 1..counter_
      /\ \A b \in live \ Batch : mem[b].seq \notin cancelled
      /\ \A b \in Batch : mem[b].seq \in cancelled => IdOf(b) \in cancelledTimers_
  BY Zenon DEF CancelInv
<1>6. \A b \in live' : b \in live \ Batch \/ (b \in Batch /\ IdOf(b) \notin cancelledTimers_)
  BY <1>3 DEF Deleted, Restarted
<1>7. \A b \in live' : mem'[b].seq \notin cancelled
  BY <1>1, <1>3, <1>4, <1>5, <1>6
<1> QED
  BY <1>2, <1>3, <1>5, <1>7 DEF CancelInv

\* No step schedules a timer that was cancelled.
LEMMA CancelKept == OwnershipInv /\ CancelInv /\ [Next]_vars => CancelInv'
<1> SUFFICES ASSUME OwnershipInv, CancelInv, [Next]_vars
             PROVE CancelInv'
  OBVIOUS
<1>1. TypeOK /\ UniqueAdds(pending)
  BY Shape
<1>2. CASE LoopAdd \/ \E t \in Threads : RemoteAdd(t)
  <2>1. /\ expired' = expired /\ ran' = ran
        /\ cancelled' = cancelled /\ cancelledTimers_' = cancelledTimers_
    BY <1>2, Zenon DEF LoopAdd, RemoteAdd, batchVars
  <2>2. PICK a \in Addr, d \in Delays, i \in Intervals : NewTimer(a, now + d, i)
    BY <1>2, Zenon DEF LoopAdd, RemoteAdd
  <2> QED
    BY <2>1, <2>2, NewTimerCancel, Zenon
<1>3. CASE LoopCancel
  <2>1. PICK m \in made : cancelTimerInLoop(m.id)
    BY <1>3 DEF LoopCancel
  <2>2. m.id \in TimerID
    BY <1>1 DEF TypeOK
  <2>3. UNCHANGED <<mem, counter_>> /\ expired' = expired /\ ran' = ran
    BY <1>3, Zenon DEF LoopCancel, batchVars
  <2> QED
    BY <2>1, <2>2, <2>3, CancelInLoopCancel, Zenon
<1>4. CASE RunPending
  <2>1. PICK f : f = Head(pending)
    OBVIOUS
  <2>2. f \in Functors /\ expired' = expired /\ ran' = ran
    <3>1. pending \in Seq(Functors) /\ pending # <<>> /\ expired' = expired /\ ran' = ran
      BY <1>1, <1>4, Zenon DEF TypeOK, RunPending, Functors, batchVars
    <3> QED
      BY <1>1, <2>1, <3>1, TakeFunctor, Zenon
  <2>3. CASE UNCHANGED <<heapVars, cancelledTimers_, cancelled, aborted>>
    <3>1. /\ mem' = mem /\ live' = live /\ counter_' = counter_ /\ cancelled' = cancelled
          /\ cancelledTimers_' = cancelledTimers_ /\ Batch' = Batch
      BY <2>2, <2>3, Zenon DEF heapVars, Batch
    <3> QED
      BY <3>1, Zenon DEF CancelInv, IdOf
  <2>4. CASE f.op = "cancel" /\ cancelTimerInLoop(f.id) /\ UNCHANGED <<mem, counter_, fdVars>>
    <3>1. f.id \in TimerID
      BY <2>2, <2>4 DEF Functors, AddFunctor, CancelFunctor
    <3>2. UNCHANGED <<mem, counter_>>
      BY <2>4, Zenon
    <3> QED
      BY <2>2, <2>4, <3>1, <3>2, CancelInLoopCancel, Zenon
  <2> QED
    BY <1>4, <2>1, <2>3, <2>4 DEF RunPending
<1>5. CASE RunTimer
  <2>1. /\ mem' = mem /\ live' = live /\ counter_' = counter_ /\ cancelled' = cancelled
        /\ cancelledTimers_' = cancelledTimers_
    BY <1>5, Zenon DEF RunTimer, heapVars
  <2>2. expired' \cup ran' = expired \cup ran
    BY <1>5, RunTimerKeeps
  <2>3. Batch' = Batch
    BY <2>2, Zenon DEF Batch
  <2> QED
    BY <2>1, <2>3, Zenon DEF CancelInv, IdOf
<1>6. CASE (\E t \in Threads : RemoteAddReturns(t) \/ RemoteCancel(t))
             \/ Tick \/ TimerfdExpires \/ PollReturns \/ UNCHANGED vars
  <2>1. /\ mem' = mem /\ live' = live /\ counter_' = counter_ /\ cancelled' = cancelled
        /\ cancelledTimers_' = cancelledTimers_ /\ expired' = expired /\ ran' = ran
    BY <1>6, Zenon DEF RemoteAddReturns, RemoteCancel, Tick, TimerfdExpires, PollReturns, vars,
         heapVars, batchVars
  <2>2. Batch' = Batch
    BY <2>1, Zenon DEF Batch
  <2> QED
    BY <2>1, <2>2, Zenon DEF CancelInv, IdOf
<1> QED
  BY <1>2, <1>3, <1>4, <1>5, <1>6, HandleTimeoutCancel, ResetTimersCancel, Zenon DEF Next, Loop

\* cancelTimer: a timer that was cancelled is never waiting again, and is remembered
\* until resetTimers when it was in the batch of handleTimeout.
THEOREM CancelledStaysOut == Spec => []CancelHolds
<1>1. Init => CancelInv
  <2> SUFFICES ASSUME Init PROVE CancelInv
    OBVIOUS
  <2>1. Batch = {} /\ live = {} /\ cancelled = {}
    BY DEF Init, Batch
  <2> QED
    BY <2>1 DEF CancelInv
<1>2. OwnershipInv /\ CancelInv => CancelHolds
  <2> SUFFICES ASSUME OwnershipInv, CancelInv PROVE CancelHolds
    OBVIOUS
  <2>1. Scheduled \subseteq live \ Batch
    BY LiveSequences
  <2> QED
    BY <2>1 DEF CancelInv, CancelHolds
<1> QED
  BY <1>1, <1>2, CancelKept, OneTimerOnePlace, PTL DEF Spec
=============================================================================
