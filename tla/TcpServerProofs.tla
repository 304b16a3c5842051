-------------------------- MODULE TcpServerProofs --------------------------
(***************************************************************************)
(* The safety properties of TcpServer, for any number of threads and       *)
(* connections and any limit.                                              *)
(***************************************************************************)
EXTENDS TcpServer, SequenceTheorems, FiniteSetTheorems, TLAPS

-----------------------------------------------------------------------------
(* The parts of the inductive invariant                                    *)

Has(q, f) == \E i \in DOMAIN q : q[i] = f
Distinct(q) == \A i, j \in DOMAIN q : q[i] = q[j] => i = j
Ordered(q, e, d) == \A i, j \in DOMAIN q : q[i] = e /\ q[j] = d => i < j

Est(c) == [op |-> "established", conn |-> c]
Des(c) == [op |-> "destroyed", conn |-> c]
Rem(c) == [op |-> "remove", conn |-> c]

\* Each functor is in the queue of the loop it is for.
Placed(c) ==
    \A l \in AllLoops :
        /\ Has(pending[l], Est(c)) \/ Has(pending[l], Des(c)) => conns[c].loop = l
        /\ Has(pending[l], Rem(c)) => l = Base

\* A connection that was not accepted yet, and one that was: established and destroyed
\* have at most one functor each, in this order; the second is there once the entry in
\* connections_ is gone.
Unused(c) ==
    /\ conns[c].state = "none"
    /\ \A l \in AllLoops : ~Has(pending[l], Est(c)) /\ ~Has(pending[l], Des(c))
                           /\ ~Has(pending[l], Rem(c))

InLoop(c) ==
    /\ conns[c].state # "none"
    /\ conns[c].loop <= numThread_
    /\ conns[c].loop = Base <=> numThread_ = 0
    /\ Has(pending[conns[c].loop], Est(c)) <=> conns[c].state = "kConnecting"
    /\ Ordered(pending[conns[c].loop], Est(c), Des(c))
    /\ Has(pending[conns[c].loop], Des(c))
          <=> c \notin connections_ /\ conns[c].state # "destroyed"
    /\ c \in connections_ => conns[c].state # "destroyed"

\* The removal is on its way exactly while the closed connection is in the map.
Removal(c) ==
    /\ server = "alive" =>
          (Has(pending[Base], Rem(c)) <=> c \in connections_ /\ conns[c].state = "kDisconnected")
    /\ Has(pending[Base], Rem(c)) => conns[c].state \in {"kDisconnected", "destroyed"}
    /\ Has(pending[conns[c].loop], Des(c)) /\ (server = "alive" \/ conns[c].loop = Base)
          => conns[c].state = "kDisconnected"
    /\ conns[c].loop = Base /\ c \in connections_ => conns[c].state \in Open
    /\ conns[c].loop = Base => conns[c].state # "kConnecting"

ConnOK(c) ==
    /\ Placed(c)
    /\ c < nextConnId_ => InLoop(c) /\ Removal(c)
    /\ c >= nextConnId_ => Unused(c)

\* The connections that EchoServer counts.
OpenIn(cs) == {c \in Conns : cs[c].state \in Open}

\* No functor is in a queue twice.
AllDistinct(p) == \A l \in AllLoops : Distinct(p[l])

\* The destructor: nothing is accepted after it has begun, and a loop of the pool ends
\* only then, with nothing left to run.
EndOK ==
    /\ server # "alive" => connections_ = {}
    /\ isListening_ \/ nextConnId_ > 1 => started_ > 0
    /\ quit_ \ {Base} # {} => server # "alive"
    /\ ended \subseteq quit_ /\ looping \cap ended = {}
    /\ \A l \in ended \ {Base} : pending[l] = <<>>
    /\ server = "gone" /\ started_ > 0 => IoLoops \subseteq ended

\* The connections and their functors.
ConnsInv ==
    /\ numConnection_ = Cardinality(OpenIn(conns))
    /\ AllDistinct(pending)
    /\ \A c \in Conns : ConnOK(c)

\* The inductive invariant.
ServerInv == TypeOK /\ ConnsInv /\ EndOK

-----------------------------------------------------------------------------
(* Queues of functors                                                      *)

\* Posting a functor adds it to what the queue has.
LEMMA Posts ==
  ASSUME NEW S, NEW q \in Seq(S), NEW f \in S
  PROVE  /\ Append(q, f) \in Seq(S)
         /\ \A g : Has(Append(q, f), g) <=> Has(q, g) \/ g = f
         /\ Distinct(q) /\ ~Has(q, f) => Distinct(Append(q, f))
         /\ \A e, d : Ordered(q, e, d) /\ (f # e \/ (~Has(q, d) /\ d # e))
                         => Ordered(Append(q, f), e, d)
<1>1. /\ Append(q, f) \in Seq(S) /\ Len(q) \in Nat /\ Len(Append(q, f)) = Len(q) + 1
      /\ DOMAIN q = 1..Len(q) /\ DOMAIN Append(q, f) = 1..Len(q) + 1
      /\ \A i \in 1..Len(q) : Append(q, f)[i] = q[i]
      /\ Append(q, f)[Len(q) + 1] = f
  OBVIOUS
<1> DEFINE r == Append(q, f)
<1> HIDE DEF r
<1>2. /\ r \in Seq(S) /\ Len(q) \in Nat
      /\ DOMAIN q = 1..Len(q) /\ DOMAIN r = 1..Len(q) + 1
      /\ \A i \in 1..Len(q) : r[i] = q[i]
      /\ r[Len(q) + 1] = f
  BY <1>1 DEF r
<1>3. \A g : Has(r, g) <=> Has(q, g) \/ g = f
  BY <1>2 DEF Has
<1>4. Distinct(q) /\ ~Has(q, f) => Distinct(r)
  BY <1>2 DEF Has, Distinct
<1>5. \A e, d : Ordered(q, e, d) /\ (f # e \/ (~Has(q, d) /\ d # e)) => Ordered(r, e, d)
  BY <1>2 DEF Has, Ordered
<1> QED
  BY <1>2, <1>3, <1>4, <1>5 DEF r

\* Running the first functor takes it out of the queue.
LEMMA Runs ==
  ASSUME NEW S, NEW q \in Seq(S), q # <<>>, Distinct(q)
  PROVE  /\ Tail(q) \in Seq(S) /\ Head(q) \in S
         /\ \A g : Has(Tail(q), g) <=> Has(q, g) /\ g # Head(q)
         /\ Has(q, Head(q))
         /\ Distinct(Tail(q))
         /\ \A e, d : Ordered(q, e, d) => Ordered(Tail(q), e, d)
         /\ \A e, d : Ordered(q, e, d) /\ Head(q) = d => ~Has(q, e)
<1>1. /\ Tail(q) \in Seq(S) /\ Head(q) \in S /\ Len(q) \in Nat /\ Len(q) > 0
      /\ DOMAIN q = 1..Len(q) /\ DOMAIN Tail(q) = 1..Len(q) - 1
      /\ \A i \in 1..Len(q) - 1 : Tail(q)[i] = q[i + 1]
      /\ Head(q) = q[1]
  OBVIOUS
<1> DEFINE r == Tail(q)  h == Head(q)
<1> HIDE DEF r, h
<1>2. /\ r \in Seq(S) /\ h \in S /\ Len(q) \in Nat /\ Len(q) > 0
      /\ DOMAIN q = 1..Len(q) /\ DOMAIN r = 1..Len(q) - 1
      /\ \A i \in 1..Len(q) - 1 : r[i] = q[i + 1]
      /\ h = q[1]
  BY <1>1 DEF r, h
<1>3. ASSUME NEW g PROVE Has(r, g) <=> Has(q, g) /\ g # h
  <2>1. ASSUME NEW i \in DOMAIN r, r[i] = g PROVE Has(q, g) /\ g # h
    <3>1. i + 1 \in DOMAIN q /\ q[i + 1] = g /\ 1 \in DOMAIN q /\ i + 1 # 1
      BY <1>2, <2>1
    <3> QED
      BY <1>2, <3>1 DEF Has, Distinct
  <2>2. ASSUME NEW i \in DOMAIN q, q[i] = g, g # h PROVE Has(r, g)
    <3>1. i # 1 /\ i - 1 \in DOMAIN r /\ r[i - 1] = q[i - 1 + 1]
      BY <1>2, <2>2
    <3>2. r[i - 1] = g
      BY <1>2, <2>2, <3>1
    <3> QED
      BY <3>1, <3>2 DEF Has
  <2> QED
    BY <2>1, <2>2 DEF Has
<1>4. Has(q, h)
  BY <1>2 DEF Has
<1>5. Distinct(r)
  <2> SUFFICES ASSUME NEW i \in DOMAIN r, NEW j \in DOMAIN r, r[i] = r[j] PROVE i = j
    BY DEF Distinct
  <2>1. /\ i + 1 \in DOMAIN q /\ j + 1 \in DOMAIN q /\ q[i + 1] = q[j + 1]
        /\ i \in Nat /\ j \in Nat
    BY <1>2
  <2>2. i + 1 = j + 1
    BY <2>1 DEF Distinct
  <2> QED
    BY <2>1, <2>2
<1>6. \A e, d : Ordered(q, e, d) => Ordered(r, e, d)
  BY <1>2, SMTT(30) DEF Ordered
<1>7. ASSUME NEW e, NEW d, Ordered(q, e, d), h = d PROVE ~Has(q, e)
  <2>1. ASSUME NEW i \in DOMAIN q, q[i] = e PROVE FALSE
    <3>1. 1 \in DOMAIN q /\ q[1] = d /\ ~(i < 1)
      BY <1>2, <1>7
    <3> QED
      BY <1>7, <2>1, <3>1 DEF Ordered
  <2> QED
    BY <2>1 DEF Has
<1> QED
  BY <1>2, <1>3, <1>4, <1>5, <1>6, <1>7 DEF r, h

\* Several functors are posted after those that are there.
LEMMA PostsMany ==
  ASSUME NEW S, NEW q \in Seq(S), NEW r \in Seq(S)
  PROVE  /\ q \o r \in Seq(S)
         /\ \A g : Has(q \o r, g) <=> Has(q, g) \/ Has(r, g)
         /\ Distinct(q) /\ Distinct(r) /\ (\A g \in S : ~(Has(q, g) /\ Has(r, g)))
               => Distinct(q \o r)
         /\ \A e, d : Ordered(q, e, d) /\ ~Has(r, e) => Ordered(q \o r, e, d)
<1>1. /\ q \o r \in Seq(S) /\ Len(q) \in Nat /\ Len(r) \in Nat
      /\ DOMAIN q = 1..Len(q) /\ DOMAIN r = 1..Len(r) /\ DOMAIN (q \o r) = 1..Len(q) + Len(r)
      /\ \A i \in 1..Len(q) : (q \o r)[i] = q[i]
      /\ \A i \in 1..Len(q) + Len(r) : i > Len(q) => (q \o r)[i] = r[i - Len(q)]
      /\ \A i \in 1..Len(q) : q[i] \in S
  OBVIOUS
<1> DEFINE s == q \o r
<1> HIDE DEF s
<1>2. /\ s \in Seq(S) /\ Len(q) \in Nat /\ Len(r) \in Nat
      /\ DOMAIN q = 1..Len(q) /\ DOMAIN r = 1..Len(r) /\ DOMAIN s = 1..Len(q) + Len(r)
      /\ \A i \in 1..Len(q) : s[i] = q[i]
      /\ \A i \in 1..Len(q) + Len(r) : i > Len(q) => s[i] = r[i - Len(q)]
      /\ \A i \in 1..Len(q) : q[i] \in S
  BY <1>1 DEF s
<1>3. ASSUME NEW i \in DOMAIN r PROVE i + Len(q) \in DOMAIN s /\ s[i + Len(q)] = r[i]
  <2>1. i + Len(q) \in 1..Len(q) + Len(r) /\ i + Len(q) > Len(q) /\ i + Len(q) - Len(q) = i
    BY <1>2
  <2> QED
    BY <1>2, <2>1
<1>4. ASSUME NEW i \in DOMAIN s
      PROVE \/ i \in DOMAIN q /\ s[i] = q[i]
            \/ i > Len(q) /\ i - Len(q) \in DOMAIN r /\ s[i] = r[i - Len(q)]
  BY <1>2
<1>5. ASSUME NEW i \in DOMAIN q PROVE i \in DOMAIN s /\ s[i] = q[i] /\ i \in Nat /\ i <= Len(q)
  BY <1>2
<1>6. \A g : Has(s, g) <=> Has(q, g) \/ Has(r, g)
  BY <1>3, <1>4, <1>5, Zenon DEF Has
<1>7. ASSUME Distinct(q), Distinct(r), \A g \in S : ~(Has(q, g) /\ Has(r, g))
      PROVE  Distinct(s)
  <2> SUFFICES ASSUME NEW i \in DOMAIN s, NEW j \in DOMAIN s, s[i] = s[j] PROVE i = j
    BY DEF Distinct
  <2>1. CASE i \in DOMAIN q /\ j \in DOMAIN q
    BY <1>5, <1>7, <2>1 DEF Distinct
  <2>2. CASE i \notin DOMAIN q /\ j \notin DOMAIN q
    <3>1. /\ i - Len(q) \in DOMAIN r /\ j - Len(q) \in DOMAIN r
          /\ r[i - Len(q)] = r[j - Len(q)]
      BY <1>4, <2>2
    <3>2. i - Len(q) = j - Len(q)
      BY <1>7, <3>1 DEF Distinct
    <3> QED
      BY <1>2, <3>2
  <2>3. ASSUME NEW k \in DOMAIN q, NEW m \in DOMAIN s \ DOMAIN q, s[k] = s[m] PROVE FALSE
    <3>1. q[k] \in S /\ q[k] = r[m - Len(q)] /\ m - Len(q) \in DOMAIN r
      BY <1>2, <1>4, <1>5, <2>3
    <3> QED
      BY <1>7, <3>1 DEF Has
  <2> QED
    BY <2>1, <2>2, <2>3
<1>8. ASSUME NEW e, NEW d, Ordered(q, e, d), ~Has(r, e) PROVE Ordered(s, e, d)
  <2> SUFFICES ASSUME NEW i \in DOMAIN s, NEW j \in DOMAIN s, s[i] = e, s[j] = d PROVE i < j
    BY DEF Ordered
  <2>1. i \in DOMAIN q /\ q[i] = e
    BY <1>4, <1>8 DEF Has
  <2>2. CASE j \in DOMAIN q
    BY <1>5, <1>8, <2>1, <2>2 DEF Ordered
  <2>3. CASE j \notin DOMAIN q
    BY <1>2, <1>4, <1>5, <2>1, <2>3
  <2> QED
    BY <2>2, <2>3
<1> QED
  BY <1>2, <1>6, <1>7, <1>8 DEF s

\* A functor of a queue without repetitions is counted once, or not at all.
LEMMA Counted ==
  ASSUME NEW S, NEW q \in Seq(S), Distinct(q), NEW f
  PROVE  Cardinality({i \in DOMAIN q : q[i] = f}) = One(Has(q, f))
<1>1. CASE Has(q, f)
  <2>1. PICK i \in DOMAIN q : q[i] = f
    BY <1>1 DEF Has
  <2>2. {j \in DOMAIN q : q[j] = f} = {i}
    BY <2>1 DEF Distinct
  <2> QED
    BY <1>1, <2>2, FS_Singleton DEF One
<1>2. CASE ~Has(q, f)
  <2>1. {j \in DOMAIN q : q[j] = f} = {}
    BY <1>2 DEF Has
  <2> QED
    BY <1>2, <2>1, FS_EmptySet DEF One
<1> QED
  BY <1>1, <1>2

\* The destructor's functors for the connections of one loop: each comes once.
LEMMA AllOnce ==
  ASSUME NEW T \in SUBSET Conns
  PROVE  LET ids == SetToSeq(T)
             fs == [i \in DOMAIN ids |-> [op |-> "destroyed", conn |-> ids[i]]]
         IN  /\ fs \in Seq(Functors) /\ Distinct(fs)
             /\ \A c \in Conns : (Has(fs, Des(c)) <=> c \in T) /\ ~Has(fs, Est(c)) /\ ~Has(fs, Rem(c))
<1>1. IsFiniteSet(T)
  <2>1. IsFiniteSet(Conns)
    BY FS_Interval, ServerBounds DEF Conns
  <2> QED
    BY <2>1, FS_Subset
<1>2. PICK n \in Nat : n = Cardinality(T)
  BY <1>1, FS_CardinalityType
<1>3. \E f \in [1..n -> T] : IsInjective(f)
  BY <1>1, <1>2, FS_CardinalityType DEF ExistsBijection, Bijection, Injection
<1>4. PICK ids : ids = SetToSeq(T)
  OBVIOUS
<1>5. ids \in [1..n -> T] /\ IsInjective(ids)
  BY <1>2, <1>3, <1>4 DEF SetToSeq
<1>6. ids \in Surjection(1..n, T)
  <2>1. ids \in Injection(1..n, T)
    BY <1>5 DEF Injection
  <2>2. Cardinality(1..n) = n
    BY FS_Interval
  <2> QED
    BY <1>1, <1>2, <2>1, <2>2, FS_Injection
<1>7. DOMAIN ids = 1..n /\ \A c \in T : \E i \in 1..n : ids[i] = c
  BY <1>5, <1>6 DEF Surjection
<1> DEFINE fs == [i \in DOMAIN ids |-> [op |-> "destroyed", conn |-> ids[i]]]
<1>8. DOMAIN fs = 1..n /\ \A i \in 1..n : fs[i] = Des(ids[i])
  BY <1>7 DEF Des
<1>9. fs \in [1..n -> Functors]
  BY <1>5, <1>7 DEF Functors
<1> HIDE DEF fs
<1>10. fs \in Seq(Functors)
  BY <1>9
<1>11. Distinct(fs)
  BY <1>5, <1>8 DEF Distinct, IsInjective, Des
<1>12. \A c \in Conns : (Has(fs, Des(c)) <=> c \in T) /\ ~Has(fs, Est(c)) /\ ~Has(fs, Rem(c))
  <2> SUFFICES ASSUME NEW c \in Conns
               PROVE (Has(fs, Des(c)) <=> c \in T) /\ ~Has(fs, Est(c)) /\ ~Has(fs, Rem(c))
    OBVIOUS
  <2>1. ASSUME NEW i \in DOMAIN fs PROVE /\ fs[i] = Des(c) => c \in T
                                       /\ fs[i] # Est(c) /\ fs[i] # Rem(c)
    BY <1>5, <1>8 DEF Est, Des, Rem
  <2>2. ASSUME c \in T PROVE Has(fs, Des(c))
    BY <1>7, <1>8, <2>2 DEF Has
  <2> QED
    BY <2>1, <2>2 DEF Has
<1> QED
  BY <1>4, <1>10, <1>11, <1>12 DEF fs

-----------------------------------------------------------------------------
(* The queues of all loops                                                 *)

Queues == [AllLoops -> Seq(Functors)]

\* Functor f was posted to loop l of the queues p, which made them r.
Posted(p, r, l, f) ==
    /\ r \in Queues /\ AllDistinct(r)
    /\ \A k \in AllLoops : k # l => r[k] = p[k]
    /\ \A k \in AllLoops : \A g : Has(r[k], g) <=> Has(p[k], g) \/ (k = l /\ g = f)
    /\ \A k \in AllLoops : \A e, d :
          Ordered(p[k], e, d) /\ (f # e \/ (~Has(p[k], d) /\ d # e)) => Ordered(r[k], e, d)

\* A functor is posted to loop l.
LEMMA PostTo ==
  ASSUME NEW p \in Queues, AllDistinct(p), NEW l \in AllLoops, NEW f \in Functors,
         ~Has(p[l], f)
  PROVE  Posted(p, [p EXCEPT ![l] = Append(@, f)], l, f)
<1>0. PICK r : r = [p EXCEPT ![l] = Append(@, f)]
  OBVIOUS
<1>1. p[l] \in Seq(Functors) /\ Distinct(p[l])
  BY DEF Queues, AllDistinct
<1>2. r[l] = Append(p[l], f) /\ \A k \in AllLoops : k # l => r[k] = p[k]
  BY <1>0 DEF Queues
<1>3. r \in [AllLoops -> Seq(Functors)]
  BY <1>0, <1>1 DEF Queues
<1>4. /\ \A g : Has(r[l], g) <=> Has(p[l], g) \/ g = f
      /\ Distinct(r[l])
      /\ \A e, d : Ordered(p[l], e, d) /\ (f # e \/ (~Has(p[l], d) /\ d # e))
                      => Ordered(r[l], e, d)
  <2>1. PICK q : q = p[l]
    OBVIOUS
  <2>2. /\ \A g : Has(Append(q, f), g) <=> Has(q, g) \/ g = f
        /\ Distinct(q) /\ ~Has(q, f) => Distinct(Append(q, f))
        /\ \A e, d : Ordered(q, e, d) /\ (f # e \/ (~Has(q, d) /\ d # e))
                        => Ordered(Append(q, f), e, d)
    BY <1>1, <2>1, Posts, Zenon
  <2> QED
    BY <1>1, <1>2, <2>1, <2>2
<1>5. AllDistinct(r)
  BY <1>2, <1>4 DEF AllDistinct
<1>6. \A k \in AllLoops : \A g : Has(r[k], g) <=> Has(p[k], g) \/ (k = l /\ g = f)
  BY <1>2, <1>4, Zenon
<1>7. \A k \in AllLoops : \A e, d :
         Ordered(p[k], e, d) /\ (f # e \/ (~Has(p[k], d) /\ d # e)) => Ordered(r[k], e, d)
  BY <1>2, <1>4, Zenon
<1>8. Posted(p, r, l, f)
  BY <1>2, <1>3, <1>5, <1>6, <1>7 DEF Queues, Posted
<1> QED
  BY <1>0, <1>8

\* Loop l has run its first functor f, which made the queues p to r.
Taken(p, r, l, f) ==
    /\ r \in Queues /\ AllDistinct(r)
    /\ f \in Functors /\ Has(p[l], f)
    /\ \A k \in AllLoops : k # l => r[k] = p[k]
    /\ \A k \in AllLoops : \A g : Has(r[k], g) <=> Has(p[k], g) /\ ~(k = l /\ g = f)
    /\ \A k \in AllLoops : \A e, d : Ordered(p[k], e, d) => Ordered(r[k], e, d)
    /\ \A e, d : Ordered(p[l], e, d) /\ f = d => ~Has(p[l], e)

\* Loop l runs its first functor.
LEMMA TakeFrom ==
  ASSUME NEW p \in Queues, AllDistinct(p), NEW l \in AllLoops, p[l] # <<>>
  PROVE  Taken(p, [p EXCEPT ![l] = Tail(@)], l, Head(p[l]))
<1>0. PICK r : r = [p EXCEPT ![l] = Tail(@)]
  OBVIOUS
<1>1. p[l] \in Seq(Functors) /\ Distinct(p[l])
  BY DEF Queues, AllDistinct
<1>2. r[l] = Tail(p[l]) /\ \A k \in AllLoops : k # l => r[k] = p[k]
  BY <1>0 DEF Queues
<1>3. /\ Tail(p[l]) \in Seq(Functors)
      /\ Head(p[l]) \in Functors /\ Has(p[l], Head(p[l]))
      /\ \A g : Has(r[l], g) <=> Has(p[l], g) /\ g # Head(p[l])
      /\ Distinct(r[l])
      /\ \A e, d : Ordered(p[l], e, d) => Ordered(r[l], e, d)
      /\ \A e, d : Ordered(p[l], e, d) /\ Head(p[l]) = d => ~Has(p[l], e)
  <2>1. PICK q : q = p[l]
    OBVIOUS
  <2>2. /\ Tail(q) \in Seq(Functors) /\ Head(q) \in Functors
        /\ \A g : Has(Tail(q), g) <=> Has(q, g) /\ g # Head(q)
        /\ Has(q, Head(q))
        /\ Distinct(Tail(q))
        /\ \A e, d : Ordered(q, e, d) => Ordered(Tail(q), e, d)
        /\ \A e, d : Ordered(q, e, d) /\ Head(q) = d => ~Has(q, e)
    BY <1>1, <2>1, Runs, Zenon
  <2> QED
    BY <1>2, <2>1, <2>2, Zenon
<1>4. r \in [AllLoops -> Seq(Functors)]
  BY <1>0, <1>3 DEF Queues
<1>5. AllDistinct(r)
  BY <1>2, <1>3 DEF AllDistinct
<1>6. \A k \in AllLoops : \A g : Has(r[k], g) <=> Has(p[k], g) /\ ~(k = l /\ g = Head(p[l]))
  BY <1>2, <1>3, Zenon
<1>7. \A k \in AllLoops : \A e, d : Ordered(p[k], e, d) => Ordered(r[k], e, d)
  BY <1>2, <1>3, Zenon
<1>8. Taken(p, r, l, Head(p[l]))
  BY <1>2, <1>3, <1>4, <1>5, <1>6, <1>7 DEF Queues, Taken
<1> QED
  BY <1>0, <1>8

\* Functors that differ in what they do or for whom are different, and there are no others.
LEMMA FunctorFacts ==
  /\ \A c \in Conns : Est(c) \in Functors /\ Des(c) \in Functors /\ Rem(c) \in Functors
  /\ \A c, d \in Conns : Est(c) # Des(d) /\ Est(c) # Rem(d) /\ Des(c) # Rem(d)
  /\ \A c, d \in Conns : (Est(c) = Est(d) \/ Des(c) = Des(d) \/ Rem(c) = Rem(d)) => c = d
  /\ \A f \in Functors : f.conn \in Conns
        /\ (f.op = "established" => f = Est(f.conn)) /\ (f.op = "destroyed" => f = Des(f.conn))
        /\ (f.op = "remove" => f = Rem(f.conn))
BY DEF Functors, Est, Des, Rem

-----------------------------------------------------------------------------
(* The connections                                                         *)

States == {"none", "kConnecting", "kDisconnected", "destroyed"} \cup Open
ConnTypes == [Conns -> [state : States, loop : AllLoops]]

\* The state of connection c of cs became x, which made them ds.
Assigned(cs, ds, c, x) ==
    /\ ds \in ConnTypes /\ ds[c].state = x /\ ds[c].loop = cs[c].loop
    /\ \A d \in Conns : d # c => ds[d] = cs[d]

\* The state of one connection is assigned.
LEMMA SetState ==
  ASSUME NEW cs \in ConnTypes, NEW c \in Conns, NEW x \in States
  PROVE  Assigned(cs, [cs EXCEPT ![c].state = x], c, x)
<1>0. PICK ds : ds = [cs EXCEPT ![c].state = x]
  OBVIOUS
<1>1. ds = [cs EXCEPT ![c] = [cs[c] EXCEPT !.state = x]]
  BY <1>0 DEF ConnTypes
<1>2. PICK new : new = [cs[c] EXCEPT !.state = x]
  OBVIOUS
<1>3. cs[c] \in [state : States, loop : AllLoops]
  BY DEF ConnTypes
<1>4. new \in [state : States, loop : AllLoops] /\ new.state = x /\ new.loop = cs[c].loop
  BY <1>2, <1>3
<1>5. ds = [cs EXCEPT ![c] = new]
  BY <1>1, <1>2
<1>6. Assigned(cs, ds, c, x)
  BY <1>4, <1>5 DEF ConnTypes, Assigned
<1> QED
  BY <1>0, <1>6

\* EchoServer counts the connections that are up.
LEMMA CountOpen ==
  ASSUME NEW cs, NEW ds, NEW c \in Conns, \A d \in Conns : d # c => ds[d] = cs[d]
  PROVE  /\ Cardinality(OpenIn(ds))
               = Cardinality(OpenIn(cs)) + One(ds[c].state \in Open) - One(cs[c].state \in Open)
         /\ Cardinality(OpenIn(ds)) \in 0..MaxConns /\ Cardinality(OpenIn(cs)) \in 0..MaxConns
<1>1. IsFiniteSet(Conns) /\ Cardinality(Conns) = MaxConns
  BY FS_Interval, ServerBounds DEF Conns
<1>2. \A T \in SUBSET Conns : IsFiniteSet(T) /\ Cardinality(T) \in 0..MaxConns
  BY <1>1, FS_Subset, FS_CardinalityType, ServerBounds
<1>3. OpenIn(cs) \in SUBSET Conns /\ OpenIn(ds) \in SUBSET Conns
  BY DEF OpenIn
<1>4. OpenIn(ds) = IF ds[c].state \in Open THEN OpenIn(cs) \cup {c} ELSE OpenIn(cs) \ {c}
  BY DEF OpenIn
<1>5. c \in OpenIn(cs) <=> cs[c].state \in Open
  BY DEF OpenIn
<1>6. PICK T : T = OpenIn(cs)
  OBVIOUS
<1>7. /\ Cardinality(T \cup {c}) = IF c \in T THEN Cardinality(T) ELSE Cardinality(T) + 1
      /\ Cardinality(T \ {c}) = IF c \in T THEN Cardinality(T) - 1 ELSE Cardinality(T)
  BY <1>2, <1>3, <1>6, FS_AddElement, FS_RemoveElement
<1> QED
  BY <1>2, <1>3, <1>4, <1>5, <1>6, <1>7 DEF One

\* What a step does not touch of connection d.
Untouched(d) ==
    /\ conns'[d] = conns[d]
    /\ d \in connections_' <=> d \in connections_
    /\ \A l \in AllLoops :
          /\ Has(pending'[l], Est(d)) <=> Has(pending[l], Est(d))
          /\ Has(pending'[l], Des(d)) <=> Has(pending[l], Des(d))
          /\ Has(pending'[l], Rem(d)) <=> Has(pending[l], Rem(d))
          /\ Ordered(pending[l], Est(d), Des(d)) => Ordered(pending'[l], Est(d), Des(d))

\* A step that does not touch a connection leaves what holds of it.
LEMMA Frame ==
  ASSUME TypeOK, NEW d \in Conns, ConnOK(d), Untouched(d),
         nextConnId_' \in Nat, d < nextConnId_' <=> d < nextConnId_,
         numThread_' = numThread_, server' = "alive" <=> server = "alive"
  PROVE  ConnOK(d)'
<1>1. conns[d].loop \in AllLoops /\ Base \in AllLoops /\ d \in Nat /\ nextConnId_ \in Nat
  BY ServerBounds DEF TypeOK, Conns, AllLoops, Base
<1>2. Placed(d)'
  BY <1>1 DEF ConnOK, Untouched, Placed
<1>3. d < nextConnId_ => InLoop(d)'
  BY <1>1 DEF ConnOK, Untouched, InLoop
<1>4. d < nextConnId_ => Removal(d)'
  BY <1>1 DEF ConnOK, Untouched, Removal
<1>5. d >= nextConnId_ => Unused(d)'
  BY <1>1 DEF ConnOK, Untouched, Unused
<1>6. d >= nextConnId_' <=> d >= nextConnId_
  BY <1>1
<1> QED
  BY <1>2, <1>3, <1>4, <1>5, <1>6 DEF ConnOK

\* A step that touches no connection at all.
LEMMA Quiet ==
  ASSUME ServerInv, server' = "alive" <=> server = "alive",
         UNCHANGED <<numThread_, nextConnId_, connections_, conns, numConnection_, pending>>
  PROVE  ConnsInv'
<1>1. nextConnId_' \in Nat
  BY DEF ServerInv, TypeOK
<1>2. \A d \in Conns : Untouched(d)
  BY DEF Untouched
<1>3. \A d \in Conns : ConnOK(d)'
  BY <1>1, <1>2, Frame DEF ServerInv, ConnsInv
<1> QED
  BY <1>3 DEF ServerInv, ConnsInv

-----------------------------------------------------------------------------
(* The steps                                                               *)

\* A failed assert ends the program and changes nothing else.
LEMMA FailKeeps ==
  ASSUME ServerInv,
         UNCHANGED <<acceptVars, connections_, conns, numConnection_, pending, looping, quit_, told, ended,
                     server>>
  PROVE  ServerInv'
<1>1. ConnsInv'
  BY Quiet DEF acceptVars
<1>2. TypeOK'
  BY DEF ServerInv, TypeOK, acceptVars, IoLoops
<1>3. EndOK'
  BY DEF ServerInv, EndOK, acceptVars, IoLoops
<1> QED
  BY <1>1, <1>2, <1>3 DEF ServerInv

\* start.
LEMMA StartKeeps ==
  ASSUME ServerInv, Start
  PROVE  ServerInv'
<1>1. ConnsInv'
  BY Quiet DEF Start
<1>2. TypeOK'
  <2>1. isListening_' \in BOOLEAN
    BY Zenon DEF ServerInv, TypeOK, Start, startListening
  <2>2. started_' \in 0..2
    BY DEF ServerInv, TypeOK, Start
  <2> QED
    BY <2>1, <2>2 DEF ServerInv, TypeOK, Start, loopVars
<1>3. EndOK'
  BY DEF ServerInv, TypeOK, EndOK, Start, startListening, IoLoops, loopVars
<1> QED
  BY <1>1, <1>2, <1>3 DEF ServerInv

\* A thread enters its loop.
LEMMA BeginKeeps ==
  ASSUME ServerInv, NEW l \in AllLoops, LoopBegins(l)
  PROVE  ServerInv'
<1>1. /\ l \notin ended /\ looping' = looping \cup {l} /\ quit_' = quit_ \ {l}
      /\ UNCHANGED <<acceptVars, connections_, conns, numConnection_, pending, told, ended, server>>
  BY DEF LoopBegins
<1>2. ConnsInv'
  BY <1>1, Quiet DEF acceptVars
<1>3. TypeOK'
  BY <1>1 DEF ServerInv, TypeOK, acceptVars
<1>4. EndOK'
  BY <1>1 DEF ServerInv, EndOK, acceptVars, IoLoops
<1> QED
  BY <1>2, <1>3, <1>4 DEF ServerInv

\* Loops are told to quit and return.
LEMMA QuitKeeps ==
  ASSUME ServerInv, NEW l \in AllLoops, QuitLoop(l) \/ QuitBase \/ LoopEnds(l)
  PROVE  ServerInv'
<1>1. CASE QuitLoop(l) \/ QuitBase
  <2>1. /\ QuitLoop(l) => server = "dying"
        /\ quit_' = quit_ \cup {Base} \/ (QuitLoop(l) /\ quit_' = quit_ \cup {l})
        /\ told' \subseteq told \cup {l}
        /\ UNCHANGED <<acceptVars, connections_, conns, numConnection_, pending, looping, ended,
                       server>>
    BY <1>1 DEF QuitLoop, QuitBase
  <2>2. ConnsInv'
    BY <2>1, Quiet DEF acceptVars
  <2>3. TypeOK'
    <3>1. Base \in AllLoops
      BY ServerBounds DEF AllLoops, Base
    <3> QED
      BY <2>1, <3>1 DEF ServerInv, TypeOK, acceptVars
  <2>4. EndOK'
    BY <2>1 DEF ServerInv, EndOK, acceptVars, IoLoops
  <2> QED
    BY <2>2, <2>3, <2>4 DEF ServerInv
<1>2. CASE LoopEnds(l)
  <2>1. CASE UNCHANGED ended
    BY <1>2, <2>1, FailKeeps DEF LoopEnds, Fail, loopVars, LoopRuns, ServerInv, EndOK
  <2>2. CASE /\ l \in quit_ /\ (l = Base \/ pending[l] = <<>>)
             /\ looping' = looping \ {l} /\ ended' = ended \cup {l}
             /\ UNCHANGED <<acceptVars, connections_, conns, numConnection_, pending, quit_, told,
                            server, failed>>
    <3>1. ConnsInv'
      BY <2>2, Quiet DEF acceptVars
    <3>2. TypeOK'
      BY <2>2 DEF ServerInv, TypeOK, acceptVars
    <3>3. EndOK'
      BY <2>2 DEF ServerInv, EndOK, acceptVars, IoLoops
    <3> QED
      BY <3>1, <3>2, <3>3 DEF ServerInv
  <2> QED
    BY <1>2, <2>1, <2>2, Zenon DEF LoopEnds, Fail, loopVars
<1> QED
  BY <1>1, <1>2

\* ~TcpServer returns.
LEMMA DestroyEndsKeeps ==
  ASSUME ServerInv, DestroyEnds
  PROVE  ServerInv'
<1>1. ConnsInv'
  BY Quiet DEF DestroyEnds, acceptVars
<1>2. TypeOK'
  BY DEF ServerInv, TypeOK, DestroyEnds, acceptVars, loopVars
<1>3. EndOK'
  BY DEF ServerInv, EndOK, DestroyEnds, acceptVars, loopVars, IoLoops
<1> QED
  BY <1>1, <1>2, <1>3 DEF ServerInv

\* The types in the words of the lemmas above.
LEMMA TypeFacts ==
  ASSUME ServerInv
  PROVE  /\ pending \in Queues /\ AllDistinct(pending) /\ conns \in ConnTypes
         /\ Base \in AllLoops /\ nextConnId_ \in Nat /\ Conns \subseteq Nat
         /\ \A c \in Conns : conns[c].loop \in AllLoops /\ conns[c].state \in States
         /\ \A c \in Conns : ConnOK(c)
<1>1. conns \in ConnTypes
  BY DEF ServerInv, TypeOK, ConnTypes, States
<1> QED
  BY <1>1, ServerBounds DEF ServerInv, TypeOK, ConnsInv, Queues, ConnTypes, AllLoops, Base, Conns

\* A step that assigns the state of connection c, posts and runs functors of c alone and
\* accepts nothing.
LEMMA OneTouched ==
  ASSUME ServerInv, NEW c \in Conns, c < nextConnId_, Placed(c)', InLoop(c)', Removal(c)',
         \A d \in Conns : d # c => conns'[d] = conns[d],
         \A d \in Conns : d # c => Untouched(d),
         AllDistinct(pending'), UNCHANGED <<numThread_, nextConnId_, server>>,
         numConnection_' = numConnection_ + One(conns'[c].state \in Open)
                              - One(conns[c].state \in Open)
  PROVE  ConnsInv' /\ numConnection_' \in 0..MaxConns
<1>1. nextConnId_' \in Nat /\ c \in Nat
  BY TypeFacts
<1>2. ConnOK(c)'
  BY <1>1 DEF ConnOK
<1>3. \A d \in Conns : d # c => ConnOK(d)'
  BY <1>1, Frame DEF ServerInv, ConnsInv
<1>4. /\ numConnection_' = Cardinality(OpenIn(conns'))
      /\ Cardinality(OpenIn(conns')) \in 0..MaxConns
  BY CountOpen DEF ServerInv, ConnsInv
<1> QED
  BY <1>2, <1>3, <1>4 DEF ConnsInv

\* connectionEstablished, in the loop of the connection.
LEMMA EstablishedKeeps ==
  ASSUME ServerInv, NEW l \in AllLoops, Established(l)
  PROVE  ServerInv'
<1>0. PICK f : f = Head(pending[l])
  OBVIOUS
<1>1. PICK c : c = f.conn
  OBVIOUS
<1>2. PICK up \in UpStates :
      /\ l \in looping /\ pending[l] # <<>> /\ f.op = "established"
      /\ conns' = [conns EXCEPT ![c].state = up]
      /\ numConnection_' = numConnection_ + 1
      /\ pending' = [pending EXCEPT ![l] = Tail(@)]
      /\ UNCHANGED <<acceptVars, connections_, looping, quit_, told, ended, server, failed>>
  BY <1>0, <1>1 DEF Established, Due, LoopRuns, Take, loopVars
<1>3. Taken(pending, pending', l, f)
  <2>1. pending \in Queues /\ AllDistinct(pending)
    BY TypeFacts
  <2>2. Taken(pending, [pending EXCEPT ![l] = Tail(@)], l, Head(pending[l]))
    BY <1>2, <2>1, TakeFrom, Zenon
  <2> QED
    BY <1>0, <1>2, <2>2, Zenon
<1>4. c \in Conns /\ f = Est(c)
  BY <1>1, <1>2, <1>3, FunctorFacts DEF Taken
<1>5. conns[c].loop = l /\ c < nextConnId_ /\ conns[c].state = "kConnecting" /\ l # Base
  <2>1. ConnOK(c) /\ Has(pending[l], Est(c)) /\ c \in Nat /\ nextConnId_ \in Nat
    BY <1>3, <1>4, TypeFacts DEF Taken
  <2>2. conns[c].loop = l /\ c < nextConnId_
    BY <2>1 DEF ConnOK, Placed, Unused
  <2> QED
    BY <2>1, <2>2 DEF ConnOK, InLoop, Removal
<1>6. up \in Open /\ up \in States /\ up \notin {"none", "kConnecting", "kDisconnected", "destroyed"}
  BY <1>2 DEF UpStates, Open, States
<1>7. Assigned(conns, conns', c, up)
  <2>1. conns \in ConnTypes
    BY TypeFacts
  <2>2. Assigned(conns, [conns EXCEPT ![c].state = up], c, up)
    BY <1>4, <1>6, <2>1, SetState, Zenon
  <2> QED
    BY <1>2, <2>2, Zenon
<1>8. ASSUME NEW d \in Conns, d # c PROVE Untouched(d)
  <2>1. Est(d) # f /\ Des(d) # f /\ Rem(d) # f
    BY <1>4, <1>8, FunctorFacts
  <2> QED
    BY <1>2, <1>3, <1>7, <1>8, <2>1 DEF Untouched, Taken, Assigned
<1>9. Des(c) # f /\ Rem(c) # f
  BY <1>4, FunctorFacts
<1>10. InLoop(c) /\ Removal(c) /\ Placed(c)
  BY <1>4, <1>5, TypeFacts DEF ConnOK
<1>11. Placed(c)'
  BY <1>3, <1>7, <1>10 DEF Placed, Taken, Assigned
<1>12. InLoop(c)'
  <2>1. UNCHANGED <<numThread_, connections_>>
    BY <1>2 DEF acceptVars
  <2> QED
    BY <1>3, <1>4, <1>5, <1>6, <1>7, <1>9, <1>10, <2>1 DEF InLoop, Taken, Assigned
<1>13. Removal(c)'
  <2>1. Base \in AllLoops
    BY TypeFacts
  <2> QED
    BY <1>2, <1>3, <1>5, <1>6, <1>7, <1>9, <1>10, <2>1 DEF Removal, Taken, Assigned
<1>14. conns[c].state \notin Open
  BY <1>5 DEF Open
<1>15. numConnection_' = numConnection_ + One(conns'[c].state \in Open) - One(conns[c].state \in Open)
  BY <1>2, <1>6, <1>7, <1>14 DEF One, ServerInv, TypeOK, Assigned
<1>16. ConnsInv' /\ numConnection_' \in 0..MaxConns
  BY <1>2, <1>3, <1>4, <1>5, <1>7, <1>8, <1>11, <1>12, <1>13, <1>15, OneTouched DEF acceptVars, Taken, Assigned
<1>17. TypeOK'
  BY <1>2, <1>3, <1>7, <1>16 DEF ServerInv, TypeOK, ConnTypes, States, Queues, acceptVars, Taken, Assigned
<1>18. EndOK'
  BY <1>2, <1>3 DEF ServerInv, EndOK, TypeOK, acceptVars, IoLoops, Taken
<1> QED
  BY <1>16, <1>17, <1>18 DEF ServerInv

\* connectionDestroyed, in the loop of the connection.
LEMMA DestroyedKeeps ==
  ASSUME ServerInv, NEW l \in AllLoops, Destroyed(l), ~Fail("remove")
  PROVE  ServerInv'
<1>0. PICK f : f = Head(pending[l])
  OBVIOUS
<1>1. PICK c : c = f.conn
  OBVIOUS
<1>2. /\ l \in looping /\ pending[l] # <<>> /\ f.op = "destroyed"
      /\ conns[c].state # "kDisconnecting"
      /\ conns' = [conns EXCEPT ![c].state = "destroyed"]
      /\ numConnection_' = IF conns[c].state = "kConnected" THEN numConnection_ - 1
                                                           ELSE numConnection_
      /\ pending' = [pending EXCEPT ![l] = Tail(@)]
      /\ UNCHANGED <<acceptVars, connections_, looping, quit_, told, ended, server, failed>>
  BY <1>0, <1>1 DEF Destroyed, Due, LoopRuns, Take, loopVars
<1>3. Taken(pending, pending', l, f)
  <2>1. pending \in Queues /\ AllDistinct(pending)
    BY TypeFacts
  <2>2. Taken(pending, [pending EXCEPT ![l] = Tail(@)], l, Head(pending[l]))
    BY <1>2, <2>1, TakeFrom, Zenon
  <2> QED
    BY <1>0, <1>2, <2>2, Zenon
<1>4. c \in Conns /\ f = Des(c)
  BY <1>1, <1>2, <1>3, FunctorFacts DEF Taken
<1>5. conns[c].loop = l /\ c < nextConnId_ /\ InLoop(c) /\ Removal(c) /\ Placed(c)
  <2>1. ConnOK(c) /\ Has(pending[l], Des(c)) /\ c \in Nat /\ nextConnId_ \in Nat
    BY <1>3, <1>4, TypeFacts DEF Taken
  <2>2. conns[c].loop = l /\ c < nextConnId_
    BY <2>1 DEF ConnOK, Placed, Unused
  <2> QED
    BY <2>1, <2>2 DEF ConnOK
<1>6. /\ c \notin connections_ /\ conns[c].state \notin {"destroyed", "kConnecting", "none"}
      /\ ~Has(pending[l], Est(c))
  <2>1. Has(pending[l], Des(c)) /\ ~Has(pending[l], Est(c))
    BY <1>3, <1>4, <1>5 DEF Taken, InLoop
  <2> QED
    BY <1>5, <2>1 DEF InLoop
<1>7. Assigned(conns, conns', c, "destroyed")
  <2>1. conns \in ConnTypes /\ "destroyed" \in States
    BY TypeFacts DEF States
  <2>2. Assigned(conns, [conns EXCEPT ![c].state = "destroyed"], c, "destroyed")
    BY <1>4, <2>1, SetState, Zenon
  <2> QED
    BY <1>2, <2>2, Zenon
<1>8. ASSUME NEW d \in Conns, d # c PROVE Untouched(d)
  <2>1. Est(d) # f /\ Des(d) # f /\ Rem(d) # f
    BY <1>4, <1>8, FunctorFacts
  <2> QED
    BY <1>2, <1>3, <1>7, <1>8, <2>1 DEF Untouched, Taken, Assigned
<1>9. Est(c) # f /\ Rem(c) # f
  BY <1>4, FunctorFacts
<1>10. Placed(c)'
  BY <1>3, <1>5, <1>7 DEF Placed, Taken, Assigned
<1>11. InLoop(c)'
  <2>1. UNCHANGED <<numThread_, connections_>>
    BY <1>2 DEF acceptVars
  <2> QED
    BY <1>3, <1>4, <1>5, <1>6, <1>7, <1>9, <2>1 DEF InLoop, Taken, Assigned
<1>12. Removal(c)'
  <2>1. Base \in AllLoops
    BY TypeFacts
  <2> QED
    BY <1>2, <1>3, <1>4, <1>5, <1>6, <1>7, <1>9, <2>1 DEF Removal, Taken, Assigned
<1>13. numConnection_' = numConnection_ + One(conns'[c].state \in Open) - One(conns[c].state \in Open)
  <2>1. conns'[c].state \notin Open
    BY <1>7 DEF Assigned, Open
  <2>2. conns[c].state \in Open <=> conns[c].state = "kConnected"
    BY <1>2 DEF Open
  <2>3. numConnection_ \in Nat
    BY DEF ServerInv, TypeOK
  <2> QED
    BY <1>2, <2>1, <2>2, <2>3 DEF One
<1>14. ConnsInv' /\ numConnection_' \in 0..MaxConns
  BY <1>2, <1>3, <1>4, <1>5, <1>7, <1>8, <1>10, <1>11, <1>12, <1>13, OneTouched
     DEF acceptVars, Taken, Assigned
<1>15. TypeOK'
  BY <1>2, <1>3, <1>7, <1>14
     DEF ServerInv, TypeOK, ConnTypes, States, Queues, acceptVars, Taken, Assigned
<1>16. EndOK'
  BY <1>2, <1>3 DEF ServerInv, EndOK, TypeOK, acceptVars, IoLoops, Taken
<1> QED
  BY <1>14, <1>15, <1>16 DEF ServerInv

\* A connection that is up and is in the map, while the server is there or in the base loop.
LEMMA OpenInMap ==
  ASSUME ServerInv, NEW c \in Conns, conns[c].state \in Open
  PROVE  /\ c < nextConnId_ /\ InLoop(c) /\ Removal(c) /\ Placed(c)
         /\ ~Has(pending[Base], Rem(c))
         /\ server = "alive" \/ conns[c].loop = Base
               => c \in connections_ /\ ~Has(pending[conns[c].loop], Des(c))
<1>1. ConnOK(c) /\ c \in Nat /\ nextConnId_ \in Nat
  BY TypeFacts
<1>2. conns[c].state \notin {"none", "kConnecting", "kDisconnected", "destroyed"}
  BY DEF Open
<1>3. c < nextConnId_ /\ InLoop(c) /\ Removal(c) /\ Placed(c)
  BY <1>1, <1>2 DEF ConnOK, Unused
<1>4. ~Has(pending[Base], Rem(c))
  BY <1>2, <1>3 DEF Removal
<1>5. server = "alive" \/ conns[c].loop = Base => ~Has(pending[conns[c].loop], Des(c))
  BY <1>2, <1>3 DEF Removal
<1> QED
  BY <1>2, <1>3, <1>4, <1>5 DEF InLoop

\* handleClose in the base loop: the entry is erased at once.
LEMMA CloseInBaseKeeps ==
  ASSUME ServerInv, NEW c \in Conns, HandleClose(c), conns[c].loop = Base
  PROVE  ServerInv'
<1>1. /\ conns[c].state \in Open
      /\ conns' = [conns EXCEPT ![c].state = "kDisconnected"]
      /\ numConnection_' = numConnection_ - 1
      /\ connections_' = connections_ \ {c}
      /\ pending' = [pending EXCEPT ![Base] = Append(@, Des(c))]
      /\ UNCHANGED <<acceptVars, looping, quit_, told, ended, server, failed>>
  BY DEF HandleClose, MayClose, removeConnectionInLoop, Post, Des, loopVars
<1>2. /\ c < nextConnId_ /\ InLoop(c) /\ Removal(c) /\ Placed(c)
      /\ ~Has(pending[Base], Rem(c)) /\ ~Has(pending[Base], Des(c)) /\ c \in connections_
  BY <1>1, OpenInMap
<1>3. Posted(pending, pending', Base, Des(c))
  <2>1. pending \in Queues /\ AllDistinct(pending) /\ Base \in AllLoops /\ Des(c) \in Functors
    BY TypeFacts, FunctorFacts
  <2>2. Posted(pending, [pending EXCEPT ![Base] = Append(@, Des(c))], Base, Des(c))
    BY <1>2, <2>1, PostTo, Zenon
  <2> QED
    BY <1>1, <2>2, Zenon
<1>4. Assigned(conns, conns', c, "kDisconnected")
  <2>1. conns \in ConnTypes /\ "kDisconnected" \in States
    BY TypeFacts DEF States
  <2>2. Assigned(conns, [conns EXCEPT ![c].state = "kDisconnected"], c, "kDisconnected")
    BY <2>1, SetState, Zenon
  <2> QED
    BY <1>1, <2>2, Zenon
<1>5. ASSUME NEW d \in Conns, d # c PROVE Untouched(d)
  <2>1. Est(d) # Des(c) /\ Des(d) # Des(c) /\ Rem(d) # Des(c)
    BY <1>5, FunctorFacts
  <2> QED
    BY <1>1, <1>3, <1>4, <1>5, <2>1 DEF Untouched, Posted, Assigned
<1>6. Est(c) # Des(c) /\ Rem(c) # Des(c) /\ Base \in AllLoops
  BY FunctorFacts, TypeFacts
<1>7. Placed(c)'
  BY <1>2, <1>3, <1>4, <1>6 DEF Placed, Posted, Assigned
<1>8. conns[c].state \notin {"none", "kConnecting", "kDisconnected", "destroyed"}
  BY <1>1 DEF Open
<1>9. InLoop(c)'
  <2>1. UNCHANGED numThread_
    BY <1>1 DEF acceptVars
  <2> QED
    BY <1>1, <1>2, <1>3, <1>4, <1>6, <1>8, <2>1 DEF InLoop, Posted, Assigned
<1>10. Removal(c)'
  BY <1>1, <1>2, <1>3, <1>4, <1>6 DEF Removal, Posted, Assigned
<1>11. numConnection_' = numConnection_ + One(conns'[c].state \in Open) - One(conns[c].state \in Open)
  <2>1. conns'[c].state \notin Open
    BY <1>4 DEF Assigned, Open
  <2>2. numConnection_ \in Nat
    BY DEF ServerInv, TypeOK
  <2> QED
    BY <1>1, <2>1, <2>2 DEF One
<1>12. ConnsInv' /\ numConnection_' \in 0..MaxConns
  BY <1>1, <1>2, <1>3, <1>4, <1>5, <1>7, <1>9, <1>10, <1>11, OneTouched
     DEF acceptVars, Posted, Assigned
<1>13. TypeOK'
  BY <1>1, <1>3, <1>4, <1>12
     DEF ServerInv, TypeOK, ConnTypes, States, Queues, acceptVars, Posted, Assigned
<1>14. EndOK'
  BY <1>1, <1>3 DEF ServerInv, EndOK, TypeOK, acceptVars, IoLoops, Posted
<1> QED
  BY <1>12, <1>13, <1>14 DEF ServerInv

\* handleClose in a loop of the pool: the removal is posted to the base loop.
LEMMA CloseInPoolKeeps ==
  ASSUME ServerInv, NEW c \in Conns, HandleClose(c), conns[c].loop # Base
  PROVE  ServerInv'
<1>1. /\ conns[c].state \in Open
      /\ conns' = [conns EXCEPT ![c].state = "kDisconnected"]
      /\ numConnection_' = numConnection_ - 1
      /\ pending' = [pending EXCEPT ![Base] = Append(@, Rem(c))]
      /\ UNCHANGED <<acceptVars, connections_, looping, quit_, told, ended, server, failed>>
  BY DEF HandleClose, MayClose, Post, Rem, loopVars
<1>2. /\ c < nextConnId_ /\ InLoop(c) /\ Removal(c) /\ Placed(c)
      /\ ~Has(pending[Base], Rem(c))
      /\ server = "alive" => c \in connections_ /\ ~Has(pending[conns[c].loop], Des(c))
  BY <1>1, OpenInMap
<1>3. Posted(pending, pending', Base, Rem(c))
  <2>1. pending \in Queues /\ AllDistinct(pending) /\ Base \in AllLoops /\ Rem(c) \in Functors
    BY TypeFacts, FunctorFacts
  <2>2. Posted(pending, [pending EXCEPT ![Base] = Append(@, Rem(c))], Base, Rem(c))
    BY <1>2, <2>1, PostTo, Zenon
  <2> QED
    BY <1>1, <2>2, Zenon
<1>4. Assigned(conns, conns', c, "kDisconnected")
  <2>1. conns \in ConnTypes /\ "kDisconnected" \in States
    BY TypeFacts DEF States
  <2>2. Assigned(conns, [conns EXCEPT ![c].state = "kDisconnected"], c, "kDisconnected")
    BY <2>1, SetState, Zenon
  <2> QED
    BY <1>1, <2>2, Zenon
<1>5. ASSUME NEW d \in Conns, d # c PROVE Untouched(d)
  <2>1. Est(d) # Rem(c) /\ Des(d) # Rem(c) /\ Rem(d) # Rem(c)
    BY <1>5, FunctorFacts
  <2> QED
    BY <1>1, <1>3, <1>4, <1>5, <2>1 DEF Untouched, Posted, Assigned
<1>6. /\ Est(c) # Rem(c) /\ Des(c) # Rem(c) /\ Base \in AllLoops /\ conns[c].loop \in AllLoops
      /\ conns[c].state \notin {"none", "kConnecting", "kDisconnected", "destroyed"}
  BY <1>1, FunctorFacts, TypeFacts DEF Open
<1>7. Placed(c)'
  BY <1>2, <1>3, <1>4, <1>6 DEF Placed, Posted, Assigned
<1>8. InLoop(c)'
  <2>1. UNCHANGED numThread_
    BY <1>1 DEF acceptVars
  <2> QED
    BY <1>1, <1>2, <1>3, <1>4, <1>6, <2>1 DEF InLoop, Posted, Assigned
<1>9. Removal(c)'
  BY <1>1, <1>2, <1>3, <1>4, <1>6 DEF Removal, Posted, Assigned
<1>10. numConnection_' = numConnection_ + One(conns'[c].state \in Open) - One(conns[c].state \in Open)
  <2>1. conns'[c].state \notin Open
    BY <1>4 DEF Assigned, Open
  <2>2. numConnection_ \in Nat
    BY DEF ServerInv, TypeOK
  <2> QED
    BY <1>1, <2>1, <2>2 DEF One
<1>11. ConnsInv' /\ numConnection_' \in 0..MaxConns
  BY <1>1, <1>2, <1>3, <1>4, <1>5, <1>7, <1>8, <1>9, <1>10, OneTouched
     DEF acceptVars, Posted, Assigned
<1>12. TypeOK'
  BY <1>1, <1>3, <1>4, <1>11
     DEF ServerInv, TypeOK, ConnTypes, States, Queues, acceptVars, Posted, Assigned
<1>13. EndOK'
  BY <1>1, <1>3 DEF ServerInv, EndOK, TypeOK, acceptVars, IoLoops, Posted
<1> QED
  BY <1>11, <1>12, <1>13 DEF ServerInv

\* removeConnectionInLoop as a functor of the base loop.
LEMMA RemoveConnectionKeeps ==
  ASSUME ServerInv, RemoveConnection
  PROVE  ServerInv'
<1>0. PICK f : f = Head(pending[Base])
  OBVIOUS
<1>1. PICK c : c = f.conn
  OBVIOUS
<1>2. PICK p : p = [pending EXCEPT ![Base] = Tail(@)]
  OBVIOUS
<1>3. CASE Fail("dangling")
  BY <1>3, FailKeeps DEF Fail, loopVars
<1>4. CASE ~Fail("dangling")
  <2>1. /\ Base \in looping /\ pending[Base] # <<>> /\ f.op = "remove" /\ server = "alive"
        /\ connections_' = connections_ \ {c}
        /\ pending' = [p EXCEPT ![conns[c].loop] = Append(@, Des(c))]
        /\ UNCHANGED <<acceptVars, conns, numConnection_, looping, quit_, told, ended, server, failed>>
    BY <1>0, <1>1, <1>2, <1>4
       DEF RemoveConnection, Due, LoopRuns, Take, removeConnectionInLoop, Post, Des, loopVars
  <2>2. Taken(pending, p, Base, f)
    <3>1. pending \in Queues /\ AllDistinct(pending) /\ Base \in AllLoops
      BY TypeFacts
    <3>2. Taken(pending, [pending EXCEPT ![Base] = Tail(@)], Base, Head(pending[Base]))
      BY <2>1, <3>1, TakeFrom, Zenon
    <3> QED
      BY <1>0, <1>2, <3>2, Zenon
  <2>3. c \in Conns /\ f = Rem(c)
    BY <1>1, <2>1, <2>2, FunctorFacts DEF Taken
  <2>4. c < nextConnId_ /\ InLoop(c) /\ Removal(c) /\ Placed(c)
    <3>1. ConnOK(c) /\ Has(pending[Base], Rem(c)) /\ c \in Nat /\ nextConnId_ \in Nat /\ Base \in AllLoops
      BY <2>2, <2>3, TypeFacts DEF Taken
    <3>2. c < nextConnId_
      BY <3>1 DEF ConnOK, Unused
    <3> QED
      BY <3>1, <3>2 DEF ConnOK
  <2>5. PICK l : l = conns[c].loop
    OBVIOUS
  <2>6. /\ c \in connections_ /\ conns[c].state = "kDisconnected"
        /\ l \in AllLoops /\ l # Base /\ ~Has(pending[l], Des(c))
    <3>1. Has(pending[Base], Rem(c))
      BY <2>2, <2>3 DEF Taken
    <3>2. c \in connections_ /\ conns[c].state = "kDisconnected"
      BY <2>1, <2>4, <3>1 DEF Removal
    <3>3. l \in AllLoops
      BY <2>3, <2>5, TypeFacts
    <3>4. l # Base
      BY <2>4, <2>5, <3>2 DEF Removal, Open
    <3>5. ~Has(pending[l], Des(c))
      BY <2>4, <2>5, <3>2 DEF InLoop
    <3> QED
      BY <3>2, <3>3, <3>4, <3>5
  <2>7. Posted(p, pending', l, Des(c))
    <3>1. p \in Queues /\ AllDistinct(p) /\ Des(c) \in Functors /\ ~Has(p[l], Des(c))
      BY <2>2, <2>3, <2>6, FunctorFacts DEF Taken
    <3>2. Posted(p, [p EXCEPT ![l] = Append(@, Des(c))], l, Des(c))
      BY <2>6, <3>1, PostTo, Zenon
    <3> QED
      BY <2>1, <2>5, <3>2, Zenon
  <2>8. ASSUME NEW d \in Conns, d # c PROVE Untouched(d)
    <3>1. /\ Est(d) # Des(c) /\ Des(d) # Des(c) /\ Rem(d) # Des(c)
          /\ Est(d) # f /\ Des(d) # f /\ Rem(d) # f
      BY <2>3, <2>8, FunctorFacts
    <3>2. \A k \in AllLoops :
            /\ Has(pending'[k], Est(d)) <=> Has(pending[k], Est(d))
            /\ Has(pending'[k], Des(d)) <=> Has(pending[k], Des(d))
            /\ Has(pending'[k], Rem(d)) <=> Has(pending[k], Rem(d))
      BY <2>2, <2>7, <3>1 DEF Posted, Taken
    <3>3. \A k \in AllLoops :
            Ordered(pending[k], Est(d), Des(d)) => Ordered(pending'[k], Est(d), Des(d))
      BY <2>2, <2>7, <3>1 DEF Posted, Taken
    <3> QED
      BY <2>1, <2>8, <3>2, <3>3 DEF Untouched
  <2>9. /\ Est(c) # Des(c) /\ Rem(c) # Des(c) /\ Est(c) # f /\ Des(c) # f
        /\ Base \in AllLoops
    BY <2>3, FunctorFacts, TypeFacts
  <2>10. /\ \A k \in AllLoops : /\ Has(pending'[k], Est(c)) <=> Has(pending[k], Est(c))
                                /\ Has(pending'[k], Des(c)) <=> Has(pending[k], Des(c)) \/ k = l
                                /\ Has(pending'[k], Rem(c)) <=> Has(pending[k], Rem(c)) /\ k # Base
         /\ Ordered(pending[l], Est(c), Des(c)) => Ordered(pending'[l], Est(c), Des(c))
    BY <2>2, <2>3, <2>6, <2>7, <2>9 DEF Posted, Taken
  <2>11. Placed(c)'
    BY <2>1, <2>4, <2>5, <2>10 DEF Placed
  <2>12. InLoop(c)'
    <3>1. UNCHANGED numThread_
      BY <2>1 DEF acceptVars
    <3> QED
      BY <2>1, <2>4, <2>5, <2>6, <2>10, <3>1 DEF InLoop
  <2>13. Removal(c)'
    BY <2>1, <2>4, <2>5, <2>6, <2>9, <2>10 DEF Removal
  <2>14. numConnection_' = numConnection_ + One(conns'[c].state \in Open) - One(conns[c].state \in Open)
    BY <2>1 DEF One, ServerInv, TypeOK
  <2>15. ConnsInv' /\ numConnection_' \in 0..MaxConns
    BY <2>1, <2>3, <2>4, <2>7, <2>8, <2>11, <2>12, <2>13, <2>14, OneTouched
       DEF acceptVars, Posted
  <2>16. TypeOK'
    BY <2>1, <2>7 DEF ServerInv, TypeOK, Queues, acceptVars, Posted
  <2>17. EndOK'
    <3>1. ended \ {Base} = {}
      BY <2>1 DEF ServerInv, EndOK
    <3> QED
      BY <2>1, <3>1 DEF ServerInv, EndOK, acceptVars, IoLoops
  <2> QED
    BY <2>15, <2>16, <2>17 DEF ServerInv
<1> QED
  BY <1>3, <1>4

\* The pool hands out a loop of its own, or the base loop when it has none.
LEMMA NextLoop ==
  ASSUME ServerInv
  PROVE  /\ getNextLoop.loop \in AllLoops /\ getNextLoop.loop <= numThread_
         /\ getNextLoop.loop = Base <=> numThread_ = 0
         /\ getNextLoop.next \in 0..MaxThreads
         /\ numThread_ > 0 => getNextLoop.next < numThread_
<1>1. /\ numThread_ \in Nat /\ next_ \in Nat /\ numThread_ <= MaxThreads /\ next_ <= MaxThreads
      /\ numThread_ > 0 => next_ < numThread_
      /\ MaxThreads \in Nat
  BY ServerBounds DEF ServerInv, TypeOK
<1>2. CASE numThread_ = 0
  BY <1>1, <1>2 DEF getNextLoop, AllLoops, Base
<1>3. CASE numThread_ > 0
  <2>1. getNextLoop.loop = next_ + 1 /\ getNextLoop.next = (next_ + 1) % numThread_
    BY <1>3 DEF getNextLoop
  <2>2. (next_ + 1) % numThread_ \in 0..numThread_ - 1
    BY <1>1, <1>3
  <2> QED
    BY <1>1, <1>3, <2>1, <2>2 DEF AllLoops, Base
<1> QED
  BY <1>1, <1>2, <1>3

\* Acceptor::handleNewConnection and newConncetion.
LEMMA NewConnectionKeeps ==
  ASSUME ServerInv, HandleNewConnection
  PROVE  ServerInv'
<1>1. PICK c, l : c = nextConnId_ /\ l = getNextLoop.loop
  OBVIOUS
<1>2. /\ server = "alive" /\ isListening_ /\ c <= MaxConns
      /\ next_' = getNextLoop.next /\ nextConnId_' = c + 1
      /\ connections_' = connections_ \cup {c}
      /\ UNCHANGED <<started_, isListening_, numThread_, looping, quit_, told, ended, server, failed>>
      /\ newConncetion(c, l)
  BY <1>1 DEF HandleNewConnection, loopVars
<1>3. PICK x \in UpStates \cup {"kConnecting"} :
      /\ l = Base => x \in UpStates
      /\ l # Base => x = "kConnecting"
      /\ conns' = [conns EXCEPT ![c] = [state |-> x, loop |-> l]]
  BY <1>2 DEF newConncetion
<1>4. c \in Conns /\ c \in Nat /\ l \in AllLoops /\ l <= numThread_ /\ (l = Base <=> numThread_ = 0)
  BY <1>1, <1>2, NextLoop, ServerBounds DEF Conns, ServerInv, TypeOK
<1>5. ConnOK(c) /\ Unused(c) /\ c \notin connections_
  <2>1. ConnOK(c)
    BY <1>4, TypeFacts
  <2>2. Unused(c)
    BY <1>1, <1>4, <2>1 DEF ConnOK
  <2>3. c \notin connections_
    BY <1>1, <1>4 DEF ServerInv, TypeOK
  <2> QED
    BY <2>1, <2>2, <2>3
<1>6. /\ x \in States /\ x # "none" /\ x # "destroyed" /\ x # "kDisconnected"
      /\ (x \in Open <=> l = Base) /\ (x = "kConnecting" <=> l # Base)
  BY <1>3 DEF UpStates, Open, States
<1>7. /\ conns' \in ConnTypes /\ conns'[c].state = x /\ conns'[c].loop = l
      /\ \A d \in Conns : d # c => conns'[d] = conns[d]
  <2>1. conns \in ConnTypes
    BY TypeFacts
  <2>2. PICK new : new = [state |-> x, loop |-> l]
    OBVIOUS
  <2>3. new \in [state : States, loop : AllLoops] /\ new.state = x /\ new.loop = l
    BY <1>4, <1>6, <2>2
  <2>4. conns' = [conns EXCEPT ![c] = new]
    BY <1>3, <2>2
  <2> QED
    BY <1>4, <2>1, <2>3, <2>4 DEF ConnTypes
<1>8. /\ pending' \in Queues /\ AllDistinct(pending')
      /\ \A k \in AllLoops : k # l \/ l = Base => pending'[k] = pending[k]
      /\ \A k \in AllLoops : \A g :
            Has(pending'[k], g) <=> Has(pending[k], g) \/ (k = l /\ g = Est(c) /\ l # Base)
      /\ \A k \in AllLoops : \A e, d :
            Ordered(pending[k], e, d) /\ (Est(c) # e \/ (~Has(pending[k], d) /\ d # e))
               => Ordered(pending'[k], e, d)
  <2>1. pending \in Queues /\ AllDistinct(pending)
    BY TypeFacts
  <2>2. CASE l = Base
    <3>1. pending' = pending
      BY <1>2, <2>2 DEF newConncetion
    <3> QED
      BY <2>1, <2>2, <3>1
  <2>3. CASE l # Base
    <3>1. pending' = [pending EXCEPT ![l] = Append(@, Est(c))]
      BY <1>2, <2>3 DEF newConncetion, Est
    <3>2. ~Has(pending[l], Est(c)) /\ Est(c) \in Functors
      BY <1>4, <1>5, FunctorFacts DEF Unused
    <3>3. Posted(pending, [pending EXCEPT ![l] = Append(@, Est(c))], l, Est(c))
      BY <1>4, <2>1, <3>2, PostTo, Zenon
    <3>4. Posted(pending, pending', l, Est(c))
      BY <3>1, <3>3, Zenon
    <3> QED
      BY <2>3, <3>4 DEF Posted
  <2> QED
    BY <2>2, <2>3
<1>9. ASSUME NEW d \in Conns, d # c PROVE ConnOK(d)'
  <2>1. Est(d) # Est(c) /\ Des(d) # Est(c) /\ Rem(d) # Est(c)
    BY <1>4, <1>9, FunctorFacts
  <2>2. Untouched(d)
    BY <1>2, <1>7, <1>8, <1>9, <2>1 DEF Untouched
  <2>3. nextConnId_' \in Nat /\ (d < nextConnId_' <=> d < nextConnId_)
    BY <1>1, <1>2, <1>4, <1>9 DEF Conns
  <2> QED
    BY <1>2, <2>2, <2>3, Frame, TypeFacts DEF ServerInv
<1>10. ConnOK(c)'
  <2>1. Des(c) # Est(c) /\ Rem(c) # Est(c) /\ Base \in AllLoops
    BY <1>4, FunctorFacts, TypeFacts
  <2>2. \A k \in AllLoops : /\ ~Has(pending'[k], Des(c)) /\ ~Has(pending'[k], Rem(c))
                            /\ Has(pending'[k], Est(c)) <=> k = l /\ l # Base
    BY <1>5, <1>8, <2>1 DEF Unused
  <2>3. Placed(c)'
    BY <1>7, <2>2 DEF Placed
  <2>4. Ordered(pending'[l], Est(c), Des(c))
    BY <1>4, <2>2 DEF Ordered, Has
  <2>5. InLoop(c)'
    BY <1>2, <1>4, <1>6, <1>7, <2>2, <2>4 DEF InLoop
  <2>6. Removal(c)'
    BY <1>2, <1>4, <1>6, <1>7, <2>1, <2>2 DEF Removal
  <2>7. c < nextConnId_' /\ ~(c >= nextConnId_')
    BY <1>2, <1>4
  <2> QED
    BY <2>3, <2>5, <2>6, <2>7 DEF ConnOK
<1>11. numConnection_' = Cardinality(OpenIn(conns')) /\ numConnection_' \in 0..MaxConns
  <2>1. numConnection_' = numConnection_ + One(l = Base) /\ numConnection_ \in Nat
    BY <1>2 DEF newConncetion, One, ServerInv, TypeOK
  <2>2. /\ Cardinality(OpenIn(conns')) = Cardinality(OpenIn(conns))
              + One(conns'[c].state \in Open) - One(conns[c].state \in Open)
        /\ Cardinality(OpenIn(conns')) \in 0..MaxConns
    BY <1>4, <1>7, CountOpen
  <2>3. conns[c].state \notin Open
    BY <1>5 DEF Unused, Open
  <2> QED
    BY <1>6, <1>7, <2>1, <2>2, <2>3 DEF One, ServerInv, ConnsInv
<1>12. ConnsInv'
  BY <1>8, <1>9, <1>10, <1>11 DEF ConnsInv
<1>13. TypeOK'
  <2>1. nextConnId_' \in 1..MaxConns + 1 /\ connections_' \subseteq 1..nextConnId_' - 1
    BY <1>1, <1>2, <1>4, ServerBounds DEF ServerInv, TypeOK
  <2>2. next_' \in 0..MaxThreads /\ (numThread_' > 0 => next_' < numThread_')
    BY <1>2, NextLoop
  <2> QED
    BY <1>2, <1>7, <1>8, <1>11, <2>1, <2>2 DEF ServerInv, TypeOK, ConnTypes, States, Queues
<1>14. EndOK'
  <2>1. ended \ {Base} = {}
    BY <1>2 DEF ServerInv, EndOK
  <2> QED
    BY <1>2, <2>1 DEF ServerInv, EndOK, IoLoops
<1> QED
  BY <1>12, <1>13, <1>14 DEF ServerInv

\* ~TcpServer asks for the destruction of every connection in the map.
LEMMA DestroyKeeps ==
  ASSUME ServerInv, Destroy
  PROVE  ServerInv'
<1> DEFINE B == ToDestroyIn(Base)
           ids(l) == SetToSeq(ToDestroyIn(l))
           fs(l) == [i \in DOMAIN ids(l) |-> [op |-> "destroyed", conn |-> ids(l)[i]]]
<1>1. CASE Fail("remove")
  BY <1>1, FailKeeps DEF Fail, loopVars
<1>2. CASE ~Fail("remove")
  <2>1. /\ server = "alive"
        /\ \A c \in B : conns[c].state # "kDisconnecting"
        /\ connections_' = {}
        /\ conns' = [c \in Conns |->
              IF c \in B THEN [conns[c] EXCEPT !.state = "destroyed"] ELSE conns[c]]
        /\ pending' = [l \in AllLoops |-> IF l = Base THEN pending[l] ELSE pending[l] \o fs(l)]
        /\ numConnection_' = numConnection_
              - Cardinality({c \in B : conns[c].state = "kConnected"})
        /\ server' = "dying" /\ isListening_' = FALSE
        /\ UNCHANGED <<started_, numThread_, next_, nextConnId_, looping, quit_, told, ended, failed>>
    BY <1>2 DEF Destroy, loopVars
  <2>2. \A l : ToDestroyIn(l) = {c \in connections_ : conns[c].loop = l}
    BY DEF ToDestroyIn, ToDestroy
  <2>3. connections_ \subseteq Conns /\ \A c \in connections_ : c < nextConnId_
    BY ServerBounds DEF ServerInv, TypeOK, Conns
  <2>4. ASSUME NEW l \in AllLoops
        PROVE  /\ fs(l) \in Seq(Functors) /\ Distinct(fs(l))
               /\ \A c \in Conns : /\ Has(fs(l), Des(c)) <=> c \in connections_ /\ conns[c].loop = l
                                   /\ ~Has(fs(l), Est(c)) /\ ~Has(fs(l), Rem(c))
    <3>1. ToDestroyIn(l) \in SUBSET Conns
      BY <2>2, <2>3
    <3>2. /\ fs(l) \in Seq(Functors) /\ Distinct(fs(l))
          /\ \A c \in Conns : /\ Has(fs(l), Des(c)) <=> c \in ToDestroyIn(l)
                              /\ ~Has(fs(l), Est(c)) /\ ~Has(fs(l), Rem(c))
      BY <3>1, AllOnce, Zenon
    <3> QED
      BY <2>2, <3>2
  <2> HIDE DEF fs, ids
  <2>5. ASSUME NEW c \in connections_
        PROVE  /\ c \in Conns /\ InLoop(c) /\ Removal(c) /\ conns[c].loop \in AllLoops
               /\ ~Has(pending[conns[c].loop], Des(c)) /\ conns[c].state # "destroyed"
    <3>1. c \in Conns /\ c < nextConnId_ /\ ConnOK(c) /\ conns[c].loop \in AllLoops
      BY <2>3, TypeFacts
    <3>2. InLoop(c) /\ Removal(c)
      BY <3>1 DEF ConnOK
    <3> QED
      BY <3>1, <3>2 DEF InLoop
  <2>6. \A c \in B : conns[c].state = "kConnected"
    BY <2>1, <2>2, <2>5 DEF Removal, Open
  <2>7. ASSUME NEW l \in AllLoops
        PROVE  /\ pending'[l] \in Seq(Functors) /\ Distinct(pending'[l])
               /\ \A c \in Conns :
                     /\ Has(pending'[l], Est(c)) <=> Has(pending[l], Est(c))
                     /\ Has(pending'[l], Rem(c)) <=> Has(pending[l], Rem(c))
                     /\ Has(pending'[l], Des(c)) <=>
                           Has(pending[l], Des(c)) \/ (c \in connections_ /\ conns[c].loop = l /\ l # Base)
                     /\ Ordered(pending[l], Est(c), Des(c)) => Ordered(pending'[l], Est(c), Des(c))
    <3>0. pending[l] \in Seq(Functors) /\ Distinct(pending[l])
      BY TypeFacts DEF Queues, AllDistinct
    <3>1. CASE l = Base
      <4>1. pending'[l] = pending[l]
        BY <2>1, <3>1
      <4> QED
        BY <3>0, <3>1, <4>1
    <3>2. CASE l # Base
      <4>1. PICK q, r : q = pending[l] /\ r = fs(l)
        OBVIOUS
      <4>2. pending'[l] = q \o r
        BY <2>1, <3>2, <4>1
      <4>3. /\ q \in Seq(Functors) /\ r \in Seq(Functors) /\ Distinct(q) /\ Distinct(r)
            /\ \A c \in Conns : /\ Has(r, Des(c)) <=> c \in connections_ /\ conns[c].loop = l
                                /\ ~Has(r, Est(c)) /\ ~Has(r, Rem(c))
        BY <2>4, <3>0, <4>1
      <4>4. ASSUME NEW g \in Functors PROVE ~(Has(q, g) /\ Has(r, g))
        <5>1. \E c \in Conns : g = Est(c) \/ g = Des(c) \/ g = Rem(c)
          BY DEF Functors, Est, Des, Rem
        <5> QED
          BY <2>5, <4>1, <4>3, <5>1
      <4>5. /\ q \o r \in Seq(Functors)
            /\ \A g : Has(q \o r, g) <=> Has(q, g) \/ Has(r, g)
            /\ Distinct(q) /\ Distinct(r) /\ (\A g \in Functors : ~(Has(q, g) /\ Has(r, g)))
                  => Distinct(q \o r)
            /\ \A e, d : Ordered(q, e, d) /\ ~Has(r, e) => Ordered(q \o r, e, d)
        BY <4>3, PostsMany, Zenon
      <4>6. PICK s : s = q \o r
        OBVIOUS
      <4> QED
        BY <3>2, <4>1, <4>2, <4>3, <4>4, <4>5, <4>6
    <3> QED
      BY <3>1, <3>2
  <2>8. ASSUME NEW c \in Conns
        PROVE  /\ conns'[c].loop = conns[c].loop
               /\ conns'[c].state = IF c \in B THEN "destroyed" ELSE conns[c].state
               /\ conns'[c] \in [state : States, loop : AllLoops]
    <3>1. conns[c] \in [state : States, loop : AllLoops]
      BY TypeFacts DEF ConnTypes
    <3>2. conns'[c] = IF c \in B THEN [conns[c] EXCEPT !.state = "destroyed"] ELSE conns[c]
      BY <2>1
    <3>3. "destroyed" \in States
      BY DEF States
    <3> QED
      BY <3>1, <3>2, <3>3
  <2>9. \A c \in Conns : c \in B <=> c \in connections_ /\ conns[c].loop = Base
    BY <2>2
  <2> HIDE DEF B
  <2>10. ASSUME NEW c \in Conns PROVE ConnOK(c)'
    <3>1. /\ ConnOK(c) /\ conns[c].loop \in AllLoops /\ Base \in AllLoops
          /\ c \in Nat /\ nextConnId_ \in Nat /\ nextConnId_' = nextConnId_
      BY <2>1, TypeFacts
    <3>2. Placed(c)'
      BY <2>7, <2>8, <3>1 DEF ConnOK, Placed
    <3>3. CASE c >= nextConnId_
      <4>1. c \notin connections_
        BY <2>3, <3>1, <3>3
      <4>2. Unused(c)
        BY <3>1, <3>3 DEF ConnOK
      <4>3. Unused(c)'
        BY <2>7, <2>8, <2>9, <4>1, <4>2 DEF Unused
      <4> QED
        BY <3>1, <3>2, <3>3, <4>3 DEF ConnOK
    <3>4. CASE c < nextConnId_
      <4>1. InLoop(c) /\ Removal(c)
        BY <3>1, <3>4 DEF ConnOK
      <4>2. InLoop(c)'
        <5>1. conns'[c].state = "kConnecting" <=> conns[c].state = "kConnecting"
          BY <2>6, <2>8
        <5>2. conns'[c].state # "none"
          BY <2>8, <4>1 DEF InLoop
        <5>3. Has(pending'[conns[c].loop], Des(c)) <=> conns'[c].state # "destroyed"
          BY <2>7, <2>8, <2>9, <3>1, <4>1 DEF InLoop
        <5>4. UNCHANGED numThread_ /\ conns'[c].loop = conns[c].loop
          BY <2>1, <2>8
        <5> QED
          BY <2>1, <2>7, <3>1, <4>1, <5>1, <5>2, <5>3, <5>4 DEF InLoop
      <4>3. Removal(c)'
        <5>1. conns'[c].loop = conns[c].loop /\ connections_' = {} /\ server' # "alive"
          BY <2>1, <2>8
        <5>2. Has(pending'[Base], Rem(c)) => conns'[c].state \in {"kDisconnected", "destroyed"}
          BY <2>7, <2>8, <3>1, <4>1 DEF Removal
        <5>3. conns[c].loop = Base /\ Has(pending'[Base], Des(c)) => conns'[c].state = "kDisconnected"
          BY <2>7, <2>8, <2>9, <3>1, <4>1 DEF Removal, InLoop
        <5>4. conns[c].loop = Base => conns'[c].state # "kConnecting"
          BY <2>8, <4>1 DEF Removal
        <5> QED
          BY <5>1, <5>2, <5>3, <5>4 DEF Removal
      <4> QED
        BY <3>1, <3>2, <3>4, <4>2, <4>3 DEF ConnOK
    <3> QED
      BY <3>1, <3>3, <3>4
  <2>11. numConnection_' = Cardinality(OpenIn(conns')) /\ numConnection_' \in 0..MaxConns
    <3>1. IsFiniteSet(Conns) /\ Cardinality(Conns) = MaxConns
      BY FS_Interval, ServerBounds DEF Conns
    <3>2. \A T \in SUBSET Conns : IsFiniteSet(T) /\ Cardinality(T) \in 0..MaxConns
      BY <3>1, FS_Subset, FS_CardinalityType, ServerBounds
    <3>3. PICK O : O = OpenIn(conns)
      OBVIOUS
    <3>4. O \in SUBSET Conns /\ OpenIn(conns') \in SUBSET Conns
      BY <3>3 DEF OpenIn
    <3>5. OpenIn(conns') = O \ B
      BY <2>8, <3>3 DEF OpenIn, Open
    <3>6. O \cap B = {c \in B : conns[c].state = "kConnected"}
      BY <2>2, <2>3, <2>6, <3>3 DEF OpenIn, Open, B
    <3>7. Cardinality(O \ B) = Cardinality(O) - Cardinality(O \cap B)
      BY <3>2, <3>4, FS_Difference
    <3>8. numConnection_ = Cardinality(O)
      BY <3>3 DEF ServerInv, ConnsInv
    <3> QED
      BY <2>1, <3>2, <3>4, <3>5, <3>6, <3>7, <3>8
  <2>12. ConnsInv'
    BY <2>7, <2>10, <2>11 DEF ConnsInv, AllDistinct
  <2>13. TypeOK'
    <3>1. pending' \in [AllLoops -> Seq(Functors)]
      <4>1. pending' = [l \in AllLoops |-> pending'[l]]
        BY <2>1
      <4> QED
        BY <2>7, <4>1
    <3>2. conns' \in [Conns -> [state : States, loop : AllLoops]]
      <4>1. conns' = [c \in Conns |-> conns'[c]]
        BY <2>1
      <4> QED
        BY <2>8, <4>1
    <3>3. isListening_' \in BOOLEAN
      BY <2>1, Zenon
    <3>4. connections_' = {} /\ server' = "dying"
          /\ UNCHANGED <<started_, numThread_, next_, nextConnId_, looping, quit_, told, ended>>
      BY <2>1
    <3> QED
      BY <2>11, <3>1, <3>2, <3>3, <3>4 DEF ServerInv, TypeOK, States
  <2>14. EndOK'
    <3>1. ended \ {Base} = {}
      BY <2>1 DEF ServerInv, EndOK
    <3> QED
      BY <2>1, <3>1 DEF ServerInv, EndOK, IoLoops
  <2> QED
    BY <2>12, <2>13, <2>14 DEF ServerInv
<1> QED
  BY <1>1, <1>2

-----------------------------------------------------------------------------
(* The theorems                                                            *)

\* A new server with its pool not started.
LEMMA ServerInvInitially == Init => ServerInv
<1> SUFFICES ASSUME Init PROVE ServerInv
  OBVIOUS
<1>1. \A c \in Conns : conns[c] = [state |-> "none", loop |-> Base]
  BY DEF Init
<1>2. \A l \in AllLoops : pending[l] = <<>>
  BY DEF Init
<1>3. TypeOK
  <2>1. Base \in AllLoops
    BY ServerBounds DEF AllLoops, Base
  <2>2. isListening_ \in BOOLEAN
    BY Zenon DEF Init
  <2>3. conns \in [Conns -> [state : {"none", "kConnecting", "kDisconnected", "destroyed"}
                                        \cup Open, loop : AllLoops]]
    BY <2>1 DEF Init
  <2>4. pending \in [AllLoops -> Seq(Functors)]
    BY DEF Init
  <2> QED
    BY <2>2, <2>3, <2>4, ServerBounds DEF Init, TypeOK
<1>4. AllDistinct(pending) /\ \A l \in AllLoops : \A g : ~Has(pending[l], g)
  BY <1>2 DEF AllDistinct, Distinct, Has
<1>5. OpenIn(conns) = {}
  BY <1>1 DEF OpenIn, Open
<1>6. \A c \in Conns : ConnOK(c)
  BY <1>1, <1>4 DEF ConnOK, Placed, Unused, Conns, Init
<1>7. EndOK
  BY DEF Init, EndOK
<1> QED
  BY <1>3, <1>4, <1>5, <1>6, <1>7, FS_EmptySet DEF ServerInv, ConnsInv, Init

\* No step of the base loop, of the pool's loops or of the destructor breaks it.
LEMMA ServerInvKept == ServerInv /\ [Next]_vars => ServerInv'
<1> SUFFICES ASSUME ServerInv, [Next]_vars PROVE ServerInv'
  OBVIOUS
<1>1. CASE StartFails \/ AcceptFails \/ UNCHANGED vars
  BY <1>1, FailKeeps DEF StartFails, AcceptFails, Fail, vars, loopVars
<1>2. ASSUME NEW c \in Conns, HandleClose(c) PROVE ServerInv'
  BY <1>2, CloseInBaseKeeps, CloseInPoolKeeps
<1>3. CASE QuitBase
  <2>1. Base \in AllLoops
    BY TypeFacts
  <2> QED
    BY <1>3, <2>1, QuitKeeps
<1>4. ASSUME NEW l \in AllLoops, LoopBegins(l) \/ LoopStep(l) \/ QuitLoop(l) \/ LoopEnds(l)
      PROVE  ServerInv'
  <2>1. CASE Fail("remove")
    BY <2>1, FailKeeps DEF Fail, loopVars
  <2> QED
    BY <1>4, <2>1, EstablishedKeeps, DestroyedKeeps, BeginKeeps, QuitKeeps, Zenon DEF LoopStep
<1> QED
  BY <1>1, <1>2, <1>3, <1>4, StartKeeps, NewConnectionKeeps, RemoveConnectionKeeps, DestroyKeeps,
     DestroyEndsKeeps, Zenon DEF Next

\* TcpServer, its Acceptor and its pool: connections, functors and loops stay consistent,
\* for any number of threads and connections.
THEOREM ServerIsConsistent == Spec => []ServerInv
BY ServerInvInitially, ServerInvKept, PTL DEF Spec

\* newConncetion, removeConnection and ~TcpServer: every connection is destroyed by its
\* removal or by the destructor, never by both, and none is left behind open.
THEOREM DestroyedByOne == Spec => []OneDestroyer
<1>1. ServerInv => OneDestroyer
  <2> SUFFICES ASSUME ServerInv PROVE OneDestroyer
    OBVIOUS
  <2>1. ASSUME NEW c \in Conns, server = "gone"
        PROVE  conns[c].state \notin Open \cup {"kConnecting"}
    <3>1. /\ ConnOK(c) /\ conns[c].loop \in AllLoops /\ c \in Nat /\ nextConnId_ \in Nat
      BY TypeFacts
    <3>2. CASE c >= nextConnId_
      BY <3>1, <3>2 DEF ConnOK, Unused, Open
    <3>3. CASE c < nextConnId_
      <4>1. InLoop(c) /\ Removal(c) /\ connections_ = {} /\ nextConnId_ > 1
        BY <2>1, <3>1, <3>3 DEF ConnOK, ServerInv, EndOK, Conns
      <4>2. CASE conns[c].loop = Base
        BY <4>1, <4>2 DEF InLoop, Removal, Open
      <4>3. CASE conns[c].loop # Base
        <5>1. conns[c].loop \in IoLoops
          BY <3>1, <4>1, <4>3 DEF InLoop, IoLoops, AllLoops, Base, ServerInv, TypeOK
        <5>2. conns[c].loop \in ended \ {Base}
          BY <2>1, <4>1, <4>3, <5>1 DEF ServerInv, EndOK
        <5>3. pending[conns[c].loop] = <<>>
          BY <5>2 DEF ServerInv, EndOK
        <5>4. ~Has(pending[conns[c].loop], Des(c))
          BY <5>3 DEF Has
        <5> QED
          BY <4>1, <5>4 DEF InLoop, Open
      <4> QED
        BY <4>2, <4>3
    <3> QED
      BY <3>1, <3>2, <3>3
  <2>2. ASSUME NEW c \in Accepted
        PROVE  /\ Pending(conns[c].loop, "destroyed", c) + One(c \in connections_)
                     = One(conns[c].state # "destroyed")
               /\ server = "alive" => Pending(Base, "remove", c)
                     = One(c \in connections_ /\ conns[c].state = "kDisconnected")
    <3>1. c \in Conns /\ c < nextConnId_
      BY ServerBounds DEF Accepted, Conns, ServerInv, TypeOK
    <3>2. /\ InLoop(c) /\ Removal(c)
          /\ conns[c].loop \in AllLoops /\ Base \in AllLoops
      BY <3>1, TypeFacts DEF ConnOK
    <3>3. ASSUME NEW l \in AllLoops, NEW f
          PROVE  Cardinality({i \in DOMAIN pending[l] : pending[l][i] = f}) = One(Has(pending[l], f))
      <4>1. pending[l] \in Seq(Functors) /\ Distinct(pending[l])
        BY TypeFacts DEF Queues, AllDistinct
      <4> QED
        BY <4>1, Counted
    <3>4. /\ Pending(conns[c].loop, "destroyed", c) = One(Has(pending[conns[c].loop], Des(c)))
          /\ Pending(Base, "remove", c) = One(Has(pending[Base], Rem(c)))
      BY <3>2, <3>3 DEF Pending, Des, Rem
    <3>5. server = "alive" => Pending(Base, "remove", c)
                     = One(c \in connections_ /\ conns[c].state = "kDisconnected")
      BY <3>2, <3>4 DEF Removal, One
    <3>6. Pending(conns[c].loop, "destroyed", c) + One(c \in connections_)
             = One(conns[c].state # "destroyed")
      BY <3>2, <3>4 DEF InLoop, One
    <3> QED
      BY <3>5, <3>6
  <2>3. TypeOK
    BY DEF ServerInv
  <2> QED
    BY <2>1, <2>2, <2>3 DEF OneDestroyer
<1> QED
  BY <1>1, ServerIsConsistent, PTL

\* newConncetion and connectionDestroyed over two loops: a connection is established once,
\* in its own loop, before it is destroyed there.
THEOREM EstablishedBeforeDestroyed == Spec => []EstablishedFirst
<1>1. ServerInv => EstablishedFirst
  <2> SUFFICES ASSUME ServerInv, NEW c \in Accepted
               PROVE  /\ Pending(conns[c].loop, "established", c)
                            = One(conns[c].state = "kConnecting")
                      /\ Ordered(pending[conns[c].loop], Est(c), Des(c))
    BY DEF EstablishedFirst, Ordered, Est, Des
  <2>1. c \in Conns /\ c < nextConnId_
    BY ServerBounds DEF Accepted, Conns, ServerInv, TypeOK
  <2>2. InLoop(c) /\ conns[c].loop \in AllLoops
    BY <2>1, TypeFacts DEF ConnOK
  <2>3. pending[conns[c].loop] \in Seq(Functors) /\ Distinct(pending[conns[c].loop])
    BY <2>2, TypeFacts DEF Queues, AllDistinct
  <2>4. Pending(conns[c].loop, "established", c) = One(Has(pending[conns[c].loop], Est(c)))
    BY <2>3, Counted DEF Pending, Est
  <2> QED
    BY <2>2, <2>4 DEF InLoop, One
<1> QED
  BY <1>1, ServerIsConsistent, PTL
=============================================================================
