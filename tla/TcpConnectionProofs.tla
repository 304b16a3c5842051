------------------------ MODULE TcpConnectionProofs ------------------------
(***************************************************************************)
(* The safety properties of TcpConnection, for any number of threads, any  *)
(* set of calls and any bounds.                                            *)
(***************************************************************************)
EXTENDS TcpConnection, SequenceTheorems, TLAPS

USE DEF Events, States, Revents, Failures

-----------------------------------------------------------------------------
(* The channel                                                             *)

\* What TypeOK says of the channel and its place in the poller.
ChannelOK ==
    /\ events_ \subseteq Events
    /\ isInLoop_ \in BOOLEAN
    /\ index_ \in {"kNew", "kAdded", "kDeleted", "abort"}
    /\ failed \in Failures
    /\ Running => (isInLoop_ <=> index_ # "kNew") /\ (events_ # {} => index_ = "kAdded")

\* Channel::update: after any assignment of events the channel knows whether the poller
\* has it, or an assert has failed.
LEMMA SetEventsType ==
  ASSUME ChannelOK, Running, NEW evs \in SUBSET Events, SetEvents(evs),
         failed' \in Failures
  PROVE  ChannelOK'
BY DEF ChannelOK, Running, SetEvents, updateChannel

-----------------------------------------------------------------------------
(* Bytes, numbered in the order in which they were taken                    *)

\* The bytes of s are the ones that follow byte b.
IsRun(s, b) == \A i \in 1..Len(s) : s[i] = b + i

\* A run of bytes behind the one it continues is a run.
LEMMA RunConcat ==
  ASSUME NEW b \in Nat, NEW u \in Seq(Nat), NEW v \in Seq(Nat),
         IsRun(u, b), IsRun(v, b + Len(u))
  PROVE  /\ u \o v \in Seq(Nat) /\ Len(u \o v) = Len(u) + Len(v)
         /\ IsRun(u \o v, b)
<1>1. Len(u) \in Nat /\ Len(v) \in Nat
  BY LenProperties
<1>2. /\ u \o v \in Seq(Nat) /\ Len(u \o v) = Len(u) + Len(v)
      /\ \A i \in 1..Len(u) + Len(v) : (u \o v)[i] =
            IF i <= Len(u) THEN u[i] ELSE v[i - Len(u)]
  BY ConcatProperties
<1>3. ASSUME NEW i \in 1..Len(u) + Len(v) PROVE (u \o v)[i] = b + i
  <2>1. CASE i <= Len(u)
    BY <2>1, <1>1, <1>2 DEF IsRun
  <2>2. CASE ~(i <= Len(u))
    <3>1. i - Len(u) \in 1..Len(v)
      BY <2>2, <1>1
    <3>2. v[i - Len(u)] = b + Len(u) + (i - Len(u))
      BY <3>1 DEF IsRun
    <3>3. (u \o v)[i] = v[i - Len(u)]
      BY <2>2, <1>2
    <3> QED
      BY <3>2, <3>3, <1>1
  <2> QED
    BY <2>1, <2>2
<1> QED
  BY <1>2, <1>3 DEF IsRun

\* Both parts of a run are runs.
LEMMA RunSplit ==
  ASSUME NEW b \in Nat, NEW u \in Seq(Nat), NEW v \in Seq(Nat), IsRun(u \o v, b)
  PROVE  IsRun(u, b) /\ IsRun(v, b + Len(u))
<1>1. Len(u) \in Nat /\ Len(v) \in Nat
  BY LenProperties
<1>2. /\ Len(u \o v) = Len(u) + Len(v)
      /\ \A i \in 1..Len(u) + Len(v) : (u \o v)[i] =
            IF i <= Len(u) THEN u[i] ELSE v[i - Len(u)]
  BY ConcatProperties
<1>3. ASSUME NEW i \in 1..Len(u) PROVE u[i] = b + i
  BY <1>1, <1>2, SMTT(30) DEF IsRun
<1>4. ASSUME NEW i \in 1..Len(v) PROVE v[i] = b + Len(u) + i
  <2>1. /\ Len(u) + i \in 1..Len(u) + Len(v) /\ ~(Len(u) + i <= Len(u))
        /\ Len(u) + i - Len(u) = i
    BY <1>1
  <2>2. (u \o v)[Len(u) + i] = b + (Len(u) + i)
    BY <2>1, <1>2 DEF IsRun
  <2>3. (u \o v)[Len(u) + i] = v[i]
    BY <2>1, <1>2
  <2> QED
    BY <2>2, <2>3, <1>1
<1> QED
  BY <1>3, <1>4 DEF IsRun

\* A stretch of a run is a run from where it begins.
LEMMA RunSubSeq ==
  ASSUME NEW b \in Nat, NEW s \in Seq(Nat), IsRun(s, b),
         NEW m \in 0..Len(s), NEW n \in m..Len(s)
  PROVE  /\ SubSeq(s, m + 1, n) \in Seq(Nat) /\ Len(SubSeq(s, m + 1, n)) = n - m
         /\ IsRun(SubSeq(s, m + 1, n), b + m)
<1>1. Len(s) \in Nat /\ m \in Nat /\ n \in Nat /\ m + 1 \in Int /\ n \in Int
  BY LenProperties
<1>2. \A i \in m + 1..n : s[i] \in Nat
  BY <1>1, ElementOfSeq
<1>3. /\ SubSeq(s, m + 1, n) \in Seq(Nat)
      /\ Len(SubSeq(s, m + 1, n)) = IF m + 1 <= n THEN n - (m + 1) + 1 ELSE 0
      /\ \A i \in 1..n - (m + 1) + 1 : SubSeq(s, m + 1, n)[i] = s[m + 1 + i - 1]
  BY <1>1, <1>2, SubSeqProperties
<1>4. Len(SubSeq(s, m + 1, n)) = n - m
  BY <1>1, <1>3
<1>5. ASSUME NEW i \in 1..n - m PROVE SubSeq(s, m + 1, n)[i] = b + m + i
  <2>1. i \in 1..n - (m + 1) + 1 /\ m + 1 + i - 1 = m + i /\ m + i \in 1..Len(s)
    BY <1>1
  <2>2. SubSeq(s, m + 1, n)[i] = s[m + i]
    BY <1>3, <2>1
  <2>3. s[m + i] = b + (m + i)
    BY <2>1 DEF IsRun
  <2> QED
    BY <2>2, <2>3, <1>1
<1> QED
  BY <1>3, <1>4, <1>5 DEF IsRun

\* A function on 1..n is a sequence.
LEMMA FunctionIsSeq ==
  ASSUME NEW S, NEW n \in Nat, NEW f \in [1..n -> S]
  PROVE  f \in Seq(S)
<1>1. f \in UNION {[1..k -> S] : k \in Nat}
  BY Zenon
<1> QED
  BY <1>1, SeqDef, Zenon

\* s has been sent, o is buffered, and together they are the a bytes that were taken.
BytesOK(s, o, a) ==
    /\ a \in Nat /\ s \in Seq(1..a) /\ o \in Seq(1..a)
    /\ s \o o = [i \in 1..a |-> i]

\* Bytes sent and buffered are in order iff they are two runs, one behind the other.
LEMMA BytesAreRuns ==
  ASSUME NEW s \in Seq(Nat), NEW o \in Seq(Nat), NEW a \in Nat
  PROVE  BytesOK(s, o, a) <=> IsRun(s, 0) /\ IsRun(o, Len(s)) /\ Len(s) + Len(o) = a
<1>1. /\ Len(s) \in Nat /\ Len(o) \in Nat
      /\ s \o o \in Seq(Nat) /\ Len(s \o o) = Len(s) + Len(o)
      /\ DOMAIN (s \o o) = 1..Len(s \o o) /\ s \o o \in [1..Len(s \o o) -> Nat]
  BY LenProperties, ConcatProperties
<1>2. ASSUME BytesOK(s, o, a)
      PROVE  IsRun(s, 0) /\ IsRun(o, Len(s)) /\ Len(s) + Len(o) = a
  <2>1. DOMAIN (s \o o) = 1..a /\ \A i \in 1..a : (s \o o)[i] = i
    BY <1>2 DEF BytesOK
  <2>2. Len(s \o o) = a
    BY <2>1, <1>1
  <2>3. IsRun(s \o o, 0)
    BY <2>1, <2>2 DEF IsRun
  <2>4. IsRun(s, 0) /\ IsRun(o, 0 + Len(s))
    BY <2>3, RunSplit
  <2> QED
    BY <2>2, <2>4, <1>1
<1>3. ASSUME IsRun(s, 0), IsRun(o, Len(s)), Len(s) + Len(o) = a
      PROVE  BytesOK(s, o, a)
  <2>1. IsRun(o, 0 + Len(s))
    BY <1>3, <1>1
  <2>2. IsRun(s \o o, 0)
    BY <1>3, <2>1, RunConcat
  <2>3. s \o o = [i \in 1..a |-> i]
    <3>1. \A i \in 1..a : (s \o o)[i] = i
      BY <2>2, <1>1, <1>3 DEF IsRun
    <3>2. s \o o \in [1..a -> Nat]
      BY <1>1, <1>3
    <3> QED
      BY <3>1, <3>2
  <2>4. ASSUME NEW r \in Seq(Nat), NEW b \in Nat, IsRun(r, b), b + Len(r) <= a
        PROVE  r \in Seq(1..a)
    <3>1. Len(r) \in Nat /\ \A i \in 1..Len(r) : r[i] \in 1..a
      BY <2>4, LenProperties DEF IsRun
    <3>2. r \in [1..Len(r) -> 1..a]
      BY <3>1, LenProperties
    <3> QED
      BY <3>1, <3>2, FunctionIsSeq
  <2>5. s \in Seq(1..a) /\ o \in Seq(1..a)
    BY <2>4, <1>1, <1>3
  <2> QED
    BY <2>3, <2>5 DEF BytesOK
<1> QED
  BY <1>2, <1>3

\* The types in BytesOK, for the prover.
LEMMA BytesTypes ==
  ASSUME NEW s, NEW o, NEW a, BytesOK(s, o, a)
  PROVE  a \in Nat /\ s \in Seq(Nat) /\ o \in Seq(Nat)
<1>1. a \in Nat /\ s \in Seq(1..a) /\ o \in Seq(1..a) /\ 1..a \subseteq Nat
  BY DEF BytesOK
<1> QED
  BY <1>1, SeqMonotonic

\* Two runs, one behind the other, are bytes in order.
LEMMA RunsAreBytes ==
  ASSUME NEW s, NEW o, NEW a, s \in Seq(Nat), o \in Seq(Nat), a \in Nat,
         IsRun(s, 0), IsRun(o, Len(s)), Len(s) + Len(o) = a
  PROVE  BytesOK(s, o, a)
BY BytesAreRuns

\* The bytes m + 1 to n of a run.
LEMMA PartOfRun ==
  ASSUME NEW b \in Nat, NEW s \in Seq(Nat), IsRun(s, b),
         NEW m \in Nat, NEW n \in Nat, m <= n, n <= Len(s)
  PROVE  /\ SubSeq(s, m + 1, n) \in Seq(Nat) /\ Len(SubSeq(s, m + 1, n)) = n - m
         /\ IsRun(SubSeq(s, m + 1, n), b + m)
<1>1. m \in 0..Len(s) /\ n \in m..Len(s)
  BY LenProperties
<1> QED
  BY <1>1, RunSubSeq

\* What is left of a run when its first m bytes were written.
LEMMA RestOfRun ==
  ASSUME NEW b \in Nat, NEW s \in Seq(Nat), IsRun(s, b), NEW m \in Nat, m <= Len(s)
  PROVE  /\ SubSeq(s, m + 1, Len(s)) \in Seq(Nat)
         /\ Len(SubSeq(s, m + 1, Len(s))) = Len(s) - m
         /\ IsRun(SubSeq(s, m + 1, Len(s)), b + m)
<1>1. Len(s) \in Nat /\ Len(s) <= Len(s)
  BY LenProperties
<1> QED
  BY <1>1, PartOfRun, ZenonT(60)

\* The first n bytes of a run, as write(2) takes them.
LEMMA StartOfRun ==
  ASSUME NEW b \in Nat, NEW s \in Seq(Nat), IsRun(s, b), NEW n \in Nat, n <= Len(s)
  PROVE  /\ SubSeq(s, 1, n) \in Seq(Nat) /\ Len(SubSeq(s, 1, n)) = n
         /\ IsRun(SubSeq(s, 1, n), b)
<1>1. 0 \in Nat /\ 0 <= n
  OBVIOUS
<1>2. /\ SubSeq(s, 0 + 1, n) \in Seq(Nat) /\ Len(SubSeq(s, 0 + 1, n)) = n - 0
      /\ IsRun(SubSeq(s, 0 + 1, n), b + 0)
  BY <1>1, PartOfRun, Zenon
<1>3. 0 + 1 = 1 /\ n - 0 = n /\ b + 0 = b
  OBVIOUS
<1> QED
  BY <1>2, <1>3

\* s and o are followed by the run d of which k bytes go to s and the others to o.
LEMMA TakeRun ==
  ASSUME NEW s \in Seq(Nat), NEW o \in Seq(Nat), NEW d \in Seq(Nat),
         NEW k \in Nat, k <= Len(d), k = 0 \/ o = <<>>,
         IsRun(s, 0), IsRun(o, Len(s)), IsRun(d, Len(s) + Len(o))
  PROVE  BytesOK(s \o SubSeq(d, 1, k), o \o SubSeq(d, k + 1, Len(d)),
                 Len(s) + Len(o) + Len(d))
<1>1. Len(s) \in Nat /\ Len(o) \in Nat /\ Len(d) \in Nat
  BY LenProperties
<1>2. Len(s) + Len(o) \in Nat /\ Len(s) + Len(o) + Len(d) \in Nat /\ Len(d) <= Len(d)
  BY <1>1
<1> DEFINE p == SubSeq(d, 1, k)
           r == SubSeq(d, k + 1, Len(d))
<1>3. p \in Seq(Nat) /\ Len(p) = k /\ IsRun(p, Len(s) + Len(o))
  BY <1>2, StartOfRun, Zenon
<1>4. r \in Seq(Nat) /\ Len(r) = Len(d) - k /\ IsRun(r, Len(s) + Len(o) + k)
  <2>1. PICK b \in Nat : b = Len(s) + Len(o)
    BY <1>2
  <2>2. IsRun(d, b)
    BY <2>1
  <2>3. r \in Seq(Nat) /\ Len(r) = Len(d) - k /\ IsRun(r, b + k)
    BY <1>1, <2>2, RestOfRun, ZenonT(60)
  <2> QED
    BY <2>1, <2>3
<1> HIDE DEF p, r
<1>5. CASE k = 0
  <2>1. s \o p = s
    <3>1. p = <<>>
      BY <1>3, <1>5, EmptySeq
    <3> QED
      BY <3>1, ConcatEmptySeq
  <2>2. Len(s) + Len(o) + k = Len(s) + Len(o)
    BY <1>1, <1>5
  <2>3. IsRun(r, Len(s) + Len(o))
    BY <1>4, <2>2
  <2>4. /\ o \o r \in Seq(Nat) /\ Len(o \o r) = Len(o) + Len(r) /\ IsRun(o \o r, Len(s))
    BY <1>1, <1>4, <2>3, RunConcat, Zenon
  <2>5. Len(s) + Len(o \o r) = Len(s) + Len(o) + Len(d)
    <3>1. Len(o \o r) = Len(o) + Len(r) /\ Len(r) = Len(d) - k
      BY <2>4, <1>4
    <3> QED
      BY <3>1, <1>1, <1>5
  <2>6. BytesOK(s, o \o r, Len(s) + Len(o) + Len(d))
    BY <1>2, <2>4, <2>5, RunsAreBytes, Zenon
  <2> QED
    BY <2>1, <2>6 DEF p, r
<1>6. CASE o = <<>>
  <2>1. o \o r = r /\ Len(o) = 0
    BY <1>4, <1>6, ConcatEmptySeq, EmptySeq
  <2>2. 0 \in Nat /\ Len(s) + Len(o) = 0 + Len(s)
    BY <1>1, <2>1
  <2>3. IsRun(p, 0 + Len(s))
    BY <1>3, <2>2
  <2>4. /\ s \o p \in Seq(Nat) /\ Len(s \o p) = Len(s) + Len(p) /\ IsRun(s \o p, 0)
    BY <1>3, <2>2, <2>3, RunConcat, Zenon
  <2>5. /\ Len(s \o p) = Len(s) + Len(o) + k
        /\ Len(s \o p) + Len(r) = Len(s) + Len(o) + Len(d)
    <3>1. Len(s \o p) = Len(s) + Len(p) /\ Len(p) = k /\ Len(r) = Len(d) - k
      BY <1>3, <1>4, <2>4
    <3> QED
      BY <3>1, <1>1, <2>1
  <2>6. IsRun(r, Len(s \o p))
    BY <1>4, <2>5
  <2>7. BytesOK(s \o p, r, Len(s) + Len(o) + Len(d))
    BY <1>2, <1>4, <2>4, <2>5, <2>6, RunsAreBytes, Zenon
  <2> QED
    BY <2>1, <2>7 DEF p, r
<1> QED
  BY <1>5, <1>6

\* sendInLoop: n more bytes are taken, k of them sent at once and the others buffered,
\* where k is 0 unless the buffer is empty.
LEMMA TakeBytes ==
  ASSUME NEW s, NEW o, NEW a, BytesOK(s, o, a),
         NEW n \in Nat, NEW k \in 0..n, k = 0 \/ o = <<>>,
         NEW d, d = [i \in 1..n |-> a + i]
  PROVE  BytesOK(s \o SubSeq(d, 1, k), o \o SubSeq(d, k + 1, n), a + n)
<1>1. a \in Nat /\ s \in Seq(Nat) /\ o \in Seq(Nat)
  BY BytesTypes
<1>2. IsRun(s, 0) /\ IsRun(o, Len(s)) /\ Len(s) + Len(o) = a
  BY <1>1, BytesAreRuns
<1>3. d \in Seq(Nat) /\ Len(d) = n /\ IsRun(d, a)
  <2>1. d \in [1..n -> Nat]
    BY <1>1
  <2>2. d \in Seq(Nat)
    BY <2>1, FunctionIsSeq
  <2>3. Len(d) = n
    BY <2>2, LenProperties
  <2> QED
    BY <2>2, <2>3 DEF IsRun
<1>4. k \in Nat /\ k <= Len(d) /\ IsRun(d, Len(s) + Len(o))
  BY <1>2, <1>3
<1>5. BytesOK(s \o SubSeq(d, 1, k), o \o SubSeq(d, k + 1, Len(d)), Len(s) + Len(o) + Len(d))
  BY <1>1, <1>2, <1>3, <1>4, TakeRun
<1> QED
  BY <1>2, <1>3, <1>5

\* handleWrite: the first k bytes of the buffer are sent.
LEMMA FlushBytes ==
  ASSUME NEW s, NEW o, NEW a, BytesOK(s, o, a), NEW k \in 1..Len(o)
  PROVE  BytesOK(s \o SubSeq(o, 1, k), SubSeq(o, k + 1, Len(o)), a)
<1>1. a \in Nat /\ s \in Seq(Nat) /\ o \in Seq(Nat)
  BY BytesTypes
<1>2. IsRun(s, 0) /\ IsRun(o, Len(s)) /\ Len(s) + Len(o) = a
  BY <1>1, BytesAreRuns
<1>3. Len(s) \in Nat /\ Len(o) \in Nat
  BY <1>1, LenProperties
<1>4. k \in Nat /\ k <= Len(o) /\ Len(o) <= Len(o)
  BY <1>3
<1> DEFINE p == SubSeq(o, 1, k)
           r == SubSeq(o, k + 1, Len(o))
<1>5. p \in Seq(Nat) /\ Len(p) = k /\ IsRun(p, Len(s))
  BY <1>1, <1>2, <1>3, <1>4, StartOfRun, Zenon
<1>6. r \in Seq(Nat) /\ Len(r) = Len(o) - k /\ IsRun(r, Len(s) + k)
  BY <1>1, <1>2, <1>3, <1>4, PartOfRun, Zenon
<1> HIDE DEF p, r
<1>7. 0 \in Nat /\ Len(s) = 0 + Len(s)
  BY <1>3
<1>8. IsRun(p, 0 + Len(s))
  BY <1>5, <1>7
<1>9. /\ s \o p \in Seq(Nat) /\ Len(s \o p) = Len(s) + Len(p) /\ IsRun(s \o p, 0)
  BY <1>1, <1>2, <1>5, <1>7, <1>8, RunConcat, Zenon
<1>10. Len(s \o p) = Len(s) + k /\ Len(s \o p) + Len(r) = a
  <2>1. /\ Len(s \o p) = Len(s) + Len(p) /\ Len(p) = k /\ Len(r) = Len(o) - k
        /\ Len(s) + Len(o) = a
    BY <1>2, <1>5, <1>6, <1>9
  <2> QED
    BY <2>1, <1>3, <1>4
<1>11. IsRun(r, Len(s \o p))
  BY <1>6, <1>10
<1>12. BytesOK(s \o p, r, a)
  BY <1>1, <1>6, <1>9, <1>10, <1>11, RunsAreBytes, Zenon
<1> QED
  BY <1>12 DEF p, r

-----------------------------------------------------------------------------
(* Types and the order of the bytes                                        *)

\* What TypeOK says of the other variables.
RestOK ==
    /\ state_ \in States /\ reading_ \in BOOLEAN
    /\ revents \subseteq Revents
    /\ fin \in BOOLEAN /\ peer \in {"open", "fin", "reset"}
    /\ sockErr \in BOOLEAN /\ inbound \in BOOLEAN
    /\ pending \in Seq(Functors)
    /\ pc \in [Threads -> Pcs]
    /\ delayed \in BOOLEAN
    /\ owner \in {"holds", "removing", "released"}
    /\ closed \in BOOLEAN

\* InOrder is what it says of the channel, of the bytes and of the rest.
LEMMA InOrderParts ==
  InOrder <=> ChannelOK /\ BytesOK(sent, output, accepted) /\ RestOK
BY Zenon DEF InOrder, TypeOK, ChannelOK, BytesOK, RestOK

\* The same in the next state.
LEMMA InOrderPartsPrime ==
  InOrder' <=> ChannelOK' /\ BytesOK(sent, output, accepted)' /\ RestOK'
BY InOrderParts, PTL

\* Post appends the functor of a callback, or nothing.
LEMMA PostType ==
  ASSUME NEW q \in Seq(Functors)
  PROVE  /\ Post(q, <<>>) => pending' = q
         /\ \A op \in {"writeComplete", "highWater"} :
               Post(q, <<op>>) => pending' = Append(q, [op |-> op])
         /\ \A op \in {"writeComplete", "highWater"} : [op |-> op] \in Functors
<1>1. ASSUME Post(q, <<>>) PROVE pending' = q
  <2>1. [i \in DOMAIN <<>> |-> [op |-> <<>>[i]]] = <<>>
    OBVIOUS
  <2> QED
    BY <1>1, <2>1, ConcatEmptySeq DEF Post
<1>2. ASSUME NEW op \in {"writeComplete", "highWater"} PROVE [op |-> op] \in Functors
  BY DEF Functors
<1>3. ASSUME NEW op \in {"writeComplete", "highWater"}, Post(q, <<op>>)
      PROVE  pending' = Append(q, [op |-> op])
  <2>1. [i \in DOMAIN <<op>> |-> [op |-> <<op>>[i]]] = <<[op |-> op]>>
    OBVIOUS
  <2>2. pending' = q \o <<[op |-> op]>>
    BY <1>3, <2>1 DEF Post
  <2> QED
    BY <1>2, <2>2, AppendIsConcat
<1> QED
  BY <1>1, <1>2, <1>3

\* sendInLoop posts at most one callback.
LEMMA SendPosts ==
  ASSUME NEW n, NEW q \in Seq(Functors), sendInLoop(n, q)
  PROVE  \/ pending' = q
         \/ \E op \in {"writeComplete", "highWater"} : pending' = Append(q, [op |-> op])
<1>1. Post(q, <<>>) \/ Post(q, <<"writeComplete">>) \/ Post(q, <<"highWater">>)
  BY DEF sendInLoop
<1> QED
  BY <1>1, PostType

\* sendInLoop: the bytes stay in order and the channel consistent with the poller.
LEMMA SendType ==
  ASSUME ChannelOK, Running, BytesOK(sent, output, accepted),
         NEW n \in Nat, NEW q \in Seq(Functors), sendInLoop(n, q), sockErr \in BOOLEAN
  PROVE  /\ ChannelOK' /\ BytesOK(sent, output, accepted)' /\ pending' \in Seq(Functors)
         /\ sockErr' \in BOOLEAN
<1>1. pending' \in Seq(Functors)
  <2>1. CASE pending' = q
    BY <2>1
  <2>2. ASSUME NEW op \in {"writeComplete", "highWater"}, pending' = Append(q, [op |-> op])
        PROVE  pending' \in Seq(Functors)
    <3>1. [op |-> op] \in Functors
      BY PostType
    <3> QED
      BY <2>2, <3>1, AppendProperties
  <2> QED
    BY <2>1, <2>2, SendPosts
<1>2. ChannelOK'
  <2>1. UNCHANGED failed /\ (UNCHANGED <<events_, inPoller>> \/ enableWrite)
    BY DEF sendInLoop
  <2>2. CASE UNCHANGED <<events_, inPoller>>
    BY <2>1, <2>2 DEF ChannelOK, Running, inPoller
  <2>3. CASE enableWrite
    <3>1. events_ \cup {"write"} \in SUBSET Events
      BY DEF ChannelOK
    <3> QED
      BY <2>1, <2>3, <3>1, SetEventsType DEF enableWrite, ChannelOK
  <2> QED
    BY <2>1, <2>2, <2>3
<1>3. BytesOK(sent, output, accepted)'
  <2> DEFINE d == [i \in 1..n |-> accepted + i]
             direct == ~isWriting /\ output = <<>>
  <2>1. CASE direct /\ Broken
    BY <2>1 DEF sendInLoop, BytesOK
  <2>2. CASE ~(direct /\ Broken)
    <3>0. PICK k \in IF direct THEN 0..n ELSE {0} :
               /\ accepted' = accepted + n
               /\ sent' = sent \o SubSeq(d, 1, k)
               /\ output' = output \o SubSeq(d, k + 1, n)
      BY <2>2, Zenon DEF sendInLoop
    <3>1. k \in 0..n /\ (k = 0 \/ output = <<>>)
      BY <3>0
    <3>2. BytesOK(sent \o SubSeq(d, 1, k), output \o SubSeq(d, k + 1, n), accepted + n)
      BY <3>1, TakeBytes
    <3> QED
      BY <3>0, <3>2
  <2> QED
    BY <2>1, <2>2
<1>4. sockErr' \in BOOLEAN
  BY DEF sendInLoop
<1> QED
  BY <1>1, <1>2, <1>3, <1>4

\* handleClose.
LEMMA CloseType ==
  ASSUME ChannelOK, Running, state_ \in States, closed \in BOOLEAN, handleClose,
         owner \in {"holds", "removing", "released"}
  PROVE  /\ ChannelOK' /\ state_' \in States /\ closed' \in BOOLEAN
         /\ owner' \in {"holds", "removing", "released"}
         /\ UNCHANGED <<reading_, output>>
<1>1. CASE state_ \notin {"kConnected", "kDisconnecting"}
  BY <1>1 DEF handleClose, connVars, ChannelOK, Running, inPoller
<1>2. CASE state_ \in {"kConnected", "kDisconnecting"}
  <2>1. disableAll /\ failed' \in Failures
    BY <1>2 DEF handleClose, ChannelOK
  <2>2. ChannelOK'
    BY <2>1, SetEventsType DEF disableAll
  <2> QED
    BY <1>2, <2>2 DEF handleClose
<1> QED
  BY <1>1, <1>2

\* A functor that is posted by another thread or by the owner.
LEMMA AppendFunctor ==
  ASSUME pending \in Seq(Functors), NEW f \in Functors, pending' = Append(pending, f)
  PROVE  pending' \in Seq(Functors)
BY AppendProperties

\* The functors that neither send nor post.
LEMMA OtherType ==
  ASSUME ChannelOK, Running, RestOK, NEW op, RunOther(op)
  PROVE  /\ ChannelOK' /\ state_' \in States /\ closed' \in BOOLEAN
         /\ reading_' \in BOOLEAN /\ fin' \in BOOLEAN
         /\ owner' \in {"holds", "removing", "released"} /\ UNCHANGED output
<1> USE DEF RestOK
<1>1. CASE connectionEstablished /\ UNCHANGED <<owner, fin>>
  <2>1. events_ \cup {"read"} \in SUBSET Events /\ UNCHANGED failed
    BY <1>1 DEF ChannelOK, connectionEstablished
  <2>2. ChannelOK'
    BY <1>1, <2>1, SetEventsType DEF connectionEstablished, enableRead, ChannelOK
  <2> QED
    BY <1>1, <2>2 DEF connectionEstablished
<1>2. CASE connectionDestroyed /\ UNCHANGED <<owner, fin>>
  <2>1. ChannelOK'
    BY <1>2 DEF connectionDestroyed, ChannelOK, Running
  <2> QED
    BY <1>2, <2>1 DEF connectionDestroyed
<1>3. CASE (startReadInLoop \/ stopReadInLoop) /\ UNCHANGED fin
  <2>1. /\ UNCHANGED <<failed, state_, output, owner, closed, fin>> /\ reading_' \in BOOLEAN
        /\ \/ UNCHANGED <<events_, inPoller>>
           \/ SetEvents(events_ \cup {"read"}) \/ SetEvents(events_ \ {"read"})
    BY <1>3 DEF startReadInLoop, stopReadInLoop, enableRead, disableRead
  <2>2. events_ \cup {"read"} \in SUBSET Events /\ events_ \ {"read"} \in SUBSET Events
    BY DEF ChannelOK
  <2>3. ASSUME NEW evs \in SUBSET Events, SetEvents(evs) PROVE ChannelOK'
    BY <2>1, <2>3, SetEventsType DEF ChannelOK
  <2>4. CASE UNCHANGED <<events_, inPoller>>
    BY <2>1, <2>4 DEF ChannelOK, Running, inPoller
  <2> QED
    BY <2>1, <2>2, <2>3, <2>4
<1>4. CASE shutdownInLoop(events_) /\ UNCHANGED <<connVars, owner, closed, failed>>
  BY <1>4 DEF shutdownInLoop, connVars, inPoller, ChannelOK, Running
<1>5. CASE forceCloseInLoop /\ UNCHANGED fin
  <2>1. CASE state_ # "kDisconnecting"
    BY <1>5, <2>1 DEF forceCloseInLoop, connVars, inPoller, ChannelOK, Running, handleClose
  <2>2. CASE state_ = "kDisconnecting"
    BY <1>5, <2>2, CloseType DEF forceCloseInLoop
  <2> QED
    BY <2>1, <2>2
<1>6. CASE UNCHANGED <<connVars, fin, owner, closed, failed>>
  BY <1>6 DEF connVars, inPoller, ChannelOK, Running
<1> QED
  BY <1>1, <1>2, <1>3, <1>4, <1>5, <1>6 DEF RunOther

\* sendInLoop and handleWrite: the bytes reach the kernel in the order in which they
\* were taken, whatever threads call whatever the connection offers; with it, every
\* variable keeps its type and the channel agrees with the poller.
THEOREM BytesInOrder == Spec => []InOrder
<1> USE BoundsAssumption, CallsAssumption
<1>1. Init => InOrder
  <2> SUFFICES ASSUME Init PROVE InOrder
    OBVIOUS
  <2>1. BytesOK(<<>>, <<>>, 0)
    <3>1. <<>> \in Seq(1..0) /\ <<>> \o <<>> = <<>>
      BY EmptySeq, ConcatEmptySeq
    <3>2. [i \in 1..0 |-> i] = <<>>
      OBVIOUS
    <3> QED
      BY <3>1, <3>2 DEF BytesOK
  <2>2. ChannelOK
    BY DEF Init, ChannelOK, Running
  <2>3. RestOK
    <3>1. [op |-> "established"] \in Functors
      BY DEF Functors
    <3>2. pending \in Seq(Functors)
      BY <3>1 DEF Init
    <3> QED
      BY <3>2 DEF Init, RestOK, Pcs
  <2> QED
    BY <2>1, <2>2, <2>3, InOrderParts DEF Init
<1>2. InOrder /\ [Next]_vars => InOrder'
  <2> SUFFICES ASSUME InOrder, [Next]_vars PROVE InOrder'
    OBVIOUS
  <2>0. ChannelOK /\ BytesOK(sent, output, accepted) /\ RestOK
    BY InOrderParts
  <2>00. ASSUME UNCHANGED <<sent, output, accepted>>
         PROVE  BytesOK(sent, output, accepted)'
    BY <2>0, <2>00 DEF BytesOK
  <2>01. ASSUME UNCHANGED <<events_, inPoller, failed>> PROVE ChannelOK'
    BY <2>0, <2>01 DEF ChannelOK, inPoller, Running
  <2> USE <2>0 DEF RestOK
  <2>1. ASSUME NEW out \in BOOLEAN, Poll(out) PROVE InOrder'
    BY <2>1, <2>00, <2>01, InOrderPartsPrime DEF Poll, connVars, netVars, Ready
  <2>2. CASE HandleHup
    <3>1. /\ ChannelOK' /\ state_' \in States /\ closed' \in BOOLEAN
          /\ owner' \in {"holds", "removing", "released"} /\ UNCHANGED <<reading_, output>>
      BY <2>2, <2>01, CloseType DEF HandleHup, handleEventWithGuard, connVars
    <3> QED
      BY <2>2, <3>1, <2>00, InOrderPartsPrime DEF HandleHup, netVars
  <2>3. CASE HandleError
    BY <2>3, <2>00, <2>01, InOrderPartsPrime DEF HandleError, connVars
  <2>4. CASE HandleRead
    <3>1. /\ ChannelOK' /\ state_' \in States /\ closed' \in BOOLEAN
          /\ owner' \in {"holds", "removing", "released"} /\ UNCHANGED <<reading_, output>>
      BY <2>4, <2>01, CloseType DEF HandleRead, handleEventWithGuard, connVars
    <3> QED
      BY <2>4, <3>1, <2>00, InOrderPartsPrime DEF HandleRead
  <2>5. CASE HandleWrite
    <3>1. Running
      BY <2>5 DEF HandleWrite, handleEventWithGuard
    <3>2. RestOK'
      <4>1. pending' \in Seq(Functors)
        <5>1. UNCHANGED pending \/ Post(pending, <<"writeComplete">>)
          BY <2>5 DEF HandleWrite
        <5> QED
          BY <5>1, PostType, AppendProperties, SMTT(30)
      <4> QED
        BY <2>5, <4>1, ZenonT(60) DEF HandleWrite, shutdownInLoop
    <3>3. ChannelOK'
      <4>1. UNCHANGED failed /\ (UNCHANGED <<events_, inPoller>> \/ disableWrite)
        BY <2>5 DEF HandleWrite
      <4>2. events_ \cap {"write"} \in SUBSET Events
        OBVIOUS
      <4> QED
        BY <3>1, <4>1, <4>2, <2>01, SetEventsType DEF disableWrite, ChannelOK
    <3>4. BytesOK(sent, output, accepted)'
      <4>1. UNCHANGED accepted
        BY <2>5 DEF HandleWrite
      <4>2. CASE UNCHANGED <<sent, output>>
        BY <4>1, <4>2, <2>00
      <4>3. ASSUME NEW k \in 1..Len(output), sent' = sent \o SubSeq(output, 1, k),
                   output' = SubSeq(output, k + 1, Len(output))
            PROVE  BytesOK(sent, output, accepted)'
        BY <4>1, <4>3, FlushBytes
      <4> QED
        BY <2>5, <4>2, <4>3 DEF HandleWrite
    <3> QED
      BY <3>2, <3>3, <3>4, InOrderPartsPrime
  <2>6. CASE RunFunctor
    <3> DEFINE f == Head(pending)
    <3>1. Running /\ f \in Functors /\ Tail(pending) \in Seq(Functors)
      BY <2>6, HeadTailProperties DEF RunFunctor
    <3>2. CASE /\ f.op \in {"send", "sendBuffer"} /\ sendInLoop(f.len, Tail(pending))
      <4>1. f.len \in Nat
        BY <3>1, <3>2 DEF Functors, Sends
      <4> HIDE DEF f
      <4>2. /\ ChannelOK' /\ BytesOK(sent, output, accepted)' /\ pending' \in Seq(Functors)
            /\ sockErr' \in BOOLEAN
        BY <3>1, <3>2, <4>1, SendType
      <4>3. UNCHANGED <<state_, reading_, fin, owner, closed>>
        BY <3>2 DEF sendInLoop
      <4> QED
        BY <2>6, <4>2, <4>3, InOrderPartsPrime DEF RunFunctor
    <3>3. CASE /\ pending' = Tail(pending)
               /\ UNCHANGED <<connVars, sent, accepted, fin, sockErr, owner, closed, failed>>
      BY <2>6, <3>1, <3>3, <2>00, <2>01, InOrderPartsPrime DEF RunFunctor, connVars
    <3>4. CASE /\ RunOther(f.op) /\ pending' = Tail(pending)
               /\ UNCHANGED <<sent, accepted, sockErr>>
      BY <2>6, <3>1, <3>4, <2>00, OtherType, InOrderPartsPrime DEF RunFunctor
    <3> QED
      BY <2>6, <3>2, <3>3, <3>4 DEF RunFunctor
  <2>7. CASE LoopSend
    <3>1. PICK n \in 1..MaxSend : sendInLoop(n, pending)
      BY <2>7 DEF LoopSend
    <3>2. n \in Nat /\ Running
      BY <2>7 DEF LoopSend
    <3>3. /\ ChannelOK' /\ BytesOK(sent, output, accepted)' /\ pending' \in Seq(Functors)
          /\ sockErr' \in BOOLEAN
      BY <3>1, <3>2, SendType
    <3>4. UNCHANGED <<state_, reading_, fin, owner, closed>>
      BY <3>1 DEF sendInLoop
    <3> QED
      BY <2>7, <3>3, <3>4, InOrderPartsPrime DEF LoopSend
  <2>8. CASE LoopShutdown
    BY <2>8, <2>00, <2>01, InOrderPartsPrime DEF LoopShutdown, shutdownInLoop
  <2>9. CASE LoopForceClose
    <3>1. /\ ChannelOK' /\ state_' \in States /\ closed' \in BOOLEAN
          /\ owner' \in {"holds", "removing", "released"} /\ UNCHANGED <<reading_, output>>
      BY <2>9, CloseType DEF LoopForceClose
    <3> QED
      BY <2>9, <3>1, <2>00, InOrderPartsPrime DEF LoopForceClose, netVars
  <2>10. CASE LoopForceCloseWithDelay
    BY <2>10, <2>00, <2>01, InOrderPartsPrime DEF LoopForceCloseWithDelay, netVars
  <2>11. CASE LoopStartStopRead
    <3>1. RunOther("startRead") \/ RunOther("stopRead")
      BY <2>11 DEF LoopStartStopRead, RunOther, netVars
    <3> QED
      BY <2>11, <3>1, <2>00, OtherType, InOrderPartsPrime DEF LoopStartStopRead, netVars
  <2>12. ASSUME NEW t \in Threads, NEW c \in RemoteCalls, RemoteCheck(t, c) PROVE InOrder'
    <3>1. pc' \in [Threads -> Pcs]
      BY <2>12 DEF RemoteCheck, Pcs
    <3> QED
      BY <2>12, <3>1, <2>00, <2>01, InOrderPartsPrime DEF RemoteCheck, connVars, netVars
  <2>13. ASSUME NEW t \in Threads, RemoteSetState(t) PROVE InOrder'
    <3>1. pc' \in [Threads -> Pcs]
      BY <2>13 DEF RemoteSetState, Pcs
    <3> QED
      BY <2>13, <3>1, <2>00, <2>01, InOrderPartsPrime DEF RemoteSetState, netVars
  <2>14. ASSUME NEW t \in Threads, RemotePost(t) PROVE InOrder'
    <3>1. pc' \in [Threads -> Pcs]
      BY <2>14 DEF RemotePost, Pcs
    <3>2. pending' \in Seq(Functors)
      <4>1. UNCHANGED pending \/ \E f \in Functors : pending' = Append(pending, f)
        BY <2>14 DEF RemotePost, Functors, Sends
      <4> QED
        BY <4>1, AppendFunctor
    <3> QED
      BY <2>14, <3>1, <3>2, <2>00, <2>01, InOrderPartsPrime DEF RemotePost, connVars, netVars
  <2>15. CASE OwnerReleases
    <3>1. [op |-> "destroyed"] \in Functors
      BY DEF Functors
    <3>2. pending' \in Seq(Functors)
      BY <2>15, <3>1, AppendFunctor DEF OwnerReleases
    <3> QED
      BY <2>15, <3>2, <2>00, <2>01, InOrderPartsPrime DEF OwnerReleases, connVars, netVars
  <2>16. CASE PeerSends \/ PeerCloses \/ PeerResets
    BY <2>16, <2>00, <2>01, InOrderPartsPrime DEF PeerSends, PeerCloses, PeerResets, connVars
  <2>17. CASE UNCHANGED vars
    BY <2>17, <2>00, <2>01, InOrderPartsPrime DEF vars, connVars, netVars
  <2>18. CASE LastReference
    <3>1. ChannelOK'
      BY <2>18 DEF LastReference, ChannelOK, Running, connVars, inPoller
    <3> QED
      BY <2>18, <3>1, <2>00, InOrderPartsPrime DEF LastReference, connVars, netVars
  <2> QED
    BY <2>1, <2>2, <2>3, <2>4, <2>5, <2>6, <2>7, <2>8, <2>9, <2>10, <2>11, <2>12, <2>13,
       <2>14, <2>15, <2>16, <2>17, <2>18 DEF Next, LoopStep, LoopCall, RemoteCall
<1> QED
  BY <1>1, <1>2, PTL DEF Spec

-----------------------------------------------------------------------------
(* What is buffered is watched, and FIN comes after the data                *)

\* SubSeq of a run: nothing is left after its end.
LEMMA NothingLeft ==
  ASSUME NEW s, NEW o, NEW a, BytesOK(s, o, a), NEW r, NEW n \in Nat
  PROVE  SubSeq(r, n + 1, n) = <<>> /\ SubSeq(o, Len(o) + 1, Len(o)) = <<>>
<1>1. Len(o) \in Nat
  BY BytesTypes, LenProperties
<1>2. ASSUME NEW q, NEW m \in Nat PROVE SubSeq(q, m + 1, m) = <<>>
  BY SubSeqEmpty
<1> QED
  BY <1>1, <1>2

\* sendInLoop: what it leaves in the buffer is watched, and it leaves nothing after FIN.
LEMMA SendWatches ==
  ASSUME BufferedIsWatched, fin /\ ~closed => ~isWriting, BytesOK(sent, output, accepted),
         NEW n \in Nat \ {0}, NEW q, sendInLoop(n, q)
  PROVE  BufferedIsWatched' /\ (fin /\ ~closed => ~isWriting)'
<1> DEFINE d == [i \in 1..n |-> accepted + i]
           direct == ~isWriting /\ output = <<>>
<1>0. UNCHANGED <<fin, closed>>
  BY DEF sendInLoop
<1>1. CASE direct /\ Broken
  <2>1. UNCHANGED <<output, events_>>
    BY <1>1 DEF sendInLoop
  <2> QED
    BY <1>0, <2>1 DEF BufferedIsWatched, isWriting
<1>2. CASE ~(direct /\ Broken)
  <2>1. PICK k \in IF direct THEN 0..n ELSE {0} :
             /\ output' = output \o SubSeq(d, k + 1, n)
             /\ IF k = n \/ isWriting THEN UNCHANGED <<events_, inPoller>> ELSE enableWrite
    BY <1>2, Zenon DEF sendInLoop
  <2>2. CASE k = n
    <3>1. output = <<>> /\ output' = <<>> \o <<>>
      BY <2>1, <2>2, NothingLeft
    <3>2. output' = <<>>
      BY <3>1, ConcatEmptySeq, EmptySeq
    <3> QED
      BY <1>0, <2>1, <2>2, <3>2 DEF BufferedIsWatched, isWriting
  <2>3. CASE k # n
    <3>1. "write" \in events_'
      BY <2>1, <2>3 DEF enableWrite, SetEvents, isWriting
    <3>2. ~(fin /\ ~closed)
      BY <1>2 DEF BufferedIsWatched, isWriting, Broken
    <3> QED
      BY <1>0, <3>1, <3>2 DEF BufferedIsWatched
  <2> QED
    BY <2>2, <2>3
<1> QED
  BY <1>1, <1>2

\* sendInLoop, handleWrite and shutdownInLoop: while the connection is up, data in
\* outputBuffer_ has the channel enabled for writing, and a channel that is not enabled
\* for writing is the only one whose write side is shut down.
THEOREM WatchedAndFinLast ==
  Spec => [](BufferedIsWatched /\ (fin /\ ~closed => ~isWriting))
<1> DEFINE I == BufferedIsWatched /\ (fin /\ ~closed => ~isWriting)
<1> USE BoundsAssumption DEF isWriting
<1>1. Init => I
  BY DEF Init, BufferedIsWatched
<1>2. I /\ InOrder /\ [Next]_vars => I'
  <2> SUFFICES ASSUME I, InOrder, [Next]_vars PROVE I'
    OBVIOUS
  <2>0. /\ BytesOK(sent, output, accepted) /\ pending \in Seq(Functors)
        /\ fin \in BOOLEAN /\ closed \in BOOLEAN
    BY InOrderParts DEF RestOK
  <2> USE <2>0
  <2>01. ASSUME handleClose, UNCHANGED fin PROVE I'
    BY <2>01 DEF handleClose, BufferedIsWatched, connVars
  <2>02. ASSUME UNCHANGED <<output, closed, fin>>,
                \/ UNCHANGED events_ \/ SetEvents(events_ \cup {"read"})
                \/ SetEvents(events_ \ {"read"})
         PROVE  I'
    BY <2>02 DEF BufferedIsWatched, SetEvents
  <2>1. ASSUME NEW out \in BOOLEAN, Poll(out) PROVE I'
    BY <2>1, <2>02 DEF Poll, connVars, netVars
  <2>2. CASE HandleHup
    BY <2>2, <2>01, <2>02 DEF HandleHup, connVars, netVars
  <2>3. CASE HandleError
    BY <2>3, <2>02 DEF HandleError, connVars
  <2>4. CASE HandleRead
    BY <2>4, <2>01, <2>02 DEF HandleRead, connVars
  <2>5. CASE HandleWrite
    <3>1. UNCHANGED closed
      BY <2>5 DEF HandleWrite
    <3>2. CASE isWriting /\ output # <<>> /\ ~Broken
      <4>1. PICK k \in 1..Len(output) :
                 /\ output' = SubSeq(output, k + 1, Len(output))
                 /\ \/ k < Len(output) /\ UNCHANGED <<events_, fin>>
                    \/ /\ k = Len(output) /\ disableWrite
                       /\ IF state_ = "kDisconnecting" THEN shutdownInLoop(events_')
                                                       ELSE UNCHANGED fin
        BY <2>5, <3>2 DEF HandleWrite
      <4>2. "write" \in events_' /\ UNCHANGED fin
        BY <3>2, <4>1 DEF disableWrite, SetEvents, shutdownInLoop
      <4> QED
        BY <3>1, <3>2, <4>2 DEF BufferedIsWatched, Broken
    <3>3. CASE ~(isWriting /\ output # <<>> /\ ~Broken)
      BY <2>5, <3>3, <2>02 DEF HandleWrite
    <3> QED
      BY <3>2, <3>3
  <2>6. CASE RunFunctor
    <3> DEFINE f == Head(pending)
    <3>1. f \in Functors
      BY <2>6, HeadTailProperties DEF RunFunctor
    <3>2. CASE /\ f.op \in {"send", "sendBuffer"} /\ sendInLoop(f.len, Tail(pending))
      <4>1. f.len \in Nat \ {0}
        BY <3>1, <3>2 DEF Functors, Sends
      <4> HIDE DEF f
      <4> QED
        BY <3>2, <4>1, SendWatches
    <3>3. CASE UNCHANGED <<connVars, fin, closed>>
      BY <3>3, <2>02 DEF connVars
    <3>4. CASE RunOther(f.op)
      <4>1. CASE connectionEstablished /\ UNCHANGED <<owner, fin>>
        BY <4>1, <2>02 DEF connectionEstablished, enableRead
      <4>2. CASE connectionDestroyed
        BY <4>2 DEF connectionDestroyed, BufferedIsWatched
      <4>3. CASE (startReadInLoop \/ stopReadInLoop) /\ UNCHANGED fin
        BY <4>3, <2>02 DEF startReadInLoop, stopReadInLoop, enableRead, disableRead
      <4>4. CASE shutdownInLoop(events_) /\ UNCHANGED <<connVars, owner, closed, failed>>
        BY <4>4 DEF shutdownInLoop, connVars, BufferedIsWatched
      <4>5. CASE forceCloseInLoop /\ UNCHANGED fin
        BY <4>5, <2>01, <2>02 DEF forceCloseInLoop, connVars
      <4>6. CASE UNCHANGED <<connVars, fin, owner, closed, failed>>
        BY <4>6, <2>02 DEF connVars
      <4> QED
        BY <3>4, <4>1, <4>2, <4>3, <4>4, <4>5, <4>6 DEF RunOther
    <3> QED
      BY <2>6, <3>2, <3>3, <3>4 DEF RunFunctor
  <2>7. CASE LoopSend
    <3>1. PICK n \in Nat \ {0} : sendInLoop(n, pending)
      BY <2>7 DEF LoopSend
    <3> QED
      BY <3>1, SendWatches
  <2>8. CASE LoopShutdown
    BY <2>8 DEF LoopShutdown, shutdownInLoop, BufferedIsWatched
  <2>9. CASE LoopForceClose
    BY <2>9, <2>01 DEF LoopForceClose, netVars
  <2>10. CASE LoopForceCloseWithDelay
    BY <2>10, <2>02 DEF LoopForceCloseWithDelay, netVars
  <2>11. CASE LoopStartStopRead
    BY <2>11, <2>02 DEF LoopStartStopRead, startReadInLoop, stopReadInLoop, enableRead,
                        disableRead, netVars
  <2>12. ASSUME NEW t \in Threads, RemoteCall(t) PROVE I'
    BY <2>12, <2>02 DEF RemoteCall, RemoteCheck, RemoteSetState, RemotePost, connVars, netVars
  <2>13. CASE OwnerReleases \/ LastReference \/ PeerSends \/ PeerCloses \/ PeerResets
    BY <2>13, <2>02 DEF OwnerReleases, LastReference, PeerSends, PeerCloses, PeerResets, connVars, netVars
  <2>14. CASE UNCHANGED vars
    BY <2>14, <2>02 DEF vars, connVars, netVars
  <2> QED
    BY <2>1, <2>2, <2>3, <2>4, <2>5, <2>6, <2>7, <2>8, <2>9, <2>10, <2>11, <2>12, <2>13,
       <2>14 DEF Next, LoopStep, LoopCall
<1> QED
  BY <1>1, <1>2, BytesInOrder, PTL DEF Spec

\* sendInLoop and handleWrite: while the connection is up, data in outputBuffer_ has the
\* channel enabled for writing.
THEOREM Watched == Spec => []BufferedIsWatched
BY WatchedAndFinLast, PTL

\* shutdownInLoop: the write side of a connection that is up is shut down only when all
\* that was taken has been sent.
THEOREM FinLast == Spec => []FinAfterData
<1>1. BufferedIsWatched /\ (fin /\ ~closed => ~isWriting) => FinAfterData
  BY DEF BufferedIsWatched, FinAfterData, isWriting
<1> QED
  BY <1>1, WatchedAndFinLast, PTL

-----------------------------------------------------------------------------
(* One close                                                               *)

\* What can be pending when nobody calls forceClose or forceCloseWithDelay and other
\* threads call only send(Buffer*) and shutdown;
\* connectionEstablished can only be the first.
SafeOps == {"established", "destroyed", "writeComplete", "highWater", "shutdown",
            "sendBuffer"}

SafePending(q) ==
    \A i \in 1..Len(q) : q[i].op \in SafeOps /\ (q[i].op = "established" => i = 1)

\* A connection that waits for connectionEstablished has not been touched; one that is
\* kDisconnected was closed; a closed one watches nothing and is not kConnected; events
\* that can close it were not collected after the close.
CloseInv ==
    /\ ~delayed
    /\ SafePending(pending)
    /\ (pending # <<>> /\ pending[1].op = "established") <=> state_ = "kConnecting"
    /\ state_ = "kConnecting" =>
          events_ = {} /\ revents = {} /\ ~closed /\ \A t \in Threads : pc[t] = Idle
    /\ state_ = "kDisconnected" => closed
    /\ closed => events_ = {} /\ state_ \in {"kDisconnecting", "kDisconnected"}
    /\ revents \cap {"hup", "in"} # {} => ~closed

\* Appending a functor other than connectionEstablished keeps the queue safe.
LEMMA SafeAppend ==
  ASSUME NEW q \in Seq(Functors), SafePending(q), NEW f \in Functors,
         f.op \in SafeOps \ {"established"}
  PROVE  /\ Append(q, f) \in Seq(Functors) /\ SafePending(Append(q, f))
         /\ (Append(q, f) # <<>> /\ Append(q, f)[1].op = "established")
              <=> (q # <<>> /\ q[1].op = "established")
<1>1. Len(q) \in Nat
  BY LenProperties
<1>2. /\ Append(q, f) \in Seq(Functors) /\ Append(q, f) # <<>>
      /\ Len(Append(q, f)) = Len(q) + 1
      /\ \A i \in 1..Len(q) : Append(q, f)[i] = q[i]
      /\ Append(q, f)[Len(q) + 1] = f
  BY AppendProperties
<1>3. ASSUME NEW i \in 1..Len(q) + 1
      PROVE  /\ Append(q, f)[i].op \in SafeOps
             /\ Append(q, f)[i].op = "established" => i = 1
  <2>1. CASE i \in 1..Len(q)
    BY <1>2, <2>1 DEF SafePending
  <2>2. CASE i = Len(q) + 1
    BY <1>2, <2>2
  <2> QED
    BY <1>1, <2>1, <2>2
<1>4. SafePending(Append(q, f))
  BY <1>2, <1>3 DEF SafePending
<1>5. PICK w : w = Append(q, f)
  OBVIOUS
<1>6. CASE q = <<>>
  <2>1. Len(q) = 0
    BY <1>6, EmptySeq
  <2>2. w[1] = f
    BY <1>2, <1>5, <2>1
  <2> QED
    BY <1>5, <1>6, <2>2, <1>2, <1>4
<1>7. CASE q # <<>>
  <2>1. 1 \in 1..Len(q)
    BY <1>1, <1>7, EmptySeq
  <2>2. w[1] = q[1]
    BY <1>2, <1>5, <2>1
  <2> QED
    BY <1>5, <1>7, <2>2, <1>2, <1>4
<1> QED
  BY <1>6, <1>7

\* The queue stays safe without its first functor, and connectionEstablished was the first.
LEMMA SafeTail ==
  ASSUME NEW q \in Seq(Functors), SafePending(q), q # <<>>
  PROVE  /\ q[1] = Head(q) /\ Head(q) \in Functors /\ Head(q).op \in SafeOps
         /\ Tail(q) \in Seq(Functors) /\ SafePending(Tail(q))
         /\ ~(Tail(q) # <<>> /\ Tail(q)[1].op = "established")
<1>1. Len(q) \in Nat \ {0} /\ 1 \in 1..Len(q) /\ q[1] = Head(q)
  BY EmptySeq
<1>2. /\ Head(q) \in Functors /\ Tail(q) \in Seq(Functors)
      /\ Len(Tail(q)) = Len(q) - 1
      /\ \A i \in 1..Len(Tail(q)) : Tail(q)[i] = q[i + 1]
  BY HeadTailProperties
<1>3. ASSUME NEW i \in 1..Len(Tail(q))
      PROVE  Tail(q)[i].op \in SafeOps /\ Tail(q)[i].op # "established"
  <2>1. i + 1 \in 1..Len(q) /\ i + 1 # 1
    BY <1>1, <1>2
  <2>2. q[i + 1].op \in SafeOps /\ q[i + 1].op # "established"
    BY <2>1 DEF SafePending
  <2> QED
    BY <1>2, <2>2
<1>4. SafePending(Tail(q))
  BY <1>3 DEF SafePending
<1>5. ASSUME Tail(q) # <<>> PROVE Tail(q)[1].op # "established"
  <2>1. 1 \in 1..Len(Tail(q))
    BY <1>2, <1>5, EmptySeq
  <2> QED
    BY <1>3, <2>1
<1>6. Head(q).op \in SafeOps
  BY <1>1 DEF SafePending
<1> QED
  BY <1>1, <1>2, <1>4, <1>5, <1>6

\* handleEventWithGuard, shutdown and connectionDestroyed: when the loop thread calls
\* anything but forceClose and forceCloseWithDelay, and other threads call only
\* send(Buffer*) and shutdown, the connection is closed once, however many of them race
\* with the events.  (With forceClose an assert of handleClose or of forceCloseInLoop
\* fails, as TcpConnectionSafety.cfg reaches in failed.)
THEOREM ClosesOnce ==
  ASSUME LoopCalls \cap {"forceClose", "forceCloseWithDelay"} = {},
         RemoteCalls \subseteq {"sendBuffer", "shutdown"}
  PROVE  Spec => []CloseOnce
<1> DEFINE I == CloseOnce /\ (Running => CloseInv)
<1>1. Init => I
  <2> SUFFICES ASSUME Init PROVE CloseOnce /\ CloseInv
    OBVIOUS
  <2>1. /\ pending # <<>> /\ Len(pending) = 1 /\ pending[1] = [op |-> "established"]
    BY DEF Init
  <2>2. SafePending(pending)
    BY <2>1 DEF SafePending, SafeOps
  <2> QED
    BY <2>1, <2>2 DEF Init, CloseInv, CloseOnce
<1>2. I /\ InOrder /\ [Next]_vars => I'
  <2> SUFFICES ASSUME I, InOrder, [Next]_vars PROVE I'
    OBVIOUS
  <2>0. ChannelOK /\ RestOK
    BY InOrderParts
  <2> USE <2>0 DEF RestOK, CloseOnce
  <2>u. CASE UNCHANGED vars
    BY <2>u DEF vars, connVars, inPoller, netVars, CloseInv, Running
  <2>s. SUFFICES ASSUME Next PROVE I'
    BY <2>u
  <2>r. Running /\ CloseInv
    <3>1. Running
      BY <2>s DEF Next, LoopStep, LoopCall, RemoteCall, Poll, HandleHup, HandleError,
         HandleRead, HandleWrite, RunFunctor, LoopSend, LoopShutdown, LoopForceClose,
         LoopForceCloseWithDelay, LoopStartStopRead, RemoteCheck, RemoteSetState, RemotePost,
         OwnerReleases, LastReference, PeerSends, PeerCloses, PeerResets,
         handleEventWithGuard
    <3> QED
      BY <3>1
  <2> USE <2>r
  <2>a. ASSUME handleClose, ~closed, state_ # "kConnecting", UNCHANGED <<delayed, pending, pc>>,
               revents' \subseteq revents, revents' \cap {"hup", "in"} = {}
        PROVE  I'
    BY <2>a DEF handleClose, disableAll, SetEvents, CloseInv, Running
  <2>b. ASSUME UNCHANGED <<state_, events_, delayed, pending, closed, failed, pc>>,
               revents' \subseteq revents
        PROVE  I'
    BY <2>b DEF CloseInv, Running
  <2>1. ASSUME NEW out \in BOOLEAN, Poll(out) PROVE I'
    <3>1. ~closed /\ state_ # "kConnecting"
      BY <2>1 DEF Poll, CloseInv
    <3> QED
      BY <2>1, <3>1 DEF Poll, connVars, inPoller, CloseInv, Running
  <2>2. CASE HandleHup
    BY <2>2, <2>a, <2>b DEF HandleHup, handleEventWithGuard, connVars, netVars, CloseInv
  <2>3. CASE HandleError
    BY <2>3, <2>b DEF HandleError, connVars
  <2>4. CASE HandleRead
    BY <2>4, <2>a, <2>b DEF HandleRead, handleEventWithGuard, connVars, CloseInv
  <2>c. ASSUME NEW q \in Seq(Functors), SafePending(q), NEW f \in Functors,
               f.op \in SafeOps \ {"established"}, pending' = q \/ pending' = Append(q, f)
        PROVE  /\ SafePending(pending)'
               /\ (pending # <<>> /\ pending[1].op = "established")'
                    <=> (q # <<>> /\ q[1].op = "established")
    BY <2>c, SafeAppend, ZenonT(60) DEF SafePending
  <2>d. ASSUME state_ = "kConnected", NEW n, NEW q \in Seq(Functors), SafePending(q),
               ~(q # <<>> /\ q[1].op = "established"), sendInLoop(n, q),
               UNCHANGED <<delayed, revents, pc>>
        PROVE  I'
    <3>1. UNCHANGED <<state_, closed, failed>>
      BY <2>d DEF sendInLoop
    <3>2. PICK op \in {"writeComplete", "highWater"} :
               pending' = q \/ pending' = Append(q, [op |-> op])
      BY <2>d, SendPosts
    <3>3. [op |-> op] \in Functors /\ [op |-> op].op \in SafeOps \ {"established"}
      BY DEF Functors, SafeOps
    <3>4. SafePending(pending)' /\ ~(pending # <<>> /\ pending[1].op = "established")'
      BY <2>d, <3>2, <3>3, <2>c
    <3> QED
      BY <2>d, <3>1, <3>4 DEF CloseInv, Running
  <2>5. CASE HandleWrite
    <3>1. /\ UNCHANGED <<state_, closed, failed, delayed, pc>> /\ revents' = {}
          /\ "out" \in revents
      BY <2>5 DEF HandleWrite, handleEventWithGuard
    <3>2. UNCHANGED events_ \/ events_' = events_ \cap {"write"}
      BY <2>5 DEF HandleWrite, disableWrite, SetEvents
    <3>3. UNCHANGED pending \/ Post(pending, <<"writeComplete">>)
      BY <2>5 DEF HandleWrite
    <3>4. pending' = pending \/ pending' = Append(pending, [op |-> "writeComplete"])
      BY <3>3, PostType
    <3>5. /\ [op |-> "writeComplete"] \in Functors
          /\ [op |-> "writeComplete"].op \in SafeOps \ {"established"}
      BY DEF Functors, SafeOps
    <3>6. /\ SafePending(pending)'
          /\ (pending # <<>> /\ pending[1].op = "established")' <=> state_ = "kConnecting"
      BY <3>4, <3>5, <2>c DEF CloseInv
    <3> QED
      BY <3>1, <3>2, <3>6 DEF CloseInv, Running
  <2>6. CASE RunFunctor
    <3> DEFINE f == Head(pending)
    <3>1. /\ f \in Functors /\ f.op \in SafeOps /\ Tail(pending) \in Seq(Functors)
          /\ f.op = "established" <=> state_ = "kConnecting"
          /\ SafePending(Tail(pending))
          /\ ~(Tail(pending) # <<>> /\ Tail(pending)[1].op = "established")
      <4>1. pending # <<>> /\ SafePending(pending)
        BY <2>6 DEF RunFunctor, CloseInv
      <4> QED
        BY <4>1, SafeTail DEF CloseInv
    <3>2. UNCHANGED <<revents, pc, delayed>> /\ revents = {} /\ f.op # "send"
      BY <2>6, <3>1 DEF RunFunctor, SafeOps
    <3>3. CASE f.op = "sendBuffer" /\ state_ = "kConnected" /\ sendInLoop(f.len, Tail(pending))
      <4> HIDE DEF f
      <4> QED
        BY <3>1, <3>2, <3>3, <2>d
    <3>4. ASSUME pending' = Tail(pending) PROVE
             SafePending(pending)' /\ ~(pending # <<>> /\ pending[1].op = "established")'
      BY <3>1, <3>4
    <3>5. CASE /\ f.op = "sendBuffer" /\ pending' = Tail(pending)
               /\ UNCHANGED <<connVars, sent, accepted, fin, sockErr, owner, closed, failed>>
      BY <3>1, <3>2, <3>4, <3>5 DEF CloseInv, Running, connVars, inPoller
    <3>6. CASE RunOther(f.op) /\ pending' = Tail(pending)
      <4> HIDE DEF f
      <4>1. CASE f.op = "established"
        <5>1. connectionEstablished
          BY <3>6, <4>1 DEF RunOther
        <5> QED
          BY <5>1, <4>1, <3>1, <3>2, <3>4, <3>6
             DEF connectionEstablished, CloseInv, Running
      <4>2. CASE f.op = "destroyed"
        <5>1. connectionDestroyed
          BY <3>6, <4>2 DEF RunOther
        <5> QED
          BY <5>1, <4>2, <3>1, <3>2, <3>4, <3>6 DEF connectionDestroyed, CloseInv, Running
      <4>3. CASE f.op \in {"shutdown", "writeComplete", "highWater"}
        <5>1. UNCHANGED <<connVars, closed, failed>>
          BY <3>6, <4>3 DEF RunOther
        <5> QED
          BY <5>1, <4>3, <3>1, <3>2, <3>4, <3>6 DEF CloseInv, Running, connVars, inPoller
      <4> QED
        BY <3>1, <3>6, <4>1, <4>2, <4>3 DEF SafeOps, RunOther
    <3> QED
      BY <2>6, <3>2, <3>3, <3>5, <3>6 DEF RunFunctor
  <2>7. CASE LoopSend
    <3>1. PICK n : sendInLoop(n, pending)
      BY <2>7 DEF LoopSend
    <3>2. SafePending(pending) /\ ~(pending # <<>> /\ pending[1].op = "established")
      BY <2>7 DEF LoopSend, CloseInv
    <3> QED
      BY <2>7, <3>1, <3>2, <2>d DEF LoopSend
  <2>8. CASE LoopShutdown
    BY <2>8 DEF LoopShutdown, CloseInv, Running, inPoller
  <2>9. CASE LoopForceClose
    BY <2>9 DEF LoopForceClose, CloseInv
  <2>10. CASE LoopForceCloseWithDelay
    BY <2>10 DEF LoopForceCloseWithDelay
  <2>11. CASE LoopStartStopRead
    BY <2>11 DEF LoopStartStopRead, startReadInLoop, stopReadInLoop, CloseInv, Running
  <2>12. ASSUME NEW t \in Threads, NEW c \in RemoteCalls, RemoteCheck(t, c) PROVE I'
    BY <2>12 DEF RemoteCheck, CloseInv, Running, connVars, inPoller
  <2>13. ASSUME NEW t \in Threads, RemoteSetState(t) PROVE I'
    BY <2>13 DEF RemoteSetState, CloseInv, Running, inPoller
  <2>e. ASSUME NEW f \in Functors, f.op \in SafeOps \ {"established"},
               pending' = Append(pending, f),
               UNCHANGED <<state_, events_, revents, delayed, closed, failed>>,
               state_ = "kConnecting" => UNCHANGED pc
        PROVE  I'
    <3>1. /\ SafePending(pending)'
          /\ (pending # <<>> /\ pending[1].op = "established")' <=> state_ = "kConnecting"
      BY <2>e, <2>c DEF CloseInv
    <3> QED
      BY <2>e, <3>1 DEF CloseInv, Running
  <2>14. ASSUME NEW t \in Threads, RemotePost(t) PROVE I'
    <3>1. /\ state_ # "kConnecting" /\ pc[t].op \in {"sendBuffer", "shutdown"}
      BY <2>14 DEF RemotePost, CloseInv, Pcs
    <3>2. PICK f \in Functors : f.op \in SafeOps \ {"established"} /\ UNCHANGED delayed
                               /\ pending' = Append(pending, f)
      BY <2>14, <3>1 DEF RemotePost, Functors, Sends, SafeOps
    <3> QED
      BY <2>14, <3>1, <3>2, <2>e DEF RemotePost, connVars
  <2>15. CASE OwnerReleases
    <3>1. /\ [op |-> "destroyed"] \in Functors
          /\ [op |-> "destroyed"].op \in SafeOps \ {"established"}
      BY DEF Functors, SafeOps
    <3> QED
      BY <2>15, <3>1, <2>e DEF OwnerReleases, connVars
  <2>16. CASE PeerSends \/ PeerCloses \/ PeerResets
    BY <2>16, <2>b DEF PeerSends, PeerCloses, PeerResets, connVars
  <2>17. CASE LastReference
    BY <2>17 DEF LastReference, Running
  <2> QED
    BY <2>s, <2>1, <2>2, <2>3, <2>4, <2>5, <2>6, <2>7, <2>8, <2>9, <2>10, <2>11, <2>12,
       <2>13, <2>14, <2>15, <2>16, <2>17 DEF Next, LoopStep, LoopCall, RemoteCall
<1>3. I => CloseOnce
  OBVIOUS
<1> QED
  BY <1>1, <1>2, <1>3, BytesInOrder, PTL DEF Spec
=============================================================================
