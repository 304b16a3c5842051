---------------------------- MODULE LoggerProofs ----------------------------
(***************************************************************************)
(* The lines of the log, for any statements, zones and times: their text   *)
(* and their numbers, the local time that they show, and the calendar that *)
(* the time is computed with.                                              *)
(***************************************************************************)
EXTENDS Logger, SequenceTheorems, FiniteSetTheorems, WellFoundedInduction, TLAPS

-----------------------------------------------------------------------------
(* Induction and iteration                                                 *)

\* A set of numbers has a least one.
LEMMA LeastNat ==
    ASSUME NEW T \in SUBSET Nat, T # {}
    PROVE  \E x \in T : \A y \in T : x <= y
<1> DEFINE R == OpToRel(<, Nat)
<1>1. IsWellFoundedOn(R, Nat)
  BY NatLessThanWellFounded
<1>2. \A x, y \in Nat : y < x => <<y, x>> \in R
  BY DEF OpToRel
<1> HIDE DEF R
<1>3. PICK x \in T : \A y \in T : ~(<<y, x>> \in R)
  BY <1>1, WFMin
<1>4. ASSUME NEW y \in T PROVE x <= y
  <2>1. x \in Nat /\ y \in Nat
    OBVIOUS
  <2>2. ~(<<y, x>> \in R)
    BY <1>3
  <2>3. ~(y < x)
    BY <1>2, <2>1, <2>2, Zenon
  <2> QED
    BY <2>1, <2>3
<1> QED
  BY <1>4

\* Induction over the numbers in a set.
LEMMA Induction ==
    ASSUME NEW S, 0 \in S, \A n \in Nat : n \in S => n + 1 \in S
    PROVE  \A n \in Nat : n \in S
<1> SUFFICES ASSUME NEW T, T = {n \in Nat : n \notin S}, T # {} PROVE FALSE
  OBVIOUS
<1>1. PICK x \in T : \A y \in T : x <= y
  BY LeastNat
<1>2. x # 0 /\ x - 1 \in Nat /\ x - 1 \notin T
  BY <1>1
<1> QED
  BY <1>1, <1>2

\* The iterates of g from x are a function.
Iterates(S, g, x) ==
    \E h \in [Nat -> S] : h[0] = x /\ \A n \in Nat : h[n + 1] = g[h[n]]

\* Iterating a function defines one: what justifies a recursive function.
LEMMA IterationExists ==
    ASSUME NEW S, NEW g \in [S -> S], NEW x \in S
    PROVE  Iterates(S, g, x)
<1> DEFINE Good(n, p) == /\ p \in [0..n -> S] /\ p[0] = x
                         /\ \A i \in 0..n - 1 : p[i + 1] = g[p[i]]
           Ns == {n \in Nat : \E p : Good(n, p)}
           Us == {n \in Nat : \A m \in Nat : \A p, q :
                      m >= n /\ Good(n, p) /\ Good(m, q) => p[n] = q[n]}
<1>1. \A n \in Nat : n \in Ns
  <2>1. 0 \in Ns
    <3>1. Good(0, [i \in 0..0 |-> x])
      OBVIOUS
    <3> HIDE DEF Good
    <3> QED
      BY <3>1
  <2>2. ASSUME NEW n \in Nat, n \in Ns PROVE n + 1 \in Ns
    <3>1. PICK p : Good(n, p)
      BY <2>2
    <3>2. Good(n + 1, [i \in 0..n + 1 |-> IF i = n + 1 THEN g[p[n]] ELSE p[i]])
      BY <3>1
    <3> HIDE DEF Good
    <3> QED
      BY <3>2
  <2> HIDE DEF Ns
  <2> QED
    BY <2>1, <2>2, Induction
<1>2. \A n \in Nat : n \in Us
  <2>1. 0 \in Us
    OBVIOUS
  <2>2. ASSUME NEW n \in Nat, n \in Us PROVE n + 1 \in Us
    <3> SUFFICES ASSUME NEW m \in Nat, NEW p, NEW q,
                        m >= n + 1, Good(n + 1, p), Good(m, q)
                 PROVE  p[n + 1] = q[n + 1]
      OBVIOUS
    <3>1. Good(n, [i \in 0..n |-> p[i]])
      OBVIOUS
    <3>2. [i \in 0..n |-> p[i]][n] = q[n]
      <4> HIDE DEF Good
      <4> QED
        BY <2>2, <3>1
    <3> QED
      BY <3>2
  <2> HIDE DEF Us
  <2> QED
    BY <2>1, <2>2, Induction
<1> DEFINE P(n) == CHOOSE p : Good(n, p)
           h == [n \in Nat |-> P(n)[n]]
<1>3. \A n \in Nat : Good(n, P(n))
  <2> HIDE DEF Good
  <2> QED
    BY <1>1
<1>4. \A n \in Nat : P(n)[n] = P(n + 1)[n]
  <2> HIDE DEF Good, P
  <2> QED
    BY <1>2, <1>3
<1> HIDE DEF P
<1>5. h \in [Nat -> S] /\ h[0] = x
  BY <1>3
<1>6. ASSUME NEW n \in Nat PROVE h[n + 1] = g[h[n]]
  <2>1. Good(n + 1, P(n + 1))
    BY <1>3
  <2>2. n \in 0..(n + 1) - 1
    OBVIOUS
  <2>3. P(n + 1)[n + 1] = g[P(n + 1)[n]]
    BY <2>1, <2>2
  <2>4. h[n + 1] = P(n + 1)[n + 1] /\ h[n] = P(n)[n]
    OBVIOUS
  <2> QED
    BY <1>4, <2>3, <2>4
<1> HIDE DEF h
<1> QED
  BY <1>5, <1>6 DEF Iterates

-----------------------------------------------------------------------------
(* Zones                                                                   *)

LocalType == [gmtOffset : Int, isDst : BOOLEAN]
TransitionType == [gmttime : Int, localtime : Int, localtimeIdx : Nat]

\* A zone as readTimeZoneFile leaves it: its transitions have types and are in order.
HasTypes(zone) ==
    /\ zone.valid = TRUE
    /\ zone.localtimes \in Seq(LocalType) /\ zone.transitions \in Seq(TransitionType)
    /\ \A i \in 1..Len(zone.transitions) :
          /\ zone.transitions[i].localtimeIdx \in 1..Len(zone.localtimes)
          /\ zone.transitions[i].localtime =
                zone.transitions[i].gmttime
                + zone.localtimes[zone.transitions[i].localtimeIdx].gmtOffset
InOrder(zone) ==
    \A i \in 1..Len(zone.transitions) : \A j \in 1..Len(zone.transitions) : i < j =>
          zone.transitions[i].gmttime < zone.transitions[j].gmttime
ZoneOK(zone) == HasTypes(zone) /\ InOrder(zone)

\* A zone without transitions has nothing to be in order.
LEMMA NoTransitionsOK ==
    ASSUME NEW types \in Seq(LocalType), NEW zone,
           zone = [valid |-> TRUE, transitions |-> <<>>, localtimes |-> types]
    PROVE  ZoneOK(zone)
<1>1. zone.valid = TRUE /\ zone.transitions = <<>> /\ zone.localtimes = types
  OBVIOUS
<1>2. zone.transitions \in Seq(TransitionType) /\ Len(zone.transitions) = 0
  BY <1>1
<1> QED
  BY <1>1, <1>2 DEF ZoneOK, HasTypes, InOrder

\* The zone that is read from a whole file.
WholeZone(f) ==
    [valid |-> TRUE, localtimes |-> f.types,
     transitions |-> [i \in 1..Len(f.trans) |-> Transition(f.trans[i], f.idx[i], f.types)]]

\* A zone of a whole file is in order as the file is.
LEMMA WholeFileOK ==
    ASSUME NEW f, WellFormed(f), NEW zone, zone = WholeZone(f)
    PROVE  ZoneOK(zone)
<1>1. /\ f.types \in Seq(LocalType) /\ f.trans \in Seq(Int)
      /\ f.idx \in [DOMAIN f.trans -> DOMAIN f.types]
  BY DEF WellFormed, LocalType
<1>2. PICK tr, ix, L, n : tr = f.trans /\ ix = f.idx /\ L = f.types /\ n = Len(f.trans)
  OBVIOUS
<1>3. PICK T : T = zone.transitions
  OBVIOUS
<1>4. /\ L \in Seq(LocalType) /\ tr \in Seq(Int) /\ n = Len(tr) /\ n \in Nat
      /\ ix \in [1..n -> 1..Len(L)] /\ Len(L) \in Nat
  <2>1. L \in Seq(LocalType) /\ tr \in Seq(Int) /\ n = Len(tr)
    BY <1>1, <1>2, Zenon
  <2>2. ix \in [DOMAIN tr -> DOMAIN L]
    BY <1>1, <1>2, Zenon
  <2>3. DOMAIN tr = 1..n /\ DOMAIN L = 1..Len(L) /\ n \in Nat /\ Len(L) \in Nat
    BY <2>1
  <2> QED
    BY <2>1, <2>2, <2>3, Zenon
<1>5. /\ zone.valid = TRUE /\ zone.localtimes = L
      /\ T = [i \in 1..n |-> Transition(tr[i], ix[i], L)]
  BY <1>2, <1>3 DEF WholeZone
<1>6. \A k \in 1..Len(L) : L[k].gmtOffset \in Int /\ L[k] \in LocalType
  <2>1. \A k \in 1..Len(L) : L[k] \in LocalType
    BY <1>4
  <2> QED
    BY <2>1 DEF LocalType
<1>7. ASSUME NEW i \in 1..n
      PROVE  /\ tr[i] \in Int /\ ix[i] \in 1..Len(L) /\ ix[i] \in Nat
             /\ L[ix[i]].gmtOffset \in Int
  <2>1. tr[i] \in Int
    BY <1>4
  <2>2. ix[i] \in 1..Len(L)
    BY <1>4
  <2> QED
    BY <1>4, <1>6, <2>1, <2>2
<1>8. ASSUME NEW i \in 1..n
      PROVE  /\ T[i] = [gmttime |-> tr[i], localtime |-> tr[i] + L[ix[i]].gmtOffset,
                        localtimeIdx |-> ix[i]]
             /\ T[i].gmttime = tr[i] /\ T[i].localtimeIdx = ix[i]
             /\ T[i].localtime = tr[i] + L[ix[i]].gmtOffset
             /\ T[i] \in TransitionType
  <2>1. T[i] = [gmttime |-> tr[i], localtime |-> tr[i] + L[ix[i]].gmtOffset,
                localtimeIdx |-> ix[i]]
    BY <1>5 DEF Transition
  <2>2. PICK local : local = tr[i] + L[ix[i]].gmtOffset
    OBVIOUS
  <2>3. local \in Int /\ tr[i] \in Int /\ ix[i] \in Nat
    BY <1>7, <2>2
  <2>4. T[i] = [gmttime |-> tr[i], localtime |-> local, localtimeIdx |-> ix[i]]
    BY <2>1, <2>2
  <2> QED
    BY <2>1, <2>2, <2>3, <2>4 DEF TransitionType
<1>9. T \in Seq(TransitionType) /\ Len(T) = n
  <2>1. \A i \in 1..n : T[i] \in TransitionType
    BY <1>8
  <2>2. T = [i \in 1..n |-> T[i]]
    BY <1>5
  <2> QED
    BY <1>4, <2>1, <2>2
<1>10. DOMAIN f.trans = 1..n
  BY <1>2, <1>4
<1>11. ASSUME NEW i \in 1..n, NEW j \in 1..n, i < j PROVE T[i].gmttime < T[j].gmttime
  <2>1. f.trans[i] < f.trans[j]
    BY <1>10, <1>11 DEF WellFormed
  <2> QED
    BY <1>2, <1>8, <2>1
<1>13. \A i \in 1..n : /\ T[i].localtimeIdx \in 1..Len(L)
                       /\ T[i].localtime = T[i].gmttime + L[T[i].localtimeIdx].gmtOffset
  BY <1>7, <1>8
<1>14. Len(zone.transitions) = n
  BY <1>3, <1>9
<1>15. HasTypes(zone)
  BY <1>3, <1>4, <1>5, <1>9, <1>13, <1>14, SMT DEF HasTypes
<1>16. InOrder(zone)
  BY <1>3, <1>11, <1>14 DEF InOrder
<1> QED
  BY <1>15, <1>16, Zenon DEF ZoneOK

\* readTimeZoneFile: the zones, of files that end early too, are in order.
LEMMA ZonesOK ==
    ASSUME NEW zone \in Zones
    PROVE  ZoneOK(zone)
<1>1. CASE zone \in {FixedZone(o) : o \in Offsets}
  <2>1. PICK o \in Offsets : zone = FixedZone(o)
    BY <1>1
  <2>2. o \in Int
    BY ZonesAssumption
  <2>3. <<Localtime(o, FALSE)>> \in Seq(LocalType)
    BY <2>2 DEF Localtime, LocalType
  <2> QED
    BY <2>1, <2>3, NoTransitionsOK DEF FixedZone
<1>2. ASSUME NEW f \in Files, NEW k \in 0..Fields(f), zone = readTimeZoneFile(f, k)
      PROVE  ZoneOK(zone)
  <2> DEFINE n == Len(f.trans)
             read == k - 1 - 2 * n
             types == IF read >= Len(f.types) THEN f.types ELSE SubSeq(f.types, 1, read)
  <2>1. WellFormed(f)
    BY ZonesAssumption
  <2>2. /\ f.types \in Seq(LocalType) /\ Len(f.types) \in Nat /\ n \in Nat
    BY <2>1 DEF WellFormed, LocalType
  <2>3. read \in Int
    BY <2>2 DEF Fields
  <2> HIDE DEF read, n
  <2>4. types \in Seq(LocalType) /\ (read < Len(f.types) => Len(types) < Len(f.types) \/ Len(f.types) = 0)
        /\ Len(types) \in Nat
    <3>1. CASE read >= Len(f.types)
      BY <2>2, <2>3, <3>1
    <3>2. CASE ~(read >= Len(f.types))
      <4>1. \A i \in 1..read : f.types[i] \in LocalType
        BY <2>2, <2>3, <3>2
      <4>2. SubSeq(f.types, 1, read) \in Seq(LocalType)
            /\ Len(SubSeq(f.types, 1, read)) = IF 1 <= read THEN read - 1 + 1 ELSE 0
        BY <2>2, <2>3, <4>1, SubSeqProperties
      <4>3. types = SubSeq(f.types, 1, read)
        BY <3>2
      <4> HIDE DEF types
      <4> QED
        BY <2>2, <2>3, <3>2, <4>2, <4>3
    <3> QED
      BY <3>1, <3>2
  <2>5. zone = [valid |-> TRUE, localtimes |-> types,
                transitions |-> IF Len(types) < Len(f.types) THEN <<>>
                    ELSE [i \in 1..n |-> Transition(f.trans[i], f.idx[i], types)]]
    BY <1>2 DEF readTimeZoneFile, read, n
  <2>6. CASE Len(types) < Len(f.types)
    <3>1. zone = [valid |-> TRUE, transitions |-> <<>>, localtimes |-> types]
      <4> HIDE DEF types
      <4> QED
        BY <2>5, <2>6
    <3> HIDE DEF types
    <3> QED
      BY <2>4, <3>1, NoTransitionsOK
  <2>7. CASE ~(Len(types) < Len(f.types))
    <3>1. types = f.types
      <4>1. CASE read >= Len(f.types)
        BY <4>1
      <4>2. CASE read < Len(f.types)
        <5>1. Len(f.types) = 0
          BY <2>4, <2>7, <4>2
        <5>2. f.types = <<>> /\ types = SubSeq(f.types, 1, read)
          BY <2>2, <2>3, <4>2, <5>1
        <5>3. Len(types) = 0
          BY <2>3, <4>2, <5>1, <5>2
        <5> HIDE DEF types
        <5> QED
          BY <2>4, <5>2, <5>3
      <4> QED
        BY <2>2, <2>3, <4>1, <4>2
    <3> HIDE DEF types
    <3>2. zone = [valid |-> TRUE, localtimes |-> f.types,
                  transitions |-> [i \in 1..n |-> Transition(f.trans[i], f.idx[i], f.types)]]
      BY <2>5, <2>7, <3>1
    <3> QED
      BY <2>1, <3>2, WholeFileOK DEF n, WholeZone
  <2> QED
    BY <2>6, <2>7
<1> QED
  BY <1>1, <1>2 DEF Zones

-----------------------------------------------------------------------------
(* Looking a time up in a zone                                             *)

\* The transition, or 0, after which a time comes, when g are the transitions' times.
At(g, n, time, k) == (k = 0 \/ g[k] <= time) /\ (k = n \/ time < g[k + 1])

\* There is one.
LEMMA PlaceExists ==
    ASSUME NEW n \in Nat, NEW g \in [1..n -> Int], NEW time \in Int
    PROVE  \E k \in 0..n : At(g, n, time, k)
<1> DEFINE Ks == {k \in 0..n : k = n \/ time < g[k + 1]}
<1>1. Ks \in SUBSET Nat /\ n \in Ks
  OBVIOUS
<1>2. PICK k \in Ks : \A j \in Ks : k <= j
  BY <1>1, LeastNat
<1>3. k \in 0..n /\ (k = n \/ time < g[k + 1])
  OBVIOUS
<1>4. CASE k = 0
  BY <1>3, <1>4 DEF At
<1>5. CASE k # 0
  <2>1. k - 1 \notin Ks
    <3> HIDE DEF Ks
    <3> QED
      BY <1>2, <1>3
  <2>2. k - 1 \in 0..n /\ k - 1 # n /\ k - 1 + 1 = k
    BY <1>3, <1>5
  <2>3. ~(time < g[k])
    BY <2>1, <2>2
  <2>4. g[k] \in Int
    BY <1>3, <1>5
  <2> QED
    BY <1>3, <2>3, <2>4 DEF At
<1> QED
  BY <1>4, <1>5

\* The transitions are in order of a key, which has the values g.
Keyed(zone, key, time, n, g) ==
    /\ zone.transitions \in Seq(TransitionType) /\ Len(zone.transitions) = n
    /\ Sentry(time)[key] = time
    /\ \A i \in 1..n : zone.transitions[i][key] = g[i]
    /\ \A i \in 1..n : \A j \in 1..n : i < j => g[i] < g[j]
Found(zone, key, time, k) ==
    findLocaltime(zone, key, time) = IF k = 0 THEN 1 ELSE zone.transitions[k].localtimeIdx

\* findLocaltime: the binary search, for either key, finds the type of that transition.
LEMMA Finds ==
    ASSUME NEW zone, NEW key, NEW n \in Nat, NEW g \in [1..n -> Int], NEW time \in Int,
           Keyed(zone, key, time, n, g), NEW k \in 0..n, At(g, n, time, k)
    PROVE  Found(zone, key, time, k)
<1> USE DEF Keyed, Found
<1> DEFINE ts == zone.transitions
           sentry == Sentry(time)
           notLess == {i \in DOMAIN ts : ~Less(key, ts[i], sentry)}
           lb == CHOOSE i \in notLess : \A j \in notLess : i <= j
<1>1. findLocaltime(zone, key, time) =
        IF ts = <<>> THEN 1
        ELSE IF Less(key, sentry, ts[1]) THEN 1
        ELSE IF notLess = {} THEN ts[Len(ts)].localtimeIdx
        ELSE IF Equal(key, sentry, ts[lb]) THEN ts[lb].localtimeIdx
        ELSE ts[lb - 1].localtimeIdx
  BY DEF findLocaltime
<1>2. ts = zone.transitions
  OBVIOUS
<1>3. sentry = Sentry(time)
  OBVIOUS
<1> HIDE DEF ts, sentry
<1>4. DOMAIN ts = 1..n /\ Len(ts) = n /\ (ts = <<>> <=> n = 0)
  BY <1>2
<1>5. \A i \in 1..n : /\ Less(key, ts[i], sentry) <=> g[i] < time
                      /\ Less(key, sentry, ts[i]) <=> time < g[i]
                      /\ Equal(key, sentry, ts[i]) <=> time = g[i]
  BY <1>2, <1>3 DEF Less, Equal
<1>6. notLess = {i \in 1..n : ~(g[i] < time)}
  BY <1>4, <1>5
<1> HIDE DEF notLess, lb
<1>7. \A i \in 1..n : g[i] \in Int
  OBVIOUS
<1>8. CASE n = 0
  BY <1>4, <1>1, <1>8
<1>9. CASE n # 0 /\ time < g[1]
  <2>1. 1 \in 1..n /\ Less(key, sentry, ts[1])
    BY <1>5, <1>9
  <2>2. k = 0
    <3> SUFFICES ASSUME k # 0 PROVE FALSE
      OBVIOUS
    <3>1. k \in 1..n /\ g[k] <= time
      BY DEF At
    <3>2. k = 1 \/ g[1] < g[k]
      BY <2>1, <3>1
    <3> QED
      BY <1>7, <1>9, <2>1, <3>1, <3>2
  <2> QED
    BY <1>1, <2>1, <2>2
<1>10. CASE n # 0 /\ ~(time < g[1])
  <2>1. 1 \in 1..n /\ ~Less(key, sentry, ts[1]) /\ ts # <<>>
    BY <1>4, <1>5, <1>10
  <2>2. k \in 1..n /\ g[k] <= time /\ (k = n \/ time < g[k + 1])
    <3>1. k # 0
      <4> SUFFICES ASSUME k = 0 PROVE FALSE
        OBVIOUS
      <4>1. time < g[0 + 1]
        BY <1>10 DEF At
      <4> QED
        BY <1>10, <4>1
    <3> QED
      BY <3>1 DEF At
  <2>3. \A i \in 1..n : i > k => time < g[i]
    <3> SUFFICES ASSUME NEW i \in 1..n, i > k PROVE time < g[i]
      OBVIOUS
    <3>1. k + 1 \in 1..n /\ (i = k + 1 \/ k + 1 < i) /\ time < g[k + 1]
      BY <2>2
    <3>2. i = k + 1 \/ g[k + 1] < g[i]
      BY <3>1
    <3> QED
      BY <1>7, <3>1, <3>2
  <2>4. \A i \in 1..n : i < k => g[i] < time
    <3> SUFFICES ASSUME NEW i \in 1..n, i < k PROVE g[i] < time
      OBVIOUS
    <3>1. g[i] < g[k]
      BY <2>2
    <3> QED
      BY <1>7, <2>2, <3>1
  <2>5. CASE g[k] = time
    <3>1. k \in notLess /\ \A i \in notLess : k <= i
      BY <1>6, <2>2, <2>4, <2>5
    <3>2. lb = k
      <4>1. lb \in notLess /\ \A i \in notLess : lb <= i
        BY <3>1 DEF lb
      <4>2. notLess \subseteq 1..n
        BY <1>6
      <4> QED
        BY <3>1, <4>1, <4>2
    <3>3. Equal(key, sentry, ts[k])
      BY <1>5, <2>2, <2>5
    <3> QED
      BY <1>2, <1>1, <2>1, <2>2, <3>1, <3>2, <3>3
  <2>6. CASE g[k] # time /\ k = n
    <3>1. \A i \in 1..n : g[i] < time
      <4> SUFFICES ASSUME NEW i \in 1..n PROVE g[i] < time
        OBVIOUS
      <4>1. i = k \/ i < k
        BY <2>6
      <4> QED
        BY <1>7, <2>2, <2>4, <2>6, <4>1
    <3>2. notLess = {}
      BY <1>6, <3>1
    <3> QED
      BY <1>2, <1>4, <1>1, <2>1, <2>2, <2>6, <3>2
  <2>7. CASE g[k] # time /\ k # n
    <3>1. k + 1 \in 1..n /\ time < g[k + 1] /\ g[k] < time
      BY <1>7, <2>2, <2>7
    <3>2. k + 1 \in notLess
      BY <1>6, <1>7, <3>1
    <3>3. \A i \in notLess : k + 1 <= i
      <4> SUFFICES ASSUME NEW i \in notLess PROVE k + 1 <= i
        OBVIOUS
      <4>1. i \in 1..n /\ ~(g[i] < time)
        BY <1>6
      <4>2. i # k /\ ~(i < k)
        BY <2>4, <3>1, <4>1
      <4> QED
        BY <4>1, <4>2
    <3>4. lb = k + 1
      <4>1. lb \in notLess /\ \A i \in notLess : lb <= i
        BY <3>2, <3>3 DEF lb
      <4>2. notLess \subseteq 1..n
        BY <1>6
      <4> QED
        BY <3>2, <3>3, <4>1, <4>2
    <3>5. ~Equal(key, sentry, ts[k + 1])
      BY <1>5, <1>7, <3>1
    <3>6. lb - 1 = k /\ notLess # {}
      BY <3>2, <3>4
    <3> QED
      BY <1>2, <1>1, <2>1, <2>2, <3>4, <3>5, <3>6
  <2> QED
    BY <2>2, <2>5, <2>6, <2>7
<1> QED
  BY <1>8, <1>9, <1>10

\* The times of a zone's transitions, and the offsets and tm_isdst in force from each on.
Views(zone, n, g, o, d) ==
    /\ Len(zone.transitions) = n
    /\ \A i \in 1..n : /\ zone.transitions[i].gmttime = g[i]
                       /\ zone.transitions[i].localtime = g[i] + o[i]
    /\ \A i \in 0..n : InForce(zone, i).gmtOffset = o[i] /\ InForce(zone, i).isDst = d[i]
Increasing(n, g) == \A i \in 1..n : \A j \in 1..n : i < j => g[i] < g[j]

\* Those of a zone that falls back only from daylight saving time.
Falls(o, d, i, j) == o[j] >= o[i] \/ (d[i] = TRUE /\ d[j] = FALSE /\ o[j] = o[i] - 3600)
Apart(g, o, i, j) == g[j] - g[i] >= 7200 /\ g[i] + o[i] < g[j] + o[j]
Regular(n, g, o, d) ==
    /\ \A i \in 1..n : \A j \in 1..n : i < j => Apart(g, o, i, j)
    /\ \A i \in 1..n : Falls(o, d, i - 1, i)

\* A zone that is in order has them.
LEMMA ZoneViewed ==
    ASSUME NEW zone, ZoneOK(zone), zone.localtimes # <<>>
    PROVE  \E n \in Nat : \E g \in [1..n -> Int], o \in [0..n -> Int], d \in [0..n -> BOOLEAN] :
                /\ Views(zone, n, g, o, d) /\ Increasing(n, g)
                /\ OnlyDstFallsBack(zone) => Regular(n, g, o, d)
<1>1. PICK T, L, n : T = zone.transitions /\ L = zone.localtimes /\ n = Len(T)
  OBVIOUS
<1>2. T \in Seq(TransitionType) /\ L \in Seq(LocalType) /\ n \in Nat /\ Len(L) \in Nat
      /\ Len(L) # 0
  BY <1>1 DEF ZoneOK, HasTypes
<1>3. \A i \in 1..n : T[i] \in TransitionType
  BY <1>1, <1>2
<1>4. \A i \in 1..n : T[i].gmttime \in Int /\ T[i].localtimeIdx \in Nat
  BY <1>3 DEF TransitionType
<1>5. \A i \in 1..n : T[i].localtimeIdx \in 1..Len(L)
  BY <1>1 DEF ZoneOK, HasTypes
<1>6. \A i \in 0..n : InForce(zone, i) \in LocalType
  <2> SUFFICES ASSUME NEW i \in 0..n PROVE InForce(zone, i) \in LocalType
    OBVIOUS
  <2>1. PICK x : x = IF i = 0 THEN 1 ELSE T[i].localtimeIdx
    OBVIOUS
  <2>2. i = 0 \/ i \in 1..n
    BY <1>2
  <2>3. x \in 1..Len(L)
    BY <1>2, <1>5, <2>1, <2>2
  <2>4. L[x] \in LocalType
    BY <1>2, <2>3
  <2> QED
    BY <1>1, <2>1, <2>4 DEF InForce
<1>7. \A i \in 0..n : InForce(zone, i).gmtOffset \in Int
  BY <1>6 DEF LocalType
<1>8. \A i \in 0..n : InForce(zone, i).isDst \in BOOLEAN
  BY <1>6 DEF LocalType
<1>9. PICK g : g = [i \in 1..n |-> T[i].gmttime]
  OBVIOUS
<1>10. PICK o : o = [i \in 0..n |-> InForce(zone, i).gmtOffset]
  OBVIOUS
<1>11. PICK d : d = [i \in 0..n |-> InForce(zone, i).isDst]
  OBVIOUS
<1>12. g \in [1..n -> Int]
  BY <1>4, <1>9
<1>13. o \in [0..n -> Int]
  BY <1>7, <1>10
<1>14. d \in [0..n -> BOOLEAN]
  BY <1>8, <1>11
<1>15. ASSUME NEW i \in 1..n
       PROVE  T[i].gmttime = g[i] /\ T[i].localtime = g[i] + o[i]
  <2>1. T[i].gmttime = g[i]
    BY <1>9
  <2>2. i \in 0..n /\ i # 0
    BY <1>2
  <2>3. o[i] = L[T[i].localtimeIdx].gmtOffset
    BY <1>1, <1>10, <2>2 DEF InForce
  <2>4. T[i].localtime = T[i].gmttime + L[T[i].localtimeIdx].gmtOffset
    BY <1>1 DEF ZoneOK, HasTypes
  <2> QED
    BY <2>1, <2>3, <2>4
<1>16. Views(zone, n, g, o, d)
  BY <1>1, <1>10, <1>11, <1>15, Zenon DEF Views
<1>17. Increasing(n, g)
  <2> SUFFICES ASSUME NEW i \in 1..n, NEW j \in 1..n, i < j PROVE g[i] < g[j]
    BY DEF Increasing
  <2>1. T[i].gmttime < T[j].gmttime
    BY <1>1 DEF ZoneOK, InOrder
  <2> QED
    BY <1>15, <2>1
<1>18. ASSUME OnlyDstFallsBack(zone) PROVE Regular(n, g, o, d)
  <2>1. DOMAIN T = 1..n
    BY <1>1, <1>2
  <2>2. ASSUME NEW i \in 1..n, NEW j \in 1..n, i < j
        PROVE  Apart(g, o, i, j)
    <3>1. T[j].gmttime - T[i].gmttime >= 7200 /\ T[i].localtime < T[j].localtime
      BY <1>1, <1>18, <2>1, <2>2 DEF OnlyDstFallsBack
    <3>2. T[i].gmttime = g[i] /\ T[i].localtime = g[i] + o[i]
      BY <1>15
    <3>3. T[j].gmttime = g[j] /\ T[j].localtime = g[j] + o[j]
      BY <1>15
    <3> QED
      BY <3>1, <3>2, <3>3 DEF Apart
  <2>3. ASSUME NEW i \in 1..n
        PROVE  Falls(o, d, i - 1, i)
    <3>1. i \in 0..n /\ i - 1 \in 0..n
      BY <1>2
    <3>2. o[i] = InForce(zone, i).gmtOffset /\ o[i - 1] = InForce(zone, i - 1).gmtOffset
      BY <1>10, <3>1
    <3>3. d[i] = InForce(zone, i).isDst /\ d[i - 1] = InForce(zone, i - 1).isDst
      BY <1>11, <3>1
    <3>4. \/ InForce(zone, i).gmtOffset >= InForce(zone, i - 1).gmtOffset
          \/ /\ InForce(zone, i - 1).isDst /\ ~InForce(zone, i).isDst
             /\ InForce(zone, i).gmtOffset = InForce(zone, i - 1).gmtOffset - 3600
      BY <1>1, <1>18, <2>1 DEF OnlyDstFallsBack
    <3>5. CASE InForce(zone, i).gmtOffset >= InForce(zone, i - 1).gmtOffset
      BY <3>2, <3>5 DEF Falls
    <3>6. CASE ~(InForce(zone, i).gmtOffset >= InForce(zone, i - 1).gmtOffset)
      <4>1. InForce(zone, i - 1).isDst = TRUE /\ InForce(zone, i).isDst = FALSE
        BY <1>8, <3>1, <3>4, <3>6
      <4>2. o[i] = o[i - 1] - 3600
        BY <3>2, <3>4, <3>6
      <4> QED
        BY <3>3, <4>1, <4>2 DEF Falls
    <3> QED
      BY <3>5, <3>6
  <2> QED
    BY <2>2, <2>3, ZenonT(30) DEF Regular
<1> QED
  BY <1>2, <1>12, <1>13, <1>14, <1>16, <1>17, <1>18

\* The local time of s is s at an offset.
ShownAt(zone, s, offset, dst) ==
    toLocalTime(zone, s) = [secs |-> s + offset, isdst |-> dst, gmtoff |-> offset, zero |-> FALSE]

\* toLocalTime: the offset of the transition before the time.
LEMMA LocalTimeAt ==
    ASSUME NEW zone, ZoneOK(zone), zone.localtimes # <<>>,
           NEW n \in Nat, NEW g \in [1..n -> Int], NEW o \in [0..n -> Int],
           NEW d \in [0..n -> BOOLEAN], Views(zone, n, g, o, d), Increasing(n, g),
           NEW s \in Int, NEW k \in 0..n, At(g, n, s, k)
    PROVE  ShownAt(zone, s, o[k], d[k])
<1>1. zone.transitions \in Seq(TransitionType) /\ Len(zone.transitions) = n
  BY DEF ZoneOK, HasTypes, Views
<1>2. \A i \in 1..n : zone.transitions[i]["gmttime"] = g[i]
  BY DEF Views
<1>3. Sentry(s)["gmttime"] = s
  BY DEF Sentry
<1>4. \A i \in 1..n : \A j \in 1..n : i < j => g[i] < g[j]
  BY DEF Increasing
<1>5. Keyed(zone, "gmttime", s, n, g)
  BY <1>1, <1>2, <1>3, <1>4, Zenon DEF Keyed
<1>6. zone.localtimes[findLocaltime(zone, "gmttime", s)] = InForce(zone, k)
  <2>1. Found(zone, "gmttime", s, k)
    BY <1>5, Finds, Zenon
  <2> QED
    BY <2>1, Zenon DEF InForce, Found
<1>7. InForce(zone, k).gmtOffset = o[k] /\ InForce(zone, k).isDst = d[k]
  BY DEF Views
<1> QED
  BY <1>6, <1>7, Zenon DEF toLocalTime, ShownAt

\* fromLocalTime's lookup: the offset of the transition before the local time.
LEMMA OffsetAt ==
    ASSUME NEW zone, ZoneOK(zone), zone.localtimes # <<>>,
           NEW n \in Nat, NEW g \in [1..n -> Int], NEW o \in [0..n -> Int],
           NEW d \in [0..n -> BOOLEAN], Views(zone, n, g, o, d), Regular(n, g, o, d),
           NEW l, l = [i \in 1..n |-> g[i] + o[i]],
           NEW s \in Int, NEW k \in 0..n, At(l, n, s, k)
    PROVE  zone.localtimes[findLocaltime(zone, "localtime", s)].gmtOffset = o[k]
<1>1. zone.transitions \in Seq(TransitionType) /\ Len(zone.transitions) = n
  BY DEF ZoneOK, HasTypes, Views
<1>2. l \in [1..n -> Int]
  <2>1. ASSUME NEW i \in 1..n PROVE g[i] + o[i] \in Int
    <3>1. g[i] \in Int /\ o[i] \in Int
      OBVIOUS
    <3> QED
      BY <3>1
  <2> QED
    BY <2>1
<1>3. \A i \in 1..n : zone.transitions[i]["localtime"] = l[i]
  BY DEF Views
<1>4. Sentry(s)["localtime"] = s
  BY DEF Sentry
<1>5. \A i \in 1..n : \A j \in 1..n : i < j => l[i] < l[j]
  BY DEF Regular, Apart
<1>6. Keyed(zone, "localtime", s, n, l)
  BY <1>1, <1>3, <1>4, <1>5, Zenon DEF Keyed
<1>7. zone.localtimes[findLocaltime(zone, "localtime", s)] = InForce(zone, k)
  <2>1. Found(zone, "localtime", s, k)
    BY <1>2, <1>6, Finds, Zenon
  <2> QED
    BY <2>1, Zenon DEF InForce, Found
<1> QED
  BY <1>7, Zenon DEF Views

\* toLocalTime: what it shows is the local time by the definition of a zone.
LEMMA ShowsInZone ==
    ASSUME NEW zone, ZoneOK(zone), NEW s \in Int
    PROVE  Shows(toLocalTime(zone, s), zone, s)
<1>1. zone.valid = TRUE
  BY DEF ZoneOK, HasTypes
<1>2. CASE zone.localtimes = <<>>
  BY <1>1, <1>2 DEF toLocalTime, Shows
<1>3. CASE zone.localtimes # <<>>
  <2>1. PICK n \in Nat : \E g \in [1..n -> Int], o \in [0..n -> Int], d \in [0..n -> BOOLEAN] :
            Views(zone, n, g, o, d) /\ Increasing(n, g)
    BY <1>3, ZoneViewed
  <2>2. PICK g \in [1..n -> Int], o \in [0..n -> Int], d \in [0..n -> BOOLEAN] :
            Views(zone, n, g, o, d) /\ Increasing(n, g)
    BY <2>1
  <2>3. PICK k \in 0..n : At(g, n, s, k)
    BY PlaceExists
  <2>4. ShownAt(zone, s, o[k], d[k])
    BY <1>3, <2>2, <2>3, LocalTimeAt, Zenon
  <2>5. toLocalTime(zone, s).secs = s + o[k] /\ ~toLocalTime(zone, s).zero
    BY <2>4 DEF ShownAt
  <2> DEFINE past == {i \in DOMAIN zone.transitions : zone.transitions[i].gmttime <= s}
             last == CHOOSE i \in past : \A j \in past : i >= j
             type == IF past = {} THEN 1 ELSE zone.transitions[last].localtimeIdx
  <2>6. InZone(zone, s) = s + zone.localtimes[type].gmtOffset
    BY <1>1, <1>3, Zenon DEF InZone
  <2>7. DOMAIN zone.transitions = 1..n
    BY <2>2 DEF ZoneOK, HasTypes, Views
  <2>8. \A i \in 1..n : zone.transitions[i].gmttime = g[i] /\ g[i] \in Int
    BY <2>2 DEF Views
  <2>9. past = {i \in 1..n : g[i] <= s}
    BY <2>7, <2>8
  <2>10. \A i \in 1..n : i <= k <=> g[i] <= s
    <3> SUFFICES ASSUME NEW i \in 1..n PROVE i <= k <=> g[i] <= s
      OBVIOUS
    <3>1. CASE i <= k
      <4>1. k \in 1..n /\ g[k] <= s
        BY <2>3, <3>1 DEF At
      <4>2. i = k \/ g[i] < g[k]
        BY <2>2, <3>1, <4>1 DEF Increasing
      <4> QED
        BY <2>8, <3>1, <4>1, <4>2
    <3>2. CASE i > k
      <4> DEFINE m == k + 1
      <4>1. m \in 1..n /\ s < g[m] /\ (m = i \/ m < i)
        BY <2>3, <3>2 DEF At
      <4> HIDE DEF m
      <4>2. i = m \/ g[m] < g[i]
        BY <2>2, <4>1 DEF Increasing
      <4>3. s < g[i]
        BY <2>8, <4>1, <4>2
      <4> QED
        BY <2>8, <3>2, <4>3
    <3> QED
      BY <3>1, <3>2
  <2>11. past = 1..k
    BY <2>9, <2>10
  <2>12. type = IF k = 0 THEN 1 ELSE zone.transitions[k].localtimeIdx
    <3> HIDE DEF past
    <3>1. CASE k = 0
      BY <2>11, <3>1
    <3>2. CASE k # 0
      <4>1. k \in past /\ \A j \in past : k >= j
        BY <2>11, <3>2
      <4>2. last \in past /\ \A j \in past : last >= j
        BY <4>1
      <4> HIDE DEF last
      <4>3. last = k
        <5>1. last \in 1..k /\ last >= k
          BY <2>11, <4>1, <4>2
        <5> QED
          BY ONLY <5>1, k \in 0..n, n \in Nat
      <4> QED
        BY <3>2, <4>1, <4>3
    <3> QED
      BY <3>1, <3>2
  <2> HIDE DEF type
  <2>13. zone.localtimes[type].gmtOffset = o[k]
    <3>1. zone.localtimes[type] = InForce(zone, k)
      BY <2>12, Zenon DEF InForce
    <3> QED
      BY <2>2, <3>1 DEF Views
  <2> QED
    BY <1>3, <2>5, <2>6, <2>13 DEF Shows
<1> QED
  BY <1>2, <1>3

\* The hour that comes twice: the next transition falls back.
ComesTwice(n, g, o, d, s, k, j) ==
    /\ j = k + 1 /\ d[k] = TRUE /\ d[j] = FALSE /\ o[j] = o[k] - 3600
    /\ At(g, n, s + 3600, j)

\* The transitions by local time.
IsLocal(l, n, g, o) == l = [i \in 1..n |-> g[i] + o[i]]

\* The local time of a second comes after the transition that the second comes after, or,
\* in the hour that comes twice, after the next one.
LEMMA FoundAgain ==
    ASSUME NEW n \in Nat, NEW g \in [1..n -> Int], NEW o \in [0..n -> Int],
           NEW d \in [0..n -> BOOLEAN], Regular(n, g, o, d),
           NEW l, IsLocal(l, n, g, o), NEW s \in Int, NEW k \in 0..n, At(g, n, s, k),
           NEW local, local = s + o[k], NEW j \in 0..n, At(l, n, local, j)
    PROVE  j = k \/ ComesTwice(n, g, o, d, s, k, j)
<1>1. /\ \A i \in 1..n : g[i] \in Int
      /\ \A i \in 0..n : o[i] \in Int
  OBVIOUS
<1>2. \A i \in 1..n : \A m \in 1..n :
          i < m => g[m] - g[i] >= 7200 /\ g[i] + o[i] < g[m] + o[m]
  BY DEF Regular, Apart
<1>3. j # 0 => g[j] + o[j] <= s + o[k]
  BY DEF At, IsLocal
<1>4. j >= k
  <2> SUFFICES ASSUME j < k PROVE FALSE
    OBVIOUS
  <2>1. PICK m : m = j + 1
    OBVIOUS
  <2>2. k \in 1..n /\ m \in 1..n /\ m \in 0..n /\ j # n /\ g[k] <= s /\ (m = k \/ m < k)
    BY <2>1 DEF At
  <2>3. s + o[k] < g[m] + o[m]
    BY <2>1, <2>2 DEF At, IsLocal
  <2>4. m = k \/ g[m] + o[m] < g[k] + o[k]
    BY <1>2, <2>2
  <2>5. PICK gk \in Int, ok \in Int, gm \in Int, om \in Int :
            gk = g[k] /\ ok = o[k] /\ gm = g[m] /\ om = o[m]
    BY <1>1, <2>2
  <2>6. s + ok < gm + om /\ gk <= s
    BY <2>2, <2>3, <2>5
  <2>7. CASE m = k
    <3>1. gm = gk /\ om = ok
      BY <2>5, <2>7
    <3> QED
      BY <2>6, <3>1
  <2>8. CASE m # k
    <3>1. gm + om < gk + ok
      BY <2>4, <2>5, <2>8
    <3> QED
      BY <2>6, <3>1
  <2> QED
    BY <2>7, <2>8
<1>5. CASE j > k
  <2>1. PICK m : m = k + 1
    OBVIOUS
  <2>2. m \in 1..n /\ m \in 0..n /\ j \in 1..n /\ k # n /\ j # 0 /\ m - 1 = k
        /\ (m = j \/ m < j)
    BY <1>5, <2>1
  <2>3. PICK gm \in Int, om \in Int, ok \in Int, gj \in Int, oj \in Int :
            gm = g[m] /\ om = o[m] /\ ok = o[k] /\ gj = g[j] /\ oj = o[j]
    BY <1>1, <2>2
  <2>4. s < gm
    BY <2>1, <2>2, <2>3 DEF At
  <2>5. m = j \/ gm + om < gj + oj
    BY <1>2, <2>2, <2>3
  <2>6. gj + oj <= s + ok
    BY <1>3, <2>2, <2>3
  <2>7. gm + om <= s + ok
    <3>1. m = j => gm = gj /\ om = oj
      BY <2>3
    <3> QED
      BY <2>5, <2>6, <3>1
  <2>8. ~(om >= ok)
    BY <2>4, <2>7
  <2>9. Falls(o, d, m - 1, m)
    BY <2>2 DEF Regular, Apart
  <2>10. d[k] = TRUE /\ d[m] = FALSE
    BY <2>2, <2>3, <2>8, <2>9 DEF Falls
  <2>11. om = ok - 3600
    BY <2>2, <2>3, <2>8, <2>9 DEF Falls
  <2>12. PICK p : p = m + 1
    OBVIOUS
  <2>13. ASSUME m # n
         PROVE  /\ p \in 1..n /\ g[p] \in Int /\ o[p] \in Int
                /\ g[p] - gm >= 7200 /\ o[p] >= om
    <3>1. p \in 1..n /\ p \in 0..n /\ p - 1 = m /\ m < p
      BY <2>2, <2>12, <2>13
    <3>2. Falls(o, d, p - 1, p)
      BY <3>1 DEF Regular, Apart
    <3>3. o[p] >= om
      <4>1. Falls(o, d, m, p)
        BY <3>1, <3>2
      <4>2. o[p] >= o[m]
        <5> SUFFICES ASSUME ~(o[p] >= o[m]) PROVE d[m] = TRUE
          BY <2>10
        <5> QED
          BY <4>1 DEF Falls
      <4> QED
        BY <2>3, <4>2
    <3>4. g[p] - g[m] >= 7200
      BY <1>2, <2>2, <3>1
    <3> QED
      BY <1>1, <2>3, <3>1, <3>3, <3>4
  <2>14. j = m
    <3> SUFFICES ASSUME j # m PROVE FALSE
      OBVIOUS
    <3>1. m # n /\ (j = p \/ p < j)
      BY <2>2, <2>12
    <3>2. PICK gp \in Int, op \in Int : gp = g[p] /\ op = o[p]
      BY <2>13, <3>1, SMTT(30)
    <3>3. gp - gm >= 7200 /\ op >= om /\ p \in 1..n
      BY <2>13, <3>1, <3>2
    <3>4. j = p \/ gp + op < gj + oj
      BY <1>2, <2>2, <2>3, <3>1, <3>2, <3>3, SMTT(30)
    <3>5. j = p => gp = gj /\ op = oj
      BY <2>3, <3>2
    <3>6. gp + op <= gj + oj
      BY <3>4, <3>5
    <3> QED
      BY <2>4, <2>6, <2>11, <3>3, <3>6
  <2>15. At(g, n, s + 3600, m)
    <3>1. g[m] <= s + 3600
      <4>1. gm <= s + 3600
        BY <2>7, <2>11
      <4> QED
        BY <2>3, <4>1
    <3>2. ASSUME m # n PROVE s + 3600 < g[m + 1]
      <4>1. PICK gp \in Int : gp = g[p] /\ gp - gm >= 7200
        BY <2>13, <3>2
      <4>2. s + 3600 < gp
        BY <2>4, <4>1, SMTT(30)
      <4> QED
        BY <2>12, <4>1, <4>2
    <3> QED
      BY <3>1, <3>2 DEF At
  <2>16. o[m] = o[k] - 3600
    BY <2>3, <2>11
  <2>17. ComesTwice(n, g, o, d, s, k, m)
    BY <2>1, <2>10, <2>15, <2>16 DEF ComesTwice
  <2> QED
    BY <2>14, <2>17
<1> QED
  BY <1>4, <1>5

\* toLocalTime and fromLocalTime: no second is lost on the way to local time and back.
LEMMA GoesAndComesBack ==
    ASSUME NEW zone, ZoneOK(zone), zone.localtimes # <<>>, OnlyDstFallsBack(zone), NEW s \in Int
    PROVE  fromLocalTime(zone, toLocalTime(zone, s)) = s
<1>1. PICK n \in Nat : \E g \in [1..n -> Int], o \in [0..n -> Int], d \in [0..n -> BOOLEAN] :
          Views(zone, n, g, o, d) /\ Increasing(n, g) /\ Regular(n, g, o, d)
  BY ZoneViewed
<1>2. PICK g \in [1..n -> Int], o \in [0..n -> Int], d \in [0..n -> BOOLEAN] :
          Views(zone, n, g, o, d) /\ Increasing(n, g) /\ Regular(n, g, o, d)
  BY <1>1
<1>3. PICK k \in 0..n : At(g, n, s, k)
  BY PlaceExists
<1>4. PICK tm : tm = toLocalTime(zone, s)
  OBVIOUS
<1>5. tm = [secs |-> s + o[k], isdst |-> d[k], gmtoff |-> o[k], zero |-> FALSE]
  <2>1. ShownAt(zone, s, o[k], d[k])
    BY <1>2, <1>3, LocalTimeAt, Zenon
  <2> QED
    BY <1>4, <2>1 DEF ShownAt
<1>6. o[k] \in Int /\ s + o[k] \in Int
  <2>1. o[k] \in Int
    OBVIOUS
  <2> QED
    BY <2>1
<1>7. tm.secs = s + o[k] /\ tm.isdst = d[k]
  BY <1>5
<1>8. PICK l : l = [i \in 1..n |-> g[i] + o[i]]
  OBVIOUS
<1>9. l \in [1..n -> Int]
  <2>1. ASSUME NEW i \in 1..n PROVE g[i] + o[i] \in Int
    <3>1. g[i] \in Int /\ o[i] \in Int
      OBVIOUS
    <3> QED
      BY <3>1
  <2> QED
    BY <1>8, <2>1
<1>10. PICK j \in 0..n : At(l, n, tm.secs, j)
  BY <1>6, <1>7, <1>9, PlaceExists
<1>11. zone.localtimes[findLocaltime(zone, "localtime", tm.secs)].gmtOffset = o[j]
  <2>1. tm.secs \in Int
    BY <1>6, <1>7
  <2> QED
    BY <1>2, <1>8, <1>10, <2>1, OffsetAt, ZenonT(30)
<1>12. PICK tryTm : tryTm = toLocalTime(zone, tm.secs - o[j])
  OBVIOUS
<1>13. fromLocalTime(zone, tm) =
           IF tm.isdst /\ ~tryTm.isdst /\ SameHourAndMinute(tryTm, tm)
           THEN tm.secs - 3600 - o[j] ELSE tm.secs - o[j]
  BY <1>11, <1>12 DEF fromLocalTime
<1>14. j = k \/ ComesTwice(n, g, o, d, s, k, j)
  <2>1. IsLocal(l, n, g, o)
    BY <1>8 DEF IsLocal
  <2> QED
    BY <1>2, <1>3, <1>7, <1>10, <2>1, FoundAgain, Zenon
<1>15. CASE j = k
  <2>1. tm.secs - o[j] = s
    BY <1>6, <1>7, <1>15
  <2>2. tryTm = tm
    BY <1>4, <1>12, <2>1
  <2> QED
    BY <1>4, <1>13, <2>1, <2>2
<1>16. CASE j # k
  <2>1. j = k + 1 /\ d[k] = TRUE /\ d[j] = FALSE /\ o[j] = o[k] - 3600 /\ At(g, n, s + 3600, j)
    BY <1>14, <1>16 DEF ComesTwice
  <2>2. tm.secs - o[j] = s + 3600 /\ s + 3600 \in Int
    BY <1>6, <1>7, <2>1
  <2>3. tryTm = [secs |-> s + 3600 + o[j], isdst |-> d[j], gmtoff |-> o[j], zero |-> FALSE]
    <3>1. PICK u \in Int : u = s + 3600
      BY <2>2
    <3>2. ShownAt(zone, u, o[j], d[j])
      <4>1. At(g, n, u, j)
        BY <2>1, <3>1
      <4> QED
        BY <1>2, <4>1, LocalTimeAt, Zenon
    <3> QED
      BY <1>12, <2>2, <3>1, <3>2 DEF ShownAt
  <2>4. tryTm.secs = s + 3600 + o[j] /\ tryTm.isdst = FALSE
    BY <2>1, <2>3
  <2>5. tryTm.secs = tm.secs
    BY <1>6, <1>7, <2>1, <2>4
  <2>6. SameHourAndMinute(tryTm, tm)
    BY <2>5 DEF SameHourAndMinute
  <2>7. tm.isdst = TRUE
    BY <1>7, <2>1
  <2>8. fromLocalTime(zone, tm) = tm.secs - 3600 - o[j]
    BY <1>13, <2>4, <2>6, <2>7
  <2> QED
    BY <1>4, <1>6, <1>7, <2>1, <2>8, SMTT(30)
<1> QED
  BY <1>15, <1>16

-----------------------------------------------------------------------------
(* What a line shows                                                       *)

\* The text kept by a thread is that of the second in a zone that was in force in it.
CacheOK ==
    \A t \in Threads : t_time[t] # NoText /\ t_lastSecond[t] = now =>
        \E zone \in zones : Shows(t_time[t], zone, now)
Tables == DOMAIN t_lastSecond = Threads /\ DOMAIN t_time = Threads /\ DOMAIN logger = Threads
LoggersOK ==
    \A t \in Threads : logger[t].live =>
        /\ logger[t].stmt \in Statements /\ logger[t].time \in Nat
        /\ logger[t].zoned \in BOOLEAN
LogInv == TypeOK /\ Tables /\ CacheOK /\ ShownInZone /\ LoggersOK

\* The log shows no zone but those of setTimeZone.
LEMMA LogZone ==
    ASSUME TypeOK
    PROVE  \/ g_logTimeZone \in Zones /\ ZoneOK(g_logTimeZone) /\ g_logTimeZone.valid = TRUE
           \/ g_logTimeZone = NoZone /\ g_logTimeZone.valid = FALSE
<1>1. g_logTimeZone \in Zones \/ g_logTimeZone = NoZone
  BY DEF TypeOK
<1>2. CASE g_logTimeZone \in Zones
  <2>1. ZoneOK(g_logTimeZone)
    BY <1>2, ZonesOK
  <2> QED
    BY <1>2, <2>1 DEF ZoneOK, HasTypes
<1>3. CASE g_logTimeZone = NoZone
  BY <1>3 DEF NoZone
<1> QED
  BY <1>1, <1>2, <1>3

\* LogTime: the time is that of the log's zone.
LEMMA LogTimeInZone ==
    ASSUME TypeOK
    PROVE  Shows(LogTime(now), g_logTimeZone, now)
<1>1. now \in Int
  BY TimesAssumption DEF TypeOK
<1>2. CASE g_logTimeZone \in Zones /\ ZoneOK(g_logTimeZone) /\ g_logTimeZone.valid = TRUE
  <2>1. LogTime(now) = toLocalTime(g_logTimeZone, now)
    BY <1>2 DEF LogTime
  <2> QED
    BY <1>1, <1>2, <2>1, ShowsInZone
<1>3. CASE g_logTimeZone = NoZone /\ g_logTimeZone.valid = FALSE
  <2>1. LogTime(now) = [ZeroTm EXCEPT !.secs = now, !.zero = FALSE]
    BY <1>3 DEF LogTime
  <2>2. LogTime(now).secs = now /\ ~LogTime(now).zero
    BY <2>1 DEF ZeroTm
  <2>3. InZone(g_logTimeZone, now) = now
    BY <1>1, <1>3 DEF InZone
  <2> QED
    BY <1>3, <2>2, <2>3 DEF Shows
<1> QED
  BY <1>2, <1>3, LogZone

\* formatTime: new or kept, the text is that of the second in a zone in force in it.
LEMMA TextInZone ==
    ASSUME LogInv, NEW t \in Threads, TAssert(TimeText(t))
    PROVE  \E zone \in zones : Shows(TimeText(t), zone, now)
<1>1. CASE now # t_lastSecond[t]
  <2>1. TimeText(t) = LogTime(now)
    BY <1>1 DEF TimeText
  <2>2. g_logTimeZone \in zones
    BY DEF LogInv, TypeOK
  <2> QED
    BY <2>1, <2>2, LogTimeInZone DEF LogInv
<1>2. CASE now = t_lastSecond[t]
  <2>1. TimeText(t) = t_time[t]
    BY <1>2 DEF TimeText
  <2> QED
    BY <1>2, <2>1 DEF LogInv, CacheOK, TAssert
<1> QED
  BY <1>1, <1>2

\* The clock moves on, and the texts that are kept are of earlier seconds.
LEMMA TickKeeps ==
    ASSUME LogInv, Tick
    PROVE  LogInv'
<1>1. PICK later \in Times : later > now /\ now' = later
  BY DEF Tick
<1>2. /\ zones' = {g_logTimeZone} /\ g_logTimeZone' = g_logTimeZone
      /\ t_lastSecond' = t_lastSecond /\ t_time' = t_time /\ logger' = logger
      /\ g_logLevel' = g_logLevel /\ program' = program
  BY DEF Tick
<1>3. now \in Nat /\ now' \in Times /\ now' \in Nat /\ now < now'
  BY <1>1, TimesAssumption DEF LogInv, TypeOK
<1>4. \A t \in Threads : t_lastSecond[t] \in Nat /\ t_lastSecond[t] <= now
  BY TimesAssumption DEF LogInv, TypeOK
<1>5. \A t \in Threads : t_lastSecond[t] <= now' /\ t_lastSecond[t] # now'
  BY <1>3, <1>4
<1>6. \A t \in Threads : logger[t].live => logger[t].time <= now'
  <2>1. \A t \in Threads : logger[t].live => logger[t].time \in Nat /\ logger[t].time <= now
    BY DEF LogInv, TypeOK, LoggersOK
  <2> QED
    BY <1>3, <2>1
<1>7. TypeOK'
  BY <1>2, <1>3, <1>5, <1>6 DEF LogInv, TypeOK
<1>8. Tables' /\ ShownInZone' /\ LoggersOK'
  BY <1>2 DEF LogInv, Tables, ShownInZone, LoggersOK
<1>9. CacheOK'
  BY <1>2, <1>5 DEF CacheOK
<1> QED
  BY <1>7, <1>8, <1>9 DEF LogInv

\* A statement begins: it is of the second, and so is the text.
LEMMA BeginKeeps ==
    ASSUME LogInv, NEW t \in Threads, NEW stmt \in Statements, Begin(t, stmt)
    PROVE  LogInv'
<1>1. UNCHANGED <<now, g_logLevel, g_logTimeZone, zones, sets>>
  BY DEF Begin
<1>2. now \in Nat /\ now \in Times
  BY TimesAssumption DEF LogInv, TypeOK
<1>3. CASE ~TAssert(TimeText(t)) /\ program' = "assert" /\ UNCHANGED <<t_lastSecond, t_time, logger>>
  <2>1. TypeOK'
    BY <1>1, <1>3 DEF LogInv, TypeOK
  <2>2. Tables' /\ ShownInZone' /\ LoggersOK' /\ CacheOK'
    BY <1>1, <1>3 DEF LogInv, Tables, ShownInZone, LoggersOK, CacheOK
  <2> QED
    BY <2>1, <2>2 DEF LogInv
<1>4. CASE TAssert(TimeText(t)) /\ formatTime(t) /\ program' = program
           /\ logger' = [logger EXCEPT ![t] =
                [live |-> TRUE, stmt |-> stmt, time |-> now, shown |-> TimeText(t),
                 zones |-> zones, zoned |-> g_logTimeZone.valid]]
  <2>1. PICK text : text = TimeText(t)
    OBVIOUS
  <2>2. PICK zone \in zones : Shows(text, zone, now)
    BY <1>4, <2>1, TextInZone
  <2>3. text # NoText
    BY <1>4, <2>1 DEF TAssert
  <2>4. /\ t_lastSecond' = [t_lastSecond EXCEPT ![t] = now]
        /\ t_time' = [t_time EXCEPT ![t] = text]
    BY <1>4, <2>1 DEF formatTime
  <2>5. PICK l : l = [live |-> TRUE, stmt |-> stmt, time |-> now, shown |-> text,
                      zones |-> zones, zoned |-> g_logTimeZone.valid]
    OBVIOUS
  <2>6. /\ l.live = TRUE /\ l.stmt = stmt /\ l.time = now /\ l.shown = text /\ l.zones = zones
        /\ l.zoned = g_logTimeZone.valid
    BY <2>5
  <2>7. logger' = [logger EXCEPT ![t] = l]
    BY <1>4, <2>1, <2>5
  <2>8. Tables
    BY DEF LogInv
  <2>9. /\ t_lastSecond'[t] = now /\ t_time'[t] = text /\ logger'[t] = l
        /\ \A u \in Threads \ {t} : /\ t_lastSecond'[u] = t_lastSecond[u]
                                    /\ t_time'[u] = t_time[u] /\ logger'[u] = logger[u]
    BY <2>4, <2>7, <2>8 DEF Tables
  <2>10. Tables'
    BY <2>4, <2>7, <2>8 DEF Tables
  <2>11. TypeOK'
    <3>1. ASSUME NEW u \in Threads
          PROVE  /\ t_lastSecond'[u] \in Times \cup {0} /\ t_lastSecond'[u] <= now'
                 /\ t_time'[u] = NoText => t_lastSecond'[u] = 0
                 /\ logger'[u].live => logger'[u].time <= now'
      <4>1. CASE u = t
        BY <1>1, <1>2, <2>3, <2>6, <2>9, <4>1
      <4>2. CASE u # t
        BY <1>1, <2>9, <4>2 DEF LogInv, TypeOK
      <4> QED
        BY <4>1, <4>2
    <3> QED
      BY <1>1, <1>4, <3>1 DEF LogInv, TypeOK
  <2>12. CacheOK'
    <3> SUFFICES ASSUME NEW u \in Threads, t_time'[u] # NoText, t_lastSecond'[u] = now'
                 PROVE  \E z \in zones' : Shows(t_time'[u], z, now')
      BY DEF CacheOK
    <3>1. CASE u = t
      BY <1>1, <2>2, <2>9, <3>1
    <3>2. CASE u # t
      BY <1>1, <2>9, <3>2 DEF LogInv, CacheOK
    <3> QED
      BY <3>1, <3>2
  <2>13. ShownInZone'
    <3> SUFFICES ASSUME NEW u \in Threads, logger'[u].live
                 PROVE  \E z \in logger'[u].zones :
                            Shows(logger'[u].shown, z, logger'[u].time)
      BY DEF ShownInZone
    <3>1. CASE u = t
      BY <2>2, <2>6, <2>9, <3>1
    <3>2. CASE u # t
      BY <2>9, <3>2 DEF LogInv, ShownInZone
    <3> QED
      BY <3>1, <3>2
  <2>14. LoggersOK'
    <3> SUFFICES ASSUME NEW u \in Threads, logger'[u].live
                 PROVE  logger'[u].stmt \in Statements /\ logger'[u].time \in Nat
                        /\ logger'[u].zoned \in BOOLEAN
      BY DEF LoggersOK
    <3>1. CASE u = t
      <4>1. g_logTimeZone.valid \in BOOLEAN
        BY LogZone DEF LogInv
      <4> QED
        BY <1>2, <2>6, <2>9, <3>1, <4>1
    <3>2. CASE u # t
      BY <2>9, <3>2 DEF LogInv, LoggersOK
    <3> QED
      BY <3>1, <3>2
  <2> QED
    BY <2>10, <2>11, <2>12, <2>13, <2>14 DEF LogInv
<1> QED
  BY <1>3, <1>4 DEF Begin

\* A statement ends, and leaves the texts as they are.
LEMMA EndKeeps ==
    ASSUME LogInv, NEW t \in Threads, End(t)
    PROVE  LogInv'
<1>1. UNCHANGED <<now, g_logLevel, g_logTimeZone, t_lastSecond, t_time, zones, sets>>
  BY DEF End
<1>2. program' \in {"runs", "aborted", "assert"}
  BY DEF End, LogInv, TypeOK
<1>3. Tables /\ logger' = [logger EXCEPT ![t] = NoLogger]
  BY DEF End, LogInv
<1>4. /\ DOMAIN logger' = Threads /\ ~logger'[t].live
      /\ \A u \in Threads \ {t} : logger'[u] = logger[u]
  BY <1>3 DEF Tables, NoLogger
<1>5. Tables'
  BY <1>1, <1>3, <1>4 DEF Tables
<1>6. CacheOK'
  BY <1>1 DEF LogInv, CacheOK
<1>7. \A u \in Threads : logger'[u].live => logger'[u] = logger[u] /\ logger[u].live
  BY <1>4
<1>8. TypeOK'
  BY <1>1, <1>2, <1>7 DEF LogInv, TypeOK
<1>9. ShownInZone' /\ LoggersOK'
  BY <1>7 DEF LogInv, ShownInZone, LoggersOK
<1> QED
  BY <1>5, <1>6, <1>8, <1>9 DEF LogInv

\* setLogLevel and setTimeZone: a zone more is in force in the second.
LEMMA SetsKeep ==
    ASSUME LogInv, \/ \E level \in Levels : SetLogLevel(level)
                   \/ \E zone \in Zones : SetTimeZone(zone)
    PROVE  LogInv'
<1>1. /\ UNCHANGED <<now, t_lastSecond, t_time, logger, program>>
      /\ g_logLevel' \in Levels
      /\ zones \subseteq zones' /\ g_logTimeZone' \in zones' /\ zones' \subseteq Zones \cup {NoZone}
  BY DEF SetLogLevel, SetTimeZone, LogInv, TypeOK
<1>2. TypeOK'
  BY <1>1 DEF LogInv, TypeOK
<1>3. Tables' /\ ShownInZone' /\ LoggersOK'
  BY <1>1 DEF LogInv, Tables, ShownInZone, LoggersOK
<1>4. CacheOK'
  BY <1>1 DEF LogInv, CacheOK
<1> QED
  BY <1>2, <1>3, <1>4 DEF LogInv

\* The types of the log, what its threads keep and what its lines show are kept by every
\* step of the program.
THEOREM LoggerInvariant == Spec => []LogInv
<1>1. Init => LogInv
  <2> SUFFICES ASSUME Init PROVE LogInv
    OBVIOUS
  <2>1. now \in Nat
    BY TimesAssumption DEF Init
  <2>2. \A t \in Threads : t_lastSecond[t] = 0 /\ t_time[t] = NoText /\ logger[t] = NoLogger
    BY DEF Init
  <2>3. \A t \in Threads : ~logger[t].live
    BY <2>2 DEF NoLogger
  <2>4. g_logLevel \in Levels
    BY DEF Init, Levels, TRACE, DEBUG, INFO, FATAL
  <2>5. TypeOK
    BY <2>1, <2>2, <2>3, <2>4 DEF Init, TypeOK
  <2>6. Tables
    BY DEF Init, Tables
  <2> QED
    BY <2>2, <2>3, <2>5, <2>6 DEF LogInv, CacheOK, ShownInZone, LoggersOK
<1>2. LogInv /\ [Next]_vars => LogInv'
  <2> SUFFICES ASSUME LogInv, [Next]_vars PROVE LogInv'
    OBVIOUS
  <2>1. CASE UNCHANGED vars
    BY <2>1 DEF vars, LogInv, TypeOK, Tables, CacheOK, ShownInZone, LoggersOK
  <2> QED
    BY <2>1, TickKeeps, BeginKeeps, EndKeeps, SetsKeep DEF Next
<1> QED
  BY <1>1, <1>2, PTL DEF Spec

\* formatTime and findLocaltime: for any zones, times and threads, a line shows the local
\* time of the second of its statement in a zone that was in force in that second.
THEOREM ShownInZoneHolds == Spec => []ShownInZone
<1>1. LogInv => ShownInZone
  BY DEF LogInv
<1> QED
  BY <1>1, LoggerInvariant, PTL

\* toLocalTime and fromLocalTime: in a zone whose offset falls back only from daylight
\* saving time, by an hour, any second comes back from its local time.
THEOREM LocalRoundTripHolds == Spec => []LocalRoundTrip
<1>1. LogInv => LocalRoundTrip
  <2> SUFFICES ASSUME LogInv, NEW zone \in Zones, zone.localtimes # <<>>,
                      OnlyDstFallsBack(zone)
               PROVE  fromLocalTime(zone, toLocalTime(zone, now)) = now
    BY DEF LocalRoundTrip
  <2>1. now \in Int
    BY TimesAssumption DEF LogInv, TypeOK
  <2> QED
    BY <2>1, ZonesOK, GoesAndComesBack
<1> QED
  BY <1>1, LoggerInvariant, PTL

-----------------------------------------------------------------------------
(* The calendar                                                            *)

\* The days before the March of year Y, counted from that of year 0.
MarchDays(Y) == 365 * Y + Y \div 4 - Y \div 100 + Y \div 400
LeapDay(y) == IF IsLeap(y) THEN 1 ELSE 0

\* The days of the year before month M, counted from March.
Before(M) == (153 * M + 2) \div 5

\* A year that ends with a leap day is a day longer.
LEMMA YearStep ==
    ASSUME NEW Y \in Int
    PROVE  MarchDays(Y + 1) = MarchDays(Y) + 365 + LeapDay(Y + 1) /\ MarchDays(Y) \in Int
<1> DEFINE Z == Y + 1
<1>1. Z \in Int /\ Y = Z - 1
  OBVIOUS
<1> HIDE DEF Z
<1>2. Z \div 4 - (Z - 1) \div 4 = IF Z % 4 = 0 THEN 1 ELSE 0
  BY <1>1
<1>3. Z \div 100 - (Z - 1) \div 100 = IF Z % 100 = 0 THEN 1 ELSE 0
  BY <1>1
<1>4. Z \div 400 - (Z - 1) \div 400 = IF Z % 400 = 0 THEN 1 ELSE 0
  BY <1>1
<1>5. (Z % 100 = 0 => Z % 4 = 0) /\ (Z % 400 = 0 => Z % 100 = 0)
  BY <1>1
<1>6. MarchDays(Z) = MarchDays(Z - 1) + 365 + LeapDay(Z)
  BY <1>1, <1>2, <1>3, <1>4, <1>5 DEF MarchDays, LeapDay, IsLeap
<1>7. MarchDays(Y) \in Int
  BY DEF MarchDays
<1> QED
  BY <1>1, <1>6, <1>7 DEF Z

\* The cycles of getYearMonthDay.
Century(a) == (4 * a + 3) \div 146097
DayOfCentury(a) == a - (Century(a) * 146097) \div 4
YearOfCentury(a) == (4 * DayOfCentury(a) + 3) \div 1461
DayOfYear(a) == DayOfCentury(a) - (1461 * YearOfCentury(a)) \div 4

\* They find the year and the day in it, the leap day too.
LEMMA Cycles ==
    ASSUME NEW Y \in Int, NEW e \in 0..365, e = 365 => IsLeap(Y + 1),
           NEW a, a = MarchDays(Y) + e
    PROVE  100 * Century(a) + YearOfCentury(a) = Y /\ DayOfYear(a) = e
<1>1. PICK b \in Int, d \in 0..99 : Y = 100 * b + d
  <2>1. Y \div 100 \in Int /\ Y % 100 \in 0..99 /\ Y = 100 * (Y \div 100) + (Y % 100)
    OBVIOUS
  <2> QED
    BY <2>1
<1>2. PICK q \in Int, r \in 0..3 : b = 4 * q + r
  <2>1. b \div 4 \in Int /\ b % 4 \in 0..3 /\ b = 4 * (b \div 4) + (b % 4)
    OBVIOUS
  <2> QED
    BY <2>1
<1>3. PICK h \in 0..24, u \in 0..3 : d = 4 * h + u
  <2>1. d \div 4 \in 0..24 /\ d % 4 \in 0..3 /\ d = 4 * (d \div 4) + (d % 4)
    OBVIOUS
  <2> QED
    BY <2>1
<1>4. Y = 400 * q + 100 * r + 4 * h + u
  BY <1>1, <1>2, <1>3
<1>5. Y \div 4 = 100 * q + 25 * r + h
  BY <1>4
<1>6. Y \div 100 = 4 * q + r
  BY <1>3, <1>4
<1>7. Y \div 400 = q
  BY <1>3, <1>4
<1>8. a = 146097 * q + 36524 * r + 1461 * h + 365 * u + e
  BY <1>4, <1>5, <1>6, <1>7 DEF MarchDays
<1> a \in Int
  BY <1>8
<1>9. e = 365 => u = 3 /\ (h = 24 => r = 3)
  <2> SUFFICES ASSUME e = 365 PROVE u = 3 /\ (h = 24 => r = 3)
    OBVIOUS
  <2>1. (Y + 1) % 4 = 0 /\ ((Y + 1) % 100 # 0 \/ (Y + 1) % 400 = 0)
    BY DEF IsLeap
  <2>2. u = 3
    BY <1>4, <2>1
  <2>3. h = 24 => (Y + 1) % 100 = 0
    BY <1>4, <2>2
  <2>4. h = 24 => (Y + 1) % 400 = 0
    BY <2>1, <2>3
  <2>5. h = 24 => r = 3
    BY <1>4, <2>2, <2>4
  <2> QED
    BY <2>2, <2>5
<1>10. Century(a) = 4 * q + r
  <2>1. PICK w \in Int : w = 3 - r + 5844 * h + 1460 * u + 4 * e
    OBVIOUS
  <2>2. 4 * a + 3 = 146097 * (4 * q + r) + w
    BY <1>8, <2>1
  <2>3. w >= 0 /\ w < 146097
    BY <1>9, <2>1
  <2> QED
    BY <2>2, <2>3 DEF Century
<1>11. DayOfCentury(a) = 1461 * h + 365 * u + e
  <2>1. (Century(a) * 146097) \div 4 = 146097 * q + 36524 * r
    BY <1>10
  <2> QED
    BY <1>8, <2>1 DEF DayOfCentury
<1>12. YearOfCentury(a) = 4 * h + u
  <2>1. 4 * DayOfCentury(a) + 3 = 1461 * (4 * h + u) + (3 - u + 4 * e)
    BY <1>11
  <2>2. 3 - u + 4 * e \in 0..1460
    BY <1>9
  <2> QED
    BY <2>1, <2>2, SMTT(30) DEF YearOfCentury
<1>13. DayOfYear(a) = e
  <2>1. (1461 * YearOfCentury(a)) \div 4 = 1461 * h + 365 * u
    BY <1>12
  <2> QED
    BY <1>11, <2>1 DEF DayOfYear
<1> QED
  BY <1>4, <1>10, <1>12, <1>13

\* The days of the months, counted from March.
LEMMA Months ==
    /\ Before(0) = 0 /\ Before(1) = 31 /\ Before(2) = 61 /\ Before(3) = 92
    /\ Before(4) = 122 /\ Before(5) = 153 /\ Before(6) = 184 /\ Before(7) = 214
    /\ Before(8) = 245 /\ Before(9) = 275 /\ Before(10) = 306 /\ Before(11) = 337
BY DEF Before

\* A place in a month, and in the year.
InMonth(M, x) == x >= 0 /\ x < IF M = 11 THEN 29 ELSE Before(M + 1) - Before(M)
MonthPlace(M, x, e) ==
    /\ (5 * e + 2) \div 153 = M /\ Before(M) \in Int /\ e \in 0..365
    /\ e = 365 => M = 11 /\ x = 28

\* The month and the day of a place in the year that begins in March.
LEMMA MonthFound ==
    ASSUME NEW M \in 0..11, NEW x \in Int, InMonth(M, x), NEW e, e = Before(M) + x
    PROVE  MonthPlace(M, x, e)
<1>1. M = 0 \/ M = 1 \/ M = 2 \/ M = 3 \/ M = 4 \/ M = 5
      \/ M = 6 \/ M = 7 \/ M = 8 \/ M = 9 \/ M = 10 \/ M = 11
  OBVIOUS
<1> QED
  BY <1>1 DEF Before, InMonth, MonthPlace

\* The number of a day, by the days since March and the years that begin in March.
CountsFromMarch(y, m, d) ==
    /\ m >= 3 => getJulianDayNumber(y, m, d)
                  = d + Before(m - 3) + MarchDays(y + 4800) - 32045
    /\ m < 3 => getJulianDayNumber(y, m, d)
                 = d + Before(m + 9) + MarchDays(y + 4799) - 32045

\* getJulianDayNumber, counted from March.
LEMMA FromMarch ==
    ASSUME NEW y \in Int, NEW m \in 1..12, NEW d \in Int
    PROVE  CountsFromMarch(y, m, d)
<1> USE DEF CountsFromMarch
<1>1. m >= 3 => (14 - m) \div 12 = 0
  OBVIOUS
<1>2. m < 3 => (14 - m) \div 12 = 1
  OBVIOUS
<1>3. CASE m >= 3
  <2>1. y + 4800 - 0 = y + 4800 /\ m + 12 * 0 - 3 = m - 3
    BY <1>3
  <2> QED
    BY <1>1, <1>3, <2>1 DEF getJulianDayNumber, Before, MarchDays
<1>4. CASE m < 3
  <2>1. y + 4800 - 1 = y + 4799 /\ m + 12 * 1 - 3 = m + 9
    BY <1>4
  <2> QED
    BY <1>2, <1>4, <2>1 DEF getJulianDayNumber, Before, MarchDays
<1> QED
  BY <1>3, <1>4

Date(y, m, d) == [year |-> y, month |-> m, day |-> d]
IsDate(y, m, d) == y \in Int /\ m \in 1..12 /\ d \in 1..DaysIn(y, m)

\* getYearMonthDay is the inverse of getJulianDayNumber on the dates of the calendar.
LEMMA DateInverse ==
    ASSUME NEW y, NEW m, NEW d, IsDate(y, m, d)
    PROVE  /\ getYearMonthDay(getJulianDayNumber(y, m, d)) = Date(y, m, d)
           /\ getJulianDayNumber(y, m, d) \in Int
<1>1. y \in Int /\ m \in 1..12 /\ d \in Int /\ d >= 1 /\ d <= DaysIn(y, m)
  BY DEF IsDate, DaysIn
<1>2. PICK M \in 0..11, Y \in Int :
          IF m >= 3 THEN M = m - 3 /\ Y = y + 4800 ELSE M = m + 9 /\ Y = y + 4799
  BY <1>1
<1>3. PICK x \in Int : x = d - 1
  BY <1>1
<1>4. InMonth(M, x)
  <2>1. m = 1 \/ m = 2 \/ m = 3 \/ m = 4 \/ m = 5 \/ m = 6
        \/ m = 7 \/ m = 8 \/ m = 9 \/ m = 10 \/ m = 11 \/ m = 12
    BY <1>1
  <2> QED
    BY <1>1, <1>2, <1>3, <2>1 DEF DaysIn, Before, InMonth
<1>5. PICK e : e = Before(M) + x
  OBVIOUS
<1>6. e \in 0..365 /\ (5 * e + 2) \div 153 = M /\ Before(M) \in Int
      /\ (e = 365 => M = 11 /\ x = 28)
  <2>1. MonthPlace(M, x, e)
    BY <1>4, <1>5, MonthFound, Zenon
  <2> QED
    BY <2>1 DEF MonthPlace
<1>7. e = 365 => IsLeap(Y + 1)
  <2> SUFFICES ASSUME e = 365 PROVE IsLeap(Y + 1)
    OBVIOUS
  <2>1. m = 2 /\ d = 29 /\ Y + 1 = y + 4800
    BY <1>1, <1>2, <1>3, <1>6
  <2>2. IsLeap(y)
    BY <1>1, <2>1 DEF DaysIn
  <2>3. (y + 4800) % 4 = y % 4 /\ (y + 4800) % 100 = y % 100 /\ (y + 4800) % 400 = y % 400
    BY <1>1
  <2> QED
    BY <2>1, <2>2, <2>3 DEF IsLeap
<1>8. PICK j : j = getJulianDayNumber(y, m, d)
  OBVIOUS
<1>9. MarchDays(Y) \in Int
  BY YearStep
<1>10. j = d + Before(M) + MarchDays(Y) - 32045
  <2>1. /\ m >= 3 => j = d + Before(m - 3) + MarchDays(y + 4800) - 32045
        /\ m < 3 => j = d + Before(m + 9) + MarchDays(y + 4799) - 32045
    <3>1. CountsFromMarch(y, m, d)
      BY <1>1, FromMarch
    <3> QED
      BY <1>8, <3>1 DEF CountsFromMarch
  <2>2. CASE m >= 3
    BY <1>2, <2>1, <2>2
  <2>3. CASE m < 3
    BY <1>1, <1>2, <2>1, <2>3
  <2> QED
    BY <1>1, <2>2, <2>3
<1>11. PICK a : a = j + 32044
  OBVIOUS
<1>12. a = MarchDays(Y) + e /\ j \in Int
  BY <1>1, <1>3, <1>5, <1>6, <1>9, <1>10, <1>11
<1>13. 100 * Century(a) + YearOfCentury(a) = Y /\ DayOfYear(a) = e
  BY <1>6, <1>7, <1>12, Cycles, SMTT(30)
<1> DEFINE cy == Century(a) * 100 + YearOfCentury(a)
           mo == (5 * DayOfYear(a) + 2) \div 153
           yy == cy - 4800 + mo \div 10
           mm == mo + 3 - 12 * (mo \div 10)
           dd == DayOfYear(a) - Before(mo) + 1
<1>14. getYearMonthDay(j) = [year |-> yy, month |-> mm, day |-> dd]
  BY <1>11 DEF getYearMonthDay, Century, DayOfCentury, YearOfCentury, DayOfYear, Before
<1>15. cy = Y /\ mo = M
  <2>1. a \in Int
    BY <1>6, <1>9, <1>12
  <2>2. Century(a) \in Int
    BY <2>1 DEF Century
  <2> QED
    BY <1>6, <1>13, <2>2
<1> HIDE DEF cy, mo
<1>16. yy = y /\ mm = m
  BY <1>1, <1>2, <1>15
<1>17. dd = d
  BY <1>1, <1>3, <1>5, <1>6, <1>13, <1>15
<1> HIDE DEF yy, mm, dd
<1> QED
  BY <1>8, <1>12, <1>14, <1>16, <1>17 DEF Date

FirstDay(y) == getJulianDayNumber(y, 1, 1)

\* The years of getJulianDayNumber are as long as those of the calendar.
LEMMA YearLength ==
    ASSUME NEW y \in Int
    PROVE  /\ FirstDay(y) \in Int /\ LeapDay(y) \in {0, 1}
           /\ FirstDay(y) = MarchDays(y + 4799) - 31738
           /\ FirstDay(y + 1) = FirstDay(y) + 365 + LeapDay(y)
           /\ MarchDays(y + 4800) = MarchDays(y + 4799) + 365 + LeapDay(y)
<1>1. Before(10) = 306
  BY Months
<1>2. \A z \in Int : FirstDay(z) = MarchDays(z + 4799) - 31738
  <2> SUFFICES ASSUME NEW z \in Int PROVE FirstDay(z) = MarchDays(z + 4799) - 31738
    OBVIOUS
  <2>1. FirstDay(z) = 1 + Before(1 + 9) + MarchDays(z + 4799) - 32045
    BY FromMarch DEF FirstDay, CountsFromMarch
  <2>2. 1 + 9 = 10 /\ z + 4799 \in Int
    OBVIOUS
  <2>3. MarchDays(z + 4799) \in Int
    BY <2>2, YearStep
  <2> QED
    BY <1>1, <2>1, <2>2, <2>3
<1>3. PICK Y \in Int : Y = y + 4799
  OBVIOUS
<1>4. Y + 1 = y + 4800 /\ y + 1 + 4799 = Y + 1 /\ y + 1 \in Int
  BY <1>3
<1>5. MarchDays(Y + 1) = MarchDays(Y) + 365 + LeapDay(Y + 1) /\ MarchDays(Y) \in Int
  BY YearStep
<1>6. LeapDay(Y + 1) = LeapDay(y)
  <2>1. (y + 4800) % 4 = y % 4 /\ (y + 4800) % 100 = y % 100 /\ (y + 4800) % 400 = y % 400
    OBVIOUS
  <2> QED
    BY <1>4, <2>1 DEF LeapDay, IsLeap
<1>7. LeapDay(y) \in {0, 1}
  BY DEF LeapDay
<1>8. FirstDay(y) = MarchDays(Y) - 31738 /\ FirstDay(y + 1) = MarchDays(Y + 1) - 31738
  BY <1>2, <1>3, <1>4
<1> QED
  BY <1>3, <1>4, <1>5, <1>6, <1>7, <1>8

\* The days of a year before each of its months, if it is not a leap year.
BeforeMonth == <<0, 31, 59, 90, 120, 151, 181, 212, 243, 273, 304, 334>>
InYear(y, m) == BeforeMonth[m] + IF m > 2 THEN LeapDay(y) ELSE 0

\* getJulianDayNumber counts the days of a year as the calendar does.
LEMMA DayOfDate ==
    ASSUME NEW y \in Int, NEW m \in 1..12, NEW d \in Int
    PROVE  getJulianDayNumber(y, m, d) = FirstDay(y) + InYear(y, m) + d - 1
<1>1. /\ m >= 3 => getJulianDayNumber(y, m, d)
                        = d + Before(m - 3) + MarchDays(y + 4800) - 32045
      /\ m < 3 => getJulianDayNumber(y, m, d)
                        = d + Before(m + 9) + MarchDays(y + 4799) - 32045
  <2>1. CountsFromMarch(y, m, d)
    BY FromMarch
  <2> QED
    BY <2>1 DEF CountsFromMarch
<1>2. /\ FirstDay(y) \in Int /\ LeapDay(y) \in {0, 1}
      /\ FirstDay(y) = MarchDays(y + 4799) - 31738
      /\ MarchDays(y + 4800) = MarchDays(y + 4799) + 365 + LeapDay(y)
  BY YearLength
<1>3. MarchDays(y + 4799) \in Int /\ MarchDays(y + 4800) \in Int
  <2>1. y + 4799 \in Int /\ y + 4800 \in Int
    OBVIOUS
  <2> QED
    BY <2>1, YearStep
<1>4. m >= 3 => Before(m - 3) = BeforeMonth[m] - 59
  <2>1. m = 1 \/ m = 2 \/ m = 3 \/ m = 4 \/ m = 5 \/ m = 6
        \/ m = 7 \/ m = 8 \/ m = 9 \/ m = 10 \/ m = 11 \/ m = 12
    OBVIOUS
  <2> QED
    BY <2>1 DEF BeforeMonth, Before
<1>5. m < 3 => Before(m + 9) = BeforeMonth[m] + 306
  <2>1. m = 1 \/ m = 2 \/ m >= 3
    OBVIOUS
  <2> QED
    BY <2>1 DEF BeforeMonth, Before
<1>6. BeforeMonth[m] \in Int
  BY DEF BeforeMonth
<1>7. CASE m >= 3
  BY <1>1, <1>2, <1>3, <1>4, <1>6, <1>7 DEF InYear
<1>8. CASE m < 3
  BY <1>1, <1>2, <1>3, <1>5, <1>6, <1>8 DEF InYear
<1> QED
  BY <1>7, <1>8

\* Every day of a year is a date.
LEMMA DateOfDay ==
    ASSUME NEW y \in Int, NEW yday \in 0..(364 + LeapDay(y))
    PROVE  \E m \in 1..12, d \in Int : IsDate(y, m, d) /\ InYear(y, m) + d - 1 = yday
<1>1. LeapDay(y) \in {0, 1} /\ yday \in Int /\ yday >= 0 /\ yday <= 364 + LeapDay(y)
  BY DEF LeapDay
<1>2. PICK m \in 1..12 : InYear(y, m) <= yday /\ yday - InYear(y, m) < DaysIn(y, m)
  <2>2. /\ InYear(y, 1) = 0 /\ InYear(y, 2) = 31 /\ InYear(y, 3) = 59 + LeapDay(y)
        /\ InYear(y, 4) = 90 + LeapDay(y) /\ InYear(y, 5) = 120 + LeapDay(y)
        /\ InYear(y, 6) = 151 + LeapDay(y) /\ InYear(y, 7) = 181 + LeapDay(y)
        /\ InYear(y, 8) = 212 + LeapDay(y) /\ InYear(y, 9) = 243 + LeapDay(y)
        /\ InYear(y, 10) = 273 + LeapDay(y) /\ InYear(y, 11) = 304 + LeapDay(y)
        /\ InYear(y, 12) = 334 + LeapDay(y)
    BY <1>1 DEF InYear, BeforeMonth
  <2>3. /\ DaysIn(y, 1) = 31 /\ DaysIn(y, 2) = 28 + LeapDay(y) /\ DaysIn(y, 3) = 31
        /\ DaysIn(y, 4) = 30 /\ DaysIn(y, 5) = 31 /\ DaysIn(y, 6) = 30 /\ DaysIn(y, 7) = 31
        /\ DaysIn(y, 8) = 31 /\ DaysIn(y, 9) = 30 /\ DaysIn(y, 10) = 31
        /\ DaysIn(y, 11) = 30 /\ DaysIn(y, 12) = 31
    BY DEF DaysIn, LeapDay
  <2> QED
    BY <1>1, <2>2, <2>3
<1>3. InYear(y, m) \in Int /\ DaysIn(y, m) \in Int
  BY <1>1 DEF InYear, BeforeMonth, DaysIn
<1>4. PICK d \in Int : d = yday - InYear(y, m) + 1
  BY <1>1, <1>3
<1>5. d >= 1 /\ d <= DaysIn(y, m) /\ InYear(y, m) + d - 1 = yday
  BY <1>1, <1>2, <1>3, <1>4
<1>6. IsDate(y, m, d)
  BY <1>3, <1>5 DEF IsDate
<1> QED
  BY <1>5, <1>6

\* The second date is that of the next day, and has the next number.
IsNext(y, m, d, y2, m2, d2) ==
    /\ NextDay(Date(y, m, d)) = Date(y2, m2, d2) /\ IsDate(y2, m2, d2)
    /\ getJulianDayNumber(y2, m2, d2) = getJulianDayNumber(y, m, d) + 1

\* The day after a date has the next number, also where a month or a year ends.
LEMMA NextDate ==
    ASSUME NEW y, NEW m, NEW d, IsDate(y, m, d)
    PROVE  \E y2, m2, d2 : IsNext(y, m, d, y2, m2, d2)
<1>1. y \in Int /\ m \in 1..12 /\ d \in Int /\ d >= 1 /\ d <= DaysIn(y, m)
      /\ DaysIn(y, m) \in Int
  BY DEF IsDate, DaysIn
<1>2. /\ FirstDay(y) \in Int /\ LeapDay(y) \in {0, 1}
      /\ FirstDay(y + 1) = FirstDay(y) + 365 + LeapDay(y)
  BY <1>1, YearLength
<1>3. \A n \in 1..12 : InYear(y, n) \in Int
  BY <1>2 DEF InYear, BeforeMonth
<1>4. getJulianDayNumber(y, m, d) = FirstDay(y) + InYear(y, m) + d - 1
  BY <1>1, DayOfDate
<1>5. Date(y, m, d).year = y /\ Date(y, m, d).month = m /\ Date(y, m, d).day = d
  BY DEF Date
<1>6. CASE d < DaysIn(y, m)
  <2>1. PICK d2 \in Int : d2 = d + 1
    BY <1>1
  <2>2. getJulianDayNumber(y, m, d2) = FirstDay(y) + InYear(y, m) + d2 - 1
    BY <1>1, DayOfDate
  <2>3. getJulianDayNumber(y, m, d2) = getJulianDayNumber(y, m, d) + 1
    BY <1>1, <1>2, <1>3, <1>4, <2>1, <2>2
  <2>4. NextDay(Date(y, m, d)) = Date(y, m, d2)
    BY <1>5, <1>6, <2>1 DEF NextDay, Date
  <2>5. IsDate(y, m, d2)
    BY <1>1, <1>6, <2>1 DEF IsDate
  <2>6. IsNext(y, m, d, y, m, d2)
    BY <2>3, <2>4, <2>5 DEF IsNext
  <2> QED
    BY <2>6
<1>7. CASE ~(d < DaysIn(y, m)) /\ m < 12
  <2>1. PICK m2 \in 1..12 : m2 = m + 1
    BY <1>1, <1>7
  <2>2. InYear(y, m2) = InYear(y, m) + DaysIn(y, m)
    <3>1. m = 1 \/ m = 2 \/ m = 3 \/ m = 4 \/ m = 5 \/ m = 6
          \/ m = 7 \/ m = 8 \/ m = 9 \/ m = 10 \/ m = 11
      BY <1>1, <1>7
    <3> QED
      BY <2>1, <3>1 DEF InYear, BeforeMonth, DaysIn, LeapDay
  <2>3. getJulianDayNumber(y, m2, 1) = FirstDay(y) + InYear(y, m2) + 1 - 1
    BY <1>1, DayOfDate
  <2>4. getJulianDayNumber(y, m2, 1) = getJulianDayNumber(y, m, d) + 1
    BY <1>1, <1>2, <1>3, <1>4, <1>7, <2>2, <2>3, SMTT(30)
  <2>5. NextDay(Date(y, m, d)) = Date(y, m2, 1)
    BY <1>5, <1>7, <2>1 DEF NextDay, Date
  <2>6. IsDate(y, m2, 1)
    BY <1>1, <2>1 DEF IsDate, DaysIn
  <2>7. IsNext(y, m, d, y, m2, 1)
    BY <2>4, <2>5, <2>6 DEF IsNext
  <2> QED
    BY <2>7
<1>8. CASE ~(d < DaysIn(y, m)) /\ ~(m < 12)
  <2>1. m = 12 /\ d = 31
    <3>1. m = 12
      BY <1>1, <1>8
    <3> QED
      BY <1>1, <1>8, <3>1 DEF DaysIn
  <2>2. PICK y2 \in Int : y2 = y + 1
    BY <1>1
  <2>3. InYear(y, m) = 334 + LeapDay(y)
    BY <1>2, <2>1 DEF InYear, BeforeMonth
  <2>4. getJulianDayNumber(y2, 1, 1) = getJulianDayNumber(y, m, d) + 1
    BY <1>1, <1>2, <1>4, <2>1, <2>2, <2>3 DEF FirstDay
  <2>5. NextDay(Date(y, m, d)) = Date(y2, 1, 1)
    BY <1>5, <1>8, <2>2 DEF NextDay, Date
  <2>6. IsDate(y2, 1, 1)
    BY DEF IsDate, DaysIn
  <2>7. IsNext(y, m, d, y2, 1, 1)
    BY <2>4, <2>5, <2>6 DEF IsNext
  <2> QED
    BY <2>7
<1> QED
  BY <1>6, <1>7, <1>8

\* The leap years between two years can be counted.
LEMMA LeapYearsFinite ==
    ASSUME NEW x \in Int, NEW y \in Int
    PROVE  /\ IsFiniteSet({k \in x..y : IsLeap(k)})
           /\ Cardinality({k \in x..y : IsLeap(k)}) \in Nat
<1>1. IsFiniteSet(x..y)
  BY FS_Interval
<1>2. IsFiniteSet({k \in x..y : IsLeap(k)})
  BY <1>1, FS_Subset
<1> QED
  BY <1>2, FS_CardinalityType

\* The days before a year and before the next.
LEMMA YearsStep ==
    ASSUME NEW y \in Int
    PROVE  DaysBeforeYear(y + 1) = DaysBeforeYear(y) + 365 + LeapDay(y) /\ DaysBeforeYear(y) \in Int
<1> DEFINE After(z) == {k \in 1970..z - 1 : IsLeap(k)}
           Until(z) == {k \in z..1969 : IsLeap(k)}
<1>1. \A z \in Int : /\ IsFiniteSet(After(z)) /\ Cardinality(After(z)) \in Nat
                     /\ IsFiniteSet(Until(z)) /\ Cardinality(Until(z)) \in Nat
  <2> SUFFICES ASSUME NEW z \in Int
               PROVE  /\ IsFiniteSet(After(z)) /\ Cardinality(After(z)) \in Nat
                      /\ IsFiniteSet(Until(z)) /\ Cardinality(Until(z)) \in Nat
    BY SMTT(30)
  <2>1. z - 1 \in Int /\ 1970 \in Int /\ 1969 \in Int
    OBVIOUS
  <2> QED
    BY <2>1, LeapYearsFinite
<1>2. \A z \in Int : DaysBeforeYear(z) = 365 * (z - 1970) + Cardinality(After(z)) - Cardinality(Until(z))
  BY DEF DaysBeforeYear
<1>3. PICK z \in Int : z = y + 1
  OBVIOUS
<1> DEFINE Ay == Cardinality(After(y))
           Az == Cardinality(After(z))
           Uy == Cardinality(Until(y))
           Uz == Cardinality(Until(z))
           leap == LeapDay(y)
<1>4. /\ DaysBeforeYear(y) = 365 * (y - 1970) + Ay - Uy
      /\ DaysBeforeYear(z) = 365 * (z - 1970) + Az - Uz
  BY <1>2
<1>5. Ay \in Nat /\ Az \in Nat /\ Uy \in Nat /\ Uz \in Nat
  <2> HIDE DEF After, Until
  <2> QED
    BY <1>1
<1>6. leap \in {0, 1}
  BY DEF LeapDay
<1>7. CASE y >= 1970
  <2>1. Until(y) = {} /\ Until(z) = {}
    BY <1>3, <1>7
  <2>2. After(z) = IF IsLeap(y) THEN After(y) \cup {y} ELSE After(y)
    BY <1>3, <1>7
  <2>3. y \notin After(y)
    OBVIOUS
  <2> HIDE DEF After, Until
  <2>4. Cardinality(After(y) \cup {y}) = Cardinality(After(y)) + 1
    BY <1>1, <2>3, FS_AddElement
  <2>5. Cardinality(After(z)) = Cardinality(After(y)) + LeapDay(y)
    BY <1>1, <2>2, <2>4 DEF LeapDay
  <2>6. Az = Ay + leap /\ Uz = Uy
    BY <2>1, <2>5
  <2> HIDE DEF Ay, Az, Uy, Uz, leap
  <2>7. DaysBeforeYear(z) = DaysBeforeYear(y) + 365 + leap /\ DaysBeforeYear(y) \in Int
    BY <1>3, <1>4, <1>5, <1>6, <2>6
  <2> QED
    BY <1>3, <2>7 DEF leap
<1>8. CASE y < 1970
  <2>1. After(y) = {} /\ After(z) = {}
    BY <1>3, <1>8
  <2>2. Until(y) = IF IsLeap(y) THEN Until(z) \cup {y} ELSE Until(z)
    BY <1>3, <1>8
  <2>3. y \notin Until(z)
    BY <1>3
  <2> HIDE DEF After, Until
  <2>4. Cardinality(Until(z) \cup {y}) = Cardinality(Until(z)) + 1
    BY <1>1, <2>3, FS_AddElement
  <2>5. Cardinality(Until(y)) = Cardinality(Until(z)) + LeapDay(y)
    BY <1>1, <2>2, <2>4 DEF LeapDay
  <2>6. Uy = Uz + leap /\ Az = Ay
    BY <2>1, <2>5
  <2> HIDE DEF Ay, Az, Uy, Uz, leap
  <2>7. DaysBeforeYear(z) = DaysBeforeYear(y) + 365 + leap /\ DaysBeforeYear(y) \in Int
    BY <1>3, <1>4, <1>5, <1>6, <2>6
  <2> QED
    BY <1>3, <2>7 DEF leap
<1> QED
  BY <1>7, <1>8

\* The first days of the years are where the calendar has them, before 1970 too.
LEMMA YearsCounted ==
    ASSUME NEW y \in Int
    PROVE  DaysBeforeYear(y) = FirstDay(y) - kJulianDayOf1970_01_01
<1> DEFINE K == kJulianDayOf1970_01_01
           Good(z) == DaysBeforeYear(z) = FirstDay(z) - K
           Up == {n \in Nat : Good(1970 + n)}
           Down == {n \in Nat : Good(1970 - n)}
<1>1. K = FirstDay(1970) /\ K \in Int
  BY YearLength DEF kJulianDayOf1970_01_01, FirstDay
<1>2. DaysBeforeYear(1970) = 0
  <2>1. {k \in 1970..1970 - 1 : IsLeap(k)} = {} /\ {k \in 1970..1969 : IsLeap(k)} = {}
    OBVIOUS
  <2>2. Cardinality({}) = 0
    BY FS_EmptySet
  <2> QED
    BY <2>1, <2>2 DEF DaysBeforeYear
<1> HIDE DEF K
<1>3. Good(1970)
  BY <1>1, <1>2
<1>4. \A z \in Int : Good(z) <=> Good(z + 1)
  <2> SUFFICES ASSUME NEW z \in Int PROVE Good(z) <=> Good(z + 1)
    OBVIOUS
  <2>1. /\ FirstDay(z) \in Int /\ LeapDay(z) \in {0, 1}
        /\ FirstDay(z + 1) = FirstDay(z) + 365 + LeapDay(z)
    BY YearLength
  <2>2. DaysBeforeYear(z + 1) = DaysBeforeYear(z) + 365 + LeapDay(z) /\ DaysBeforeYear(z) \in Int
    BY YearsStep
  <2> QED
    BY <1>1, <2>1, <2>2
<1> HIDE DEF Good
<1>5. \A n \in Nat : n \in Up
  <2>1. 0 \in Up
    BY <1>3
  <2>2. ASSUME NEW n \in Nat, n \in Up PROVE n + 1 \in Up
    <3>1. 1970 + n \in Int /\ 1970 + n + 1 = 1970 + (n + 1)
      OBVIOUS
    <3> QED
      BY <1>4, <2>2, <3>1
  <2> HIDE DEF Up
  <2> QED
    BY <2>1, <2>2, Induction
<1>6. \A n \in Nat : n \in Down
  <2>1. 0 \in Down
    BY <1>3
  <2>2. ASSUME NEW n \in Nat, n \in Down PROVE n + 1 \in Down
    <3>1. 1970 - (n + 1) \in Int /\ 1970 - (n + 1) + 1 = 1970 - n
      OBVIOUS
    <3> QED
      BY <1>4, <2>2, <3>1
  <2> HIDE DEF Down
  <2> QED
    BY <2>1, <2>2, Induction
<1>7. CASE y >= 1970
  <2>1. y - 1970 \in Nat /\ 1970 + (y - 1970) = y
    BY <1>7
  <2>2. Good(y)
    BY <1>5, <2>1
  <2> QED
    BY <2>2 DEF Good, K
<1>8. CASE y < 1970
  <2>1. 1970 - y \in Nat /\ 1970 - (1970 - y) = y
    BY <1>8
  <2>2. Good(y)
    BY <1>6, <2>1
  <2> QED
    BY <2>2 DEF Good, K
<1> QED
  BY <1>7, <1>8

\* The seconds and the number of a day, and what toUtcTime makes of them.
InDay == {r \in Int : 0 <= r /\ r < kSecondsPerDay}
SecondOf(day, r, s) == s = 86400 * day + r
NumberOf(day, j) == j = day + kJulianDayOf1970_01_01
BrokenDown(s, j, r) ==
    toUtcTime(s) = [ymd |-> getYearMonthDay(j), hms |-> fillHMS(r), wday |-> weekDay(j),
                    yday |-> j - getJulianDayNumber(getYearMonthDay(j).year, 1, 1)]

\* toUtcTime: a second of a day, before 1970 too, is broken down into the day and the
\* time of day.
LEMMA UtcOfDay ==
    ASSUME NEW day \in Int, NEW r \in InDay, NEW s, SecondOf(day, r, s),
           NEW j, NumberOf(day, j)
    PROVE  BrokenDown(s, j, r)
<1>1. kSecondsPerDay = 86400
  BY SMTT(30) DEF kSecondsPerDay
<1>2. s \in Int /\ s = 86400 * day + r /\ r \in Int /\ 0 <= r /\ r <= 86399
  <2>1. r \in Int /\ 0 <= r /\ r <= 86399
    BY <1>1, SMTT(30) DEF InDay
  <2>2. s = 86400 * day + r
    BY DEF SecondOf
  <2> QED
    BY <2>1, <2>2, SMTT(30)
<1> DEFINE days == Quot(s, 86400)
           seconds == Rem(s, 86400)
           d2 == IF seconds < 0 THEN days - 1 ELSE days
           s2 == IF seconds < 0 THEN seconds + 86400 ELSE seconds
<1>3. d2 = day /\ s2 = r
  <2>1. CASE s >= 0
    <3>1. s \div 86400 = day
      BY <1>2, SMTT(30)
    <3>2. days = day
      BY <1>2, <2>1, <3>1, SMTT(30) DEF Quot
    <3> HIDE DEF days
    <3>3. seconds = r
      BY <1>2, <3>2, SMTT(30) DEF Rem, days
    <3> HIDE DEF seconds
    <3> QED
      BY <1>2, <3>2, <3>3, SMTT(30)
  <2>2. CASE ~(s >= 0) /\ r = 0
    <3>1. (-s) \div 86400 = -day
      BY <1>2, <2>2, SMTT(30)
    <3>2. days = day
      BY <1>2, <2>2, <3>1, SMTT(30) DEF Quot
    <3> HIDE DEF days
    <3>3. seconds = r
      BY <1>2, <3>2, SMTT(30) DEF Rem, days
    <3> HIDE DEF seconds
    <3> QED
      BY <1>2, <3>2, <3>3, SMTT(30)
  <2>3. CASE ~(s >= 0) /\ r # 0
    <3>1. (-s) \div 86400 = -day - 1
      BY <1>2, <2>3, SMTT(30)
    <3>2. days = day + 1
      BY <1>2, <2>3, <3>1, SMTT(30) DEF Quot
    <3> HIDE DEF days
    <3>3. seconds = r - 86400
      BY <1>2, <3>2, SMTT(30) DEF Rem, days
    <3> HIDE DEF seconds
    <3> QED
      BY <1>2, <3>2, <3>3, SMTT(30)
  <2> QED
    BY <2>1, <2>2, <2>3, SMTT(30)
<1> DEFINE jj == d2 + kJulianDayOf1970_01_01
<1>4. toUtcTime(s) = [ymd |-> getYearMonthDay(jj), hms |-> fillHMS(s2), wday |-> weekDay(jj),
                      yday |-> jj - getJulianDayNumber(getYearMonthDay(jj).year, 1, 1)]
  BY <1>1, SMTT(30) DEF toUtcTime
<1> HIDE DEF d2, s2
<1>5. jj = j
  BY <1>3 DEF NumberOf
<1> HIDE DEF jj
<1> QED
  BY <1>3, <1>4, <1>5 DEF BrokenDown

\* What CalendarAgrees says of a day of a year.
AgreesOn(y, yday) ==
    LET day == DaysBeforeYear(y) + yday
        first == toUtcTime(day * kSecondsPerDay)
        last == toUtcTime((day + 1) * kSecondsPerDay - 1)
        next == toUtcTime((day + 1) * kSecondsPerDay)
    IN /\ first.ymd.year = y /\ first.yday = yday /\ first.wday = (day + 4) % 7
       /\ yday = 0 => first.ymd = [year |-> y, month |-> 1, day |-> 1]
       /\ next.ymd = NextDay(first.ymd)
       /\ first.hms = [hour |-> 0, min |-> 0, sec |-> 0]
       /\ last = [first EXCEPT !.hms = [hour |-> 23, min |-> 59, sec |-> 59]]
       /\ fromUtcTime(first) = day * kSecondsPerDay
       /\ fromUtcTime(last) = (day + 1) * kSecondsPerDay - 1

\* toUtcTime, fromUtcTime and Date: on every day of every year, they agree with the
\* calendar.
LEMMA EveryDayAgrees ==
    ASSUME NEW y \in Int, NEW yday \in 0..(364 + LeapDay(y))
    PROVE  AgreesOn(y, yday)
<1>1. PICK m \in 1..12, d \in Int : IsDate(y, m, d) /\ InYear(y, m) + d - 1 = yday
  BY DateOfDay
<1>2. FirstDay(y) \in Int /\ LeapDay(y) \in {0, 1}
  BY YearLength
<1>3. yday \in Int /\ InYear(y, m) \in Int
  BY <1>2 DEF InYear, BeforeMonth
<1>4. PICK K : K = kJulianDayOf1970_01_01
  OBVIOUS
<1>5. K = 2440588
  BY <1>4 DEF kJulianDayOf1970_01_01, getJulianDayNumber
<1>6. PICK day : day = DaysBeforeYear(y) + yday
  OBVIOUS
<1>7. day = FirstDay(y) - K + yday /\ day \in Int
  BY <1>2, <1>3, <1>4, <1>5, <1>6, YearsCounted
<1>8. PICK j : j = getJulianDayNumber(y, m, d)
  OBVIOUS
<1>9. j = FirstDay(y) + InYear(y, m) + d - 1
  BY <1>8, DayOfDate
<1>10. j = day + K /\ j \in Int /\ j - FirstDay(y) = yday
  BY <1>1, <1>2, <1>3, <1>5, <1>7, <1>9
<1>11. getYearMonthDay(j) = Date(y, m, d)
  BY <1>1, <1>8, DateInverse
<1>12. PICK y2, m2, d2 : IsNext(y, m, d, y2, m2, d2)
  BY <1>1, NextDate
<1>13. getYearMonthDay(j + 1) = Date(y2, m2, d2) /\ NextDay(Date(y, m, d)) = Date(y2, m2, d2)
  <2>1. IsDate(y2, m2, d2) /\ getJulianDayNumber(y2, m2, d2) = j + 1
        /\ NextDay(Date(y, m, d)) = Date(y2, m2, d2)
    BY <1>8, <1>12 DEF IsNext
  <2> QED
    BY <2>1, DateInverse
<1>14. PICK s1, s2, s3 : /\ s1 = day * kSecondsPerDay
                         /\ s2 = (day + 1) * kSecondsPerDay - 1
                         /\ s3 = (day + 1) * kSecondsPerDay
  OBVIOUS
<1>15. PICK j2 : j2 = j + 1
  OBVIOUS
<1>16. PICK r1 \in InDay, r2 \in InDay, day2 \in Int :
           r1 = 0 /\ r2 = 86399 /\ day2 = day + 1
  <2>1. 0 \in InDay /\ 86399 \in InDay /\ day + 1 \in Int
    BY <1>7, SMTT(30) DEF InDay, kSecondsPerDay
  <2> QED
    BY <2>1
<1>17. SecondOf(day, r1, s1) /\ SecondOf(day, r2, s2) /\ SecondOf(day2, r1, s3)
  BY <1>7, <1>14, <1>16 DEF kSecondsPerDay, SecondOf
<1>18. NumberOf(day, j) /\ NumberOf(day2, j2)
  BY <1>4, <1>5, <1>7, <1>10, <1>15, <1>16 DEF NumberOf
<1>19. BrokenDown(s1, j, r1) /\ BrokenDown(s2, j, r2) /\ BrokenDown(s3, j2, r1)
  BY <1>7, <1>17, <1>18, UtcOfDay, Zenon
<1>20. PICK first, last, next : first = toUtcTime(s1) /\ last = toUtcTime(s2) /\ next = toUtcTime(s3)
  OBVIOUS
<1>21. Date(y, m, d).year = y /\ Date(y, m, d).month = m /\ Date(y, m, d).day = d
  BY DEF Date
<1>22. first = [ymd |-> Date(y, m, d), hms |-> fillHMS(0), wday |-> weekDay(j), yday |-> yday]
  <2>1. first = [ymd |-> getYearMonthDay(j), hms |-> fillHMS(0), wday |-> weekDay(j),
                 yday |-> j - getJulianDayNumber(getYearMonthDay(j).year, 1, 1)]
    BY <1>16, <1>20, <1>19 DEF BrokenDown
  <2> QED
    BY <1>10, <1>11, <1>21, <2>1 DEF FirstDay
<1>23. last = [ymd |-> Date(y, m, d), hms |-> fillHMS(86399), wday |-> weekDay(j), yday |-> yday]
  <2>1. last = [ymd |-> getYearMonthDay(j), hms |-> fillHMS(86399), wday |-> weekDay(j),
                yday |-> j - getJulianDayNumber(getYearMonthDay(j).year, 1, 1)]
    BY <1>16, <1>20, <1>19 DEF BrokenDown
  <2> QED
    BY <1>10, <1>11, <1>21, <2>1 DEF FirstDay
<1>24. next.ymd = Date(y2, m2, d2)
  <2>1. next.ymd = getYearMonthDay(j2)
    BY <1>20, <1>19 DEF BrokenDown
  <2> QED
    BY <1>13, <1>15, <2>1
<1>25. fillHMS(0) = [hour |-> 0, min |-> 0, sec |-> 0]
  BY DEF fillHMS
<1>26. fillHMS(86399) = [hour |-> 23, min |-> 59, sec |-> 59]
  BY DEF fillHMS
<1>27. first.ymd = Date(y, m, d) /\ first.yday = yday /\ first.wday = weekDay(j)
       /\ first.hms = [hour |-> 0, min |-> 0, sec |-> 0]
  BY <1>22, <1>25
<1>28. last.ymd = Date(y, m, d) /\ last.hms = [hour |-> 23, min |-> 59, sec |-> 59]
  BY <1>23, <1>26
<1>29. last = [first EXCEPT !.hms = [hour |-> 23, min |-> 59, sec |-> 59]]
  BY <1>22, <1>23, <1>26
<1>30. weekDay(j) = (day + 4) % 7
  BY <1>5, <1>7, <1>10 DEF weekDay
<1>31. yday = 0 => Date(y, m, d) = [year |-> y, month |-> 1, day |-> 1]
  <2> SUFFICES ASSUME yday = 0 PROVE m = 1 /\ d = 1
    BY DEF Date
  <2>1. d >= 1 /\ InYear(y, m) >= 0 /\ (m # 1 => InYear(y, m) > 0)
    BY <1>1, <1>2 DEF IsDate, DaysIn, InYear, BeforeMonth
  <2> QED
    BY <1>1, <1>3, <2>1
<1>32. fromUtcTime(first) = s1
  <2>1. fromUtcTime(first) = (j - K) * kSecondsPerDay + 0 * 3600 + 0 * 60 + 0
    BY <1>4, <1>8, <1>21, <1>27 DEF fromUtcTime
  <2> QED
    BY <1>5, <1>7, <1>10, <1>14, <2>1 DEF kSecondsPerDay
<1>33. fromUtcTime(last) = s2
  <2>1. fromUtcTime(last) = (j - K) * kSecondsPerDay + 23 * 3600 + 59 * 60 + 59
    BY <1>4, <1>8, <1>21, <1>28 DEF fromUtcTime
  <2> QED
    BY <1>5, <1>7, <1>10, <1>14, <2>1 DEF kSecondsPerDay
<1>34. /\ first.ymd.year = y /\ first.yday = yday /\ first.wday = (day + 4) % 7
       /\ yday = 0 => first.ymd = [year |-> y, month |-> 1, day |-> 1]
       /\ next.ymd = NextDay(first.ymd)
       /\ first.hms = [hour |-> 0, min |-> 0, sec |-> 0]
       /\ last = [first EXCEPT !.hms = [hour |-> 23, min |-> 59, sec |-> 59]]
       /\ fromUtcTime(first) = s1
       /\ fromUtcTime(last) = s2
  BY <1>13, <1>21, <1>24, <1>27, <1>29, <1>30, <1>31, <1>32, <1>33
<1> QED
  BY <1>6, <1>14, <1>20, <1>34 DEF AgreesOn

\* toUtcTime, fromUtcTime and Date: for any years, before 1970 too, the conversions count
\* the days as the calendar does and are inverses of each other.
THEOREM CalendarAgreesHolds == Spec => []CalendarAgrees
<1>1. CalendarAgrees
  <2> SUFFICES ASSUME NEW y \in Years, NEW yday \in 0..(IF IsLeap(y) THEN 365 ELSE 364)
               PROVE  AgreesOn(y, yday)
    BY Zenon DEF CalendarAgrees, AgreesOn
  <2>1. y \in Int
    BY YearsAssumption
  <2>2. yday \in 0..(364 + LeapDay(y))
    BY DEF LeapDay
  <2> QED
    BY <2>1, <2>2, EveryDayAgrees
<1> QED
  BY <1>1, PTL

-----------------------------------------------------------------------------
(* Numbers                                                                 *)

\* The values of a recursion from x up to N, by the step g.
Recurs(N, S, g, x, h) ==
    h \in [0..N -> S] /\ h[0] = x /\ \A n \in 1..N : h[n] = g[<<n, h[n - 1]>>]

\* A recursion up to N, whose step depends on where it is, defines a function.
LEMMA RecursionExists ==
    ASSUME NEW S, NEW N \in Nat, NEW g \in [(1..N) \X S -> S], NEW x \in S
    PROVE  \E h : Recurs(N, S, g, x, h)
<1> DEFINE Ns == {n \in Nat : n <= N => \E h : Recurs(n, S, g, x, h)}
<1>1. 0 \in Ns
  <2>1. Recurs(0, S, g, x, [i \in 0..0 |-> x])
    BY DEF Recurs
  <2> QED
    BY <2>1
<1>2. ASSUME NEW n \in Nat, n \in Ns PROVE n + 1 \in Ns
  <2> SUFFICES ASSUME n + 1 <= N PROVE \E h : Recurs(n + 1, S, g, x, h)
    OBVIOUS
  <2>1. PICK h : Recurs(n, S, g, x, h)
    BY <1>2
  <2>2. h \in [0..n -> S] /\ h[0] = x /\ \A i \in 1..n : h[i] = g[<<i, h[i - 1]>>]
    BY <2>1 DEF Recurs
  <2>3. PICK m : m = n + 1
    OBVIOUS
  <2>4. PICK v : v = g[<<m, h[n]>>]
    OBVIOUS
  <2>5. v \in S
    <3>1. h[n] \in S /\ m \in 1..N
      BY <2>2, <2>3
    <3>2. <<m, h[n]>> \in (1..N) \X S
      BY <3>1
    <3> QED
      BY <2>4, <3>2
  <2>6. PICK k : k = [i \in 0..m |-> IF i = m THEN v ELSE h[i]]
    OBVIOUS
  <2>7. k \in [0..m -> S]
    <3>1. ASSUME NEW i \in 0..m PROVE (IF i = m THEN v ELSE h[i]) \in S
      <4>1. i = m \/ i \in 0..n
        BY <2>3
      <4> QED
        BY <2>2, <2>5, <4>1
    <3> QED
      BY <2>6, <3>1
  <2>8. k[0] = x
    BY <2>2, <2>3, <2>6
  <2>9. ASSUME NEW i \in 1..m PROVE k[i] = g[<<i, k[i - 1]>>]
    <3>1. CASE i = m
      <4>1. k[i] = v /\ i - 1 = n /\ n \in 0..m /\ n # m
        BY <2>3, <2>6, <3>1
      <4>2. k[n] = h[n]
        BY <2>6, <4>1
      <4> QED
        BY <2>4, <3>1, <4>1, <4>2
    <3>2. CASE i # m
      <4>1. i \in 1..n /\ i \in 0..m /\ i - 1 \in 0..m /\ i - 1 # m
        BY <2>3, <3>2
      <4>2. k[i] = h[i] /\ k[i - 1] = h[i - 1]
        BY <2>6, <3>2, <4>1
      <4> QED
        BY <2>2, <4>1, <4>2
    <3> QED
      BY <3>1, <3>2
  <2>10. Recurs(m, S, g, x, k)
    BY <2>7, <2>8, <2>9 DEF Recurs
  <2> QED
    BY <2>3, <2>10
<1> HIDE DEF Ns
<1>3. N \in Ns
  BY <1>1, <1>2, Induction
<1> QED
  BY <1>3 DEF Ns

\* left is what is left of i in each round.
IsLeft(left, i, base) ==
    left \in [Nat -> Int] /\ left[0] = i /\ \A n \in Nat : left[n + 1] = Quot(left[n], base)

\* What is left of a number in each round of the loop of convert.
LEMMA LeftIs ==
    ASSUME NEW i \in Int, NEW base \in {10, 16}
    PROVE  IsLeft(Left(i, base), i, base)
<1>1. PICK g : g = [x \in Int |-> Quot(x, base)]
  OBVIOUS
<1>2. \A x \in Int : Quot(x, base) \in Int
  <2>1. CASE base = 10
    BY <2>1 DEF Quot
  <2>2. CASE base = 16
    BY <2>2 DEF Quot
  <2> QED
    BY <2>1, <2>2
<1>3. g \in [Int -> Int]
  BY <1>1, <1>2
<1>4. PICK h \in [Nat -> Int] : h[0] = i /\ \A n \in Nat : h[n + 1] = g[h[n]]
  <2>1. Iterates(Int, g, i)
    BY <1>3, IterationExists
  <2> QED
    BY <2>1 DEF Iterates
<1>5. \A n \in Nat : h[n + 1] = Quot(h[n], base)
  BY <1>1, <1>4
<1>6. h = [n \in Nat |-> IF n = 0 THEN i ELSE Quot(h[n - 1], base)]
  <2>1. ASSUME NEW n \in Nat PROVE h[n] = IF n = 0 THEN i ELSE Quot(h[n - 1], base)
    <3>1. n # 0 => n - 1 \in Nat /\ n - 1 + 1 = n
      OBVIOUS
    <3> QED
      BY <1>4, <1>5, <3>1
  <2> QED
    BY <2>1
<1> DEFINE Eq(f) == f = [n \in Nat |-> IF n = 0 THEN i ELSE Quot(f[n - 1], base)]
<1>7. Left(i, base) = CHOOSE f : Eq(f)
  BY DEF Left
<1>8. Eq(h)
  BY <1>6
<1> HIDE DEF Eq
<1>9. PICK f : f = Left(i, base) /\ Eq(f)
  BY <1>7, <1>8
<1>10. f = [n \in Nat |-> IF n = 0 THEN i ELSE Quot(f[n - 1], base)]
  BY <1>9 DEF Eq
<1>11. f[0] = i
  BY <1>10
<1>12. ASSUME NEW n \in Nat PROVE f[n + 1] = Quot(f[n], base)
  <2>1. n + 1 \in Nat /\ n + 1 # 0 /\ n + 1 - 1 = n
    OBVIOUS
  <2> QED
    BY <1>10, <2>1
<1> DEFINE Is == {n \in Nat : f[n] \in Int}
<1>13. \A n \in Nat : n \in Is
  <2>1. 0 \in Is
    BY <1>11
  <2>2. ASSUME NEW n \in Nat, n \in Is PROVE n + 1 \in Is
    BY <1>2, <1>12, <2>2
  <2> HIDE DEF Is
  <2> QED
    BY <2>1, <2>2, Induction
<1>14. f \in [Nat -> Int]
  BY <1>10, <1>13
<1> QED
  BY <1>9, <1>11, <1>12, <1>14 DEF IsLeft

\* A number without its sign.
Mag(x) == IF x < 0 THEN -x ELSE x

\* A round of the loop: the table of convert takes the sign from the remainder.
LEMMA RoundOf10 ==
    ASSUME NEW x \in Int, NEW q, q = Quot(x, 10)
    PROVE  /\ q \in Int /\ zero(x - 10 * q) = Mag(x) - 10 * Mag(q)
           /\ Mag(x) - 10 * Mag(q) \in 0..9
<1>1. q \in Int
  BY DEF Quot
<1>2. PICK lsd : lsd = x - 10 * q
  OBVIOUS
<1>3. lsd \in -9..9 /\ (x >= 0 => lsd >= 0 /\ q >= 0) /\ (x < 0 => lsd <= 0 /\ q <= 0)
  <2>1. CASE x >= 0
    <3>1. q = x \div 10
      BY <2>1 DEF Quot
    <3> QED
      BY <1>2, <2>1, <3>1
  <2>2. CASE x < 0
    <3>1. q = -((-x) \div 10)
      BY <2>2 DEF Quot
    <3> QED
      BY <1>2, <2>2, <3>1
  <2> QED
    BY <2>1, <2>2
<1>4. zero(lsd) = Mag(lsd)
  <2>1. \/ lsd = -9 \/ lsd = -8 \/ lsd = -7 \/ lsd = -6 \/ lsd = -5 \/ lsd = -4 \/ lsd = -3
        \/ lsd = -2 \/ lsd = -1 \/ lsd = 0 \/ lsd = 1 \/ lsd = 2 \/ lsd = 3 \/ lsd = 4
        \/ lsd = 5 \/ lsd = 6 \/ lsd = 7 \/ lsd = 8 \/ lsd = 9
    BY <1>3
  <2> QED
    BY <2>1 DEF zero, digits, Mag
<1>5. Mag(lsd) = Mag(x) - 10 * Mag(q) /\ Mag(lsd) \in 0..9
  BY <1>1, <1>2, <1>3 DEF Mag
<1> QED
  BY <1>1, <1>2, <1>4, <1>5

\* A round of the loop of convertHex.
LEMMA RoundOf16 ==
    ASSUME NEW x \in Nat, NEW q, q = Quot(x, 16)
    PROVE  /\ q \in Nat /\ x - 16 * q = Mag(x) - 16 * Mag(q)
           /\ Mag(x) - 16 * Mag(q) \in 0..15
BY DEF Quot, Mag

\* Nothing comes after the last round.
LEMMA LastIsOne ==
    ASSUME NEW left, NEW i \in Int, NEW base \in {10, 16}, IsLeft(left, i, base),
           NEW n \in Nat \ {0}, NEW m \in Nat \ {0}, IsLast(left, n), IsLast(left, m)
    PROVE  ~(n < m)
<1> SUFFICES ASSUME n < m PROVE FALSE
  OBVIOUS
<1> DEFINE Zs == {k \in Nat : left[n + k] = 0}
<1>1. \A k \in Nat : k \in Zs
  <2>1. 0 \in Zs
    BY DEF IsLast
  <2>2. ASSUME NEW k \in Nat, k \in Zs PROVE k + 1 \in Zs
    <3>1. n + k \in Nat /\ n + k + 1 = n + (k + 1) /\ left[n + k] = 0
      BY <2>2
    <3>2. left[n + k + 1] = Quot(0, base)
      BY <3>1 DEF IsLeft
    <3>3. Quot(0, base) = 0
      <4>1. CASE base = 10
        BY <4>1 DEF Quot
      <4>2. CASE base = 16
        BY <4>2 DEF Quot
      <4> QED
        BY <4>1, <4>2
    <3> QED
      BY <3>1, <3>2, <3>3
  <2> HIDE DEF Zs
  <2> QED
    BY <2>1, <2>2, Induction
<1>2. PICK k \in Nat : n + k = m - 1
  <2>1. m - 1 - n \in Nat /\ n + (m - 1 - n) = m - 1
    OBVIOUS
  <2> QED
    BY <2>1
<1>3. left[m - 1] = 0
  BY <1>1, <1>2
<1> QED
  BY <1>3 DEF IsLast

\* R rounds leave nothing, and ds are the digits they give.
Ends(left, R, base, ds) ==
    /\ R \in 1..(kMaxNumericSize - 10) /\ IsLast(left, R)
    /\ ds = [n \in 1..R |-> Mag(left[n - 1]) - base * Mag(left[n])]
    /\ \A n \in 1..R : ds[n] \in 0..15

\* The digits of a number, from what its rounds leave.
LEMMA DigitsAre ==
    ASSUME NEW i \in Int, NEW base \in {10, 16}, base = 16 => i \in Nat, Fits(i, base),
           NEW left, left = Left(i, base)
    PROVE  \E R : Ends(left, R, base, Digits(i, base))
<1>1. IsLeft(left, i, base)
  BY LeftIs
<1>2. left \in [Nat -> Int] /\ left[0] = i /\ \A n \in Nat : left[n + 1] = Quot(left[n], base)
  BY <1>1 DEF IsLeft
<1>3. kMaxNumericSize \in Nat /\ kMaxNumericSize > 28
  BY BufferAssumption
<1>4. PICK Q \in 1..kMaxNumericSize - 10 : IsLast(left, Q)
  BY DEF Fits
<1> DEFINE R == CHOOSE n \in 1..kMaxNumericSize : IsLast(left, n)
           lsd(n) == left[n - 1] - base * left[n]
           ds == [n \in 1..R |-> IF base = 10 THEN zero(lsd(n)) ELSE lsd(n)]
<1>5. R \in 1..kMaxNumericSize /\ IsLast(left, R)
  BY <1>3, <1>4
<1>6. Digits(i, base) = ds
  BY DEF Digits
<1> HIDE DEF R
<1>7. R = Q
  <2>1. R \in Nat \ {0} /\ Q \in Nat \ {0}
    BY <1>3, <1>4, <1>5
  <2>2. ~(R < Q) /\ ~(Q < R)
    BY <1>1, <1>4, <1>5, <2>1, LastIsOne
  <2> QED
    BY <2>1, <2>2
<1>8. base = 16 => \A n \in Nat : left[n] \in Nat
  <2> SUFFICES ASSUME base = 16 PROVE \A n \in Nat : left[n] \in Nat
    OBVIOUS
  <2> DEFINE Ns == {n \in Nat : left[n] \in Nat}
  <2>1. 0 \in Ns
    BY <1>2
  <2>2. ASSUME NEW n \in Nat, n \in Ns PROVE n + 1 \in Ns
    BY <1>2, <2>2, RoundOf16, SMTT(30)
  <2> HIDE DEF Ns
  <2>3. \A n \in Nat : n \in Ns
    BY <2>1, <2>2, Induction
  <2> QED
    BY <2>3 DEF Ns
<1>9. ASSUME NEW n \in 1..R
      PROVE  ds[n] = Mag(left[n - 1]) - base * Mag(left[n]) /\ ds[n] \in 0..15
  <2>1. n \in Nat /\ n - 1 \in Nat /\ n - 1 + 1 = n
    BY <1>3, <1>5
  <2>2. PICK x, q : x = left[n - 1] /\ q = left[n]
    OBVIOUS
  <2>3. x \in Int /\ q = Quot(x, base)
    BY <1>2, <2>1, <2>2
  <2>4. CASE base = 10
    <3>1. zero(x - 10 * q) = Mag(x) - 10 * Mag(q) /\ Mag(x) - 10 * Mag(q) \in 0..9
      BY <2>3, <2>4, RoundOf10
    <3>2. ds[n] = zero(x - 10 * q)
      BY <2>2, <2>4
    <3> QED
      BY <2>2, <2>4, <3>1, <3>2
  <2>5. CASE base = 16
    <3>1. x \in Nat
      BY <1>8, <2>1, <2>2, <2>5
    <3>2. x - 16 * q = Mag(x) - 16 * Mag(q) /\ Mag(x) - 16 * Mag(q) \in 0..15
      BY <2>3, <2>5, <3>1, RoundOf16
    <3>3. ds[n] = x - 16 * q
      BY <2>2, <2>5
    <3> QED
      BY <2>2, <2>5, <3>2, <3>3
  <2> QED
    BY <2>4, <2>5
<1>10. ds = [n \in 1..R |-> Mag(left[n - 1]) - base * Mag(left[n])]
  BY <1>9
<1> HIDE DEF ds
<1>11. Ends(left, R, base, ds)
  BY <1>4, <1>7, <1>9, <1>10 DEF Ends
<1> QED
  BY <1>6, <1>11

\* The sums that reading a number goes through.
Reads(chars, base, R, v) ==
    /\ R \in Nat /\ Len(chars) = R
    /\ v \in [0..R -> Int] /\ v[0] = 0
    /\ \A n \in 1..R : v[n] = base * v[n - 1] + chars[n]

\* Reading the characters of a number one by one gives what they spell.
LEMMA SpelledIs ==
    ASSUME NEW chars, NEW base, NEW R, NEW v, Reads(chars, base, R, v)
    PROVE  Spelled(chars, base) = v[R]
<1> DEFINE Eq(f) == f = [n \in 0..R |-> IF n = 0 THEN 0 ELSE base * f[n - 1] + chars[n]]
<1>1. R \in Nat /\ Len(chars) = R
  BY DEF Reads
<1>2. v \in [0..R -> Int] /\ v[0] = 0
  BY DEF Reads
<1>3. \A n \in 1..R : v[n] = base * v[n - 1] + chars[n]
  BY DEF Reads
<1>4. Eq(v)
  <2>1. ASSUME NEW n \in 0..R
        PROVE  v[n] = IF n = 0 THEN 0 ELSE base * v[n - 1] + chars[n]
    <3>1. n = 0 \/ n \in 1..R
      BY <1>1
    <3> QED
      BY <1>2, <1>3, <3>1
  <2>2. v = [n \in 0..R |-> v[n]]
    BY <1>2
  <2> QED
    BY <2>1, <2>2
<1>5. Spelled(chars, base) = (CHOOSE f : Eq(f))[R]
  BY <1>1 DEF Spelled
<1> HIDE DEF Eq
<1>6. PICK f : f = (CHOOSE k : Eq(k)) /\ Eq(f)
  BY <1>4
<1>7. f = [n \in 0..R |-> IF n = 0 THEN 0 ELSE base * f[n - 1] + chars[n]]
  BY <1>6 DEF Eq
<1> DEFINE Is == {n \in Nat : n <= R => f[n] = v[n]}
<1>8. 0 \in Is
  <2>1. 0 \in 0..R
    BY <1>1
  <2>2. f[0] = 0
    BY <1>7, <2>1
  <2> QED
    BY <1>2, <2>2
<1>9. ASSUME NEW n \in Nat, n \in Is PROVE n + 1 \in Is
  <2> SUFFICES ASSUME n + 1 <= R PROVE f[n + 1] = v[n + 1]
    OBVIOUS
  <2>1. PICK m : m = n + 1
    OBVIOUS
  <2>2. m \in 0..R /\ m \in 1..R /\ m # 0 /\ m - 1 = n /\ n <= R
    BY <1>1, <2>1
  <2>3. f[m] = base * f[m - 1] + chars[m]
    <3> HIDE DEF Is
    <3> QED
      BY <1>7, <2>2
  <2>4. f[n] = v[n]
    BY <1>9, <2>2
  <2> HIDE DEF Is
  <2>5. v[m] = base * v[m - 1] + chars[m]
    BY <1>3, <2>2
  <2>6. f[m] = v[m]
    BY <2>2, <2>3, <2>4, <2>5
  <2> QED
    BY <2>1, <2>6
<1> HIDE DEF Is
<1>10. R \in Is
  BY <1>1, <1>8, <1>9, Induction
<1>11. f[R] = v[R]
  BY <1>1, <1>10 DEF Is
<1> QED
  BY <1>5, <1>6, <1>11

\* The digits in order, what they spell and where they begin.
BackToFront(chars, ds, R) == Len(chars) = R /\ \A n \in 1..R : chars[n] = ds[R + 1 - n]
SpellsOut(chars, i, base, R) ==
    /\ Spelled(chars, base) = Mag(i)
    /\ chars[1] \in 0..15
    /\ chars[1] = 0 => i = 0 /\ R = 1

\* What the digits of a number spell when they are put in order.
LEMMA InOrderDigits ==
    ASSUME NEW i \in Int, NEW base \in {10, 16},
           NEW left, IsLeft(left, i, base), NEW R, NEW ds, Ends(left, R, base, ds),
           NEW chars, BackToFront(chars, ds, R)
    PROVE  SpellsOut(chars, i, base, R)
<1>1. left \in [Nat -> Int] /\ left[0] = i
  BY DEF IsLeft
<1>2. R \in Nat /\ R >= 1 /\ IsLast(left, R)
  <2>1. kMaxNumericSize \in Nat
    BY BufferAssumption
  <2> QED
    BY <2>1 DEF Ends
<1>3. \A n \in 1..R : ds[n] = Mag(left[n - 1]) - base * Mag(left[n]) /\ ds[n] \in 0..15
  BY DEF Ends
<1>4. PICK h : h = [n \in Nat |-> Mag(left[n])]
  OBVIOUS
<1>5. h \in [Nat -> Int]
  <2>1. ASSUME NEW n \in Nat PROVE Mag(left[n]) \in Int
    <3>1. left[n] \in Int
      BY <1>1
    <3> QED
      BY <3>1 DEF Mag
  <2> QED
    BY <1>4, <2>1
<1>6. h[R] = 0
  <2>1. left[R] = 0
    BY <1>2 DEF IsLast
  <2> QED
    BY <1>2, <1>4, <2>1 DEF Mag
<1>7. PICK v : v = [n \in 0..R |-> h[R - n]]
  OBVIOUS
<1>8. v \in [0..R -> Int] /\ v[0] = 0 /\ v[R] = h[0]
  <2>1. \A n \in 0..R : R - n \in Nat
    BY <1>2
  <2>2. 0 \in 0..R /\ R \in 0..R /\ R - 0 = R /\ R - R = 0
    BY <1>2
  <2>3. v[0] = h[R] /\ v[R] = h[0]
    BY <1>7, <2>2
  <2> QED
    BY <1>5, <1>6, <1>7, <2>1, <2>3
<1>9. ASSUME NEW n \in 1..R PROVE v[n] = base * v[n - 1] + chars[n]
  <2>1. PICK m : m = R + 1 - n
    OBVIOUS
  <2>2. m \in 1..R /\ m - 1 = R - n /\ m = R - (n - 1) /\ m \in Nat /\ m - 1 \in Nat
        /\ n \in 0..R /\ n - 1 \in 0..R
    BY <1>2, <2>1
  <2>3. chars[n] = Mag(left[m - 1]) - base * Mag(left[m])
    BY <1>3, <2>1, <2>2 DEF BackToFront
  <2>4. h[m] = Mag(left[m]) /\ h[m - 1] = Mag(left[m - 1])
    BY <1>4, <2>2
  <2>5. v[n] = h[m - 1] /\ v[n - 1] = h[m]
    BY <1>7, <2>2
  <2>6. PICK x \in Int, y \in Int : x = h[m - 1] /\ y = h[m]
    BY <1>5, <2>2
  <2>7. chars[n] = x - base * y
    BY <2>3, <2>4, <2>6
  <2>8. x = base * y + (x - base * y)
    <3>1. CASE base = 10
      BY ONLY <3>1, x \in Int, y \in Int
    <3>2. CASE base = 16
      BY ONLY <3>2, x \in Int, y \in Int
    <3> QED
      BY <3>1, <3>2
  <2> QED
    BY <2>5, <2>6, <2>7, <2>8
<1>10. Reads(chars, base, R, v)
  BY <1>2, <1>8, <1>9 DEF Reads, BackToFront
<1>11. Spelled(chars, base) = h[0]
  <2>1. Spelled(chars, base) = v[R]
    BY ONLY <1>10, SpelledIs
  <2> QED
    BY <1>8, <2>1
<1>12. h[0] = Mag(i)
  BY <1>1, <1>4
<1>13. chars[1] = ds[R] /\ chars[1] \in 0..15
  <2>1. 1 \in 1..R /\ R \in 1..R /\ R + 1 - 1 = R
    BY <1>2
  <2>2. chars[1] = ds[R + 1 - 1]
    BY <2>1, Zenon DEF BackToFront
  <2>3. ds[R] \in 0..15
    BY <1>3, <2>1, Zenon
  <2> QED
    BY <2>1, <2>2, <2>3
<1>14. chars[1] = Mag(left[R - 1])
  <2>1. R - 1 \in Nat /\ R \in 1..R
    BY <1>2
  <2>2. chars[1] = Mag(left[R - 1]) - base * Mag(left[R])
    BY <1>3, <1>13, <2>1
  <2>3. Mag(left[R]) = 0
    BY <1>2, <1>4, <1>6
  <2>4. PICK x \in Int : x = Mag(left[R - 1])
    BY <1>4, <1>5, <2>1
  <2>5. chars[1] = x - base * 0
    BY <2>2, <2>3, <2>4
  <2>6. x - base * 0 = x
    OBVIOUS
  <2> QED
    BY <2>4, <2>5, <2>6
<1>15. ASSUME chars[1] = 0 PROVE i = 0 /\ R = 1
  <2>1. R - 1 \in Nat /\ left[R - 1] \in Int
    BY <1>1, <1>2
  <2>2. left[R - 1] = 0
    BY <1>14, <1>15, <2>1 DEF Mag
  <2>3. R = 1
    BY <1>2, <2>2 DEF IsLast
  <2> QED
    BY <1>1, <2>2, <2>3
<1> QED
  BY <1>11, <1>12, <1>13, <1>15 DEF SpellsOut

\* Pieces whose numbers read back; one that is a number has room for a terminating zero.
TextNames ==
    {"time", "us", "usZ", "tid", "space", "level", "strerror", " (errno=", ") ", "func", "' '",
     "double", "string", "char", "bool", " - ", "basename", "':'", "'\\n'"}
GoodPieces ==
    {p \in [what : {"int", "pointer"} \cup TextNames, len : Nat, value : Int, chars : Seq(Int)] :
        ReadsBack(p)}
GoodNumber(p) == p \in GoodPieces /\ p.len + 1 <= kMaxNumericSize

\* The digits of a number are a sequence of characters.
LEMMA DigitsSeq ==
    ASSUME NEW left, NEW R, NEW base, NEW ds, Ends(left, R, base, ds)
    PROVE  /\ R \in Nat /\ R >= 1 /\ R + 10 <= kMaxNumericSize
           /\ ds \in Seq(0..15) /\ Len(ds) = R
<1>1. kMaxNumericSize \in Nat /\ R \in 1..(kMaxNumericSize - 10)
  BY BufferAssumption DEF Ends
<1>2. R \in Nat /\ R >= 1 /\ R + 10 <= kMaxNumericSize
  BY <1>1
<1>3. ds \in [1..R -> 0..15]
  BY DEF Ends
<1>4. ds \in Seq(0..15) /\ Len(ds) = R
  BY <1>2, <1>3
<1> QED
  BY <1>2, <1>4

\* What convert gives, read from the left: the sign and the digits in order.
LEMMA Reversal ==
    ASSUME NEW R \in Nat, R >= 1, NEW ds \in Seq(0..15), Len(ds) = R
    PROVE  /\ BackToFront(Reversed(ds), ds, R) /\ Reversed(ds) \in Seq(Int)
           /\ LET chars == Reversed(ds \o <<Minus>>)
              IN  /\ chars \in Seq(Int) /\ chars[1] = Minus /\ Len(chars) = R + 1
                  /\ BackToFront(Tail(chars), ds, R)
<1>1. BackToFront(Reversed(ds), ds, R) /\ Reversed(ds) \in Seq(Int)
  <2>1. Reversed(ds) = [n \in 1..R |-> ds[R + 1 - n]]
    BY DEF Reversed
  <2>2. \A n \in 1..R : ds[R + 1 - n] \in 0..15
    OBVIOUS
  <2>3. Reversed(ds) \in Seq(Int) /\ Len(Reversed(ds)) = R
    BY <2>1, <2>2
  <2> QED
    BY <2>1, <2>3 DEF BackToFront
<1>2. PICK t : t = ds \o <<Minus>>
  OBVIOUS
<1>3. t \in Seq(0..99) /\ Len(t) = R + 1 /\ t[R + 1] = Minus /\ \A n \in 1..R : t[n] = ds[n]
  BY <1>2 DEF Minus
<1>4. PICK chars : chars = Reversed(t)
  OBVIOUS
<1>5. chars = [n \in 1..(R + 1) |-> t[R + 2 - n]]
  <2>1. DOMAIN t = 1..(R + 1)
    BY <1>3
  <2>2. \A n \in 1..(R + 1) : Len(t) + 1 - n = R + 2 - n
    BY <1>3
  <2> QED
    BY <1>4, <2>1, <2>2 DEF Reversed
<1>6. chars \in Seq(Int) /\ Len(chars) = R + 1
  <2>1. ASSUME NEW n \in 1..(R + 1) PROVE t[R + 2 - n] \in Int
    <3>1. PICK m \in 1..(R + 1) : m = R + 2 - n
      OBVIOUS
    <3>2. t[m] \in Int
      <4>1. CASE m = R + 1
        <5>1. t[m] = 99
          BY <1>3, <4>1 DEF Minus
        <5> QED
          BY <5>1
      <4>2. CASE m \in 1..R
        <5>1. ds[m] \in 0..15 /\ t[m] = ds[m]
          BY <1>3, <4>2, SMTT(30)
        <5> QED
          BY <5>1
      <4> QED
        BY <4>1, <4>2
    <3> QED
      BY <3>1, <3>2
  <2>2. chars \in [1..(R + 1) -> Int] /\ R + 1 \in Nat
    BY <1>5, <2>1
  <2> QED
    BY <2>2
<1>7. chars[1] = Minus
  <2>1. 1 \in 1..(R + 1) /\ R + 2 - 1 = R + 1
    OBVIOUS
  <2> QED
    BY <1>3, <1>5, <2>1
<1>8. Len(Tail(chars)) = R /\ \A n \in 1..R : Tail(chars)[n] = chars[n + 1]
  BY <1>6
<1>9. ASSUME NEW n \in 1..R PROVE Tail(chars)[n] = ds[R + 1 - n]
  <2>1. PICK m : m = n + 1
    OBVIOUS
  <2>2. PICK k : k = R + 1 - n
    OBVIOUS
  <2>3. m \in 1..(R + 1) /\ R + 2 - m = k /\ k \in 1..R
    BY <2>1, <2>2
  <2>4. chars[m] = t[k] /\ t[k] = ds[k]
    BY <1>3, <1>5, <2>3
  <2> QED
    BY <1>8, <2>1, <2>2, <2>4
<1>10. BackToFront(Tail(chars), ds, R)
  BY <1>8, <1>9 DEF BackToFront
<1> QED
  BY <1>1, <1>2, <1>4, <1>6, <1>7, <1>10

\* formatInteger: convert's characters read back, the sign of a negative number too.
LEMMA NumberReadsBack ==
    ASSUME NEW i \in Int, Fits(i, 10)
    PROVE  GoodNumber(Number(i, convert(i)))
<1>1. PICK left : left = Left(i, 10)
  OBVIOUS
<1>2. IsLeft(left, i, 10)
  BY <1>1, LeftIs
<1>3. PICK ds, R : ds = Digits(i, 10) /\ Ends(left, R, 10, ds)
  BY <1>1, DigitsAre
<1>4. R \in Nat /\ R >= 1 /\ R + 10 <= kMaxNumericSize /\ kMaxNumericSize \in Nat
  BY <1>3, DigitsSeq, BufferAssumption
<1>5. ds \in Seq(0..15) /\ Len(ds) = R
  BY <1>3, DigitsSeq
<1>6. PICK chars : chars = convert(i)
  OBVIOUS
<1>7. PICK p : p = Number(i, chars)
  OBVIOUS
<1>8. p.what = "int" /\ p.value = i /\ p.chars = chars /\ p.len = Len(chars)
  BY <1>7 DEF Number
<1>9. CASE i >= 0
  <2>1. chars = Reversed(ds)
    <3>1. ds \o <<>> = ds
      BY <1>5
    <3>2. (IF i < 0 THEN <<Minus>> ELSE <<>>) = <<>>
      BY <1>9
    <3> QED
      BY <1>3, <1>6, <3>1, <3>2 DEF convert
  <2>2. BackToFront(chars, ds, R) /\ chars \in Seq(Int)
    BY <1>4, <1>5, <2>1, Reversal
  <2>3. SpellsOut(chars, i, 10, R)
    BY <1>2, <1>3, <2>2, InOrderDigits
  <2>4. Spelled(chars, 10) = i /\ chars[1] # Minus /\ (chars[1] = 0 => i = 0 /\ R = 1)
    BY <1>9, <2>3 DEF SpellsOut, Mag, Minus
  <2>5. Len(chars) = R
    BY <2>2 DEF BackToFront
  <2>6. ReadsBack(p)
    BY <1>8, <2>4, <2>5 DEF ReadsBack
  <2>7. p.len + 1 <= kMaxNumericSize
    BY <1>4, <1>8, <2>5
  <2>8. p \in [what : {"int", "pointer"} \cup TextNames, len : Nat, value : Int, chars : Seq(Int)]
    BY <1>4, <1>7, <2>2, <2>5 DEF Number
  <2> QED
    BY <1>6, <1>7, <2>6, <2>7, <2>8 DEF GoodNumber, GoodPieces
<1>10. CASE i < 0
  <2>1. chars = Reversed(ds \o <<Minus>>)
    BY <1>3, <1>6, <1>10 DEF convert
  <2>2. chars \in Seq(Int) /\ chars[1] = Minus /\ Len(chars) = R + 1 /\ BackToFront(Tail(chars), ds, R)
    BY <1>4, <1>5, <2>1, Reversal
  <2>3. SpellsOut(Tail(chars), i, 10, R)
    BY <1>2, <1>3, <2>2, InOrderDigits
  <2>4. Spelled(Tail(chars), 10) = -i
    BY <1>10, <2>3 DEF SpellsOut, Mag
  <2>5. ReadsBack(p)
    <3>1. chars[1] # 0
      BY <2>2 DEF Minus
    <3>2. i = -(-i)
      OBVIOUS
    <3> QED
      BY <1>8, <2>2, <2>4, <3>1, <3>2 DEF ReadsBack
  <2>6. p.len + 1 <= kMaxNumericSize
    BY <1>4, <1>8, <2>2
  <2>7. p \in [what : {"int", "pointer"} \cup TextNames, len : Nat, value : Int, chars : Seq(Int)]
    BY <1>4, <1>7, <2>2 DEF Number
  <2> QED
    BY <1>6, <1>7, <2>5, <2>6, <2>7 DEF GoodNumber, GoodPieces
<1> QED
  BY <1>9, <1>10

\* The insertion of a pointer: convertHex's characters read back.
LEMMA PointerReadsBack ==
    ASSUME NEW i \in Nat, Fits(i, 16)
    PROVE  GoodNumber(Pointer(i, convertHex(i)))
<1>1. PICK left : left = Left(i, 16)
  OBVIOUS
<1>2. IsLeft(left, i, 16)
  BY <1>1, LeftIs
<1>3. PICK ds, R : ds = Digits(i, 16) /\ Ends(left, R, 16, ds)
  BY <1>1, DigitsAre
<1>4. R \in Nat /\ R >= 1 /\ R + 10 <= kMaxNumericSize /\ kMaxNumericSize \in Nat
  BY <1>3, DigitsSeq, BufferAssumption
<1>5. ds \in Seq(0..15) /\ Len(ds) = R
  BY <1>3, DigitsSeq
<1>6. PICK chars : chars = convertHex(i)
  OBVIOUS
<1>7. PICK p : p = Pointer(i, chars)
  OBVIOUS
<1>8. p.what = "pointer" /\ p.value = i /\ p.chars = chars /\ p.len = 2 + Len(chars)
  BY <1>7 DEF Pointer
<1>9. chars = Reversed(ds)
  BY <1>3, <1>6 DEF convertHex
<1>10. BackToFront(chars, ds, R) /\ chars \in Seq(Int)
  BY <1>4, <1>5, <1>9, Reversal
<1>11. SpellsOut(chars, i, 16, R)
  BY <1>2, <1>3, <1>10, InOrderDigits
<1>12. Spelled(chars, 16) = i /\ Len(chars) = R
  BY <1>10, <1>11 DEF SpellsOut, Mag, BackToFront
<1>13. ReadsBack(p)
  BY <1>8, <1>12 DEF ReadsBack
<1>14. p.len + 1 <= kMaxNumericSize
  BY <1>4, <1>8, <1>12
<1>15. p \in [what : {"int", "pointer"} \cup TextNames, len : Nat, value : Int, chars : Seq(Int)]
  BY <1>4, <1>7, <1>10, <1>12 DEF Pointer
<1> QED
  BY <1>6, <1>7, <1>13, <1>14, <1>15 DEF GoodNumber, GoodPieces

\* The two numbers that every line or every message of errno has.
LEMMA LineNumbersFit == Fits(24, 10) /\ Fits(149, 10)
<1>1. kMaxNumericSize \in Nat /\ kMaxNumericSize > 28
  BY BufferAssumption
<1>2. Quot(24, 10) = 2 /\ Quot(2, 10) = 0 /\ Quot(149, 10) = 14 /\ Quot(14, 10) = 1
      /\ Quot(1, 10) = 0
  BY DEF Quot
<1>3. Fits(24, 10)
  <2>1. PICK left : left = Left(24, 10)
    OBVIOUS
  <2>2. left[0] = 24 /\ \A n \in Nat : left[n + 1] = Quot(left[n], 10)
    <3>1. 24 \in Int /\ 10 \in {10, 16}
      OBVIOUS
    <3>2. IsLeft(left, 24, 10)
      BY <2>1, <3>1, LeftIs
    <3> QED
      BY <3>2 DEF IsLeft
  <2>3. left[1] = 2 /\ left[2] = 0
    <3>1. left[0 + 1] = Quot(left[0], 10) /\ left[1 + 1] = Quot(left[1], 10)
      BY <2>2
    <3> QED
      BY <1>2, <2>2, <3>1
  <2>4. IsLast(left, 2) /\ 2 \in 1..kMaxNumericSize - 10
    BY <1>1, <2>3 DEF IsLast
  <2> QED
    BY <2>1, <2>4 DEF Fits
<1>4. Fits(149, 10)
  <2>1. PICK left : left = Left(149, 10)
    OBVIOUS
  <2>2. left[0] = 149 /\ \A n \in Nat : left[n + 1] = Quot(left[n], 10)
    <3>1. 149 \in Int /\ 10 \in {10, 16}
      OBVIOUS
    <3>2. IsLeft(left, 149, 10)
      BY <2>1, <3>1, LeftIs
    <3> QED
      BY <3>2 DEF IsLeft
  <2>3. left[1] = 14 /\ left[2] = 1 /\ left[3] = 0
    <3>1. left[0 + 1] = Quot(left[0], 10) /\ left[1 + 1] = Quot(left[1], 10)
          /\ left[2 + 1] = Quot(left[2], 10)
      BY <2>2
    <3> QED
      BY <1>2, <2>2, <3>1
  <2>4. IsLast(left, 3) /\ 3 \in 1..kMaxNumericSize - 10
    BY <1>1, <2>3 DEF IsLast
  <2> QED
    BY <2>1, <2>4 DEF Fits
<1> QED
  BY <1>3, <1>4

-----------------------------------------------------------------------------
(* The stream of a line                                                    *)

\* The lengths of the pieces, summed up from the left.
Sums(ps, v) ==
    /\ v \in [0..Len(ps) -> Nat] /\ v[0] = 0
    /\ \A n \in 1..Len(ps) : v[n] = v[n - 1] + ps[n].len

\* A total is the last sum.
LEMMA TotalIs ==
    ASSUME NEW ps \in Seq(GoodPieces), NEW v, Sums(ps, v)
    PROVE  Total(ps) = v[Len(ps)]
<1> DEFINE Eq(f) == f = [n \in 0..Len(ps) |-> IF n = 0 THEN 0 ELSE f[n - 1] + ps[n].len]
<1>1. PICK R \in Nat : R = Len(ps)
  OBVIOUS
<1>2. v \in [0..R -> Nat] /\ v[0] = 0
  BY <1>1 DEF Sums
<1>3. \A n \in 1..R : v[n] = v[n - 1] + ps[n].len
  BY <1>1 DEF Sums
<1>4. Eq(v)
  <2>1. ASSUME NEW n \in 0..R
        PROVE  v[n] = IF n = 0 THEN 0 ELSE v[n - 1] + ps[n].len
    <3>1. n = 0 \/ n \in 1..R
      BY <1>1
    <3> QED
      BY <1>2, <1>3, <3>1
  <2>2. v = [n \in 0..R |-> v[n]]
    BY <1>2
  <2> QED
    BY <1>1, <2>1, <2>2
<1>5. Total(ps) = (CHOOSE f : Eq(f))[R]
  BY <1>1 DEF Total
<1> HIDE DEF Eq
<1>6. PICK f : f = (CHOOSE k : Eq(k)) /\ Eq(f)
  BY <1>4
<1>7. f = [n \in 0..R |-> IF n = 0 THEN 0 ELSE f[n - 1] + ps[n].len]
  BY <1>1, <1>6 DEF Eq
<1> DEFINE Is == {n \in Nat : n <= R => f[n] = v[n]}
<1>8. 0 \in Is
  <2>1. 0 \in 0..R
    BY <1>1
  <2>2. f[0] = 0
    BY <1>7, <2>1
  <2> QED
    BY <1>2, <2>2
<1>9. ASSUME NEW n \in Nat, n \in Is PROVE n + 1 \in Is
  <2> SUFFICES ASSUME n + 1 <= R PROVE f[n + 1] = v[n + 1]
    OBVIOUS
  <2>1. PICK m : m = n + 1
    OBVIOUS
  <2>2. m \in 0..R /\ m \in 1..R /\ m # 0 /\ m - 1 = n /\ n <= R
    BY <1>1, <2>1
  <2>3. f[m] = f[m - 1] + ps[m].len
    <3> HIDE DEF Is
    <3> QED
      BY <1>7, <2>2
  <2>4. f[n] = v[n]
    BY <1>9, <2>2
  <2> HIDE DEF Is
  <2>5. v[m] = v[m - 1] + ps[m].len
    BY <1>3, <2>2
  <2>6. f[m] = v[m]
    BY <2>2, <2>3, <2>4, <2>5
  <2> QED
    BY <2>1, <2>6
<1> HIDE DEF Is
<1>10. R \in Is
  BY <1>1, <1>8, <1>9, Induction
<1>11. f[R] = v[R]
  BY <1>1, <1>10 DEF Is
<1> QED
  BY <1>1, <1>5, <1>6, <1>11

\* The lengths of pieces are numbers.
LEMMA PieceLen == ASSUME NEW p \in GoodPieces PROVE p.len \in Nat
BY DEF GoodPieces

\* The lengths of the pieces of a line can be summed up.
LEMMA SumsExist ==
    ASSUME NEW ps \in Seq(GoodPieces)
    PROVE  \E v : Sums(ps, v)
<1>1. PICK R \in Nat : R = Len(ps)
  OBVIOUS
<1>2. \A n \in 1..R : ps[n].len \in Nat
  <2> SUFFICES ASSUME NEW n \in 1..R PROVE ps[n].len \in Nat
    OBVIOUS
  <2>1. ps[n] \in GoodPieces
    BY <1>1
  <2> QED
    BY <2>1, PieceLen
<1>3. PICK g : g = [z \in (1..R) \X Nat |-> z[2] + ps[z[1]].len]
  OBVIOUS
<1>4. g \in [(1..R) \X Nat -> Nat]
  <2>1. ASSUME NEW z \in (1..R) \X Nat PROVE z[2] + ps[z[1]].len \in Nat
    <3>1. PICK n \in 1..R, x \in Nat : z[1] = n /\ z[2] = x
      OBVIOUS
    <3>2. ps[n].len \in Nat
      BY <1>2
    <3> QED
      BY <3>1, <3>2
  <2> QED
    BY <1>3, <2>1
<1>5. PICK v : Recurs(R, Nat, g, 0, v)
  BY <1>4, RecursionExists
<1>6. v \in [0..R -> Nat] /\ v[0] = 0 /\ \A n \in 1..R : v[n] = g[<<n, v[n - 1]>>]
  BY <1>5 DEF Recurs
<1>7. ASSUME NEW n \in 1..R PROVE v[n] = v[n - 1] + ps[n].len
  <2>1. n - 1 \in 0..R
    OBVIOUS
  <2>2. PICK x \in Nat : x = v[n - 1]
    BY <1>6, <2>1
  <2>3. <<n, x>> \in (1..R) \X Nat
    OBVIOUS
  <2>4. g[<<n, x>>] = x + ps[n].len
    BY <1>3, <2>3
  <2> QED
    BY <1>6, <2>2, <2>4
<1>8. Sums(ps, v)
  BY <1>1, <1>6, <1>7 DEF Sums
<1> QED
  BY <1>8

\* The total of a line, with one piece more.
LEMMA TotalStep ==
    ASSUME NEW ps \in Seq(GoodPieces), NEW p \in GoodPieces
    PROVE  Total(ps) \in Nat /\ Total(Append(ps, p)) = Total(ps) + p.len
<1>1. PICK R \in Nat : R = Len(ps)
  OBVIOUS
<1>2. PICK qs : qs = Append(ps, p)
  OBVIOUS
<1>3. qs \in Seq(GoodPieces) /\ Len(qs) = R + 1 /\ qs[R + 1] = p /\ \A n \in 1..R : qs[n] = ps[n]
  BY <1>1, <1>2
<1>4. PICK v : Sums(qs, v)
  BY <1>3, SumsExist
<1>5. PICK m : m = R + 1
  OBVIOUS
<1>6. v \in [0..m -> Nat] /\ v[0] = 0 /\ \A n \in 1..m : v[n] = v[n - 1] + qs[n].len
  BY <1>3, <1>4, <1>5 DEF Sums
<1>7. Total(qs) = v[m]
  BY <1>3, <1>4, <1>5, TotalIs
<1>8. PICK w : w = [n \in 0..R |-> v[n]]
  OBVIOUS
<1>9. Sums(ps, w)
  <2>1. w \in [0..R -> Nat] /\ w[0] = 0
    <3>1. \A n \in 0..R : n \in 0..m
      BY <1>5
    <3>2. 0 \in 0..R
      OBVIOUS
    <3> QED
      BY <1>6, <1>8, <3>1, <3>2
  <2>2. ASSUME NEW n \in 1..R PROVE w[n] = w[n - 1] + ps[n].len
    <3>1. n \in 0..R /\ n - 1 \in 0..R /\ n \in 1..m
      BY <1>5
    <3> QED
      BY <1>3, <1>6, <1>8, <3>1
  <2> QED
    BY <1>1, <2>1, <2>2 DEF Sums
<1>10. Total(ps) = w[R]
  BY <1>1, <1>9, TotalIs
<1>11. w[R] = v[R] /\ v[R] \in Nat
  <2>1. R \in 0..R /\ R \in 0..m
    BY <1>5
  <2> QED
    BY <1>6, <1>8, <2>1
<1>12. v[m] = v[R] + p.len
  <2>1. m \in 1..m /\ m - 1 = R
    BY <1>5
  <2>2. qs[m] = p
    BY <1>3, <1>5
  <2> QED
    BY <1>6, <2>1, <2>2
<1> QED
  BY <1>2, <1>7, <1>10, <1>11, <1>12

\* An empty line.
LEMMA TotalOfNone == Total(<<>>) = 0
<1>1. Sums(<<>>, [n \in 0..0 |-> 0])
  BY DEF Sums
<1>2. <<>> \in Seq(GoodPieces) /\ Len(<<>>) = 0
  OBVIOUS
<1>3. Total(<<>>) = [n \in 0..0 |-> 0][0]
  BY <1>1, <1>2, TotalIs
<1> QED
  BY <1>3

\* A stream whose text is true: nothing was written past the end, the pieces read back and
\* are next to each other, and some were left out only if the line does not fit.
Streams ==
    [pieces : Seq(GoodPieces), cur : Nat, high : Nat, given : Seq(GoodPieces)]
Holds(s) ==
    /\ s.high <= kSmallBuffer /\ s.cur < kSmallBuffer
    /\ s.cur = Total(s.pieces)
    /\ s.pieces = s.given \/ Total(s.given) + kMaxNumericSize > kSmallBuffer
TrueStreams == {s \in Streams : Holds(s)}

\* A new stream.
LEMMA EmptyIsTrue == EmptyStream \in TrueStreams
<1>1. EmptyStream \in Streams
  BY DEF EmptyStream, Streams
<1>2. Holds(EmptyStream)
  BY TotalOfNone, BufferAssumption DEF EmptyStream, Holds
<1> QED
  BY <1>1, <1>2 DEF TrueStreams

\* A piece that fits is written.
LEMMA WrittenIsTrue ==
    ASSUME NEW s \in TrueStreams, NEW p \in GoodPieces, NEW reach \in Nat,
           s.cur + reach <= kSmallBuffer, s.cur + p.len < kSmallBuffer
    PROVE  Written(Given(s, p), p, reach) \in TrueStreams
<1>1. s \in Streams /\ Holds(s)
  BY DEF TrueStreams
<1>2. PICK ps \in Seq(GoodPieces), gs \in Seq(GoodPieces), c \in Nat, h \in Nat :
        s = [pieces |-> ps, cur |-> c, high |-> h, given |-> gs]
  BY <1>1 DEF Streams
<1>3. PICK k \in Nat : k = kSmallBuffer
  BY BufferAssumption
<1>4. PICK x \in Nat : x = kMaxNumericSize
  BY BufferAssumption
<1>5. h <= k /\ c < k /\ c = Total(ps) /\ (ps = gs \/ Total(gs) + x > k)
  BY <1>1, <1>2, <1>3, <1>4 DEF Holds
<1>6. p.len \in Nat
  BY PieceLen
<1>7. PICK hh : hh = IF c + reach > h THEN c + reach ELSE h
  OBVIOUS
<1>8. hh \in Nat /\ hh <= k
  BY <1>2, <1>3, <1>5, <1>7
<1>9. PICK pp, gg : pp = Append(ps, p) /\ gg = Append(gs, p)
  OBVIOUS
<1>10. pp \in Seq(GoodPieces) /\ gg \in Seq(GoodPieces)
  BY <1>9
<1>11. PICK u : u = Written(Given(s, p), p, reach)
  OBVIOUS
<1>12. PICK t : t = [pieces |-> ps, cur |-> c, high |-> h, given |-> gg]
  OBVIOUS
<1>13. u \in Streams /\ u.pieces = pp /\ u.cur = c + p.len /\ u.high = hh /\ u.given = gg
  <2>1. s.given = gs
    BY <1>2
  <2>2. Given(s, p) = t
    <3>1. Given(s, p) = [s EXCEPT !.given = gg]
      BY <1>9, <2>1 DEF Given
    <3> QED
      BY <1>2, <1>12, <3>1
  <2>3. t.cur = c /\ t.pieces = ps /\ t.high = h /\ t.given = gg
    BY <1>12
  <2>4. t \in Streams
    BY <1>10, <1>12 DEF Streams
  <2>5. u = [t EXCEPT !.pieces = pp, !.cur = c + p.len, !.high = hh]
    BY <1>7, <1>9, <1>11, <2>2, <2>3 DEF Written
  <2>6. c + p.len \in Nat
    BY <1>6
  <2> QED
    BY <1>8, <1>10, <2>3, <2>4, <2>5, <2>6 DEF Streams
<1>14. Total(pp) = Total(ps) + p.len /\ Total(gg) = Total(gs) + p.len /\ Total(gs) \in Nat
  BY <1>9, TotalStep
<1>15. c + p.len < k /\ c + p.len = Total(pp)
  BY <1>2, <1>3, <1>5, <1>14
<1>16. pp = gg \/ Total(gg) + x > k
  <2>1. CASE ps = gs
    BY <1>9, <2>1
  <2>2. CASE Total(gs) + x > k
    BY <1>6, <1>14, <2>2
  <2> QED
    BY <1>5, <2>1, <2>2
<1>17. Holds(u)
  BY <1>3, <1>4, <1>8, <1>13, <1>15, <1>16 DEF Holds
<1> QED
  BY <1>11, <1>13, <1>17 DEF TrueStreams

\* A piece is left out only if the line does not fit.
LEMMA LeftOutIsTrue ==
    ASSUME NEW s \in TrueStreams, NEW p \in GoodPieces,
           s.cur + p.len + kMaxNumericSize > kSmallBuffer
    PROVE  Given(s, p) \in TrueStreams
<1>1. s \in Streams /\ Holds(s)
  BY DEF TrueStreams
<1>2. PICK ps \in Seq(GoodPieces), gs \in Seq(GoodPieces), c \in Nat, h \in Nat :
        s = [pieces |-> ps, cur |-> c, high |-> h, given |-> gs]
  BY <1>1 DEF Streams
<1>3. PICK k \in Nat : k = kSmallBuffer
  BY BufferAssumption
<1>4. PICK x \in Nat : x = kMaxNumericSize
  BY BufferAssumption
<1>5. h <= k /\ c < k /\ c = Total(ps) /\ (ps = gs \/ Total(gs) + x > k)
  BY <1>1, <1>2, <1>3, <1>4 DEF Holds
<1>6. p.len \in Nat
  BY PieceLen
<1>7. PICK gg : gg = Append(gs, p)
  OBVIOUS
<1>8. PICK u : u = [pieces |-> ps, cur |-> c, high |-> h, given |-> gg]
  OBVIOUS
<1>9. Given(s, p) = u
  <2>1. s.given = gs
    BY <1>2
  <2>2. Given(s, p) = [s EXCEPT !.given = gg]
    BY <1>7, <2>1 DEF Given
  <2> QED
    BY <1>2, <1>8, <2>2
<1>10. gg \in Seq(GoodPieces)
  BY <1>7
<1>11. u \in Streams
  BY <1>8, <1>10 DEF Streams
<1>12. Total(gg) = Total(gs) + p.len /\ Total(gs) \in Nat
  BY <1>7, TotalStep
<1>13. Total(gg) + x > k
  <2>1. c + p.len + x > k
    BY <1>2, <1>3, <1>4
  <2>2. CASE ps = gs
    BY <1>5, <1>6, <1>12, <2>1, <2>2
  <2>3. CASE Total(gs) + x > k
    BY <1>6, <1>12, <2>3
  <2> QED
    BY <1>5, <2>2, <2>3
<1>14. Holds(u)
  BY <1>3, <1>4, <1>5, <1>8, <1>13 DEF Holds
<1> QED
  BY <1>9, <1>11, <1>14 DEF TrueStreams

\* FixedBuffer::append.
LEMMA AppendIsTrue ==
    ASSUME NEW s \in TrueStreams, NEW p \in GoodPieces
    PROVE  append(s, p) \in TrueStreams
<1>1. p.len \in Nat /\ s.cur \in Nat
  BY PieceLen DEF TrueStreams, Streams
<1>2. kSmallBuffer \in Nat /\ kMaxNumericSize \in Nat /\ kMaxNumericSize > 0
  BY BufferAssumption
<1>3. CASE avail(s) > p.len
  <2>1. s.cur + p.len < kSmallBuffer /\ s.cur + p.len <= kSmallBuffer
    BY <1>1, <1>2, <1>3 DEF avail
  <2>2. append(s, p) = Written(Given(s, p), p, p.len)
    BY <1>3 DEF append
  <2> QED
    BY <1>1, <2>1, <2>2, WrittenIsTrue
<1>4. CASE ~(avail(s) > p.len)
  <2>1. s.cur + p.len + kMaxNumericSize > kSmallBuffer
    BY <1>1, <1>2, <1>4 DEF avail
  <2>2. append(s, p) = Given(s, p)
    BY <1>4 DEF append
  <2> QED
    BY <2>1, <2>2, LeftOutIsTrue
<1> QED
  BY <1>3, <1>4

\* formatInteger and the insertions of a pointer and of a double.
LEMMA PutNumberIsTrue ==
    ASSUME NEW s \in TrueStreams, NEW p, GoodNumber(p)
    PROVE  PutNumber(s, p) \in TrueStreams
<1>1. p \in GoodPieces /\ p.len + 1 <= kMaxNumericSize
  BY DEF GoodNumber
<1>2. p.len \in Nat /\ s.cur \in Nat /\ p.len + 1 \in Nat
  BY <1>1, PieceLen DEF TrueStreams, Streams
<1>3. kSmallBuffer \in Nat /\ kMaxNumericSize \in Nat /\ kMaxNumericSize > 0
  BY BufferAssumption
<1>4. CASE avail(s) >= kMaxNumericSize
  <2>1. s.cur + (p.len + 1) <= kSmallBuffer /\ s.cur + p.len < kSmallBuffer
    BY <1>1, <1>2, <1>3, <1>4 DEF avail
  <2>2. PutNumber(s, p) = Written(Given(s, p), p, p.len + 1)
    BY <1>4 DEF PutNumber
  <2> QED
    BY <1>1, <1>2, <2>1, <2>2, WrittenIsTrue
<1>5. CASE ~(avail(s) >= kMaxNumericSize)
  <2>1. s.cur + p.len + kMaxNumericSize > kSmallBuffer
    BY <1>2, <1>3, <1>5 DEF avail
  <2>2. PutNumber(s, p) = Given(s, p)
    BY <1>5 DEF PutNumber
  <2> QED
    BY <1>1, <2>1, <2>2, LeftOutIsTrue
<1> QED
  BY <1>4, <1>5

\* Text has nothing to read back.
LEMMA TextIsGood ==
    ASSUME NEW w \in TextNames, NEW n \in Nat
    PROVE  Text(w, n) \in GoodPieces
<1>1. w # "int" /\ w # "pointer"
  BY DEF TextNames
<1>2. PICK p : p = Text(w, n)
  OBVIOUS
<1>3. p.what = w
  BY <1>2 DEF Text
<1>4. ReadsBack(p)
  BY <1>1, <1>3 DEF ReadsBack
<1>5. p \in [what : {"int", "pointer"} \cup TextNames, len : Nat, value : Int, chars : Seq(Int)]
  BY <1>2 DEF Text
<1> QED
  BY <1>2, <1>4, <1>5 DEF GoodPieces

\* The insertion of a text.
LEMMA AppendText ==
    ASSUME NEW s \in TrueStreams, NEW w \in TextNames, NEW n \in Nat
    PROVE  append(s, Text(w, n)) \in TrueStreams
BY TextIsGood, AppendIsTrue, Zenon

\* operator<< of a piece.
LEMMA PutIsTrue ==
    ASSUME NEW s \in TrueStreams, NEW p \in Pieces, Insertable(p)
    PROVE  Put(s, p) \in TrueStreams
<1>1. p.len \in Nat /\ p.value \in Int /\ p.chars = <<>>
  BY DEF Pieces
<1>2. CASE p.what = "int"
  <2>1. Put(s, p) = formatInteger(s, p.value)
    BY <1>2 DEF Put
  <2>2. GoodNumber(Number(p.value, convert(p.value)))
    BY <1>1, <1>2, NumberReadsBack DEF Insertable
  <2> QED
    BY <2>1, <2>2, PutNumberIsTrue DEF formatInteger
<1>3. CASE p.what = "pointer"
  <2>1. Put(s, p) = formatPointer(s, p.value)
    BY <1>3 DEF Put
  <2>2. GoodNumber(Pointer(p.value, convertHex(p.value)))
    BY <1>3, PointerReadsBack DEF Insertable
  <2> QED
    BY <2>1, <2>2, PutNumberIsTrue DEF formatPointer
<1>4. CASE p.what = "double"
  <2>1. Put(s, p) = formatDouble(s, p.len)
    BY <1>4 DEF Put
  <2>2. Text("double", p.len) \in GoodPieces
    <3>1. "double" \in TextNames
      BY DEF TextNames
    <3> QED
      BY <1>1, <3>1, TextIsGood
  <2>3. GoodNumber(Text("double", p.len))
    <3>1. p.len < kMaxNumericSize /\ kMaxNumericSize \in Nat
      BY <1>4, BufferAssumption DEF Insertable
    <3>2. Text("double", p.len).len = p.len
      BY DEF Text
    <3> QED
      BY <1>1, <2>2, <3>1, <3>2 DEF GoodNumber
  <2> QED
    BY <2>1, <2>3, PutNumberIsTrue DEF formatDouble
<1>5. CASE p.what \in {"string", "char", "bool"}
  <2>1. Put(s, p) = append(s, p)
    BY <1>5 DEF Put
  <2>2. ReadsBack(p)
    BY <1>5 DEF ReadsBack
  <2>3. p \in [what : {"int", "pointer"} \cup TextNames, len : Nat, value : Int, chars : Seq(Int)]
    <3>1. p.what \in TextNames
      BY <1>5 DEF TextNames
    <3>2. p.chars \in Seq(Int)
      BY <1>1
    <3> QED
      BY <1>1, <3>1, <3>2 DEF Pieces
  <2> QED
    BY <2>1, <2>2, <2>3, AppendIsTrue DEF GoodPieces
<1> QED
  BY <1>2, <1>3, <1>4, <1>5 DEF Pieces

\* A statement's pieces, one after the other.
LEMMA PutAllIsTrue ==
    ASSUME NEW s \in TrueStreams, NEW ps \in Seq(Pieces),
           \A i \in DOMAIN ps : Insertable(ps[i])
    PROVE  PutAll(s, ps) \in TrueStreams
<1> DEFINE Eq(f) == f = [n \in 0..Len(ps) |-> IF n = 0 THEN s ELSE Put(f[n - 1], ps[n])]
<1>1. PICK R \in Nat : R = Len(ps)
  OBVIOUS
<1>2. PICK g : g = [z \in (1..R) \X TrueStreams |-> Put(z[2], ps[z[1]])]
  OBVIOUS
<1>3. \A n \in 1..R : ps[n] \in Pieces /\ Insertable(ps[n])
  BY <1>1
<1>4. g \in [(1..R) \X TrueStreams -> TrueStreams]
  <2>1. ASSUME NEW z \in (1..R) \X TrueStreams PROVE Put(z[2], ps[z[1]]) \in TrueStreams
    <3>1. PICK n \in 1..R, x \in TrueStreams : z[1] = n /\ z[2] = x
      OBVIOUS
    <3>2. Put(x, ps[n]) \in TrueStreams
      BY <1>3, PutIsTrue
    <3> QED
      BY <3>1, <3>2
  <2> QED
    BY <1>2, <2>1
<1>5. PICK v : Recurs(R, TrueStreams, g, s, v)
  BY <1>4, RecursionExists
<1>6. v \in [0..R -> TrueStreams] /\ v[0] = s /\ \A n \in 1..R : v[n] = g[<<n, v[n - 1]>>]
  BY <1>5 DEF Recurs
<1>7. ASSUME NEW n \in 1..R PROVE v[n] = Put(v[n - 1], ps[n])
  <2>1. n - 1 \in 0..R
    OBVIOUS
  <2>2. PICK x \in TrueStreams : x = v[n - 1]
    BY <1>6, <2>1
  <2>3. <<n, x>> \in (1..R) \X TrueStreams
    OBVIOUS
  <2>4. g[<<n, x>>] = Put(x, ps[n])
    BY <1>2, <2>3
  <2> QED
    BY <1>6, <2>2, <2>4
<1>8. Eq(v)
  <2>1. ASSUME NEW n \in 0..R PROVE v[n] = IF n = 0 THEN s ELSE Put(v[n - 1], ps[n])
    <3>1. n = 0 \/ n \in 1..R
      BY <1>1
    <3> QED
      BY <1>6, <1>7, <3>1
  <2>2. v = [n \in 0..R |-> v[n]]
    BY <1>6
  <2> QED
    BY <1>1, <2>1, <2>2
<1>9. PutAll(s, ps) = (CHOOSE f : Eq(f))[R]
  BY <1>1 DEF PutAll
<1> HIDE DEF Eq
<1>10. PICK f : f = (CHOOSE k : Eq(k)) /\ Eq(f)
  BY <1>8
<1>11. f = [n \in 0..R |-> IF n = 0 THEN s ELSE Put(f[n - 1], ps[n])]
  BY <1>1, <1>10 DEF Eq
<1> DEFINE Is == {n \in Nat : n <= R => f[n] \in TrueStreams}
<1>12. 0 \in Is
  <2>1. 0 \in 0..R
    BY <1>1
  <2>2. f[0] = s
    BY <1>11, <2>1
  <2> QED
    BY <2>2
<1>13. ASSUME NEW n \in Nat, n \in Is PROVE n + 1 \in Is
  <2> SUFFICES ASSUME n + 1 <= R PROVE f[n + 1] \in TrueStreams
    OBVIOUS
  <2>1. PICK m : m = n + 1
    OBVIOUS
  <2>2. m \in 0..R /\ m \in 1..R /\ m # 0 /\ m - 1 = n /\ n <= R
    BY <1>1, <2>1
  <2>3. f[n] \in TrueStreams
    BY <1>13, <2>2
  <2> HIDE DEF Is
  <2>4. f[m] = Put(f[n], ps[m])
    BY <1>11, <2>2
  <2>5. Put(f[n], ps[m]) \in TrueStreams
    BY <1>3, <2>2, <2>3, PutIsTrue
  <2> QED
    BY <2>1, <2>4, <2>5
<1> HIDE DEF Is
<1>14. R \in Is
  BY <1>1, <1>12, <1>13, Induction
<1> QED
  BY <1>9, <1>10, <1>14 DEF Is

\* Impl's constructor, and the message of errno or the function.
LEMMA HeaderIsTrue ==
    ASSUME NEW zoned
    PROVE  /\ Header(zoned) \in TrueStreams
           /\ \A s \in TrueStreams : WithErrno(s) \in TrueStreams /\ WithFunc(s) \in TrueStreams
<1>1. {"time", "us", "usZ", "tid", "space", "level", "strerror", " (errno=", ") ", "func", "' '"}
        \subseteq TextNames
  BY DEF TextNames
<1>2. Header(zoned) \in TrueStreams
  <2>1. PICK us : us = IF zoned THEN Text("us", 8) ELSE Text("usZ", 9)
    OBVIOUS
  <2>2. us \in GoodPieces
    BY <1>1, <2>1, TextIsGood
  <2>3. PICK a : a = append(EmptyStream, Text("time", 17))
    OBVIOUS
  <2>4. a \in TrueStreams
    BY <1>1, <2>3, EmptyIsTrue, AppendText
  <2>5. PICK b : b = append(a, us)
    OBVIOUS
  <2>6. b \in TrueStreams
    BY <2>2, <2>4, <2>5, AppendIsTrue
  <2>7. append(b, Text("tid", 6)) \in TrueStreams
    BY <1>1, <2>6, AppendText
  <2>8. append(append(b, Text("tid", 6)), Text("space", 1)) \in TrueStreams
    BY <1>1, <2>7, AppendText
  <2>9. append(append(append(b, Text("tid", 6)), Text("space", 1)), Text("level", 6)) \in TrueStreams
    BY <1>1, <2>8, AppendText
  <2> QED
    BY <2>1, <2>3, <2>5, <2>9 DEF Header
<1>3. ASSUME NEW s \in TrueStreams PROVE WithErrno(s) \in TrueStreams
  <2>1. append(s, Text("strerror", 12)) \in TrueStreams
    BY <1>1, AppendText
  <2>2. PICK a : a = append(append(s, Text("strerror", 12)), Text(" (errno=", 8))
    OBVIOUS
  <2>3. a \in TrueStreams
    BY <1>1, <2>1, <2>2, AppendText
  <2>4. GoodNumber(Number(24, convert(24)))
    BY LineNumbersFit, NumberReadsBack
  <2>5. formatInteger(a, 24) \in TrueStreams
    BY <2>3, <2>4, PutNumberIsTrue DEF formatInteger
  <2>6. append(formatInteger(a, 24), Text(") ", 2)) \in TrueStreams
    BY <1>1, <2>5, AppendText
  <2> QED
    BY <2>2, <2>6 DEF WithErrno
<1>4. ASSUME NEW s \in TrueStreams PROVE WithFunc(s) \in TrueStreams
  <2>1. append(s, Text("func", 9)) \in TrueStreams
    BY <1>1, AppendText
  <2>2. append(append(s, Text("func", 9)), Text("' '", 1)) \in TrueStreams
    BY <1>1, <2>1, AppendText
  <2> QED
    BY <2>2 DEF WithFunc
<1> QED
  BY <1>2, <1>3, <1>4

\* finish.
LEMMA FinishIsTrue ==
    ASSUME NEW s \in TrueStreams
    PROVE  Finish(s) \in TrueStreams
<1>1. {" - ", "basename", "':'", "'\\n'"} \subseteq TextNames
  BY DEF TextNames
<1>2. append(s, Text(" - ", 3)) \in TrueStreams
  BY <1>1, AppendText
<1>3. append(append(s, Text(" - ", 3)), Text("basename", 10)) \in TrueStreams
  BY <1>1, <1>2, AppendText
<1>4. PICK a : a = append(append(append(s, Text(" - ", 3)), Text("basename", 10)), Text("':'", 1))
  OBVIOUS
<1>5. a \in TrueStreams
  BY <1>1, <1>3, <1>4, AppendText
<1>6. GoodNumber(Number(149, convert(149)))
  BY LineNumbersFit, NumberReadsBack
<1>7. formatInteger(a, 149) \in TrueStreams
  BY <1>5, <1>6, PutNumberIsTrue DEF formatInteger
<1>8. append(formatInteger(a, 149), Text("'\\n'", 1)) \in TrueStreams
  BY <1>1, <1>7, AppendText
<1> QED
  BY <1>4, <1>8 DEF Finish

\* The stream of a Logger when it is destroyed.
LEMMA LineIsTrueStream ==
    ASSUME NEW l, l.stmt \in Statements
    PROVE  Line(l) \in TrueStreams
<1>1. PICK stmt \in Statements : stmt = l.stmt
  OBVIOUS
<1>2. PICK ps : ps = stmt.pieces
  OBVIOUS
<1>3. ps \in Seq(Pieces) /\ \A i \in DOMAIN ps : Insertable(ps[i])
  BY <1>1, <1>2, StatementsAssumption
<1>4. PICK header : header = Header(l.zoned)
  OBVIOUS
<1>5. header \in TrueStreams
  BY <1>4, HeaderIsTrue
<1>6. PICK s : s = IF l.stmt.errno THEN WithErrno(header)
                   ELSE IF l.stmt.level <= DEBUG THEN WithFunc(header) ELSE header
  OBVIOUS
<1>7. s \in TrueStreams
  BY <1>5, <1>6, HeaderIsTrue
<1>8. PutAll(s, ps) \in TrueStreams
  BY <1>3, <1>7, PutAllIsTrue
<1>9. Line(l) = Finish(PutAll(s, ps))
  BY <1>1, <1>2, <1>4, <1>6 DEF Line
<1> QED
  BY <1>8, <1>9, FinishIsTrue

\* What LineIsTrue says of a stream.
LEMMA TrueStreamReads ==
    ASSUME NEW s \in TrueStreams
    PROVE  /\ s.high <= kSmallBuffer /\ s.cur < kSmallBuffer
           /\ \A p \in {s.pieces[i] : i \in DOMAIN s.pieces} : ReadsBack(p)
           /\ s.cur = Total(s.pieces)
           /\ Total(s.given) + kMaxNumericSize <= kSmallBuffer => s.pieces = s.given
<1>1. s \in Streams /\ Holds(s)
  BY DEF TrueStreams
<1>2. PICK ps \in Seq(GoodPieces) : ps = s.pieces
  BY <1>1 DEF Streams
<1>3. \A i \in DOMAIN ps : ReadsBack(ps[i])
  <2> SUFFICES ASSUME NEW i \in DOMAIN ps PROVE ReadsBack(ps[i])
    OBVIOUS
  <2>1. ps[i] \in GoodPieces
    OBVIOUS
  <2> QED
    BY <2>1 DEF GoodPieces
<1>4. Total(s.given) \in Nat /\ kSmallBuffer \in Nat /\ kMaxNumericSize \in Nat
  <2>1. PICK gs \in Seq(GoodPieces) : gs = s.given
    BY <1>1 DEF Streams
  <2>2. Total(gs) \in Nat
    BY TextIsGood, TotalStep DEF TextNames
  <2> QED
    BY <2>1, <2>2, BufferAssumption
<1>5. Total(s.given) + kMaxNumericSize <= kSmallBuffer => s.pieces = s.given
  BY <1>1, <1>4 DEF Holds
<1> QED
  BY <1>1, <1>2, <1>3, <1>5 DEF Holds

\* LogStream, FixedBuffer and convert: for any statements of the program, and buffers of
\* any size, nothing is written past the end of the buffer, the pieces of a line are next
\* to each other and left out only if the line does not fit, and its numbers read back.
THEOREM LineIsTrueHolds == Spec => []LineIsTrue
<1>1. LogInv => LineIsTrue
  <2> SUFFICES ASSUME LogInv PROVE LineIsTrue
    OBVIOUS
  <2>1. TypeOK /\ LoggersOK
    BY DEF LogInv
  <2>2. \A s \in Lines : s \in TrueStreams
    BY <2>1, LineIsTrueStream DEF Lines, LoggersOK
  <2> QED
    BY <2>1, <2>2, TrueStreamReads DEF LineIsTrue
<1> QED
  BY <1>1, LoggerInvariant, PTL
=============================================================================
