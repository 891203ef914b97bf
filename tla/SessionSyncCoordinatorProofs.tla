--------------------- MODULE SessionSyncCoordinatorProofs ---------------------
(***************************************************************************)
(* The coordinator keeps each entry in one place, keeps what it owes to    *)
(* the flushes and drops no event, for any sessions, events and flushes    *)
(* and any size of the pool.                                               *)
(***************************************************************************)
EXTENDS SessionSyncCoordinator, SequenceTheorems, FiniteSetTheorems, WellFoundedInduction, TLAPS

------------------------------------------------------------------------------
(* Induction over the naturals, for a set in place of a predicate *)

LEMMA NaturalMinimum ==
  ASSUME NEW S \in SUBSET Nat, S # {}
  PROVE  \E x \in S : \A y \in S : x <= y
<1> DEFINE R == {p \in Nat \X Nat : p[1] < p[2]}
<1>1. IsWellFoundedOn(R, Nat)
  BY NatLessThanWellFounded DEF OpToRel
<1>2. PICK x \in S : \A y \in S : ~(<<y, x>> \in R)
  <2> HIDE DEF R
  <2> QED BY <1>1, WFMin
<1>3. \A y \in S : ~(y < x)
  BY <1>2
<1> QED BY <1>3

LEMMA Induction ==
  ASSUME NEW S \in SUBSET Nat, 0 \in S, \A n \in S : n + 1 \in S
  PROVE  \A n \in Nat : n \in S
<1> SUFFICES ASSUME Nat \ S # {} PROVE FALSE
  OBVIOUS
<1>1. PICK x \in Nat \ S : \A y \in Nat \ S : x <= y
  <2> DEFINE D == Nat \ S
  <2>1. D \in SUBSET Nat /\ D # {}
    OBVIOUS
  <2> HIDE DEF D
  <2>2. \E x \in D : \A y \in D : x <= y
    BY <2>1, NaturalMinimum
  <2> QED BY <2>2 DEF D
<1>2. x # 0 /\ x - 1 \in Nat
  BY <1>1
<1>3. x - 1 \in S
  BY <1>1, <1>2
<1>4. (x - 1) + 1 \in S
  BY <1>3
<1> QED BY <1>1, <1>4

------------------------------------------------------------------------------
(* The queue *)

KeptOf(q, ks, n, g) ==
    IF n = 0 THEN <<>> ELSE IF q[n] \in ks THEN Append(g[n - 1], q[n]) ELSE g[n - 1]

Keeping(q, ks, N, g) == g = [n \in 0..N |-> KeptOf(q, ks, n, g)]

\* The function Filter is defined by exists.
LEMMA KeptExists ==
  ASSUME NEW q, NEW ks, NEW N \in Nat
  PROVE  \E g : Keeping(q, ks, N, g)
<1> DEFINE S == {m \in Nat : \E g : Keeping(q, ks, m, g)}
<1>1. 0 \in S
  <2> DEFINE g == [n \in 0..0 |-> <<>>]
  <2>1. g = [n \in 0..0 |-> KeptOf(q, ks, n, g)]
    BY DEF KeptOf
  <2>2. Keeping(q, ks, 0, g)
    BY <2>1 DEF Keeping
  <2> QED BY <2>2
<1>2. ASSUME NEW m \in S PROVE m + 1 \in S
  <2>1. PICK g : g = [n \in 0..m |-> KeptOf(q, ks, n, g)]
    BY DEF Keeping
  <2> DEFINE h == [n \in 0..(m + 1) |-> IF n = m + 1 THEN KeptOf(q, ks, n, g) ELSE g[n]]
  <2>2. m \in Nat
    OBVIOUS
  <2>3. \A n \in 0..(m + 1) : h[n] = KeptOf(q, ks, n, h)
    <3> SUFFICES ASSUME NEW n \in 0..(m + 1) PROVE h[n] = KeptOf(q, ks, n, h)
      OBVIOUS
    <3>1. n # 0 => n - 1 \in 0..m /\ n - 1 # m + 1 /\ n - 1 \in 0..(m + 1)
      BY <2>2
    <3>2. n # 0 => h[n - 1] = g[n - 1]
      BY <3>1
    <3>3. KeptOf(q, ks, n, h) = KeptOf(q, ks, n, g)
      BY <3>2 DEF KeptOf
    <3>4. n # m + 1 => n \in 0..m
      BY <2>2
    <3>5. n # m + 1 => g[n] = KeptOf(q, ks, n, g)
      BY <2>1, <3>4
    <3> QED BY <3>3, <3>5
  <2>4. Keeping(q, ks, m + 1, h)
    <3>1. h = [n \in 0..(m + 1) |-> KeptOf(q, ks, n, h)]
      BY <2>3
    <3> HIDE DEF h
    <3> QED BY <3>1 DEF Keeping
  <2> HIDE DEF h
  <2> QED BY <2>2, <2>4
<1> HIDE DEF S
<1>3. N \in S
  <2>1. S \in SUBSET Nat
    BY DEF S
  <2> QED BY <1>1, <1>2, <2>1, Induction
<1> QED BY <1>3 DEF S

\* Filter leaves, in a sequence without repetitions, the elements that are in
\* ks, each once.
Injective(q) == \A i, j \in DOMAIN q : q[i] = q[j] => i = j
Elements(q) == {q[i] : i \in DOMAIN q}

Extended(q, x, r) == Elements(r) = Elements(q) \cup {x}

LEMMA AppendKeepsInjective ==
  ASSUME NEW T, NEW q \in Seq(T), NEW x \in T, NEW r, r = Append(q, x),
         Injective(q), x \notin Elements(q)
  PROVE  r \in Seq(T) /\ Injective(r) /\ Extended(q, x, r)
<1>1. /\ Len(q) \in Nat /\ DOMAIN q = 1..Len(q)
      /\ r \in Seq(T) /\ DOMAIN r = 1..(Len(q) + 1)
      /\ r[Len(q) + 1] = x /\ \A i \in 1..Len(q) : r[i] = q[i]
  BY LenProperties, AppendProperties
<1>2. \A i \in DOMAIN r : i \in DOMAIN q \/ i = Len(q) + 1
  BY <1>1
<1>3. \A i \in DOMAIN q : r[i] = q[i] /\ q[i] # x /\ i \in DOMAIN r
  BY <1>1 DEF Elements
<1>4. Injective(r)
  BY <1>1, <1>2, <1>3 DEF Injective
<1>5. Extended(q, x, r)
  <2>1. Len(q) + 1 \in DOMAIN r
    BY <1>1
  <2> QED BY <1>1, <1>2, <1>3, <2>1 DEF Elements, Extended
<1> QED BY <1>1, <1>4, <1>5

LEMMA FilterProperties ==
  ASSUME NEW T, NEW q \in Seq(T), NEW ks, Injective(q)
  PROVE  /\ Filter(q, ks) \in Seq(T) /\ Injective(Filter(q, ks))
         /\ Elements(Filter(q, ks)) = Elements(q) \cap ks
<1> DEFINE N == Len(q)
           f == CHOOSE g : g = [n \in 0..N |-> IF n = 0 THEN <<>>
                                 ELSE IF q[n] \in ks THEN Append(g[n - 1], q[n]) ELSE g[n - 1]]
<1>1. N \in Nat /\ DOMAIN q = 1..N /\ \A i \in 1..N : q[i] \in T
  BY LenProperties, ElementOfSeq
<1>2. f = [n \in 0..N |-> KeptOf(q, ks, n, f)]
  <2>1. \E g : g = [n \in 0..N |-> IF n = 0 THEN <<>>
                        ELSE IF q[n] \in ks THEN Append(g[n - 1], q[n]) ELSE g[n - 1]]
    <3>1. N \in Nat
      BY <1>1
    <3>2. \E g : Keeping(q, ks, N, g)
      <4> HIDE DEF N
      <4> QED BY <3>1, KeptExists
    <3> QED BY <3>2, Zenon DEF KeptOf, Keeping
  <2>2. f = [n \in 0..N |-> IF n = 0 THEN <<>>
                        ELSE IF q[n] \in ks THEN Append(f[n - 1], q[n]) ELSE f[n - 1]]
    BY <2>1, Zenon
  <2> HIDE DEF f
  <2> QED BY <2>2 DEF KeptOf
<1>3. Filter(q, ks) = f[N]
  BY DEF Filter
<1> HIDE DEF f, N
<1> DEFINE Good(n) == /\ f[n] \in Seq(T) /\ Injective(f[n])
                      /\ Elements(f[n]) = {q[i] : i \in 1..n} \cap ks
           S == {n \in Nat : n <= N => Good(n)}
<1>4. 0 \in S
  <2>1. f[0] = <<>>
    BY <1>1, <1>2 DEF KeptOf
  <2>2. /\ <<>> \in Seq(T) /\ Injective(<<>>) /\ Elements(<<>>) = {}
    BY DEF Injective, Elements
  <2>3. {q[i] : i \in 1..0} = {}
    OBVIOUS
  <2> QED BY <2>1, <2>2, <2>3
<1>5. ASSUME NEW n \in S PROVE n + 1 \in S
  <2> SUFFICES ASSUME n + 1 <= N PROVE Good(n + 1)
    OBVIOUS
  <2>1. /\ n \in Nat /\ n + 1 \in 1..N /\ n + 1 \in 0..N /\ n + 1 # 0 /\ (n + 1) - 1 = n
    BY <1>1
  <2>2. Good(n)
    BY <1>1, <2>1
  <2>3. f[n + 1] = IF q[n + 1] \in ks THEN Append(f[n], q[n + 1]) ELSE f[n]
    BY <1>2, <2>1 DEF KeptOf
  <2>4. q[n + 1] \in T
    BY <1>1, <2>1
  <2>5. {q[i] : i \in 1..(n + 1)} = {q[i] : i \in 1..n} \cup {q[n + 1]}
    BY <2>1
  <2>6. CASE q[n + 1] \notin ks
    BY <2>2, <2>3, <2>5, <2>6
  <2>7. CASE q[n + 1] \in ks
    <3>1. q[n + 1] \notin Elements(f[n])
      <4>1. \A i \in 1..n : i \in DOMAIN q /\ i # n + 1
        BY <1>1, <2>1
      <4>2. \A i \in 1..n : q[i] # q[n + 1]
        BY <4>1, <1>1, <2>1 DEF Injective
      <4> QED BY <4>2, <2>2
    <3>2. f[n + 1] = Append(f[n], q[n + 1])
      BY <2>3, <2>7
    <3>3. /\ f[n + 1] \in Seq(T) /\ Injective(f[n + 1])
          /\ Elements(f[n + 1]) = Elements(f[n]) \cup {q[n + 1]}
      <4> DEFINE g == f[n]
                 h == f[n + 1]
                 x == q[n + 1]
      <4>1. g \in Seq(T) /\ Injective(g) /\ x \in T /\ x \notin Elements(g) /\ h = Append(g, x)
        BY <2>2, <2>4, <3>1, <3>2
      <4>2. h \in Seq(T) /\ Injective(h) /\ Extended(g, x, h)
        <5> HIDE DEF g, h, x, Good, S
        <5> QED BY <4>1, AppendKeepsInjective
      <4> QED BY <4>2 DEF Extended
    <3>4. Elements(f[n + 1]) = {q[i] : i \in 1..(n + 1)} \cap ks
      BY <3>2, <3>3, <2>2, <2>5, <2>7
    <3> QED BY <3>2, <3>3, <3>4
  <2> QED BY <2>6, <2>7
<1>6. Good(N)
  <2>1. S \in SUBSET Nat
    OBVIOUS
  <2> HIDE DEF S
  <2>2. N \in S
    BY <1>1, <1>4, <1>5, <2>1, Induction
  <2> QED BY <2>2, <1>1 DEF S
<1>7. Elements(q) = {q[i] : i \in 1..N}
  BY <1>1 DEF Elements
<1> QED BY <1>3, <1>6, <1>7

\* A queue of keys without repetitions, and what may be done to it.
OneLine(q) == q \in Seq(Keys) /\ Injective(q)
Filtered(q, ks) == Elements(Filter(q, ks)) = Elements(q) \cap ks
Joined(q, r) == Elements(q \o r) = Elements(q) \cup Elements(r)

LEMMA FilterLine ==
  ASSUME NEW q, OneLine(q), NEW ks
  PROVE  OneLine(Filter(q, ks)) /\ Filtered(q, ks)
BY FilterProperties DEF OneLine, Filtered

LEMMA WithoutLine ==
  ASSUME NEW q, OneLine(q), NEW ks
  PROVE  /\ OneLine(Without(q, ks))
         /\ \A k \in Keys : k \in Elements(Without(q, ks)) <=> k \in Elements(q) /\ k \notin ks
BY FilterLine DEF Without, Filtered

LEMMA AppendLine ==
  ASSUME NEW q, OneLine(q), NEW k \in Keys, k \notin Elements(q)
  PROVE  OneLine(Append(q, k)) /\ Extended(q, k, Append(q, k))
<1> DEFINE r == Append(q, k)
<1>1. q \in Seq(Keys) /\ Injective(q) /\ r = Append(q, k)
  BY DEF OneLine
<1>2. r \in Seq(Keys) /\ Injective(r) /\ Extended(q, k, r)
  <2> HIDE DEF r
  <2> QED BY <1>1, AppendKeepsInjective
<1> QED BY <1>2 DEF OneLine

LEMMA JoinedLine ==
  ASSUME NEW q, NEW r, OneLine(q), OneLine(r), Elements(q) \cap Elements(r) = {}
  PROVE  OneLine(q \o r) /\ Joined(q, r) /\ Len(q \o r) = Len(q) + Len(r)
<1> DEFINE c == q \o r
<1>1. /\ q \in Seq(Keys) /\ r \in Seq(Keys)
      /\ Len(q) \in Nat /\ Len(r) \in Nat /\ DOMAIN q = 1..Len(q) /\ DOMAIN r = 1..Len(r)
  BY LenProperties DEF OneLine
<1>2. /\ c \in Seq(Keys) /\ Len(c) = Len(q) + Len(r) /\ DOMAIN c = 1..(Len(q) + Len(r))
      /\ \A i \in 1..(Len(q) + Len(r)) : c[i] = IF i <= Len(q) THEN q[i] ELSE r[i - Len(q)]
  BY <1>1, ConcatProperties, LenProperties
<1> HIDE DEF c
<1>3. ASSUME NEW i \in DOMAIN c
      PROVE  \/ i \in DOMAIN q /\ i <= Len(q) /\ c[i] = q[i]
             \/ i - Len(q) \in DOMAIN r /\ i > Len(q) /\ c[i] = r[i - Len(q)]
  BY <1>1, <1>2
<1>4. Injective(c)
  <2> SUFFICES ASSUME NEW i \in DOMAIN c, NEW j \in DOMAIN c, c[i] = c[j] PROVE i = j
    BY DEF Injective
  <2>1. i \in Nat /\ j \in Nat
    BY <1>1, <1>2
  <2>2. CASE i <= Len(q) /\ j <= Len(q)
    <3>1. i \in DOMAIN q /\ j \in DOMAIN q /\ q[i] = q[j]
      BY <1>3, <2>1, <2>2, <1>1
    <3> QED BY <3>1 DEF OneLine, Injective
  <2>3. CASE i > Len(q) /\ j > Len(q)
    <3>1. i - Len(q) \in DOMAIN r /\ j - Len(q) \in DOMAIN r /\ r[i - Len(q)] = r[j - Len(q)]
      BY <1>3, <2>1, <2>3, <1>1
    <3>2. i - Len(q) = j - Len(q)
      BY <3>1 DEF OneLine, Injective
    <3> QED BY <3>2, <2>1, <1>1
  <2>4. CASE i <= Len(q) /\ j > Len(q)
    <3>1. c[i] \in Elements(q) /\ c[j] \in Elements(r)
      BY <1>3, <2>1, <2>4, <1>1 DEF Elements
    <3> QED BY <3>1
  <2>5. CASE i > Len(q) /\ j <= Len(q)
    <3>1. c[j] \in Elements(q) /\ c[i] \in Elements(r)
      BY <1>3, <2>1, <2>5, <1>1 DEF Elements
    <3> QED BY <3>1
  <2> QED BY <2>1, <1>1, <2>2, <2>3, <2>4, <2>5
<1>5. Joined(q, r)
  <2>1. \A i \in DOMAIN q : i \in DOMAIN c /\ c[i] = q[i]
    BY <1>1, <1>2
  <2>2. ASSUME NEW i \in DOMAIN r PROVE i + Len(q) \in DOMAIN c /\ c[i + Len(q)] = r[i]
    BY <1>1, <1>2
  <2>3. Elements(c) \subseteq Elements(q) \cup Elements(r)
    BY <1>3 DEF Elements
  <2>4. Elements(q) \cup Elements(r) \subseteq Elements(c)
    BY <2>1, <2>2 DEF Elements
  <2>5. Elements(c) = Elements(q) \cup Elements(r)
    BY <2>3, <2>4
  <2> QED BY <2>5 DEF Joined, c
<1>6. OneLine(c)
  BY <1>2, <1>4 DEF OneLine
<1> QED BY <1>2, <1>5, <1>6 DEF c

------------------------------------------------------------------------------
(* The invariant, for the entries, the queue and the flushes between two   *)
(* steps or in the middle of one                                           *)

Placed(e) ==
    \/ e.timer /\ ~e.queued /\ ~e.running
    \/ ~e.timer /\ e.queued /\ ~e.running
    \/ ~e.timer /\ ~e.queued /\ e.running

Sane(e) == e \in Entries /\ Placed(e)

EntriesSane(es) ==
    /\ es \in [Keys -> Entries \cup {NoEntry}]
    /\ \A k \in Keys : es[k] # NoEntry => Sane(es[k])

InLine(es, q) ==
    /\ OneLine(q)
    /\ \A k \in Keys : k \in Elements(q) <=> es[k] # NoEntry /\ es[k].queued

\* A run that nobody asked to repeat began with the newest event.
UpToDate(e) == (e.running /\ ~e.rerunRequested) => e.runningGeneration = e.latestGeneration
Current(es) == \A k \in Keys : es[k] # NoEntry => UpToDate(es[k])

\* TargetsAreForced, of some entries.
Owes(e, n) ==
    /\ e.queued \/ e.running
    /\ e.forceThroughGeneration >= n
    /\ e.completedGeneration < n
Owed(es, tg, fl) ==
    \A w \in Flushes, k \in Keys :
      (fl[w] = "waiting" /\ tg[w][k] > 0) => es[k] # NoEntry /\ Owes(es[k], tg[w][k])

\* The pool has a worker for each run.
Pool(es) == Cardinality(Running(es)) <= concurrency

LEMMA FiniteKeys ==
  ASSUME CoordinatorAssumption
  PROVE  IsFiniteSet(Keys) /\ Cardinality(Keys) \in Nat
<1>1. IsFiniteSet({"file", "session"})
  <2>1. IsFiniteSet({}) /\ IsFiniteSet({} \cup {"file"})
    BY FS_EmptySet, FS_AddElement
  <2>2. IsFiniteSet(({} \cup {"file"}) \cup {"session"})
    BY <2>1, FS_AddElement
  <2>3. ({} \cup {"file"}) \cup {"session"} = {"file", "session"}
    OBVIOUS
  <2> QED BY <2>2, <2>3
<1>2. IsFiniteSet(Keys)
  BY <1>1, FS_Product DEF Keys, CoordinatorAssumption
<1> QED BY <1>2, FS_CardinalityType

LEMMA Drains ==
  ASSUME CoordinatorAssumption, NEW es, NEW q, NEW fl, EntriesSane(es), InLine(es, q)
  PROVE  /\ Drainable(es, q, fl) \subseteq Elements(q)
         /\ Pool(es) => Cardinality(Running(es)) + Cardinality(Drainable(es, q, fl)) <= concurrency
<1> DEFINE ks == {k \in Present(es) : Waiting(fl) => Forced(es[k])}
           eligible == Filter(q, ks)
           room == IF stopped THEN 0 ELSE concurrency - Cardinality(Running(es))
<1>1. OneLine(eligible) /\ Filtered(q, ks)
  <2> HIDE DEF ks
  <2> QED BY FilterLine DEF InLine
<1>2. Len(eligible) \in Nat /\ DOMAIN eligible = 1..Len(eligible)
  BY <1>1, LenProperties DEF OneLine
<1>3. Running(es) \subseteq Keys
  BY DEF Running, Present
<1>4. Cardinality(Running(es)) \in Nat /\ concurrency \in Nat /\ room \in Int
  <2>1. Cardinality(Running(es)) \in Nat
    BY <1>3, FiniteKeys, FS_Subset, FS_CardinalityType
  <2> QED BY <2>1 DEF CoordinatorAssumption
<1>5. Drainable(es, q, fl) = {eligible[i] : i \in 1..Lesser(room, Len(eligible))}
  BY DEF Drainable
<1>6. Pool(es) => room >= 0 /\ Cardinality(Running(es)) + room <= concurrency
  BY <1>4 DEF Pool
<1> HIDE DEF eligible, room, ks
<1>7. 1..Lesser(room, Len(eligible)) \subseteq DOMAIN eligible
  BY <1>2, <1>4 DEF Lesser
<1>8. \A i \in DOMAIN eligible : eligible[i] \in Elements(q)
  BY <1>1 DEF Filtered, Elements, eligible
<1>9. Pool(es) => Cardinality(Drainable(es, q, fl)) <= room /\ Cardinality(Drainable(es, q, fl)) \in Nat
  <2> SUFFICES ASSUME Pool(es)
               PROVE  /\ Cardinality(Drainable(es, q, fl)) <= room
                      /\ Cardinality(Drainable(es, q, fl)) \in Nat
    OBVIOUS
  <2> DEFINE m == Lesser(room, Len(eligible))
             D == Drainable(es, q, fl)
             g == [i \in 1..m |-> eligible[i]]
  <2>1. m \in Nat /\ m <= room
    BY <1>2, <1>4, <1>6 DEF Lesser
  <2> HIDE DEF m
  <2>2. D = {eligible[i] : i \in 1..m}
    BY <1>5 DEF m
  <2> HIDE DEF D
  <2>3. g \in Surjection(1..m, D)
    BY <2>2 DEF Surjection
  <2>4. IsFiniteSet(1..m) /\ Cardinality(1..m) = m
    BY <2>1, FS_Interval
  <2> HIDE DEF g
  <2>5. IsFiniteSet(D) /\ Cardinality(D) <= m
    BY <2>3, <2>4, FS_Surjection
  <2>6. Cardinality(D) \in Nat
    BY <2>5, FS_CardinalityType
  <2>7. Cardinality(D) <= room
    BY <1>4, <2>1, <2>5, <2>6
  <2> QED BY <2>6, <2>7 DEF D
<1>10. Pool(es) => Cardinality(Running(es)) + Cardinality(Drainable(es, q, fl)) <= concurrency
  BY <1>4, <1>6, <1>9
<1> QED BY <1>5, <1>7, <1>8, <1>10

\* What drain leaves.
Begun(e) == [e EXCEPT !.queued = FALSE, !.running = TRUE, !.runningGeneration = e.latestGeneration]

LEMMA BegunIsSane ==
  ASSUME NEW e, Sane(e), e.queued
  PROVE  /\ Sane(Begun(e)) /\ UpToDate(Begun(e)) /\ ~Begun(e).queued
         /\ \A n : Owes(e, n) => Owes(Begun(e), n)
<1>1. Begun(e) \in Entries
  BY DEF Begun, Sane, Entries
<1>2. Placed(Begun(e)) /\ UpToDate(Begun(e)) /\ ~Begun(e).queued
  BY DEF Begun, Sane, Entries, Placed, UpToDate
<1>3. \A n : Owes(e, n) => Owes(Begun(e), n)
  BY DEF Begun, Sane, Entries, Owes
<1> QED BY <1>1, <1>2, <1>3 DEF Sane

LEMMA DrainKeeps ==
  ASSUME CoordinatorAssumption, NEW es, NEW q, NEW fl, NEW tg,
         EntriesSane(es), InLine(es, q), Drain(es, q, fl)
  PROVE  /\ EntriesSane(entries') /\ InLine(entries', queue')
         /\ Present(entries') = Present(es)
         /\ Pool(es) => Pool(entries')
         /\ Current(es) => Current(entries')
         /\ Owed(es, tg, fl) => Owed(entries', tg, fl)
<1> DEFINE started == Drainable(es, q, fl)
<1>1. started \subseteq Elements(q)
  BY Drains
<1>2. \A k \in started : k \in Keys /\ es[k] # NoEntry /\ Sane(es[k]) /\ es[k].queued
  <2>1. Elements(q) \subseteq Keys
    BY LenProperties, ElementOfSeq DEF InLine, OneLine, Elements
  <2> QED BY <1>1, <2>1 DEF InLine, EntriesSane
<1>3. entries' = [k \in Keys |-> IF k \in started THEN Begun(es[k]) ELSE es[k]]
  BY DEF Drain, Begun
<1>4. queue' = Without(q, started)
  BY DEF Drain
<1> HIDE DEF started
<1>5. \A k \in Keys : entries'[k] = IF k \in started THEN Begun(es[k]) ELSE es[k]
  BY <1>3
<1>6. \A k \in started : Sane(Begun(es[k])) /\ UpToDate(Begun(es[k])) /\ ~Begun(es[k]).queued
  BY <1>2, BegunIsSane
<1>7. \A e : Sane(e) => e \in Entries /\ e # NoEntry
  BY CoordinatorAssumption DEF Sane, CoordinatorAssumption
<1>8. EntriesSane(entries')
  BY <1>3, <1>5, <1>6, <1>7 DEF EntriesSane
<1>9. InLine(entries', queue')
  <2>1. /\ OneLine(queue')
        /\ \A k \in Keys : k \in Elements(queue') <=> k \in Elements(q) /\ k \notin started
    BY <1>4, WithoutLine DEF InLine
  <2> QED BY <2>1, <1>5, <1>6 DEF InLine
<1>10. Present(entries') = Present(es)
  BY <1>2, <1>5, <1>6, <1>7 DEF Present
<1>11. Current(es) => Current(entries')
  BY <1>5, <1>6 DEF Current
<1>12. Owed(es, tg, fl) => Owed(entries', tg, fl)
  <2> SUFFICES ASSUME Owed(es, tg, fl), NEW w \in Flushes, NEW k \in Keys,
                      fl[w] = "waiting" /\ tg[w][k] > 0
               PROVE  entries'[k] # NoEntry /\ Owes(entries'[k], tg[w][k])
    BY DEF Owed
  <2>1. es[k] # NoEntry /\ Owes(es[k], tg[w][k])
    BY DEF Owed
  <2>2. CASE k \in started
    <3>1. Owes(Begun(es[k]), tg[w][k])
      BY <2>1, <2>2, <1>2, BegunIsSane
    <3> QED BY <3>1, <2>2, <1>5, <1>6, <1>7
  <2> QED BY <2>1, <2>2, <1>5
<1>13. Pool(es) => Pool(entries')
  <2> SUFFICES ASSUME Pool(es) PROVE Pool(entries')
    OBVIOUS
  <2>1. Running(entries') \subseteq Running(es) \cup started
    BY <1>5, <1>10 DEF Running, Present
  <2>2. Running(es) \subseteq Keys /\ started \subseteq Keys
    BY <1>2 DEF Running, Present
  <2>3. IsFiniteSet(Running(es)) /\ IsFiniteSet(started)
    BY <2>2, FiniteKeys, FS_Subset
  <2>4. /\ IsFiniteSet(Running(es) \cup started)
        /\ Cardinality(Running(es) \cup started) =
             Cardinality(Running(es)) + Cardinality(started) - Cardinality(Running(es) \cap started)
    BY <2>3, FS_Union
  <2>5. Cardinality(Running(entries')) <= Cardinality(Running(es) \cup started)
    BY <2>1, <2>4, FS_Subset
  <2>6. /\ Cardinality(Running(es)) \in Nat /\ Cardinality(started) \in Nat
        /\ Cardinality(Running(es) \cap started) \in Nat
        /\ Cardinality(Running(entries')) \in Nat
    <3>1. IsFiniteSet(Running(es) \cap started) /\ IsFiniteSet(Running(entries'))
      BY <2>1, <2>3, <2>4, FS_Subset
    <3> QED BY <2>3, <3>1, FS_CardinalityType
  <2>7. Cardinality(Running(es)) + Cardinality(started) <= concurrency
    BY Drains DEF started
  <2> QED BY <2>4, <2>5, <2>6, <2>7 DEF Pool, CoordinatorAssumption
<1> QED BY <1>8, <1>9, <1>10, <1>11, <1>12, <1>13

\* Fewer runs fit as well.
LEMMA FewerRuns ==
  ASSUME CoordinatorAssumption, NEW es, NEW fs, Pool(es), Running(fs) \subseteq Running(es)
  PROVE  Pool(fs)
<1>1. Running(es) \subseteq Keys
  BY DEF Running, Present
<1>2. IsFiniteSet(Running(es)) /\ IsFiniteSet(Running(fs))
  BY <1>1, FiniteKeys, FS_Subset
<1>3. Cardinality(Running(fs)) <= Cardinality(Running(es))
  BY <1>2, FS_Subset
<1> QED BY <1>2, <1>3, FS_CardinalityType DEF Pool, CoordinatorAssumption

------------------------------------------------------------------------------
(* What the steps do to an entry *)

LEMMA NewIsSane ==
  ASSUME CoordinatorAssumption, NEW n \in Generations
  PROVE  Sane(NewEntry(n)) /\ UpToDate(NewEntry(n)) /\ ~NewEntry(n).queued /\ ~NewEntry(n).running
<1>1. 0 \in Generations
  BY DEF Generations, CoordinatorAssumption
<1> QED BY <1>1 DEF NewEntry, Sane, Entries, Placed, UpToDate

LEMMA Numbers ==
  ASSUME NEW e \in Entries
  PROVE  /\ e.latestGeneration \in Nat /\ e.runningGeneration \in Nat
         /\ e.completedGeneration \in Nat /\ e.forceThroughGeneration \in Nat
BY DEF Entries, Generations

LEMMA RescheduledIsSane ==
  ASSUME CoordinatorAssumption, NEW e, Sane(e), NEW n \in Generations
  PROVE  /\ Sane(Rescheduled(e, n)) /\ UpToDate(Rescheduled(e, n))
         /\ Rescheduled(e, n).queued => e.queued
         /\ Rescheduled(e, n).running => e.running
         /\ \A m \in Generations : Owes(e, m) => Owes(Rescheduled(e, n), m)
<1>1. e \in Entries /\ Placed(e) /\ Generations \subseteq Nat
  BY DEF Sane, Generations
<1>2. CASE e.running
  <2>1. Rescheduled(e, n) = [e EXCEPT !.latestGeneration = n, !.rerunRequested = TRUE]
    BY <1>2 DEF Rescheduled
  <2> QED BY <1>1, <1>2, <2>1 DEF Entries, Sane, Placed, UpToDate, Owes
<1>3. CASE ~e.running /\ e.queued /\ Forced(e)
  <2>1. Rescheduled(e, n) = [e EXCEPT !.latestGeneration = n]
    BY <1>3 DEF Rescheduled
  <2> QED BY <1>1, <1>3, <2>1 DEF Entries, Sane, Placed, UpToDate, Owes
<1>4. CASE ~e.running /\ ~(e.queued /\ Forced(e))
  <2>1. Rescheduled(e, n) = [e EXCEPT !.latestGeneration = n, !.queued = FALSE, !.timer = TRUE]
    BY <1>4 DEF Rescheduled
  <2>2. ASSUME NEW m \in Generations PROVE ~Owes(e, m)
    <3>1. m \in Nat /\ e.completedGeneration \in Nat /\ e.forceThroughGeneration \in Nat
      BY <1>1, Numbers
    <3>2. (e.forceThroughGeneration >= m /\ e.completedGeneration < m) => Forced(e)
      BY <3>1 DEF Forced
    <3> QED BY <1>4, <3>2 DEF Owes
  <2> QED BY <1>1, <1>4, <2>1, <2>2 DEF Entries, Sane, Placed, UpToDate
<1> QED BY <1>2, <1>3, <1>4

LEMMA ForcedIsSane ==
  ASSUME NEW e, Sane(e), NEW n \in Generations
  PROVE  /\ Sane(ForceThrough(e, n))
         /\ UpToDate(e) => UpToDate(ForceThrough(e, n))
         /\ ForceThrough(e, n).queued <=> ~e.running
         /\ ForceThrough(e, n).running = e.running
         /\ \A m \in Generations : Owes(e, m) => Owes(ForceThrough(e, n), m)
         /\ e.completedGeneration < n => Owes(ForceThrough(e, n), n)
<1> DEFINE through == Larger(e.forceThroughGeneration, n)
<1>1. e \in Entries /\ Placed(e) /\ Generations \subseteq Nat
  BY DEF Sane, Generations
<1>2. through \in Generations /\ through >= n /\ through >= e.forceThroughGeneration
  <2>1. e.forceThroughGeneration \in Generations
    BY <1>1 DEF Entries
  <2>2. e.forceThroughGeneration \in Nat /\ n \in Nat
    BY <1>1, <2>1
  <2> QED BY <2>1, <2>2 DEF Larger
<1>3. CASE e.running
  <2> DEFINE rerun == (e.rerunRequested \/ e.runningGeneration < through)
  <2>1. ForceThrough(e, n) = [e EXCEPT !.forceThroughGeneration = through, !.rerunRequested = rerun]
    BY <1>3 DEF ForceThrough
  <2>2. rerun \in BOOLEAN
    BY Zenon
  <2>3. e.rerunRequested => rerun
    OBVIOUS
  <2> HIDE DEF rerun, through
  <2> DEFINE f == ForceThrough(e, n)
  <2>4. /\ f \in Entries /\ f.timer = e.timer /\ f.queued = e.queued /\ f.running = e.running
        /\ f.rerunRequested = rerun
        /\ f.runningGeneration = e.runningGeneration /\ f.latestGeneration = e.latestGeneration
        /\ f.forceThroughGeneration = through /\ f.completedGeneration = e.completedGeneration
    BY <1>1, <1>2, <2>1, <2>2 DEF Entries
  <2> HIDE DEF f
  <2>5. Sane(f) /\ (UpToDate(e) => UpToDate(f)) /\ (f.queued <=> ~e.running) /\ f.running = e.running
    BY <1>1, <1>3, <2>3, <2>4 DEF Sane, Placed, UpToDate
  <2>6. ASSUME NEW m \in Generations, Owes(e, m) PROVE Owes(f, m)
    <3>1. m \in Nat /\ through \in Nat /\ e.forceThroughGeneration \in Nat
      BY <1>1, <1>2, Numbers
    <3> QED BY <1>2, <1>3, <2>4, <2>6, <3>1 DEF Owes
  <2>7. e.completedGeneration < n => Owes(f, n)
    BY <1>2, <1>3, <2>4 DEF Owes
  <2> QED BY <2>5, <2>6, <2>7 DEF f
<1>4. CASE ~e.running
  <2>1. ForceThrough(e, n) =
          [e EXCEPT !.forceThroughGeneration = through, !.timer = FALSE, !.queued = TRUE]
    BY <1>4 DEF ForceThrough
  <2> HIDE DEF through
  <2> DEFINE f == ForceThrough(e, n)
  <2>2. /\ f \in Entries /\ ~f.timer /\ f.queued /\ ~f.running
        /\ f.forceThroughGeneration = through /\ f.completedGeneration = e.completedGeneration
    BY <1>1, <1>2, <1>4, <2>1 DEF Entries, Placed
  <2> HIDE DEF f
  <2>3. Sane(f) /\ UpToDate(f) /\ f.running = e.running
    BY <1>1, <1>4, <2>2 DEF Sane, Placed, UpToDate, Entries
  <2>4. ASSUME NEW m \in Generations, Owes(e, m) PROVE Owes(f, m)
    <3>1. m \in Nat /\ through \in Nat /\ e.forceThroughGeneration \in Nat
      BY <1>1, <1>2, Numbers
    <3> QED BY <1>2, <2>2, <2>4, <3>1 DEF Owes
  <2>5. e.completedGeneration < n => Owes(f, n)
    BY <1>2, <2>2 DEF Owes
  <2> QED BY <1>4, <2>2, <2>3, <2>4, <2>5 DEF f
<1> QED BY <1>3, <1>4

\* What becomes of the entry of a run that is over.
LEMMA FollowupIsSane ==
  ASSUME CoordinatorAssumption, NEW e, Sane(e), e.running
  PROVE  LET f == Followup(Completed(e)) IN
         /\ f # NoEntry => Sane(f) /\ UpToDate(f) /\ ~f.running
         /\ stopped => f = NoEntry
         /\ \A m \in Generations :
              (~stopped /\ Owes(e, m) /\ Completed(e).completedGeneration < m)
                => f # NoEntry /\ Owes(f, m)
         /\ (f = NoEntry /\ ~stopped /\ UpToDate(e)) => e.runningGeneration = e.latestGeneration
<1> DEFINE c == Completed(e)
           f == Followup(c)
<1>1. e \in Entries /\ Placed(e) /\ Generations \subseteq Nat /\ 0 \in Generations
  BY DEF Sane, Generations, CoordinatorAssumption
<1>2. /\ c \in Entries /\ ~c.timer /\ ~c.queued /\ ~c.running
      /\ c.rerunRequested = e.rerunRequested
      /\ c.forceThroughGeneration = e.forceThroughGeneration
  BY <1>1 DEF Completed, Larger, Entries, Placed
<1>3. \A x \in Entries : x # NoEntry
  BY DEF CoordinatorAssumption
<1> HIDE DEF c
<1>4. CASE stopped
  <2>1. f = NoEntry
    BY <1>4 DEF Followup
  <2> QED BY <2>1, <1>4 DEF c
<1>5. CASE ~stopped /\ Forced(c)
  <2> DEFINE d == [c EXCEPT !.rerunRequested = FALSE]
  <2>1. f = ForceThrough(d, 0) /\ ~d.running
    BY <1>2, <1>5 DEF Followup, Entries
  <2>2. d \in Entries /\ ~d.running /\ ~d.queued /\ ~d.timer
        /\ d.forceThroughGeneration = c.forceThroughGeneration
        /\ d.completedGeneration = c.completedGeneration
    BY <1>2 DEF Entries
  <2> HIDE DEF d
  <2>3. f = [d EXCEPT !.forceThroughGeneration = Larger(d.forceThroughGeneration, 0),
                      !.timer = FALSE, !.queued = TRUE]
    BY <2>1 DEF ForceThrough
  <2>4. Larger(d.forceThroughGeneration, 0) = d.forceThroughGeneration
    <3>1. d.forceThroughGeneration \in Nat
      BY <2>2, Numbers
    <3> QED BY <3>1 DEF Larger
  <2>5. /\ f \in Entries /\ ~f.timer /\ f.queued /\ ~f.running
        /\ f.forceThroughGeneration = c.forceThroughGeneration
        /\ f.completedGeneration = c.completedGeneration
    BY <2>2, <2>3, <2>4 DEF Entries
  <2> HIDE DEF f
  <2>6. Sane(f) /\ UpToDate(f)
    BY <2>5 DEF Sane, Placed, UpToDate
  <2>7. \A m \in Generations : Owes(e, m) /\ c.completedGeneration < m => Owes(f, m)
    BY <2>5, <1>2 DEF Owes
  <2> QED BY <1>3, <1>5, <2>5, <2>6, <2>7 DEF c, f
<1>6. CASE ~stopped /\ ~Forced(c)
  <2>1. ASSUME NEW m \in Generations PROVE ~(Owes(e, m) /\ c.completedGeneration < m)
    <3>1. m \in Nat /\ c.completedGeneration \in Nat /\ c.forceThroughGeneration \in Nat
      BY <1>1, <1>2, Numbers
    <3>2. (c.forceThroughGeneration >= m /\ c.completedGeneration < m) => Forced(c)
      BY <3>1 DEF Forced
    <3> QED BY <1>2, <1>6, <3>2 DEF Owes
  <2>2. CASE c.rerunRequested
    <3>1. f = [c EXCEPT !.forceThroughGeneration = 0, !.rerunRequested = FALSE, !.timer = TRUE]
      BY <1>6, <2>2 DEF Followup
    <3>2. f \in Entries /\ f.timer /\ ~f.queued /\ ~f.running
      BY <1>1, <1>2, <3>1 DEF Entries
    <3> HIDE DEF f
    <3>3. Sane(f) /\ UpToDate(f)
      BY <3>2 DEF Sane, Placed, UpToDate
    <3> QED BY <1>3, <1>6, <2>1, <3>2, <3>3 DEF c, f
  <2>3. CASE ~c.rerunRequested
    <3>1. f = NoEntry
      BY <1>6, <2>3 DEF Followup
    <3>2. UpToDate(e) => e.runningGeneration = e.latestGeneration
      BY <1>2, <2>3 DEF UpToDate
    <3> QED BY <1>6, <2>1, <3>1, <3>2 DEF c
  <2> QED BY <2>2, <2>3
<1> QED BY <1>4, <1>5, <1>6

------------------------------------------------------------------------------
(* The steps *)

SyncInv ==
    /\ EntriesSane(entries) /\ InLine(entries, queue)
    /\ Pool(entries)
    /\ ~stopped => Current(entries)
    /\ Owed(entries, targets, flush)
    /\ stopped => ~Waiting(flush)

TypesOfRest ==
    /\ targets \in [Flushes -> [Keys -> Generations]]
    /\ flush \in [Flushes -> {"none", "waiting", "resolved"}]
    /\ lastSelection \in [Keys -> Selections]
    /\ generation \in Generations
    /\ selection \in Selections
    /\ deferred \in BOOLEAN
    /\ stopped \in BOOLEAN
    /\ identified \subseteq Sessions
    /\ passedOver \in [Keys -> Nat]

LEMMA TypesFromParts ==
  ASSUME EntriesSane(entries), InLine(entries, queue), TypesOfRest
  PROVE  TypeOK
BY DEF TypeOK, TypesOfRest, EntriesSane, InLine, OneLine

LEMMA KeyOfIsKey ==
  ASSUME NEW s \in Sessions
  PROVE  KeyOf(s) \in Keys
BY DEF KeyOf, Keys

LEMMA NotNoEntry ==
  ASSUME CoordinatorAssumption, NEW e, Sane(e)
  PROVE  e # NoEntry
BY DEF Sane, CoordinatorAssumption

LEMMA ScheduleStep ==
  ASSUME CoordinatorAssumption, TypesOfRest, SyncInv, NEW s \in Sessions, Schedule(s)
  PROVE  SyncInv' /\ \A k \in Keys : entries[k] # NoEntry => entries'[k] # NoEntry
<1> DEFINE k == KeyOf(s)
           n == generation + 1
           e == IF entries[k] = NoEntry THEN NewEntry(n) ELSE Rescheduled(entries[k], n)
<1>1. /\ ~stopped /\ generation < MaxEvents /\ entries' = [entries EXCEPT ![k] = e]
      /\ queue' = IF e.queued THEN queue ELSE Without(queue, {k})
      /\ UNCHANGED <<targets, flush, stopped>>
  BY DEF Schedule
<1>2. k \in Keys
  BY KeyOfIsKey
<1>3. n \in Generations
  BY <1>1 DEF TypesOfRest, Generations, CoordinatorAssumption
<1>4. /\ Sane(e) /\ UpToDate(e)
      /\ e.queued => entries[k] # NoEntry /\ entries[k].queued
      /\ e.running => entries[k] # NoEntry /\ entries[k].running
      /\ \A m \in Generations : entries[k] # NoEntry /\ Owes(entries[k], m) => Owes(e, m)
  <2> HIDE DEF n, k
  <2>1. CASE entries[k] = NoEntry
    BY <1>3, <2>1, NewIsSane
  <2>2. CASE entries[k] # NoEntry
    <3>1. Sane(entries[k])
      BY <1>2, <2>2 DEF SyncInv, EntriesSane
    <3> QED BY <1>3, <2>2, <3>1, RescheduledIsSane
  <2> QED BY <2>1, <2>2
<1>5. e # NoEntry /\ e \in Entries
  <2> HIDE DEF e
  <2> QED BY <1>4, NotNoEntry DEF Sane
<1> HIDE DEF e, k, n
<1>6. entries \in [Keys -> Entries \cup {NoEntry}]
  BY DEF SyncInv, EntriesSane
<1>7. \A j \in Keys : entries'[j] = IF j = k THEN e ELSE entries[j]
  BY <1>1, <1>2, <1>6
<1>8. EntriesSane(entries')
  BY <1>1, <1>2, <1>4, <1>5, <1>6, <1>7 DEF SyncInv, EntriesSane
<1>9. InLine(entries', queue')
  <2>1. /\ OneLine(queue)
        /\ \A j \in Keys : j \in Elements(queue) <=> entries[j] # NoEntry /\ entries[j].queued
    BY DEF SyncInv, InLine
  <2>2. CASE e.queued
    BY <1>1, <1>4, <1>5, <1>7, <2>1, <2>2 DEF InLine
  <2>3. CASE ~e.queued
    <3>1. queue' = Without(queue, {k})
      BY <1>1, <2>3
    <3>2. /\ OneLine(queue')
          /\ \A j \in Keys : j \in Elements(queue') <=> j \in Elements(queue) /\ j # k
      BY <2>1, <3>1, WithoutLine
    <3> QED BY <1>7, <2>1, <2>3, <3>2 DEF InLine
  <2> QED BY <2>2, <2>3
<1>10. Current(entries')
  BY <1>1, <1>4, <1>7 DEF SyncInv, Current
<1>11. Owed(entries', targets', flush')
  <2> SUFFICES ASSUME NEW w \in Flushes, NEW j \in Keys, flush[w] = "waiting", targets[w][j] > 0
               PROVE  entries'[j] # NoEntry /\ Owes(entries'[j], targets[w][j])
    BY <1>1 DEF Owed
  <2>1. entries[j] # NoEntry /\ Owes(entries[j], targets[w][j])
    BY DEF SyncInv, Owed
  <2>2. targets[w][j] \in Generations
    BY DEF TypesOfRest
  <2> QED BY <1>4, <1>5, <1>7, <2>1, <2>2
<1>12. stopped' => ~Waiting(flush')
  BY <1>1
<1>13. Pool(entries')
  <2>1. Running(entries') \subseteq Running(entries)
    BY <1>4, <1>7 DEF Running, Present
  <2> QED BY <2>1, FewerRuns DEF SyncInv
<1> QED BY <1>5, <1>7, <1>8, <1>9, <1>10, <1>11, <1>12, <1>13 DEF SyncInv

LEMMA TimerStep ==
  ASSUME CoordinatorAssumption, TypesOfRest, SyncInv, NEW k \in Keys, TimerFires(k)
  PROVE  SyncInv' /\ \A j \in Keys : entries[j] # NoEntry => entries'[j] # NoEntry
<1> DEFINE e == [entries[k] EXCEPT !.timer = FALSE, !.queued = TRUE]
           es == [entries EXCEPT ![k] = e]
           q == Append(queue, k)
<1>1. /\ entries[k] # NoEntry /\ entries[k].timer /\ Drain(es, q, flush)
      /\ UNCHANGED <<targets, flush, stopped>>
  BY DEF TimerFires
<1>2. entries[k] \in Entries /\ Placed(entries[k])
  BY <1>1 DEF SyncInv, EntriesSane, Sane
<1>3. /\ e \in Entries /\ e.queued /\ Placed(e) /\ ~e.running
      /\ ~entries[k].queued /\ ~entries[k].running
  BY <1>1, <1>2 DEF Entries, Placed
<1>4. Sane(e) /\ UpToDate(e) /\ e # NoEntry
  BY <1>3 DEF Sane, UpToDate, CoordinatorAssumption
<1> HIDE DEF e
<1>5. entries \in [Keys -> Entries \cup {NoEntry}]
  BY DEF SyncInv, EntriesSane
<1>6. \A j \in Keys : es[j] = IF j = k THEN e ELSE entries[j]
  BY <1>5
<1>7. EntriesSane(es)
  BY <1>3, <1>4, <1>5, <1>6 DEF SyncInv, EntriesSane
<1>8. InLine(es, q)
  <2>1. /\ OneLine(queue)
        /\ \A j \in Keys : j \in Elements(queue) <=> entries[j] # NoEntry /\ entries[j].queued
    BY DEF SyncInv, InLine
  <2>2. OneLine(q) /\ Extended(queue, k, q)
    BY <1>3, <2>1, AppendLine
  <2> HIDE DEF q, es
  <2>3. \A j \in Keys : j \in Elements(q) <=> j \in Elements(queue) \/ j = k
    BY <2>2 DEF Extended
  <2> QED BY <1>3, <1>4, <1>6, <2>1, <2>2, <2>3 DEF InLine
<1>9. Current(entries) => Current(es)
  BY <1>4, <1>6 DEF Current
<1>10. Owed(es, targets, flush)
  <2> SUFFICES ASSUME NEW w \in Flushes, NEW j \in Keys, flush[w] = "waiting", targets[w][j] > 0
               PROVE  es[j] # NoEntry /\ Owes(es[j], targets[w][j])
    BY DEF Owed
  <2>1. entries[j] # NoEntry /\ Owes(entries[j], targets[w][j])
    BY DEF SyncInv, Owed
  <2>2. j # k
    BY <1>3, <2>1 DEF Owes
  <2> QED BY <1>6, <2>1, <2>2
<1> HIDE DEF es, q
<1>11. Pool(es)
  <2>1. Running(es) \subseteq Running(entries)
    BY <1>3, <1>6 DEF Running, Present
  <2> QED BY <2>1, FewerRuns DEF SyncInv
<1>12. /\ EntriesSane(entries') /\ InLine(entries', queue') /\ Present(entries') = Present(es)
       /\ Pool(es) => Pool(entries')
       /\ Current(es) => Current(entries')
       /\ Owed(es, targets, flush) => Owed(entries', targets, flush)
  BY <1>1, <1>7, <1>8, DrainKeeps
<1>13. \A j \in Keys : entries[j] # NoEntry => entries'[j] # NoEntry
  BY <1>4, <1>6, <1>12 DEF Present
<1> QED BY <1>1, <1>9, <1>10, <1>11, <1>12, <1>13 DEF SyncInv

LEMMA DeferredStep ==
  ASSUME CoordinatorAssumption, TypesOfRest, SyncInv, DeferredDrain
  PROVE  SyncInv' /\ \A j \in Keys : entries[j] # NoEntry => entries'[j] # NoEntry
<1>1. Drain(entries, queue, flush) /\ UNCHANGED <<targets, flush, stopped>>
  BY DEF DeferredDrain
<1>2. /\ EntriesSane(entries') /\ InLine(entries', queue') /\ Present(entries') = Present(entries)
      /\ Pool(entries) => Pool(entries')
      /\ Current(entries) => Current(entries')
      /\ Owed(entries, targets, flush) => Owed(entries', targets, flush)
  BY <1>1, DrainKeeps DEF SyncInv
<1>3. \A j \in Keys : entries[j] # NoEntry => entries'[j] # NoEntry
  BY <1>2 DEF Present
<1> QED BY <1>1, <1>2, <1>3 DEF SyncInv

LEMMA StopStep ==
  ASSUME CoordinatorAssumption, TypesOfRest, SyncInv, Stop
  PROVE  SyncInv'
<1> DEFINE calm(e) == [e EXCEPT !.rerunRequested = FALSE]
<1>1. /\ stopped' = TRUE /\ queue' = <<>> /\ targets' = targets
      /\ entries' = [k \in Keys |-> IF k \in Running(entries) THEN calm(entries[k]) ELSE NoEntry]
      /\ flush' = [w \in Flushes |-> IF flush[w] = "waiting" THEN "resolved" ELSE flush[w]]
  BY DEF Stop
<1>2. ASSUME NEW k \in Keys, k \in Running(entries)
      PROVE  calm(entries[k]) \in Entries /\ Sane(calm(entries[k])) /\ ~calm(entries[k]).queued
  <2>1. entries[k] \in Entries /\ Placed(entries[k]) /\ entries[k].running
    BY <1>2 DEF SyncInv, EntriesSane, Sane, Running, Present
  <2>2. calm(entries[k]) \in Entries
    BY <2>1 DEF Entries
  <2>3. Placed(calm(entries[k])) /\ ~calm(entries[k]).queued
    BY <2>1 DEF Entries, Placed
  <2> QED BY <2>2, <2>3 DEF Sane
<1> HIDE DEF calm
<1>3. \A k \in Keys : entries'[k] = IF k \in Running(entries) THEN calm(entries[k]) ELSE NoEntry
  BY <1>1
<1>4. EntriesSane(entries')
  BY <1>1, <1>2, <1>3 DEF EntriesSane
<1>5. InLine(entries', queue')
  <2>1. OneLine(queue') /\ Elements(queue') = {}
    BY <1>1 DEF OneLine, Injective, Elements
  <2> QED BY <1>2, <1>3, <2>1 DEF InLine
<1>6. ~Waiting(flush')
  BY <1>1 DEF Waiting
<1>7. Owed(entries', targets', flush')
  BY <1>6 DEF Owed, Waiting
<1>8. Pool(entries')
  <2>1. Running(entries') \subseteq Running(entries)
    BY <1>3 DEF Running, Present
  <2> QED BY <2>1, FewerRuns DEF SyncInv
<1> QED BY <1>1, <1>4, <1>5, <1>6, <1>7, <1>8 DEF SyncInv

LEMMA SettlesStep ==
  ASSUME CoordinatorAssumption, TypesOfRest, SyncInv, NEW k \in Keys, RunSettles(k)
  PROVE  /\ SyncInv'
         /\ \A j \in Keys : (entries[j] # NoEntry /\ entries'[j] = NoEntry /\ ~stopped) =>
              entries[j].runningGeneration = entries[j].latestGeneration
<1> DEFINE c == Completed(entries[k])
           done == [entries EXCEPT ![k] = Completed(@)]
           f == Followup(c)
           next == [done EXCEPT ![k] = Followup(@)]
           line == IF next[k] # NoEntry /\ next[k].queued THEN Append(queue, k) ELSE queue
<1>1. /\ entries[k] # NoEntry /\ entries[k].running /\ stopped' = stopped
      /\ targets' = [w \in Flushes |-> Outstanding(done, w)] /\ flush' = Resolve(done)
      /\ \/ entries' = next /\ queue' = line
         \/ Drain(next, line, flush')
  BY DEF RunSettles
<1>2. entries[k] \in Entries /\ Sane(entries[k]) /\ Placed(entries[k])
  BY <1>1 DEF SyncInv, EntriesSane, Sane
<1>3. /\ f # NoEntry => Sane(f) /\ UpToDate(f) /\ ~f.running
      /\ stopped => f = NoEntry
      /\ \A m \in Generations :
           (~stopped /\ Owes(entries[k], m) /\ c.completedGeneration < m) => f # NoEntry /\ Owes(f, m)
      /\ (f = NoEntry /\ ~stopped /\ UpToDate(entries[k])) =>
           entries[k].runningGeneration = entries[k].latestGeneration
  BY <1>1, <1>2, FollowupIsSane
<1>4. c \in Entries /\ c # NoEntry
  <2> DEFINE through == Larger(entries[k].completedGeneration, entries[k].runningGeneration)
  <2>1. entries[k].completedGeneration \in Generations /\ entries[k].runningGeneration \in Generations
    BY <1>2 DEF Entries
  <2>2. through \in Generations
    BY <2>1 DEF Larger
  <2>3. c = [entries[k] EXCEPT !.running = FALSE, !.runningGeneration = 0,
                               !.completedGeneration = through]
    BY <1>2 DEF Completed, Entries
  <2>4. 0 \in Generations
    BY DEF Generations, CoordinatorAssumption
  <2> HIDE DEF through, c
  <2>5. c \in Entries
    BY <1>2, <2>2, <2>3, <2>4 DEF Entries
  <2> QED BY <2>5 DEF CoordinatorAssumption
<1> HIDE DEF c, f
<1>5. entries \in [Keys -> Entries \cup {NoEntry}]
  BY DEF SyncInv, EntriesSane
<1>6. \A j \in Keys : done[j] = IF j = k THEN c ELSE entries[j]
  BY <1>5 DEF c
<1>7. next = [entries EXCEPT ![k] = f]
  BY <1>5 DEF c, f
<1>8. \A j \in Keys : next[j] = IF j = k THEN f ELSE entries[j]
  BY <1>5, <1>7
<1> HIDE DEF done
<1>9. EntriesSane(next)
  <2>1. f \in Entries \cup {NoEntry}
    BY <1>3 DEF Sane
  <2>2. next \in [Keys -> Entries \cup {NoEntry}]
    BY <1>5, <1>7, <2>1
  <2> QED BY <1>3, <1>8, <2>2 DEF SyncInv, EntriesSane
<1> HIDE DEF next
<1>10. InLine(next, line)
  <2>1. /\ OneLine(queue) /\ k \notin Elements(queue)
        /\ \A j \in Keys : j \in Elements(queue) <=> entries[j] # NoEntry /\ entries[j].queued
    BY <1>1, <1>2 DEF SyncInv, InLine, Placed
  <2>2. CASE next[k] # NoEntry /\ next[k].queued
    <3> DEFINE r == Append(queue, k)
    <3>1. line = r
      BY <2>2
    <3>2. OneLine(r) /\ Extended(queue, k, r)
      BY <2>1, AppendLine
    <3> HIDE DEF r
    <3>3. \A j \in Keys : j \in Elements(r) <=> j \in Elements(queue) \/ j = k
      BY <3>2 DEF Extended
    <3>4. \A j \in Keys : j \in Elements(r) <=> next[j] # NoEntry /\ next[j].queued
      BY <1>8, <2>1, <2>2, <3>3
    <3> HIDE DEF line
    <3> QED BY <3>1, <3>2, <3>4 DEF InLine
  <2>3. CASE ~(next[k] # NoEntry /\ next[k].queued)
    <3>1. line = queue
      BY <2>3
    <3> HIDE DEF line
    <3> QED BY <1>8, <2>1, <2>3, <3>1 DEF InLine
  <2> QED BY <2>2, <2>3
<1>11. ~stopped => Current(next)
  BY <1>3, <1>8 DEF SyncInv, Current
<1>12. ASSUME NEW w \in Flushes, flush'[w] = "waiting" PROVE flush[w] = "waiting"
  BY <1>1, <1>12 DEF Resolve
<1>13. Owed(next, targets', flush')
  <2> SUFFICES ASSUME NEW w \in Flushes, NEW j \in Keys, flush'[w] = "waiting", targets'[w][j] > 0
               PROVE  next[j] # NoEntry /\ Owes(next[j], targets'[w][j])
    BY DEF Owed
  <2>1. flush[w] = "waiting" /\ ~stopped
    BY <1>12 DEF SyncInv, Waiting
  <2>2. targets'[w] = Outstanding(done, w)
    BY <1>1
  <2>3. targets'[w][j] = IF done[j] # NoEntry /\ done[j].completedGeneration >= targets[w][j]
                         THEN 0 ELSE targets[w][j]
    BY <2>2 DEF Outstanding
  <2>4. targets'[w][j] = targets[w][j] /\ ~(done[j] # NoEntry /\ done[j].completedGeneration >= targets[w][j])
    BY <2>3
  <2>5. targets[w][j] \in Generations /\ targets[w][j] \in Nat
    BY DEF TypesOfRest, Generations
  <2>6. entries[j] # NoEntry /\ Owes(entries[j], targets[w][j])
    BY <2>1, <2>4 DEF SyncInv, Owed
  <2>7. CASE j = k
    <3>1. c.completedGeneration \in Nat /\ ~(c.completedGeneration >= targets[w][j])
      BY <1>4, <1>6, <2>4, <2>7, Numbers
    <3>2. c.completedGeneration < targets[w][j]
      BY <2>5, <3>1
    <3> QED BY <1>3, <1>8, <2>1, <2>4, <2>5, <2>6, <2>7, <3>2
  <2>8. CASE j # k
    BY <1>8, <2>4, <2>6, <2>8
  <2> QED BY <2>7, <2>8
<1>14. stopped' => ~Waiting(flush')
  BY <1>1, <1>12 DEF SyncInv, Waiting
<1> HIDE DEF line
<1>15. /\ EntriesSane(entries') /\ InLine(entries', queue') /\ Present(entries') = Present(next)
       /\ Pool(next) => Pool(entries')
       /\ Current(next) => Current(entries')
       /\ Owed(next, targets', flush') => Owed(entries', targets', flush')
  <2>1. CASE entries' = next /\ queue' = line
    BY <1>9, <1>10, <2>1
  <2>2. CASE Drain(next, line, flush')
    BY <1>9, <1>10, <2>2, DrainKeeps
  <2> QED BY <1>1, <2>1, <2>2
<1>16. Pool(next)
  <2>1. Running(next) \subseteq Running(entries)
    BY <1>3, <1>8 DEF Running, Present
  <2> QED BY <2>1, FewerRuns DEF SyncInv
<1>17. SyncInv'
  BY <1>1, <1>11, <1>13, <1>14, <1>15, <1>16 DEF SyncInv
<1>18. ASSUME NEW j \in Keys, entries[j] # NoEntry, entries'[j] = NoEntry, ~stopped
       PROVE  entries[j].runningGeneration = entries[j].latestGeneration
  <2>1. next[j] = NoEntry
    BY <1>15, <1>18 DEF Present
  <2>2. j = k /\ f = NoEntry
    BY <1>8, <1>18, <2>1
  <2>3. UpToDate(entries[k])
    BY <1>1, <1>18 DEF SyncInv, Current
  <2> QED BY <1>3, <1>18, <2>2, <2>3
<1> QED BY <1>17, <1>18

\* What a flush selects, in order.
LEMMA OrderIsLine ==
  ASSUME CoordinatorAssumption, NEW ks \in SUBSET Keys, NEW q \in Orders(ks)
  PROVE  OneLine(q) /\ Elements(q) = ks /\ Len(q) = Cardinality(ks)
<1> DEFINE n == Cardinality(ks)
<1>1. IsFiniteSet(ks) /\ n \in Nat
  BY FiniteKeys, FS_Subset, FS_CardinalityType
<1>2. q \in [1..n -> ks] /\ \A i, j \in DOMAIN q : i # j => q[i] # q[j]
  BY DEF Orders
<1> HIDE DEF n
<1>3. q \in Seq(Keys) /\ DOMAIN q = 1..n /\ Len(q) = n
  <2>1. q \in [1..n -> Keys]
    BY <1>2
  <2>2. q \in Seq(Keys)
    BY <1>1, <2>1, SeqDef
  <2> QED BY <1>1, <2>1, <2>2, LenProperties
<1>4. Injective(q)
  BY <1>2 DEF Injective
<1>5. q \in Injection(1..n, ks)
  BY <1>2, <1>3 DEF Injection, IsInjective
<1>6. Cardinality(1..n) = n
  BY <1>1, FS_Interval
<1>7. q \in Surjection(1..n, ks)
  BY <1>1, <1>5, <1>6, FS_Injection DEF n
<1>8. Elements(q) = ks
  BY <1>2, <1>3, <1>7 DEF Surjection, Elements
<1> QED BY <1>3, <1>4, <1>8 DEF OneLine, n

Selected == (Pending \cap Running(entries)) \cup Chosen

LEMMA SelectionIsLine ==
  ASSUME CoordinatorAssumption, NEW running \in RunningFirst, NEW idle \in ChosenNext
  PROVE  /\ OneLine(running \o idle)
         /\ Elements(running \o idle) = Selected
         /\ Len(running \o idle) = Cardinality(Selected)
<1> DEFINE A == Pending \cap Running(entries)
<1>1. A \in SUBSET Keys /\ Chosen \in SUBSET Keys /\ A \cap Chosen = {}
  BY DEF Pending, Present, Chosen, Unstarted
<1>2. idle \in Orders(Chosen) /\ running \in Orders(A)
  BY DEF RunningFirst, ChosenNext
<1> HIDE DEF A
<1>3. OneLine(running) /\ Elements(running) = A /\ Len(running) = Cardinality(A)
  BY <1>1, <1>2, OrderIsLine
<1>4. OneLine(idle) /\ Elements(idle) = Chosen /\ Len(idle) = Cardinality(Chosen)
  BY <1>1, <1>2, OrderIsLine
<1>5. /\ OneLine(running \o idle) /\ Joined(running, idle)
      /\ Len(running \o idle) = Len(running) + Len(idle)
  BY <1>1, <1>3, <1>4, JoinedLine
<1>6. /\ Cardinality(A \cup Chosen) = Cardinality(A) + Cardinality(Chosen)
  <2>1. IsFiniteSet(A) /\ IsFiniteSet(Chosen)
    BY <1>1, FiniteKeys, FS_Subset
  <2>2. Cardinality(A) \in Nat /\ Cardinality(Chosen) \in Nat
    BY <2>1, FS_CardinalityType
  <2>3. Cardinality(A \cap Chosen) = 0
    BY <1>1, FS_EmptySet
  <2>4. Cardinality(A \cup Chosen) = Cardinality(A) + Cardinality(Chosen) - Cardinality(A \cap Chosen)
    BY <2>1, FS_Union
  <2> QED BY <2>2, <2>3, <2>4
<1>7. Selected = A \cup Chosen
  BY DEF Selected, A
<1> QED BY <1>3, <1>4, <1>5, <1>6, <1>7 DEF Joined

LEMMA FlushStep ==
  ASSUME CoordinatorAssumption, TypesOfRest, SyncInv, NEW w \in Flushes, FlushPendingSnapshot(w)
  PROVE  SyncInv' /\ \A j \in Keys : entries[j] # NoEntry => entries'[j] # NoEntry
<1>1. PICK running \in RunningFirst, idle \in ChosenNext :
        LET order == running \o idle
            place(k) == {i \in DOMAIN order : order[i] = k}
            forced == [k \in Keys |-> IF place(k) = {} THEN entries[k]
                                      ELSE ForceThrough(entries[k], entries[k].latestGeneration)]
            added == Filter(order, {k \in Present(entries) : forced[k].queued /\ ~entries[k].queued})
        IN  /\ flush' = [flush EXCEPT ![w] = "waiting"]
            /\ targets' = [targets EXCEPT ![w] =
                 [k \in Keys |-> IF place(k) = {} THEN 0 ELSE entries[k].latestGeneration]]
            /\ Drain(forced, queue \o added, flush')
  BY DEF FlushPendingSnapshot
<1> DEFINE order == running \o idle
           place(k) == {i \in DOMAIN order : order[i] = k}
           push(k) == ForceThrough(entries[k], entries[k].latestGeneration)
           forced == [k \in Keys |-> IF place(k) = {} THEN entries[k] ELSE push(k)]
           fresh == {k \in Present(entries) : forced[k].queued /\ ~entries[k].queued}
           added == Filter(order, fresh)
<1>2. /\ ~stopped /\ stopped' = stopped
      /\ flush' = [flush EXCEPT ![w] = "waiting"]
      /\ targets' = [targets EXCEPT ![w] =
           [k \in Keys |-> IF place(k) = {} THEN 0 ELSE entries[k].latestGeneration]]
      /\ Drain(forced, queue \o added, flush')
  BY <1>1 DEF FlushPendingSnapshot
<1>3. OneLine(order) /\ Elements(order) = Selected
  BY SelectionIsLine
<1>4. Selected \subseteq Pending
  BY DEF Selected, Chosen, Unstarted
<1> HIDE DEF order
<1>5. \A k \in Keys : place(k) = {} <=> k \notin Selected
  BY <1>3 DEF Elements
<1>6. ASSUME NEW k \in Selected
      PROVE  /\ k \in Keys /\ entries[k] # NoEntry /\ Sane(entries[k])
             /\ entries[k].latestGeneration \in Generations
             /\ entries[k].completedGeneration < entries[k].latestGeneration
  <2>1. k \in Keys /\ entries[k] # NoEntry /\ entries[k].latestGeneration > entries[k].completedGeneration
    BY <1>4 DEF Pending, Present
  <2>2. entries[k] \in Entries /\ Sane(entries[k])
    BY <2>1 DEF SyncInv, EntriesSane, Sane
  <2>3. entries[k].latestGeneration \in Nat /\ entries[k].completedGeneration \in Nat
    BY <2>2, Numbers
  <2>4. entries[k].latestGeneration \in Generations
    BY <2>2 DEF Entries
  <2> QED BY <2>1, <2>2, <2>3, <2>4
<1>7. ASSUME NEW k \in Selected
      PROVE  /\ Sane(push(k)) /\ push(k) \in Entries /\ push(k) # NoEntry
             /\ UpToDate(entries[k]) => UpToDate(push(k))
             /\ push(k).queued <=> ~entries[k].running
             /\ push(k).running = entries[k].running
             /\ \A m \in Generations : Owes(entries[k], m) => Owes(push(k), m)
             /\ Owes(push(k), entries[k].latestGeneration)
  <2>1. /\ Sane(push(k))
        /\ UpToDate(entries[k]) => UpToDate(push(k))
        /\ push(k).queued <=> ~entries[k].running
        /\ push(k).running = entries[k].running
        /\ \A m \in Generations : Owes(entries[k], m) => Owes(push(k), m)
        /\ Owes(push(k), entries[k].latestGeneration)
    BY <1>6, ForcedIsSane
  <2> HIDE DEF push
  <2>2. push(k) \in Entries /\ push(k) # NoEntry
    BY <2>1, NotNoEntry DEF Sane
  <2> QED BY <2>1, <2>2
<1> HIDE DEF push
<1>8. \A k \in Keys : forced[k] = IF k \in Selected THEN push(k) ELSE entries[k]
  BY <1>5
<1> HIDE DEF place
<1>9. forced \in [Keys -> Entries \cup {NoEntry}]
  <2>1. \A k \in Keys : forced[k] \in Entries \cup {NoEntry}
    BY <1>7, <1>8 DEF SyncInv, EntriesSane
  <2> QED BY <2>1
<1>10. EntriesSane(forced)
  <2> HIDE DEF forced
  <2> QED BY <1>7, <1>8, <1>9 DEF SyncInv, EntriesSane
<1>11. InLine(forced, queue \o added)
  <2>1. /\ OneLine(queue)
        /\ \A j \in Keys : j \in Elements(queue) <=> entries[j] # NoEntry /\ entries[j].queued
    BY DEF SyncInv, InLine
  <2>2. OneLine(added) /\ Elements(added) = Selected \cap fresh
    <3> HIDE DEF fresh
    <3> QED BY <1>3, FilterLine DEF Filtered
  <2>3. \A k \in Keys : k \in fresh <=> entries[k] # NoEntry /\ forced[k].queued /\ ~entries[k].queued
    BY DEF Present
  <2> HIDE DEF added, fresh, forced
  <2>4. Elements(queue) \cap Elements(added) = {}
    <3>1. Selected \subseteq Keys
      BY <1>6
    <3> QED BY <2>1, <2>2, <2>3, <3>1
  <2>5. OneLine(queue \o added) /\ Joined(queue, added)
    BY <2>1, <2>2, <2>4, JoinedLine
  <2>6. ASSUME NEW k \in Keys
        PROVE  k \in Elements(queue \o added) <=> forced[k] # NoEntry /\ forced[k].queued
    <3>1. k \in Elements(queue \o added) <=> k \in Elements(queue) \/ k \in Selected \cap fresh
      BY <2>2, <2>5 DEF Joined
    <3>2. CASE k \in Selected
      <4>1. Placed(entries[k]) /\ forced[k] = push(k)
        BY <1>6, <1>8, <3>2 DEF Sane
      <4>2. entries[k].queued => ~entries[k].running
        BY <4>1 DEF Placed
      <4> QED BY <1>6, <1>7, <2>1, <2>3, <3>1, <3>2, <4>1, <4>2
    <3>3. CASE k \notin Selected
      BY <1>8, <2>1, <3>1, <3>3
    <3> QED BY <3>2, <3>3
  <2> QED BY <2>5, <2>6 DEF InLine
<1>12. Current(forced)
  <2> HIDE DEF forced
  <2> QED BY <1>2, <1>6, <1>7, <1>8 DEF SyncInv, Current
<1>13. Owed(forced, targets', flush')
  <2> SUFFICES ASSUME NEW v \in Flushes, NEW k \in Keys, flush'[v] = "waiting", targets'[v][k] > 0
               PROVE  forced[k] # NoEntry /\ Owes(forced[k], targets'[v][k])
    BY DEF Owed
  <2>1. flush \in [Flushes -> {"none", "waiting", "resolved"}]
        /\ targets \in [Flushes -> [Keys -> Generations]]
    BY DEF TypesOfRest
  <2>2. CASE v = w
    <3>1. targets'[v][k] = IF k \in Selected THEN entries[k].latestGeneration ELSE 0
      BY <1>2, <1>5, <2>1, <2>2
    <3>2. k \in Selected /\ targets'[v][k] = entries[k].latestGeneration
      BY <3>1
    <3> HIDE DEF forced
    <3> QED BY <1>7, <1>8, <3>2
  <2>3. CASE v # w
    <3>1. flush[v] = "waiting" /\ targets'[v] = targets[v]
      BY <1>2, <2>1, <2>3
    <3>2. entries[k] # NoEntry /\ Owes(entries[k], targets[v][k]) /\ targets[v][k] \in Generations
      BY <2>1, <3>1 DEF SyncInv, Owed
    <3> HIDE DEF forced
    <3> QED BY <1>7, <1>8, <3>1, <3>2
  <2> QED BY <2>2, <2>3
<1> HIDE DEF forced, added
<1>14. /\ EntriesSane(entries') /\ InLine(entries', queue') /\ Present(entries') = Present(forced)
       /\ Pool(forced) => Pool(entries')
       /\ Current(forced) => Current(entries')
       /\ Owed(forced, targets', flush') => Owed(entries', targets', flush')
  BY <1>2, <1>10, <1>11, DrainKeeps
<1>15. \A j \in Keys : entries[j] # NoEntry => entries'[j] # NoEntry
  BY <1>7, <1>8, <1>14 DEF Present
<1>16. Pool(forced)
  <2>1. Running(forced) \subseteq Running(entries)
    BY <1>6, <1>7, <1>8 DEF Running, Present
  <2> QED BY <2>1, FewerRuns DEF SyncInv
<1> QED BY <1>2, <1>12, <1>13, <1>14, <1>15, <1>16 DEF SyncInv

------------------------------------------------------------------------------
(* The turns of the flushes *)

TurnInv ==
    /\ \A k \in Keys : lastSelection[k] <= selection
    /\ \A w \in Flushes : flush[w] = "none" => selection <= (w - 1) * Cardinality(Keys)
    /\ RoundRobin

\* A key that is not selected lets one pass that has not been selected since.
LEMMA SomeoneGoesFirst ==
  ASSUME CoordinatorAssumption, TypesOfRest, SyncInv, NEW k \in Unstarted, k \notin Chosen
  PROVE  \E m \in Chosen : lastSelection[m] <= lastSelection[k]
<1> DEFINE B == {j \in Unstarted : Before(j, k)}
<1>1. ASSUME NEW j \in Unstarted
      PROVE  /\ j \in Keys /\ lastSelection[j] \in Nat
             /\ entries[j].latestGeneration \in Nat /\ entries[j].latestGeneration <= MaxEvents
  <2>1. j \in Keys /\ entries[j] \in Entries
    BY DEF Unstarted, Pending, Present, SyncInv, EntriesSane
  <2>2. lastSelection[j] \in Selections
    BY <2>1 DEF TypesOfRest
  <2>3. entries[j].latestGeneration \in Generations
    BY <2>1 DEF Entries
  <2> QED BY <2>1, <2>2, <2>3 DEF Selections, Generations, CoordinatorAssumption
<1>2. Unstarted \subseteq Keys
  BY <1>1
<1>3. B # {}
  <2>1. IsFiniteSet(B)
    BY <1>2, FiniteKeys, FS_Subset
  <2>2. ~(Cardinality(B) < maxEntries)
    BY DEF Chosen
  <2>3. Cardinality({}) = 0
    BY FS_EmptySet
  <2>4. 0 < maxEntries
    BY DEF CoordinatorAssumption
  <2> HIDE DEF B
  <2> QED BY <2>2, <2>3, <2>4
<1>4. PICK a \in B : \A j \in B : lastSelection[a] <= lastSelection[j]
  <2> DEFINE L == {lastSelection[j] : j \in B}
  <2>1. L \in SUBSET Nat /\ L # {}
    BY <1>1, <1>3
  <2>2. \E x \in L : \A y \in L : x <= y
    <3> HIDE DEF L
    <3> QED BY <2>1, NaturalMinimum
  <2> QED BY <2>2
<1> DEFINE T == {j \in B : lastSelection[j] = lastSelection[a]}
           late(j) == MaxEvents - entries[j].latestGeneration
<1>5. PICK m \in T : \A j \in T : late(m) <= late(j)
  <2> DEFINE L == {late(j) : j \in T}
  <2>1. \A j \in T : late(j) \in Nat
    BY <1>1 DEF CoordinatorAssumption
  <2>2. L \in SUBSET Nat /\ L # {}
    <3> HIDE DEF late
    <3> QED BY <1>4, <2>1
  <2>3. \E x \in L : \A y \in L : x <= y
    <3> HIDE DEF L
    <3> QED BY <2>2, NaturalMinimum
  <2> HIDE DEF late
  <2> QED BY <2>3
<1>6. m \in Unstarted /\ Before(m, k) /\ lastSelection[m] = lastSelection[a]
  BY <1>5
<1>7. ASSUME NEW j \in Unstarted PROVE ~Before(j, m)
  <2> SUFFICES ASSUME Before(j, m) PROVE FALSE
    OBVIOUS
  <2>1. j \in B
    BY <1>1, <1>6 DEF Before
  <2>2. lastSelection[m] <= lastSelection[j]
    BY <1>4, <1>6, <2>1
  <2>3. lastSelection[j] = lastSelection[m] /\ entries[j].latestGeneration > entries[m].latestGeneration
    BY <1>1, <1>6, <2>2 DEF Before
  <2>4. late(m) <= late(j)
    BY <1>5, <1>6, <2>1, <2>3
  <2> QED BY <1>1, <1>6, <2>3, <2>4 DEF CoordinatorAssumption
<1>8. {j \in Unstarted : Before(j, m)} = {}
  BY <1>7
<1>9. Cardinality({j \in Unstarted : Before(j, m)}) < maxEntries
  BY <1>8, FS_EmptySet DEF CoordinatorAssumption
<1>10. m \in Chosen
  BY <1>6, <1>9 DEF Chosen
<1>11. lastSelection[m] <= lastSelection[k]
  BY <1>1, <1>6 DEF Before
<1> QED BY <1>10, <1>11

LEMMA FlushTurns ==
  ASSUME CoordinatorAssumption, TypesOfRest, SyncInv, TurnInv,
         NEW w \in Flushes, FlushPendingSnapshot(w)
  PROVE  TypesOfRest' /\ TurnInv'
<1>1. PICK running \in RunningFirst, idle \in ChosenNext :
        LET order == running \o idle
            place(k) == {i \in DOMAIN order : order[i] = k}
        IN  /\ targets' = [targets EXCEPT ![w] =
                 [k \in Keys |-> IF place(k) = {} THEN 0 ELSE entries[k].latestGeneration]]
            /\ selection' = selection + Len(order)
            /\ lastSelection' = [k \in Keys |-> IF place(k) = {} THEN lastSelection[k]
                                                ELSE selection + CHOOSE i \in place(k) : TRUE]
            /\ passedOver' = [k \in Keys |-> IF k \in Unstarted /\ place(k) = {}
                                             THEN passedOver[k] + 1 ELSE 0]
  BY DEF FlushPendingSnapshot
<1> DEFINE order == running \o idle
           place(k) == {i \in DOMAIN order : order[i] = k}
           turn(k) == CHOOSE i \in place(k) : TRUE
           C == Cardinality(Keys)
<1>2. /\ ~stopped /\ stopped' = stopped /\ flush[w] = "none"
      /\ \A v \in Flushes : v < w => flush[v] # "none"
      /\ flush' = [flush EXCEPT ![w] = "waiting"]
      /\ UNCHANGED <<generation, deferred, identified>>
  BY DEF FlushPendingSnapshot
<1>3. /\ targets' = [targets EXCEPT ![w] =
           [k \in Keys |-> IF place(k) = {} THEN 0 ELSE entries[k].latestGeneration]]
      /\ selection' = selection + Len(order)
      /\ lastSelection' = [k \in Keys |-> IF place(k) = {} THEN lastSelection[k] ELSE selection + turn(k)]
      /\ passedOver' = [k \in Keys |-> IF k \in Unstarted /\ place(k) = {}
                                       THEN passedOver[k] + 1 ELSE 0]
  BY <1>1
<1>4. OneLine(order) /\ Elements(order) = Selected /\ Len(order) = Cardinality(Selected)
  BY SelectionIsLine
<1>5. Selected \in SUBSET Keys /\ \A k \in Selected : entries[k] # NoEntry
  BY DEF Selected, Chosen, Unstarted, Pending, Present
<1>6. /\ C \in Nat /\ Len(order) \in Nat /\ Len(order) <= C /\ DOMAIN order = 1..Len(order)
  BY <1>4, <1>5, FiniteKeys, FS_Subset, LenProperties DEF OneLine
<1> HIDE DEF order, C
<1>7. \A k \in Keys : place(k) = {} <=> k \notin Selected
  BY <1>4 DEF Elements
<1>8. \A k \in Selected : turn(k) \in 1..Len(order)
  BY <1>5, <1>6, <1>7
<1> HIDE DEF place, turn
<1>9. selection \in Nat /\ w \in Nat /\ w >= 1 /\ w <= MaxFlushes /\ MaxFlushes \in Nat
  BY DEF TypesOfRest, Selections, Flushes, CoordinatorAssumption
<1>10. selection' \in Nat /\ selection' <= w * C /\ selection' <= MaxFlushes * C /\ selection <= selection'
  <2>1. selection <= (w - 1) * C
    BY <1>2 DEF TurnInv, C
  <2>2. (w - 1) * C + C = w * C
    BY <1>6, <1>9
  <2>3. w * C <= MaxFlushes * C
    BY <1>6, <1>9
  <2>4. w * C \in Nat /\ (w - 1) * C \in Nat /\ MaxFlushes * C \in Nat
    BY <1>6, <1>9
  <2> QED BY <1>3, <1>6, <1>9, <2>1, <2>2, <2>3, <2>4
<1>11. selection' \in Selections
  BY <1>10 DEF Selections, C
<1>12. \A k \in Keys : lastSelection'[k] = IF k \in Selected THEN selection + turn(k) ELSE lastSelection[k]
  BY <1>3, <1>7
<1>13. ASSUME NEW k \in Keys
       PROVE  /\ lastSelection[k] \in Nat /\ lastSelection[k] <= selection
              /\ lastSelection'[k] \in Nat /\ lastSelection'[k] <= selection'
              /\ k \in Selected => lastSelection'[k] > selection
  <2>1. lastSelection[k] \in Nat /\ lastSelection[k] <= selection
    BY DEF TypesOfRest, Selections, TurnInv
  <2> QED BY <1>3, <1>6, <1>8, <1>9, <1>10, <1>12, <2>1
<1>14. lastSelection' \in [Keys -> Selections]
  <2>1. \A k \in Keys : lastSelection'[k] \in Selections
    <3>1. MaxFlushes * C \in Nat
      BY <1>6, <1>9
    <3> QED BY <1>10, <1>13, <3>1 DEF Selections, C
  <2> QED BY <1>3, <2>1
<1>15. passedOver' \in [Keys -> Nat]
  BY <1>3 DEF TypesOfRest
<1>16. targets' \in [Flushes -> [Keys -> Generations]]
  <2> DEFINE aims == [k \in Keys |-> IF place(k) = {} THEN 0 ELSE entries[k].latestGeneration]
  <2>1. 0 \in Generations
    BY DEF Generations, CoordinatorAssumption
  <2>2. ASSUME NEW k \in Keys, place(k) # {} PROVE entries[k].latestGeneration \in Generations
    <3>1. entries[k] \in Entries
      BY <1>5, <1>7, <2>2 DEF SyncInv, EntriesSane
    <3> QED BY <3>1 DEF Entries
  <2>3. aims \in [Keys -> Generations]
    BY <2>1, <2>2
  <2>4. targets' = [targets EXCEPT ![w] = aims]
    BY <1>3
  <2> HIDE DEF aims
  <2> QED BY <2>3, <2>4 DEF TypesOfRest
<1>17. TypesOfRest'
  BY <1>2, <1>11, <1>14, <1>15, <1>16 DEF TypesOfRest
<1>18. ASSUME NEW v \in Flushes, flush'[v] = "none"
       PROVE  selection' <= (v - 1) * Cardinality(Keys)
  <2>1. v # w /\ flush[v] = "none"
    BY <1>2, <1>18 DEF TypesOfRest
  <2>2. v \in Nat /\ w <= v - 1
    BY <1>2, <2>1 DEF Flushes
  <2>3. w * C <= (v - 1) * C
    BY <1>6, <1>9, <2>2
  <2>4. w * C \in Nat /\ (v - 1) * C \in Int
    BY <1>6, <1>9, <2>2
  <2> QED BY <1>10, <2>3, <2>4 DEF C
<1>19. ASSUME NEW k \in Keys
       PROVE  passedOver'[k] <= Cardinality({j \in Keys : lastSelection'[j] > lastSelection'[k]})
  <2> DEFINE G == {j \in Keys : lastSelection[j] > lastSelection[k]}
             H == {j \in Keys : lastSelection'[j] > lastSelection'[k]}
  <2>1. /\ IsFiniteSet(G) /\ IsFiniteSet(H) /\ Cardinality(G) \in Nat /\ Cardinality(H) \in Nat
    BY FiniteKeys, FS_Subset, FS_CardinalityType
  <2>2. passedOver[k] \in Nat /\ passedOver[k] <= Cardinality(G)
    BY <1>2 DEF TurnInv, RoundRobin, TypesOfRest
  <2>3. CASE k \in Unstarted /\ k \notin Selected
    <3>1. PICK m \in Chosen : lastSelection[m] <= lastSelection[k]
      <4>1. k \notin Chosen
        BY <2>3 DEF Selected
      <4> QED BY <2>3, <4>1, SomeoneGoesFirst
    <3>2. m \in Selected /\ m \in Keys
      BY <1>5 DEF Selected
    <3>3. lastSelection'[k] = lastSelection[k]
      BY <1>12, <2>3
    <3>4. m \notin G
      BY <1>13, <3>1, <3>2
    <3>5. ASSUME NEW j \in G PROVE j \in H
      <4>1. /\ j \in Keys /\ lastSelection[j] > lastSelection[k]
            /\ lastSelection[k] \in Nat /\ lastSelection[k] <= selection /\ lastSelection'[j] \in Nat
        BY <1>13
      <4>2. lastSelection'[j] > lastSelection'[k]
        <5>1. CASE j \in Selected
          <6>1. lastSelection'[j] > selection
            BY <1>13, <4>1, <5>1
          <6> QED BY <1>9, <3>3, <4>1, <6>1
        <5>2. CASE j \notin Selected
          <6>1. lastSelection'[j] = lastSelection[j]
            BY <1>12, <4>1, <5>2
          <6> QED BY <3>3, <4>1, <6>1
        <5> QED BY <5>1, <5>2
      <4> QED BY <4>1, <4>2
    <3>6. m \in H
      <4>1. lastSelection'[m] > selection /\ lastSelection'[m] \in Nat
        BY <1>13, <3>2
      <4>2. lastSelection[k] \in Nat /\ lastSelection[k] <= selection
        BY <1>13
      <4>3. lastSelection'[m] > lastSelection'[k]
        BY <1>9, <3>3, <4>1, <4>2
      <4> QED BY <3>2, <4>3
    <3> HIDE DEF G, H
    <3>7. Cardinality(G \cup {m}) = Cardinality(G) + 1
      BY <2>1, <3>4, FS_AddElement
    <3>8. Cardinality(G \cup {m}) <= Cardinality(H)
      BY <2>1, <3>5, <3>6, FS_Subset
    <3>9. passedOver'[k] = passedOver[k] + 1
      BY <1>3, <1>7, <2>3
    <3> QED BY <2>1, <2>2, <3>7, <3>8, <3>9 DEF H
  <2>4. CASE ~(k \in Unstarted /\ k \notin Selected)
    <3>1. passedOver'[k] = 0
      BY <1>3, <1>7, <2>4
    <3> QED BY <2>1, <3>1
  <2> QED BY <2>3, <2>4
<1>20. TurnInv'
  BY <1>13, <1>18, <1>19 DEF TurnInv, RoundRobin
<1> QED BY <1>17, <1>20

------------------------------------------------------------------------------
(* Theorems *)

CoordInv == TypesOfRest /\ SyncInv /\ TurnInv

LEMMA CoordInvInit ==
  ASSUME CoordinatorAssumption, Init
  PROVE  CoordInv
<1>1. \A k \in Keys : entries[k] = NoEntry
  BY DEF Init
<1>2. EntriesSane(entries)
  BY <1>1 DEF Init, EntriesSane
<1>3. InLine(entries, queue)
  BY <1>1 DEF Init, InLine, OneLine, Injective, Elements
<1>4. Running(entries) = {}
  BY <1>1 DEF Running, Present
<1>5. Pool(entries)
  BY <1>4, FS_EmptySet DEF Pool, CoordinatorAssumption
<1>6. Current(entries)
  BY <1>1 DEF Current
<1>7. Owed(entries, targets, flush) /\ ~Waiting(flush)
  BY DEF Init, Owed, Waiting
<1>8. Cardinality(Keys) \in Nat /\ MaxFlushes \in Nat /\ MaxFlushes * Cardinality(Keys) \in Nat
  BY FiniteKeys DEF CoordinatorAssumption
<1>9. 0 \in Selections /\ 0 \in Generations
  BY <1>8 DEF Selections, Generations, CoordinatorAssumption
<1>10. TypesOfRest
  BY <1>9 DEF Init, TypesOfRest, NoTargets
<1>11. \A w \in Flushes : 0 <= (w - 1) * Cardinality(Keys)
  <2> SUFFICES ASSUME NEW w \in Flushes PROVE 0 <= (w - 1) * Cardinality(Keys)
    OBVIOUS
  <2>1. w - 1 \in Nat
    BY DEF Flushes
  <2> QED BY <1>8, <2>1
<1>12. RoundRobin
  <2>1. ASSUME NEW k \in Keys
        PROVE  Cardinality({j \in Keys : lastSelection[j] > lastSelection[k]}) \in Nat
    BY FiniteKeys, FS_Subset, FS_CardinalityType
  <2> QED BY <2>1 DEF RoundRobin, Init
<1>13. TurnInv
  BY <1>11, <1>12 DEF TurnInv, Init
<1> QED BY <1>2, <1>3, <1>5, <1>6, <1>7, <1>10, <1>13 DEF CoordInv, SyncInv

\* The steps that select nothing leave the turns alone.
LEMMA OtherTurns ==
  ASSUME TurnInv, UNCHANGED <<lastSelection, selection, passedOver, stopped>>,
         \A w \in Flushes : flush'[w] = "none" => flush[w] = "none"
  PROVE  TurnInv'
BY DEF TurnInv, RoundRobin

LEMMA CoordInvNext ==
  ASSUME CoordinatorAssumption, CoordInv, [Next]_vars
  PROVE  /\ CoordInv'
         /\ \A k \in Keys : (entries[k] # NoEntry /\ entries'[k] = NoEntry /\ ~stopped') =>
              entries[k].runningGeneration = entries[k].latestGeneration
<1> DEFINE Dropless == \A k \in Keys :
              (entries[k] # NoEntry /\ entries'[k] = NoEntry /\ ~stopped') =>
                 entries[k].runningGeneration = entries[k].latestGeneration
<1> SUFFICES CoordInv' /\ Dropless
  OBVIOUS
<1>1. TypesOfRest /\ SyncInv /\ TurnInv
  BY DEF CoordInv
<1>2. CASE Stop
  <2>1. SyncInv'
    BY <1>1, <1>2, StopStep
  <2>2. TypesOfRest'
    <3>1. MaxFlushes * Cardinality(Keys) \in Nat
      BY FiniteKeys DEF CoordinatorAssumption
    <3>2. 0 \in Selections
      BY <3>1 DEF Selections
    <3>3. UNCHANGED <<targets, generation, selection, identified, passedOver>>
          /\ lastSelection' = [k \in Keys |-> 0] /\ deferred' = FALSE /\ stopped' = TRUE
          /\ flush' = [w \in Flushes |-> IF flush[w] = "waiting" THEN "resolved" ELSE flush[w]]
      BY <1>2 DEF Stop
    <3> QED BY <1>1, <3>2, <3>3 DEF TypesOfRest
  <2>3. TurnInv'
    <3>1. stopped' = TRUE /\ selection' = selection /\ selection \in Nat
      BY <1>1, <1>2 DEF Stop, TypesOfRest, Selections
    <3>2. \A k \in Keys : lastSelection'[k] <= selection'
      BY <1>2, <3>1 DEF Stop
    <3>3. \A w \in Flushes : flush'[w] = "none" => flush[w] = "none"
      BY <1>2 DEF Stop
    <3> QED BY <1>1, <3>1, <3>2, <3>3 DEF TurnInv, RoundRobin
  <2>4. Dropless
    BY <1>2 DEF Stop
  <2> QED BY <2>1, <2>2, <2>3, <2>4 DEF CoordInv
<1>3. CASE DeferredDrain
  <2>1. SyncInv' /\ Dropless
    BY <1>1, <1>3, DeferredStep
  <2>2. /\ UNCHANGED <<targets, flush, lastSelection, generation, selection, stopped, identified, passedOver>>
        /\ deferred' = FALSE
    BY <1>3 DEF DeferredDrain
  <2>3. TypesOfRest'
    BY <1>1, <2>2 DEF TypesOfRest
  <2>4. TurnInv'
    BY <1>1, <2>2, OtherTurns
  <2> QED BY <2>1, <2>3, <2>4 DEF CoordInv
<1>4. CASE \E s \in Sessions : Schedule(s)
  <2>1. PICK s \in Sessions : Schedule(s)
    BY <1>4
  <2>2. SyncInv' /\ Dropless
    BY <1>1, <2>1, ScheduleStep
  <2>3. /\ UNCHANGED <<targets, flush, lastSelection, selection, deferred, stopped, identified, passedOver>>
        /\ generation < MaxEvents /\ generation' = generation + 1
    BY <2>1 DEF Schedule
  <2>4. generation' \in Generations
    BY <1>1, <2>3 DEF TypesOfRest, Generations, CoordinatorAssumption
  <2>5. TypesOfRest'
    BY <1>1, <2>3, <2>4 DEF TypesOfRest
  <2>6. TurnInv'
    BY <1>1, <2>3, OtherTurns
  <2> QED BY <2>2, <2>5, <2>6 DEF CoordInv
<1>5. CASE \E s \in Sessions : Identify(s)
  <2>1. PICK s \in Sessions : Identify(s)
    BY <1>5
  <2>2. /\ UNCHANGED <<entries, queue, targets, flush, lastSelection, generation, selection, deferred,
                        stopped, passedOver>>
        /\ identified' = identified \cup {s}
    BY <2>1 DEF Identify
  <2>3. SyncInv'
    BY <1>1, <2>2 DEF SyncInv
  <2>4. TypesOfRest'
    BY <1>1, <2>2 DEF TypesOfRest
  <2>5. TurnInv'
    BY <1>1, <2>2, OtherTurns
  <2> QED BY <2>2, <2>3, <2>4, <2>5 DEF CoordInv
<1>6. CASE \E k \in Keys : TimerFires(k)
  <2>1. PICK k \in Keys : TimerFires(k)
    BY <1>6
  <2>2. SyncInv' /\ Dropless
    BY <1>1, <2>1, TimerStep
  <2>3. UNCHANGED <<targets, flush, lastSelection, generation, selection, deferred, stopped,
                    identified, passedOver>>
    BY <2>1 DEF TimerFires
  <2>4. TypesOfRest'
    BY <1>1, <2>3 DEF TypesOfRest
  <2>5. TurnInv'
    BY <1>1, <2>3, OtherTurns
  <2> QED BY <2>2, <2>4, <2>5 DEF CoordInv
<1>7. CASE \E k \in Keys : RunSettles(k)
  <2>1. PICK k \in Keys : RunSettles(k)
    BY <1>7
  <2>2. UNCHANGED <<lastSelection, generation, selection, stopped, identified, passedOver>>
    BY <2>1 DEF RunSettles
  <2>3. SyncInv' /\ Dropless
    BY <1>1, <2>1, <2>2, SettlesStep
  <2> DEFINE done == [entries EXCEPT ![k] = Completed(@)]
  <2>4. targets' = [w \in Flushes |-> Outstanding(done, w)] /\ flush' = Resolve(done)
    BY <2>1 DEF RunSettles
  <2> HIDE DEF done
  <2>5. targets' \in [Flushes -> [Keys -> Generations]]
    <3>1. 0 \in Generations
      BY DEF Generations, CoordinatorAssumption
    <3>2. ASSUME NEW w \in Flushes PROVE Outstanding(done, w) \in [Keys -> Generations]
      BY <1>1, <3>1 DEF Outstanding, TypesOfRest
    <3> QED BY <2>4, <3>2
  <2>6. flush' \in [Flushes -> {"none", "waiting", "resolved"}]
        /\ \A w \in Flushes : flush'[w] = "none" => flush[w] = "none"
    BY <1>1, <2>4 DEF Resolve, TypesOfRest
  <2>7. deferred' \in BOOLEAN
    <3>1. deferred' = deferred \/ deferred' = (deferred \/ ~stopped)
      BY <2>1, Zenon DEF RunSettles
    <3>2. (deferred \/ ~stopped) \in BOOLEAN
      BY Zenon
    <3> QED BY <1>1, <3>1, <3>2 DEF TypesOfRest
  <2>8. TypesOfRest'
    BY <1>1, <2>2, <2>5, <2>6, <2>7 DEF TypesOfRest
  <2>9. TurnInv'
    BY <1>1, <2>2, <2>6, OtherTurns
  <2> QED BY <2>3, <2>8, <2>9 DEF CoordInv
<1>8. CASE \E w \in Flushes : FlushPendingSnapshot(w)
  <2>1. PICK w \in Flushes : FlushPendingSnapshot(w)
    BY <1>8
  <2>2. SyncInv' /\ Dropless
    BY <1>1, <2>1, FlushStep
  <2>3. TypesOfRest' /\ TurnInv'
    BY <1>1, <2>1, FlushTurns
  <2> QED BY <2>2, <2>3 DEF CoordInv
<1>9. CASE UNCHANGED vars
  <2>1. UNCHANGED <<entries, queue, targets, flush, lastSelection, generation, selection, deferred,
                    stopped, identified, passedOver>>
    BY <1>9 DEF vars
  <2>2. SyncInv' /\ TypesOfRest'
    BY <1>1, <2>1 DEF SyncInv, TypesOfRest
  <2>3. TurnInv'
    BY <1>1, <2>1, OtherTurns
  <2> QED BY <2>1, <2>2, <2>3 DEF CoordInv
<1> QED BY <1>2, <1>3, <1>4, <1>5, <1>6, <1>7, <1>8, <1>9 DEF Next

LEMMA CoordInvAlways == Spec => []CoordInv
<1>1. Init => CoordInv
  BY CoordinatorAssumption, CoordInvInit
<1>2. CoordInv /\ [Next]_vars => CoordInv'
  BY CoordinatorAssumption, CoordInvNext
<1> QED BY <1>1, <1>2, PTL DEF Spec

\* Type correctness; the selection numbers stay within their bound, as a flush
\* gives out no more of them than there are keys.
THEOREM CoordinatorTypes == Spec => []TypeOK
<1>1. CoordInv => TypeOK
  BY TypesFromParts DEF CoordInv, SyncInv
<1> QED BY <1>1, CoordInvAlways, PTL

\* Wherever schedule, the timers, forceThrough, drain and run move an entry, it
\* is in its quiet window, in the queue, once, or running, and nowhere else.
THEOREM EntriesHaveOnePlace == Spec => []OnePlace
<1>1. CoordInv => OnePlace
  <2> SUFFICES ASSUME CoordInv, NEW k \in Keys
               PROVE  LET e == entries[k]
                          places == {i \in DOMAIN queue : queue[i] = k}
                      IN  IF e = NoEntry THEN places = {}
                          ELSE /\ e.queued <=> places # {}
                               /\ Cardinality(places) <= 1
                               /\ Cardinality({x \in {"timer", "queued", "running"} : e[x]}) = 1
    BY DEF OnePlace
  <2> DEFINE e == entries[k]
             places == {i \in DOMAIN queue : queue[i] = k}
             at == {x \in {"timer", "queued", "running"} : e[x]}
  <2>1. InLine(entries, queue) /\ (e # NoEntry => Sane(e))
    BY DEF CoordInv, SyncInv, EntriesSane
  <2>2. places # {} <=> k \in Elements(queue)
    BY DEF Elements
  <2>3. e # NoEntry => (e.queued <=> places # {})
    BY <2>1, <2>2 DEF InLine
  <2>4. e = NoEntry => places = {}
    BY <2>1, <2>2 DEF InLine
  <2>5. Cardinality(places) <= 1
    <3>1. \A i, j \in places : i = j
      BY <2>1 DEF InLine, OneLine, Injective
    <3>2. places = {} \/ \E i : places = {i}
      BY <3>1
    <3> HIDE DEF places
    <3>3. Cardinality(places) = 0 \/ Cardinality(places) = 1
      BY <3>2, FS_EmptySet, FS_Singleton
    <3> QED BY <3>3
  <2>6. e # NoEntry => Cardinality(at) = 1
    <3> SUFFICES ASSUME e # NoEntry PROVE Cardinality(at) = 1
      OBVIOUS
    <3>1. e \in Entries /\ Placed(e)
      BY <2>1 DEF Sane
    <3>2. at = {"timer"} \/ at = {"queued"} \/ at = {"running"}
      BY <3>1 DEF Placed, Entries
    <3> HIDE DEF at
    <3> QED BY <3>2, FS_Singleton
  <2> QED BY <2>3, <2>4, <2>5, <2>6
<1> QED BY <1>1, CoordInvAlways, PTL

\* What a flush waits for stays queued or running and forced, whatever events
\* come after the cutoff.
THEOREM FlushesAreServed == Spec => []TargetsAreForced
<1>1. CoordInv => TargetsAreForced
  BY DEF CoordInv, SyncInv, Owed, Owes, TargetsAreForced
<1> QED BY <1>1, CoordInvAlways, PTL

\* However often the other keys change, each passes a waiting one at most once.
THEOREM KeysTakeTurns == Spec => []RoundRobin
<1>1. CoordInv => RoundRobin
  BY DEF CoordInv, TurnInv
<1> QED BY <1>1, CoordInvAlways, PTL

\* The pool is not exceeded, neither by flushes nor by what runs again.
THEOREM PoolIsKept == Spec => []Pool(entries)
<1>1. CoordInv => Pool(entries)
  BY DEF CoordInv, SyncInv
<1> QED BY <1>1, CoordInvAlways, PTL

Forgets == \A k \in Keys : (entries[k] # NoEntry /\ entries'[k] = NoEntry /\ ~stopped') =>
             entries[k].runningGeneration = entries[k].latestGeneration

\* An entry is forgotten only after a run with its newest event.
THEOREM EventsAreKept == Spec => NoEventDropped
<1>1. CoordInv /\ [Next]_vars => [Forgets]_vars
  BY CoordinatorAssumption, CoordInvNext DEF Forgets
<1> QED BY <1>1, CoordInvAlways, PTL DEF Spec, NoEventDropped, Forgets
==============================================================================
