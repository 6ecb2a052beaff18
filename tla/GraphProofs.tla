----------------------------- MODULE GraphProofs -----------------------------
(***************************************************************************)
(* Proofs about the two walks of ArtifactGraph.  What they compute is      *)
(* stated with Reached, whose levels are a recursive function: its         *)
(* equations and the facts about all levels are proved first, by looking   *)
(* at the least level at which they fail.  Then each walk has an inductive *)
(* invariant that relates what it has found so far to those levels.        *)
(***************************************************************************)
EXTENDS ArtifactGraph, FiniteSetTheorems, TLAPS

-----------------------------------------------------------------------------
(* Numbers and sequences *)

\* Induction, as a set of naturals that has no least element.
LEMMA LeastNatural ==
    ASSUME NEW S, S \subseteq Nat, S # {}
    PROVE  \E m \in S : \A n \in S : m <= n
  <1> DEFINE Less == {ss \in Nat \X Nat : ss[1] < ss[2]}
  <1>1. IsWellFoundedOn(Less, Nat)
    BY NatLessThanWellFounded DEF OpToRel
  <1> HIDE DEF Less
  <1>2. PICK m \in S : \A n \in S : ~(<<n, m>> \in Less)
    BY <1>1, WFMin
  <1>3. ASSUME NEW n \in S PROVE m <= n
    BY <1>2, m \in Nat, n \in Nat, <<n, m>> \in Nat \X Nat DEF Less
  <1> QED
    BY <1>3

\* A set of naturals that holds 0 and with each number the next one holds all.
LEMMA AllNaturals ==
    ASSUME NEW S, 0 \in S, \A n \in Nat : n \in S => n + 1 \in S
    PROVE  Nat \subseteq S
  <1>1. SUFFICES ASSUME Nat \ S # {} PROVE FALSE
    OBVIOUS
  <1>2. PICK m \in Nat \ S : \A n \in Nat \ S : m <= n
    BY <1>1, LeastNatural, Nat \ S \subseteq Nat
  <1>3. m - 1 \in Nat /\ m - 1 \in S
    BY <1>2
  <1> QED
    BY <1>2, <1>3, (m - 1) + 1 = m

\* SetToSeq enumerates a finite set, each element once.
LEMMA Enumerates ==
    ASSUME NEW S, IsFiniteSet(S)
    PROVE  /\ SetToSeq(S) \in Seq(S)
           /\ Len(SetToSeq(S)) = Cardinality(S)
           /\ ToSet(SetToSeq(S)) = S
  <1> DEFINE n == Cardinality(S)
             f == SetToSeq(S)
  <1>1. n \in Nat /\ ExistsBijection(1..n, S)
    BY FS_CardinalityType
  <1>2. \E g \in [1..n -> S] : IsInjective(g)
    BY <1>1 DEF ExistsBijection, Bijection, Injection, IsInjective
  <1>3. f \in [1..n -> S] /\ IsInjective(f)
    BY <1>2 DEF SetToSeq
  <1>4. f \in Injection(1..n, S)
    BY <1>3, Zenon DEF Injection, IsInjective
  <1>5. Cardinality(1..n) = n
    BY <1>1, FS_Interval
  <1>6. f \in Surjection(1..n, S)
    BY <1>4, <1>5, FS_Injection
  <1> HIDE DEF n, f
  <1>7. f \in Seq(S) /\ Len(f) = n
    BY <1>1, <1>3
  <1>8. \A x \in S : \E i \in 1..n : f[i] = x
    BY <1>6 DEF Surjection
  <1>9. ToSet(f) = S
    BY <1>7, <1>8 DEF ToSet
  <1> QED
    BY <1>7, <1>9 DEF f, n

\* What a queue holds when its head is taken and others are appended.
LEMMA QueueHolds ==
    ASSUME NEW S, NEW q \in Seq(S), q # <<>>, NEW r \in Seq(S)
    PROVE  /\ Head(q) \in S /\ Tail(q) \in Seq(S) /\ Tail(q) \o r \in Seq(S)
           /\ ToSet(Tail(q) \o r) = ToSet(Tail(q)) \cup ToSet(r)
           /\ ToSet(q) = {Head(q)} \cup ToSet(Tail(q))
  <1>1. Tail(q) \in Seq(S) /\ Len(q) \in Nat \ {0} /\ Len(Tail(q)) = Len(q) - 1
    OBVIOUS
  <1>2. \A i \in 1..Len(Tail(q)) : Tail(q)[i] = q[i + 1]
    OBVIOUS
  <1>3. ToSet(q) = {Head(q)} \cup ToSet(Tail(q))
    <2>1. ASSUME NEW i \in 1..Len(q) PROVE q[i] = Head(q) \/ q[i] \in ToSet(Tail(q))
      <3>1. CASE i = 1
        BY <3>1
      <3>2. CASE i # 1
        <4>1. i - 1 \in 1..Len(Tail(q)) /\ Tail(q)[i - 1] = q[i]
          BY <1>1, <1>2, <3>2
        <4> QED
          BY <4>1 DEF ToSet
      <3> QED
        BY <3>1, <3>2
    <2>2. Head(q) \in ToSet(q)
      BY <1>1, 1 \in 1..Len(q) DEF ToSet
    <2>3. ToSet(Tail(q)) \subseteq ToSet(q)
      BY <1>1, <1>2, \A i \in 1..Len(Tail(q)) : i + 1 \in 1..Len(q) DEF ToSet
    <2> QED
      BY <2>1, <2>2, <2>3 DEF ToSet
  <1> DEFINE s == Tail(q)
  <1>4. ToSet(s \o r) = ToSet(s) \cup ToSet(r)
    <2> HIDE DEF s
    <2>1. /\ s \in Seq(S) /\ Len(s) \in Nat /\ Len(r) \in Nat
          /\ s \o r \in Seq(S) /\ Len(s \o r) = Len(s) + Len(r)
      BY <1>1 DEF s
    <2>2. /\ \A i \in 1..Len(s) : i \in 1..Len(s \o r) /\ (s \o r)[i] = s[i]
          /\ \A i \in 1..Len(r) :
                Len(s) + i \in 1..Len(s \o r) /\ (s \o r)[Len(s) + i] = r[i]
      BY <2>1
    <2>3. ASSUME NEW i \in 1..Len(s \o r)
          PROVE  (s \o r)[i] \in ToSet(s) \cup ToSet(r)
      <3>1. CASE i <= Len(s)
        BY <2>1, <2>2, <3>1, i \in 1..Len(s) DEF ToSet
      <3>2. CASE i > Len(s)
        <4>1. i - Len(s) \in 1..Len(r) /\ Len(s) + (i - Len(s)) = i
          BY <2>1, <3>2
        <4>2. (s \o r)[i] = r[i - Len(s)]
          BY <2>2, <4>1
        <4> QED
          BY <4>1, <4>2 DEF ToSet
      <3> QED
        BY <2>1, <3>1, <3>2
    <2>4. ToSet(s) \cup ToSet(r) \subseteq ToSet(s \o r)
      <3> DEFINE both == s \o r
      <3>0. /\ ToSet(both) = {both[i] : i \in 1..Len(both)}
            /\ \A i \in 1..Len(s) : i \in 1..Len(both) /\ both[i] = s[i]
            /\ \A i \in 1..Len(r) : Len(s) + i \in 1..Len(both) /\ both[Len(s) + i] = r[i]
        BY <2>1, <2>2 DEF ToSet
      <3> HIDE DEF both
      <3>1. ASSUME NEW i \in 1..Len(s) PROVE s[i] \in ToSet(both)
        BY <3>0
      <3>2. ASSUME NEW i \in 1..Len(r) PROVE r[i] \in ToSet(both)
        BY <3>0
      <3>3. ToSet(s) = {s[i] : i \in 1..Len(s)} /\ ToSet(r) = {r[i] : i \in 1..Len(r)}
        BY <2>1 DEF ToSet
      <3> QED
        BY <3>1, <3>2, <3>3 DEF both
    <2>5. ToSet(s \o r) \subseteq ToSet(s) \cup ToSet(r)
      BY <2>1, <2>3 DEF ToSet
    <2> QED
      BY <2>4, <2>5
  <1> QED
    BY <1>1, <1>3, <1>4

-----------------------------------------------------------------------------
(* What can be reached *)

Grown(B, steps) == B \cup {s[2] : s \in {t \in steps : t[1] \in B}}

\* The recursion of Reached, as far as n.
Upto(start, steps, n, g) ==
    g = [k \in 0..n |-> IF k = 0 THEN start ELSE Grown(g[k - 1], steps)]

LEMMA ReachedFrom ==
    ASSUME NEW start, NEW steps
    PROVE  \E f : f = [k \in Nat |-> IF k = 0 THEN start ELSE Grown(f[k - 1], steps)]
  <1>1. ASSUME NEW n \in Nat PROVE \E g : Upto(start, steps, n, g)
    <2> DEFINE Bad == {m \in Nat : ~\E g : Upto(start, steps, m, g)}
    <2>1. SUFFICES ASSUME Bad # {} PROVE FALSE
      OBVIOUS
    <2>2. PICK m \in Bad : \A k \in Bad : m <= k
      BY <2>1, LeastNatural, Bad \subseteq Nat
    <2>3. m # 0
      <3>1. Upto(start, steps, 0, [k \in 0..0 |-> start])
        BY DEF Upto
      <3> QED
        BY <3>1
    <2>4. m - 1 \in Nat /\ m - 1 \notin Bad
      BY <2>2, <2>3
    <2>5. PICK g : Upto(start, steps, m - 1, g)
      BY <2>4
    <2> DEFINE h == [k \in 0..m |-> IF k = m THEN Grown(g[m - 1], steps) ELSE g[k]]
    <2>6. ASSUME NEW k \in 0..m
          PROVE  h[k] = IF k = 0 THEN start ELSE Grown(h[k - 1], steps)
      <3>1. CASE k = m
        BY <2>3, <2>4, <3>1
      <3>2. CASE k # m
        BY <2>3, <2>4, <2>5, <3>2 DEF Upto
      <3> QED
        BY <3>1, <3>2
    <2>7. Upto(start, steps, m, h)
      BY <2>6 DEF Upto
    <2> QED
      BY <2>7
  <1>2. ASSUME NEW n \in Nat, NEW m \in Nat, NEW g, NEW h, NEW j \in Nat, j <= n, j <= m,
               Upto(start, steps, n, g), Upto(start, steps, m, h)
        PROVE  g[j] = h[j]
    <2> DEFINE Bad == {k \in Nat : k <= n /\ k <= m /\ g[k] # h[k]}
    <2>1. SUFFICES ASSUME Bad # {} PROVE FALSE
      BY <1>2
    <2>2. PICK k \in Bad : \A i \in Bad : k <= i
      BY <2>1, LeastNatural, Bad \subseteq Nat
    <2>3. k # 0
      BY <1>2, <2>2 DEF Upto
    <2>4. g[k - 1] = h[k - 1]
      BY <2>2, <2>3
    <2>5. g[k] = Grown(g[k - 1], steps) /\ h[k] = Grown(h[k - 1], steps)
      BY <1>2, <2>2, <2>3 DEF Upto
    <2> QED
      BY <2>2, <2>4, <2>5
  <1> DEFINE G(n) == CHOOSE g : Upto(start, steps, n, g)
             f == [k \in Nat |-> G(k)[k]]
  <1>3. \A n \in Nat : Upto(start, steps, n, G(n))
    BY <1>1
  <1>4. ASSUME NEW k \in Nat
        PROVE  f[k] = IF k = 0 THEN start ELSE Grown(f[k - 1], steps)
    <2> HIDE DEF G
    <2>1. G(k)[k] = IF k = 0 THEN start ELSE Grown(G(k)[k - 1], steps)
      BY <1>3 DEF Upto
    <2>2. k # 0 => k - 1 \in Nat /\ G(k)[k - 1] = G(k - 1)[k - 1]
      BY <1>2, <1>3
    <2> QED
      BY <2>1, <2>2
  <1> HIDE DEF G
  <1>5. f = [k \in Nat |-> IF k = 0 THEN start ELSE Grown(f[k - 1], steps)]
    BY <1>4
  <1> QED
    BY <1>5

LEMMA ReachedRecursion ==
    ASSUME NEW start, NEW steps
    PROVE  /\ Reached(start, steps, 0) = start
           /\ \A n \in Nat : Reached(start, steps, n + 1) = Grown(Reached(start, steps, n), steps)
  <1> DEFINE Next(f) == [k \in Nat |-> IF k = 0 THEN start ELSE Grown(f[k - 1], steps)]
             within == CHOOSE f : f = Next(f)
  <1>1. within = Next(within)
    BY ReachedFrom
  <1>2. \A n \in Nat : Reached(start, steps, n) = within[n]
    BY Zenon DEF Reached, Grown
  <1> HIDE DEF within
  <1> QED
    BY <1>1, <1>2

\* What is reached in fewer steps is reached in more.
LEMMA ReachedGrows ==
    ASSUME NEW start, NEW steps
    PROVE  \A n, m \in Nat : n <= m => Reached(start, steps, n) \subseteq Reached(start, steps, m)
  <1> DEFINE R(n) == Reached(start, steps, n)
  <1>1. SUFFICES ASSUME NEW n \in Nat PROVE \A m \in Nat : n <= m => R(n) \subseteq R(m)
    OBVIOUS
  <1> DEFINE S == {m \in Nat : n <= m => R(n) \subseteq R(m)}
  <1>2. \A m \in Nat : R(m) \subseteq R(m + 1)
    <2>1. \A m \in Nat : R(m + 1) = Grown(R(m), steps)
      BY ReachedRecursion
    <2> HIDE DEF R
    <2> QED
      BY <2>1 DEF Grown
  <1> HIDE DEF R
  <1>3. 0 \in S
    OBVIOUS
  <1>4. ASSUME NEW m \in Nat, m \in S PROVE m + 1 \in S
    <2>1. CASE n <= m
      BY <1>2, <1>4, <2>1
    <2>2. CASE n = m + 1
      BY <2>2
    <2> QED
      BY <2>1, <2>2
  <1>5. Nat \subseteq S
    <2> HIDE DEF S
    <2> QED
      BY <1>3, <1>4, AllNaturals
  <1> QED
    BY <1>5 DEF R

\* A set that no step leads out of holds all that is reached from within.
LEMMA ReachedStays ==
    ASSUME NEW start, NEW steps, NEW C,
           start \subseteq C, \A s \in steps : s[1] \in C => s[2] \in C
    PROVE  \A n \in Nat : Reached(start, steps, n) \subseteq C
  <1> DEFINE R(n) == Reached(start, steps, n)
             S == {n \in Nat : R(n) \subseteq C}
  <1>1. R(0) = start /\ \A n \in Nat : R(n + 1) = Grown(R(n), steps)
    BY ReachedRecursion
  <1> HIDE DEF R
  <1>2. 0 \in S
    BY <1>1
  <1>3. ASSUME NEW n \in Nat, n \in S PROVE n + 1 \in S
    BY <1>1, <1>3 DEF Grown
  <1>4. Nat \subseteq S
    <2> HIDE DEF S
    <2> QED
      BY <1>2, <1>3, AllNaturals
  <1> QED
    BY <1>4 DEF R

\* Within a finite set that no step leads out of, as many levels as the set has
\* elements are enough: no step leads out of what is reached by then.
LEMMA ReachedCloses ==
    ASSUME NEW start, NEW steps, NEW C, IsFiniteSet(C),
           start \subseteq C, \A s \in steps : s[1] \in C => s[2] \in C
    PROVE  \A s \in steps : s[1] \in Reached(start, steps, Cardinality(C))
                          => s[2] \in Reached(start, steps, Cardinality(C))
  <1> DEFINE R(n) == Reached(start, steps, n)
             Settled(n) == R(n + 1) = R(n)
             S == {n \in Nat : Settled(n) \/ Cardinality(R(n + 1)) > n}
             N == Cardinality(C)
  <1>1. \A n \in Nat : R(n + 1) = Grown(R(n), steps)
    BY ReachedRecursion
  <1>2. \A n \in Nat : R(n) \subseteq C
    BY ReachedStays
  <1>3. \A n \in Nat : /\ IsFiniteSet(R(n)) /\ Cardinality(R(n)) \in Nat
                       /\ Cardinality(R(n)) <= N
    BY <1>2, FS_Subset, FS_CardinalityType
  <1>4. N \in Nat
    BY FS_CardinalityType
  <1>5. \A n \in Nat : R(n) \subseteq R(n + 1)
    BY <1>1 DEF Grown
  <1> HIDE DEF R, N
  <1>6. ASSUME NEW n \in Nat, ~Settled(n)
        PROVE  Cardinality(R(n + 1)) > Cardinality(R(n))
    <2>1. Cardinality(R(n)) <= Cardinality(R(n + 1))
      BY <1>3, <1>5, FS_Subset
    <2>2. Cardinality(R(n)) # Cardinality(R(n + 1))
      BY <1>3, <1>5, <1>6, FS_Subset
    <2> QED
      BY <1>3, <2>1, <2>2
  <1>7. ASSUME NEW n \in Nat, Settled(n) PROVE Settled(n + 1)
    BY <1>1, <1>7
  <1>8. 0 \in S
    <2> QED
      BY <1>3, <1>6
  <1>9. ASSUME NEW n \in Nat, n \in S PROVE n + 1 \in S
    <2>1. CASE Settled(n)
      BY <1>7, <2>1
    <2>2. CASE Cardinality(R(n + 1)) > n /\ ~Settled(n + 1)
      BY <1>3, <1>6, <2>2
    <2> QED
      BY <1>9, <2>1, <2>2
  <1>10. N \in S
    <2> HIDE DEF S
    <2> QED
      BY <1>4, <1>8, <1>9, AllNaturals
  <1>11. Settled(N)
    BY <1>3, <1>4, <1>10
  <1>12. \A s \in steps : s[1] \in R(N) => s[2] \in R(N)
    BY <1>1, <1>4, <1>11 DEF Grown
  <1> QED
    BY <1>12 DEF R, N
-----------------------------------------------------------------------------
(* The inductive invariant *)

\* What a scan is to find.
Within(folder, include) == Reached(folder \cap Kept(include), Steps(include), Size)

Items == [node : Paths, distance : Nat]

GraphTypeOK ==
    /\ dependencies \in [Paths -> SUBSET Paths]
    /\ busy \in {"idle", "scanning", "searching"}
    /\ scan \in [folder : SUBSET Paths, include : BOOLEAN, pending : Seq(Paths), scheduled : SUBSET Paths,
                 nodes : SUBSET Paths, edges : SUBSET (Paths \X Paths)]
    /\ search \in [target : SUBSET Paths, depth : Nat, queue : Seq(Items),
                   visited : SUBSET Paths, items : SUBSET Items]
    /\ graph \in SUBSET [folder : SUBSET Paths, include : BOOLEAN, nodes : SUBSET Paths, edges : SUBSET (Paths \X Paths)]

\* What has been scheduled is pending, or what it depends on has been recorded.
ScanInv ==
    /\ scan.folder \in RootFolders
    /\ ToSet(scan.pending) \subseteq scan.scheduled
    /\ scan.folder \subseteq scan.scheduled
    /\ scan.scheduled \subseteq scan.folder \cup Within(scan.folder, scan.include)
    /\ scan.nodes \subseteq scan.scheduled \cap Within(scan.folder, scan.include)
    /\ scan.edges \subseteq {e \in Steps(scan.include) : e[1] \in scan.nodes}
    /\ \A p \in scan.scheduled \cap Kept(scan.include) :
          \/ p \in ToSet(scan.pending)
          \/ /\ p \in scan.nodes
             /\ \A e \in Steps(scan.include) :
                   e[1] = p => e \in scan.edges /\ e[2] \in scan.scheduled

\* The steps of a query lead from an asset to those that depend on it.
Back == {<<e[2], e[1]>> : e \in UNION {g.edges : g \in graph}}

Level(k) == Reached(search.target, Back, k)

\* Asset n is k steps away, and no less.
Away(n, k) == n \in Level(k) /\ (k > 0 => n \notin Level(k - 1))

\* The items of a query, and the asset it starts from.
Listed == search.items \cup {[node |-> t, distance |-> 0] : t \in search.target}

\* The queue is sorted, and its distances differ by one at most.
SortedByDistance ==
    \A i, j \in 1..Len(search.queue) :
        i <= j => /\ search.queue[i].distance <= search.queue[j].distance
                  /\ search.queue[j].distance <= search.queue[i].distance + 1

\* What has been found is queued, too far away, or all it leads to has been found.
SearchInv ==
    /\ \E g \in graph : \E t \in g.nodes : search.target = {t}
    /\ search.depth \in Depths
    /\ \A r \in Listed : r.distance <= search.depth /\ Away(r.node, r.distance)
    /\ \A r \in search.items : r.distance > 0
    /\ search.visited = {r.node : r \in Listed}
    /\ ToSet(search.queue) \subseteq Listed
    /\ SortedByDistance
    /\ \A r \in Listed :
          \/ r \in ToSet(search.queue)
          \/ r.distance >= search.depth
          \/ \A s \in Back : s[1] = r.node => s[2] \in search.visited

GraphInv ==
    /\ \A g, h \in graph : g = h
    /\ busy = "scanning" => ScanInv
    /\ busy = "searching" => SearchInv
    /\ ScanIsExact
    /\ ImpactIsExact
-----------------------------------------------------------------------------
(* Types *)

LEMMA PathsFinite ==
    /\ IsFiniteSet(Paths) /\ Size \in Nat
    /\ \A S \in SUBSET Paths : IsFiniteSet(S)
  BY GraphAssumption, FS_CardinalityType, FS_Subset DEF Size

\* The items found at one distance are as many as their assets.
LEMMA ItemsFinite ==
    ASSUME NEW S \in SUBSET Paths, NEW k \in Nat
    PROVE  /\ {[node |-> n, distance |-> k] : n \in S} \in SUBSET Items
           /\ IsFiniteSet({[node |-> n, distance |-> k] : n \in S})
           /\ Cardinality({[node |-> n, distance |-> k] : n \in S}) <= Cardinality(S)
  <1> DEFINE T == {[node |-> n, distance |-> k] : n \in S}
             f == [n \in S |-> [node |-> n, distance |-> k]]
  <1>1. f \in Surjection(S, T)
    BY DEF Surjection
  <1>2. IsFiniteSet(T) /\ Cardinality(T) <= Cardinality(S)
    <2> HIDE DEF f, T
    <2> QED
      BY <1>1, PathsFinite, FS_Surjection
  <1> QED
    BY <1>2 DEF Items

LEMMA TypeInit == GraphInit => GraphTypeOK
  <1> SUFFICES ASSUME GraphInit PROVE GraphTypeOK
    OBVIOUS
  <1>1. dependencies \in [Paths -> SUBSET Paths]
    BY GraphAssumption DEF GraphInit
  <1>2. scan \in [folder : SUBSET Paths, include : BOOLEAN, pending : Seq(Paths), scheduled : SUBSET Paths,
                  nodes : SUBSET Paths, edges : SUBSET (Paths \X Paths)]
    BY DEF GraphInit, NoScan
  <1>3. search \in [target : SUBSET Paths, depth : Nat, queue : Seq(Items),
                    visited : SUBSET Paths, items : SUBSET Items]
    BY DEF GraphInit, NoSearch
  <1> QED
    BY <1>1, <1>2, <1>3 DEF GraphTypeOK, GraphInit

\* What a step of the scan finds.
LEMMA ScanFinds ==
    ASSUME GraphTypeOK, busy = "scanning", scan.pending # <<>>
    PROVE  /\ Head(scan.pending) \in Paths
           /\ Unscheduled(Head(scan.pending)) \in SUBSET Paths
           /\ SetToSeq(Unscheduled(Head(scan.pending))) \in Seq(Paths)
           /\ ToSet(SetToSeq(Unscheduled(Head(scan.pending)))) = Unscheduled(Head(scan.pending))
  <1>1. scan.pending \in Seq(Paths) /\ dependencies \in [Paths -> SUBSET Paths]
    BY DEF GraphTypeOK
  <1>2. Head(scan.pending) \in Paths
    BY <1>1
  <1>3. Unscheduled(Head(scan.pending)) \in SUBSET Paths
    BY <1>1, <1>2 DEF Unscheduled
  <1> DEFINE new == Unscheduled(Head(scan.pending))
  <1> HIDE DEF new
  <1>4. SetToSeq(new) \in Seq(new) /\ ToSet(SetToSeq(new)) = new
    BY <1>3, PathsFinite, Enumerates DEF new
  <1>5. SetToSeq(new) \in Seq(Paths)
    BY <1>3, <1>4 DEF new
  <1> QED
    BY <1>2, <1>3, <1>4, <1>5 DEF new
\* What a step of a query finds.
SearchNew ==
    IF Head(search.queue).distance >= search.depth THEN {}
    ELSE (UNION {{e[1] : e \in {f \in g.edges : f[2] = Head(search.queue).node}} : g \in graph})
            \ search.visited

SearchFound == {[node |-> n, distance |-> Head(search.queue).distance + 1] : n \in SearchNew}

LEMMA SearchFinds ==
    ASSUME GraphTypeOK, busy = "searching", search.queue # <<>>
    PROVE  /\ Head(search.queue) \in Items
           /\ SearchNew \in SUBSET Paths /\ SearchFound \in SUBSET Items
           /\ SetToSeq(SearchFound) \in Seq(Items)
           /\ ToSet(SetToSeq(SearchFound)) = SearchFound
  <1>1. search.queue \in Seq(Items)
    BY DEF GraphTypeOK
  <1>2. Head(search.queue) \in Items
    BY <1>1
  <1>3. \A g \in graph : g.edges \subseteq Paths \X Paths
    BY DEF GraphTypeOK
  <1>4. SearchNew \in SUBSET Paths
    BY <1>3 DEF SearchNew
  <1>5. Head(search.queue).distance + 1 \in Nat
    BY <1>2 DEF Items
  <1>6. SearchFound \in SUBSET Items /\ IsFiniteSet(SearchFound)
    <2> DEFINE k == Head(search.queue).distance + 1
    <2>1. SearchFound = {[node |-> n, distance |-> k] : n \in SearchNew}
      BY DEF SearchFound
    <2>2. k \in Nat
      BY <1>5
    <2> HIDE DEF k
    <2> QED
      BY <1>4, <2>1, <2>2, ItemsFinite
  <1>7. SetToSeq(SearchFound) \in Seq(SearchFound) /\ ToSet(SetToSeq(SearchFound)) = SearchFound
    BY <1>6, Enumerates
  <1>8. SetToSeq(SearchFound) \in Seq(Items)
    BY <1>6, <1>7
  <1> QED
    BY <1>2, <1>4, <1>6, <1>7, <1>8

\* The types, and what a step of each walk changes in its state.
LEMMA ScanChanges ==
    ASSUME GraphTypeOK, ScanNext
    PROVE  LET source == Head(scan.pending)
               targets == {d \in dependencies[source] \ {source} : Accepted(d, scan.include)}
               new == Unscheduled(source)
           IN /\ scan' \in [folder : SUBSET Paths, include : BOOLEAN, pending : Seq(Paths), scheduled : SUBSET Paths,
                            nodes : SUBSET Paths, edges : SUBSET (Paths \X Paths)]
              /\ scan'.include = scan.include /\ scan'.folder = scan.folder
              /\ ~Accepted(source, scan.include) =>
                    /\ scan'.pending = Tail(scan.pending) /\ scan'.scheduled = scan.scheduled
                    /\ scan'.nodes = scan.nodes /\ scan'.edges = scan.edges
              /\ Accepted(source, scan.include) =>
                    /\ scan'.pending = Tail(scan.pending) \o SetToSeq(new)
                    /\ scan'.scheduled = scan.scheduled \cup new
                    /\ scan'.nodes = scan.nodes \cup {source} \cup targets
                    /\ scan'.edges = scan.edges \cup {<<source, d>> : d \in targets}
  <1> DEFINE source == Head(scan.pending)
             targets == {d \in dependencies[source] \ {source} : Accepted(d, scan.include)}
             new == Unscheduled(source)
             Record == [folder : SUBSET Paths, include : BOOLEAN, pending : Seq(Paths), scheduled : SUBSET Paths,
                        nodes : SUBSET Paths, edges : SUBSET (Paths \X Paths)]
  <1>1. /\ source \in Paths /\ new \in SUBSET Paths /\ SetToSeq(new) \in Seq(Paths)
        /\ scan.pending # <<>>
    BY ScanFinds DEF ScanNext
  <1>2. scan \in Record /\ dependencies \in [Paths -> SUBSET Paths]
    BY DEF GraphTypeOK
  <1>3. targets \in SUBSET Paths
    BY <1>1, <1>2
  <1> DEFINE seq == SetToSeq(new)
             more == {<<source, d>> : d \in targets}
             skipped == [scan EXCEPT !.pending = Tail(@)]
             recorded == [scan EXCEPT !.pending = Tail(@) \o seq, !.scheduled = @ \cup new,
                                      !.nodes = @ \cup {source} \cup targets,
                                      !.edges = @ \cup more]
  <1>4. scan' = IF ~Accepted(source, scan.include) THEN skipped ELSE recorded
    BY Zenon DEF ScanNext
  <1>5. /\ Tail(scan.pending) \in Seq(Paths) /\ Tail(scan.pending) \o seq \in Seq(Paths)
        /\ more \in SUBSET (Paths \X Paths)
    <2>1. scan.pending \in Seq(Paths) /\ scan.pending # <<>> /\ seq \in Seq(Paths)
      BY <1>1, <1>2
    <2>2. more \in SUBSET (Paths \X Paths)
      BY <1>1, <1>3
    <2> QED
      BY <2>1, <2>2, QueueHolds
  <1>6. /\ scan.scheduled \cup new \in SUBSET Paths
        /\ scan.nodes \cup {source} \cup targets \in SUBSET Paths
        /\ scan.edges \cup more \in SUBSET (Paths \X Paths)
    BY <1>1, <1>2, <1>3, <1>5
  <1> HIDE DEF source, targets, new, seq, more
  <1>7. skipped \in Record /\ recorded \in Record
    BY <1>2, <1>5, <1>6, Zenon
  <1>8. /\ skipped.include = scan.include /\ skipped.folder = scan.folder
        /\ skipped.pending = Tail(scan.pending)
        /\ skipped.scheduled = scan.scheduled /\ skipped.nodes = scan.nodes
        /\ skipped.edges = scan.edges
    BY <1>2
  <1>9. /\ recorded.include = scan.include /\ recorded.folder = scan.folder
        /\ recorded.pending = Tail(scan.pending) \o seq
        /\ recorded.scheduled = scan.scheduled \cup new
        /\ recorded.nodes = scan.nodes \cup {source} \cup targets
        /\ recorded.edges = scan.edges \cup more
    BY <1>2
  <1>10. CASE ~Accepted(source, scan.include)
    BY <1>4, <1>7, <1>8, <1>10 DEF source, targets, new, seq, more
  <1>11. CASE Accepted(source, scan.include)
    BY <1>4, <1>7, <1>9, <1>11 DEF source, targets, new, seq, more
  <1> QED
    BY <1>10, <1>11 DEF source, targets, new, seq, more

LEMMA SearchChanges ==
    ASSUME GraphTypeOK, SearchNext
    PROVE  /\ search' \in [target : SUBSET Paths, depth : Nat, queue : Seq(Items),
                           visited : SUBSET Paths, items : SUBSET Items]
           /\ search'.target = search.target /\ search'.depth = search.depth
           /\ search'.queue = Tail(search.queue) \o SetToSeq(SearchFound)
           /\ search'.visited = search.visited \cup SearchNew
           /\ search'.items = search.items \cup SearchFound
  <1> DEFINE Record == [target : SUBSET Paths, depth : Nat, queue : Seq(Items),
                        visited : SUBSET Paths, items : SUBSET Items]
             seq == SetToSeq(SearchFound)
             after == [search EXCEPT !.queue = Tail(@) \o seq, !.visited = @ \cup SearchNew,
                                     !.items = @ \cup SearchFound]
  <1>1. search' = after
    BY Zenon DEF SearchNext, SearchNew, SearchFound, Enqueued
  <1>2. search \in Record /\ search.queue # <<>>
    BY DEF GraphTypeOK, SearchNext
  <1>3. SearchNew \in SUBSET Paths /\ SearchFound \in SUBSET Items /\ seq \in Seq(Items)
    BY SearchFinds DEF SearchNext
  <1>4. Tail(search.queue) \o seq \in Seq(Items)
    BY <1>2, <1>3, QueueHolds
  <1>5. search.visited \cup SearchNew \in SUBSET Paths /\ search.items \cup SearchFound \in SUBSET Items
    BY <1>2, <1>3
  <1> HIDE DEF seq
  <1>6. after \in Record
    BY <1>2, <1>4, <1>5, Zenon
  <1>7. /\ after.target = search.target /\ after.depth = search.depth
        /\ after.queue = Tail(search.queue) \o seq
        /\ after.visited = search.visited \cup SearchNew
        /\ after.items = search.items \cup SearchFound
    BY <1>2
  <1> QED
    BY <1>1, <1>6, <1>7 DEF seq
\* A scan starts with the assets of the folder.
LEMMA ScanStarts ==
    ASSUME GraphTypeOK, NEW folder \in RootFolders, NEW include \in BOOLEAN,
           StartScan(folder, include)
    PROVE  /\ scan' \in [folder : SUBSET Paths, include : BOOLEAN, pending : Seq(Paths),
                         scheduled : SUBSET Paths, nodes : SUBSET Paths,
                         edges : SUBSET (Paths \X Paths)]
           /\ scan'.folder = folder /\ scan'.include = include
           /\ ToSet(scan'.pending) = folder /\ scan'.scheduled = folder
           /\ scan'.nodes = {} /\ scan'.edges = {}
  <1> DEFINE seq == SetToSeq(folder)
  <1>1. folder \in SUBSET Paths
    BY GraphAssumption
  <1>2. seq \in Seq(folder) /\ ToSet(seq) = folder
    BY <1>1, PathsFinite, Enumerates
  <1>3. seq \in Seq(Paths)
    BY <1>1, <1>2
  <1>4. scan' = [folder |-> folder, include |-> include, pending |-> seq, scheduled |-> folder,
                 nodes |-> {}, edges |-> {}]
    BY DEF StartScan, NoScan
  <1> HIDE DEF seq
  <1> QED
    BY <1>1, <1>2, <1>3, <1>4

LEMMA SearchStarts ==
    ASSUME GraphTypeOK, NEW target \in Paths, NEW depth \in Depths, StartQuery(target, depth)
    PROVE  search' = [target |-> {target}, depth |-> depth,
                      queue |-> <<[node |-> target, distance |-> 0]>>,
                      visited |-> {target}, items |-> {}]
  BY DEF StartQuery, NoSearch

LEMMA TypeStep == GraphTypeOK /\ [GraphNext]_graphVars => GraphTypeOK'
  <1> SUFFICES ASSUME GraphTypeOK, [GraphNext]_graphVars PROVE GraphTypeOK'
    OBVIOUS
  <1>1. ASSUME NEW folder \in RootFolders, NEW include \in BOOLEAN, StartScan(folder, include)
        PROVE  GraphTypeOK'
    BY <1>1, ScanStarts DEF StartScan, GraphTypeOK
  <1>2. CASE ScanNext
    BY <1>2, ScanChanges DEF ScanNext, GraphTypeOK
  <1>3. CASE EndScan
    <2>1. scan' \in [folder : SUBSET Paths, include : BOOLEAN, pending : Seq(Paths), scheduled : SUBSET Paths,
                     nodes : SUBSET Paths, edges : SUBSET (Paths \X Paths)]
      BY <1>3 DEF EndScan, NoScan
    <2>2. graph' \in SUBSET [folder : SUBSET Paths, include : BOOLEAN, nodes : SUBSET Paths,
                             edges : SUBSET (Paths \X Paths)]
      BY <1>3 DEF EndScan, ScannedGraph, GraphTypeOK
    <2> QED
      BY <1>3, <2>1, <2>2 DEF EndScan, GraphTypeOK
  <1>4. ASSUME NEW target \in Paths, NEW depth \in Depths, StartQuery(target, depth)
        PROVE  GraphTypeOK'
    <2>1. <<[node |-> target, distance |-> 0]>> \in Seq(Items) /\ depth \in Nat
      BY GraphAssumption DEF Items
    <2>2. search' \in [target : SUBSET Paths, depth : Nat, queue : Seq(Items),
                       visited : SUBSET Paths, items : SUBSET Items]
      <3> DEFINE q == <<[node |-> target, distance |-> 0]>>
      <3>1. search' = [target |-> {target}, depth |-> depth, queue |-> q,
                       visited |-> {target}, items |-> {}]
        BY <1>4, SearchStarts
      <3>2. q \in Seq(Items)
        BY <2>1
      <3> HIDE DEF q
      <3> QED
        BY <2>1, <3>1, <3>2
    <2> QED
      BY <1>4, <2>2 DEF StartQuery, GraphTypeOK
  <1>5. CASE SearchNext
    BY <1>5, SearchChanges DEF SearchNext, GraphTypeOK
  <1>6. CASE EndQuery
    <2>1. search' \in [target : SUBSET Paths, depth : Nat, queue : Seq(Items),
                       visited : SUBSET Paths, items : SUBSET Items]
      BY <1>6 DEF EndQuery, NoSearch
    <2> QED
      BY <1>6, <2>1 DEF EndQuery, GraphTypeOK
  <1>7. CASE UNCHANGED graphVars
    BY <1>7 DEF graphVars, GraphTypeOK
  <1> QED
    BY <1>1, <1>2, <1>3, <1>4, <1>5, <1>6, <1>7 DEF GraphNext

-----------------------------------------------------------------------------
(* The scan *)

\* No dependency leads out of what a scan is to find.
LEMMA WithinCloses ==
    ASSUME NEW folder \in SUBSET Paths, NEW include
    PROVE  /\ folder \cap Kept(include) \subseteq Within(folder, include)
           /\ \A e \in Steps(include) :
                 e[1] \in Within(folder, include) => e[2] \in Within(folder, include)
  <1> DEFINE start == folder \cap Kept(include)
             steps == Steps(include)
  <1>1. start \subseteq Paths /\ \A e \in steps : e[2] \in Paths
    BY DEF Kept, Steps
  <1>2. /\ Reached(start, steps, 0) = start
        /\ Reached(start, steps, 0) \subseteq Reached(start, steps, Size)
    BY PathsFinite, ReachedRecursion, ReachedGrows
  <1>3. \A e \in steps : e[1] \in Reached(start, steps, Size) => e[2] \in Reached(start, steps, Size)
    <2> HIDE DEF start, steps
    <2> QED
      BY <1>1, PathsFinite, ReachedCloses DEF Size
  <1> QED
    BY <1>2, <1>3 DEF Within

\* ... and nothing is in it that a set need not have which holds the folder's
\* assets and which no dependency leads out of.
LEMMA WithinLeast ==
    ASSUME NEW folder, NEW include, NEW C, folder \cap Kept(include) \subseteq C,
           \A e \in Steps(include) : e[1] \in C => e[2] \in C
    PROVE  Within(folder, include) \subseteq C
  BY PathsFinite, ReachedStays DEF Within

\* A scan that has nothing left to look at has found all there is.
LEMMA ScanDone ==
    ASSUME GraphTypeOK, ScanInv, scan.pending = <<>>
    PROVE  ScannedGraph = ExactGraph(scan.folder, scan.include)
  <1> DEFINE C == scan.scheduled \cap Kept(scan.include)
  <1>1. ToSet(scan.pending) = {}
    BY DEF ToSet
  <1>2. \A p \in C : /\ p \in scan.nodes
                     /\ \A e \in Steps(scan.include) :
                           e[1] = p => e \in scan.edges /\ e[2] \in scan.scheduled
    BY <1>1 DEF ScanInv
  <1>3. scan.folder \cap Kept(scan.include) \subseteq C
    BY DEF ScanInv
  <1>4. \A e \in Steps(scan.include) : e[1] \in C => e[2] \in C
    BY <1>2 DEF Steps
  <1>5. Within(scan.folder, scan.include) \subseteq C
    <2> HIDE DEF C
    <2> QED
      BY <1>3, <1>4, WithinLeast
  <1>6. scan.nodes = Within(scan.folder, scan.include)
    BY <1>2, <1>5 DEF ScanInv
  <1>7. \A e \in Steps(scan.include) : e[1] \in scan.nodes => e \in scan.edges
    BY <1>2, <1>5, <1>6
  <1>8. scan.edges = {e \in Steps(scan.include) : e[1] \in scan.nodes}
    BY <1>7 DEF ScanInv
  <1> QED
    BY <1>6, <1>8 DEF ScannedGraph, ExactGraph, Within

\* A step of the scan keeps the invariant: whether the path is skipped or not.
LEMMA ScanStep ==
    ASSUME GraphTypeOK, ScanInv, ScanNext
    PROVE  ScanInv'
  <1> DEFINE source == Head(scan.pending)
             targets == {d \in dependencies[source] \ {source} : Accepted(d, scan.include)}
             new == Unscheduled(source)
             rest == ToSet(Tail(scan.pending))
             from == {e \in Steps(scan.include) : e[1] = source}
  <1>1. /\ source \in Paths /\ new \in SUBSET Paths /\ SetToSeq(new) \in Seq(Paths)
        /\ ToSet(SetToSeq(new)) = new
    BY ScanFinds DEF ScanNext
  <1>2. /\ scan.pending \in Seq(Paths) /\ scan.pending # <<>>
        /\ scan.folder \in SUBSET Paths /\ scan.include \in BOOLEAN /\ dependencies \in [Paths -> SUBSET Paths]
        /\ scan.nodes \in SUBSET Paths /\ scan.scheduled \in SUBSET Paths
    BY DEF GraphTypeOK, ScanNext
  <1>3. ToSet(scan.pending) = {source} \cup rest
    BY <1>1, <1>2, QueueHolds
  <1>4. /\ scan'.include = scan.include /\ scan'.folder = scan.folder
        /\ ~Accepted(source, scan.include) =>
              /\ scan'.pending = Tail(scan.pending) /\ scan'.scheduled = scan.scheduled
              /\ scan'.nodes = scan.nodes /\ scan'.edges = scan.edges
        /\ Accepted(source, scan.include) =>
              /\ scan'.pending = Tail(scan.pending) \o SetToSeq(new)
              /\ scan'.scheduled = scan.scheduled \cup new
              /\ scan'.nodes = scan.nodes \cup {source} \cup targets
              /\ scan'.edges = scan.edges \cup {<<source, d>> : d \in targets}
    BY ScanChanges
  <1>5. Within(scan.folder, scan.include)' = Within(scan.folder, scan.include) /\ Steps(scan.include)' = Steps(scan.include)
        /\ Kept(scan.include)' = Kept(scan.include)
    BY <1>4 DEF ScanNext, Within, Steps, Kept, Accepted
  <1> DEFINE W == Within(scan.folder, scan.include)
             E == Steps(scan.include)
             K == Kept(scan.include)
  <1>6. new = targets \ scan.scheduled /\ targets \in SUBSET Paths
    BY <1>1, <1>2 DEF Unscheduled
  <1>7. targets \subseteq K
    BY <1>6 DEF Kept
  <1>8. from = {<<source, d>> : d \in IF source \in K THEN targets ELSE {}}
    <2>1. ASSUME NEW e \in from PROVE source \in K /\ e[2] \in targets /\ e = <<source, e[2]>>
      BY DEF Steps, Kept
    <2>2. ASSUME source \in K, NEW d \in targets PROVE <<source, d>> \in from
      BY <1>7, <2>2 DEF Steps
    <2> QED
      BY <2>1, <2>2
  <1>9. K \cap scan.folder \subseteq W /\ \A e \in E : e[1] \in W => e[2] \in W
    BY <1>2, WithinCloses
  <1>10. Accepted(source, scan.include) <=> source \in K
    BY <1>1 DEF Kept
  <1> HIDE DEF source, targets, new, rest, W, E, K
  <1>11. CASE ~Accepted(source, scan.include)
    <2>1. source \notin K
      BY <1>10, <1>11
    <2> QED
      BY <1>3, <1>4, <1>5, <1>11, <2>1, source \in ToSet(scan.pending) DEF ScanInv, ScanNext, rest, W, E, K
  <1>12. CASE Accepted(source, scan.include)
    <2>1. source \in scan.scheduled /\ source \in W /\ targets \subseteq W
      <3>1. source \in scan.scheduled /\ source \in K
        BY <1>3, <1>10, <1>12 DEF ScanInv
      <3>2. source \in W
        BY <1>9, <3>1 DEF ScanInv, W
      <3>3. ASSUME NEW d \in targets PROVE d \in W
        <4>1. <<source, d>> \in from
          BY <1>8, <3>1
        <4>2. <<source, d>> \in E
          BY <4>1 DEF E
        <4> QED
          BY <1>9, <3>2, <4>2
      <3> QED
        BY <3>1, <3>2, <3>3
    <2>2. ToSet(scan'.pending) = rest \cup new
      <3>1. \A r \in Seq(Paths) :
               ToSet(Tail(scan.pending) \o r) = ToSet(Tail(scan.pending)) \cup ToSet(r)
        BY <1>2, QueueHolds
      <3>2. SetToSeq(new) \in Seq(Paths) /\ ToSet(SetToSeq(new)) = new
        BY <1>1 DEF new, source
      <3> QED
        BY <1>4, <1>12, <3>1, <3>2 DEF rest
    <2>3. from = {<<source, d>> : d \in targets}
      BY <1>8, <1>10, <1>12
    <2>5. ToSet(scan'.pending) \subseteq scan'.scheduled
      BY <1>3, <1>4, <1>12, <2>2 DEF ScanInv
    <2>6. scan'.scheduled \subseteq scan.folder \cup W
      BY <1>4, <1>6, <1>12, <2>1 DEF ScanInv, W
    <2>7. scan'.nodes \subseteq scan'.scheduled \cap W
      BY <1>4, <1>6, <1>12, <2>1 DEF ScanInv, W
    <2>8. scan'.edges \subseteq {e \in E : e[1] \in scan'.nodes}
      BY <1>4, <1>12, <2>3 DEF ScanInv, E
    <2>9. ASSUME NEW p \in scan'.scheduled \cap K, p \notin ToSet(scan'.pending)
          PROVE  /\ p \in scan'.nodes
                 /\ \A e \in E : e[1] = p => e \in scan'.edges /\ e[2] \in scan'.scheduled
      <3>1. CASE p = source
        <4>1. \A e \in E : e[1] = p => e \in {<<source, d>> : d \in targets}
          BY <2>3, <3>1 DEF E
        <4> QED
          BY <1>4, <1>6, <1>12, <3>1, <4>1
      <3>2. CASE p # source
        <4>1. p \in scan.scheduled \cap K /\ p \notin ToSet(scan.pending)
          BY <1>3, <1>4, <1>12, <2>2, <2>9, <3>2
        <4>2. /\ p \in scan.nodes
              /\ \A e \in E : e[1] = p => e \in scan.edges /\ e[2] \in scan.scheduled
          BY <4>1 DEF ScanInv, E, K
        <4> QED
          BY <1>4, <1>12, <4>2
      <3> QED
        BY <3>1, <3>2
    <2> QED
      BY <1>4, <1>5, <1>12, <2>5, <2>6, <2>7, <2>8, <2>9 DEF ScanInv, W, E, K
  <1> QED
    BY <1>11, <1>12
-----------------------------------------------------------------------------
(* The impact query *)

LEMMA Levels ==
    /\ Level(0) = search.target
    /\ \A n \in Nat : Level(n + 1) = Grown(Level(n), Back)
    /\ \A n, m \in Nat : n <= m => Level(n) \subseteq Level(m)
  BY ReachedRecursion, ReachedGrows DEF Level

\* What is k steps away is not reached in less.
LEMMA NoLess ==
    ASSUME NEW n, NEW k \in Nat, NEW m \in Nat, Away(n, k), n \in Level(m)
    PROVE  k <= m
  <1>1. SUFFICES ASSUME m < k PROVE FALSE
    OBVIOUS
  <1>2. k - 1 \in Nat /\ m <= k - 1
    BY <1>1
  <1> QED
    BY <1>1, <1>2, Levels DEF Away

\* When nothing nearer than d is queued, all that d steps reach has been found:
\* this is what makes the breadth-first order matter.
LEMMA NearFound ==
    ASSUME GraphTypeOK, SearchInv, NEW d \in Nat, d <= search.depth,
           \A r \in ToSet(search.queue) : r.distance >= d
    PROVE  Level(d) \subseteq search.visited
  <1> DEFINE S == {k \in Nat : k <= d => Level(k) \subseteq search.visited}
  <1>1. search.items \in SUBSET Items /\ search.target \in SUBSET Paths /\ search.depth \in Nat
    BY DEF GraphTypeOK
  <1>2. Listed \in SUBSET Items
    BY <1>1 DEF Listed, Items
  <1>3. 0 \in S
    <2>1. ASSUME NEW t \in search.target PROVE t \in search.visited
      <3>1. [node |-> t, distance |-> 0] \in Listed
        BY DEF Listed
      <3> QED
        BY <3>1 DEF SearchInv
    <2> QED
      BY <2>1, Levels
  <1>4. ASSUME NEW k \in Nat, k \in S PROVE k + 1 \in S
    <2>1. SUFFICES ASSUME k + 1 <= d, NEW x \in Level(k + 1) PROVE x \in search.visited
      OBVIOUS
    <2>2. Level(k) \subseteq search.visited
      BY <1>4, <2>1
    <2>3. CASE x \in Level(k)
      BY <2>2, <2>3
    <2>4. CASE x \notin Level(k)
      <3>1. PICK s \in Back : s[1] \in Level(k) /\ s[2] = x
        BY <2>1, <2>4, Levels DEF Grown
      <3>2. PICK r \in Listed : r.node = s[1]
        BY <2>2, <3>1 DEF SearchInv
      <3>3. r.distance \in Nat /\ Away(r.node, r.distance)
        BY <1>2 DEF SearchInv, Items
      <3>4. r.distance <= k
        BY <3>1, <3>2, <3>3, NoLess
      <3>5. r \notin ToSet(search.queue) /\ ~(r.distance >= search.depth)
        BY <1>1, <2>1, <3>3, <3>4
      <3>6. \A e \in Back : e[1] = r.node => e[2] \in search.visited
        BY <3>5 DEF SearchInv
      <3> QED
        BY <3>1, <3>2, <3>6
    <2> QED
      BY <2>3, <2>4
  <1>5. Nat \subseteq S
    <2> HIDE DEF S
    <2> QED
      BY <1>3, <1>4, AllNaturals
  <1> QED
    BY <1>5

\* A query starts with the target alone.
LEMMA SearchBegun ==
    ASSUME GraphTypeOK, NEW target \in Paths, NEW depth \in Depths, StartQuery(target, depth)
    PROVE  SearchInv'
  <1> DEFINE first == [node |-> target, distance |-> 0]
  <1>1. /\ search'.target = {target} /\ search'.depth = depth /\ search'.queue = <<first>>
        /\ search'.visited = {target} /\ search'.items = {}
    BY SearchStarts
  <1>2. depth \in Nat /\ graph' = graph /\ \E g \in graph : target \in g.nodes
    BY GraphAssumption DEF StartQuery
  <1>3. Listed' = {first}
    BY <1>1 DEF Listed
  <1>4. Away(target, 0)'
    <2>1. Reached(search'.target, Back', 0) = search'.target
      BY ReachedRecursion
    <2> QED
      BY <1>1, <2>1 DEF Away, Level
  <1>5. ToSet(search'.queue) = {first}
    BY <1>1 DEF ToSet
  <1>6. SortedByDistance'
    BY <1>1 DEF SortedByDistance
  <1> QED
    BY <1>1, <1>2, <1>3, <1>4, <1>5, <1>6 DEF SearchInv

\* The step of a query in the terms of the invariant.
LEMMA SearchNewSteps ==
    ASSUME GraphTypeOK, Head(search.queue).distance < search.depth,
           Head(search.queue) \in Items
    PROVE  SearchNew = {s[2] : s \in {e \in Back : e[1] = Head(search.queue).node}} \ search.visited
  <1> DEFINE head == Head(search.queue)
  <1>1. search.depth \in Nat /\ head.distance \in Nat
    BY DEF GraphTypeOK, Items
  <1> DEFINE before == UNION {{e[1] : e \in {f \in g.edges : f[2] = head.node}} : g \in graph}
             after == {s[2] : s \in {e \in Back : e[1] = head.node}}
  <1>2. SearchNew = before \ search.visited
    <2>1. ~(head.distance >= search.depth)
      BY <1>1
    <2>2. SearchNew = IF head.distance >= search.depth THEN {} ELSE before \ search.visited
      BY Zenon DEF SearchNew
    <2> HIDE DEF head, before
    <2> QED
      BY <2>1, <2>2
  <1> HIDE DEF head
  <1>3. ASSUME NEW x \in before PROVE x \in after
    <2>1. PICK g \in graph : \E e \in g.edges : e[2] = head.node /\ x = e[1]
      OBVIOUS
    <2>2. PICK e \in g.edges : e[2] = head.node /\ x = e[1]
      BY <2>1
    <2> DEFINE s == <<e[2], e[1]>>
    <2>3. s \in Back /\ s[1] = head.node /\ s[2] = x
      BY <2>2 DEF Back
    <2> HIDE DEF s
    <2> QED
      BY <2>3
  <1>4. ASSUME NEW x \in after PROVE x \in before
    <2>1. PICK s \in Back : s[1] = head.node /\ x = s[2]
      OBVIOUS
    <2>2. PICK g \in graph : \E e \in g.edges : s = <<e[2], e[1]>>
      BY DEF Back
    <2> QED
      BY <2>1, <2>2
  <1>5. before = after
    BY <1>3, <1>4
  <1> HIDE DEF before
  <1> QED
    BY <1>2, <1>5 DEF head

LEMMA SearchStep ==
    ASSUME GraphTypeOK, SearchInv, SearchNext
    PROVE  SearchInv'
  <1> DEFINE head == Head(search.queue)
             rest == Tail(search.queue)
             seq == SetToSeq(SearchFound)
  <1>1. /\ head \in Items /\ SearchNew \in SUBSET Paths /\ SearchFound \in SUBSET Items
        /\ seq \in Seq(Items) /\ ToSet(seq) = SearchFound
    BY SearchFinds DEF SearchNext
  <1>2. /\ search'.target = search.target /\ search'.depth = search.depth
        /\ search'.queue = rest \o seq
        /\ search'.visited = search.visited \cup SearchNew
        /\ search'.items = search.items \cup SearchFound
        /\ graph' = graph
    BY SearchChanges DEF SearchNext
  <1>3. /\ search.queue \in Seq(Items) /\ search.queue # <<>> /\ search.depth \in Nat
        /\ search.items \in SUBSET Items /\ search.target \in SUBSET Paths
    BY DEF GraphTypeOK, SearchNext
  <1>4. /\ rest \in Seq(Items) /\ ToSet(rest \o seq) = ToSet(rest) \cup SearchFound
        /\ ToSet(search.queue) = {head} \cup ToSet(rest)
    <2>1. \A r \in Seq(Items) : /\ rest \in Seq(Items)
                               /\ ToSet(rest \o r) = ToSet(rest) \cup ToSet(r)
                               /\ ToSet(search.queue) = {head} \cup ToSet(rest)
      BY <1>3, QueueHolds
    <2> QED
      BY <1>1, <2>1
  <1>5. Back' = Back /\ \A n, k : Away(n, k)' = Away(n, k)
    BY <1>2 DEF Back, Away, Level
  <1>6. Listed' = Listed \cup SearchFound /\ Listed \in SUBSET Items
    BY <1>2, <1>3 DEF Listed, Items
  <1>7. head \in Listed /\ head.distance \in Nat /\ head.distance <= search.depth
    BY <1>1, <1>4 DEF SearchInv, Items
  <1>8. \A r \in ToSet(search.queue) : r.distance >= head.distance
    <2>1. ASSUME NEW j \in 1..Len(search.queue) PROVE search.queue[j].distance >= head.distance
      <3>1. 1 \in 1..Len(search.queue) /\ 1 <= j /\ search.queue[1] = head
        BY <1>3
      <3>2. search.queue[j] \in Items
        BY <1>3
      <3> QED
        BY <1>7, <3>1, <3>2 DEF SearchInv, SortedByDistance, Items
    <2> QED
      BY <2>1 DEF ToSet
  <1>9. Level(head.distance) \subseteq search.visited
    BY <1>7, <1>8, NearFound
  <1>10. ASSUME NEW n \in SearchNew
         PROVE  /\ head.distance < search.depth /\ n \notin search.visited
                /\ Away(n, head.distance + 1)
    <2>1. head.distance < search.depth
      BY <1>3, <1>7 DEF SearchNew
    <2>2. n \notin search.visited /\ \E s \in Back : s[1] = head.node /\ s[2] = n
      BY <1>1, <2>1, SearchNewSteps
    <2>3. head.node \in Level(head.distance)
      BY <1>7 DEF SearchInv, Away
    <2>4. n \in Level(head.distance + 1)
      BY <1>7, <2>2, <2>3, Levels DEF Grown
    <2>5. n \notin Level((head.distance + 1) - 1)
      BY <1>7, <1>9, <2>2
    <2> QED
      BY <2>1, <2>2, <2>4, <2>5 DEF Away
  <1>11. \A r \in SearchFound :
            /\ r.node \in SearchNew /\ r.distance = head.distance + 1
            /\ r.distance <= search.depth /\ r.distance > 0 /\ Away(r.node, r.distance)
    BY <1>3, <1>7, <1>10 DEF SearchFound
  <1>12. SearchNew = {r.node : r \in SearchFound}
    <2>1. ASSUME NEW n \in SearchNew PROVE n \in {r.node : r \in SearchFound}
      <3>1. [node |-> n, distance |-> head.distance + 1] \in SearchFound
        BY DEF SearchFound
      <3>2. [node |-> n, distance |-> head.distance + 1].node = n
        OBVIOUS
      <3> QED
        BY <3>1, <3>2, Zenon
    <2> QED
      BY <1>11, <2>1
  <1> HIDE DEF head, rest, seq
  <1>13. SortedByDistance'
    <2>1. /\ Len(rest) \in Nat /\ Len(seq) \in Nat /\ Len(search.queue) = Len(rest) + 1
          /\ Len(rest \o seq) = Len(rest) + Len(seq)
          /\ \A i \in 1..Len(rest) : rest[i] = search.queue[i + 1]
          /\ search.queue[1] = head
      BY <1>1, <1>3, <1>4 DEF rest, head
    <2>2. /\ \A i \in 1..Len(rest) : (rest \o seq)[i] = search.queue[i + 1]
          /\ \A i \in 1..Len(rest \o seq) : i > Len(rest) => (rest \o seq)[i] \in SearchFound
      <3>1. \A i \in 1..Len(rest) : (rest \o seq)[i] = rest[i]
        BY <1>1, <1>4, <2>1
      <3>2. ASSUME NEW i \in 1..Len(rest \o seq), i > Len(rest)
            PROVE  (rest \o seq)[i] \in SearchFound
        <4>1. i - Len(rest) \in 1..Len(seq) /\ (rest \o seq)[i] = seq[i - Len(rest)]
          BY <1>1, <1>4, <2>1, <3>2
        <4> QED
          BY <1>1, <4>1 DEF ToSet
      <3> QED
        BY <2>1, <3>1, <3>2
    <2>3. ASSUME NEW i \in 1..Len(search.queue), NEW j \in 1..Len(search.queue), i <= j
          PROVE  /\ search.queue[i].distance \in Nat /\ search.queue[j].distance \in Nat
                 /\ search.queue[i].distance <= search.queue[j].distance
                 /\ search.queue[j].distance <= search.queue[i].distance + 1
      <3>1. search.queue[i] \in Items /\ search.queue[j] \in Items
        BY <1>3
      <3> QED
        BY <2>3, <3>1 DEF SearchInv, SortedByDistance, Items
    <2> DEFINE q == rest \o seq
    <2> HIDE DEF q
    <2>4. ASSUME NEW i \in 1..Len(q), NEW j \in 1..Len(q), i <= j
          PROVE  q[i].distance <= q[j].distance /\ q[j].distance <= q[i].distance + 1
      <3>1. CASE j <= Len(rest)
        <4>1. q[i] = search.queue[i + 1] /\ q[j] = search.queue[j + 1]
          BY <2>1, <2>2, <2>4, <3>1 DEF q
        <4>2. i + 1 \in 1..Len(search.queue) /\ j + 1 \in 1..Len(search.queue) /\ i + 1 <= j + 1
          BY <2>1, <2>4, <3>1
        <4> QED
          BY <2>3, <4>1, <4>2
      <3>2. CASE i <= Len(rest) /\ j > Len(rest)
        <4>1. q[i] = search.queue[i + 1] /\ q[j].distance = head.distance + 1
          BY <1>11, <2>1, <2>2, <3>2 DEF q
        <4>2. 1 \in 1..Len(search.queue) /\ i + 1 \in 1..Len(search.queue) /\ 1 <= i + 1
          BY <2>1, <3>2
        <4>3. /\ q[i].distance \in Nat /\ head.distance <= q[i].distance
              /\ q[i].distance <= head.distance + 1
          BY <2>1, <2>3, <4>1, <4>2
        <4> QED
          BY <1>7, <4>1, <4>3
      <3>3. CASE i > Len(rest)
        <4>1. q[i].distance = head.distance + 1 /\ q[j].distance = head.distance + 1
          BY <1>11, <2>1, <2>2, <2>4, <3>3 DEF q
        <4> QED
          BY <1>7, <4>1
      <3> QED
        BY <2>1, <3>1, <3>2, <3>3
    <2> QED
      BY <1>2, <2>4 DEF q, SortedByDistance
  <1>14. ASSUME NEW r \in Listed \cup SearchFound, r \notin ToSet(rest) \cup SearchFound,
                ~(r.distance >= search.depth), NEW s \in Back, s[1] = r.node
         PROVE  s[2] \in search.visited \cup SearchNew
    <2>1. CASE r = head
      <3>1. head.distance < search.depth
        BY <1>3, <1>7, <1>14, <2>1
      <3> QED
        BY <1>1, <1>14, <2>1, <3>1, SearchNewSteps DEF head
    <2>2. CASE r # head
      BY <1>4, <1>14, <2>2 DEF SearchInv
    <2> QED
      BY <2>1, <2>2
  <1>15. /\ \E g \in graph' : \E t \in g.nodes : search'.target = {t}
         /\ search'.depth \in Depths /\ search'.visited = {r.node : r \in Listed'}
         /\ ToSet(search'.queue) \subseteq Listed'
    BY <1>2, <1>4, <1>6, <1>12 DEF SearchInv
  <1>16. /\ \A r \in Listed' : r.distance <= search'.depth /\ Away(r.node, r.distance)'
         /\ \A r \in search'.items : r.distance > 0
    BY <1>2, <1>5, <1>6, <1>11 DEF SearchInv
  <1>17. \A r \in Listed' : \/ r \in ToSet(search'.queue)
                            \/ r.distance >= search'.depth
                            \/ \A s \in Back' : s[1] = r.node => s[2] \in search'.visited
    BY <1>2, <1>4, <1>5, <1>6, <1>14
  <1> QED
    BY <1>13, <1>15, <1>16, <1>17 DEF SearchInv
\* A query that has nothing left to look at lists what is to be listed.
LEMMA SearchDone ==
    ASSUME GraphTypeOK, SearchInv, search.queue = <<>>
    PROVE  search.items = UNION {{[node |-> n, distance |-> k] : n \in Level(k) \ Level(k - 1)}
                                 : k \in 1..search.depth}
  <1> DEFINE due == UNION {{[node |-> n, distance |-> k] : n \in Level(k) \ Level(k - 1)}
                           : k \in 1..search.depth}
  <1>1. search.depth \in Nat /\ search.items \in SUBSET Items /\ search.target \in SUBSET Paths
    BY DEF GraphTypeOK
  <1>2. Level(search.depth) \subseteq search.visited
    <2>1. ToSet(search.queue) = {}
      BY DEF ToSet
    <2> QED
      BY <1>1, <2>1, NearFound
  <1>3. Listed \in SUBSET Items
    BY <1>1 DEF Listed, Items
  <1>4. ASSUME NEW r \in search.items PROVE r \in due
    <2>1. r \in Listed /\ r \in Items
      BY <1>1 DEF Listed
    <2>2. r.distance \in 1..search.depth /\ r = [node |-> r.node, distance |-> r.distance]
      BY <1>1, <2>1 DEF SearchInv, Items
    <2>3. r.node \in Level(r.distance) \ Level(r.distance - 1)
      BY <2>1, <2>2 DEF SearchInv, Away
    <2> QED
      BY <2>2, <2>3
  <1>5. ASSUME NEW k \in 1..search.depth, NEW n \in Level(k) \ Level(k - 1)
        PROVE  [node |-> n, distance |-> k] \in search.items
    <2>1. n \in search.visited
      <3>1. k \in Nat /\ k <= search.depth
        BY <1>1
      <3>2. Level(k) \subseteq Level(search.depth)
        BY <1>1, <3>1, Levels
      <3> QED
        BY <1>2, <1>5, <3>2
    <2>2. PICK r \in Listed : r.node = n
      BY <2>1 DEF SearchInv
    <2>3. r.distance \in Nat /\ Away(n, r.distance) /\ r = [node |-> n, distance |-> r.distance]
      BY <1>3, <2>2 DEF SearchInv, Items
    <2>4. k \in Nat /\ Away(n, k) /\ n \in Level(r.distance)
      BY <2>3 DEF Away
    <2>5. r.distance <= k /\ k <= r.distance
      BY <2>3, <2>4, NoLess
    <2>6. r = [node |-> n, distance |-> k]
      BY <2>3, <2>4, <2>5
    <2>7. r.distance # 0
      BY <2>3, <2>4, <2>5
    <2>8. \A t \in search.target : [node |-> t, distance |-> 0].distance = 0
      OBVIOUS
    <2>9. r \in search.items
      BY <2>2, <2>7, <2>8, Zenon DEF Listed
    <2> QED
      BY <2>6, <2>9
  <1>6. due \subseteq search.items
    BY <1>5
  <1> QED
    BY <1>4, <1>6

\* ... which is what the contract says of the graph on display.
LEMMA ResultIsExact ==
    ASSUME GraphTypeOK, GraphInv, EndQuery
    PROVE  \A g \in graph : search.items = ExactItems(g, search.target, search.depth)
  <1>1. SUFFICES ASSUME NEW g \in graph
                 PROVE  search.items = ExactItems(g, search.target, search.depth)
    OBVIOUS
  <1> DEFINE back == {<<e[2], e[1]>> : e \in g.edges}
             near(k) == {[node |-> n, distance |-> k] : n \in Level(k) \ Level(k - 1)}
             same(k) == {[node |-> n, distance |-> k] :
                            n \in Reached(search.target, back, k)
                                    \ Reached(search.target, back, k - 1)}
  <1>2. Back = back
    <2>1. graph = {g}
      BY DEF GraphInv
    <2>2. UNION {h.edges : h \in graph} = g.edges
      BY <2>1
    <2> QED
      BY <2>2 DEF Back
  <1>3. \A k : Level(k) = Reached(search.target, back, k)
    BY <1>2 DEF Level
  <1>4. \A k : near(k) = same(k)
    <2> HIDE DEF back
    <2> QED
      BY <1>3
  <1>5. search.items = UNION {near(k) : k \in 1..search.depth}
    BY SearchDone DEF EndQuery, GraphInv
  <1>6. ExactItems(g, search.target, search.depth) = UNION {same(k) : k \in 1..search.depth}
    BY Zenon DEF ExactItems
  <1> HIDE DEF near, same
  <1> QED
    BY <1>4, <1>5, <1>6

-----------------------------------------------------------------------------
(* The theorems *)

GraphIInv == GraphTypeOK /\ GraphInv

LEMMA GraphInvInit == GraphInit => GraphIInv
  <1> SUFFICES ASSUME GraphInit PROVE GraphIInv
    OBVIOUS
  <1>1. GraphTypeOK
    BY TypeInit
  <1>2. graph = {} /\ impact = {} /\ busy = "idle"
    BY DEF GraphInit
  <1> QED
    BY <1>1, <1>2 DEF GraphIInv, GraphInv, ScanIsExact, ImpactIsExact

\* What is displayed stays as it is.
LEMMA DisplayStays ==
    ASSUME GraphInv, UNCHANGED displayVars
    PROVE  (\A g, h \in graph : g = h)' /\ ScanIsExact' /\ ImpactIsExact'
  <1> USE DEF displayVars
  <1>1. \A folder, include : ExactGraph(folder, include)' = ExactGraph(folder, include)
    BY DEF ExactGraph, Steps
  <1>2. (\A g, h \in graph : g = h)'
    BY DEF GraphInv
  <1>3. ScanIsExact'
    BY <1>1 DEF GraphInv, ScanIsExact
  <1>4. ImpactIsExact'
    BY DEF GraphInv, ImpactIsExact
  <1> QED
    BY <1>2, <1>3, <1>4

\* The steps that change the display are those of the contract.
LEMMA ScanIsShown ==
    ASSUME GraphTypeOK, GraphInv, EndScan
    PROVE  scan.folder \in SUBSET Paths /\ Scan(scan.folder, scan.include)
  <1>1. ScannedGraph = ExactGraph(scan.folder, scan.include)
    BY ScanDone DEF EndScan, GraphInv
  <1> QED
    BY <1>1 DEF EndScan, Scan, GraphTypeOK

LEMMA ImpactIsShown ==
    ASSUME GraphTypeOK, GraphInv, EndQuery
    PROVE  \E target \in Paths, depth \in Depths : QueryImpact(target, depth)
  <1>1. PICK g \in graph :
           (\E u \in g.nodes : search.target = {u}) /\ search.depth \in Depths
    BY DEF EndQuery, GraphInv, SearchInv
  <1>2. PICK t \in g.nodes : search.target = {t}
    BY <1>1
  <1>3. t \in Paths
    BY <1>1 DEF GraphTypeOK
  <1>4. search.items = ExactItems(g, {t}, search.depth)
    BY <1>2, ResultIsExact
  <1>5. QueryImpact(t, search.depth)
    BY <1>2, <1>4 DEF EndQuery, QueryImpact
  <1> QED
    BY <1>1, <1>3, <1>5

LEMMA GraphInvStep == GraphIInv /\ [GraphNext]_graphVars => GraphInv'
  <1> SUFFICES ASSUME GraphIInv, [GraphNext]_graphVars PROVE GraphInv'
    OBVIOUS
  <1>1. GraphTypeOK /\ GraphInv /\ GraphTypeOK'
    BY TypeStep DEF GraphIInv
  <1>2. ASSUME NEW folder \in RootFolders, NEW include \in BOOLEAN, StartScan(folder, include)
        PROVE  GraphInv'
    <2>1. /\ scan'.folder = folder /\ scan'.include = include
          /\ ToSet(scan'.pending) = folder /\ scan'.scheduled = folder
          /\ scan'.nodes = {} /\ scan'.edges = {}
      BY <1>1, <1>2, ScanStarts
    <2>2. busy' = "scanning" /\ UNCHANGED displayVars
      BY <1>2 DEF StartScan, displayVars
    <2>3. ScanInv'
      BY <2>1 DEF ScanInv
    <2> QED
      BY <1>1, <2>2, <2>3, DisplayStays DEF GraphInv
  <1>3. CASE ScanNext
    <2>1. ScanInv' /\ busy' = "scanning" /\ UNCHANGED displayVars
      BY <1>1, <1>3, ScanStep DEF ScanNext, GraphInv, displayVars
    <2> QED
      BY <1>1, <2>1, DisplayStays DEF GraphInv
  <1>4. CASE EndScan
    <2>1. /\ graph' = {ExactGraph(scan.folder, scan.include)} /\ impact' = {} /\ busy' = "idle"
          /\ dependencies' = dependencies
      BY <1>1, <1>4, ScanIsShown DEF EndScan, Scan
    <2>2. ScanIsExact'
      <3>1. \A folder, include : ExactGraph(folder, include)' = ExactGraph(folder, include)
        BY <2>1 DEF ExactGraph, Steps
      <3>2. \A folder, include : /\ ExactGraph(folder, include).folder = folder
                                /\ ExactGraph(folder, include).include = include
        BY DEF ExactGraph
      <3> QED
        BY <2>1, <3>1, <3>2 DEF ScanIsExact
    <2>3. ImpactIsExact'
      BY <2>1 DEF ImpactIsExact
    <2> QED
      BY <2>1, <2>2, <2>3 DEF GraphInv
  <1>5. ASSUME NEW target \in Paths, NEW depth \in Depths, StartQuery(target, depth)
        PROVE  GraphInv'
    <2>1. SearchInv'
      BY <1>1, <1>5, SearchBegun
    <2>2. busy' = "searching" /\ UNCHANGED displayVars
      BY <1>5 DEF StartQuery, displayVars
    <2> QED
      BY <1>1, <2>1, <2>2, DisplayStays DEF GraphInv
  <1>6. CASE SearchNext
    <2>1. SearchInv' /\ busy' = "searching" /\ UNCHANGED displayVars
      BY <1>1, <1>6, SearchStep DEF SearchNext, GraphInv, displayVars
    <2> QED
      BY <1>1, <2>1, DisplayStays DEF GraphInv
  <1>7. CASE EndQuery
    <2> DEFINE result == [target |-> search.target, depth |-> search.depth, items |-> search.items]
    <2>1. /\ impact' = {result} /\ busy' = "idle" /\ UNCHANGED <<dependencies, graph>>
      BY <1>7 DEF EndQuery
    <2>2. \A g \in graph : search.items = ExactItems(g, search.target, search.depth)
      BY <1>1, <1>7, ResultIsExact
    <2>3. ImpactIsExact'
      BY <2>1, <2>2 DEF ImpactIsExact
    <2>4. ScanIsExact'
      <3>1. \A folder, include : ExactGraph(folder, include)' = ExactGraph(folder, include)
        BY <2>1 DEF ExactGraph, Steps
      <3> QED
        BY <1>1, <2>1, <3>1 DEF GraphInv, ScanIsExact
    <2> QED
      BY <1>1, <2>1, <2>3, <2>4 DEF GraphInv
  <1>8. CASE UNCHANGED graphVars
    <2>1. UNCHANGED displayVars /\ busy' = busy
      BY <1>8 DEF graphVars, displayVars
    <2>2. ScanInv => ScanInv'
      BY <1>8 DEF graphVars, ScanInv, Within, Steps
    <2>3. SearchInv => SearchInv'
      BY <1>8 DEF graphVars, SearchInv, Listed, Away, Level, Back, SortedByDistance
    <2> QED
      BY <1>1, <2>1, <2>2, <2>3, DisplayStays DEF GraphInv
  <1> QED
    BY <1>2, <1>3, <1>4, <1>5, <1>6, <1>7, <1>8 DEF GraphNext

LEMMA GraphInductive == GraphSpec => []GraphIInv
  <1>1. GraphIInv /\ [GraphNext]_graphVars => GraphIInv'
    BY GraphInvStep, TypeStep DEF GraphIInv
  <1> QED
    BY <1>1, GraphInvInit, PTL DEF GraphSpec

\* The graph that Scan hands to the window holds exactly the accepted assets that
\* the folder holds or depends on, directly or not, and exactly their direct
\* dependencies, in whatever order the paths were dequeued and whatever cycles
\* there are.
THEOREM GraphIsExact == GraphSpec => []ScanIsExact
  <1>1. GraphIInv => ScanIsExact
    BY DEF GraphIInv, GraphInv
  <1> QED
    BY <1>1, GraphInductive, PTL

\* The result of FindImpactedArtifacts on display lists exactly the assets that
\* lead to the target within the hop limit, each once and at its least distance,
\* and belongs to the graph on display.
THEOREM ImpactIsShortest == GraphSpec => []ImpactIsExact
  <1>1. GraphIInv => ImpactIsExact
    BY DEF GraphIInv, GraphInv
  <1> QED
    BY <1>1, GraphInductive, PTL

\* The window implements GraphDisplay: the end of a walk is the one step of the
\* contract that this walk stands for, and all other steps leave the display alone.
THEOREM WindowImplementsDisplay == GraphSpec => ImplementsDisplay
  <1>1. GraphInit => DisplayInit
    BY DEF GraphInit, DisplayInit
  <1>2. GraphIInv /\ [GraphNext]_graphVars => [DisplayNext]_displayVars
    <2> SUFFICES ASSUME GraphIInv, [GraphNext]_graphVars PROVE [DisplayNext]_displayVars
      OBVIOUS
    <2>1. ASSUME NEW folder \in RootFolders, NEW include \in BOOLEAN,
                 StartScan(folder, include)
          PROVE  UNCHANGED displayVars
      BY <2>1 DEF StartScan, displayVars
    <2>2. CASE EndScan
      <3>1. scan.folder \in RootFolders /\ scan.include \in BOOLEAN
        BY <2>2 DEF GraphIInv, GraphInv, GraphTypeOK, ScanInv, EndScan
      <3> QED
        BY <2>2, <3>1, ScanIsShown DEF GraphIInv, DisplayNext
    <2>3. ASSUME NEW target \in Paths, NEW depth \in Depths, StartQuery(target, depth)
          PROVE  UNCHANGED displayVars
      BY <2>3 DEF StartQuery, displayVars
    <2>4. CASE EndQuery
      BY <2>4, ImpactIsShown DEF GraphIInv, DisplayNext
    <2>5. CASE ScanNext \/ SearchNext \/ UNCHANGED graphVars
      BY <2>5 DEF ScanNext, SearchNext, graphVars, displayVars
    <2> QED
      BY <2>1, <2>2, <2>3, <2>4, <2>5 DEF GraphNext
  <1> QED
    BY <1>1, <1>2, GraphInductive, PTL DEF GraphSpec, DisplaySpec, ImplementsDisplay
-----------------------------------------------------------------------------
(* Both walks end *)

\* What a walk has still to do: the paths it has not met, and those it is to dequeue.
ScanLeft == Cardinality(Paths \ scan.scheduled) + Len(scan.pending)
SearchLeft == Cardinality(Paths \ search.visited) + Len(search.queue)

\* Each step of a walk leaves it less to do, whatever cycles the project has and
\* wherever the walk is, so that no scan and no query runs for ever on the editor's
\* thread. (UnityArtifactGraphScanner.cs:51-95, UnityArtifactImpactAnalyzer.cs:55-82)
WalksEnd ==
    [][/\ (busy = "scanning" /\ busy' = "scanning") =>
             ScanLeft \in Nat /\ ScanLeft' \in Nat /\ ScanLeft' < ScanLeft
       /\ (busy = "searching" /\ busy' = "searching") =>
             SearchLeft \in Nat /\ SearchLeft' \in Nat /\ SearchLeft' < SearchLeft]_<<scan, search>>

\* The length of a queue whose head is taken and to which others are appended.
LEMMA QueueLength ==
    ASSUME NEW S, NEW q \in Seq(S), q # <<>>, NEW r \in Seq(S)
    PROVE  /\ Len(q) \in Nat \ {0} /\ Len(Tail(q)) = Len(q) - 1
           /\ Len(Tail(q) \o r) = Len(q) - 1 + Len(r)
  <1>1. Tail(q) \in Seq(S) /\ Len(q) \in Nat \ {0} /\ Len(Tail(q)) = Len(q) - 1
    OBVIOUS
  <1>2. Len(Tail(q) \o r) = Len(Tail(q)) + Len(r)
    BY <1>1
  <1> QED
    BY <1>1, <1>2

\* Paths that are met for the first time are as many fewer to meet.
LEMMA FewerToMeet ==
    ASSUME NEW A \in SUBSET Paths, NEW new \in SUBSET Paths, new \cap A = {}
    PROVE  /\ Cardinality(Paths \ A) \in Nat /\ Cardinality(new) \in Nat
           /\ Cardinality(Paths \ (A \cup new)) = Cardinality(Paths \ A) - Cardinality(new)
           /\ Cardinality(Paths \ (A \cup new)) \in Nat
  <1>1. IsFiniteSet(Paths \ A) /\ IsFiniteSet(new) /\ IsFiniteSet(Paths \ (A \cup new))
    BY PathsFinite
  <1>2. (Paths \ A) \ new = Paths \ (A \cup new) /\ (Paths \ A) \cap new = new
    OBVIOUS
  <1>3. Cardinality((Paths \ A) \ new) = Cardinality(Paths \ A) - Cardinality((Paths \ A) \cap new)
    BY <1>1, FS_Difference
  <1> QED
    BY <1>1, <1>2, <1>3, FS_CardinalityType

LEMMA ScanGetsNearer ==
    ASSUME GraphTypeOK, ScanNext
    PROVE  ScanLeft \in Nat /\ ScanLeft' \in Nat /\ ScanLeft' < ScanLeft
  <1> DEFINE source == Head(scan.pending)
             new == Unscheduled(source)
             seq == SetToSeq(new)
             left == Cardinality(Paths \ scan.scheduled)
  <1>1. /\ scan.pending \in Seq(Paths) /\ scan.pending # <<>>
        /\ scan.scheduled \in SUBSET Paths /\ busy = "scanning"
    BY DEF GraphTypeOK, ScanNext
  <1>2. new \in SUBSET Paths /\ seq \in Seq(Paths)
    BY <1>1, ScanFinds
  <1>3. new \cap scan.scheduled = {}
    BY DEF Unscheduled
  <1>4. Len(seq) = Cardinality(new)
    BY <1>2, PathsFinite, Enumerates
  <1>5. /\ ~Accepted(source, scan.include) =>
             scan'.pending = Tail(scan.pending) /\ scan'.scheduled = scan.scheduled
        /\ Accepted(source, scan.include) =>
             /\ scan'.pending = Tail(scan.pending) \o seq
             /\ scan'.scheduled = scan.scheduled \cup new
    BY ScanChanges
  <1> HIDE DEF source, new, seq
  <1>6. /\ Len(scan.pending) \in Nat \ {0}
        /\ Len(Tail(scan.pending)) = Len(scan.pending) - 1
        /\ Len(Tail(scan.pending) \o seq) = Len(scan.pending) - 1 + Len(seq)
    BY <1>1, <1>2, QueueLength
  <1>7. /\ left \in Nat /\ Cardinality(new) \in Nat
        /\ Cardinality(Paths \ (scan.scheduled \cup new)) = left - Cardinality(new)
        /\ Cardinality(Paths \ (scan.scheduled \cup new)) \in Nat
    BY <1>1, <1>2, <1>3, FewerToMeet
  <1>8. ScanLeft' = Cardinality(Paths \ scan'.scheduled) + Len(scan'.pending)
    BY DEF ScanLeft, Paths
  <1> HIDE DEF left
  <1>9. ScanLeft = left + Len(scan.pending)
    BY DEF ScanLeft, left
  <1>10. CASE ~Accepted(source, scan.include)
    <2>1. ScanLeft' = left + (Len(scan.pending) - 1)
      BY <1>5, <1>6, <1>8, <1>10 DEF left
    <2> QED
      BY <2>1, <1>6, <1>7, <1>9
  <1>11. CASE Accepted(source, scan.include)
    <2>1. ScanLeft' = (left - Cardinality(new)) + (Len(scan.pending) - 1 + Cardinality(new))
      BY <1>4, <1>5, <1>6, <1>7, <1>8, <1>11
    <2> QED
      BY <2>1, <1>6, <1>7, <1>9
  <1> QED
    BY <1>10, <1>11

LEMMA SearchGetsNearer ==
    ASSUME GraphTypeOK, SearchNext
    PROVE  SearchLeft \in Nat /\ SearchLeft' \in Nat /\ SearchLeft' < SearchLeft
  <1> DEFINE seq == SetToSeq(SearchFound)
             left == Cardinality(Paths \ search.visited)
             distance == Head(search.queue).distance + 1
  <1>1. /\ search.queue \in Seq(Items) /\ search.queue # <<>>
        /\ search.visited \in SUBSET Paths /\ busy = "searching"
    BY DEF GraphTypeOK, SearchNext
  <1>2. /\ Head(search.queue) \in Items /\ SearchNew \in SUBSET Paths
        /\ seq \in Seq(Items)
    BY <1>1, SearchFinds
  <1>3. SearchNew \cap search.visited = {}
    BY DEF SearchNew
  <1>4. IsFiniteSet(SearchFound) /\ Cardinality(SearchFound) <= Cardinality(SearchNew)
    <2>1. SearchFound = {[node |-> n, distance |-> distance] : n \in SearchNew}
      BY DEF SearchFound
    <2>2. distance \in Nat
      BY <1>2 DEF Items
    <2> HIDE DEF distance
    <2> QED
      BY <1>2, <2>1, <2>2, ItemsFinite
  <1>5. Len(seq) = Cardinality(SearchFound) /\ Cardinality(SearchFound) \in Nat
    BY <1>4, Enumerates, FS_CardinalityType
  <1>6. /\ search'.queue = Tail(search.queue) \o seq
        /\ search'.visited = search.visited \cup SearchNew
    BY SearchChanges
  <1> HIDE DEF seq, distance
  <1>7. /\ Len(search.queue) \in Nat \ {0}
        /\ Len(Tail(search.queue) \o seq) = Len(search.queue) - 1 + Len(seq)
    BY <1>1, <1>2, QueueLength
  <1>8. /\ left \in Nat /\ Cardinality(SearchNew) \in Nat
        /\ Cardinality(Paths \ (search.visited \cup SearchNew)) = left - Cardinality(SearchNew)
        /\ Cardinality(Paths \ (search.visited \cup SearchNew)) \in Nat
    BY <1>1, <1>2, <1>3, FewerToMeet
  <1>9. SearchLeft' = Cardinality(Paths \ search'.visited) + Len(search'.queue)
    BY DEF SearchLeft, Paths
  <1> HIDE DEF left
  <1>10. SearchLeft = left + Len(search.queue)
    BY DEF SearchLeft, left
  <1>11. SearchLeft' = (left - Cardinality(SearchNew)) + (Len(search.queue) - 1 + Cardinality(SearchFound))
    BY <1>5, <1>6, <1>7, <1>8, <1>9
  <1>12. left - Cardinality(SearchNew) \in Nat
    BY <1>8
  <1>13. ASSUME NEW l \in Nat, NEW q \in Nat \ {0}, NEW new \in Nat, NEW found \in Nat,
                l - new \in Nat, found <= new
         PROVE  /\ l + q \in Nat /\ (l - new) + (q - 1 + found) \in Nat
                /\ (l - new) + (q - 1 + found) < l + q
    BY <1>13
  <1> QED
    BY ONLY <1>4, <1>5, <1>7, <1>8, <1>10, <1>11, <1>12, <1>13, Zenon

\* No scan and no query runs for ever: each step of a walk leaves it less to do.
\* What is left is a natural number, so only so many steps can follow.
THEOREM WalksAreBounded == GraphSpec => WalksEnd
  <1> DEFINE Nearer ==
        /\ (busy = "scanning" /\ busy' = "scanning") =>
              ScanLeft \in Nat /\ ScanLeft' \in Nat /\ ScanLeft' < ScanLeft
        /\ (busy = "searching" /\ busy' = "searching") =>
              SearchLeft \in Nat /\ SearchLeft' \in Nat /\ SearchLeft' < SearchLeft
  <1>1. GraphIInv /\ [GraphNext]_graphVars => [Nearer]_<<scan, search>>
    <2> SUFFICES ASSUME GraphIInv, [GraphNext]_graphVars PROVE [Nearer]_<<scan, search>>
      OBVIOUS
    <2>1. GraphTypeOK
      BY DEF GraphIInv
    <2>2. CASE ScanNext
      BY <2>1, <2>2, ScanGetsNearer DEF ScanNext
    <2>3. CASE SearchNext
      BY <2>1, <2>3, SearchGetsNearer DEF SearchNext
    <2>4. ASSUME NEW folder \in RootFolders, NEW include \in BOOLEAN,
                 StartScan(folder, include)
          PROVE  Nearer
      BY <2>4 DEF StartScan
    <2>5. ASSUME NEW target \in Paths, NEW depth \in Depths, StartQuery(target, depth)
          PROVE  Nearer
      BY <2>5 DEF StartQuery
    <2>6. CASE EndScan \/ EndQuery
      BY <2>6 DEF EndScan, EndQuery
    <2>7. CASE UNCHANGED graphVars
      BY <2>7 DEF graphVars
    <2> QED
      BY <2>2, <2>3, <2>4, <2>5, <2>6, <2>7 DEF GraphNext
  <1> QED
    BY <1>1, GraphInductive, PTL DEF GraphSpec, WalksEnd
=============================================================================
