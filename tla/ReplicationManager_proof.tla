----------------------- MODULE ReplicationManager_proof -----------------------
(***************************************************************************)
(* Leader-side replication, for any number of followers, calls, records,   *)
(* failures and heartbeats: find_kth_smallest on every sequence of         *)
(* offsets, what Durable means, and what the watermark says.  With         *)
(* find_kth_smallest goes the other algorithm that MCAlgorithms feeds: the *)
(* compaction planner, on every index.                                     *)
(***************************************************************************)
EXTENDS ReplicationManager, MCAlgorithms, SharedLemmas

-------------------------------------------------------------------------------
(* The scan and the heap as folds.                                         *)

OffsetValues == 0 .. U64Max
ScanStates == [min : OffsetValues, second : OffsetValues]
Scanned(base, s) == FoldLeft(ScanStep, base, s)

\* One offset more: it becomes the smallest, the second smallest, or neither.
LEMMA ScanStepFields ==
    ASSUME U64Max \in Nat, NEW a \in ScanStates, NEW v \in OffsetValues
    PROVE  /\ ScanStep(a, v) \in ScanStates
           /\ v < a.min => ScanStep(a, v).min = v /\ ScanStep(a, v).second = a.min
           /\ v >= a.min /\ v < a.second => ScanStep(a, v).min = a.min /\ ScanStep(a, v).second = v
           /\ v >= a.min /\ v >= a.second => ScanStep(a, v) = a
BY DEF ScanStep, ScanStates, OffsetValues

\* SecondSmallest folds ScanStep over the offsets, from the first to the last.
LEMMA ScanFolds ==
    ASSUME U64Max \in Nat, NEW n \in Nat, NEW s \in [1 .. n -> OffsetValues], NEW base \in ScanStates
    PROVE  \E h : /\ h[0] = base /\ \A i \in 1 .. n : h[i] = ScanStep(h[i - 1], s[i])
                  /\ Scanned(base, s) = h[n]
<1> DEFINE Eq(g) == g = [t \in SUBSET (1 .. n) |->
                           IF t = {} THEN base ELSE ScanStep(g[t \ {Max(t)}], s[Max(t)])]
           c == CHOOSE g : Eq(g)
           F == [p \in ScanStates \X OffsetValues |-> ScanStep(p[1], p[2])]
<1>1. Scanned(base, s) = c[1 .. n]
  BY DEF Scanned, FoldLeft, MapThenFoldSet
<1>2. /\ F \in [ScanStates \X OffsetValues -> ScanStates]
      /\ \A a \in ScanStates, v \in OffsetValues : F[<<a, v>>] = ScanStep(a, v)
  BY ScanStepFields
<1>3. PICK g \in [SUBSET (1 .. n) -> ScanStates] : Folds(g, n, s, base, F)
  <2> HIDE DEF F
  <2> QED
    BY <1>2, FoldExists
<1>4. ASSUME NEW t \in SUBSET (1 .. n)
      PROVE  g[t] = IF t = {} THEN base ELSE ScanStep(g[t \ {Max(t)}], s[Max(t)])
  <2>1. g[t] = IF t = {} THEN base ELSE F[<<g[t \ {Max(t)}], s[Max(t)]>>]
    BY <1>3 DEF Folds
  <2>2. CASE t # {}
    <3>1. Max(t) \in 1 .. n /\ t \ {Max(t)} \in SUBSET (1 .. n)
      BY <2>2, HighestPosition
    <3>2. s[Max(t)] \in OffsetValues /\ g[t \ {Max(t)}] \in ScanStates
      BY <3>1
    <3> HIDE DEF F
    <3> QED
      BY <1>2, <2>1, <2>2, <3>2
  <2> QED
    BY <2>1, <2>2
<1>5. Eq(g)
  BY <1>4
<1>6. Eq(c)
  <2> HIDE DEF Eq
  <2> QED
    BY <1>5
<1>7. c[{}] = base /\ \A i \in 1 .. n : c[1 .. i] = ScanStep(c[1 .. i - 1], s[i])
  <2>1. c[{}] = base
    BY <1>6
  <2>2. ASSUME NEW i \in 1 .. n PROVE c[1 .. i] = ScanStep(c[1 .. i - 1], s[i])
    <3>1. /\ 1 .. i \in SUBSET (1 .. n) /\ 1 .. i # {}
          /\ Max(1 .. i) = i /\ (1 .. i) \ {Max(1 .. i)} = 1 .. i - 1
      BY FoldPrefixes
    <3>2. \A t \in SUBSET (1 .. n) : t # {} => c[t] = ScanStep(c[t \ {Max(t)}], s[Max(t)])
      BY <1>6
    <3> HIDE DEF c
    <3> QED
      BY <3>1, <3>2, Zenon
  <2> QED
    BY <2>1, <2>2
<1> DEFINE h == [i \in 0 .. n |-> c[1 .. i]]
<1> HIDE DEF c
<1>8. h[0] = base /\ (\A i \in 1 .. n : h[i] = ScanStep(h[i - 1], s[i])) /\ Scanned(base, s) = h[n]
  <2>1. 1 .. 0 = {}
    OBVIOUS
  <2>2. h[0] = base
    BY <1>7, <2>1
  <2>3. ASSUME NEW i \in 1 .. n PROVE h[i] = ScanStep(h[i - 1], s[i])
    BY <1>7
  <2>4. h[n] = c[1 .. n]
    OBVIOUS
  <2> QED
    BY <1>1, <2>2, <2>3, <2>4
<1> QED
  BY <1>8

-------------------------------------------------------------------------------
(* find_kth_smallest.                                                      *)

\* A set of k positions none of which holds more than x, one of which holds x, and outside
\* of which nothing is below x, shows that x is the k-th smallest.
LEMMA KthByPositions ==
    ASSUME NEW n \in Nat, NEW s \in [1 .. n -> Nat], NEW x \in Nat,
           NEW pos \in SUBSET (1 .. n), NEW at \in pos, s[at] = x,
           \A p \in pos : s[p] <= x, \A p \in (1 .. n) \ pos : s[p] >= x
    PROVE  IsKthSmallest(s, Cardinality(pos), x)
<1> DEFINE k == Cardinality(pos)
           Below == {i \in 1 .. n : s[i] < x}
           UpTo == {i \in 1 .. n : s[i] <= x}
<1>1. Len(s) = n
  OBVIOUS
<1>2. IsFiniteSet(1 .. n)
  BY FS_Interval
<1>3. IsFiniteSet(pos) /\ IsFiniteSet(Below) /\ IsFiniteSet(UpTo)
  BY <1>2, FS_Subset
<1>4. Below \subseteq pos \ {at} /\ pos \subseteq UpTo
  OBVIOUS
<1>5. Cardinality(pos \ {at}) = k - 1 /\ k \in Nat /\ Cardinality(Below) \in Nat
  BY <1>3, FS_RemoveElement, FS_CardinalityType
<1>6. IsFiniteSet(pos \ {at})
  BY <1>3, FS_Subset
<1>7. Cardinality(Below) <= Cardinality(pos \ {at})
  BY <1>4, <1>6, FS_Subset
<1>8. k <= Cardinality(UpTo) /\ Cardinality(UpTo) \in Nat
  BY <1>3, <1>4, FS_Subset, FS_CardinalityType
<1>9. \E i \in 1 .. n : s[i] = x
  OBVIOUS
<1> HIDE DEF k, Below, UpTo
<1>10. Cardinality(Below) < k /\ Cardinality(UpTo) >= k
  BY <1>5, <1>7, <1>8
<1> QED
  BY <1>1, <1>9, <1>10 DEF IsKthSmallest, k, Below, UpTo

\* k = 1: the minimum.
LEMMA SmallestIsKth ==
    ASSUME NEW n \in Nat \ {0}, NEW s \in [1 .. n -> Nat]
    PROVE  IsKthSmallest(s, 1, Min(ToSet(s)))
<1>1. ToSet(s) = {s[i] : i \in 1 .. n}
  BY DEF ToSet
<1>2. ToSet(s) \subseteq Nat /\ ToSet(s) # {}
  BY <1>1
<1>3. Min(ToSet(s)) \in ToSet(s) /\ \A x \in ToSet(s) : Min(ToSet(s)) <= x
  BY <1>2, MinOfNaturals
<1>4. PICK at \in 1 .. n : s[at] = Min(ToSet(s))
  BY <1>1, <1>3
<1>5. \A p \in 1 .. n : s[p] >= s[at]
  BY <1>1, <1>2, <1>3, <1>4
<1>6. IsKthSmallest(s, Cardinality({at}), s[at])
  BY <1>5, KthByPositions
<1> QED
  BY <1>4, <1>6, FS_Singleton

\* k = 2: the scan holds the two smallest offsets seen so far.
LEMMA SecondIsKth ==
    ASSUME U64Max \in Nat, NEW n \in Nat, n >= 2, NEW s \in [1 .. n -> OffsetValues]
    PROVE  IsKthSmallest(s, 2, SecondSmallest(s))
<1> DEFINE base == [min |-> U64Max, second |-> U64Max]
           TwoSmallest(a, i, p, q) ==
              /\ p # q /\ a.min = s[p] /\ a.second = s[q] /\ a.min <= a.second
              /\ \A r \in (1 .. i) \ {p, q} : s[r] >= a.second
           Scan(x, i) ==
              /\ i = 0 => x = base
              /\ i = 1 => x.min = s[1] /\ x.second = U64Max
              /\ i >= 2 => \E p, q \in 1 .. i : TwoSmallest(x, i, p, q)
           P == [i \in 0 .. n |-> {x \in ScanStates : Scan(x, i)}]
<1>0. \A i \in 0 .. n : \A x : x \in P[i] <=> x \in ScanStates /\ Scan(x, i)
  <2> HIDE DEF Scan
  <2> QED
    OBVIOUS
<1> HIDE DEF P
<1>1. base \in ScanStates
  BY DEF OffsetValues, ScanStates
<1>3. PICK h : /\ h[0] = base /\ \A i \in 1 .. n : h[i] = ScanStep(h[i - 1], s[i])
               /\ Scanned(base, s) = h[n]
  <2> HIDE DEF base
  <2> QED
    BY <1>1, ScanFolds
<1>4. h[0] \in P[0]
  BY <1>0, <1>1, <1>3
<1>5. ASSUME NEW i \in 1 .. n, h[i - 1] \in P[i - 1] PROVE h[i] \in P[i]
  <2> DEFINE a == h[i - 1]
             b == ScanStep(a, s[i])
  <2>1. /\ i - 1 \in 0 .. n /\ i \in 0 .. n /\ a \in ScanStates /\ s[i] \in OffsetValues
        /\ a.min \in Nat /\ a.second \in Nat /\ s[i] \in Nat /\ s[i] <= U64Max
    BY <1>0, <1>5 DEF OffsetValues, ScanStates
  <2>2. h[i] = b /\ b \in ScanStates
    BY <1>3, <2>1, ScanStepFields
  <2>3. /\ s[i] < a.min => b.min = s[i] /\ b.second = a.min
        /\ s[i] >= a.min /\ s[i] < a.second => b.min = a.min /\ b.second = s[i]
        /\ s[i] >= a.min /\ s[i] >= a.second => b = a
    BY <2>1, ScanStepFields
  <2>4. CASE i = 1
    <3>1. a.min = U64Max /\ a.second = U64Max
      BY <1>3, <2>4
    <3>2. b.min = s[1] /\ b.second = U64Max
      BY <2>1, <2>3, <2>4, <3>1
    <3> HIDE DEF b
    <3> QED
      BY <1>0, <2>1, <2>2, <2>4, <3>2
  <2>5. CASE i = 2
    <3>1. a.min = s[1] /\ a.second = U64Max
      <4>1. i - 1 \in 0 .. n /\ i - 1 = 1
        BY <2>5
      <4> HIDE DEF TwoSmallest
      <4> QED
        BY <1>0, <1>5, <4>1
    <3>2. 1 \in 1 .. i /\ 2 \in 1 .. i /\ \A r \in 1 .. i : r \in {1, 2}
      BY <2>5
    <3>3. TwoSmallest(b, i, 2, 1) \/ TwoSmallest(b, i, 1, 2)
      BY <2>1, <2>3, <2>5, <3>1, <3>2
    <3>4. \E p, q \in 1 .. i : TwoSmallest(b, i, p, q)
      BY <3>2, <3>3
    <3> HIDE DEF b, TwoSmallest
    <3> QED
      BY <1>0, <2>1, <2>2, <2>5, <3>4
  <2>6. CASE i > 2
    <3>1. PICK p, q \in 1 .. i - 1 : TwoSmallest(a, i - 1, p, q)
      <4>1. i - 1 \in 0 .. n /\ i - 1 >= 2
        BY <2>6
      <4> HIDE DEF TwoSmallest
      <4> QED
        BY <1>0, <1>5, <4>1
    <3>2. p \in 1 .. i /\ q \in 1 .. i /\ i \in 1 .. i /\ p # i /\ q # i
      OBVIOUS
    <3>3. \A r \in (1 .. i) \ {i} : r \in 1 .. i - 1
      OBVIOUS
    <3>4. \A r \in 1 .. i : s[r] \in Nat
      BY DEF OffsetValues
    <3>5. TwoSmallest(b, i, i, p) \/ TwoSmallest(b, i, p, i) \/ TwoSmallest(b, i, p, q)
      <4>0. \A r \in 1 .. i - 1 : s[r] >= a.second \/ r = p \/ r = q
        BY <3>1
      <4>1. CASE s[i] < a.min
        <5>1. b.min = s[i] /\ b.second = s[p] /\ b.min <= b.second
          BY <2>1, <2>3, <3>1, <4>1
        <5>2. ASSUME NEW r \in (1 .. i) \ {i, p} PROVE s[r] >= b.second
          <6>1. r \in 1 .. i - 1 /\ r # p /\ s[r] \in Nat
            BY <3>3, <3>4
          <6>2. s[r] >= a.second \/ s[r] = a.second
            BY <3>1, <4>0, <6>1
          <6> QED
            BY <2>1, <3>1, <5>1, <6>1, <6>2
        <5> HIDE DEF b
        <5>3. TwoSmallest(b, i, i, p)
          BY <3>2, <5>1, <5>2
        <5> QED
          BY <5>3
      <4>2. CASE s[i] >= a.min /\ s[i] < a.second
        <5>1. b.min = s[p] /\ b.second = s[i] /\ b.min <= b.second
          BY <2>1, <2>3, <3>1, <4>2
        <5>2. ASSUME NEW r \in (1 .. i) \ {p, i} PROVE s[r] >= b.second
          <6>1. r \in 1 .. i - 1 /\ r # p /\ s[r] \in Nat
            BY <3>3, <3>4
          <6>2. s[r] >= a.second \/ s[r] = a.second
            BY <3>1, <4>0, <6>1
          <6> QED
            BY <2>1, <4>2, <5>1, <6>1, <6>2
        <5> HIDE DEF b
        <5>3. TwoSmallest(b, i, p, i)
          BY <3>2, <5>1, <5>2
        <5> QED
          BY <5>3
      <4>3. CASE s[i] >= a.min /\ s[i] >= a.second
        BY <2>1, <2>3, <3>1, <3>2, <3>3, <3>4, <4>3
      <4> QED
        BY <2>1, <4>1, <4>2, <4>3
    <3>6. \E x, y \in 1 .. i : TwoSmallest(b, i, x, y)
      BY <3>2, <3>5
    <3> HIDE DEF b, TwoSmallest
    <3> QED
      BY <1>0, <2>1, <2>2, <2>6, <3>6
  <2> QED
    BY <2>4, <2>5, <2>6
<1>6. h[n] \in P[n]
  <2>1. \A i \in 0 .. n : h[i] \in P[i]
    BY <1>4, <1>5, PrefixInduction
  <2> QED
    BY <2>1
<1>7. PICK p, q \in 1 .. n : TwoSmallest(h[n], n, p, q)
  <2>1. n \in 0 .. n
    OBVIOUS
  <2> HIDE DEF TwoSmallest
  <2> QED
    BY <1>0, <1>6, <2>1
<1>8. SecondSmallest(s) = s[q]
  BY <1>3, <1>7 DEF SecondSmallest, Scanned
<1>9. s \in [1 .. n -> Nat]
  BY DEF OffsetValues
<1>10. IsKthSmallest(s, Cardinality({p, q}), s[q])
  <2>1. s[p] <= s[q] /\ \A r \in (1 .. n) \ {p, q} : s[r] >= s[q]
    BY <1>7
  <2>2. {p, q} \in SUBSET (1 .. n) /\ q \in {p, q} /\ s[q] \in Nat /\ \A r \in {p, q} : s[r] <= s[q]
    BY <1>9, <2>1
  <2> QED
    BY <1>9, <2>1, <2>2, KthByPositions
<1>11. Cardinality({p, q}) = 2
  <2>1. IsFiniteSet({p}) /\ Cardinality({p}) = 1 /\ q \notin {p} /\ {p} \cup {q} = {p, q}
    BY <1>7, FS_Singleton
  <2>2. Cardinality({p} \cup {q}) = Cardinality({p}) + 1
    BY <2>1, FS_AddElement
  <2> QED
    BY <2>1, <2>2
<1> QED
  BY <1>8, <1>10, <1>11

HeapStates(k) == [1 .. k -> OffsetValues]
Heaped(base, s) == FoldLeft(HeapStep, base, s)

\* The heap's greatest element is one of its elements.
LEMMA PeekGreatest ==
    ASSUME U64Max \in Nat, NEW k \in Nat \ {0}, NEW heap \in HeapStates(k)
    PROVE  /\ Peek(heap) \in OffsetValues
           /\ \E r \in 1 .. k : heap[r] = Peek(heap)
           /\ \A r \in 1 .. k : heap[r] <= Peek(heap)
<1>1. ToSet(heap) = {heap[i] : i \in 1 .. k}
  BY DEF ToSet, HeapStates
<1>2. ToSet(heap) \subseteq Nat /\ ToSet(heap) # {} /\ \A x \in ToSet(heap) : x <= U64Max
  BY <1>1 DEF HeapStates, OffsetValues
<1>3. Max(ToSet(heap)) \in ToSet(heap) /\ \A x \in ToSet(heap) : x <= Max(ToSet(heap))
  BY <1>2, MaxOfBounded
<1>4. Peek(heap) \in ToSet(heap) /\ \A x \in ToSet(heap) : x <= Peek(heap)
  BY <1>3 DEF Peek
<1>5. ToSet(heap) \subseteq OffsetValues
  BY <1>1 DEF HeapStates
<1> QED
  BY <1>1, <1>4, <1>5

\* Removing an element moves those behind it up.
LEMMA RemoveFirstMoves ==
    ASSUME NEW k \in Nat \ {0}, NEW V, NEW s \in [1 .. k -> V], NEW e, \E i \in 1 .. k : s[i] = e
    PROVE  \E r \in 1 .. k :
             /\ s[r] = e
             /\ RemoveFirst(s, e) = [j \in 1 .. k - 1 |-> IF j < r THEN s[j] ELSE s[j + 1]]
<1> DEFINE I == {i \in 1 .. k : s[i] = e}
           r == Min(I)
<1>1. s \in Seq(V) /\ Len(s) = k
  OBVIOUS
<1>2. r \in I
  <2>1. I \subseteq Nat /\ I # {}
    OBVIOUS
  <2> HIDE DEF I
  <2> QED
    BY <2>1, MinOfNaturals
<1>3. RemoveFirst(s, e) = RemoveAt(s, r)
  BY <1>1 DEF RemoveFirst, SelectInSeq
<1>4. r \in 1 .. k /\ s[r] = e
  BY <1>2
<1> HIDE DEF r
<1> DEFINE before == SubSeq(s, 1, r - 1)
           behind == SubSeq(s, r + 1, k)
           rest == [j \in 1 .. k - 1 |-> IF j < r THEN s[j] ELSE s[j + 1]]
<1>5. RemoveAt(s, r) = before \o behind
  BY <1>1 DEF RemoveAt
<1>6. before \in Seq(V) /\ Len(before) = r - 1 /\ \A j \in 1 .. r - 1 : before[j] = s[j]
  BY <1>1, <1>4
<1>7. behind \in Seq(V) /\ Len(behind) = k - r /\ \A j \in 1 .. k - r : behind[j] = s[r + j]
  BY <1>1, <1>4
<1>8. rest \in Seq(V) /\ Len(rest) = k - 1
  BY <1>4
<1> HIDE DEF before, behind
<1>a. before \in Seq(V) /\ behind \in Seq(V) /\ Len(before) = r - 1 /\ Len(behind) = k - r
  BY <1>6, <1>7
<1>b. before \o behind \in Seq(V) /\ Len(before \o behind) = Len(before) + Len(behind)
  BY <1>a
<1>9. before \o behind \in Seq(V) /\ Len(before \o behind) = k - 1
  BY <1>4, <1>a, <1>b
<1>10. ASSUME NEW j \in 1 .. k - 1 PROVE (before \o behind)[j] = rest[j]
  <2>1. CASE j < r
    <3>1. (before \o behind)[j] = before[j]
      BY <1>4, <1>6, <1>7, <2>1
    <3> QED
      BY <1>4, <1>6, <2>1, <3>1
  <2>2. CASE ~(j < r)
    <3>1. j - (r - 1) \in 1 .. k - r /\ r + (j - (r - 1)) = j + 1
      BY <1>4, <2>2
    <3>2. (before \o behind)[j] = behind[j - (r - 1)]
      BY <1>4, <1>6, <1>7, <2>2
    <3>3. behind[j - (r - 1)] = s[j + 1]
      BY <1>7, <3>1
    <3> QED
      BY <2>2, <3>2, <3>3
  <2> QED
    BY <2>1, <2>2
<1>11. before \o behind = rest
  <2>1. rest \in [1 .. k - 1 -> V]
    BY <1>4
  <2>2. before \o behind \in [1 .. k - 1 -> V]
    <3> DEFINE both == before \o behind
    <3>1. both \in Seq(V) /\ Len(both) = k - 1
      BY <1>9
    <3> HIDE DEF both
    <3>2. both \in [1 .. k - 1 -> V]
      BY <3>1
    <3> QED
      BY <3>2 DEF both
  <2> HIDE DEF rest
  <2> QED
    BY <1>10, <2>1, <2>2, SMTT(40)
<1> QED
  BY <1>3, <1>4, <1>5, <1>11

\* One offset more: if it is below the greatest of the heap, it takes its place.
LEMMA HeapStepFields ==
    ASSUME U64Max \in Nat, NEW k \in Nat \ {0}, NEW heap \in HeapStates(k), NEW v \in OffsetValues
    PROVE  /\ HeapStep(heap, v) \in HeapStates(k)
           /\ v >= Peek(heap) => HeapStep(heap, v) = heap
           /\ v < Peek(heap) =>
                \E r \in 1 .. k :
                  /\ heap[r] = Peek(heap)
                  /\ HeapStep(heap, v) =
                       [j \in 1 .. k |-> IF j = k THEN v ELSE IF j < r THEN heap[j] ELSE heap[j + 1]]
<1>1. Peek(heap) \in Nat /\ v \in Nat /\ \E i \in 1 .. k : heap[i] = Peek(heap)
  BY PeekGreatest DEF OffsetValues
<1>2. CASE v >= Peek(heap)
  BY <1>1, <1>2 DEF HeapStep
<1>3. CASE v < Peek(heap)
  <2>1. heap \in [1 .. k -> OffsetValues]
    BY DEF HeapStates
  <2>2. PICK r \in 1 .. k :
           /\ heap[r] = Peek(heap)
           /\ RemoveFirst(heap, Peek(heap)) = [j \in 1 .. k - 1 |-> IF j < r THEN heap[j] ELSE heap[j + 1]]
    BY <1>1, <2>1, RemoveFirstMoves, ZenonT(90)
  <2> DEFINE rest == [j \in 1 .. k - 1 |-> IF j < r THEN heap[j] ELSE heap[j + 1]]
             full == [j \in 1 .. k |-> IF j = k THEN v ELSE IF j < r THEN heap[j] ELSE heap[j + 1]]
  <2>3. HeapStep(heap, v) = Append(rest, v)
    BY <1>3, <2>2 DEF HeapStep
  <2>4. rest \in Seq(OffsetValues) /\ Len(rest) = k - 1
    BY <2>1
  <2>5. full \in [1 .. k -> OffsetValues]
    BY <2>1
  <2>6. /\ Append(rest, v) \in Seq(OffsetValues) /\ Len(Append(rest, v)) = k
        /\ Append(rest, v)[k] = v /\ \A j \in 1 .. k - 1 : Append(rest, v)[j] = rest[j]
    <3> HIDE DEF rest
    <3> QED
      BY <2>4
  <2>7. Append(rest, v) = full
    BY <2>5, <2>6
  <2>8. HeapStep(heap, v) = full /\ full \in HeapStates(k)
    BY <2>3, <2>5, <2>7 DEF HeapStates
  <2> QED
    BY <1>1, <1>3, <2>2, <2>8
<1> QED
  BY <1>1, <1>2, <1>3

\* The heap with its r-th element taken out and v added.
Replaced(heap, k, r, v) ==
    [j \in 1 .. k |-> IF j = k THEN v ELSE IF j < r THEN heap[j] ELSE heap[j + 1]]

\* A smaller offset takes the place of a greatest element of the heap.
LEMMA HeapStepReplaces ==
    ASSUME U64Max \in Nat, NEW k \in Nat \ {0}, NEW heap \in HeapStates(k), NEW v \in OffsetValues,
           v < Peek(heap)
    PROVE  \E r \in 1 .. k : heap[r] = Peek(heap) /\ HeapStep(heap, v) = Replaced(heap, k, r, v)
BY HeapStepFields DEF Replaced

\* HeapSmallest folds HeapStep over the offsets behind the first k, from the first to the last.
LEMMA HeapFolds ==
    ASSUME U64Max \in Nat, NEW k \in Nat \ {0}, NEW n \in Nat, NEW s \in [1 .. n -> OffsetValues], NEW base \in HeapStates(k)
    PROVE  \E h : /\ h[0] = base /\ \A i \in 1 .. n : h[i] = HeapStep(h[i - 1], s[i])
                  /\ Heaped(base, s) = h[n]
<1> DEFINE Eq(g) == g = [t \in SUBSET (1 .. n) |->
                           IF t = {} THEN base ELSE HeapStep(g[t \ {Max(t)}], s[Max(t)])]
           c == CHOOSE g : Eq(g)
           F == [p \in HeapStates(k) \X OffsetValues |-> HeapStep(p[1], p[2])]
<1>1. Heaped(base, s) = c[1 .. n]
  BY DEF Heaped, FoldLeft, MapThenFoldSet
<1>2. /\ F \in [HeapStates(k) \X OffsetValues -> HeapStates(k)]
      /\ \A a \in HeapStates(k), v \in OffsetValues : F[<<a, v>>] = HeapStep(a, v)
  BY HeapStepFields
<1>3. PICK g \in [SUBSET (1 .. n) -> HeapStates(k)] : Folds(g, n, s, base, F)
  <2> HIDE DEF F
  <2> QED
    BY <1>2, FoldExists
<1>4. ASSUME NEW t \in SUBSET (1 .. n)
      PROVE  g[t] = IF t = {} THEN base ELSE HeapStep(g[t \ {Max(t)}], s[Max(t)])
  <2>1. g[t] = IF t = {} THEN base ELSE F[<<g[t \ {Max(t)}], s[Max(t)]>>]
    BY <1>3 DEF Folds
  <2>2. CASE t # {}
    <3>1. Max(t) \in 1 .. n /\ t \ {Max(t)} \in SUBSET (1 .. n)
      BY <2>2, HighestPosition
    <3>2. s[Max(t)] \in OffsetValues /\ g[t \ {Max(t)}] \in HeapStates(k)
      BY <3>1
    <3> HIDE DEF F
    <3> QED
      BY <1>2, <2>1, <2>2, <3>2
  <2> QED
    BY <2>1, <2>2
<1>5. Eq(g)
  BY <1>4
<1>6. Eq(c)
  <2> HIDE DEF Eq
  <2> QED
    BY <1>5
<1>7. c[{}] = base /\ \A i \in 1 .. n : c[1 .. i] = HeapStep(c[1 .. i - 1], s[i])
  <2>1. c[{}] = base
    BY <1>6
  <2>2. ASSUME NEW i \in 1 .. n PROVE c[1 .. i] = HeapStep(c[1 .. i - 1], s[i])
    <3>1. /\ 1 .. i \in SUBSET (1 .. n) /\ 1 .. i # {}
          /\ Max(1 .. i) = i /\ (1 .. i) \ {Max(1 .. i)} = 1 .. i - 1
      BY FoldPrefixes
    <3>2. \A t \in SUBSET (1 .. n) : t # {} => c[t] = HeapStep(c[t \ {Max(t)}], s[Max(t)])
      BY <1>6
    <3> HIDE DEF c
    <3> QED
      BY <3>1, <3>2, Zenon
  <2> QED
    BY <2>1, <2>2
<1> DEFINE h == [i \in 0 .. n |-> c[1 .. i]]
<1> HIDE DEF c
<1>8. h[0] = base /\ (\A i \in 1 .. n : h[i] = HeapStep(h[i - 1], s[i])) /\ Heaped(base, s) = h[n]
  <2>1. 1 .. 0 = {}
    OBVIOUS
  <2>2. h[0] = base
    BY <1>7, <2>1
  <2>3. ASSUME NEW i \in 1 .. n PROVE h[i] = HeapStep(h[i - 1], s[i])
    BY <1>7
  <2>4. h[n] = c[1 .. n]
    OBVIOUS
  <2> QED
    BY <1>1, <2>2, <2>3, <2>4
<1> QED
  BY <1>8

\* k positions that are pairwise different, and the set of them.
Distinct(k, pos) == \A i, j \in 1 .. k : pos[i] = pos[j] => i = j
Places(k, pos) == {pos[j] : j \in 1 .. k}

\* The positions of distinct elements are as many as the elements.
LEMMA PositionsCounted ==
    ASSUME NEW k \in Nat, NEW n \in Nat, NEW pos \in [1 .. k -> 1 .. n], Distinct(k, pos)
    PROVE  Cardinality(Places(k, pos)) = k
<1> DEFINE T == Places(k, pos)
<1>1. pos \in Injection(1 .. k, T) /\ pos \in Surjection(1 .. k, T)
  BY DEF Injection, IsInjective, Surjection, Distinct, Places
<1>2. IsFiniteSet(1 .. k) /\ Cardinality(1 .. k) = k
  BY FS_Interval
<1> HIDE DEF T
<1>3. Cardinality(T) = Cardinality(1 .. k)
  BY <1>1, <1>2, FS_Surjection
<1> QED
  BY <1>2, <1>3 DEF T

\* k >= 3: the heap holds the k smallest offsets seen so far.
LEMMA HeapIsKth ==
    ASSUME U64Max \in Nat, NEW n \in Nat, NEW k \in 1 .. n, NEW s \in [1 .. n -> OffsetValues]
    PROVE  IsKthSmallest(s, k, HeapSmallest(s, k))
<1> DEFINE m == n - k
           base == SubSeq(s, 1, k)
           tail == SubSeq(s, k + 1, n)
           Holds(x, i, pos) ==
              /\ \A a, b \in 1 .. k : pos[a] = pos[b] => a = b
              /\ \A j \in 1 .. k : x[j] = s[pos[j]]
              /\ \A r \in 1 .. k + i : (\A j \in 1 .. k : pos[j] # r) => s[r] >= Peek(x)
           Smallest(x, i) == \E pos \in [1 .. k -> 1 .. k + i] : Holds(x, i, pos)
           P == [i \in 0 .. m |-> {x \in HeapStates(k) : Smallest(x, i)}]
<1>0. \A i \in 0 .. m : \A x : x \in P[i] <=> x \in HeapStates(k) /\ Smallest(x, i)
  <2> HIDE DEF Smallest, m
  <2> QED
    OBVIOUS
<1> HIDE DEF P
<1>1. s \in Seq(OffsetValues) /\ Len(s) = n /\ m \in Nat /\ k \in Nat \ {0}
  OBVIOUS
<1>2. base \in [1 .. k -> OffsetValues] /\ \A j \in 1 .. k : base[j] = s[j]
  <2>1. base \in Seq(OffsetValues) /\ Len(base) = k /\ \A j \in 1 .. k : base[j] = s[j]
    BY <1>1
  <2> HIDE DEF base
  <2> QED
    BY <2>1
<1>3. tail \in [1 .. m -> OffsetValues] /\ \A j \in 1 .. m : tail[j] = s[k + j]
  <2>1. tail \in Seq(OffsetValues) /\ Len(tail) = m /\ \A j \in 1 .. m : tail[j] = s[k + j]
    BY <1>1
  <2> HIDE DEF tail
  <2> QED
    BY <2>1
<1> HIDE DEF base, tail
<1>4. base \in HeapStates(k)
  BY <1>2 DEF HeapStates
<1>5. PICK h : /\ h[0] = base /\ \A i \in 1 .. m : h[i] = HeapStep(h[i - 1], tail[i])
               /\ Heaped(base, tail) = h[m]
  <2>1. k \in Nat \ {0} /\ m \in Nat /\ tail \in [1 .. m -> OffsetValues]
    BY <1>1, <1>3
  <2> HIDE DEF m
  <2>2. \E h : /\ h[0] = base /\ \A i \in 1 .. m : h[i] = HeapStep(h[i - 1], tail[i])
               /\ Heaped(base, tail) = h[m]
    BY <2>1, <1>4, HeapFolds, ZenonT(90)
  <2> QED
    BY <2>2, ZenonT(90)
<1>6. h[0] \in P[0]
  <2> DEFINE id == [j \in 1 .. k |-> j]
  <2>1. id \in [1 .. k -> 1 .. k + 0]
    BY <1>1
  <2>2. \A r \in 1 .. k + 0 : id[r] = r
    BY <1>1
  <2>3. Holds(base, 0, id)
    BY <1>1, <1>2, <2>2
  <2>4. Smallest(base, 0)
    <3> HIDE DEF Holds, id
    <3> QED
      BY <2>1, <2>3
  <2>5. 0 \in 0 .. m
    BY <1>1
  <2> HIDE DEF Smallest
  <2> QED
    BY <1>0, <1>4, <1>5, <2>4, <2>5
<1>7. ASSUME NEW i \in 1 .. m, h[i - 1] \in P[i - 1] PROVE h[i] \in P[i]
  <2> DEFINE x == h[i - 1]
             v == s[k + i]
             y == HeapStep(x, v)
  <2>1. i - 1 \in 0 .. m /\ i \in 0 .. m /\ k + i \in 1 .. n
    BY <1>1
  <2>2. x \in HeapStates(k) /\ Smallest(x, i - 1)
    <3> HIDE DEF Smallest, m
    <3> QED
      BY <1>0, <1>7, <2>1
  <2>3. v \in OffsetValues /\ h[i] = y
    BY <1>3, <1>5, <2>1
  <2>4. PICK pos \in [1 .. k -> 1 .. k + (i - 1)] : Holds(x, i - 1, pos)
    BY <2>2
  <2>5. y \in HeapStates(k)
    BY <1>1, <2>2, <2>3, HeapStepFields
  <2>6. /\ Peek(x) \in OffsetValues /\ \A r \in 1 .. k : x[r] <= Peek(x)
        /\ Peek(y) \in OffsetValues /\ \E r \in 1 .. k : y[r] = Peek(y)
    <3> HIDE DEF y, x
    <3> QED
      BY <1>1, <2>2, <2>5, PeekGreatest
  <2>7. Peek(x) \in Nat /\ Peek(y) \in Nat /\ v \in Nat
    BY <2>3, <2>6 DEF OffsetValues
  <2>8. \A r \in 1 .. n : s[r] \in Nat
    BY DEF OffsetValues
  <2>9. \A r \in 1 .. k + i : r \in 1 .. k + (i - 1) \/ r = k + i
    BY <1>1
  <2>10. CASE v >= Peek(x)
    <3>1. y = x
      BY <1>1, <2>2, <2>3, <2>10, HeapStepFields
    <3>2. pos \in [1 .. k -> 1 .. k + i]
      BY <1>1, <2>4
    <3>3. Holds(y, i, pos)
      BY <2>4, <2>9, <2>10, <3>1
    <3> HIDE DEF Holds
    <3>4. Smallest(y, i)
      BY <3>2, <3>3
    <3> HIDE DEF Smallest, y
    <3> QED
      BY <1>0, <2>1, <2>3, <2>5, <3>4
  <2>11. CASE v < Peek(x)
    <3>1. PICK r \in 1 .. k :
             /\ x[r] = Peek(x)
             /\ y = [j \in 1 .. k |-> IF j = k THEN v ELSE IF j < r THEN x[j] ELSE x[j + 1]]
      <4>1. k \in Nat \ {0} /\ x \in HeapStates(k) /\ v \in OffsetValues
        BY <1>1, <2>2, <2>3
      <4> HIDE DEF x, v
      <4>2. \E r \in 1 .. k : x[r] = Peek(x) /\ HeapStep(x, v) = Replaced(x, k, r, v)
        BY <4>1, <2>11, HeapStepReplaces, ZenonT(90)
      <4> QED
        BY <4>2 DEF Replaced
    <3> HIDE DEF x, y
    <3> DEFINE npos == [j \in 1 .. k |-> IF j = k THEN k + i ELSE IF j < r THEN pos[j] ELSE pos[j + 1]]
    <3>2. npos \in [1 .. k -> 1 .. k + i]
      BY <1>1, <2>4
    <3>3. ASSUME NEW a \in 1 .. k, NEW b \in 1 .. k, npos[a] = npos[b] PROVE a = b
      <4>1. \A j \in 1 .. k : pos[j] # k + i /\ pos[j] \in Nat
        BY <1>1, <2>4
      <4>2. \A c, d \in 1 .. k : pos[c] = pos[d] => c = d
        BY <2>4
      <4> QED
        BY <1>1, <3>3, <4>1, <4>2
    <3>4. \A j \in 1 .. k : y[j] = s[npos[j]]
      <4>1. \A j \in 1 .. k : x[j] = s[pos[j]]
        BY <2>4
      <4> QED
        BY <1>1, <3>1, <4>1
    <3>5. Peek(y) <= Peek(x)
      BY <1>1, <2>6, <2>7, <2>11, <3>1
    <3>6. ASSUME NEW q \in 1 .. k + i, \A j \in 1 .. k : npos[j] # q PROVE s[q] >= Peek(y)
      <4>1. q # k + i
        BY <1>1, <3>6
      <4>2. q \in 1 .. k + (i - 1) /\ s[q] \in Nat
        BY <2>1, <2>8, <2>9, <4>1
      <4>3. CASE q = pos[r]
        <5>1. s[q] = Peek(x)
          BY <2>4, <3>1, <4>3
        <5> QED
          BY <2>7, <3>5, <5>1
      <4>4. CASE q # pos[r]
        <5>1. \A j \in 1 .. k : pos[j] # q
          <6> SUFFICES ASSUME NEW j \in 1 .. k, pos[j] = q PROVE FALSE
            OBVIOUS
          <6>1. j # r
            BY <4>4
          <6>2. CASE j < r
            <7>1. j # k /\ npos[j] = pos[j]
              BY <1>1, <6>2
            <7> QED
              BY <3>6, <7>1
          <6>3. CASE j > r
            <7>1. j - 1 \in 1 .. k /\ j - 1 # k /\ ~(j - 1 < r) /\ (j - 1) + 1 = j
              BY <1>1, <6>3
            <7>2. npos[j - 1] = pos[j]
              BY <7>1
            <7> QED
              BY <3>6, <7>1, <7>2
          <6> QED
            BY <1>1, <6>1, <6>2, <6>3
        <5>2. s[q] >= Peek(x)
          BY <2>4, <4>2, <5>1
        <5> QED
          BY <2>7, <3>5, <4>2, <5>2
      <4> QED
        BY <4>3, <4>4
    <3>7. Holds(y, i, npos)
      <4> HIDE DEF npos
      <4> QED
        BY <3>3, <3>4, <3>6
    <3> HIDE DEF Holds, npos
    <3>8. Smallest(y, i)
      BY <3>2, <3>7
    <3> HIDE DEF Smallest
    <3> QED
      BY <1>0, <2>1, <2>3, <2>5, <3>8
  <2> QED
    BY <2>7, <2>10, <2>11
<1>8. h[m] \in P[m]
  <2> HIDE DEF m
  <2>1. \A i \in 0 .. m : h[i] \in P[i]
    BY <1>1, <1>6, <1>7, PrefixInduction
  <2> QED
    BY <1>1, <2>1
<1>9. h[m] \in HeapStates(k) /\ Smallest(h[m], m)
  <2>1. m \in 0 .. m
    BY <1>1
  <2> HIDE DEF Smallest, m
  <2> QED
    BY <1>0, <1>8, <2>1
<1>10. PICK pos \in [1 .. k -> 1 .. k + m] : Holds(h[m], m, pos)
  BY <1>9
<1>11. k + m = n
  BY <1>1
<1> DEFINE x == h[m]
           T == {pos[j] : j \in 1 .. k}
<1>12a. x \in HeapStates(k) /\ k \in Nat \ {0}
  BY <1>1, <1>9
<1>12b. /\ Peek(x) \in OffsetValues
        /\ \E r \in 1 .. k : x[r] = Peek(x)
        /\ \A r \in 1 .. k : x[r] <= Peek(x)
  <2> HIDE DEF x, Holds, Smallest, m
  <2> QED
    BY <1>0, <1>12a, PeekGreatest
<1>12. PICK at \in 1 .. k : x[at] = Peek(x)
  BY <1>12b
<1>13. Peek(x) \in Nat /\ \A j \in 1 .. k : x[j] <= Peek(x)
  BY <1>0, <1>12b DEF OffsetValues
<1>14. /\ T \in SUBSET (1 .. n) /\ pos[at] \in T /\ s[pos[at]] = Peek(x)
       /\ \A p \in T : s[p] <= Peek(x)
       /\ \A p \in (1 .. n) \ T : s[p] >= Peek(x)
  BY <1>10, <1>11, <1>12, <1>13
<1>15. s \in [1 .. n -> Nat]
  BY DEF OffsetValues
<1>16. Cardinality(T) = k
  <2>1. pos \in [1 .. k -> 1 .. n]
    BY <1>10, <1>11
  <2>2. Distinct(k, pos)
    BY <1>10 DEF Distinct
  <2>3. T = Places(k, pos) /\ k \in Nat /\ n \in Nat
    BY DEF Places
  <2> HIDE DEF T, Smallest, x, m, Holds
  <2> QED
    BY ONLY <2>1, <2>2, <2>3, PositionsCounted
<1>17. IsKthSmallest(s, Cardinality(T), Peek(x))
  <2> HIDE DEF T, x
  <2> QED
    BY <1>13, <1>14, <1>15, KthByPositions
<1>18. HeapSmallest(s, k) = Peek(x)
  BY <1>1, <1>5 DEF HeapSmallest, Heaped, base, tail
<1> QED
  BY <1>16, <1>17, <1>18

\* find_kth_smallest is right on every sequence of offsets and for every k: whichever of
\* the minimum, the two-variable scan and the bounded max-heap it uses, the answer is the
\* k-th smallest offset, duplicates counted (src/src/replication/manager.rs).
THEOREM KthCorrect ==
    ASSUME U64Max \in Nat
    PROVE  \A s \in Seq(OffsetValues) : \A k \in 1 .. Len(s) :
              IsKthSmallest(s, k, find_kth_smallest(s, k))
<1> SUFFICES ASSUME NEW s \in Seq(OffsetValues), NEW k \in 1 .. Len(s)
             PROVE  IsKthSmallest(s, k, find_kth_smallest(s, k))
  OBVIOUS
<1> DEFINE n == Len(s)
<1>1. n \in Nat \ {0} /\ s \in [1 .. n -> OffsetValues] /\ s \in [1 .. n -> Nat]
  BY DEF OffsetValues
<1>2. CASE k = 1
  <2>1. find_kth_smallest(s, k) = Min(ToSet(s))
    BY <1>2 DEF find_kth_smallest
  <2> HIDE DEF n
  <2> QED
    BY <1>1, <1>2, <2>1, SmallestIsKth
<1>3. CASE k = 2
  <2>1. find_kth_smallest(s, k) = SecondSmallest(s) /\ n >= 2
    BY <1>3 DEF find_kth_smallest
  <2> HIDE DEF n
  <2> QED
    BY <1>1, <1>3, <2>1, SecondIsKth
<1>4. CASE k >= 3
  <2>1. find_kth_smallest(s, k) = HeapSmallest(s, k) /\ k \in 1 .. n
    BY <1>4 DEF find_kth_smallest
  <2> HIDE DEF n
  <2> QED
    BY <1>1, <2>1, HeapIsKth
<1> QED
  BY <1>2, <1>3, <1>4

-------------------------------------------------------------------------------
(* The two algorithms on everything MCAlgorithms feeds them.               *)

\* The inputs: segments in order, of natural sizes.
AlgorithmConstants ==
    /\ SegmentSizes \subseteq Nat /\ Gaps \subseteq Nat /\ PlannerConfig(Config)
    /\ MaxSegments \in Nat
InputSegments == [start : Nat, end : Nat, key : Nat, size : SegmentSizes]
InputsOrdered ==
    /\ segments \in Seq(InputSegments)
    /\ \A i \in 1 .. Len(segments) : segments[i].start <= segments[i].end
    /\ Ordered(segments)

LEMMA InputGrows ==
    ASSUME AlgorithmConstants, InputsOrdered, AlgorithmsNext \/ UNCHANGED algorithmVars
    PROVE  InputsOrdered'
<1>1. CASE UNCHANGED segments
  BY <1>1 DEF InputsOrdered
<1>2. ASSUME NEW gap \in Gaps, NEW size \in SegmentSizes, GrowIndex(gap, size) PROVE InputsOrdered'
  <2> DEFINE n == Len(segments)
             start == gap + (IF segments = <<>> THEN 0 ELSE Last(segments).end)
             seg == [start |-> start, end |-> start + 1, key |-> start, size |-> size]
  <2>1. segments \in Seq(InputSegments) /\ n \in Nat /\ segments' = Append(segments, seg)
    BY <1>2 DEF GrowIndex, InputsOrdered
  <2>a. \A i \in 1 .. n : segments[i] \in InputSegments
    BY <2>1
  <2>b. \A v \in InputSegments : v.start \in Nat /\ v.end \in Nat
    BY DEF InputSegments
  <2>c. \A i \in 1 .. n : segments[i].start \in Nat /\ segments[i].end \in Nat
    BY <2>a, <2>b
  <2>2. n > 0 => Last(segments) = segments[n] /\ segments[n].end \in Nat /\ segments # <<>>
    BY <2>1, <2>c DEF Last
  <2>3. start \in Nat /\ (n > 0 => segments[n].end <= start)
    <3>1. gap \in Nat
      BY DEF AlgorithmConstants
    <3>2. CASE n > 0
      <4>1. start = gap + segments[n].end
        BY <2>2, <3>2
      <4> QED
        BY <2>2, <3>1, <3>2, <4>1
    <3>3. CASE n = 0
      BY <2>1, <3>1, <3>3
    <3> QED
      BY <2>1, <3>2, <3>3
  <2> HIDE DEF start
  <2>4. seg \in InputSegments /\ seg.start = start /\ seg.start <= seg.end
    BY <2>3 DEF InputSegments
  <2> HIDE DEF seg
  <2>5. /\ segments' \in Seq(InputSegments) /\ Len(segments') = n + 1 /\ segments'[n + 1] = seg
        /\ \A i \in 1 .. n : segments'[i] = segments[i]
    BY <2>1, <2>4
  <2>6. ASSUME NEW i \in 1 .. Len(segments') PROVE segments'[i].start <= segments'[i].end
    <3>1. i = n + 1 \/ i \in 1 .. n
      BY <2>1, <2>5
    <3> QED
      BY <2>4, <2>5, <3>1 DEF InputsOrdered
  <2>7. ASSUME NEW i \in 1 .. Len(segments'), NEW j \in 1 .. Len(segments'), i < j
        PROVE  segments'[i].end <= segments'[j].start
    <3>0. i \in 1 .. n /\ (j = n + 1 \/ j \in 1 .. n)
      BY <2>1, <2>5, <2>7
    <3>1. CASE j \in 1 .. n
      BY <2>5, <2>7, <3>0, <3>1 DEF InputsOrdered, Ordered
    <3>2. CASE j = n + 1
      <4>1. n > 0 /\ n \in 1 .. n /\ segments[n].end <= start
        BY <2>1, <2>3, <3>0
      <4>2. segments[i].end <= segments[n].end
        <5>1. CASE i = n
          BY <2>2, <4>1, <5>1
        <5>2. CASE i < n
          <6>1. segments[i].end <= segments[n].start /\ segments[n].start <= segments[n].end
            BY <3>0, <4>1, <5>2 DEF InputsOrdered, Ordered
          <6>2. segments[i].end \in Nat /\ segments[n].start \in Nat
            BY <2>c, <3>0, <4>1
          <6> QED
            BY <2>2, <4>1, <6>1, <6>2
        <5> QED
          BY <2>1, <3>0, <5>1, <5>2
      <4>3. segments[i].end \in Nat
        BY <2>c, <3>0
      <4> QED
        BY <2>2, <2>3, <2>4, <2>5, <3>0, <3>2, <4>1, <4>2, <4>3
    <3> QED
      BY <3>0, <3>1, <3>2
  <2> QED
    BY <2>5, <2>6, <2>7 DEF InputsOrdered, Ordered
<1>3. ASSUME NEW v \in Values, GrowOffsets(v) PROVE InputsOrdered'
  BY <1>1, <1>3 DEF GrowOffsets
<1>4. CASE UNCHANGED algorithmVars
  BY <1>1, <1>4 DEF algorithmVars
<1> QED
  BY <1>2, <1>3, <1>4 DEF AlgorithmsNext

\* For every cold index: plan_partition_compaction plans runs of two to max_sources
\* neighbouring small segments without a gap, in order and without sharing one, and of two
\* neighbours that could be merged it plans at least one.  max_sources is at least two: with
\* one, the planner would plan every small segment alone.
THEOREM PlannerExact ==
    ASSUME AlgorithmConstants
    PROVE  AlgorithmsSpec => []PlansExact
<1>1. AlgorithmsInit => InputsOrdered
  <2> SUFFICES ASSUME AlgorithmsInit PROVE InputsOrdered
    OBVIOUS
  <2>1. segments = <<>> /\ <<>> \in Seq(InputSegments) /\ Len(segments) = 0
    BY DEF AlgorithmsInit
  <2> QED
    BY <2>1 DEF InputsOrdered, Ordered
<1>2. InputsOrdered /\ [AlgorithmsNext]_algorithmVars => InputsOrdered'
  BY InputGrows
<1>3. ASSUME InputsOrdered PROVE PlansExact
  <2>1. ColdSegments(InputSegments) /\ PlannerConfig(Config) /\ segments \in Seq(InputSegments) /\ Ordered(segments)
    BY <1>3 DEF ColdSegments, InputSegments, AlgorithmConstants, InputsOrdered
  <2>2. /\ GoodPlans(Plans, Config)
        /\ \A k \in 2 .. Len(segments) : Settled(Plans, segments, k, Config)
    BY <2>1, PlannerCorrect DEF Plans
  <2>3. \A i \in 2 .. Len(Plans) : i - 1 \in 1 .. Len(Plans) /\ i \in 1 .. Len(Plans) /\ i - 1 < i
    <3>1. Len(Plans) \in Nat
      BY <2>1, PlannerCorrect DEF Plans
    <3> QED
      BY <3>1
  <2> QED
    BY <2>2, <2>3 DEF PlansExact, GoodPlans, GoodRun, Settled, Pair, InSomePlan, Small, Planned
<1> QED
  BY <1>1, <1>2, <1>3, PTL DEF AlgorithmsSpec

\* find_kth_smallest picks the k-th smallest of every sequence of offsets, for every k:
\* recalculate_high_watermark gets the offset that a quorum has reached.
THEOREM KthExact ==
    ASSUME U64Max \in Nat, Values \subseteq OffsetValues
    PROVE  AlgorithmsSpec => []KthIsKth
<1> DEFINE Typed == offsets \in Seq(OffsetValues)
<1>1. AlgorithmsInit => Typed
  BY DEF AlgorithmsInit
<1>2. Typed /\ [AlgorithmsNext]_algorithmVars => Typed'
  <2> SUFFICES ASSUME Typed, [AlgorithmsNext]_algorithmVars PROVE Typed'
    OBVIOUS
  <2>1. CASE UNCHANGED offsets
    BY <2>1
  <2>2. ASSUME NEW v \in Values, GrowOffsets(v) PROVE Typed'
    <3>1. offsets' = Append(offsets, v) /\ v \in OffsetValues
      BY <2>2 DEF GrowOffsets
    <3> QED
      BY <3>1
  <2> QED
    BY <2>1, <2>2 DEF AlgorithmsNext, GrowIndex, algorithmVars
<1>3. Typed => KthIsKth
  BY KthCorrect DEF KthIsKth
<1> QED
  BY <1>1, <1>2, <1>3, PTL DEF AlgorithmsSpec

-------------------------------------------------------------------------------
(* The inductive invariant.                                                *)

Sending == [pc : {"append", "store"}, off : Offsets]
Waiting == [pc : {"wait", "recalculate", "short"}, off : Offsets,
            pending : SUBSET Followers, acked : SUBSET Followers]
Advancing == [pc : {"advance"}, off : Offsets, new : 0 .. MaxOffset]
Reported == [offset : 0 .. MaxOffset, fresh : BOOLEAN]

TypeOK ==
    /\ log \in [Replicas -> SUBSET Offsets]
    /\ log_end_offset \in 0 .. MaxOffset /\ high_watermark \in 0 .. MaxOffset
    /\ follower_states \in [Followers -> Reported \cup {Unknown}]
    /\ task \in [Tasks -> {IdleTask} \cup Sending \cup Waiting \cup Advancing]
    /\ requests \subseteq [off : Offsets, to : Followers]
    /\ answers \subseteq [off : Offsets, from : Followers, offset : 0 .. MaxOffset]
    /\ beats \subseteq [from : Followers, offset : 0 .. MaxOffset]
    /\ started \in 0 .. MaxOffset
    /\ durable \subseteq Offsets
    /\ failures \in Nat /\ heartbeats \in Nat

Held(o) == {n \in Replicas : o \in log[n]}
OnQuorum(o) == MinIsr <= Cardinality(Held(o))

\* What a call in progress knows is stored, and where.
Collecting == {"wait", "recalculate", "short"}

CallsHold ==
    \A t \in Tasks :
        /\ task[t].pc \in {"store"} \cup Collecting => task[t].off \in log[Leader]
        /\ task[t].pc \in Collecting => \A f \in task[t].acked : task[t].off \in log[f]
        /\ task[t].pc = "recalculate" => Cardinality(task[t].acked) >= RequiredAcks
        /\ task[t].pc = "advance" => OnQuorum(task[t].off)

AnswersHold == \A a \in answers : a.off \in log[a.from]

DurableInv == CallsHold /\ AnswersHold /\ DurableOnQuorum

\* A replica has reached an offset: it stores a record at the one before it or later.
Reaches(n, x) == x = 0 \/ \E o \in log[n] : x <= o + 1
Reaching(x) == {n \in Replicas : Reaches(n, x)}
QuorumReaches(x) == x = 0 \/ MinIsr <= Cardinality(Reaching(x))

\* What is reported of a replica it has reached, and what a call is about to store as
\* the watermark, or has stored, a quorum has reached.
ReportsReached ==
    /\ Reaches(Leader, log_end_offset)
    /\ \A f \in Followers : follower_states[f] # Unknown => Reaches(f, follower_states[f].offset)
    /\ \A a \in answers : Reaches(a.from, a.offset)
    /\ \A b \in beats : Reaches(b.from, b.offset)

WatermarksReached ==
    /\ \A t \in Tasks : task[t].pc = "advance" => QuorumReaches(task[t].new)
    /\ QuorumReaches(high_watermark)

ReplicationInv == TypeOK /\ DurableInv /\ ReportsReached /\ WatermarksReached

\* The step of a call has one of four shapes.
LEMMA TaskShapes ==
    ASSUME TypeOK, NEW t \in Tasks
    PROVE  /\ task[t].pc \in {"idle", "append", "store", "advance"} \cup Collecting
           /\ task[t].pc = "idle" => task[t] = IdleTask
           /\ task[t].pc \in {"append", "store"} => task[t] \in Sending
           /\ task[t].pc \in Collecting => task[t] \in Waiting
           /\ task[t].pc = "advance" => task[t] \in Advancing
<1>1. task[t] \in {IdleTask} \cup Sending \cup Waiting \cup Advancing
  BY DEF TypeOK
<1>2. CASE task[t] = IdleTask
  BY <1>2 DEF IdleTask, Collecting
<1>3. CASE task[t] \in Sending
  BY <1>3 DEF Sending, Collecting
<1>4. CASE task[t] \in Waiting
  BY <1>4 DEF Waiting, Collecting
<1>5. CASE task[t] \in Advancing
  BY <1>5 DEF Advancing, Collecting
<1> QED
  BY <1>1, <1>2, <1>3, <1>4, <1>5

\* The offsets recalculate_high_watermark looks at, and the one it picks.
LEMMA WatermarkFound ==
    ASSUME ReplicationConstants, TypeOK, NEW top \in 0 .. MaxOffset, log_end_offset <= top,
           \A f \in Followers : follower_states[f] # Unknown => follower_states[f].offset <= top
    PROVE  /\ InSyncOffsets \in Seq(OffsetValues)
           /\ Len(InSyncOffsets) >= MinIsr =>
                /\ KFromBottom \in 1 .. Len(InSyncOffsets)
                /\ IsKthSmallest(InSyncOffsets, KFromBottom, find_kth_smallest(InSyncOffsets, KFromBottom))
                /\ find_kth_smallest(InSyncOffsets, KFromBottom) \in 0 .. top
<1> DEFINE S == {f \in Followers : is_follower_in_sync(f)}
           insync == SetToSeq(S)
           rest == [i \in 1 .. Len(insync) |-> follower_states[insync[i]].offset]
           found == find_kth_smallest(InSyncOffsets, KFromBottom)
<1>0. U64Max \in Nat /\ MaxOffset \in Nat /\ MaxOffset <= U64Max /\ MinIsr \in Nat \ {0}
  BY DEF ReplicationConstants
<1>1. S \subseteq Followers /\ IsFiniteSet(S)
  BY FS_Subset DEF ReplicationConstants
<1>2. \A f \in S : follower_states[f].offset \in 0 .. top
  <2>1. \A f \in S : follower_states[f] \in Reported /\ follower_states[f] # Unknown
    BY DEF TypeOK, is_follower_in_sync
  <2>2. \A f \in S : follower_states[f].offset \in 0 .. MaxOffset
    BY <2>1 DEF Reported
  <2> QED
    BY <1>0, <1>1, <2>1, <2>2
<1> HIDE DEF S
<1>3. Cardinality(S) \in Nat /\ insync \in [1 .. Cardinality(S) -> S] /\ Len(insync) = Cardinality(S)
  BY <1>1, SetToSeqFields
<1> HIDE DEF insync
<1>4. rest \in [1 .. Cardinality(S) -> 0 .. top] /\ rest \in Seq(0 .. top)
  <2>1. \A i \in 1 .. Cardinality(S) : insync[i] \in S
    BY <1>3
  <2> QED
    BY <1>2, <1>3, <2>1
<1>5. InSyncOffsets = <<log_end_offset>> \o rest
  BY DEF InSyncOffsets, S, insync
<1>6. log_end_offset \in 0 .. top
  BY <1>0 DEF TypeOK
<1> HIDE DEF rest
<1>7. InSyncOffsets \in Seq(0 .. top)
  BY <1>4, <1>5, <1>6
<1>8. Seq(0 .. top) \subseteq Seq(OffsetValues)
  <2>1. 0 .. top \subseteq OffsetValues
    BY <1>0 DEF OffsetValues
  <2> QED
    BY <2>1
<1>9. ASSUME Len(InSyncOffsets) >= MinIsr
      PROVE  /\ KFromBottom \in 1 .. Len(InSyncOffsets)
             /\ IsKthSmallest(InSyncOffsets, KFromBottom, found) /\ found \in 0 .. top
  <2>1. Len(InSyncOffsets) \in Nat
    BY <1>7
  <2>2. KFromBottom \in 1 .. Len(InSyncOffsets)
    BY <1>0, <1>9, <2>1 DEF KFromBottom
  <2>3. IsKthSmallest(InSyncOffsets, KFromBottom, found)
    BY <1>0, <1>7, <1>8, <2>2, KthCorrect
  <2>4. \A i \in 1 .. Len(InSyncOffsets) : InSyncOffsets[i] \in 0 .. top
    BY <1>7
  <2>5. \E i \in 1 .. Len(InSyncOffsets) : InSyncOffsets[i] = found
    BY <2>3 DEF IsKthSmallest
  <2> QED
    BY <2>2, <2>3, <2>4, <2>5
<1> QED
  BY <1>7, <1>8, <1>9

\* Every step keeps the shape of the manager, its calls and its followers.
LEMMA TypeStep ==
    ASSUME ReplicationConstants, TypeOK, [Next]_vars
    PROVE  TypeOK'
<1> USE DEF TypeOK
<1>0. MaxOffset \in Nat /\ Leader \in Replicas /\ Followers \subseteq Replicas /\ Offsets \subseteq Nat
  BY DEF ReplicationConstants, Replicas, Offsets
<1>1. ASSUME NEW t \in Tasks, ReplicateRecord(t) PROVE TypeOK'
  <2>1. started \in Offsets /\ started + 1 \in 0 .. MaxOffset
    BY <1>0, <1>1 DEF ReplicateRecord, Offsets
  <2>2. [pc |-> "append", off |-> started] \in Sending
    BY <2>1 DEF Sending
  <2> QED
    BY <1>1, <2>1, <2>2 DEF ReplicateRecord, network, bounds
<1>2. ASSUME NEW t \in Tasks, AppendLocal(t) PROVE TypeOK'
  <2>1. task[t] \in Sending
    BY <1>2, TaskShapes DEF AppendLocal
  <2>2. task[t].off \in Offsets /\ [task[t] EXCEPT !.pc = "store"] \in Sending
    BY <2>1 DEF Sending
  <2>3. log' \in [Replicas -> SUBSET Offsets]
    BY <1>0, <1>2, <2>2 DEF AppendLocal
  <2>4. task' = [task EXCEPT ![t] = [task[t] EXCEPT !.pc = "store"]]
    BY <1>2 DEF AppendLocal
  <2> QED
    BY <1>2, <2>2, <2>3, <2>4 DEF AppendLocal, network, bounds
<1>3. ASSUME NEW t \in Tasks, SendAll(t) PROVE TypeOK'
  <2>1. task[t] \in Sending
    BY <1>3, TaskShapes DEF SendAll
  <2>2. task[t].off \in Offsets /\ task[t].off \in 0 .. MaxOffset /\ task[t].off + 1 \in 0 .. MaxOffset
    BY <1>0, <2>1 DEF Sending, Offsets
  <2>3. [pc |-> "wait", off |-> task[t].off, pending |-> Followers, acked |-> {}] \in Waiting
    BY <2>2 DEF Waiting
  <2>4. {[off |-> task[t].off, to |-> f] : f \in Followers} \subseteq [off : Offsets, to : Followers]
    BY <2>2
  <2>5. CASE Followers = {}
    BY <1>3, <2>2, <2>5, SMTT(30) DEF SendAll, bounds
  <2>6. CASE Followers # {}
    BY <1>3, <2>2, <2>3, <2>4, <2>6 DEF SendAll, bounds
  <2> QED
    BY <2>5, <2>6
<1>4. ASSUME NEW t \in Tasks, ReturnLocalOnly(t) PROVE TypeOK'
  BY <1>4 DEF ReturnLocalOnly, network, bounds
<1>5. ASSUME NEW t \in Tasks, Recalculate(t) PROVE TypeOK'
  <2>1. task[t] \in Waiting
    BY <1>5, TaskShapes DEF Recalculate, Collecting
  <2>2. task[t].off \in Offsets
    BY <2>1 DEF Waiting
  <2> DEFINE new == find_kth_smallest(InSyncOffsets, KFromBottom)
  <2>3. CASE Len(InSyncOffsets) >= MinIsr /\ new > high_watermark
    <3>1. \A f \in Followers : follower_states[f] # Unknown => follower_states[f].offset <= MaxOffset
      BY <1>0 DEF Reported
    <3>2. new \in 0 .. MaxOffset
      <4>1. MaxOffset \in 0 .. MaxOffset /\ log_end_offset <= MaxOffset
        BY <1>0
      <4> QED
        BY <2>3, <3>1, <4>1, WatermarkFound
    <3>3. [pc |-> "advance", off |-> task[t].off, new |-> new] \in Advancing
      BY <2>2, <3>2 DEF Advancing
    <3>4. task' = [task EXCEPT ![t] = [pc |-> "advance", off |-> task[t].off, new |-> new]] /\ UNCHANGED durable
      BY <1>5, <2>3 DEF Recalculate
    <3> HIDE DEF new
    <3> QED
      BY <1>5, <3>3, <3>4 DEF Recalculate, network, bounds
  <2>4. CASE ~ (Len(InSyncOffsets) >= MinIsr /\ new > high_watermark)
    <3>1. task' = [task EXCEPT ![t] = IdleTask] /\ durable' = durable \cup {task[t].off}
      BY <1>5, <2>4 DEF Recalculate
    <3> QED
      BY <1>5, <2>2, <3>1 DEF Recalculate, network, bounds
  <2> QED
    BY <2>3, <2>4
<1>6. ASSUME NEW t \in Tasks, AdvanceWatermark(t) PROVE TypeOK'
  <2>1. task[t] \in Advancing
    BY <1>6, TaskShapes DEF AdvanceWatermark
  <2>2. task[t].off \in Offsets /\ task[t].new \in 0 .. MaxOffset
    BY <2>1 DEF Advancing
  <2> QED
    BY <1>6, <2>2 DEF AdvanceWatermark, network, bounds
<1>7. ASSUME NEW t \in Tasks, NEW a \in answers, ReceiveAck(t, a) PROVE TypeOK'
  <2>1. task[t] \in Waiting
    BY <1>7, TaskShapes DEF ReceiveAck, Awaits, Collecting
  <2>2. a.from \in Followers /\ a.off \in Offsets /\ a.offset \in 0 .. MaxOffset
    OBVIOUS
  <2> DEFINE acked == task[t].acked \cup {a.from}
             pending == task[t].pending \ {a.from}
  <2>3. acked \in SUBSET Followers /\ pending \in SUBSET Followers
    BY <2>1, <2>2 DEF Waiting
  <2>4. \A c \in {"wait", "recalculate", "short"} :
          [pc |-> c, off |-> a.off, pending |-> pending, acked |-> acked] \in Waiting
    BY <2>2, <2>3 DEF Waiting
  <2>5. \E c \in {"wait", "recalculate", "short"} : task' = [task EXCEPT ![t] =
          [pc |-> c, off |-> a.off, pending |-> pending, acked |-> acked]]
    <3>1. \A b, c : (IF b THEN "recalculate" ELSE IF c THEN "short" ELSE "wait") \in {"wait", "recalculate", "short"}
      OBVIOUS
    <3> QED
      BY <1>7, <3>1 DEF ReceiveAck
  <2>6. [offset |-> a.offset, fresh |-> TRUE] \in Reported
    BY <2>2 DEF Reported
  <2>7. requests' \subseteq requests /\ answers' \subseteq answers
    BY <1>7 DEF ReceiveAck
  <2>8. follower_states' = [follower_states EXCEPT ![a.from] = [offset |-> a.offset, fresh |-> TRUE]]
    BY <1>7 DEF ReceiveAck
  <2>9. UNCHANGED <<log, log_end_offset, high_watermark, beats, started, durable, failures, heartbeats>>
    BY <1>7 DEF ReceiveAck, bounds
  <2>10. task' \in [Tasks -> {IdleTask} \cup Sending \cup Waiting \cup Advancing]
    <3> HIDE DEF acked, pending
    <3> QED
      BY <2>4, <2>5
  <2>11. follower_states' \in [Followers -> Reported \cup {Unknown}]
    BY <2>2, <2>6, <2>8
  <2> HIDE DEF acked, pending
  <2> QED
    BY <2>7, <2>9, <2>10, <2>11
<1>8. ASSUME NEW t \in Tasks, NEW f \in Followers, SendFails(t, f) PROVE TypeOK'
  <2>1. task[t] \in Waiting
    BY <1>8, TaskShapes DEF SendFails, Collecting
  <2>2. requests' \subseteq requests /\ failures' \in Nat
    BY <1>8 DEF SendFails
  <2>3. \E c \in {"wait", "recalculate", "short"} :
          task' = [task EXCEPT ![t] = [task[t] EXCEPT !.pending = task[t].pending \ {f}, !.pc = c]]
    <3>1. \A b, c : (IF b THEN "wait" ELSE IF c THEN "recalculate" ELSE "short") \in {"wait", "recalculate", "short"}
      OBVIOUS
    <3> QED
      BY <1>8, <3>1 DEF SendFails
  <2>4. \A c \in {"wait", "recalculate", "short"} :
          [task[t] EXCEPT !.pending = task[t].pending \ {f}, !.pc = c] \in Waiting
    BY <2>1 DEF Waiting
  <2>5. task' \in [Tasks -> {IdleTask} \cup Sending \cup Waiting \cup Advancing]
    BY <2>3, <2>4
  <2> QED
    BY <1>8, <2>2, <2>5 DEF SendFails
<1>9. ASSUME NEW r \in requests, HandleReplicateData(r) PROVE TypeOK'
  <2>1. r.to \in Followers /\ r.to \in Replicas /\ r.off \in Offsets
    BY <1>0
  <2>2. log' \in [Replicas -> SUBSET Offsets]
    BY <1>9, <2>1 DEF HandleReplicateData
  <2> DEFINE S == log[r.to] \cup {r.off}
  <2>3. Max(S) \in S
    <3>1. S \subseteq Nat /\ S # {} /\ \A x \in S : x <= MaxOffset
      BY <1>0, <2>1 DEF Offsets
    <3> HIDE DEF S
    <3> QED
      BY <1>0, <3>1, MaxOfBounded
  <2>4. Max(S) + 1 \in 0 .. MaxOffset
    BY <1>0, <2>1, <2>3 DEF Offsets
  <2>5. answers' = answers \cup {[off |-> r.off, from |-> r.to, offset |-> Max(S) + 1]}
    BY <1>9 DEF HandleReplicateData
  <2> HIDE DEF S
  <2>6. answers' \subseteq [off : Offsets, from : Followers, offset : 0 .. MaxOffset]
    BY <2>1, <2>4, <2>5
  <2> QED
    BY <1>9, <2>2, <2>6 DEF HandleReplicateData, bounds
<1>10. ASSUME NEW a \in answers, IgnoreAnswer(a) PROVE TypeOK'
  BY <1>10 DEF IgnoreAnswer, bounds
<1>11. ASSUME NEW b \in beats, ReceiveHeartbeat(b) PROVE TypeOK'
  <2>1. b.from \in Followers /\ [offset |-> b.offset, fresh |-> TRUE] \in Reported
    BY DEF Reported
  <2>2. follower_states' \in [Followers -> Reported \cup {Unknown}]
    BY <1>11, <2>1 DEF ReceiveHeartbeat
  <2> QED
    BY <1>11, <2>2 DEF ReceiveHeartbeat, bounds
<1>12. ASSUME NEW f \in Followers, HandleHeartbeat(f) PROVE TypeOK'
  <2>1. next_offset(f) \in 0 .. MaxOffset
    <3>1. log[f] \in SUBSET Offsets
      BY <1>0
    <3>2. CASE log[f] = {}
      BY <1>0, <3>2 DEF next_offset
    <3>3. CASE log[f] # {}
      <4>1. log[f] \subseteq Nat /\ \A x \in log[f] : x <= MaxOffset
        BY <1>0, <3>1 DEF Offsets
      <4>2. Max(log[f]) \in log[f]
        BY <1>0, <3>3, <4>1, MaxOfBounded
      <4> QED
        BY <1>0, <3>1, <3>3, <4>2 DEF next_offset, Offsets
    <3> QED
      BY <3>2, <3>3
  <2>2. beats' \subseteq [from : Followers, offset : 0 .. MaxOffset]
    BY <1>12, <2>1 DEF HandleHeartbeat
  <2> QED
    BY <1>12, <2>2 DEF HandleHeartbeat
<1>13. ASSUME NEW f \in Followers, HeartbeatExpires(f) PROVE TypeOK'
  <2>1. follower_states[f] \in Reported
    BY <1>13 DEF HeartbeatExpires
  <2>2. [follower_states[f] EXCEPT !.fresh = FALSE] \in Reported
    BY <2>1 DEF Reported
  <2>3. follower_states' = [follower_states EXCEPT ![f] = [follower_states[f] EXCEPT !.fresh = FALSE]]
    BY <1>13 DEF HeartbeatExpires
  <2>4. follower_states' \in [Followers -> Reported \cup {Unknown}]
    BY <2>2, <2>3
  <2> QED
    BY <1>13, <2>4 DEF HeartbeatExpires, network, bounds
<1>14. ASSUME NEW f \in Followers, add_follower(f) PROVE TypeOK'
  <2>1. [offset |-> 0, fresh |-> TRUE] \in Reported
    BY <1>0 DEF Reported
  <2>2. follower_states' \in [Followers -> Reported \cup {Unknown}]
    BY <1>14, <2>1 DEF add_follower
  <2> QED
    BY <1>14, <2>2 DEF add_follower, network, bounds
<1>15. ASSUME NEW f \in Followers, remove_follower(f) PROVE TypeOK'
  BY <1>15 DEF remove_follower, network, bounds
<1>16. CASE UNCHANGED vars
  BY <1>16 DEF vars, network, bounds
<1> QED
  BY <1>1, <1>2, <1>3, <1>4, <1>5, <1>6, <1>7, <1>8, <1>9, <1>10, <1>11, <1>12, <1>13, <1>14, <1>15, <1>16
     DEF Next, Call, Delivery

\* No replica forgets a record, so what is on a quorum stays there.
LEMMA LogGrows ==
    ASSUME ReplicationConstants, TypeOK, [Next]_vars
    PROVE  /\ \A n \in Replicas : log[n] \subseteq log'[n]
           /\ \A o : OnQuorum(o) => OnQuorum(o)'
<1>1. \A n \in Replicas : log[n] \subseteq log'[n]
  <2>1. ASSUME NEW t \in Tasks, AppendLocal(t) PROVE \A n \in Replicas : log[n] \subseteq log'[n]
    BY <2>1 DEF AppendLocal, TypeOK
  <2>2. ASSUME NEW r \in requests, HandleReplicateData(r) PROVE \A n \in Replicas : log[n] \subseteq log'[n]
    BY <2>2 DEF HandleReplicateData, TypeOK
  <2>3. CASE log' = log
    BY <2>3
  <2>4. \/ \E t \in Tasks : AppendLocal(t)
        \/ \E r \in requests : HandleReplicateData(r)
        \/ log' = log
    BY DEF Next, Call, Delivery, ReplicateRecord, SendAll, ReturnLocalOnly, Recalculate,
           AdvanceWatermark, ReceiveAck, SendFails, IgnoreAnswer, ReceiveHeartbeat, HandleHeartbeat,
           HeartbeatExpires, add_follower, remove_follower, vars
  <2> QED
    BY <2>1, <2>2, <2>3, <2>4
<1>2. ASSUME NEW o, OnQuorum(o) PROVE OnQuorum(o)'
  <2>1. Held(o) \subseteq Held(o)' /\ Held(o)' \subseteq Replicas
    BY <1>1 DEF Held
  <2>2. IsFiniteSet(Replicas)
    BY FS_AddElement DEF ReplicationConstants, Replicas
  <2>3. IsFiniteSet(Held(o)') /\ IsFiniteSet(Held(o))
    BY <2>1, <2>2, FS_Subset
  <2>4. Cardinality(Held(o)) <= Cardinality(Held(o)')
    BY <2>1, <2>3, FS_Subset
  <2>5. Cardinality(Held(o)) \in Nat /\ Cardinality(Held(o)') \in Nat
    BY <2>3, FS_CardinalityType
  <2>6. MinIsr \in Nat
    BY DEF ReplicationConstants
  <2> QED
    BY <1>2, <2>4, <2>5, <2>6 DEF OnQuorum
<1> QED
  BY <1>1, <1>2

\* The leader and enough followers that acknowledged are a quorum.
LEMMA AcksMakeQuorum ==
    ASSUME ReplicationConstants, TypeOK, NEW o, o \in log[Leader],
           NEW acked \in SUBSET Followers, \A f \in acked : o \in log[f],
           Cardinality(acked) >= RequiredAcks
    PROVE  OnQuorum(o)
<1>1. IsFiniteSet(acked) /\ Leader \notin acked /\ MinIsr \in Nat \ {0}
  BY FS_Subset DEF ReplicationConstants
<1>2. IsFiniteSet(acked \cup {Leader}) /\ Cardinality(acked \cup {Leader}) = Cardinality(acked) + 1
  BY <1>1, FS_AddElement
<1>3. acked \cup {Leader} \subseteq Held(o) /\ Held(o) \subseteq Replicas
  BY DEF Held, Replicas
<1>4. IsFiniteSet(Replicas)
  BY FS_AddElement DEF ReplicationConstants, Replicas
<1>5. IsFiniteSet(Held(o))
  BY <1>3, <1>4, FS_Subset
<1>6. Cardinality(acked \cup {Leader}) <= Cardinality(Held(o))
  BY <1>3, <1>5, FS_Subset
<1>7. Cardinality(acked) \in Nat /\ Cardinality(Held(o)) \in Nat
  BY <1>1, <1>5, FS_CardinalityType
<1> QED
  BY <1>1, <1>2, <1>6, <1>7 DEF OnQuorum, RequiredAcks

\* A leader on its own is a quorum when one replica is asked for.
LEMMA LeaderAlone ==
    ASSUME ReplicationConstants, TypeOK, MinIsr = 1, NEW o, o \in log[Leader]
    PROVE  OnQuorum(o)
<1>1. {} \in SUBSET Followers /\ Cardinality({}) = 0
  BY FS_EmptySet
<1> QED
  BY <1>1, AcksMakeQuorum DEF RequiredAcks

\* Durability is preserved by every step, whatever runs concurrently.
LEMMA DurableStep ==
    ASSUME ReplicationConstants, Followers = {} => MinIsr = 1, TypeOK, DurableInv, [Next]_vars
    PROVE  DurableInv'
<1>0. /\ Leader \in Replicas /\ Followers \subseteq Replicas
      /\ \A n \in Replicas : log[n] \subseteq log'[n]
      /\ \A o : OnQuorum(o) => OnQuorum(o)'
  BY LogGrows DEF Replicas
<1>a. TypeOK'
  BY TypeStep
<1> DEFINE CallHolds(t) ==
        /\ task[t].pc \in {"store"} \cup Collecting => task[t].off \in log[Leader]
        /\ task[t].pc \in Collecting => \A f \in task[t].acked : task[t].off \in log[f]
        /\ task[t].pc = "recalculate" => Cardinality(task[t].acked) >= RequiredAcks
        /\ task[t].pc = "advance" => OnQuorum(task[t].off)
<1>b. ASSUME NEW t \in Tasks, task'[t] = task[t] PROVE CallHolds(t)'
  <2>1. CallHolds(t)
    BY DEF DurableInv, CallsHold
  <2>2. task[t].pc \in Collecting => task[t].acked \subseteq Followers
    BY TaskShapes DEF Waiting
  <2> QED
    BY <1>0, <1>b, <2>1, <2>2
<1>c. ASSUME NEW t \in Tasks, \A u \in Tasks \ {t} : task'[u] = task[u], CallHolds(t)' PROVE CallsHold'
  <2> HIDE DEF CallHolds
  <2>1. ASSUME NEW u \in Tasks PROVE CallHolds(u)'
    BY <1>b, <1>c
  <2> QED
    BY <2>1 DEF CallsHold, CallHolds
<1>d. ASSUME answers' \subseteq answers PROVE AnswersHold'
  <2>1. \A a \in answers : a.from \in Followers
    BY DEF TypeOK
  <2> QED
    BY <1>0, <1>d, <2>1 DEF DurableInv, AnswersHold
<1>e. DurableOnQuorum <=> \A o \in durable : OnQuorum(o)
  BY DEF DurableOnQuorum, OnQuorum, Held
<1>f. DurableOnQuorum' <=> \A o \in durable' : OnQuorum(o)'
  BY DEF DurableOnQuorum, OnQuorum, Held
<1>g. ASSUME durable' = durable PROVE DurableOnQuorum'
  BY <1>0, <1>e, <1>f, <1>g DEF DurableInv
<1>h. ASSUME NEW o, durable' = durable \cup {o}, OnQuorum(o) PROVE DurableOnQuorum'
  BY <1>0, <1>e, <1>f, <1>h DEF DurableInv
<1>1. ASSUME NEW t \in Tasks, ReplicateRecord(t) PROVE DurableInv'
  <2>1. task'[t].pc = "append" /\ \A u \in Tasks \ {t} : task'[u] = task[u]
    BY <1>1 DEF ReplicateRecord, TypeOK
  <2>2. CallHolds(t)'
    BY <2>1 DEF Collecting
  <2> HIDE DEF CallHolds
  <2> QED
    BY <1>1, <1>c, <1>d, <1>g, <2>1, <2>2 DEF ReplicateRecord, network, DurableInv
<1>2. ASSUME NEW t \in Tasks, AppendLocal(t) PROVE DurableInv'
  <2>1. task[t] \in Sending
    BY <1>2, TaskShapes DEF AppendLocal
  <2>2. task'[t].pc = "store" /\ task'[t].off = task[t].off /\ \A u \in Tasks \ {t} : task'[u] = task[u]
    BY <1>2, <2>1 DEF AppendLocal, TypeOK, Sending
  <2>3. task[t].off \in log'[Leader]
    BY <1>0, <1>2 DEF AppendLocal, TypeOK
  <2>4. CallHolds(t)'
    BY <2>2, <2>3 DEF Collecting
  <2> HIDE DEF CallHolds
  <2> QED
    BY <1>2, <1>c, <1>d, <1>g, <2>2, <2>4 DEF AppendLocal, network, DurableInv
<1>3. ASSUME NEW t \in Tasks, SendAll(t) PROVE DurableInv'
  <2>1. task[t].off \in log[Leader] /\ log' = log /\ answers' = answers
    BY <1>3 DEF SendAll, DurableInv, CallsHold
  <2>2. CASE Followers = {}
    <3>1. task'[t].pc = "idle" /\ durable' = durable \cup {task[t].off} /\ \A u \in Tasks \ {t} : task'[u] = task[u]
      BY <1>3, <2>2 DEF SendAll, TypeOK, IdleTask
    <3>2. OnQuorum(task[t].off)
      BY <2>1, <2>2, LeaderAlone
    <3>3. CallHolds(t)'
      BY <3>1 DEF Collecting
    <3> HIDE DEF CallHolds
    <3> QED
      BY <1>c, <1>d, <1>h, <2>1, <3>1, <3>2, <3>3 DEF DurableInv
  <2>3. CASE Followers # {}
    <3>1. /\ task'[t] = [pc |-> "wait", off |-> task[t].off, pending |-> Followers, acked |-> {}]
          /\ durable' = durable /\ \A u \in Tasks \ {t} : task'[u] = task[u]
      BY <1>3, <2>3 DEF SendAll, TypeOK
    <3>2. CallHolds(t)'
      BY <2>1, <3>1 DEF Collecting
    <3> HIDE DEF CallHolds
    <3> QED
      BY <1>c, <1>d, <1>g, <2>1, <3>1, <3>2 DEF DurableInv
  <2> QED
    BY <2>2, <2>3
<1>4. ASSUME NEW t \in Tasks, ReturnLocalOnly(t) PROVE DurableInv'
  <2>1. task'[t].pc = "idle" /\ \A u \in Tasks \ {t} : task'[u] = task[u]
    BY <1>4 DEF ReturnLocalOnly, TypeOK, IdleTask
  <2>2. CallHolds(t)'
    BY <2>1 DEF Collecting
  <2> HIDE DEF CallHolds
  <2> QED
    BY <1>4, <1>c, <1>d, <1>g, <2>1, <2>2 DEF ReturnLocalOnly, network, DurableInv
<1>5. ASSUME NEW t \in Tasks, Recalculate(t) PROVE DurableInv'
  <2>0. task[t] \in Waiting /\ task[t].pc = "recalculate"
    BY <1>5, TaskShapes DEF Recalculate, Collecting
  <2>1. OnQuorum(task[t].off)
    <3>1. task[t].acked \in SUBSET Followers
      BY <2>0 DEF Waiting
    <3>2. /\ task[t].off \in log[Leader] /\ \A f \in task[t].acked : task[t].off \in log[f]
          /\ Cardinality(task[t].acked) >= RequiredAcks
      BY <2>0 DEF DurableInv, CallsHold, Collecting
    <3> QED
      BY <3>1, <3>2, AcksMakeQuorum
  <2>2. \/ task'[t].pc = "idle" /\ durable' = durable \cup {task[t].off}
        \/ task'[t].pc = "advance" /\ task'[t].off = task[t].off /\ durable' = durable
    BY <1>5 DEF Recalculate, TypeOK, IdleTask
  <2>3. (\A u \in Tasks \ {t} : task'[u] = task[u]) /\ answers' = answers
    BY <1>5 DEF Recalculate, TypeOK, network
  <2>4. CallHolds(t)'
    BY <1>0, <2>1, <2>2 DEF Collecting
  <2> HIDE DEF CallHolds
  <2> QED
    BY <1>c, <1>d, <1>g, <1>h, <2>1, <2>2, <2>3, <2>4 DEF DurableInv
<1>6. ASSUME NEW t \in Tasks, AdvanceWatermark(t) PROVE DurableInv'
  <2>1. OnQuorum(task[t].off)
    BY <1>6 DEF AdvanceWatermark, DurableInv, CallsHold
  <2>2. /\ task'[t].pc = "idle" /\ durable' = durable \cup {task[t].off} /\ answers' = answers
        /\ \A u \in Tasks \ {t} : task'[u] = task[u]
    BY <1>6 DEF AdvanceWatermark, TypeOK, IdleTask, network
  <2>3. CallHolds(t)'
    BY <2>2 DEF Collecting
  <2> HIDE DEF CallHolds
  <2> QED
    BY <1>c, <1>d, <1>h, <2>1, <2>2, <2>3 DEF DurableInv
<1>7. ASSUME NEW t \in Tasks, NEW a \in answers, ReceiveAck(t, a) PROVE DurableInv'
  <2>1. task[t].pc = "wait" /\ task[t].off = a.off /\ log' = log
    BY <1>7 DEF ReceiveAck, Awaits
  <2>2. /\ task'[t].off = a.off /\ task'[t].acked = task[t].acked \cup {a.from}
        /\ task'[t].pc \in Collecting
        /\ task'[t].pc = "recalculate" => Cardinality(task[t].acked \cup {a.from}) >= RequiredAcks
        /\ \A u \in Tasks \ {t} : task'[u] = task[u]
    BY <1>7 DEF ReceiveAck, TypeOK, Collecting
  <2>3. a.off \in log[a.from]
    BY DEF DurableInv, AnswersHold
  <2>4. a.off \in log[Leader] /\ \A f \in task[t].acked : a.off \in log[f]
    BY <2>1 DEF DurableInv, CallsHold, Collecting
  <2>5. CallHolds(t)'
    BY <2>1, <2>2, <2>3, <2>4 DEF Collecting
  <2>6. answers' \subseteq answers /\ durable' = durable
    BY <1>7 DEF ReceiveAck
  <2> HIDE DEF CallHolds
  <2> QED
    BY <1>c, <1>d, <1>g, <2>2, <2>5, <2>6 DEF DurableInv
<1>8. ASSUME NEW t \in Tasks, NEW f \in Followers, SendFails(t, f) PROVE DurableInv'
  <2>1. task[t] \in Waiting /\ task[t].pc = "wait" /\ log' = log
    BY <1>8, TaskShapes DEF SendFails, Collecting
  <2>2. /\ task'[t].off = task[t].off /\ task'[t].acked = task[t].acked
        /\ task'[t].pc \in Collecting
        /\ task'[t].pc = "recalculate" => Cardinality(task[t].acked) >= RequiredAcks
        /\ \A u \in Tasks \ {t} : task'[u] = task[u]
    BY <1>8, <2>1 DEF SendFails, TypeOK, Collecting, Waiting
  <2>3. task[t].off \in log[Leader] /\ \A g \in task[t].acked : task[t].off \in log[g]
    BY <2>1 DEF DurableInv, CallsHold, Collecting
  <2>4. CallHolds(t)'
    BY <2>1, <2>2, <2>3 DEF Collecting
  <2>5. answers' = answers /\ durable' = durable
    BY <1>8 DEF SendFails
  <2> HIDE DEF CallHolds
  <2> QED
    BY <1>c, <1>d, <1>g, <2>2, <2>4, <2>5 DEF DurableInv
<1>i. ASSUME task' = task PROVE CallsHold'
  <2> HIDE DEF CallHolds
  <2>1. ASSUME NEW u \in Tasks PROVE CallHolds(u)'
    BY <1>b, <1>i
  <2> QED
    BY <2>1 DEF CallsHold, CallHolds
<1>9. ASSUME NEW r \in requests, HandleReplicateData(r) PROVE DurableInv'
  <2>1. r.to \in Replicas /\ r.off \in log'[r.to]
    BY <1>0, <1>9 DEF HandleReplicateData, TypeOK
  <2>2. \A a \in answers : a.from \in Followers /\ a.off \in log[a.from]
    BY DEF TypeOK, DurableInv, AnswersHold
  <2>3. \A a \in answers' : a \in answers \/ (a.off = r.off /\ a.from = r.to)
    BY <1>9 DEF HandleReplicateData
  <2>4. AnswersHold'
    BY <1>0, <2>1, <2>2, <2>3 DEF AnswersHold
  <2>5. task' = task /\ durable' = durable
    BY <1>9 DEF HandleReplicateData
  <2> QED
    BY <1>g, <1>i, <2>4, <2>5 DEF DurableInv
<1>10. ASSUME task' = task, durable' = durable, answers' \subseteq answers PROVE DurableInv'
  BY <1>10, <1>d, <1>g, <1>i DEF DurableInv
<1>11. \/ \E t \in Tasks : \/ ReplicateRecord(t) \/ AppendLocal(t) \/ SendAll(t) \/ ReturnLocalOnly(t)
                           \/ Recalculate(t) \/ AdvanceWatermark(t) \/ (\E a \in answers : ReceiveAck(t, a))
                           \/ \E f \in Followers : SendFails(t, f)
       \/ \E r \in requests : HandleReplicateData(r)
       \/ task' = task /\ durable' = durable /\ answers' \subseteq answers
  BY DEF Next, Call, Delivery, IgnoreAnswer, ReceiveHeartbeat, HandleHeartbeat, HeartbeatExpires,
         add_follower, remove_follower, vars, network
<1> QED
  BY <1>1, <1>2, <1>3, <1>4, <1>5, <1>6, <1>7, <1>8, <1>9, <1>10, <1>11

\* What a replica, or a quorum, has reached stays reached.
LEMMA ReachedGrows ==
    ASSUME ReplicationConstants, TypeOK, [Next]_vars
    PROVE  /\ \A n \in Replicas : \A x : Reaches(n, x) => Reaches(n, x)'
           /\ \A x : QuorumReaches(x) => QuorumReaches(x)'
<1>1. ASSUME NEW n \in Replicas, NEW x, Reaches(n, x) PROVE Reaches(n, x)'
  <2>1. log[n] \subseteq log'[n]
    BY LogGrows
  <2> QED
    BY <1>1, <2>1 DEF Reaches
<1>2. ASSUME NEW x, QuorumReaches(x) PROVE QuorumReaches(x)'
  <2>1. Reaching(x) \subseteq Reaching(x)' /\ Reaching(x)' \subseteq Replicas
    BY <1>1 DEF Reaching
  <2>2. IsFiniteSet(Replicas) /\ MinIsr \in Nat
    BY FS_AddElement DEF ReplicationConstants, Replicas
  <2>3. IsFiniteSet(Reaching(x)') /\ IsFiniteSet(Reaching(x))
    BY <2>1, <2>2, FS_Subset
  <2>4. Cardinality(Reaching(x)) <= Cardinality(Reaching(x)')
    BY <2>1, <2>3, FS_Subset
  <2>5. Cardinality(Reaching(x)) \in Nat /\ Cardinality(Reaching(x)') \in Nat
    BY <2>3, FS_CardinalityType
  <2> QED
    BY <1>2, <2>2, <2>4, <2>5 DEF QuorumReaches
<1> QED
  BY <1>1, <1>2

\* A replica with records has reached one past its highest, and no further.
LEMMA NextIsReached ==
    ASSUME ReplicationConstants, TypeOK, NEW n \in Replicas
    PROVE  /\ Reaches(n, next_offset(n)) /\ next_offset(n) \in Nat
           /\ \A x \in Nat : Reaches(n, x) => x <= next_offset(n)
<1> DEFINE m == Max(log[n])
<1>1. MaxOffset \in Nat /\ log[n] \subseteq Nat /\ \A o \in log[n] : o <= MaxOffset
  BY DEF TypeOK, Offsets, ReplicationConstants
<1>2. CASE log[n] = {}
  BY <1>2 DEF next_offset, Reaches
<1>3. CASE log[n] # {}
  <2>1. m \in log[n] /\ \A o \in log[n] : o <= m
    BY <1>1, <1>3, MaxOfBounded
  <2>2. next_offset(n) = m + 1
    BY <1>3 DEF next_offset
  <2> HIDE DEF m
  <2>3. m \in Nat
    BY <1>1, <2>1
  <2>4. Reaches(n, m + 1)
    BY <2>1, <2>3 DEF Reaches
  <2>5. ASSUME NEW x \in Nat, Reaches(n, x) PROVE x <= m + 1
    BY <1>1, <2>1, <2>3, <2>5 DEF Reaches
  <2> QED
    BY <2>2, <2>3, <2>4, <2>5
<1> QED
  BY <1>2, <1>3

\* Answers, heartbeats and follower states never report more than the replica has, in
\* whatever order they arrive.
LEMMA ReportsReachedStep ==
    ASSUME ReplicationConstants, TypeOK, DurableInv, ReportsReached, [Next]_vars
    PROVE  ReportsReached'
<1> USE DEF ReportsReached
<1>0. /\ MaxOffset \in Nat /\ Leader \in Replicas /\ Followers \subseteq Replicas
      /\ \A n \in Replicas : \A x : Reaches(n, x) => Reaches(n, x)'
  BY ReachedGrows DEF ReplicationConstants, Replicas
<1>a. (\A a \in answers : a.from \in Followers) /\ (\A b \in beats : b.from \in Followers)
  BY DEF TypeOK
<1>1. Reaches(Leader, log_end_offset)'
  <2>1. ASSUME NEW t \in Tasks, SendAll(t) PROVE Reaches(Leader, log_end_offset)'
    <3>1. task[t].off \in log[Leader] /\ log_end_offset' = task[t].off + 1 /\ log' = log
      BY <2>1 DEF SendAll, DurableInv, CallsHold
    <3>2. task[t].off \in Nat
      BY <1>0, <3>1 DEF TypeOK, Offsets
    <3> QED
      BY <3>1, <3>2 DEF Reaches
  <2>2. CASE log_end_offset' = log_end_offset
    <3>1. Reaches(Leader, log_end_offset) => (\E o \in log'[Leader] : log_end_offset <= o + 1) \/ log_end_offset = 0
      BY <1>0 DEF Reaches
    <3> QED
      BY <2>2, <3>1 DEF Reaches
  <2>3. (\E t \in Tasks : SendAll(t)) \/ log_end_offset' = log_end_offset
    BY DEF Next, Call, Delivery, ReplicateRecord, AppendLocal, ReturnLocalOnly, Recalculate,
           AdvanceWatermark, ReceiveAck, SendFails, HandleReplicateData, IgnoreAnswer, ReceiveHeartbeat,
           HandleHeartbeat, HeartbeatExpires, add_follower, remove_follower, vars
  <2> QED
    BY <2>1, <2>2, <2>3
<1>2. \A a \in answers' : Reaches(a.from, a.offset)'
  <2>1. ASSUME NEW r \in requests, HandleReplicateData(r) PROVE \A a \in answers' : Reaches(a.from, a.offset)'
    <3> DEFINE S == log[r.to] \cup {r.off}
               new == [off |-> r.off, from |-> r.to, offset |-> Max(S) + 1]
    <3>1. r.to \in Replicas /\ log'[r.to] = S
      BY <1>0, <2>1 DEF HandleReplicateData, TypeOK
    <3>2. S \subseteq Nat /\ S # {} /\ \A x \in S : x <= MaxOffset
      BY <1>0, <3>1 DEF Offsets, TypeOK
    <3>3. answers' = answers \cup {new}
      BY <2>1 DEF HandleReplicateData
    <3>4. \E o \in log'[new.from] : new.offset <= o + 1
      <4> HIDE DEF S
      <4>1. Max(S) \in S /\ Max(S) \in Nat
        BY <1>0, <3>2, MaxOfBounded
      <4>2. \E o \in log'[r.to] : Max(S) + 1 <= o + 1
        BY <3>1, <4>1
      <4> QED
        BY <4>2
    <3> HIDE DEF new, S
    <3>5. ASSUME NEW a \in answers' PROVE Reaches(a.from, a.offset)'
      <4>1. CASE a \in answers
        BY <1>0, <1>a, <4>1
      <4>2. CASE a = new
        BY <3>4, <4>2 DEF Reaches
      <4> QED
        BY <3>3, <4>1, <4>2
    <3> QED
      BY <3>5
  <2>2. CASE answers' \subseteq answers
    BY <1>0, <1>a, <2>2
  <2>3. (\E r \in requests : HandleReplicateData(r)) \/ answers' \subseteq answers
    BY DEF Next, Call, Delivery, ReplicateRecord, AppendLocal, SendAll, ReturnLocalOnly, Recalculate,
           AdvanceWatermark, ReceiveAck, SendFails, IgnoreAnswer, ReceiveHeartbeat,
           HandleHeartbeat, HeartbeatExpires, add_follower, remove_follower, vars, network
  <2> QED
    BY <2>1, <2>2, <2>3
<1>3. \A b \in beats' : Reaches(b.from, b.offset)'
  <2>1. ASSUME NEW f \in Followers, HandleHeartbeat(f) PROVE \A b \in beats' : Reaches(b.from, b.offset)'
    <3>1. Reaches(f, next_offset(f))
      BY <1>0, NextIsReached
    <3> DEFINE new == [from |-> f, offset |-> next_offset(f)]
    <3>2. beats' = beats \cup {new} /\ new.from = f /\ new.offset = next_offset(f)
      BY <2>1 DEF HandleHeartbeat
    <3> HIDE DEF new
    <3>3. Reaches(new.from, new.offset)
      BY <3>1, <3>2
    <3> QED
      BY <1>0, <1>a, <3>2, <3>3
  <2>2. CASE beats' \subseteq beats
    BY <1>0, <1>a, <2>2
  <2>3. (\E f \in Followers : HandleHeartbeat(f)) \/ beats' \subseteq beats
    BY DEF Next, Call, Delivery, ReplicateRecord, AppendLocal, SendAll, ReturnLocalOnly, Recalculate,
           AdvanceWatermark, ReceiveAck, SendFails, HandleReplicateData, IgnoreAnswer, ReceiveHeartbeat,
           HeartbeatExpires, add_follower, remove_follower, vars, network
  <2> QED
    BY <2>1, <2>2, <2>3
<1>4. \A f \in Followers : follower_states'[f] # Unknown => Reaches(f, follower_states[f].offset)'
  <2> DEFINE Kept(f) == follower_states'[f] # Unknown => Reaches(f, follower_states[f].offset)'
  <2>0. ASSUME NEW f \in Followers, follower_states'[f] = follower_states[f] PROVE Kept(f)
    <3>1. Reaches(f, follower_states[f].offset) => (\E o \in log'[f] : follower_states[f].offset <= o + 1)
                                                    \/ follower_states[f].offset = 0
      BY <1>0 DEF Reaches
    <3> QED
      BY <2>0, <3>1 DEF Reaches
  <2>a. ASSUME NEW g \in Followers, NEW x, Reaches(g, x),
               follower_states' = [follower_states EXCEPT ![g] = [offset |-> x, fresh |-> TRUE]]
        PROVE  \A f \in Followers : Kept(f)
    <3> SUFFICES ASSUME NEW f \in Followers PROVE Kept(f)
      OBVIOUS
    <3>1. CASE f = g
      <4>1. follower_states'[f].offset = x
        BY <2>a, <3>1 DEF TypeOK
      <4>2. (\E o \in log'[f] : x <= o + 1) \/ x = 0
        BY <1>0, <2>a, <3>1 DEF Reaches
      <4> QED
        BY <4>1, <4>2 DEF Reaches
    <3>2. CASE f # g
      <4>1. follower_states'[f] = follower_states[f]
        BY <2>a, <3>2 DEF TypeOK
      <4> QED
        BY <2>0, <4>1
    <3> QED
      BY <3>1, <3>2
  <2> HIDE DEF Kept
  <2>1. ASSUME NEW t \in Tasks, NEW a \in answers, ReceiveAck(t, a) PROVE \A f \in Followers : Kept(f)
    <3>1. a.from \in Followers /\ Reaches(a.from, a.offset)
      BY <1>a
    <3>2. follower_states' = [follower_states EXCEPT ![a.from] = [offset |-> a.offset, fresh |-> TRUE]]
      BY <2>1 DEF ReceiveAck
    <3> QED
      BY <2>a, <3>1, <3>2
  <2>2. ASSUME NEW b \in beats, ReceiveHeartbeat(b) PROVE \A f \in Followers : Kept(f)
    <3>1. b.from \in Followers /\ Reaches(b.from, b.offset)
      BY <1>a
    <3>2. follower_states' = [follower_states EXCEPT ![b.from] = [offset |-> b.offset, fresh |-> TRUE]]
      BY <2>2 DEF ReceiveHeartbeat
    <3> QED
      BY <2>a, <3>1, <3>2
  <2>3. ASSUME NEW g \in Followers, add_follower(g) PROVE \A f \in Followers : Kept(f)
    <3>1. Reaches(g, 0)
      BY DEF Reaches
    <3>2. follower_states' = [follower_states EXCEPT ![g] = [offset |-> 0, fresh |-> TRUE]]
      BY <2>3 DEF add_follower
    <3> QED
      BY <2>a, <3>1, <3>2
  <2>4. ASSUME NEW g \in Followers, HeartbeatExpires(g) PROVE \A f \in Followers : Kept(f)
    <3> SUFFICES ASSUME NEW f \in Followers PROVE Kept(f)
      OBVIOUS
    <3>1. CASE f = g
      <4>1. follower_states[g] \in Reported /\ follower_states[g] # Unknown
        BY <2>4 DEF HeartbeatExpires, TypeOK
      <4>2. follower_states'[f] = [follower_states[g] EXCEPT !.fresh = FALSE] /\ log' = log
        BY <2>4, <3>1 DEF HeartbeatExpires, TypeOK
      <4>3. follower_states'[f].offset = follower_states[f].offset
        BY <3>1, <4>1, <4>2 DEF Reported
      <4> QED
        BY <3>1, <4>1, <4>2, <4>3 DEF Kept, Reaches
    <3>2. CASE f # g
      <4>1. follower_states'[f] = follower_states[f]
        BY <2>4, <3>2 DEF HeartbeatExpires, TypeOK
      <4> QED
        BY <2>0, <4>1
    <3> QED
      BY <3>1, <3>2
  <2>5. ASSUME NEW g \in Followers, remove_follower(g) PROVE \A f \in Followers : Kept(f)
    <3> SUFFICES ASSUME NEW f \in Followers PROVE Kept(f)
      OBVIOUS
    <3>1. CASE f = g
      <4>1. follower_states'[f] = Unknown
        BY <2>5, <3>1 DEF remove_follower, TypeOK
      <4> QED
        BY <4>1 DEF Kept
    <3>2. CASE f # g
      <4>1. follower_states'[f] = follower_states[f]
        BY <2>5, <3>2 DEF remove_follower, TypeOK
      <4> QED
        BY <2>0, <4>1
    <3> QED
      BY <3>1, <3>2
  <2>6. ASSUME follower_states' = follower_states PROVE \A f \in Followers : Kept(f)
    <3>1. \A f \in Followers : follower_states'[f] = follower_states[f]
      BY <2>6
    <3> QED
      BY <2>0, <3>1
  <2>7. \/ \E t \in Tasks, a \in answers : ReceiveAck(t, a)
        \/ \E b \in beats : ReceiveHeartbeat(b)
        \/ \E g \in Followers : add_follower(g) \/ HeartbeatExpires(g) \/ remove_follower(g)
        \/ follower_states' = follower_states
    BY DEF Next, Call, Delivery, ReplicateRecord, AppendLocal, SendAll, ReturnLocalOnly, Recalculate,
           AdvanceWatermark, SendFails, HandleReplicateData, IgnoreAnswer, HandleHeartbeat, vars
  <2>8. \A f \in Followers : Kept(f)
    BY <2>1, <2>2, <2>3, <2>4, <2>5, <2>6, <2>7
  <2> QED
    BY <2>8 DEF Kept
<1> QED
  BY <1>1, <1>2, <1>3, <1>4

\* The sequence SetToSeq makes of a set names each member once.
LEMMA SetToSeqInjective ==
    ASSUME NEW S, IsFiniteSet(S)
    PROVE  IsInjective(SetToSeq(S))
<1>1. Cardinality(S) \in Nat /\ ExistsBijection(1 .. Cardinality(S), S)
  BY FS_CardinalityType
<1>2. PICK f \in Bijection(1 .. Cardinality(S), S) : TRUE
  BY <1>1 DEF ExistsBijection
<1>3. f \in [1 .. Cardinality(S) -> S] /\ IsInjective(f)
  BY <1>2 DEF Bijection, Injection, IsInjective
<1> QED
  BY <1>1, <1>3 DEF SetToSeq

\* The offset recalculate_high_watermark picks has been reached by as many replicas as it
\* asks for: each position at or above it stands for a replica of its own.
LEMMA PickedIsReached ==
    ASSUME ReplicationConstants, TypeOK, ReportsReached, Len(InSyncOffsets) >= MinIsr
    PROVE  QuorumReaches(find_kth_smallest(InSyncOffsets, KFromBottom))
<1> DEFINE s == InSyncOffsets
           n == Len(s)
           k == KFromBottom
           x == find_kth_smallest(s, k)
           low == {i \in 1 .. n : s[i] < x}
           high == {i \in 1 .. n : s[i] >= x}
           S == {f \in Followers : is_follower_in_sync(f)}
           insync == SetToSeq(S)
           rest == [i \in 1 .. Len(insync) |-> follower_states[insync[i]].offset]
           replica == [i \in high |-> IF i = 1 THEN Leader ELSE insync[i - 1]]
<1>1. MaxOffset \in Nat /\ MinIsr \in Nat \ {0} /\ Leader \notin Followers /\ IsFiniteSet(Followers)
      /\ U64Max \in Nat
  BY DEF ReplicationConstants
<1>2. s \in Seq(OffsetValues) /\ k \in 1 .. n /\ IsKthSmallest(s, k, x) /\ x \in 0 .. MaxOffset
  <2>1. MaxOffset \in 0 .. MaxOffset /\ log_end_offset <= MaxOffset
    BY <1>1 DEF TypeOK
  <2>2. \A f \in Followers : follower_states[f] # Unknown => follower_states[f].offset <= MaxOffset
    BY <1>1 DEF TypeOK, Reported
  <2> QED
    BY <2>1, <2>2, WatermarkFound
<1>3. k = n + 1 - MinIsr /\ Cardinality(low) < k
  BY <1>2 DEF KFromBottom, IsKthSmallest
<1>4. S \subseteq Followers /\ IsFiniteSet(S)
  BY <1>1, FS_Subset
<1>5. s = <<log_end_offset>> \o rest
  BY DEF InSyncOffsets
<1>6. \A f \in S : follower_states[f] # Unknown
  BY DEF is_follower_in_sync
<1> HIDE DEF S
<1>7. Cardinality(S) \in Nat /\ insync \in [1 .. Cardinality(S) -> S] /\ Len(insync) = Cardinality(S)
      /\ IsInjective(insync)
  <2>1. Cardinality(S) \in Nat /\ insync \in [1 .. Cardinality(S) -> S] /\ Len(insync) = Cardinality(S)
    BY <1>4, SetToSeqFields
  <2> QED
    BY <1>4, <2>1, SetToSeqInjective
<1> HIDE DEF insync, s, n, k, x
<1>8. n = Cardinality(S) + 1 /\ s[1] = log_end_offset
      /\ \A i \in 2 .. n : s[i] = follower_states[insync[i - 1]].offset
  <2>1. rest \in Seq({follower_states[f].offset : f \in S}) /\ Len(rest) = Cardinality(S)
    BY <1>7
  <2>2. \A i \in 1 .. Cardinality(S) : rest[i] = follower_states[insync[i]].offset
    BY <1>7
  <2> HIDE DEF rest
  <2>3. n = Cardinality(S) + 1 /\ s[1] = log_end_offset /\ \A i \in 2 .. n : s[i] = rest[i - 1]
    BY <1>7, <1>5, <2>1 DEF n
  <2>4. ASSUME NEW i \in 2 .. n PROVE rest[i - 1] = follower_states[insync[i - 1]].offset
    BY <1>7, <2>2, <2>3
  <2> QED
    BY <2>3, <2>4
<1>9. n \in Nat /\ x \in Nat /\ \A i \in 1 .. n : s[i] \in Nat
  BY <1>1, <1>2, <1>7, <1>8 DEF OffsetValues, n
<1>10. MinIsr <= Cardinality(high)
  <2>1. low \cup high = 1 .. n /\ low \cap high = {}
    BY <1>9
  <2>2. IsFiniteSet(1 .. n) /\ Cardinality(1 .. n) = n
    BY <1>9, FS_Interval
  <2>3. IsFiniteSet(low) /\ IsFiniteSet(high)
    BY <2>1, <2>2, FS_Subset
  <2> HIDE DEF low, high
  <2>4. Cardinality(low \cup high) = Cardinality(low) + Cardinality(high) - Cardinality(low \cap high)
    BY <2>3, FS_Union
  <2>5. Cardinality({}) = 0
    BY FS_EmptySet
  <2>6. Cardinality(low) \in Nat /\ Cardinality(high) \in Nat
    BY <2>3, FS_CardinalityType
  <2>7. Cardinality(low \cup high) = n /\ Cardinality(low \cap high) = 0
    BY <2>1, <2>2, <2>5
  <2>8. n = Cardinality(low) + Cardinality(high) - 0
    BY <2>4, <2>7
  <2> QED
    BY <1>1, <1>3, <1>9, <2>6, <2>8
<1>11. \A i \in high : i \in 1 .. n /\ s[i] >= x /\ replica[i] = IF i = 1 THEN Leader ELSE insync[i - 1]
  OBVIOUS
<1>12. \A i \in high : i # 1 => i - 1 \in 1 .. Cardinality(S) /\ insync[i - 1] \in S /\ i \in 2 .. n
  BY <1>7, <1>8, <1>9, <1>11
<1>a. DOMAIN replica = high /\ replica = [i \in high |-> replica[i]]
  OBVIOUS
<1> HIDE DEF replica, high
<1>13. \A i \in high : replica[i] \in Reaching(x)
  <2> SUFFICES ASSUME NEW i \in high PROVE replica[i] \in Reaching(x)
    OBVIOUS
  <2>1. replica[i] \in Replicas /\ Reaches(replica[i], s[i])
    <3>1. CASE i = 1
      BY <1>8, <1>11, <3>1 DEF ReportsReached, Replicas
    <3>2. CASE i # 1
      <4>1. insync[i - 1] \in S /\ insync[i - 1] \in Followers /\ s[i] = follower_states[insync[i - 1]].offset
        BY <1>4, <1>8, <1>12, <3>2
      <4> QED
        BY <1>6, <1>11, <3>2, <4>1 DEF ReportsReached, Replicas
    <3> QED
      BY <3>1, <3>2
  <2>2. x <= s[i] /\ x \in Nat /\ s[i] \in Nat
    BY <1>9, <1>11
  <2>3. Reaches(replica[i], x)
    <3>1. CASE s[i] = 0
      BY <2>2, <3>1 DEF Reaches
    <3>2. CASE s[i] # 0
      <4>1. PICK o \in log[replica[i]] : s[i] <= o + 1
        BY <2>1, <3>2 DEF Reaches
      <4>2. o \in Nat
        BY <1>1, <2>1, <4>1 DEF TypeOK, Offsets
      <4>3. x <= o + 1
        BY <2>2, <4>1, <4>2
      <4> QED
        BY <4>3 DEF Reaches
    <3> QED
      BY <3>1, <3>2
  <2> QED
    BY <2>1, <2>3 DEF Reaching
<1>14. \A i, j \in high : replica[i] = replica[j] => i = j
  <2> SUFFICES ASSUME NEW i \in high, NEW j \in high, replica[i] = replica[j] PROVE i = j
    OBVIOUS
  <2>1. CASE i = 1 \/ j = 1
    BY <1>1, <1>4, <1>11, <1>12, <2>1
  <2>2. CASE i # 1 /\ j # 1
    <3>1. insync[i - 1] = insync[j - 1] /\ i - 1 \in DOMAIN insync /\ j - 1 \in DOMAIN insync
      BY <1>7, <1>11, <1>12, <2>2
    <3>2. i - 1 = j - 1
      BY <1>7, <3>1 DEF IsInjective
    <3>3. i \in Int /\ j \in Int
      BY <1>11
    <3> QED
      BY <3>2, <3>3
  <2> QED
    BY <2>1, <2>2
<1>15. replica \in Injection(high, Reaching(x))
  <2>1. replica \in [high -> Reaching(x)]
    BY <1>a, <1>13
  <2> QED
    BY <1>14, <2>1 DEF Injection, IsInjective
<1>16. IsFiniteSet(Reaching(x))
  <2>1. IsFiniteSet(Replicas) /\ Reaching(x) \subseteq Replicas
    BY <1>1, FS_AddElement DEF Replicas, Reaching
  <2> QED
    BY <2>1, FS_Subset
<1>17. Cardinality(high) <= Cardinality(Reaching(x)) /\ IsFiniteSet(high)
  BY <1>15, <1>16, FS_Injection
<1>18. Cardinality(high) \in Nat /\ Cardinality(Reaching(x)) \in Nat
  BY <1>16, <1>17, FS_CardinalityType
<1>19. MinIsr <= Cardinality(Reaching(x))
  BY <1>1, <1>10, <1>17, <1>18
<1> QED
  BY <1>19 DEF QuorumReaches, x, s, k

\* Computing and storing the watermark, in two steps and for several calls at once, keeps
\* it within what a quorum has reached.
LEMMA WatermarksReachedStep ==
    ASSUME ReplicationConstants, Followers = {} => MinIsr = 1, TypeOK, DurableInv, ReportsReached,
           WatermarksReached, [Next]_vars
    PROVE  WatermarksReached'
<1> DEFINE Told(t) == task'[t].pc = "advance" => QuorumReaches(task[t].new)'
<1>0. \A x : QuorumReaches(x) => QuorumReaches(x)'
  BY ReachedGrows
<1>1. \A t \in Tasks : Told(t)
  <2> SUFFICES ASSUME NEW t \in Tasks, task'[t].pc = "advance" PROVE QuorumReaches(task[t].new)'
    OBVIOUS
  <2>1. CASE task'[t] = task[t]
    <3>1. QuorumReaches(task[t].new)
      BY <2>1 DEF WatermarksReached
    <3> DEFINE v == task[t].new
    <3>2. QuorumReaches(v)'
      BY <1>0, <2>1, <3>1 DEF QuorumReaches, Reaching, Reaches
    <3> QED
      BY <3>2
  <2>2. CASE task'[t] # task[t]
    <3>1. Recalculate(t)
      <4>1. ASSUME NEW u \in Tasks, \/ ReplicateRecord(u) \/ AppendLocal(u) \/ SendAll(u) \/ ReturnLocalOnly(u)
                                    \/ Recalculate(u) \/ AdvanceWatermark(u)
                                    \/ \E a \in answers : ReceiveAck(u, a)
                                    \/ \E f \in Followers : SendFails(u, f)
            PROVE  u = t
        <5>1. \A w \in Tasks : w # u => task'[w] = task[w]
          BY <4>1 DEF TypeOK, ReplicateRecord, AppendLocal, SendAll, ReturnLocalOnly, Recalculate,
                      AdvanceWatermark, ReceiveAck, SendFails
        <5> QED
          BY <2>2, <5>1
      <4>2. ~ReplicateRecord(t) /\ ~ReturnLocalOnly(t) /\ ~AdvanceWatermark(t)
        BY DEF TypeOK, ReplicateRecord, ReturnLocalOnly, AdvanceWatermark, IdleTask
      <4>3. ~SendAll(t)
        BY DEF TypeOK, SendAll, IdleTask
      <4>4. ~AppendLocal(t)
        <5> SUFFICES ASSUME AppendLocal(t) PROVE FALSE
          OBVIOUS
        <5>1. task[t] \in Sending
          BY TaskShapes DEF AppendLocal
        <5>2. task'[t] = [task[t] EXCEPT !.pc = "store"]
          BY DEF AppendLocal, TypeOK
        <5> QED
          BY <5>1, <5>2 DEF Sending
      <4>5. \A a \in answers : ~ReceiveAck(t, a)
        <5> SUFFICES ASSUME NEW a \in answers, ReceiveAck(t, a) PROVE FALSE
          OBVIOUS
        <5>1. \A b, c : (IF b THEN "recalculate" ELSE IF c THEN "short" ELSE "wait") # "advance"
          OBVIOUS
        <5> QED
          BY <5>1 DEF ReceiveAck, TypeOK
      <4>6. \A f \in Followers : ~SendFails(t, f)
        <5> SUFFICES ASSUME NEW f \in Followers, SendFails(t, f) PROVE FALSE
          OBVIOUS
        <5>1. \A b, c : (IF b THEN "wait" ELSE IF c THEN "recalculate" ELSE "short") # "advance"
          OBVIOUS
        <5>2. task[t] \in Waiting
          BY TaskShapes DEF SendFails, Collecting
        <5> DEFINE c == IF task[t].pending \ {f} # {} THEN "wait"
                        ELSE IF Cardinality(task[t].acked) >= RequiredAcks THEN "recalculate"
                        ELSE "short"
        <5>3. task'[t] = [task[t] EXCEPT !.pending = task[t].pending \ {f}, !.pc = c]
          BY DEF SendFails, TypeOK
        <5>4. c # "advance"
          BY <5>1
        <5> HIDE DEF c
        <5> QED
          BY <5>2, <5>3, <5>4 DEF Waiting
      <4>7. \/ \E u \in Tasks : \/ ReplicateRecord(u) \/ AppendLocal(u) \/ SendAll(u) \/ ReturnLocalOnly(u)
                                \/ Recalculate(u) \/ AdvanceWatermark(u)
                                \/ (\E a \in answers : ReceiveAck(u, a))
                                \/ \E f \in Followers : SendFails(u, f)
            \/ task' = task
        BY DEF Next, Call, Delivery, HandleReplicateData, IgnoreAnswer, ReceiveHeartbeat, HandleHeartbeat,
               HeartbeatExpires, add_follower, remove_follower, vars
      <4> QED
        BY <2>2, <4>1, <4>2, <4>3, <4>4, <4>5, <4>6, <4>7
    <3> DEFINE new == find_kth_smallest(InSyncOffsets, KFromBottom)
    <3>2. Len(InSyncOffsets) >= MinIsr /\ task'[t].new = new /\ log' = log
      BY <3>1 DEF Recalculate, TypeOK, IdleTask
    <3>3. QuorumReaches(new)
      BY <3>2, PickedIsReached
    <3> HIDE DEF new
    <3>4. new = 0 \/ MinIsr <= Cardinality({n \in Replicas : new = 0 \/ \E o \in log'[n] : new <= o + 1})
      BY <3>2, <3>3 DEF QuorumReaches, Reaching, Reaches
    <3> QED
      BY <3>2, <3>4 DEF QuorumReaches, Reaching, Reaches
  <2> QED
    BY <2>1, <2>2
<1>2. QuorumReaches(high_watermark)'
  <2>1. ASSUME NEW t \in Tasks, SendAll(t), Followers = {} PROVE QuorumReaches(high_watermark)'
    <3>1. task[t].off \in log[Leader] /\ high_watermark' = task[t].off /\ log' = log
      BY <2>1 DEF SendAll, DurableInv, CallsHold
    <3>2. task[t].off \in Nat /\ Leader \in Replicas /\ IsFiniteSet(Replicas)
      BY <3>1, FS_AddElement DEF TypeOK, Offsets, ReplicationConstants, Replicas
    <3> DEFINE R == {n \in Replicas : high_watermark' = 0 \/ \E o \in log'[n] : high_watermark' <= o + 1}
    <3>3. Leader \in R /\ R \subseteq Replicas
      BY <3>1, <3>2
    <3> HIDE DEF R
    <3>4. IsFiniteSet(R) /\ Cardinality(R) \in Nat /\ Cardinality(R) # 0
      BY <3>2, <3>3, FS_Subset, FS_CardinalityType, FS_EmptySet
    <3>5. MinIsr <= Cardinality(R)
      BY <2>1, <3>4
    <3> QED
      BY <3>5 DEF R, QuorumReaches, Reaching, Reaches
  <2>2. ASSUME NEW t \in Tasks, AdvanceWatermark(t) PROVE QuorumReaches(high_watermark)'
    <3>1. QuorumReaches(task[t].new) /\ high_watermark' = task[t].new /\ log' = log
      BY <2>2 DEF AdvanceWatermark, WatermarksReached
    <3> QED
      BY <3>1 DEF QuorumReaches, Reaching, Reaches
  <2>3. CASE high_watermark' = high_watermark
    <3>1. \A x : QuorumReaches(x) =>
             x = 0 \/ MinIsr <= Cardinality({n \in Replicas : x = 0 \/ \E o \in log'[n] : x <= o + 1})
      BY <1>0 DEF QuorumReaches, Reaching, Reaches
    <3>2. QuorumReaches(high_watermark)
      BY DEF WatermarksReached
    <3> QED
      BY <2>3, <3>1, <3>2 DEF QuorumReaches, Reaching, Reaches
  <2>4. \/ \E t \in Tasks : (SendAll(t) /\ Followers = {}) \/ AdvanceWatermark(t)
        \/ high_watermark' = high_watermark
    BY DEF Next, Call, Delivery, ReplicateRecord, AppendLocal, SendAll, ReturnLocalOnly, Recalculate,
           ReceiveAck, SendFails, HandleReplicateData, IgnoreAnswer, ReceiveHeartbeat,
           HandleHeartbeat, HeartbeatExpires, add_follower, remove_follower, vars
  <2> QED
    BY <2>1, <2>2, <2>3, <2>4
<1> QED
  BY <1>1, <1>2 DEF WatermarksReached

-------------------------------------------------------------------------------
(* The theorems.                                                           *)

\* The inductive invariant holds in every reachable state.
LEMMA ReplicationInvHolds ==
    ASSUME ReplicationConstants, Followers = {} => MinIsr = 1
    PROVE  Spec => []ReplicationInv
<1>1. Init => ReplicationInv
  <2> SUFFICES ASSUME Init PROVE ReplicationInv
    OBVIOUS
  <2>1. MaxOffset \in Nat
    BY DEF ReplicationConstants
  <2>2. \A t \in Tasks : task[t].pc = "idle"
    BY DEF Init, IdleTask
  <2>3. TypeOK
    <3>1. log \in [Replicas -> SUBSET Offsets] /\ follower_states \in [Followers -> Reported \cup {Unknown}]
      BY DEF Init
    <3>2. task \in [Tasks -> {IdleTask} \cup Sending \cup Waiting \cup Advancing]
      BY DEF Init
    <3> QED
      BY <2>1, <3>1, <3>2 DEF Init, TypeOK
  <2>4. DurableInv
    BY <2>2 DEF Init, DurableInv, CallsHold, AnswersHold, DurableOnQuorum, Collecting
  <2>5. ReportsReached /\ WatermarksReached
    BY <2>2 DEF Init, ReportsReached, WatermarksReached, Reaches, QuorumReaches
  <2> QED
    BY <2>3, <2>4, <2>5 DEF ReplicationInv
<1>2. ReplicationInv /\ [Next]_vars => ReplicationInv'
  BY TypeStep, DurableStep, ReportsReachedStep, WatermarksReachedStep DEF ReplicationInv
<1> QED
  BY <1>1, <1>2, PTL DEF Spec

\* A record answered Durable is on min_in_sync_replicas replicas, for any number of
\* followers, concurrent calls, lost sends and late answers (wait_for_acknowledgments).
\* The hypothesis is needed: without followers replicate_record answers Durable whatever
\* min_in_sync_replicas asks for.
THEOREM DurableRecordsOnQuorum ==
    ASSUME ReplicationConstants, Followers = {} => MinIsr = 1
    PROVE  Spec => []DurableOnQuorum
<1>1. ReplicationInv => DurableOnQuorum
  BY DEF ReplicationInv, DurableInv
<1> QED
  BY <1>1, ReplicationInvHolds, PTL

\* At least min_in_sync_replicas replicas have reached the watermark, for any number of
\* followers, concurrent calls, failed sends and stale follower states
\* (recalculate_high_watermark).  The hypothesis is the one of DurableRecordsOnQuorum.
THEOREM WatermarkIsReached ==
    ASSUME ReplicationConstants, Followers = {} => MinIsr = 1
    PROVE  Spec => []WatermarkReached
<1>1. ReplicationInv => WatermarkReached
  <2> SUFFICES ASSUME ReplicationInv, high_watermark > 0
               PROVE  MinIsr <= Cardinality({n \in Replicas : high_watermark <= next_offset(n)})
    BY DEF WatermarkReached
  <2> DEFINE R == {n \in Replicas : high_watermark <= next_offset(n)}
  <2>1. high_watermark \in Nat /\ TypeOK /\ QuorumReaches(high_watermark)
    BY DEF ReplicationInv, TypeOK, WatermarksReached
  <2>2. \A n \in Replicas : Reaches(n, high_watermark) => high_watermark <= next_offset(n)
    BY <2>1, NextIsReached
  <2>3. Reaching(high_watermark) \subseteq R /\ R \subseteq Replicas
    BY <2>2 DEF Reaching
  <2>4. IsFiniteSet(Replicas) /\ MinIsr \in Nat
    BY FS_AddElement DEF ReplicationConstants, Replicas
  <2> HIDE DEF R
  <2>5. IsFiniteSet(R) /\ IsFiniteSet(Reaching(high_watermark))
        /\ Cardinality(Reaching(high_watermark)) <= Cardinality(R)
    BY <2>3, <2>4, FS_Subset
  <2>6. Cardinality(R) \in Nat /\ Cardinality(Reaching(high_watermark)) \in Nat
    BY <2>5, FS_CardinalityType
  <2>7. MinIsr <= Cardinality(R)
    BY <2>1, <2>4, <2>5, <2>6 DEF QuorumReaches
  <2> QED
    BY <2>7 DEF R
<1> QED
  BY <1>1, ReplicationInvHolds, PTL


===============================================================================
