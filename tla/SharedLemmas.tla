----------------------------- MODULE SharedLemmas -----------------------------
(***************************************************************************)
(* Facts the proofs share: remainders, maxima and minima of sets of        *)
(* naturals, induction along a sequence, what FoldLeft computes, folds     *)
(* over finite sets and sums, and what the compaction planner plans.       *)
(***************************************************************************)
EXTENDS Naturals, FiniteSets, FiniteSetsExt, SequencesExt, Compactor, FiniteSetTheorems, TLAPS

-------------------------------------------------------------------------------
(* Remainders.                                                             *)

\* What is below the modulus is its own remainder.
LEMMA SmallRemainder ==
    ASSUME NEW x \in Nat, NEW k \in Nat, x < k
    PROVE  x % k = x
BY Z3

\* Division with remainder.
LEMMA Quotient ==
    ASSUME NEW x \in Nat, NEW k \in Nat \ {0}
    PROVE  /\ x % k \in 0 .. k - 1 /\ x \div k \in Nat
           /\ x = k * (x \div k) + (x % k)
BY Z3

\* The remainder is unique.
LEMMA RemainderUnique ==
    ASSUME NEW q \in Nat, NEW k \in Nat, NEW j \in Nat, j < k
    PROVE  k * q + j \in Nat /\ (k * q + j) % k = j
BY Z3

-------------------------------------------------------------------------------
(* Maxima, minima and prefixes.                                            *)

\* A set of naturals that is not empty has a minimum, which Min chooses.
LEMMA MinOfNaturals ==
    ASSUME NEW S, S \subseteq Nat, S # {}
    PROVE  Min(S) \in S /\ \A x \in S : Min(S) <= x
<1>1. PICK n \in S : \A y \in S : ~ (<<y, n>> \in OpToRel(<, Nat))
  BY WFMin, NatLessThanWellFounded
<1>a. \A y \in S : ~ (y < n)
  BY <1>1 DEF OpToRel
<1>2. \A y \in S : n <= y
  BY <1>a
<1>3. Min(S) = CHOOSE x \in S : \A y \in S : x <= y
  BY DEF Min
<1> QED
  BY <1>2, <1>3

\* A set of naturals with an upper bound has a maximum, which Max chooses.
LEMMA MaxOfBounded ==
    ASSUME NEW S, S \subseteq Nat, S # {}, NEW top \in Nat, \A x \in S : x <= top
    PROVE  Max(S) \in S /\ \A x \in S : x <= Max(S)
<1> DEFINE Bounds == {n \in Nat : \A x \in S : x <= n}
<1>1. Bounds # {} /\ Bounds \subseteq Nat
  OBVIOUS
<1>2. Min(Bounds) \in Bounds /\ \A y \in Bounds : Min(Bounds) <= y
  <2> HIDE DEF Bounds
  <2> QED
    BY <1>1, MinOfNaturals
<1>3. PICK n \in Bounds : \A y \in Bounds : n <= y
  BY <1>2
<1>4. n \in Nat /\ \A x \in S : x <= n
  OBVIOUS
<1>5. n \in S
  <2> SUFFICES ASSUME n \notin S PROVE FALSE
    OBVIOUS
  <2>1. PICK x \in S : TRUE
    OBVIOUS
  <2>2. n # 0
    BY <1>4, <2>1
  <2>3. n - 1 \in Nat /\ \A y \in S : y <= n - 1
    BY <1>4, <2>2
  <2> QED
    BY <1>3, <1>4, <2>3
<1>6. Max(S) = CHOOSE x \in S : \A y \in S : x >= y
  BY DEF Max
<1> QED
  BY <1>4, <1>5, <1>6

\* What holds of the first value and is handed on from each value to the next holds of all:
\* induction over the prefixes of a sequence, h and P being functions of the length.
LEMMA PrefixInduction ==
    ASSUME NEW n \in Nat, NEW h, NEW P,
           h[0] \in P[0], \A i \in 1 .. n : h[i - 1] \in P[i - 1] => h[i] \in P[i]
    PROVE  \A i \in 0 .. n : h[i] \in P[i]
<1> DEFINE Bad == {i \in 0 .. n : h[i] \notin P[i]}
<1> SUFFICES ASSUME Bad # {} PROVE FALSE
  OBVIOUS
<1>1. Bad \subseteq Nat
  OBVIOUS
<1>2. Min(Bad) \in Bad /\ \A x \in Bad : Min(Bad) <= x
  <2> HIDE DEF Bad
  <2> QED
    BY <1>1, MinOfNaturals
<1>3. PICK i \in Bad : \A x \in Bad : i <= x
  BY <1>2
<1>4. i # 0 /\ i - 1 \in 0 .. n /\ i \in 1 .. n
  OBVIOUS
<1>5. i - 1 \notin Bad
  BY <1>3
<1> QED
  BY <1>4, <1>5

-------------------------------------------------------------------------------
(* Folds.  FoldLeft is defined by a function on the sets of positions      *)
(* still to be folded, the highest first.                                  *)

\* The defining equation of such a function, for an operation that is itself a function.
Folds(g, n, s, base, F) ==
    g = [t \in SUBSET (1 .. n) |-> IF t = {} THEN base ELSE F[<<g[t \ {Max(t)}], s[Max(t)]>>]]

\* The highest of the first positions is the last of them.
LEMMA HighestPosition ==
    ASSUME NEW n \in Nat, NEW t \in SUBSET (1 .. n), t # {}
    PROVE  /\ Max(t) \in t /\ Max(t) \in 1 .. n
           /\ n \in t => Max(t) = n
<1>1. t \subseteq Nat /\ \A x \in t : x <= n
  OBVIOUS
<1>2. Max(t) \in t /\ \A x \in t : x <= Max(t)
  BY <1>1, MaxOfBounded
<1>3. Max(t) \in 1 .. n
  BY <1>2
<1> HIDE DEF Max
<1> QED
  BY <1>1, <1>2, <1>3

\* One step of extending the function to one position more.
LEMMA FoldExtends ==
    ASSUME NEW n \in Nat, NEW A, NEW V, NEW s, NEW base \in A, NEW F \in [A \X V -> A],
           \A i \in 1 .. n + 1 : s[i] \in V,
           NEW g \in [SUBSET (1 .. n) -> A], Folds(g, n, s, base, F)
    PROVE  \E h \in [SUBSET (1 .. n + 1) -> A] : Folds(h, n + 1, s, base, F)
<1> DEFINE h == [t \in SUBSET (1 .. n + 1) |-> IF n + 1 \in t THEN F[<<g[t \ {n + 1}], s[n + 1]>>] ELSE g[t]]
<1>1. ASSUME NEW t \in SUBSET (1 .. n + 1)
      PROVE  /\ h[t] \in A
             /\ h[t] = IF t = {} THEN base ELSE F[<<h[t \ {Max(t)}], s[Max(t)]>>]
  <2>1. CASE n + 1 \in t
    <3>1. Max(t) = n + 1
      BY <2>1, HighestPosition
    <3>2. t \ {n + 1} \in SUBSET (1 .. n) /\ t \ {n + 1} \in SUBSET (1 .. n + 1) /\ n + 1 \notin t \ {n + 1}
      OBVIOUS
    <3>3. h[t \ {n + 1}] = g[t \ {n + 1}] /\ g[t \ {n + 1}] \in A
      BY <3>2
    <3>4. s[n + 1] \in V
      BY <2>1
    <3> QED
      BY <2>1, <3>1, <3>3, <3>4
  <2>2. CASE n + 1 \notin t
    <3>1. t \in SUBSET (1 .. n)
      BY <2>2
    <3>2. h[t] = g[t] /\ g[t] \in A /\ g[t] = IF t = {} THEN base ELSE F[<<g[t \ {Max(t)}], s[Max(t)]>>]
      BY <2>2, <3>1 DEF Folds
    <3>3. t \ {Max(t)} \in SUBSET (1 .. n + 1) /\ n + 1 \notin t \ {Max(t)}
      BY <2>2
    <3>4. h[t \ {Max(t)}] = g[t \ {Max(t)}]
      BY <3>3
    <3> QED
      BY <3>2, <3>4
  <2> QED
    BY <2>1, <2>2
<1>2. h = [t \in SUBSET (1 .. n + 1) |-> h[t]]
  OBVIOUS
<1> HIDE DEF h
<1>3. Folds(h, n + 1, s, base, F)
  BY <1>1, <1>2 DEF Folds
<1>4. h \in [SUBSET (1 .. n + 1) -> A]
  BY <1>1, <1>2
<1> QED
  BY <1>3, <1>4

\* There is a function that satisfies the equation.
LEMMA FoldExists ==
    ASSUME NEW n \in Nat, NEW A, NEW V, NEW s, NEW base \in A, NEW F \in [A \X V -> A],
           \A i \in 1 .. n : s[i] \in V
    PROVE  \E g \in [SUBSET (1 .. n) -> A] : Folds(g, n, s, base, F)
<1> DEFINE None == {m \in 0 .. n : ~ \E g \in [SUBSET (1 .. m) -> A] : Folds(g, m, s, base, F)}
<1>0. n \in 0 .. n
  OBVIOUS
<1> SUFFICES ASSUME None # {} PROVE FALSE
  BY <1>0
<1>1. Min(None) \in None /\ \A x \in None : Min(None) <= x
  <2>1. None \subseteq Nat
    OBVIOUS
  <2> HIDE DEF None
  <2> QED
    BY <2>1, MinOfNaturals
<1>2. PICK m \in None : \A x \in None : m <= x
  BY <1>1
<1>3. m # 0
  <2> SUFFICES \E g \in [SUBSET (1 .. 0) -> A] : Folds(g, 0, s, base, F)
    OBVIOUS
  <2> DEFINE g == [t \in SUBSET (1 .. 0) |-> base]
  <2>1. \A t \in SUBSET (1 .. 0) : t = {}
    OBVIOUS
  <2>2. g = [t \in SUBSET (1 .. 0) |-> IF t = {} THEN base ELSE F[<<g[t \ {Max(t)}], s[Max(t)]>>]]
    BY <2>1
  <2>3. g \in [SUBSET (1 .. 0) -> A]
    OBVIOUS
  <2> QED
    BY <2>2, <2>3 DEF Folds
<1>a. m \in 0 .. n
  OBVIOUS
<1>4. m - 1 \in Nat /\ m - 1 \in 0 .. n /\ m - 1 \notin None
  <2> HIDE DEF None
  <2> QED
    BY <1>2, <1>3, <1>a
<1>5. PICK g \in [SUBSET (1 .. m - 1) -> A] : Folds(g, m - 1, s, base, F)
  BY <1>4
<1>6. (m - 1) + 1 = m /\ \A i \in 1 .. (m - 1) + 1 : s[i] \in V
  BY <1>4
<1>7. \E h \in [SUBSET (1 .. (m - 1) + 1) -> A] : Folds(h, (m - 1) + 1, s, base, F)
  BY <1>4, <1>5, <1>6, FoldExtends
<1> QED
  BY <1>6, <1>7

\* A function that satisfies the equation folds the positions in their order.
LEMMA FoldPrefixes ==
    ASSUME NEW n \in Nat, NEW i \in 1 .. n
    PROVE  /\ 1 .. i \in SUBSET (1 .. n) /\ 1 .. i # {}
           /\ Max(1 .. i) = i /\ (1 .. i) \ {Max(1 .. i)} = 1 .. i - 1
<1>1. 1 .. i \in SUBSET (1 .. i) /\ 1 .. i # {} /\ i \in 1 .. i
  OBVIOUS
<1>2. Max(1 .. i) = i
  <2>1. i \in Nat
    OBVIOUS
  <2> QED
    BY <1>1, <2>1, HighestPosition
<1> QED
  BY <1>1, <1>2

\* SetToSeq lists a finite set.
LEMMA SetToSeqFields ==
    ASSUME NEW S, IsFiniteSet(S)
    PROVE  Cardinality(S) \in Nat /\ SetToSeq(S) \in [1 .. Cardinality(S) -> S]
<1>1. Cardinality(S) \in Nat /\ ExistsBijection(1 .. Cardinality(S), S)
  BY FS_CardinalityType
<1>2. PICK f \in Bijection(1 .. Cardinality(S), S) : TRUE
  BY <1>1 DEF ExistsBijection
<1>3. f \in [1 .. Cardinality(S) -> S] /\ IsInjective(f)
  BY <1>2 DEF Bijection, Injection, IsInjective
<1> QED
  BY <1>1, <1>3 DEF SetToSeq

-------------------------------------------------------------------------------
(* Folds over finite sets: FoldSet and MapThenSumSet take an arbitrary     *)
(* element first and fold what is left.                                    *)

AnyOf(s) == CHOOSE x \in s : TRUE

\* The defining equation, on the sets of a collection that is closed under taking that
\* element away.
SetFolds(g, Sets, base, F) ==
    g = [s \in Sets |-> IF s = {} THEN base ELSE F[<<AnyOf(s), g[s \ {AnyOf(s)}]>>]]

\* The subsets of S with at most n elements.
SmallSubsets(S, n) == {s \in SUBSET S : Cardinality(s) <= n}

\* A subset of a finite set without one of its elements has one element less.
LEMMA OneLess ==
    ASSUME NEW S, IsFiniteSet(S), NEW s \in SUBSET S, NEW x \in s
    PROVE  /\ IsFiniteSet(s) /\ Cardinality(s) \in Nat /\ s \ {x} \in SUBSET S
           /\ IsFiniteSet(s \ {x}) /\ Cardinality(s \ {x}) \in Nat
           /\ Cardinality(s) = Cardinality(s \ {x}) + 1
<1>1. IsFiniteSet(s)
  BY FS_Subset
<1>2. IsFiniteSet(s \ {x}) /\ Cardinality(s \ {x}) = Cardinality(s) - 1
  BY <1>1, FS_RemoveElement
<1>3. Cardinality(s) \in Nat /\ Cardinality(s \ {x}) \in Nat
  BY <1>1, <1>2, FS_CardinalityType
<1> QED
  BY <1>1, <1>2, <1>3

\* CHOOSE picks an element of a set that has one.
LEMMA AnyOfSet ==
    ASSUME NEW s, s # {}
    PROVE  AnyOf(s) \in s
BY DEF AnyOf

\* The folds over sets of n elements extend to those of n + 1, by induction on n.
LEMMA SetFoldExtends ==
    ASSUME NEW S, IsFiniteSet(S), NEW n \in Nat, NEW A, NEW base \in A, NEW F \in [S \X A -> A],
           NEW g \in [SmallSubsets(S, n) -> A], SetFolds(g, SmallSubsets(S, n), base, F)
    PROVE  \E h \in [SmallSubsets(S, n + 1) -> A] : SetFolds(h, SmallSubsets(S, n + 1), base, F)
<1> DEFINE h == [s \in SmallSubsets(S, n + 1) |->
                   IF s = {} THEN base ELSE F[<<AnyOf(s), g[s \ {AnyOf(s)}]>>]]
<1>1. ASSUME NEW s \in SmallSubsets(S, n + 1), s # {}
      PROVE  AnyOf(s) \in S /\ s \ {AnyOf(s)} \in SmallSubsets(S, n) /\ s \ {AnyOf(s)} \in SmallSubsets(S, n + 1)
  <2>1. s \in SUBSET S /\ Cardinality(s) <= n + 1
    BY DEF SmallSubsets
  <2>2. AnyOf(s) \in s
    BY <1>1, AnyOfSet
  <2>3. /\ s \ {AnyOf(s)} \in SUBSET S /\ Cardinality(s \ {AnyOf(s)}) \in Nat /\ Cardinality(s) \in Nat
        /\ Cardinality(s) = Cardinality(s \ {AnyOf(s)}) + 1
    <3> DEFINE x == AnyOf(s)
    <3> HIDE DEF x
    <3>1. x \in s
      BY <2>2 DEF x
    <3>2. /\ s \ {x} \in SUBSET S /\ Cardinality(s \ {x}) \in Nat /\ Cardinality(s) \in Nat
          /\ Cardinality(s) = Cardinality(s \ {x}) + 1
      BY <2>1, <3>1, OneLess
    <3> QED
      BY <3>2 DEF x
  <2>4. Cardinality(s \ {AnyOf(s)}) <= n /\ Cardinality(s \ {AnyOf(s)}) <= n + 1
    BY <2>1, <2>3
  <2> QED
    BY <2>1, <2>2, <2>3, <2>4 DEF SmallSubsets
<1>2. \A s \in SmallSubsets(S, n) : s \in SmallSubsets(S, n + 1)
  <2> SUFFICES ASSUME NEW s \in SUBSET S, Cardinality(s) <= n PROVE Cardinality(s) <= n + 1
    BY DEF SmallSubsets
  <2>1. Cardinality(s) \in Nat
    BY FS_Subset, FS_CardinalityType
  <2> QED
    BY <2>1
<1>3. ASSUME NEW s \in SmallSubsets(S, n) PROVE h[s] = g[s]
  <2>1. g[s] = IF s = {} THEN base ELSE F[<<AnyOf(s), g[s \ {AnyOf(s)}]>>]
    BY DEF SetFolds
  <2> QED
    BY <1>2, <2>1
<1>4. ASSUME NEW s \in SmallSubsets(S, n + 1)
      PROVE  /\ h[s] \in A
             /\ h[s] = IF s = {} THEN base ELSE F[<<AnyOf(s), h[s \ {AnyOf(s)}]>>]
  <2>1. CASE s = {}
    BY <2>1
  <2>2. CASE s # {}
    <3>1. AnyOf(s) \in S /\ s \ {AnyOf(s)} \in SmallSubsets(S, n)
      BY <1>1, <2>2
    <3>2. g[s \ {AnyOf(s)}] \in A /\ h[s \ {AnyOf(s)}] = g[s \ {AnyOf(s)}]
      BY <1>3, <3>1
    <3>3. h[s] = F[<<AnyOf(s), g[s \ {AnyOf(s)}]>>]
      BY <2>2
    <3> HIDE DEF h
    <3>4. F[<<AnyOf(s), g[s \ {AnyOf(s)}]>>] \in A
      BY <3>1, <3>2
    <3> QED
      BY <2>2, <3>2, <3>3, <3>4
  <2> QED
    BY <2>1, <2>2
<1>5. h = [s \in SmallSubsets(S, n + 1) |-> h[s]]
  OBVIOUS
<1> HIDE DEF h
<1>6. SetFolds(h, SmallSubsets(S, n + 1), base, F)
  BY <1>4, <1>5 DEF SetFolds
<1>7. h \in [SmallSubsets(S, n + 1) -> A]
  BY <1>4, <1>5
<1> QED
  BY <1>6, <1>7

\* There is a function that satisfies the equation on all subsets.
LEMMA SetFoldExists ==
    ASSUME NEW S, IsFiniteSet(S), NEW A, NEW base \in A, NEW F \in [S \X A -> A]
    PROVE  \E g \in [SUBSET S -> A] : SetFolds(g, SUBSET S, base, F)
<1> DEFINE n == Cardinality(S)
           None == {m \in Nat : ~ \E g \in [SmallSubsets(S, m) -> A] : SetFolds(g, SmallSubsets(S, m), base, F)}
<1>0. n \in Nat
  BY FS_CardinalityType
<1>1. None = {}
  <2> SUFFICES ASSUME None # {} PROVE FALSE
    OBVIOUS
  <2>1. None \subseteq Nat
    OBVIOUS
  <2>2. Min(None) \in None /\ \A x \in None : Min(None) <= x
    <3> HIDE DEF None
    <3> QED
      BY <2>1, MinOfNaturals
  <2>3. PICK m \in None : \A x \in None : m <= x
    BY <2>2
  <2>4. m # 0
    <3> SUFFICES \E g \in [SmallSubsets(S, 0) -> A] : SetFolds(g, SmallSubsets(S, 0), base, F)
      OBVIOUS
    <3>1. ASSUME NEW s \in SmallSubsets(S, 0) PROVE s = {}
      <4>1. IsFiniteSet(s) /\ Cardinality(s) <= 0
        BY FS_Subset DEF SmallSubsets
      <4>2. Cardinality(s) = 0
        BY <4>1, FS_CardinalityType
      <4> QED
        BY <4>1, <4>2, FS_EmptySet
    <3> DEFINE g == [s \in SmallSubsets(S, 0) |-> base]
    <3>2. SetFolds(g, SmallSubsets(S, 0), base, F)
      BY <3>1 DEF SetFolds
    <3>3. g \in [SmallSubsets(S, 0) -> A]
      OBVIOUS
    <3> QED
      BY <3>2, <3>3
  <2>5. m \in Nat
    OBVIOUS
  <2>6. m - 1 \in Nat /\ m - 1 \notin None
    <3> HIDE DEF None
    <3> QED
      BY <2>3, <2>4, <2>5
  <2>7. PICK g \in [SmallSubsets(S, m - 1) -> A] : SetFolds(g, SmallSubsets(S, m - 1), base, F)
    BY <2>6
  <2>8. \E h \in [SmallSubsets(S, (m - 1) + 1) -> A] : SetFolds(h, SmallSubsets(S, (m - 1) + 1), base, F)
    BY <2>6, <2>7, SetFoldExtends
  <2>9. (m - 1) + 1 = m
    BY <2>5
  <2> QED
    BY <2>8, <2>9
<1>2. SmallSubsets(S, n) = SUBSET S
  BY FS_Subset DEF SmallSubsets
<1>3. \E g \in [SmallSubsets(S, n) -> A] : SetFolds(g, SmallSubsets(S, n), base, F)
  BY <1>0, <1>1
<1> QED
  BY <1>2, <1>3

\* Where g and h agree on a set without one of its elements they agree on the set.
AgreementHandedOn(S, g, h) ==
    \A s \in SUBSET S : s # {} /\ g[s \ {AnyOf(s)}] = h[s \ {AnyOf(s)}] => g[s] = h[s]

\* Induction over the subsets of a finite set: functions that agree on a set when they
\* agree on it without one of its elements agree everywhere.
LEMMA SetAgreement ==
    ASSUME NEW S, IsFiniteSet(S), NEW g, NEW h, g[{}] = h[{}], AgreementHandedOn(S, g, h)
    PROVE  \A s \in SUBSET S : g[s] = h[s]
<1> DEFINE Bad == {n \in Nat : \E s \in SUBSET S : Cardinality(s) = n /\ g[s] # h[s]}
<1>1. Bad = {}
  <2> SUFFICES ASSUME Bad # {} PROVE FALSE
    OBVIOUS
  <2>1. Bad \subseteq Nat
    OBVIOUS
  <2>2. Min(Bad) \in Bad /\ \A x \in Bad : Min(Bad) <= x
    <3> HIDE DEF Bad
    <3> QED
      BY <2>1, MinOfNaturals
  <2>3. PICK n \in Bad : \A x \in Bad : n <= x
    BY <2>2
  <2>4. PICK s \in SUBSET S : Cardinality(s) = n /\ g[s] # h[s]
    OBVIOUS
  <2>6. s # {}
    BY <2>4
  <2>7. PICK x \in s : x = AnyOf(s)
    BY <2>6, AnyOfSet
  <2>8. /\ s \ {x} \in SUBSET S /\ Cardinality(s \ {x}) \in Nat
        /\ Cardinality(s) = Cardinality(s \ {x}) + 1
    <3> HIDE DEF Bad
    <3> QED
      BY OneLess
  <2>9. n \in Nat /\ ~ (n <= Cardinality(s \ {x}))
    <3>1. n \in Nat
      OBVIOUS
    <3> HIDE DEF Bad
    <3> QED
      BY <2>4, <2>8, <3>1
  <2>10. Cardinality(s \ {x}) \notin Bad
    <3> HIDE DEF Bad
    <3> QED
      BY <2>3, <2>9
  <2>11. g[s \ {x}] = h[s \ {x}]
    BY <2>8, <2>10
  <2> QED
    BY <2>4, <2>6, <2>7, <2>11 DEF AgreementHandedOn
<1>2. \A s \in SUBSET S : Cardinality(s) \in Nat
  BY FS_Subset, FS_CardinalityType
<1> QED
  BY <1>1, <1>2

-------------------------------------------------------------------------------
(* Sums.                                                                   *)

NatValued(f, S) == \A x \in S : f[x] \in Nat

\* The sum of the values of f on S.
Total(f, S) == MapThenSumSet(LAMBDA x : f[x], S)

Plus(f, S) == [p \in S \X Nat |-> f[p[1]] + p[2]]

\* g is the function of partial sums.
PartialSums(g, f, S) == g \in [SUBSET S -> Nat] /\ SetFolds(g, SUBSET S, 0, Plus(f, S))

\* A sum does not depend on which element is taken first.
LEMMA AnyOrder ==
    ASSUME NEW S, IsFiniteSet(S), NEW f, NatValued(f, S), NEW g, PartialSums(g, f, S)
    PROVE  \A s \in SUBSET S : \A x \in s : g[s] = f[x] + g[s \ {x}]
<1> USE DEF PartialSums
<1> DEFINE Bad == {n \in Nat : \E s \in SUBSET S : \E x \in s :
                                  Cardinality(s) = n /\ g[s] # f[x] + g[s \ {x}]}
<1>0. ASSUME NEW s \in SUBSET S, s # {}
      PROVE  g[s] = f[AnyOf(s)] + g[s \ {AnyOf(s)}]
  <2>1. g[s] = Plus(f, S)[<<AnyOf(s), g[s \ {AnyOf(s)}]>>]
    BY <1>0 DEF SetFolds
  <2>2. AnyOf(s) \in S /\ s \ {AnyOf(s)} \in SUBSET S
    BY <1>0, AnyOfSet
  <2>3. g[s \ {AnyOf(s)}] \in Nat
    BY <2>2
  <2> QED
    BY <2>1, <2>2, <2>3 DEF Plus
<1>1. Bad = {}
  <2> SUFFICES ASSUME Bad # {} PROVE FALSE
    OBVIOUS
  <2>1. Bad \subseteq Nat
    OBVIOUS
  <2>2. Min(Bad) \in Bad /\ \A x \in Bad : Min(Bad) <= x
    <3> HIDE DEF Bad
    <3> QED
      BY <2>1, MinOfNaturals
  <2>3. PICK n \in Bad : \A x \in Bad : n <= x
    BY <2>2
  <2>4. PICK s \in SUBSET S : \E x \in s : Cardinality(s) = n /\ g[s] # f[x] + g[s \ {x}]
    OBVIOUS
  <2>5. PICK x \in s : Cardinality(s) = n /\ g[s] # f[x] + g[s \ {x}]
    BY <2>4
  <2>6. PICK c \in s : c = AnyOf(s)
    BY AnyOfSet
  <2>7. g[s] = f[c] + g[s \ {c}] /\ x # c
    BY <1>0, <2>5, <2>6
  <2>8. /\ s \ {x} \in SUBSET S /\ Cardinality(s \ {x}) \in Nat /\ Cardinality(s) \in Nat
        /\ Cardinality(s) = Cardinality(s \ {x}) + 1
    <3> HIDE DEF Bad
    <3> QED
      BY OneLess
  <2>9. /\ s \ {c} \in SUBSET S /\ Cardinality(s \ {c}) \in Nat
        /\ Cardinality(s) = Cardinality(s \ {c}) + 1
    <3> HIDE DEF Bad
    <3> QED
      BY OneLess
  <2>10. n \in Nat /\ ~ (n <= Cardinality(s \ {x})) /\ ~ (n <= Cardinality(s \ {c}))
    BY <2>5, <2>8, <2>9
  <2>11. Cardinality(s \ {x}) \notin Bad /\ Cardinality(s \ {c}) \notin Bad
    <3> HIDE DEF Bad
    <3> QED
      BY <2>3, <2>10
  <2>12. g[s \ {c}] = f[x] + g[(s \ {c}) \ {x}]
    BY <2>7, <2>9, <2>11
  <2>13. g[s \ {x}] = f[c] + g[(s \ {x}) \ {c}]
    BY <2>7, <2>8, <2>11
  <2>14. (s \ {x}) \ {c} = (s \ {c}) \ {x} /\ (s \ {c}) \ {x} \in SUBSET S
    OBVIOUS
  <2>15. g[(s \ {c}) \ {x}] \in Nat /\ f[x] \in Nat /\ f[c] \in Nat
    BY <2>14 DEF NatValued
  <2> HIDE DEF Bad
  <2>16. f[c] + (f[x] + g[(s \ {c}) \ {x}]) = f[x] + (f[c] + g[(s \ {c}) \ {x}])
    BY <2>15
  <2> QED
    BY <2>5, <2>7, <2>12, <2>13, <2>14, <2>16
<1>2. \A s \in SUBSET S : Cardinality(s) \in Nat
  BY FS_Subset, FS_CardinalityType
<1> QED
  BY <1>1, <1>2

\* What MapThenSumSet chooses satisfies the equation of a sum.
LEMMA TotalFolds ==
    ASSUME NEW S, IsFiniteSet(S), NEW f, NatValued(f, S)
    PROVE  \E g \in [SUBSET S -> Nat] : SetFolds(g, SUBSET S, 0, Plus(f, S)) /\ Total(f, S) = g[S]
<1> DEFINE Eq(g) == g = [s \in SUBSET S |-> IF s = {} THEN 0 ELSE f[AnyOf(s)] + g[s \ {AnyOf(s)}]]
           c == CHOOSE g : Eq(g)
<1>1. Total(f, S) = c[S]
  BY DEF Total, MapThenSumSet, MapThenFoldSet, AnyOf
<1>2. Plus(f, S) \in [S \X Nat -> Nat]
  BY DEF Plus, NatValued
<1>3. PICK g \in [SUBSET S -> Nat] : SetFolds(g, SUBSET S, 0, Plus(f, S))
  BY <1>2, SetFoldExists
<1>4. ASSUME NEW h \in [SUBSET S -> Nat], NEW s \in SUBSET S, s # {}
      PROVE  Plus(f, S)[<<AnyOf(s), h[s \ {AnyOf(s)}]>>] = f[AnyOf(s)] + h[s \ {AnyOf(s)}]
  <2>1. AnyOf(s) \in S /\ s \ {AnyOf(s)} \in SUBSET S
    BY <1>4, AnyOfSet
  <2>2. h[s \ {AnyOf(s)}] \in Nat
    BY <2>1
  <2> QED
    BY <2>1, <2>2 DEF Plus
<1>5. Eq(g)
  BY <1>3, <1>4 DEF SetFolds
<1>6. Eq(c)
  <2> HIDE DEF Eq
  <2> QED
    BY <1>5, Zenon
<1>7. c[{}] = g[{}] /\ \A s \in SUBSET S : s # {} => g[s] = f[AnyOf(s)] + g[s \ {AnyOf(s)}]
  <2>1. {} \in SUBSET S
    OBVIOUS
  <2> HIDE DEF c
  <2> QED
    BY <1>5, <1>6, <2>1
<1>8. \A s \in SUBSET S : s # {} => c[s] = f[AnyOf(s)] + c[s \ {AnyOf(s)}]
  <2> HIDE DEF c
  <2> QED
    BY <1>6
<1>9. c[S] = g[S]
  <2> HIDE DEF c
  <2>1. \A s \in SUBSET S : c[s] = g[s]
    <3>1. AgreementHandedOn(S, c, g)
      BY <1>7, <1>8 DEF AgreementHandedOn
    <3>2. c[{}] = g[{}]
      BY <1>7
    <3> QED
      BY <3>1, <3>2, SetAgreement
  <2> QED
    BY <2>1
<1> QED
  BY <1>1, <1>3, <1>9

\* Sums are naturals, and any element can be taken out of one.
LEMMA TotalLaws ==
    ASSUME NEW S, IsFiniteSet(S), NEW f, NatValued(f, S)
    PROVE  /\ Total(f, S) \in Nat /\ Total(f, {}) = 0
           /\ \A x \in S : /\ Total(f, S \ {x}) \in Nat
                           /\ Total(f, S) = f[x] + Total(f, S \ {x})
<1>1. PICK g \in [SUBSET S -> Nat] : SetFolds(g, SUBSET S, 0, Plus(f, S)) /\ Total(f, S) = g[S]
  BY TotalFolds
<1>2. ASSUME NEW T \in SUBSET S PROVE Total(f, T) = g[T]
  <2>1. IsFiniteSet(T) /\ NatValued(f, T)
    BY FS_Subset DEF NatValued
  <2>2. PICK h \in [SUBSET T -> Nat] : SetFolds(h, SUBSET T, 0, Plus(f, T)) /\ Total(f, T) = h[T]
    BY <2>1, TotalFolds
  <2>3. g[{}] = h[{}]
    BY <1>1, <2>2 DEF SetFolds
  <2>4. ASSUME NEW s \in SUBSET T, s # {}, g[s \ {AnyOf(s)}] = h[s \ {AnyOf(s)}]
        PROVE  g[s] = h[s]
    <3>1. AnyOf(s) \in T /\ s \ {AnyOf(s)} \in SUBSET T
      BY <2>4, AnyOfSet
    <3>2. h[s \ {AnyOf(s)}] \in Nat
      BY <3>1
    <3>3. /\ g[s] = Plus(f, S)[<<AnyOf(s), g[s \ {AnyOf(s)}]>>]
          /\ h[s] = Plus(f, T)[<<AnyOf(s), h[s \ {AnyOf(s)}]>>]
      BY <1>1, <2>2, <2>4 DEF SetFolds
    <3>4. /\ Plus(f, S)[<<AnyOf(s), h[s \ {AnyOf(s)}]>>] = f[AnyOf(s)] + h[s \ {AnyOf(s)}]
          /\ Plus(f, T)[<<AnyOf(s), h[s \ {AnyOf(s)}]>>] = f[AnyOf(s)] + h[s \ {AnyOf(s)}]
      BY <3>1, <3>2 DEF Plus
    <3> QED
      BY <2>4, <3>3, <3>4
  <2>5. \A s \in SUBSET T : g[s] = h[s]
    <3>1. AgreementHandedOn(T, g, h)
      BY <2>4 DEF AgreementHandedOn
    <3> QED
      BY <2>1, <2>3, <3>1, SetAgreement
  <2> QED
    BY <2>2, <2>5
<1>3. \A s \in SUBSET S : \A x \in s : g[s] = f[x] + g[s \ {x}]
  <2>1. PartialSums(g, f, S)
    BY <1>1 DEF PartialSums
  <2> SUFFICES ASSUME NEW s \in SUBSET S, NEW x \in s PROVE g[s] = f[x] + g[s \ {x}]
    OBVIOUS
  <2>2. IsFiniteSet(S) /\ NatValued(f, S)
    OBVIOUS
  <2> QED
    BY <2>1, <2>2, AnyOrder
<1>4. g[{}] = 0
  BY <1>1 DEF SetFolds
<1>5. \A x \in S : S \ {x} \in SUBSET S /\ S \in SUBSET S /\ {} \in SUBSET S
  OBVIOUS
<1>6. Total(f, {}) = g[{}]
  BY <1>2
<1>7. ASSUME NEW x \in S PROVE Total(f, S \ {x}) = g[S \ {x}]
  BY <1>2
<1> QED
  BY <1>1, <1>3, <1>4, <1>5, <1>6, <1>7

\* A sum depends on the values in the set only.
LEMMA TotalAgrees ==
    ASSUME NEW S, IsFiniteSet(S), NEW f, NatValued(f, S), NEW e, \A x \in S : e[x] = f[x]
    PROVE  Total(e, S) = Total(f, S)
<1>1. PICK g \in [SUBSET S -> Nat] : SetFolds(g, SUBSET S, 0, Plus(f, S)) /\ Total(f, S) = g[S]
  BY TotalFolds
<1>2. PICK h \in [SUBSET S -> Nat] : SetFolds(h, SUBSET S, 0, Plus(e, S)) /\ Total(e, S) = h[S]
  <2>1. NatValued(e, S)
    BY DEF NatValued
  <2> QED
    BY <2>1, TotalFolds
<1>3. Plus(e, S) = Plus(f, S)
  BY DEF Plus
<1>4. g[{}] = h[{}]
  BY <1>1, <1>2 DEF SetFolds
<1>5. AgreementHandedOn(S, g, h)
  <2> SUFFICES ASSUME NEW s \in SUBSET S, s # {}, g[s \ {AnyOf(s)}] = h[s \ {AnyOf(s)}]
               PROVE  g[s] = h[s]
    BY DEF AgreementHandedOn
  <2>1. g[s] = Plus(f, S)[<<AnyOf(s), g[s \ {AnyOf(s)}]>>]
    BY <1>1 DEF SetFolds
  <2>2. h[s] = Plus(f, S)[<<AnyOf(s), h[s \ {AnyOf(s)}]>>]
    BY <1>2, <1>3 DEF SetFolds
  <2> QED
    BY <2>1, <2>2
<1>6. \A s \in SUBSET S : g[s] = h[s]
  BY <1>4, <1>5, SetAgreement
<1> QED
  BY <1>1, <1>2, <1>6

\* A sum splits in two.
LEMMA TotalSplit ==
    ASSUME NEW S, IsFiniteSet(S), NEW f, NatValued(f, S), NEW T \in SUBSET S
    PROVE  /\ Total(f, S) \in Nat /\ Total(f, T) \in Nat /\ Total(f, S \ T) \in Nat
           /\ Total(f, S) = Total(f, T) + Total(f, S \ T)
<1>1. ASSUME NEW t \in SUBSET S PROVE IsFiniteSet(t) /\ NatValued(f, t) /\ Total(f, t) \in Nat
  <2>1. IsFiniteSet(t) /\ NatValued(f, t)
    BY FS_Subset DEF NatValued
  <2> QED
    BY <2>1, TotalLaws
<1>2. ASSUME NEW t \in SUBSET S, NEW x \in t PROVE Total(f, t) = f[x] + Total(f, t \ {x})
  BY <1>1, TotalLaws
<1> DEFINE g == [t \in SUBSET S |-> Total(f, t) + Total(f, S \ t)]
           h == [t \in SUBSET S |-> Total(f, S)]
<1>3. g[{}] = h[{}]
  <2>1. S \ {} = S /\ {} \in SUBSET S
    OBVIOUS
  <2>2. Total(f, {}) = 0 /\ Total(f, S) \in Nat
    BY TotalLaws
  <2> QED
    BY <2>1, <2>2
<1>4. ASSUME NEW s \in SUBSET S, s # {}, g[s \ {AnyOf(s)}] = h[s \ {AnyOf(s)}]
      PROVE  g[s] = h[s]
  <2>1. PICK x \in s : x = AnyOf(s)
    BY <1>4, AnyOfSet
  <2>2. s \ {x} \in SUBSET S /\ S \ s \in SUBSET S /\ S \ (s \ {x}) \in SUBSET S /\ x \in S \ (s \ {x})
        /\ (S \ (s \ {x})) \ {x} = S \ s
    OBVIOUS
  <2>3. Total(f, s) = f[x] + Total(f, s \ {x})
    BY <1>2
  <2>4. Total(f, S \ (s \ {x})) = f[x] + Total(f, S \ s)
    BY <1>2, <2>2
  <2>5. f[x] \in Nat /\ Total(f, s \ {x}) \in Nat /\ Total(f, S \ s) \in Nat
    BY <1>1, <2>2 DEF NatValued
  <2>6. Total(f, s \ {x}) + Total(f, S \ (s \ {x})) = Total(f, S)
    BY <1>4, <2>1, <2>2
  <2>7. Total(f, s) + Total(f, S \ s) = Total(f, S)
    BY <2>3, <2>4, <2>5, <2>6
  <2> QED
    BY <2>7
<1>5. AgreementHandedOn(S, g, h)
  BY <1>4 DEF AgreementHandedOn
<1>6. \A t \in SUBSET S : g[t] = h[t]
  <2> HIDE DEF g, h
  <2> QED
    BY <1>3, <1>5, SetAgreement
<1>7. Total(f, T) + Total(f, S \ T) = Total(f, S)
  BY <1>6
<1>8. S \ T \in SUBSET S /\ S \in SUBSET S
  OBVIOUS
<1> QED
  BY <1>1, <1>7, <1>8

\* Induction over the subsets of a finite set, for a collection of sets.
LEMMA SetInduction ==
    ASSUME NEW S, IsFiniteSet(S), NEW P, {} \in P,
           \A s \in SUBSET S : s # {} /\ s \ {AnyOf(s)} \in P => s \in P
    PROVE  \A s \in SUBSET S : s \in P
<1> DEFINE g == [s \in SUBSET S |-> IF s \in P THEN 1 ELSE 0]
           h == [s \in SUBSET S |-> 1]
<1>1. {} \in SUBSET S /\ g[{}] = h[{}]
  OBVIOUS
<1>2. AgreementHandedOn(S, g, h)
  <2> SUFFICES ASSUME NEW s \in SUBSET S, s # {}, g[s \ {AnyOf(s)}] = h[s \ {AnyOf(s)}]
               PROVE  g[s] = h[s]
    BY DEF AgreementHandedOn
  <2>1. s \ {AnyOf(s)} \in SUBSET S
    OBVIOUS
  <2>2. s \ {AnyOf(s)} \in P
    BY <2>1
  <2> QED
    BY <2>2
<1>3. \A s \in SUBSET S : g[s] = h[s]
  <2> HIDE DEF g, h
  <2> QED
    BY <1>1, <1>2, SetAgreement
<1>4. ASSUME NEW s \in SUBSET S PROVE s \in P
  <2>1. (IF s \in P THEN 1 ELSE 0) = 1
    BY <1>3
  <2> QED
    BY <2>1
<1> QED
  BY <1>4

\* A sum of zeros.
LEMMA TotalZero ==
    ASSUME NEW S, IsFiniteSet(S), NEW f, \A x \in S : f[x] = 0
    PROVE  Total(f, S) = 0
<1>1. NatValued(f, S)
  BY DEF NatValued
<1>2. PICK g \in [SUBSET S -> Nat] : SetFolds(g, SUBSET S, 0, Plus(f, S)) /\ Total(f, S) = g[S]
  BY <1>1, TotalFolds
<1> DEFINE P == {s \in SUBSET S : g[s] = 0}
<1>3. {} \in P
  BY <1>2 DEF SetFolds
<1>4. ASSUME NEW s \in SUBSET S, s # {}, s \ {AnyOf(s)} \in P PROVE s \in P
  <2>1. AnyOf(s) \in S /\ s \ {AnyOf(s)} \in SUBSET S /\ g[s \ {AnyOf(s)}] = 0
    BY <1>4, AnyOfSet
  <2>2. g[s] = Plus(f, S)[<<AnyOf(s), g[s \ {AnyOf(s)}]>>]
    BY <1>2, <1>4 DEF SetFolds
  <2>3. Plus(f, S)[<<AnyOf(s), 0>>] = 0
    BY <2>1 DEF Plus
  <2> QED
    BY <2>1, <2>2, <2>3
<1>5. \A s \in SUBSET S : s \in P
  <2> HIDE DEF P
  <2> QED
    BY <1>3, <1>4, SetInduction
<1> QED
  BY <1>2, <1>5

-------------------------------------------------------------------------------
(* The compaction planner.                                                 *)

\* Cold segments, and what the planner's loop carries.
ColdSegments(V) == \A v \in V : v.start \in Nat /\ v.end \in Nat /\ v.size \in Nat
PlannerStates(V) == [plans : Seq(Seq(V)), run : Seq(V), size : Nat]
PlannerConfig(config) ==
    config.small_threshold_bytes \in Nat /\ config.target_bytes \in Nat /\ config.max_sources \in Nat \ {0, 1}
NoRun == [plans |-> <<>>, run |-> <<>>, size |-> 0]
Planning(base, s, config) == FoldLeft(LAMBDA acc, seg : PlanStep(acc, seg, config), base, s)

\* A run is closed into a plan, or dropped.
LEMMA ClosedType ==
    ASSUME NEW V, NEW acc \in PlannerStates(V)
    PROVE  /\ CloseRun(acc) \in Seq(Seq(V))
           /\ Len(acc.run) >= 2 => CloseRun(acc) = Append(acc.plans, acc.run)
           /\ Len(acc.run) < 2 => CloseRun(acc) = acc.plans
<1>1. acc.plans \in Seq(Seq(V)) /\ acc.run \in Seq(V) /\ Len(acc.run) \in Nat
  BY DEF PlannerStates
<1>2. Append(acc.plans, acc.run) \in Seq(Seq(V))
  BY <1>1
<1> QED
  BY <1>1, <1>2 DEF CloseRun

\* What one iteration of the planner's loop may do with a segment: close the run before it,
\* close the run and start the next one with it, complete a run with it, or let the run grow.
Fresh(acc, seg, config) == IF seg.size < config.small_threshold_bytes THEN <<seg>> ELSE <<>>
Contiguous(acc, seg) == acc.run = <<>> \/ Last(acc.run).end = seg.start
Closes(new, acc, seg, config) ==
    /\ seg.size >= config.small_threshold_bytes \/ ~ Contiguous(acc, seg)
    /\ new.plans = CloseRun(acc) /\ new.run = Fresh(acc, seg, config)
Restarts(new, acc, seg, config) ==
    /\ seg.size < config.small_threshold_bytes /\ Len(acc.run) >= 2
    /\ new.plans = CloseRun(acc) /\ new.run = <<seg>>
Completes(new, acc, seg, config) ==
    /\ seg.size < config.small_threshold_bytes /\ Contiguous(acc, seg)
    /\ Len(acc.run) + 1 >= config.max_sources
    /\ new.plans = Append(acc.plans, Append(acc.run, seg)) /\ new.run = <<>>
Grows(new, acc, seg, config) ==
    /\ seg.size < config.small_threshold_bytes /\ Contiguous(acc, seg)
    /\ Len(acc.run) + 1 < config.max_sources
    /\ new.plans = acc.plans /\ new.run = Append(acc.run, seg)

LEMMA PlanStepCases ==
    ASSUME NEW V, ColdSegments(V), NEW acc \in PlannerStates(V), NEW seg \in V,
           NEW config, PlannerConfig(config)
    PROVE  /\ PlanStep(acc, seg, config) \in PlannerStates(V)
           /\ \/ Closes(PlanStep(acc, seg, config), acc, seg, config)
              \/ Restarts(PlanStep(acc, seg, config), acc, seg, config)
              \/ Completes(PlanStep(acc, seg, config), acc, seg, config)
              \/ Grows(PlanStep(acc, seg, config), acc, seg, config)
<1> DEFINE closed == CloseRun(acc)
           grown == Append(acc.run, seg)
           whole == Append(acc.plans, grown)
           last == Last(acc.run)
<1>1. acc.plans \in Seq(Seq(V)) /\ acc.run \in Seq(V) /\ acc.size \in Nat /\ closed \in Seq(Seq(V))
  BY ClosedType DEF PlannerStates
<1>2. seg.size \in Nat /\ config.small_threshold_bytes \in Nat /\ config.target_bytes \in Nat /\ config.max_sources \in Nat
  BY DEF ColdSegments, PlannerConfig
<1>3. grown \in Seq(V) /\ Len(grown) = Len(acc.run) + 1 /\ Len(acc.run) \in Nat /\ <<seg>> \in Seq(V) /\ <<>> \in Seq(V)
  BY <1>1
<1>4. whole \in Seq(Seq(V))
  BY <1>1, <1>3
<1> DEFINE small == seg.size < config.small_threshold_bytes
           contiguous == acc.run = <<>> \/ last.end = seg.start
           A == [plans |-> closed, run |-> IF small THEN <<seg>> ELSE <<>>, size |-> IF small THEN seg.size ELSE 0]
           B == [plans |-> closed, run |-> <<seg>>, size |-> seg.size]
           C == [plans |-> whole, run |-> <<>>, size |-> 0]
           D == [plans |-> acc.plans, run |-> grown, size |-> acc.size + seg.size]
<1>5. PlanStep(acc, seg, config) =
         IF ~ small \/ ~ contiguous THEN A
         ELSE IF acc.size + seg.size > config.target_bytes /\ Len(acc.run) >= 2 THEN B
         ELSE IF Len(grown) >= config.max_sources THEN C ELSE D
  BY DEF PlanStep
<1>6. A \in PlannerStates(V) /\ B \in PlannerStates(V) /\ C \in PlannerStates(V) /\ D \in PlannerStates(V)
  <2> HIDE DEF closed, grown, whole
  <2> QED
    BY <1>1, <1>2, <1>3, <1>4 DEF PlannerStates
<1>7. CASE ~ small \/ ~ contiguous
  <2>1. PlanStep(acc, seg, config) = A
    BY <1>5, <1>7
  <2>2. Closes(A, acc, seg, config)
    BY <1>2, <1>7 DEF Closes, Fresh, Contiguous
  <2> QED
    BY <1>6, <2>1, <2>2
<1>8. CASE small /\ contiguous /\ acc.size + seg.size > config.target_bytes /\ Len(acc.run) >= 2
  <2>1. PlanStep(acc, seg, config) = B
    BY <1>5, <1>8
  <2>2. Restarts(B, acc, seg, config)
    BY <1>8 DEF Restarts
  <2> QED
    BY <1>6, <2>1, <2>2
<1>9. CASE small /\ contiguous /\ ~ (acc.size + seg.size > config.target_bytes /\ Len(acc.run) >= 2)
  <2>1. CASE Len(grown) >= config.max_sources
    <3>1. PlanStep(acc, seg, config) = C
      BY <1>5, <1>9, <2>1
    <3>2. Completes(C, acc, seg, config)
      BY <1>3, <1>9, <2>1 DEF Completes, Contiguous
    <3> QED
      BY <1>6, <3>1, <3>2
  <2>2. CASE ~ (Len(grown) >= config.max_sources)
    <3>1. PlanStep(acc, seg, config) = D
      BY <1>5, <1>9, <2>2
    <3>2. Grows(D, acc, seg, config)
      BY <1>2, <1>3, <1>9, <2>2 DEF Grows, Contiguous
    <3> QED
      BY <1>6, <3>1, <3>2
  <2> QED
    BY <2>1, <2>2
<1> QED
  BY <1>7, <1>8, <1>9

\* plan_partition_compaction folds PlanStep over the segments, from the first to the last.
LEMMA PlannerFolds ==
    ASSUME NEW V, ColdSegments(V), NEW n \in Nat, NEW s \in [1 .. n -> V], NEW config, PlannerConfig(config)
    PROVE  \E h : /\ h[0] = NoRun /\ \A i \in 1 .. n : h[i] = PlanStep(h[i - 1], s[i], config)
                  /\ \A i \in 0 .. n : h[i] \in PlannerStates(V)
                  /\ Planning(NoRun, s, config) = h[n]
<1> DEFINE Eq(g) == g = [t \in SUBSET (1 .. n) |->
                           IF t = {} THEN NoRun ELSE PlanStep(g[t \ {Max(t)}], s[Max(t)], config)]
           c == CHOOSE g : Eq(g)
           A == PlannerStates(V)
           F == [p \in A \X V |-> PlanStep(p[1], p[2], config)]
<1>0. NoRun \in A
  <2>1. <<>> \in Seq(Seq(V)) /\ <<>> \in Seq(V)
    OBVIOUS
  <2> QED
    BY <2>1 DEF NoRun, PlannerStates
<1>1. Planning(NoRun, s, config) = c[1 .. n]
  BY DEF Planning, FoldLeft, MapThenFoldSet
<1>2. F \in [A \X V -> A] /\ \A a \in A, v \in V : F[<<a, v>>] = PlanStep(a, v, config)
  <2>1. \A a \in A, v \in V : PlanStep(a, v, config) \in A
    BY PlanStepCases
  <2> HIDE DEF A
  <2> QED
    BY <2>1
<1>3. PICK g \in [SUBSET (1 .. n) -> A] : Folds(g, n, s, NoRun, F)
  <2> HIDE DEF F, A
  <2> QED
    BY <1>0, <1>2, FoldExists
<1> HIDE DEF A
<1>4. ASSUME NEW t \in SUBSET (1 .. n)
      PROVE  g[t] = IF t = {} THEN NoRun ELSE PlanStep(g[t \ {Max(t)}], s[Max(t)], config)
  <2>1. g[t] = IF t = {} THEN NoRun ELSE F[<<g[t \ {Max(t)}], s[Max(t)]>>]
    BY <1>3 DEF Folds
  <2>2. CASE t # {}
    <3>1. Max(t) \in 1 .. n /\ t \ {Max(t)} \in SUBSET (1 .. n)
      BY <2>2, HighestPosition
    <3>2. s[Max(t)] \in V /\ g[t \ {Max(t)}] \in A
      BY <3>1
    <3> HIDE DEF F
    <3> QED
      BY <1>2, <2>1, <2>2, <3>2
  <2> QED
    BY <2>1, <2>2
<1>5. Eq(g)
  BY <1>4
<1>6. Eq(c)
  <2> HIDE DEF Eq
  <2> QED
    BY <1>5
<1>7. c[{}] = NoRun /\ \A i \in 1 .. n : c[1 .. i] = PlanStep(c[1 .. i - 1], s[i], config)
  <2>1. c[{}] = NoRun
    BY <1>6
  <2>2. ASSUME NEW i \in 1 .. n PROVE c[1 .. i] = PlanStep(c[1 .. i - 1], s[i], config)
    <3>1. /\ 1 .. i \in SUBSET (1 .. n) /\ 1 .. i # {}
          /\ Max(1 .. i) = i /\ (1 .. i) \ {Max(1 .. i)} = 1 .. i - 1
      BY FoldPrefixes
    <3>2. \A t \in SUBSET (1 .. n) : t # {} => c[t] = PlanStep(c[t \ {Max(t)}], s[Max(t)], config)
      BY <1>6
    <3> HIDE DEF c
    <3> QED
      BY <3>1, <3>2, Zenon
  <2> QED
    BY <2>1, <2>2
<1> DEFINE h == [i \in 0 .. n |-> c[1 .. i]]
           P == [i \in 0 .. n |-> A]
<1> HIDE DEF c
<1>8. h[0] = NoRun /\ (\A i \in 1 .. n : h[i] = PlanStep(h[i - 1], s[i], config)) /\ Planning(NoRun, s, config) = h[n]
  <2>1. 1 .. 0 = {}
    OBVIOUS
  <2>2. h[0] = NoRun
    BY <1>7, <2>1
  <2>3. ASSUME NEW i \in 1 .. n PROVE h[i] = PlanStep(h[i - 1], s[i], config)
    BY <1>7
  <2>4. h[n] = c[1 .. n]
    OBVIOUS
  <2> QED
    BY <1>1, <2>2, <2>3, <2>4
<1>9. \A i \in 0 .. n : h[i] \in A
  <2>1. h[0] \in P[0]
    BY <1>0, <1>8
  <2>2. ASSUME NEW i \in 1 .. n, h[i - 1] \in P[i - 1] PROVE h[i] \in P[i]
    <3>0. i - 1 \in 0 .. n /\ i \in 0 .. n
      OBVIOUS
    <3>a. h[i] = PlanStep(h[i - 1], s[i], config)
      BY <1>8
    <3>b. h[i - 1] \in A
      BY <2>2, <3>0
    <3>1. h[i - 1] \in A /\ i \in 0 .. n /\ h[i] = PlanStep(h[i - 1], s[i], config)
      BY <3>0, <3>a, <3>b
    <3>2. h[i] \in A
      BY <3>1, PlanStepCases DEF A
    <3> QED
      BY <3>1, <3>2
  <2>3. \A i \in 0 .. n : h[i] \in P[i]
    <3> HIDE DEF h, P
    <3> QED
      BY <2>1, <2>2, PrefixInduction
  <2> QED
    BY <2>3
<1> QED
  <2> HIDE DEF h
  <2> QED
    BY <1>8, <1>9 DEF A

\* What a run is: small segments without a gap between them.
GoodRun(p, config) ==
    /\ \A j \in 1 .. Len(p) : p[j].size < config.small_threshold_bytes
    /\ \A j \in 2 .. Len(p) : p[j].start = p[j - 1].end
\* p is the segments after the first m.
RunAt(p, s, m) == \A j \in 1 .. Len(p) : p[j] = s[m + j]
\* Runs of a legal length, in order.
GoodPlans(plans, config) ==
    /\ \A i \in 1 .. Len(plans) : Len(plans[i]) \in 2 .. config.max_sources /\ GoodRun(plans[i], config)
    /\ \A i, j \in 1 .. Len(plans) : i < j => Last(plans[i]).end <= Head(plans[j]).start
\* The plans are made of the first m segments.
PlannedUpTo(plans, s, m) ==
    \A i \in 1 .. Len(plans) : \E a \in Nat : a + Len(plans[i]) <= m /\ RunAt(plans[i], s, a)
InSomePlan(plans, v) == \E i \in 1 .. Len(plans) : Contains(plans[i], v)
\* A pair of neighbours that could be merged.
Pair(s, k, config) ==
    /\ s[k - 1].size < config.small_threshold_bytes /\ s[k].size < config.small_threshold_bytes
    /\ s[k - 1].end = s[k].start
Settled(plans, s, k, config) == Pair(s, k, config) => InSomePlan(plans, s[k - 1]) \/ InSomePlan(plans, s[k])
Ordered(s) == \A i, j \in 1 .. Len(s) : i < j => s[i].end <= s[j].start

\* After i segments the run is the last of them; what it follows is settled.
PlannerInv(acc, s, i, config) ==
    /\ Len(acc.run) <= i /\ Len(acc.run) < config.max_sources
    /\ RunAt(acc.run, s, i - Len(acc.run)) /\ GoodRun(acc.run, config)
    /\ GoodPlans(acc.plans, config) /\ PlannedUpTo(acc.plans, s, i - Len(acc.run))
    /\ \A k \in 2 .. i : k <= (i - Len(acc.run)) + 1 => Settled(acc.plans, s, k, config)
    /\ Len(acc.run) = 0 /\ i > 0 => s[i].size >= config.small_threshold_bytes \/ InSomePlan(acc.plans, s[i])

\* A plan more.
LEMMA PlanAdded ==
    ASSUME NEW V, ColdSegments(V), NEW s \in Seq(V), Ordered(s), NEW config, PlannerConfig(config),
           NEW plans \in Seq(Seq(V)), NEW p \in Seq(V), NEW m \in Nat, m + Len(p) <= Len(s),
           GoodPlans(plans, config), PlannedUpTo(plans, s, m),
           Len(p) \in 2 .. config.max_sources, GoodRun(p, config), RunAt(p, s, m)
    PROVE  /\ GoodPlans(Append(plans, p), config) /\ PlannedUpTo(Append(plans, p), s, m + Len(p))
           /\ \A v \in V : InSomePlan(plans, v) => InSomePlan(Append(plans, p), v)
           /\ \A j \in 1 .. Len(p) : InSomePlan(Append(plans, p), s[m + j])
<1> DEFINE n == Len(plans)
           new == Append(plans, p)
           len == Len(p)
<1>1. /\ n \in Nat /\ len \in Nat /\ config.max_sources \in Nat
      /\ Len(new) = n + 1 /\ new[n + 1] = p /\ \A i \in 1 .. n : new[i] = plans[i]
  BY DEF PlannerConfig
<1>2. /\ len >= 2 /\ \A j \in 1 .. len : m + j \in 1 .. Len(s) /\ s[m + j] \in V /\ p[j] \in V /\ p[j] = s[m + j]
  BY <1>1 DEF RunAt
<1>3. Head(p) = s[m + 1] /\ Last(p) = s[m + len]
  <2>1. 1 \in 1 .. len /\ len \in 1 .. len
    BY <1>1, <1>2
  <2>2. Head(p) = p[1] /\ Last(p) = p[len]
    BY <1>1, <1>2 DEF Last
  <2> QED
    BY <1>2, <2>1, <2>2
<1>4. ASSUME NEW i \in 1 .. n PROVE Last(new[i]).end <= Head(new[n + 1]).start
  <2>1. PICK a \in Nat : a + Len(plans[i]) <= m /\ RunAt(plans[i], s, a)
    BY DEF PlannedUpTo
  <2> DEFINE q == plans[i]
             ql == Len(q)
             k == a + ql
             top == Len(s)
  <2>2. q \in Seq(V) /\ ql \in Nat /\ ql >= 2 /\ top \in Nat
    BY <1>1 DEF GoodPlans
  <2>3. Last(q) = s[k]
    <3>1. ql \in 1 .. ql
      BY <2>2
    <3> QED
      BY <2>1, <3>1 DEF Last, RunAt
  <2>4. k \in 1 .. Len(s) /\ m + 1 \in 1 .. Len(s) /\ k < m + 1
    <3>1. a + ql <= m /\ m + len <= top /\ len >= 2 /\ len \in Nat
      BY <1>1, <1>2, <2>1
    <3> HIDE DEF q, ql, len, top
    <3>2. a + ql \in 1 .. top /\ m + 1 \in 1 .. top /\ a + ql < m + 1
      BY <2>2, <3>1
    <3> QED
      BY <3>2 DEF top
  <2> HIDE DEF k
  <2>5. s[k].end <= s[m + 1].start
    BY <2>4 DEF Ordered
  <2>6. new[i] = plans[i]
    BY <1>1
  <2> QED
    BY <1>1, <1>3, <2>3, <2>5, <2>6
<1> HIDE DEF new, n, len
<1>5. GoodPlans(new, config)
  <2>1. ASSUME NEW i \in 1 .. Len(new) PROVE Len(new[i]) \in 2 .. config.max_sources /\ GoodRun(new[i], config)
    <3>0. i = n + 1 \/ i \in 1 .. n
      BY <1>1, <2>1
    <3>1. CASE i = n + 1
      BY <1>1, <3>1
    <3>2. CASE i \in 1 .. n
      BY <1>1, <3>2 DEF GoodPlans, n
    <3> QED
      BY <3>0, <3>1, <3>2
  <2>2. ASSUME NEW i \in 1 .. Len(new), NEW j \in 1 .. Len(new), i < j PROVE Last(new[i]).end <= Head(new[j]).start
    <3>0. i \in 1 .. n /\ (j = n + 1 \/ j \in 1 .. n)
      BY <1>1, <2>2
    <3>1. CASE j = n + 1
      BY <1>4, <3>0, <3>1
    <3>2. CASE j \in 1 .. n
      <4>1. Last(plans[i]).end <= Head(plans[j]).start
        BY <2>2, <3>0, <3>2 DEF GoodPlans, n
      <4> QED
        BY <1>1, <3>0, <3>2, <4>1
    <3> QED
      BY <3>0, <3>1, <3>2
  <2> QED
    BY <2>1, <2>2 DEF GoodPlans
<1>6. PlannedUpTo(new, s, m + len)
  <2> SUFFICES ASSUME NEW i \in 1 .. Len(new) PROVE \E a \in Nat : a + Len(new[i]) <= m + len /\ RunAt(new[i], s, a)
    BY DEF PlannedUpTo
  <2>0. i = n + 1 \/ i \in 1 .. n
    BY <1>1
  <2>1. CASE i = n + 1
    BY <1>1, <2>1 DEF len
  <2>2. CASE i \in 1 .. n
    <3>1. PICK a \in Nat : a + Len(plans[i]) <= m /\ RunAt(plans[i], s, a)
      BY <2>2 DEF PlannedUpTo, n
    <3>2. new[i] = plans[i] /\ Len(plans[i]) \in Nat
      BY <1>1, <2>2 DEF n
    <3>3. a + Len(new[i]) <= m + len
      BY <1>1, <3>1, <3>2
    <3> QED
      BY <3>1, <3>2, <3>3
  <2> QED
    BY <2>0, <2>1, <2>2
<1>7. \A v \in V : InSomePlan(plans, v) => InSomePlan(new, v)
  <2> SUFFICES ASSUME NEW v \in V, InSomePlan(plans, v) PROVE InSomePlan(new, v)
    OBVIOUS
  <2>1. PICK i \in 1 .. n : Contains(plans[i], v)
    BY DEF InSomePlan, n
  <2>2. i \in 1 .. Len(new) /\ Contains(new[i], v)
    BY <1>1, <2>1
  <2> QED
    BY <2>2 DEF InSomePlan
<1>8. \A j \in 1 .. len : InSomePlan(new, s[m + j])
  <2> SUFFICES ASSUME NEW j \in 1 .. len PROVE InSomePlan(new, s[m + j])
    OBVIOUS
  <2>1. Contains(p, s[m + j])
    BY <1>2 DEF Contains, len
  <2>2. n + 1 \in 1 .. Len(new) /\ Contains(new[n + 1], s[m + j])
    BY <1>1, <2>1
  <2> QED
    BY <2>2 DEF InSomePlan
<1> QED
  BY <1>5, <1>6, <1>7, <1>8 DEF new, len

\* Closing the run settles everything so far.
LEMMA RunClosed ==
    ASSUME NEW V, ColdSegments(V), NEW s \in Seq(V), Ordered(s), NEW config, PlannerConfig(config),
           NEW acc \in PlannerStates(V), NEW i \in 0 .. Len(s), PlannerInv(acc, s, i, config)
    PROVE  /\ GoodPlans(CloseRun(acc), config) /\ PlannedUpTo(CloseRun(acc), s, i)
           /\ \A k \in 2 .. i : Settled(CloseRun(acc), s, k, config)
           /\ Len(acc.run) >= 2 => InSomePlan(CloseRun(acc), s[i])
<1> DEFINE len == Len(acc.run)
           m == i - len
<1>1. acc.plans \in Seq(Seq(V)) /\ acc.run \in Seq(V) /\ len \in Nat /\ config.max_sources \in Nat
  BY DEF PlannerStates, PlannerConfig
<1>2. m \in Nat /\ m + len = i /\ i <= Len(s) /\ len < config.max_sources
  BY <1>1 DEF PlannerInv
<1>3. /\ RunAt(acc.run, s, m) /\ GoodRun(acc.run, config) /\ GoodPlans(acc.plans, config) /\ PlannedUpTo(acc.plans, s, m)
      /\ \A k \in 2 .. i : k <= m + 1 => Settled(acc.plans, s, k, config)
  BY DEF PlannerInv
<1> HIDE DEF m
<1>4. CASE len >= 2
  <2> DEFINE new == Append(acc.plans, acc.run)
  <2>1. CloseRun(acc) = new
    BY <1>4, ClosedType
  <2>2. /\ GoodPlans(new, config) /\ PlannedUpTo(new, s, m + len)
        /\ \A v \in V : InSomePlan(acc.plans, v) => InSomePlan(new, v)
        /\ \A j \in 1 .. len : InSomePlan(new, s[m + j])
    <3>1. len \in 2 .. config.max_sources
      BY <1>1, <1>2, <1>4
    <3> QED
      BY <1>1, <1>2, <1>3, <3>1, PlanAdded
  <2> HIDE DEF new, len
  <2>3. ASSUME NEW k \in 2 .. i PROVE Settled(new, s, k, config)
    <3>1. CASE k <= m + 1
      <4>1. Settled(acc.plans, s, k, config) /\ s[k - 1] \in V /\ s[k] \in V
        BY <1>2, <1>3, <3>1
      <4> QED
        BY <2>2, <4>1 DEF Settled
    <3>2. CASE ~ (k <= m + 1)
      <4>1. k - m \in 1 .. len /\ m + (k - m) = k
        BY <1>1, <1>2, <3>2
      <4> QED
        BY <2>2, <4>1 DEF Settled
    <3> QED
      BY <3>1, <3>2
  <2>4. len \in 1 .. len
    BY <1>1, <1>4
  <2>5. InSomePlan(new, s[i])
    BY <1>2, <2>2, <2>4
  <2> QED
    BY <1>2, <2>1, <2>2, <2>3, <2>5
<1>5. CASE ~ (len >= 2)
  <2>1. CloseRun(acc) = acc.plans
    BY <1>1, <1>5, ClosedType
  <2>2. ASSUME NEW k \in 2 .. i PROVE k <= m + 1
    BY <1>1, <1>2, <1>5
  <2>3. PlannedUpTo(acc.plans, s, i)
    <3> SUFFICES ASSUME NEW j \in 1 .. Len(acc.plans) PROVE \E a \in Nat : a + Len(acc.plans[j]) <= i /\ RunAt(acc.plans[j], s, a)
      BY DEF PlannedUpTo
    <3>1. PICK a \in Nat : a + Len(acc.plans[j]) <= m /\ RunAt(acc.plans[j], s, a)
      BY <1>3 DEF PlannedUpTo
    <3>2. Len(acc.plans[j]) \in Nat
      BY <1>1
    <3>3. a + Len(acc.plans[j]) <= i
      BY <1>1, <1>2, <3>1, <3>2
    <3> QED
      BY <3>1, <3>3
  <2> QED
    BY <1>3, <1>5, <2>1, <2>2, <2>3
<1> QED
  BY <1>4, <1>5

\* The planner's loop keeps its invariant.
LEMMA PlannerStep ==
    ASSUME NEW V, ColdSegments(V), NEW s \in Seq(V), Ordered(s), NEW config, PlannerConfig(config),
           NEW acc \in PlannerStates(V), NEW i \in 1 .. Len(s), PlannerInv(acc, s, i - 1, config),
           NEW new \in PlannerStates(V),
           \/ Closes(new, acc, s[i], config) \/ Restarts(new, acc, s[i], config)
           \/ Completes(new, acc, s[i], config) \/ Grows(new, acc, s[i], config)
    PROVE  PlannerInv(new, s, i, config)
<1> DEFINE b == i - 1
           len == Len(acc.run)
           m == b - len
           seg == s[i]
           small == config.small_threshold_bytes
<1>1. /\ acc.plans \in Seq(Seq(V)) /\ acc.run \in Seq(V) /\ len \in Nat
      /\ config.max_sources \in Nat \ {0, 1} /\ small \in Nat
      /\ seg \in V /\ seg.size \in Nat /\ b \in 0 .. Len(s) /\ b + 1 = i /\ i \in Nat /\ b \in Nat
  BY DEF PlannerStates, PlannerConfig, ColdSegments
<1>2. m \in Nat /\ m + len = b /\ len < config.max_sources
  BY <1>1 DEF PlannerInv
<1>3. /\ RunAt(acc.run, s, m) /\ GoodRun(acc.run, config) /\ GoodPlans(acc.plans, config) /\ PlannedUpTo(acc.plans, s, m)
      /\ \A k \in 2 .. b : k <= m + 1 => Settled(acc.plans, s, k, config)
      /\ len = 0 /\ b > 0 => s[b].size >= small \/ InSomePlan(acc.plans, s[b])
  BY DEF PlannerInv
<1>4. /\ GoodPlans(CloseRun(acc), config) /\ PlannedUpTo(CloseRun(acc), s, b)
      /\ \A k \in 2 .. b : Settled(CloseRun(acc), s, k, config)
      /\ len >= 2 => InSomePlan(CloseRun(acc), s[b])
  BY <1>1, RunClosed
<1>5. len > 0 => Last(acc.run) = s[b]
  <2> SUFFICES ASSUME len > 0 PROVE Last(acc.run) = s[b]
    OBVIOUS
  <2>1. len \in 1 .. len /\ Last(acc.run) = acc.run[len]
    BY <1>1 DEF Last
  <2> QED
    BY <1>2, <1>3, <2>1 DEF RunAt
<1>6. len = 0 <=> acc.run = <<>>
  BY <1>1
<1> HIDE DEF m, b, len, seg
\* The segment alone, or nothing, follows closed plans.
<1>7. ASSUME NEW plans, GoodPlans(plans, config), PlannedUpTo(plans, s, b),
             \A k \in 2 .. i : Settled(plans, s, k, config),
             NEW run, run = <<seg>> \/ (run = <<>> /\ seg.size >= small),
             run = <<seg>> => seg.size < small,
             new.plans = plans, new.run = run,
             plans \in Seq(Seq(V))
      PROVE  PlannerInv(new, s, i, config)
  <2>1. CASE run = <<seg>>
    <3>1. Len(run) = 1 /\ run[1] = seg /\ i - Len(run) = b
      BY <1>1, <2>1
    <3>2. RunAt(run, s, b)
      BY <1>1, <3>1 DEF RunAt, seg
    <3>3. GoodRun(run, config)
      BY <1>7, <2>1, <3>1 DEF GoodRun
    <3>4. Len(run) <= i /\ Len(run) < config.max_sources
      BY <1>1, <3>1
    <3> QED
      BY <1>7, <3>1, <3>2, <3>3, <3>4 DEF PlannerInv
  <2>2. CASE run = <<>> /\ seg.size >= small
    <3>1. Len(run) = 0 /\ i - Len(run) = i
      BY <1>1, <2>2
    <3>2. RunAt(run, s, i) /\ GoodRun(run, config)
      BY <3>1 DEF RunAt, GoodRun
    <3>3. Len(run) <= i /\ Len(run) < config.max_sources
      BY <1>1, <3>1
    <3>4. PlannedUpTo(plans, s, i)
      <4> SUFFICES ASSUME NEW j \in 1 .. Len(plans) PROVE \E a \in Nat : a + Len(plans[j]) <= i /\ RunAt(plans[j], s, a)
        BY DEF PlannedUpTo
      <4>1. PICK a \in Nat : a + Len(plans[j]) <= b /\ RunAt(plans[j], s, a)
        BY <1>7 DEF PlannedUpTo
      <4>2. Len(plans[j]) \in Nat
        BY <1>7
      <4>3. a + Len(plans[j]) <= i
        BY <1>1, <4>1, <4>2
      <4> QED
        BY <4>1, <4>3
    <3> QED
      BY <1>7, <2>2, <3>1, <3>2, <3>3, <3>4 DEF PlannerInv, seg
  <2> QED
    BY <1>7, <2>1, <2>2
<1>8. CloseRun(acc) \in Seq(Seq(V))
  BY ClosedType
<1>9. CASE Closes(new, acc, s[i], config)
  <2>1. /\ seg.size >= small \/ ~ Contiguous(acc, seg)
        /\ new.plans = CloseRun(acc) /\ new.run = IF seg.size < small THEN <<seg>> ELSE <<>>
    BY <1>9 DEF Closes, Fresh, seg
  <2>2. i \in 2 .. i => Settled(CloseRun(acc), s, i, config)
    <3>1. CASE seg.size >= small
      BY <1>1, <3>1 DEF Settled, Pair, seg
    <3>2. CASE ~ Contiguous(acc, seg)
      <4>1. len > 0 /\ Last(acc.run).end # seg.start
        BY <1>1, <1>6, <3>2 DEF Contiguous
      <4>2. s[b].end # seg.start
        BY <1>5, <4>1
      <4> QED
        BY <1>1, <4>2 DEF Settled, Pair, seg, b
    <3> QED
      BY <2>1, <3>1, <3>2
  <2>3. \A k \in 2 .. i : Settled(CloseRun(acc), s, k, config)
    <3> SUFFICES ASSUME NEW k \in 2 .. i PROVE Settled(CloseRun(acc), s, k, config)
      OBVIOUS
    <3>1. k = i \/ k \in 2 .. b
      BY <1>1
    <3> QED
      BY <1>4, <2>2, <3>1
  <2>4. /\ new.run = <<seg>> \/ (new.run = <<>> /\ seg.size >= small)
        /\ new.run = <<seg>> => seg.size < small
    <3>1. <<seg>> # <<>>
      OBVIOUS
    <3> QED
      BY <1>1, <2>1, <3>1
  <2> QED
    BY <1>4, <1>7, <1>8, <2>1, <2>3, <2>4
<1>10. CASE Restarts(new, acc, s[i], config)
  <2>1. seg.size < small /\ len >= 2 /\ new.plans = CloseRun(acc) /\ new.run = <<seg>>
    BY <1>10 DEF Restarts, seg, len
  <2>2. \A k \in 2 .. i : Settled(CloseRun(acc), s, k, config)
    <3> SUFFICES ASSUME NEW k \in 2 .. i PROVE Settled(CloseRun(acc), s, k, config)
      OBVIOUS
    <3>1. CASE k \in 2 .. b
      BY <1>4, <3>1
    <3>2. CASE k = i
      <4>1. InSomePlan(CloseRun(acc), s[k - 1])
        BY <1>1, <1>4, <2>1, <3>2 DEF b
      <4> QED
        BY <4>1 DEF Settled
    <3> QED
      BY <1>1, <3>1, <3>2
  <2> QED
    BY <1>4, <1>7, <1>8, <2>1, <2>2
<1> DEFINE grown == Append(acc.run, seg)
\* The run, with the segment.
<1>11. ASSUME seg.size < small, Contiguous(acc, seg)
       PROVE  /\ grown \in Seq(V) /\ Len(grown) = len + 1 /\ RunAt(grown, s, m) /\ GoodRun(grown, config)
              /\ \A k \in 2 .. i : k <= m + 1 => Settled(acc.plans, s, k, config)
  <2>1. /\ grown \in Seq(V) /\ Len(grown) = len + 1 /\ grown[len + 1] = seg
        /\ \A j \in 1 .. len : grown[j] = acc.run[j]
    BY <1>1 DEF len
  <2> HIDE DEF grown
  <2>2. RunAt(grown, s, m)
    <3> SUFFICES ASSUME NEW j \in 1 .. Len(grown) PROVE grown[j] = s[m + j]
      BY DEF RunAt
    <3>1. CASE j \in 1 .. len
      BY <1>3, <2>1, <3>1 DEF RunAt, len
    <3>2. CASE j = len + 1
      <4>1. m + j = i
        BY <1>1, <1>2, <3>2
      <4> QED
        BY <2>1, <3>2, <4>1 DEF seg
    <3> QED
      BY <1>1, <2>1, <3>1, <3>2
  <2>3. GoodRun(grown, config)
    <3>1. ASSUME NEW j \in 1 .. Len(grown) PROVE grown[j].size < small
      <4>1. j = len + 1 \/ j \in 1 .. len
        BY <1>1, <2>1
      <4> QED
        BY <1>3, <1>11, <2>1, <4>1 DEF GoodRun, len
    <3>2. ASSUME NEW j \in 2 .. Len(grown) PROVE grown[j].start = grown[j - 1].end
      <4>1. CASE j = len + 1
        <5>1. len \in 1 .. len /\ len > 0 /\ j - 1 = len
          BY <1>1, <3>2, <4>1
        <5>2. Last(acc.run).end = seg.start
          BY <1>1, <1>6, <1>11, <5>1 DEF Contiguous
        <5>3. grown[len] = acc.run[len] /\ Last(acc.run) = acc.run[len]
          BY <2>1, <5>1 DEF Last, len
        <5> QED
          BY <2>1, <4>1, <5>1, <5>2, <5>3
      <4>2. CASE j \in 2 .. len
        <5>1. j \in 1 .. len /\ j - 1 \in 1 .. len
          BY <1>1, <4>2
        <5>2. acc.run[j].start = acc.run[j - 1].end
          BY <1>3, <4>2 DEF GoodRun, len
        <5> QED
          BY <2>1, <5>1, <5>2
      <4> QED
        BY <1>1, <2>1, <3>2, <4>1, <4>2
    <3> QED
      BY <3>1, <3>2 DEF GoodRun
  <2>4. ASSUME NEW k \in 2 .. i, k <= m + 1 PROVE Settled(acc.plans, s, k, config)
    <3>1. CASE k \in 2 .. b
      BY <1>3, <2>4, <3>1
    <3>2. CASE k = i
      <4>1. len = 0 /\ b > 0 /\ k - 1 = b
        BY <1>1, <1>2, <2>4, <3>2
      <4>2. s[b].size >= small \/ InSomePlan(acc.plans, s[b])
        BY <1>3, <4>1
      <4>3. s[b].size \in Nat
        BY <1>1, <4>1 DEF ColdSegments
      <4> QED
        BY <1>1, <4>1, <4>2, <4>3 DEF Settled, Pair
    <3> QED
      BY <1>1, <3>1, <3>2
  <2> QED
    BY <2>1, <2>2, <2>3, <2>4
<1>12. CASE Grows(new, acc, s[i], config)
  <2>1. /\ seg.size < small /\ Contiguous(acc, seg) /\ len + 1 < config.max_sources
        /\ new.plans = acc.plans /\ new.run = grown
    BY <1>12 DEF Grows, seg, len
  <2>2. /\ grown \in Seq(V) /\ Len(grown) = len + 1 /\ RunAt(grown, s, m) /\ GoodRun(grown, config)
        /\ \A k \in 2 .. i : k <= m + 1 => Settled(acc.plans, s, k, config)
    BY <1>11, <2>1
  <2>3. i - (len + 1) = m /\ len + 1 <= i /\ len + 1 # 0
    BY <1>1, <1>2
  <2> HIDE DEF grown
  <2> QED
    BY <1>3, <2>1, <2>2, <2>3 DEF PlannerInv
<1>13. CASE Completes(new, acc, s[i], config)
  <2>1. /\ seg.size < small /\ Contiguous(acc, seg) /\ len + 1 >= config.max_sources
        /\ new.plans = Append(acc.plans, grown) /\ new.run = <<>>
    BY <1>13 DEF Completes, seg, len
  <2>2. /\ grown \in Seq(V) /\ Len(grown) = len + 1 /\ RunAt(grown, s, m) /\ GoodRun(grown, config)
        /\ \A k \in 2 .. i : k <= m + 1 => Settled(acc.plans, s, k, config)
    BY <1>11, <2>1
  <2>3. len + 1 \in 2 .. config.max_sources /\ m + (len + 1) = i /\ i <= Len(s)
    BY <1>1, <1>2, <2>1
  <2> HIDE DEF grown
  <2> DEFINE plans == Append(acc.plans, grown)
  <2>4. /\ GoodPlans(plans, config) /\ PlannedUpTo(plans, s, i)
        /\ \A v \in V : InSomePlan(acc.plans, v) => InSomePlan(plans, v)
        /\ \A j \in 1 .. len + 1 : InSomePlan(plans, s[m + j])
    <3>1. m + Len(grown) <= Len(s) /\ Len(grown) \in 2 .. config.max_sources /\ m + Len(grown) = i
      BY <2>2, <2>3
    <3>2. /\ GoodPlans(plans, config) /\ PlannedUpTo(plans, s, m + Len(grown))
          /\ \A v \in V : InSomePlan(acc.plans, v) => InSomePlan(plans, v)
          /\ \A j \in 1 .. Len(grown) : InSomePlan(plans, s[m + j])
      BY <1>1, <1>2, <1>3, <2>2, <3>1, PlanAdded
    <3> QED
      BY <2>2, <3>1, <3>2
  <2> HIDE DEF plans
  <2>5. ASSUME NEW k \in 2 .. i PROVE Settled(plans, s, k, config)
    <3>1. CASE k <= m + 1
      <4>1. Settled(acc.plans, s, k, config) /\ s[k - 1] \in V /\ s[k] \in V
        BY <1>1, <2>2, <3>1
      <4> QED
        BY <2>4, <4>1 DEF Settled
    <3>2. CASE ~ (k <= m + 1)
      <4>1. k - m \in 1 .. len + 1 /\ m + (k - m) = k
        BY <1>1, <1>2, <3>2
      <4> QED
        BY <2>4, <4>1 DEF Settled
    <3> QED
      BY <3>1, <3>2
  <2>6. InSomePlan(plans, s[i])
    <3>1. len + 1 \in 1 .. len + 1
      BY <1>1
    <3> QED
      BY <2>3, <2>4, <3>1
  <2>7. Len(new.run) = 0 /\ i - Len(new.run) = i /\ 0 < config.max_sources /\ 0 <= i
    BY <1>1, <2>1
  <2>8. RunAt(new.run, s, i) /\ GoodRun(new.run, config)
    BY <2>7 DEF RunAt, GoodRun
  <2>9. new.plans = plans
    BY <2>1 DEF plans
  <2> QED
    BY <2>4, <2>5, <2>6, <2>7, <2>8, <2>9 DEF PlannerInv
<1> QED
  BY <1>9, <1>10, <1>12, <1>13

\* The plans of a partition: runs of at least two small segments, without gaps, in order,
\* made of the segments given; no pair that could be merged is left out.
LEMMA PlannerCorrect ==
    ASSUME NEW V, ColdSegments(V), NEW s \in Seq(V), Ordered(s), NEW config, PlannerConfig(config)
    PROVE  /\ plan_partition_compaction(s, config) \in Seq(Seq(V))
           /\ GoodPlans(plan_partition_compaction(s, config), config)
           /\ PlannedUpTo(plan_partition_compaction(s, config), s, Len(s))
           /\ \A k \in 2 .. Len(s) : Settled(plan_partition_compaction(s, config), s, k, config)
<1> DEFINE n == Len(s)
<1>1. n \in Nat /\ s \in [1 .. n -> V]
  OBVIOUS
<1>2. PICK h : /\ h[0] = NoRun /\ \A i \in 1 .. n : h[i] = PlanStep(h[i - 1], s[i], config)
               /\ \A i \in 0 .. n : h[i] \in PlannerStates(V)
               /\ Planning(NoRun, s, config) = h[n]
  <2> HIDE DEF n
  <2> QED
    BY <1>1, PlannerFolds
<1> DEFINE P == [i \in 0 .. n |-> {acc \in PlannerStates(V) : PlannerInv(acc, s, i, config)}]
<1>3. h[0] \in P[0]
  <2>1. PlannerInv(NoRun, s, 0, config)
    <3>1. NoRun.run = <<>> /\ NoRun.plans = <<>> /\ Len(NoRun.run) = 0 /\ Len(NoRun.plans) = 0
      BY DEF NoRun
    <3>2. RunAt(NoRun.run, s, 0) /\ GoodRun(NoRun.run, config)
      BY <3>1 DEF RunAt, GoodRun
    <3>3. GoodPlans(NoRun.plans, config) /\ PlannedUpTo(NoRun.plans, s, 0)
      BY <3>1 DEF GoodPlans, PlannedUpTo
    <3>4. 0 < config.max_sources /\ 0 - 0 = 0 /\ ~ (0 > 0)
      BY DEF PlannerConfig
    <3> QED
      BY <3>1, <3>2, <3>3, <3>4 DEF PlannerInv
  <2>2. 0 \in 0 .. n
    BY <1>1
  <2> QED
    BY <1>2, <2>1, <2>2
<1>4. ASSUME NEW i \in 1 .. n, h[i - 1] \in P[i - 1] PROVE h[i] \in P[i]
  <2>1. i - 1 \in 0 .. n /\ i \in 0 .. n /\ s[i] \in V
    BY <1>1
  <2>2. h[i - 1] \in PlannerStates(V) /\ PlannerInv(h[i - 1], s, i - 1, config)
    BY <1>4, <2>1
  <2> DEFINE new == PlanStep(h[i - 1], s[i], config)
             acc == h[i - 1]
  <2>3. /\ new \in PlannerStates(V)
        /\ \/ Closes(new, acc, s[i], config) \/ Restarts(new, acc, s[i], config)
           \/ Completes(new, acc, s[i], config) \/ Grows(new, acc, s[i], config)
    BY <2>1, <2>2, PlanStepCases
  <2> HIDE DEF new, acc
  <2>4. acc \in PlannerStates(V) /\ PlannerInv(acc, s, i - 1, config) /\ h[i] = new
    BY <1>2, <2>2 DEF new, acc
  <2>5. PlannerInv(new, s, i, config)
    BY <2>3, <2>4, PlannerStep
  <2> QED
    BY <2>1, <2>3, <2>4, <2>5
<1>5. \A i \in 0 .. n : h[i] \in P[i]
  <2> HIDE DEF P, n
  <2> QED
    BY <1>1, <1>3, <1>4, PrefixInduction
<1>6. n \in 0 .. n /\ h[n] \in PlannerStates(V) /\ PlannerInv(h[n], s, n, config)
  <2>1. n \in 0 .. n
    BY <1>1
  <2> QED
    BY <1>5, <2>1
<1>7. plan_partition_compaction(s, config) = CloseRun(h[n])
  BY <1>2 DEF plan_partition_compaction, Planning, NoRun
<1> HIDE DEF P
<1>8. /\ GoodPlans(CloseRun(h[n]), config) /\ PlannedUpTo(CloseRun(h[n]), s, n)
      /\ \A k \in 2 .. n : Settled(CloseRun(h[n]), s, k, config)
  BY <1>6, RunClosed
<1> QED
  BY <1>6, <1>7, <1>8, ClosedType

===============================================================================
