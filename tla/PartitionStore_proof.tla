------------------------- MODULE PartitionStore_proof -------------------------
(***************************************************************************)
(* The tiered storage of a broker, for any number of partitions, requests, *)
(* records, segments and faults.                                           *)
(***************************************************************************)
EXTENDS PartitionStore, SharedLemmas, SequenceTheorems

-------------------------------------------------------------------------------
(* Maps: functions whose domain is a part of S.                            *)

Maps(S, R) == UNION {[D -> R] : D \in SUBSET S}

\* A map, by its domain and its values.
LEMMA MapFields ==
    ASSUME NEW S, NEW R, NEW f
    PROVE  f \in Maps(S, R) <=> DOMAIN f \in SUBSET S /\ f \in [DOMAIN f -> R]
<1>1. ASSUME f \in Maps(S, R) PROVE DOMAIN f \in SUBSET S /\ f \in [DOMAIN f -> R]
  BY <1>1 DEF Maps
<1>2. ASSUME DOMAIN f \in SUBSET S, f \in [DOMAIN f -> R] PROVE f \in Maps(S, R)
  BY <1>2, Zenon DEF Maps
<1> QED
  BY <1>1, <1>2

\* g is f with the value v at k.
Stored(g, f, k, v) ==
    /\ DOMAIN g = DOMAIN f \cup {k} /\ g[k] = v
    /\ \A x \in DOMAIN f : x # k => g[x] = f[x]

\* g is f without the keys K.
Remains(g, f, K) == DOMAIN g = DOMAIN f \ K /\ \A x \in DOMAIN f \ K : g[x] = f[x]

\* Put stores one value.
LEMMA PutFields ==
    ASSUME NEW S, NEW R, NEW f \in Maps(S, R), NEW k \in S, NEW v \in R
    PROVE  Put(f, k, v) \in Maps(S, R) /\ Stored(Put(f, k, v), f, k, v)
<1>1. DOMAIN f \in SUBSET S /\ f \in [DOMAIN f -> R]
  BY MapFields
<1>2. Stored(Put(f, k, v), f, k, v) /\ DOMAIN Put(f, k, v) = DOMAIN f \cup {k}
  BY DEF Put, Stored
<1>3. Put(f, k, v) \in [DOMAIN f \cup {k} -> R] /\ DOMAIN f \cup {k} \in SUBSET S
  BY <1>1 DEF Put
<1> QED
  BY <1>2, <1>3, MapFields

\* Without takes keys away.
LEMMA WithoutFields ==
    ASSUME NEW S, NEW R, NEW f \in Maps(S, R), NEW K
    PROVE  Without(f, K) \in Maps(S, R) /\ Remains(Without(f, K), f, K)
<1>1. DOMAIN f \in SUBSET S /\ f \in [DOMAIN f -> R]
  BY MapFields
<1>2. Remains(Without(f, K), f, K) /\ DOMAIN Without(f, K) = DOMAIN f \ K
  BY DEF Without, Restrict, Remains
<1>3. Without(f, K) \in [DOMAIN f \ K -> R] /\ DOMAIN f \ K \in SUBSET S
  BY <1>1 DEF Without, Restrict
<1> QED
  BY <1>2, <1>3, MapFields

\* The map without entries.
LEMMA EmptyMap ==
    ASSUME NEW S, NEW R
    PROVE  <<>> \in Maps(S, R) /\ DOMAIN <<>> = {}
<1>1. DOMAIN <<>> = {} /\ <<>> \in [{} -> R]
  OBVIOUS
<1> QED
  BY <1>1, MapFields

-------------------------------------------------------------------------------
(* The index.                                                              *)

Ends == 0 .. MaxOffset
Keys == Partitions \X Offsets \X Ends
Ranges == [end : Ends, key : Keys, size : Nat]
Hots == Maps(Offsets, Record)
Colds == Maps(Offsets, Ranges)
Entries == [hot : Hots, cold : Colds, next_offset : Ends]
Indexes == [parts : [Partitions -> Entries], hot_bytes : Nat]

SizesOf(hot) == [o \in DOMAIN hot |-> hot[o].size]

\* The bytes of some hot records are a sum in the sense of SharedLemmas.
LEMMA HotSizeIsTotal ==
    ASSUME NEW hot \in Hots, NEW O \in SUBSET DOMAIN hot
    PROVE  /\ IsFiniteSet(O) /\ NatValued(SizesOf(hot), O)
           /\ HotSize(hot, O) = Total(SizesOf(hot), O) /\ HotSize(hot, O) \in Nat
<1> DEFINE f == SizesOf(hot)
           Eq(g) == g = [s \in SUBSET O |-> IF s = {} THEN 0 ELSE hot[AnyOf(s)].size + g[s \ {AnyOf(s)}]]
           c == CHOOSE g : Eq(g)
<1>1. HotSize(hot, O) = c[O]
  BY DEF HotSize, MapThenSumSet, MapThenFoldSet, AnyOf
<1>2. DOMAIN hot \subseteq Offsets /\ hot \in [DOMAIN hot -> Record]
  BY MapFields DEF Hots
<1>3. IsFiniteSet(O)
  <2>1. IsFiniteSet(0 .. MaxOffset - 1)
    BY StoreConstants, FS_Interval
  <2>2. O \in SUBSET (0 .. MaxOffset - 1)
    BY <1>2 DEF Offsets
  <2> QED
    BY <2>1, <2>2, FS_Subset
<1>4. NatValued(f, O) /\ \A o \in O : f[o] = hot[o].size
  BY <1>2, StoreConstants DEF NatValued, SizesOf, Record
<1>5. PICK g \in [SUBSET O -> Nat] : SetFolds(g, SUBSET O, 0, Plus(f, O)) /\ Total(f, O) = g[O]
  <2> HIDE DEF f
  <2> QED
    BY <1>3, <1>4, TotalFolds
<1>6. ASSUME NEW s \in SUBSET O, s # {}
      PROVE  g[s] = hot[AnyOf(s)].size + g[s \ {AnyOf(s)}]
  <2>1. AnyOf(s) \in O /\ s \ {AnyOf(s)} \in SUBSET O
    BY <1>6, AnyOfSet
  <2>2. g[s \ {AnyOf(s)}] \in Nat
    BY <2>1
  <2>3. g[s] = Plus(f, O)[<<AnyOf(s), g[s \ {AnyOf(s)}]>>]
    BY <1>5, <1>6 DEF SetFolds
  <2> HIDE DEF f
  <2> QED
    BY <1>4, <2>1, <2>2, <2>3 DEF Plus
<1>7. g[{}] = 0
  BY <1>5 DEF SetFolds
<1>8. Eq(g)
  BY <1>6, <1>7
<1>9. Eq(c)
  <2> HIDE DEF Eq
  <2> QED
    BY <1>8, Zenon
<1>10. c[O] = g[O]
  <2> HIDE DEF c
  <2>1. AgreementHandedOn(O, c, g)
    BY <1>6, <1>9 DEF AgreementHandedOn
  <2>2. c[{}] = g[{}]
    BY <1>7, <1>9
  <2>3. \A s \in SUBSET O : c[s] = g[s]
    BY <1>3, <2>1, <2>2, SetAgreement
  <2> QED
    BY <2>3
<1>11. g[O] \in Nat
  OBVIOUS
<1> QED
  BY <1>1, <1>3, <1>4, <1>5, <1>10, <1>11

\* The bytes of all hot records.
HotBytes(idx) ==
    MapThenSumSet(LAMBDA tp : HotSize(idx.parts[tp].hot, DOMAIN idx.parts[tp].hot), Partitions)

\* The bytes of each partition's hot records.
PartBytes(idx) == [tp \in Partitions |-> HotSize(idx.parts[tp].hot, DOMAIN idx.parts[tp].hot)]

\* The bytes of all hot records are the sum over the partitions.
LEMMA HotBytesIsTotal ==
    ASSUME NEW idx \in Indexes
    PROVE  /\ NatValued(PartBytes(idx), Partitions)
           /\ HotBytes(idx) = Total(PartBytes(idx), Partitions)
<1> DEFINE P == Partitions
           Size(tp) == HotSize(idx.parts[tp].hot, DOMAIN idx.parts[tp].hot)
           f == PartBytes(idx)
           Eq(g) == g = [s \in SUBSET P |-> IF s = {} THEN 0 ELSE Size(AnyOf(s)) + g[s \ {AnyOf(s)}]]
           c == CHOOSE g : Eq(g)
<1>1. HotBytes(idx) = c[P]
  BY DEF HotBytes, MapThenSumSet, MapThenFoldSet, AnyOf
<1>2. \A tp \in P : Size(tp) \in Nat
  <2> SUFFICES ASSUME NEW tp \in P PROVE Size(tp) \in Nat
    OBVIOUS
  <2>1. idx.parts[tp].hot \in Hots
    BY DEF Indexes, Entries
  <2> QED
    BY <2>1, HotSizeIsTotal
<1>3. IsFiniteSet(P)
  BY StoreConstants
<1>4. NatValued(f, P) /\ \A tp \in P : f[tp] = Size(tp)
  <2>1. \A tp \in P : f[tp] = Size(tp)
    BY DEF PartBytes
  <2> HIDE DEF f, Size
  <2> QED
    BY <1>2, <2>1 DEF NatValued
<1> HIDE DEF Size, f
<1>5. PICK g \in [SUBSET P -> Nat] : SetFolds(g, SUBSET P, 0, Plus(f, P)) /\ Total(f, P) = g[P]
  BY <1>3, <1>4, TotalFolds
<1>6. ASSUME NEW s \in SUBSET P, s # {}
      PROVE  g[s] = Size(AnyOf(s)) + g[s \ {AnyOf(s)}]
  <2>1. AnyOf(s) \in P /\ s \ {AnyOf(s)} \in SUBSET P
    BY <1>6, AnyOfSet
  <2>2. g[s \ {AnyOf(s)}] \in Nat
    BY <2>1
  <2>3. g[s] = Plus(f, P)[<<AnyOf(s), g[s \ {AnyOf(s)}]>>]
    BY <1>5, <1>6 DEF SetFolds
  <2> QED
    BY <1>4, <2>1, <2>2, <2>3 DEF Plus
<1>7. g[{}] = 0
  BY <1>5 DEF SetFolds
<1>8. Eq(g)
  BY <1>6, <1>7
<1>9. Eq(c)
  <2> HIDE DEF Eq
  <2> QED
    BY <1>8, Zenon
<1>10. c[P] = g[P]
  <2> HIDE DEF c
  <2>1. AgreementHandedOn(P, c, g)
    BY <1>6, <1>9 DEF AgreementHandedOn
  <2>2. c[{}] = g[{}]
    BY <1>7, <1>9
  <2>3. \A s \in SUBSET P : c[s] = g[s]
    BY <1>3, <2>1, <2>2, SetAgreement
  <2> QED
    BY <2>3
<1> QED
  BY <1>1, <1>4, <1>5, <1>10 DEF f

\* The counter is that of the maps.
Exact(idx) == idx \in Indexes /\ idx.hot_bytes = HotBytes(idx)

\* A partition's bytes are a part of all, and replacing its entries replaces them.
LEMMA IndexChange ==
    ASSUME NEW idx, Exact(idx), NEW tp \in Partitions, NEW e \in Entries, NEW n,
           NEW old, old = HotSize(idx.parts[tp].hot, DOMAIN idx.parts[tp].hot),
           NEW new, new = HotSize(e.hot, DOMAIN e.hot)
    PROVE  /\ old \in Nat /\ new \in Nat /\ old <= idx.hot_bytes /\ idx.hot_bytes \in Nat
           /\ n = (idx.hot_bytes - old) + new =>
                  Exact([parts |-> [idx.parts EXCEPT ![tp] = e], hot_bytes |-> n])
<1> DEFINE next == [parts |-> [idx.parts EXCEPT ![tp] = e], hot_bytes |-> n]
           f == PartBytes(idx)
           g == PartBytes(next)
           P == Partitions
           m == Total(f, P \ {tp})
<1>1. idx \in Indexes /\ idx.hot_bytes = HotBytes(idx) /\ idx.hot_bytes \in Nat
  BY DEF Exact, Indexes
<1>2. /\ idx.parts \in [P -> Entries] /\ idx.parts[tp].hot \in Hots /\ e.hot \in Hots
      /\ DOMAIN idx.parts[tp].hot \in SUBSET DOMAIN idx.parts[tp].hot
      /\ DOMAIN e.hot \in SUBSET DOMAIN e.hot
  BY <1>1 DEF Indexes, Entries
<1>3. old \in Nat /\ new \in Nat
  BY <1>2, HotSizeIsTotal
<1>4. NatValued(f, P) /\ idx.hot_bytes = Total(f, P)
  BY <1>1, HotBytesIsTotal
<1>5. IsFiniteSet(P) /\ IsFiniteSet(P \ {tp})
  BY StoreConstants, FS_Subset
<1>6. f[tp] = old
  BY DEF PartBytes
<1>7. m \in Nat /\ Total(f, P) = old + m
  <2> HIDE DEF f
  <2> QED
    BY <1>4, <1>5, <1>6, TotalLaws
<1>8. ASSUME n = (idx.hot_bytes - old) + new PROVE Exact(next)
  <2>1. n \in Nat /\ n = m + new
    <3> HIDE DEF m
    <3> QED
      BY <1>3, <1>4, <1>7, <1>8
  <2>2. next \in Indexes
    BY <1>2, <2>1 DEF Indexes
  <2>3. NatValued(g, P) /\ HotBytes(next) = Total(g, P)
    <3> HIDE DEF next
    <3> QED
      BY <2>2, HotBytesIsTotal
  <2>4. g[tp] = new /\ \A q \in P \ {tp} : g[q] = f[q]
    BY <1>2 DEF PartBytes
  <2>5. NatValued(f, P \ {tp})
    BY <1>4 DEF NatValued
  <2>6. Total(g, P \ {tp}) = m
    <3> HIDE DEF f, g
    <3> QED
      BY <1>5, <2>4, <2>5, TotalAgrees
  <2>7. Total(g, P) = new + Total(g, P \ {tp})
    <3> HIDE DEF f, g, m
    <3> QED
      BY <1>5, <2>3, <2>4, TotalLaws
  <2>8. next.hot_bytes = n
    OBVIOUS
  <2>9. n = HotBytes(next)
    <3> HIDE DEF f, g, m, next
    <3> QED
      BY <1>3, <1>7, <2>1, <2>3, <2>6, <2>7
  <2> QED
    BY <2>2, <2>8, <2>9 DEF Exact
<1>9. old <= idx.hot_bytes
  <2> HIDE DEF f, m
  <2> QED
    BY <1>3, <1>4, <1>7
<1> QED
  BY <1>1, <1>3, <1>8, <1>9

\* The larger of two naturals.
LEMMA MaxOfTwo ==
    ASSUME NEW a \in Nat, NEW b \in Nat
    PROVE  /\ Max({a, b}) \in Nat /\ (Max({a, b}) = a \/ Max({a, b}) = b)
           /\ a <= Max({a, b}) /\ b <= Max({a, b})
<1>1. \E x \in {a, b} : \A y \in {a, b} : y <= x
  <2>1. CASE a <= b
    BY <2>1
  <2>2. CASE b <= a
    BY <2>2
  <2> QED
    BY <2>1, <2>2
<1>2. Max({a, b}) \in {a, b} /\ \A y \in {a, b} : y <= Max({a, b})
  BY <1>1 DEF Max
<1> QED
  BY <1>2

\* Hot records without some of them.
LEMMA HotSizeWithout ==
    ASSUME NEW hot \in Hots, NEW O \in SUBSET DOMAIN hot
    PROVE  /\ HotSize(hot, DOMAIN hot) \in Nat /\ HotSize(hot, O) \in Nat
           /\ HotSize(hot, O) <= HotSize(hot, DOMAIN hot)
           /\ HotSize(Without(hot, O), DOMAIN Without(hot, O)) = HotSize(hot, DOMAIN hot) - HotSize(hot, O)
<1> DEFINE D == DOMAIN hot
           left == Without(hot, O)
           f == SizesOf(hot)
           g == SizesOf(left)
<1>1. left \in Hots /\ DOMAIN left = D \ O /\ \A x \in D \ O : left[x] = hot[x]
  <2>1. hot \in Maps(Offsets, Record)
    BY DEF Hots
  <2>2. Without(hot, O) \in Maps(Offsets, Record) /\ Remains(Without(hot, O), hot, O)
    BY <2>1, WithoutFields
  <2> QED
    BY <2>2 DEF Hots, Remains
<1>2. IsFiniteSet(D) /\ NatValued(f, D) /\ HotSize(hot, D) = Total(f, D) /\ HotSize(hot, D) \in Nat
  BY HotSizeIsTotal
<1>3. HotSize(hot, O) = Total(f, O) /\ HotSize(hot, O) \in Nat
  BY HotSizeIsTotal
<1>4. HotSize(left, DOMAIN left) = Total(g, D \ O) /\ IsFiniteSet(D \ O)
  <2> HIDE DEF left
  <2>1. DOMAIN left \in SUBSET DOMAIN left
    OBVIOUS
  <2> QED
    BY <1>1, <2>1, HotSizeIsTotal
<1>5. (\A x \in D \ O : g[x] = f[x]) /\ NatValued(f, D \ O)
  <2> HIDE DEF left
  <2> QED
    BY <1>1, <1>2 DEF NatValued, SizesOf
<1> HIDE DEF f, g
<1>6. Total(g, D \ O) = Total(f, D \ O)
  BY <1>4, <1>5, TotalAgrees
<1>7. Total(f, D \ O) \in Nat /\ Total(f, D) = Total(f, O) + Total(f, D \ O)
  BY <1>2, TotalSplit
<1> QED
  BY <1>2, <1>3, <1>4, <1>6, <1>7

\* Hot records with one stored.
LEMMA HotSizePut ==
    ASSUME NEW hot \in Hots, NEW o \in Offsets, NEW rec \in Record
    PROVE  /\ rec.size \in Nat /\ HotSize(hot, DOMAIN hot) \in Nat /\ HotSize(hot, {o} \cap DOMAIN hot) \in Nat
           /\ HotSize(hot, {o} \cap DOMAIN hot) <= HotSize(hot, DOMAIN hot)
           /\ HotSize(Put(hot, o, rec), DOMAIN Put(hot, o, rec)) =
                  (HotSize(hot, DOMAIN hot) - HotSize(hot, {o} \cap DOMAIN hot)) + rec.size
<1> DEFINE D == DOMAIN hot
           O == {o} \cap D
           E == D \cup {o}
           new == Put(hot, o, rec)
           f == SizesOf(hot)
           g == SizesOf(new)
<1>0. rec.size \in Nat
  BY StoreConstants DEF Record
<1>1. new \in Hots /\ DOMAIN new = E /\ new[o] = rec /\ \A x \in D : x # o => new[x] = hot[x]
  <2>1. hot \in Maps(Offsets, Record)
    BY DEF Hots
  <2>2. Put(hot, o, rec) \in Maps(Offsets, Record) /\ Stored(Put(hot, o, rec), hot, o, rec)
    BY <2>1, PutFields
  <2> QED
    BY <2>2 DEF Hots, Stored
<1>2. /\ HotSize(hot, D) \in Nat /\ HotSize(hot, O) \in Nat /\ HotSize(hot, O) <= HotSize(hot, D)
      /\ IsFiniteSet(D) /\ NatValued(f, D) /\ HotSize(hot, D) = Total(f, D) /\ HotSize(hot, O) = Total(f, O)
  <2>1. O \in SUBSET D /\ D \in SUBSET D
    OBVIOUS
  <2> HIDE DEF O, f
  <2> QED
    BY <2>1, HotSizeWithout, HotSizeIsTotal DEF f
<1>3. IsFiniteSet(E) /\ NatValued(g, E) /\ HotSize(new, DOMAIN new) = Total(g, E)
  <2> HIDE DEF new
  <2>1. DOMAIN new \in SUBSET DOMAIN new
    OBVIOUS
  <2> QED
    BY <1>1, <2>1, HotSizeIsTotal
<1>4. g[o] = rec.size /\ \A x \in D \ O : g[x] = f[x]
  <2> HIDE DEF new
  <2> QED
    BY <1>1 DEF SizesOf
<1>5. E \ {o} = D \ O /\ o \in E /\ O \in SUBSET D
  OBVIOUS
<1>6. NatValued(f, D \ O) /\ IsFiniteSet(D \ O)
  BY <1>2, FS_Subset DEF NatValued
<1> HIDE DEF D, E, O, f, g
<1>7. Total(g, E) = rec.size + Total(g, D \ O)
  BY <1>3, <1>4, <1>5, TotalLaws
<1>8. Total(g, D \ O) = Total(f, D \ O)
  BY <1>4, <1>6, TotalAgrees
<1>9. Total(f, D \ O) \in Nat /\ Total(f, D) = Total(f, O) + Total(f, D \ O)
  BY <1>2, <1>5, TotalSplit
<1>10. HotSize(new, DOMAIN new) = (HotSize(hot, D) - HotSize(hot, O)) + rec.size
  <2> HIDE DEF new
  <2> QED
    BY <1>0, <1>2, <1>3, <1>7, <1>8, <1>9
<1> QED
  BY <1>0, <1>2, <1>10 DEF D, O, new

\* The other partitions keep their entries.
Elsewhere(new, idx, tp) == \A q \in Partitions \ {tp} : new.parts[q] = idx.parts[q]

\* The next offset has been raised to n at least.
Raised(new, old, n) == new >= old /\ new >= n /\ (new = old \/ new = n)

\* What insert_hot changes.
HotInserted(new, idx, tp, o, rec) ==
    /\ Elsewhere(new, idx, tp)
    /\ Stored(new.parts[tp].hot, idx.parts[tp].hot, o, rec)
    /\ new.parts[tp].cold = idx.parts[tp].cold
    /\ Raised(new.parts[tp].next_offset, idx.parts[tp].next_offset, o + 1)
    /\ new.hot_bytes <= idx.hot_bytes + rec.size

\* insert_hot counts the bytes it stores and no longer those it overwrites.
LEMMA InsertHotExact ==
    ASSUME NEW idx, Exact(idx), NEW tp \in Partitions, NEW o \in Offsets, NEW rec \in Record
    PROVE  Exact(insert_hot(idx, tp, o, rec)) /\ HotInserted(insert_hot(idx, tp, o, rec), idx, tp, o, rec)
<1> DEFINE e0 == idx.parts[tp]
           hot == e0.hot
           n0 == e0.next_offset
           put == Put(hot, o, rec)
           m == Max({n0, o + 1})
           e == [hot |-> put, cold |-> e0.cold, next_offset |-> m]
           over == HotSize(hot, {o} \cap DOMAIN hot)
           n == (idx.hot_bytes - over) + rec.size
           new == [parts |-> [idx.parts EXCEPT ![tp] = e], hot_bytes |-> n]
           H == HotSize(hot, DOMAIN hot)
           G == HotSize(put, DOMAIN put)
<1>1. /\ idx \in Indexes /\ e0 \in Entries /\ hot \in Hots /\ n0 \in Ends /\ e0.cold \in Colds
      /\ idx.parts \in [Partitions -> Entries]
  BY DEF Exact, Indexes, Entries
<1>2. put \in Hots /\ Stored(put, hot, o, rec)
  <2>1. hot \in Maps(Offsets, Record)
    BY <1>1 DEF Hots
  <2> HIDE DEF hot
  <2>2. put \in Maps(Offsets, Record) /\ Stored(put, hot, o, rec)
    BY <2>1, PutFields
  <2> QED
    BY <2>2 DEF Hots
<1>3. m \in Ends /\ Raised(m, n0, o + 1)
  <2>1. n0 \in Nat /\ o + 1 \in Nat /\ n0 <= MaxOffset /\ o + 1 <= MaxOffset
    BY <1>1, StoreConstants DEF Ends, Offsets
  <2> HIDE DEF n0
  <2>2. m \in Nat /\ (m = n0 \/ m = o + 1) /\ n0 <= m /\ o + 1 <= m
    BY <2>1, MaxOfTwo
  <2> HIDE DEF m
  <2> QED
    BY <2>1, <2>2, StoreConstants DEF Ends, Raised
<1>4. insert_hot(idx, tp, o, rec) = new
  BY DEF insert_hot
<1>5. e \in Entries /\ e.hot = put
  BY <1>1, <1>2, <1>3 DEF Entries
<1>6. /\ rec.size \in Nat /\ H \in Nat /\ over \in Nat /\ over <= H
      /\ G = (H - over) + rec.size
  <2> HIDE DEF hot
  <2> QED
    BY <1>1, HotSizePut
<1>7. /\ H <= idx.hot_bytes /\ idx.hot_bytes \in Nat
      /\ n = (idx.hot_bytes - H) + G => Exact(new)
  <2> HIDE DEF e
  <2> QED
    BY <1>5, IndexChange
<1>8. n = (idx.hot_bytes - H) + G /\ n <= idx.hot_bytes + rec.size
  <2> HIDE DEF H, G, over
  <2> QED
    BY <1>6, <1>7
<1>9. Exact(new)
  BY <1>7, <1>8
<1>10. HotInserted(new, idx, tp, o, rec)
  <2>1. new.parts[tp] = e /\ new.hot_bytes = n /\ \A q \in Partitions \ {tp} : new.parts[q] = idx.parts[q]
    BY <1>1
  <2> HIDE DEF n, m, put, new
  <2> QED
    BY <1>2, <1>3, <1>8, <2>1 DEF HotInserted, Elsewhere
<1> QED
  BY <1>4, <1>9, <1>10

\* What remove_hot and flip_to_cold take out of the hot map.
HotRemoved(new, idx, tp, O) ==
    /\ Elsewhere(new, idx, tp)
    /\ Remains(new.parts[tp].hot, idx.parts[tp].hot, O)
    /\ new.hot_bytes <= idx.hot_bytes

\* Entries that differ in the hot records taken out and in what is cold.
LEMMA HotRemovedExact ==
    ASSUME NEW idx, Exact(idx), NEW tp \in Partitions, NEW O \in SUBSET DOMAIN idx.parts[tp].hot,
           NEW cold \in Colds, NEW m \in Ends, NEW new,
           new = [parts |-> [idx.parts EXCEPT ![tp] =
                                [hot |-> Without(idx.parts[tp].hot, O), cold |-> cold, next_offset |-> m]],
                  hot_bytes |-> idx.hot_bytes - HotSize(idx.parts[tp].hot, O)]
    PROVE  /\ Exact(new) /\ HotRemoved(new, idx, tp, O)
           /\ new.parts[tp].cold = cold /\ new.parts[tp].next_offset = m
<1> DEFINE hot == idx.parts[tp].hot
           left == Without(hot, O)
           e == [hot |-> left, cold |-> cold, next_offset |-> m]
           n == idx.hot_bytes - HotSize(hot, O)
           H == HotSize(hot, DOMAIN hot)
           G == HotSize(left, DOMAIN left)
           T == HotSize(hot, O)
<1>1. /\ idx \in Indexes /\ hot \in Hots /\ idx.parts \in [Partitions -> Entries]
  BY DEF Exact, Indexes, Entries
<1>2. left \in Hots /\ Remains(left, hot, O)
  <2>1. hot \in Maps(Offsets, Record)
    BY <1>1 DEF Hots
  <2> HIDE DEF hot
  <2>2. left \in Maps(Offsets, Record) /\ Remains(left, hot, O)
    BY <2>1, WithoutFields
  <2> QED
    BY <2>2 DEF Hots
<1>3. e \in Entries /\ e.hot = left
  BY <1>2 DEF Entries
<1>4. H \in Nat /\ T \in Nat /\ T <= H /\ G = H - T
  <2>1. O \in SUBSET DOMAIN hot
    OBVIOUS
  <2> HIDE DEF hot
  <2> QED
    BY <1>1, <2>1, HotSizeWithout
<1> DEFINE next == [parts |-> [idx.parts EXCEPT ![tp] = e], hot_bytes |-> n]
<1>5. /\ H <= idx.hot_bytes /\ idx.hot_bytes \in Nat
      /\ n = (idx.hot_bytes - H) + G => Exact(next)
  <2> HIDE DEF e
  <2> QED
    BY <1>3, IndexChange
<1>6. n = (idx.hot_bytes - H) + G /\ n <= idx.hot_bytes
  <2> HIDE DEF H, G
  <2>1. n = idx.hot_bytes - T
    OBVIOUS
  <2> HIDE DEF n, T
  <2> QED
    BY <1>4, <1>5, <2>1
<1>7. new = next
  OBVIOUS
<1>8. Exact(new)
  BY <1>5, <1>6, <1>7
<1>9. new.parts[tp] = e /\ new.hot_bytes = n /\ \A q \in Partitions \ {tp} : new.parts[q] = idx.parts[q]
  BY <1>1
<1> QED
  BY <1>2, <1>6, <1>8, <1>9 DEF HotRemoved, Elsewhere

\* remove_hot takes the bytes of the record with it.
LEMMA RemoveHotExact ==
    ASSUME NEW idx, Exact(idx), NEW tp \in Partitions, NEW o
    PROVE  /\ Exact(remove_hot(idx, tp, o))
           /\ HotRemoved(remove_hot(idx, tp, o), idx, tp, {o} \cap DOMAIN idx.parts[tp].hot)
           /\ remove_hot(idx, tp, o).parts[tp].cold = idx.parts[tp].cold
           /\ remove_hot(idx, tp, o).parts[tp].next_offset = idx.parts[tp].next_offset
<1> DEFINE e == idx.parts[tp]
           O == {o} \cap DOMAIN e.hot
           new == remove_hot(idx, tp, o)
<1>1. Without(e.hot, {o}) = Without(e.hot, O)
  <2>1. DOMAIN e.hot \ {o} = DOMAIN e.hot \ O
    OBVIOUS
  <2> HIDE DEF O, e
  <2> QED
    BY <2>1 DEF Without
<1>2. new = [parts |-> [idx.parts EXCEPT ![tp] =
                           [hot |-> Without(e.hot, O), cold |-> e.cold, next_offset |-> e.next_offset]],
             hot_bytes |-> idx.hot_bytes - HotSize(e.hot, O)]
  BY <1>1 DEF remove_hot
<1>3. O \in SUBSET DOMAIN idx.parts[tp].hot /\ e.cold \in Colds /\ e.next_offset \in Ends
  BY DEF Exact, Indexes, Entries
<1> HIDE DEF O, new
<1>4. /\ Exact(new) /\ HotRemoved(new, idx, tp, O)
      /\ new.parts[tp].cold = e.cold /\ new.parts[tp].next_offset = e.next_offset
  BY <1>2, <1>3, HotRemovedExact
<1> QED
  BY <1>4 DEF O, new

\* What flip_to_cold, insert_cold and replace_cold do to the cold map and the next offset.
ColdSet(new, idx, tp, base, start, end, key, size) ==
    /\ Stored(new.parts[tp].cold, base, start, ObjectRange(end, key, size))
    /\ Raised(new.parts[tp].next_offset, idx.parts[tp].next_offset, end)

\* The cold map with a range, and the next offset past it.
LEMMA ColdStored ==
    ASSUME NEW base \in Colds, NEW m \in Ends, NEW start \in Offsets, NEW end \in Ends,
           NEW key \in Keys, NEW size \in Nat
    PROVE  /\ Put(base, start, ObjectRange(end, key, size)) \in Colds
           /\ Stored(Put(base, start, ObjectRange(end, key, size)), base, start, ObjectRange(end, key, size))
           /\ Max({m, end}) \in Ends /\ Raised(Max({m, end}), m, end)
<1>1. ObjectRange(end, key, size) \in Ranges
  BY DEF ObjectRange, Ranges
<1>2. /\ Put(base, start, ObjectRange(end, key, size)) \in Colds
      /\ Stored(Put(base, start, ObjectRange(end, key, size)), base, start, ObjectRange(end, key, size))
  BY <1>1, PutFields DEF Colds
<1>3. m \in Nat /\ end \in Nat /\ m <= MaxOffset /\ end <= MaxOffset /\ MaxOffset \in Nat
  BY StoreConstants DEF Ends
<1>4. Max({m, end}) \in Nat /\ (Max({m, end}) = m \/ Max({m, end}) = end) /\ m <= Max({m, end}) /\ end <= Max({m, end})
  BY <1>3, MaxOfTwo
<1>5. Max({m, end}) \in Ends /\ Raised(Max({m, end}), m, end)
  BY <1>3, <1>4 DEF Ends, Raised
<1> QED
  BY <1>2, <1>5

\* flip_to_cold takes the bytes of the evicted records with them.
LEMMA FlipExact ==
    ASSUME NEW idx, Exact(idx), NEW tp \in Partitions, NEW start \in Offsets, NEW end \in Ends,
           NEW key \in Keys, NEW size \in Nat
    PROVE  /\ Exact(flip_to_cold(idx, tp, start, end, key, size))
           /\ HotRemoved(flip_to_cold(idx, tp, start, end, key, size), idx, tp,
                         KeysIn(idx.parts[tp].hot, start, end))
           /\ ColdSet(flip_to_cold(idx, tp, start, end, key, size), idx, tp, idx.parts[tp].cold,
                      start, end, key, size)
<1> DEFINE e == idx.parts[tp]
           O == KeysIn(e.hot, start, end)
           cold == Put(e.cold, start, ObjectRange(end, key, size))
           m == Max({e.next_offset, end})
           new == flip_to_cold(idx, tp, start, end, key, size)
<1>1. e.cold \in Colds /\ e.next_offset \in Ends /\ O \in SUBSET DOMAIN idx.parts[tp].hot
  BY DEF Exact, Indexes, Entries, KeysIn
<1>2. /\ cold \in Colds /\ Stored(cold, e.cold, start, ObjectRange(end, key, size))
      /\ m \in Ends /\ Raised(m, e.next_offset, end)
  <2> HIDE DEF e
  <2> QED
    BY <1>1, ColdStored
<1>3. new = [parts |-> [idx.parts EXCEPT ![tp] =
                           [hot |-> Without(e.hot, O), cold |-> cold, next_offset |-> m]],
             hot_bytes |-> idx.hot_bytes - HotSize(e.hot, O)]
  BY DEF flip_to_cold
<1> HIDE DEF O, cold, m, new
<1>4. /\ Exact(new) /\ HotRemoved(new, idx, tp, O)
      /\ new.parts[tp].cold = cold /\ new.parts[tp].next_offset = m
  BY <1>1, <1>2, <1>3, HotRemovedExact
<1> QED
  BY <1>2, <1>4 DEF ColdSet, O, new

\* The hot records and their count stay.
HotKept(new, idx, tp) ==
    Elsewhere(new, idx, tp) /\ new.parts[tp].hot = idx.parts[tp].hot /\ new.hot_bytes = idx.hot_bytes

\* Entries that differ in what is cold only.
LEMMA ColdExact ==
    ASSUME NEW idx, Exact(idx), NEW tp \in Partitions, NEW base \in Colds, NEW start \in Offsets,
           NEW end \in Ends, NEW key \in Keys, NEW size \in Nat, NEW new,
           new = [idx EXCEPT !.parts[tp] =
                     [hot |-> idx.parts[tp].hot, cold |-> Put(base, start, ObjectRange(end, key, size)),
                      next_offset |-> Max({idx.parts[tp].next_offset, end})]]
    PROVE  Exact(new) /\ HotKept(new, idx, tp) /\ ColdSet(new, idx, tp, base, start, end, key, size)
<1> DEFINE e0 == idx.parts[tp]
           cold == Put(base, start, ObjectRange(end, key, size))
           m == Max({e0.next_offset, end})
           e == [hot |-> e0.hot, cold |-> cold, next_offset |-> m]
           n == idx.hot_bytes
           H == HotSize(e0.hot, DOMAIN e0.hot)
           next == [parts |-> [idx.parts EXCEPT ![tp] = e], hot_bytes |-> n]
<1>1. /\ e0.hot \in Hots /\ e0.next_offset \in Ends
      /\ idx \in Indexes /\ idx.parts \in [Partitions -> Entries]
  BY DEF Exact, Indexes, Entries
<1>2. /\ cold \in Colds /\ Stored(cold, base, start, ObjectRange(end, key, size))
      /\ m \in Ends /\ Raised(m, e0.next_offset, end)
  <2> HIDE DEF e0
  <2> QED
    BY <1>1, ColdStored
<1>3. e \in Entries /\ e.hot = e0.hot
  BY <1>1, <1>2 DEF Entries
<1>4. new = next
  <2> HIDE DEF cold, m
  <2>1. new = [idx EXCEPT !.parts[tp] = e]
    BY DEF cold, m
  <2> HIDE DEF e
  <2> QED
    BY <1>1, <2>1 DEF Indexes
<1>5. H \in Nat /\ H <= n /\ n \in Nat /\ (n = (n - H) + H => Exact(next))
  <2> HIDE DEF e
  <2> QED
    BY <1>3, IndexChange
<1>6. n = (n - H) + H
  <2> HIDE DEF n, H
  <2> QED
    BY <1>5
<1>7. Exact(new)
  BY <1>4, <1>5, <1>6
<1>8. new.parts[tp] = e /\ new.hot_bytes = n /\ \A q \in Partitions \ {tp} : new.parts[q] = idx.parts[q]
  <2> HIDE DEF e
  <2> QED
    BY <1>1, <1>4
<1> QED
  BY <1>2, <1>7, <1>8 DEF HotKept, Elsewhere, ColdSet

\* insert_cold leaves the hot records alone.
LEMMA InsertColdExact ==
    ASSUME NEW idx, Exact(idx), NEW tp \in Partitions, NEW start \in Offsets, NEW end \in Ends,
           NEW key \in Keys, NEW size \in Nat
    PROVE  /\ Exact(insert_cold(idx, tp, start, end, key, size))
           /\ HotKept(insert_cold(idx, tp, start, end, key, size), idx, tp)
           /\ ColdSet(insert_cold(idx, tp, start, end, key, size), idx, tp, idx.parts[tp].cold,
                      start, end, key, size)
<1> DEFINE new == insert_cold(idx, tp, start, end, key, size)
<1>1. idx.parts[tp].cold \in Colds
  BY DEF Exact, Indexes, Entries
<1>2. new = [idx EXCEPT !.parts[tp] =
               [hot |-> idx.parts[tp].hot,
                cold |-> Put(idx.parts[tp].cold, start, ObjectRange(end, key, size)),
                next_offset |-> Max({idx.parts[tp].next_offset, end})]]
  BY DEF insert_cold
<1> HIDE DEF new
<1>3. Exact(new) /\ HotKept(new, idx, tp) /\ ColdSet(new, idx, tp, idx.parts[tp].cold, start, end, key, size)
  BY <1>1, <1>2, ColdExact
<1> QED
  BY <1>3 DEF new

\* Nor does replace_cold.
LEMMA ReplaceColdExact ==
    ASSUME NEW idx, Exact(idx), NEW tp \in Partitions, NEW start \in Offsets, NEW end \in Ends,
           NEW key \in Keys, NEW size \in Nat
    PROVE  /\ Exact(replace_cold(idx, tp, start, end, key, size))
           /\ HotKept(replace_cold(idx, tp, start, end, key, size), idx, tp)
           /\ ColdSet(replace_cold(idx, tp, start, end, key, size), idx, tp,
                      Without(idx.parts[tp].cold, KeysIn(idx.parts[tp].cold, start, end)),
                      start, end, key, size)
<1> DEFINE new == replace_cold(idx, tp, start, end, key, size)
           base == Without(idx.parts[tp].cold, KeysIn(idx.parts[tp].cold, start, end))
<1>1. base \in Colds
  <2>1. idx.parts[tp].cold \in Maps(Offsets, Ranges)
    BY DEF Exact, Indexes, Entries, Colds
  <2> QED
    BY <2>1, WithoutFields DEF Colds
<1>2. new = [idx EXCEPT !.parts[tp] =
               [hot |-> idx.parts[tp].hot,
                cold |-> Put(base, start, ObjectRange(end, key, size)),
                next_offset |-> Max({idx.parts[tp].next_offset, end})]]
  BY DEF replace_cold
<1> HIDE DEF new, base
<1>3. Exact(new) /\ HotKept(new, idx, tp) /\ ColdSet(new, idx, tp, base, start, end, key, size)
  BY <1>1, <1>2, ColdExact
<1> QED
  BY <1>3 DEF new, base

-------------------------------------------------------------------------------
(* The folds of recovery and of tiering.                                   *)

KeepStep(kept, x, S) == IF x \in S THEN Append(kept, x) ELSE kept

\* h has the intermediate results of Keep.
KeepRun(h, s, n, S) ==
    /\ h[0] = <<>> /\ \A i \in 1 .. n : h[i] = KeepStep(h[i - 1], s[i], S)
    /\ Keep(s, S) = h[n]

\* Keep goes through the sequence from its start.
LEMMA KeepFolds ==
    ASSUME NEW K, NEW S, NEW n \in Nat, NEW s \in [1 .. n -> K]
    PROVE  \E h : KeepRun(h, s, n, S)
<1> DEFINE A == Seq(K)
           V == K
           base == <<>>
           Eq(g) == g = [t \in SUBSET (1 .. n) |->
                           IF t = {} THEN base ELSE KeepStep(g[t \ {Max(t)}], s[Max(t)], S)]
           c == CHOOSE g : Eq(g)
           F == [p \in A \X V |-> KeepStep(p[1], p[2], S)]
<1>1. Keep(s, S) = c[1 .. n]
  <2>1. DOMAIN s = 1 .. n
    OBVIOUS
  <2> QED
    BY <2>1 DEF Keep, KeepStep, FoldLeft, MapThenFoldSet
<1>2. /\ F \in [A \X V -> A] /\ base \in A
      /\ \A a \in A, v \in V : F[<<a, v>>] = KeepStep(a, v, S)
  BY DEF KeepStep
<1> HIDE DEF A, V, base
<1>3. PICK g \in [SUBSET (1 .. n) -> A] : Folds(g, n, s, base, F)
  <2> HIDE DEF F
  <2>1. s \in [1 .. n -> V]
    BY DEF V
  <2> QED
    BY <1>2, <2>1, FoldExists
<1>4. ASSUME NEW t \in SUBSET (1 .. n)
      PROVE  g[t] = IF t = {} THEN base ELSE KeepStep(g[t \ {Max(t)}], s[Max(t)], S)
  <2>1. g[t] = IF t = {} THEN base ELSE F[<<g[t \ {Max(t)}], s[Max(t)]>>]
    BY <1>3 DEF Folds
  <2>2. CASE t # {}
    <3>1. Max(t) \in 1 .. n /\ t \ {Max(t)} \in SUBSET (1 .. n)
      BY <2>2, HighestPosition
    <3>2. s[Max(t)] \in V /\ g[t \ {Max(t)}] \in A
      BY <3>1 DEF V
    <3> HIDE DEF F
    <3> QED
      BY <1>2, <2>1, <2>2, <3>2
  <2> QED
    BY <2>1, <2>2
<1>5. Eq(g)
  BY <1>4
<1>6. Eq(c)
  <2> HIDE DEF Eq
  <2> QED
    BY <1>5
<1>7. c[{}] = base /\ \A i \in 1 .. n : c[1 .. i] = KeepStep(c[1 .. i - 1], s[i], S)
  <2>1. c[{}] = base
    BY <1>6
  <2>2. ASSUME NEW i \in 1 .. n PROVE c[1 .. i] = KeepStep(c[1 .. i - 1], s[i], S)
    <3>1. /\ 1 .. i \in SUBSET (1 .. n) /\ 1 .. i # {}
          /\ Max(1 .. i) = i /\ (1 .. i) \ {Max(1 .. i)} = 1 .. i - 1
      BY FoldPrefixes
    <3>2. \A t \in SUBSET (1 .. n) : t # {} => c[t] = KeepStep(c[t \ {Max(t)}], s[Max(t)], S)
      BY <1>6
    <3> HIDE DEF c
    <3> QED
      BY <3>1, <3>2, Zenon
  <2> QED
    BY <2>1, <2>2
<1> DEFINE h == [i \in 0 .. n |-> c[1 .. i]]
<1> HIDE DEF c
<1>8. h[0] = base /\ (\A i \in 1 .. n : h[i] = KeepStep(h[i - 1], s[i], S)) /\ Keep(s, S) = h[n]
  <2>1. 1 .. 0 = {}
    OBVIOUS
  <2>2. h[0] = base
    BY <1>7, <2>1
  <2>3. ASSUME NEW i \in 1 .. n PROVE h[i] = KeepStep(h[i - 1], s[i], S)
    BY <1>7
  <2>4. h[n] = c[1 .. n]
    OBVIOUS
  <2> QED
    BY <1>1, <2>2, <2>3, <2>4
<1> QED
  BY <1>8 DEF base, KeepRun

\* g has the elements of the first n of s that are in S, in their order.
Kept(g, s, n, S) ==
    /\ \A a \in 1 .. Len(g) : g[a] \in S /\ \E i \in 1 .. n : g[a] = s[i]
    /\ \A i \in 1 .. n : s[i] \in S => \E a \in 1 .. Len(g) : g[a] = s[i]
    /\ \A a, b \in 1 .. Len(g) : a < b => \E i, j \in 1 .. n : i < j /\ g[a] = s[i] /\ g[b] = s[j]

\* One step of Keep.
LEMMA KeepOne ==
    ASSUME NEW K, NEW S, NEW n \in Nat \ {0}, NEW s \in [1 .. n -> K], NEW i \in 1 .. n,
           NEW g \in Seq(K), Kept(g, s, i - 1, S)
    PROVE  KeepStep(g, s[i], S) \in Seq(K) /\ Kept(KeepStep(g, s[i], S), s, i, S)
<1>1. s[i] \in K /\ i - 1 \in Nat /\ 1 .. i - 1 \subseteq 1 .. i /\ i \in 1 .. i
      /\ \A j \in 1 .. i : j \in 1 .. i - 1 \/ j = i
  OBVIOUS
<1>2. CASE s[i] \notin S
  <2>1. KeepStep(g, s[i], S) = g
    BY <1>2 DEF KeepStep
  <2> QED
    BY <1>1, <1>2, <2>1 DEF Kept
<1>3. CASE s[i] \in S
  <2> DEFINE f == Append(g, s[i])
  <2>1. KeepStep(g, s[i], S) = f
    BY <1>3 DEF KeepStep
  <2>2. /\ f \in Seq(K) /\ Len(f) = Len(g) + 1 /\ f[Len(g) + 1] = s[i]
        /\ \A a \in 1 .. Len(g) : f[a] = g[a]
    BY <1>1, AppendProperties
  <2> HIDE DEF f
  <2>3. Len(g) \in Nat /\ \A a \in 1 .. Len(f) : a \in 1 .. Len(g) \/ a = Len(g) + 1
    BY <2>2
  <2>4. Len(g) + 1 \in 1 .. Len(f) /\ 1 .. Len(g) \subseteq 1 .. Len(f)
    BY <2>2, <2>3
  <2>5. ASSUME NEW a \in 1 .. Len(f) PROVE f[a] \in S /\ \E j \in 1 .. i : f[a] = s[j]
    <3>1. CASE a \in 1 .. Len(g)
      BY <1>1, <2>2, <3>1 DEF Kept
    <3>2. CASE a = Len(g) + 1
      BY <1>1, <1>3, <2>2, <3>2
    <3> QED
      BY <2>3, <3>1, <3>2
  <2>6. ASSUME NEW j \in 1 .. i, s[j] \in S PROVE \E a \in 1 .. Len(f) : f[a] = s[j]
    <3>1. CASE j \in 1 .. i - 1
      <4>1. PICK a \in 1 .. Len(g) : g[a] = s[j]
        BY <2>6, <3>1 DEF Kept
      <4> QED
        BY <2>2, <2>4, <4>1
    <3>2. CASE j = i
      BY <2>2, <2>4, <3>2
    <3> QED
      BY <1>1, <3>1, <3>2
  <2>7. ASSUME NEW a \in 1 .. Len(f), NEW b \in 1 .. Len(f), a < b
        PROVE  \E k, j \in 1 .. i : k < j /\ f[a] = s[k] /\ f[b] = s[j]
    <3>1. a \in 1 .. Len(g)
      BY <2>2, <2>3, <2>7
    <3>2. CASE b \in 1 .. Len(g)
      <4>1. PICK k \in 1 .. i - 1, j \in 1 .. i - 1 : k < j /\ g[a] = s[k] /\ g[b] = s[j]
        BY <2>7, <3>1, <3>2 DEF Kept
      <4> QED
        BY <1>1, <2>2, <3>1, <3>2, <4>1
    <3>3. CASE b = Len(g) + 1
      <4>1. PICK k \in 1 .. i - 1 : g[a] = s[k]
        BY <3>1 DEF Kept
      <4>2. k < i /\ k \in 1 .. i /\ i \in 1 .. i
        OBVIOUS
      <4> QED
        BY <2>2, <3>1, <3>3, <4>1, <4>2
    <3> QED
      BY <2>3, <3>2, <3>3
  <2>8. Kept(f, s, i, S)
    BY <2>5, <2>6, <2>7 DEF Kept
  <2> QED
    BY <2>1, <2>2, <2>8
<1> QED
  BY <1>2, <1>3

\* Keep filters.
LEMMA KeepFields ==
    ASSUME NEW K, NEW S, NEW s \in Seq(K)
    PROVE  Keep(s, S) \in Seq(K) /\ Kept(Keep(s, S), s, Len(s), S)
<1> DEFINE n == Len(s)
           P == [i \in 0 .. n |-> {g \in Seq(K) : Kept(g, s, i, S)}]
<1>1. n \in Nat /\ s \in [1 .. n -> K]
  OBVIOUS
<1>a. PICK h : KeepRun(h, s, n, S)
  <2> HIDE DEF n
  <2> QED
    BY <1>1, KeepFolds
<1>2. /\ h[0] = <<>> /\ \A i \in 1 .. n : h[i] = KeepStep(h[i - 1], s[i], S)
      /\ Keep(s, S) = h[n]
  BY <1>a DEF KeepRun
<1> HIDE DEF n
<1>3. h[0] \in P[0]
  <2>1. <<>> \in Seq(K) /\ Len(<<>>) = 0 /\ 0 \in 0 .. n
    BY <1>1
  <2>2. Kept(<<>>, s, 0, S)
    BY <2>1 DEF Kept
  <2> QED
    BY <1>2, <2>1, <2>2
<1>4. ASSUME NEW i \in 1 .. n, h[i - 1] \in P[i - 1] PROVE h[i] \in P[i]
  <2>1. i - 1 \in 0 .. n /\ i \in 0 .. n /\ n \in Nat \ {0}
    BY <1>1
  <2>2. h[i - 1] \in Seq(K) /\ Kept(h[i - 1], s, i - 1, S)
    BY <1>4, <2>1
  <2>3. h[i] \in Seq(K) /\ Kept(h[i], s, i, S)
    <3>1. h[i] = KeepStep(h[i - 1], s[i], S)
      BY <1>2
    <3>2. KeepStep(h[i - 1], s[i], S) \in Seq(K) /\ Kept(KeepStep(h[i - 1], s[i], S), s, i, S)
      BY <1>1, <2>1, <2>2, KeepOne
    <3> QED
      BY <3>1, <3>2
  <2> QED
    BY <2>1, <2>3
<1>5. \A i \in 0 .. n : h[i] \in P[i]
  <2> HIDE DEF P
  <2> QED
    BY <1>1, <1>3, <1>4, PrefixInduction
<1>6. n \in 0 .. n
  BY <1>1
<1> QED
  BY <1>2, <1>5, <1>6 DEF n

\* h has the intermediate results of recover.
JoinRun(h, s, n, disk) ==
    /\ h[0] = <<>> /\ \A i \in 1 .. n : h[i] = h[i - 1] \o disk[s[i]]
    /\ Joined(disk, s) = h[n]

\* The segments are joined from the first on.
LEMMA JoinFolds ==
    ASSUME NEW D, NEW R, NEW disk \in [D -> Seq(R)], NEW n \in Nat, NEW s \in [1 .. n -> D]
    PROVE  \E h : JoinRun(h, s, n, disk)
<1> DEFINE A == Seq(R)
           V == D
           base == <<>>
           Eq(g) == g = [t \in SUBSET (1 .. n) |->
                           IF t = {} THEN base ELSE g[t \ {Max(t)}] \o disk[s[Max(t)]]]
           c == CHOOSE g : Eq(g)
           F == [p \in A \X V |-> p[1] \o disk[p[2]]]
<1>1. Joined(disk, s) = c[1 .. n]
  <2>1. DOMAIN s = 1 .. n
    OBVIOUS
  <2> QED
    BY <2>1 DEF Joined, FoldLeft, MapThenFoldSet
<1>2. /\ F \in [A \X V -> A] /\ base \in A
      /\ \A a \in A, v \in V : F[<<a, v>>] = a \o disk[v]
  <2>1. ASSUME NEW a \in A, NEW v \in V PROVE a \o disk[v] \in A
    <3>1. disk[v] \in Seq(R) /\ a \in Seq(R)
      OBVIOUS
    <3> QED
      BY <3>1, ConcatProperties
  <2>2. base \in A
    OBVIOUS
  <2> HIDE DEF A, V
  <2> QED
    BY <2>1, <2>2
<1> HIDE DEF A, V, base
<1>3. PICK g \in [SUBSET (1 .. n) -> A] : Folds(g, n, s, base, F)
  <2> HIDE DEF F
  <2>1. s \in [1 .. n -> V]
    BY DEF V
  <2> QED
    BY <1>2, <2>1, FoldExists
<1>4. ASSUME NEW t \in SUBSET (1 .. n)
      PROVE  g[t] = IF t = {} THEN base ELSE g[t \ {Max(t)}] \o disk[s[Max(t)]]
  <2>1. g[t] = IF t = {} THEN base ELSE F[<<g[t \ {Max(t)}], s[Max(t)]>>]
    BY <1>3 DEF Folds
  <2>2. CASE t # {}
    <3>1. Max(t) \in 1 .. n /\ t \ {Max(t)} \in SUBSET (1 .. n)
      BY <2>2, HighestPosition
    <3>2. s[Max(t)] \in V /\ g[t \ {Max(t)}] \in A
      BY <3>1 DEF V
    <3> HIDE DEF F
    <3> QED
      BY <1>2, <2>1, <2>2, <3>2
  <2> QED
    BY <2>1, <2>2
<1>5. Eq(g)
  BY <1>4
<1>6. Eq(c)
  <2> HIDE DEF Eq
  <2> QED
    BY <1>5
<1>7. c[{}] = base /\ \A i \in 1 .. n : c[1 .. i] = c[1 .. i - 1] \o disk[s[i]]
  <2>1. c[{}] = base
    BY <1>6
  <2>2. ASSUME NEW i \in 1 .. n PROVE c[1 .. i] = c[1 .. i - 1] \o disk[s[i]]
    <3>1. /\ 1 .. i \in SUBSET (1 .. n) /\ 1 .. i # {}
          /\ Max(1 .. i) = i /\ (1 .. i) \ {Max(1 .. i)} = 1 .. i - 1
      BY FoldPrefixes
    <3>2. \A t \in SUBSET (1 .. n) : t # {} => c[t] = c[t \ {Max(t)}] \o disk[s[Max(t)]]
      BY <1>6
    <3> HIDE DEF c
    <3> QED
      BY <3>1, <3>2, Zenon
  <2> QED
    BY <2>1, <2>2
<1> DEFINE h == [i \in 0 .. n |-> c[1 .. i]]
<1> HIDE DEF c
<1>8. h[0] = base /\ (\A i \in 1 .. n : h[i] = h[i - 1] \o disk[s[i]]) /\ Joined(disk, s) = h[n]
  <2>1. 1 .. 0 = {}
    OBVIOUS
  <2>2. h[0] = base
    BY <1>7, <2>1
  <2>3. ASSUME NEW i \in 1 .. n PROVE h[i] = h[i - 1] \o disk[s[i]]
    <3>1. h[i] = c[1 .. i] /\ h[i - 1] = c[1 .. i - 1]
      OBVIOUS
    <3> HIDE DEF h
    <3> QED
      BY <1>7, <3>1
  <2>4. h[n] = c[1 .. n]
    OBVIOUS
  <2> QED
    BY <1>1, <2>2, <2>3, <2>4
<1> QED
  BY <1>8 DEF base, JoinRun

\* g has the records of the first n segments of s.
HasAll(g, disk, s, n) ==
    /\ \A a \in 1 .. Len(g) : \E i \in 1 .. n : \E j \in 1 .. Len(disk[s[i]]) : g[a] = disk[s[i]][j]
    /\ \A i \in 1 .. n : \A j \in 1 .. Len(disk[s[i]]) : \E a \in 1 .. Len(g) : g[a] = disk[s[i]][j]

\* One more segment.
LEMMA JoinOne ==
    ASSUME NEW D, NEW R, NEW disk \in [D -> Seq(R)], NEW n \in Nat, NEW s \in [1 .. n -> D],
           NEW i \in 1 .. n, NEW g \in Seq(R), HasAll(g, disk, s, i - 1)
    PROVE  g \o disk[s[i]] \in Seq(R) /\ HasAll(g \o disk[s[i]], disk, s, i)
<1> DEFINE d == disk[s[i]]
           f == g \o d
<1>1. /\ d \in Seq(R) /\ i - 1 \in Nat /\ 1 .. i - 1 \subseteq 1 .. i /\ i \in 1 .. i
      /\ \A k \in 1 .. i : k \in 1 .. i - 1 \/ k = i
  OBVIOUS
<1>2. /\ f \in Seq(R) /\ Len(f) = Len(g) + Len(d)
      /\ \A a \in 1 .. Len(f) : f[a] = IF a <= Len(g) THEN g[a] ELSE d[a - Len(g)]
  <2> HIDE DEF d
  <2> QED
    BY <1>1, ConcatProperties
<1>3. Len(g) \in Nat /\ Len(d) \in Nat
  BY <1>1
<1> HIDE DEF f
<1>4. ASSUME NEW a \in 1 .. Len(f)
      PROVE  \E k \in 1 .. i : \E j \in 1 .. Len(disk[s[k]]) : f[a] = disk[s[k]][j]
  <2>1. CASE a <= Len(g)
    <3>1. a \in 1 .. Len(g) /\ f[a] = g[a]
      BY <1>2, <1>3, <2>1
    <3>2. PICK k \in 1 .. i - 1 : \E j \in 1 .. Len(disk[s[k]]) : g[a] = disk[s[k]][j]
      BY <3>1 DEF HasAll
    <3> QED
      BY <1>1, <3>1, <3>2
  <2>2. CASE ~ (a <= Len(g))
    <3>1. a - Len(g) \in 1 .. Len(d) /\ f[a] = d[a - Len(g)]
      BY <1>2, <1>3, <2>2
    <3> QED
      BY <1>1, <3>1
  <2> QED
    BY <2>1, <2>2
<1>5. ASSUME NEW k \in 1 .. i, NEW j \in 1 .. Len(disk[s[k]])
      PROVE  \E a \in 1 .. Len(f) : f[a] = disk[s[k]][j]
  <2>1. CASE k \in 1 .. i - 1
    <3>1. PICK a \in 1 .. Len(g) : g[a] = disk[s[k]][j]
      BY <2>1 DEF HasAll
    <3>2. a \in 1 .. Len(f) /\ f[a] = g[a]
      BY <1>2, <1>3
    <3> QED
      BY <3>1, <3>2
  <2>2. CASE k = i
    <3>1. j \in 1 .. Len(d)
      BY <2>2
    <3>2. Len(g) + j \in 1 .. Len(f) /\ ~ (Len(g) + j <= Len(g)) /\ (Len(g) + j) - Len(g) = j
      BY <1>2, <1>3, <3>1
    <3>3. f[Len(g) + j] = d[j]
      BY <1>2, <3>2
    <3> QED
      BY <2>2, <3>2, <3>3
  <2> QED
    BY <1>1, <2>1, <2>2
<1>6. HasAll(f, disk, s, i)
  BY <1>4, <1>5 DEF HasAll
<1> QED
  BY <1>2, <1>6 DEF f

\* Joining keeps all records.
LEMMA JoinFields ==
    ASSUME NEW D, NEW R, NEW disk \in [D -> Seq(R)], NEW s \in Seq(D)
    PROVE  Joined(disk, s) \in Seq(R) /\ HasAll(Joined(disk, s), disk, s, Len(s))
<1> DEFINE n == Len(s)
           P == [i \in 0 .. n |-> {g \in Seq(R) : HasAll(g, disk, s, i)}]
<1>1. n \in Nat /\ s \in [1 .. n -> D]
  OBVIOUS
<1>a. PICK h : JoinRun(h, s, n, disk)
  <2> HIDE DEF n
  <2> QED
    BY <1>1, JoinFolds
<1>2. /\ h[0] = <<>> /\ \A i \in 1 .. n : h[i] = h[i - 1] \o disk[s[i]]
      /\ Joined(disk, s) = h[n]
  BY <1>a DEF JoinRun
<1> HIDE DEF n
<1>3. h[0] \in P[0]
  <2>1. <<>> \in Seq(R) /\ Len(<<>>) = 0 /\ 0 \in 0 .. n
    BY <1>1
  <2>2. HasAll(<<>>, disk, s, 0)
    BY <2>1 DEF HasAll
  <2> QED
    BY <1>2, <2>1, <2>2
<1>4. ASSUME NEW i \in 1 .. n, h[i - 1] \in P[i - 1] PROVE h[i] \in P[i]
  <2>1. i - 1 \in 0 .. n /\ i \in 0 .. n
    BY <1>1
  <2>2. h[i - 1] \in Seq(R) /\ HasAll(h[i - 1], disk, s, i - 1)
    BY <1>4, <2>1
  <2>3. h[i] \in Seq(R) /\ HasAll(h[i], disk, s, i)
    <3>1. h[i] = h[i - 1] \o disk[s[i]]
      BY <1>2
    <3>2. h[i - 1] \o disk[s[i]] \in Seq(R) /\ HasAll(h[i - 1] \o disk[s[i]], disk, s, i)
      BY <1>1, <2>2, JoinOne
    <3> QED
      BY <3>1, <3>2
  <2> QED
    BY <2>1, <2>3
<1>5. \A i \in 0 .. n : h[i] \in P[i]
  <2> HIDE DEF P
  <2> QED
    BY <1>1, <1>3, <1>4, PrefixInduction
<1>6. n \in 0 .. n
  BY <1>1
<1> QED
  BY <1>2, <1>5, <1>6 DEF n

\* Recovery's replay of records over a base index.
ExactIndexes == {idx \in Indexes : Exact(idx)}
Loaded(base, s) == FoldLeft(LAMBDA idx, r : insert_hot(idx, r.tp, r.off, r), base, s)

\* h has the intermediate indexes of a replay.
LoadRun(h, s, n, base0) ==
    /\ h[0] = base0 /\ \A i \in 1 .. n : h[i] = insert_hot(h[i - 1], s[i].tp, s[i].off, s[i])
    /\ Loaded(base0, s) = h[n]

\* The records are inserted from the first on.
LEMMA LoadFolds ==
    ASSUME NEW base0 \in ExactIndexes, NEW n \in Nat, NEW s \in [1 .. n -> Record]
    PROVE  \E h : LoadRun(h, s, n, base0)
<1> DEFINE A == ExactIndexes
           V == Record
           base == base0
           Eq(g) == g = [t \in SUBSET (1 .. n) |->
                           IF t = {} THEN base ELSE insert_hot(g[t \ {Max(t)}], s[Max(t)].tp, s[Max(t)].off, s[Max(t)])]
           c == CHOOSE g : Eq(g)
           F == [p \in A \X V |-> insert_hot(p[1], p[2].tp, p[2].off, p[2])]
<1>1. Loaded(base0, s) = c[1 .. n]
  <2>1. DOMAIN s = 1 .. n
    OBVIOUS
  <2> QED
    BY <2>1 DEF Loaded, FoldLeft, MapThenFoldSet
<1>2. /\ F \in [A \X V -> A] /\ base \in A
      /\ \A a \in A, v \in V : F[<<a, v>>] = insert_hot(a, v.tp, v.off, v)
  <2>1. ASSUME NEW a \in A, NEW v \in V PROVE insert_hot(a, v.tp, v.off, v) \in A
    <3>1. v.tp \in Partitions /\ v.off \in Offsets /\ v \in Record /\ Exact(a)
      BY DEF Record, ExactIndexes
    <3>2. Exact(insert_hot(a, v.tp, v.off, v))
      BY <3>1, InsertHotExact
    <3> QED
      BY <3>2 DEF ExactIndexes, Exact
  <2> HIDE DEF A, V
  <2> QED
    BY <2>1 DEF A
<1> HIDE DEF A, V, base
<1>3. PICK g \in [SUBSET (1 .. n) -> A] : Folds(g, n, s, base, F)
  <2> HIDE DEF F
  <2>1. s \in [1 .. n -> V]
    BY DEF V
  <2> QED
    BY <1>2, <2>1, FoldExists
<1>4. ASSUME NEW t \in SUBSET (1 .. n)
      PROVE  g[t] = IF t = {} THEN base ELSE insert_hot(g[t \ {Max(t)}], s[Max(t)].tp, s[Max(t)].off, s[Max(t)])
  <2>1. g[t] = IF t = {} THEN base ELSE F[<<g[t \ {Max(t)}], s[Max(t)]>>]
    BY <1>3 DEF Folds
  <2>2. CASE t # {}
    <3>1. Max(t) \in 1 .. n /\ t \ {Max(t)} \in SUBSET (1 .. n)
      BY <2>2, HighestPosition
    <3>2. s[Max(t)] \in V /\ g[t \ {Max(t)}] \in A
      BY <3>1 DEF V
    <3> HIDE DEF F
    <3> QED
      BY <1>2, <2>1, <2>2, <3>2
  <2> QED
    BY <2>1, <2>2
<1>5. Eq(g)
  BY <1>4
<1>6. Eq(c)
  <2> HIDE DEF Eq
  <2> QED
    BY <1>5
<1>7. c[{}] = base /\ \A i \in 1 .. n : c[1 .. i] = insert_hot(c[1 .. i - 1], s[i].tp, s[i].off, s[i])
  <2>1. c[{}] = base
    BY <1>6
  <2>2. ASSUME NEW i \in 1 .. n PROVE c[1 .. i] = insert_hot(c[1 .. i - 1], s[i].tp, s[i].off, s[i])
    <3>1. /\ 1 .. i \in SUBSET (1 .. n) /\ 1 .. i # {}
          /\ Max(1 .. i) = i /\ (1 .. i) \ {Max(1 .. i)} = 1 .. i - 1
      BY FoldPrefixes
    <3>2. \A t \in SUBSET (1 .. n) : t # {} => c[t] = insert_hot(c[t \ {Max(t)}], s[Max(t)].tp, s[Max(t)].off, s[Max(t)])
      BY <1>6
    <3> HIDE DEF c
    <3> QED
      BY <3>1, <3>2, Zenon
  <2> QED
    BY <2>1, <2>2
<1> DEFINE h == [i \in 0 .. n |-> c[1 .. i]]
<1> HIDE DEF c
<1>8. h[0] = base /\ (\A i \in 1 .. n : h[i] = insert_hot(h[i - 1], s[i].tp, s[i].off, s[i])) /\ Loaded(base0, s) = h[n]
  <2>1. 1 .. 0 = {}
    OBVIOUS
  <2>2. h[0] = base
    BY <1>7, <2>1
  <2>3. ASSUME NEW i \in 1 .. n PROVE h[i] = insert_hot(h[i - 1], s[i].tp, s[i].off, s[i])
    <3>1. h[i] = c[1 .. i] /\ h[i - 1] = c[1 .. i - 1]
      OBVIOUS
    <3> HIDE DEF h
    <3> QED
      BY <1>7, <3>1
  <2>4. h[n] = c[1 .. n]
    OBVIOUS
  <2> QED
    BY <1>1, <2>2, <2>3, <2>4
<1> QED
  BY <1>8 DEF base, LoadRun

\* An index that the first n records of s were inserted into, on top of base, which has
\* no hot records.
Filled(idx, base, s, n) ==
    /\ Exact(idx)
    /\ \A tp \in Partitions :
          /\ idx.parts[tp].cold = base.parts[tp].cold
          /\ idx.parts[tp].next_offset >= base.parts[tp].next_offset
          /\ \A o \in DOMAIN idx.parts[tp].hot :
                /\ o < idx.parts[tp].next_offset
                /\ \E i \in 1 .. n : idx.parts[tp].hot[o] = s[i] /\ s[i].tp = tp /\ s[i].off = o
    /\ \A i \in 1 .. n : s[i].off \in DOMAIN idx.parts[s[i].tp].hot

\* One more record.
LEMMA LoadOne ==
    ASSUME NEW base \in Indexes, NEW n \in Nat, NEW s \in [1 .. n -> Record], NEW i \in 1 .. n,
           NEW idx, Filled(idx, base, s, i - 1)
    PROVE  Filled(insert_hot(idx, s[i].tp, s[i].off, s[i]), base, s, i)
<1> DEFINE r == s[i]
           tp == r.tp
           o == r.off
           new == insert_hot(idx, tp, o, r)
<1>1. /\ r \in Record /\ tp \in Partitions /\ o \in Offsets /\ Exact(idx)
      /\ 1 .. i - 1 \subseteq 1 .. i /\ i \in 1 .. i /\ \A k \in 1 .. i : k \in 1 .. i - 1 \/ k = i
  BY DEF Record, Filled
<1>2. Exact(new) /\ HotInserted(new, idx, tp, o, r)
  <2> HIDE DEF r, tp, o
  <2> QED
    BY <1>1, InsertHotExact
<1>3. /\ \A q \in Partitions \ {tp} : new.parts[q] = idx.parts[q]
      /\ DOMAIN new.parts[tp].hot = DOMAIN idx.parts[tp].hot \cup {o} /\ new.parts[tp].hot[o] = r
      /\ \A x \in DOMAIN idx.parts[tp].hot : x # o => new.parts[tp].hot[x] = idx.parts[tp].hot[x]
      /\ new.parts[tp].cold = idx.parts[tp].cold
      /\ new.parts[tp].next_offset >= idx.parts[tp].next_offset /\ new.parts[tp].next_offset >= o + 1
  BY <1>2 DEF HotInserted, Elsewhere, Stored, Raised
<1>4. \A q \in Partitions :
         /\ idx.parts[q].next_offset \in Nat /\ new.parts[q].next_offset \in Nat /\ base.parts[q].next_offset \in Nat
         /\ DOMAIN idx.parts[q].hot \subseteq Nat
  <2>1. idx \in Indexes /\ new \in Indexes
    BY <1>2 DEF Exact, Filled
  <2> HIDE DEF new
  <2> SUFFICES ASSUME NEW q \in Partitions
               PROVE  /\ idx.parts[q].next_offset \in Nat /\ new.parts[q].next_offset \in Nat
                      /\ base.parts[q].next_offset \in Nat /\ DOMAIN idx.parts[q].hot \subseteq Nat
    OBVIOUS
  <2>2. idx.parts[q].hot \in Hots
    BY <2>1 DEF Indexes, Entries
  <2>3. DOMAIN idx.parts[q].hot \subseteq Offsets
    BY <2>2, MapFields DEF Hots
  <2> QED
    BY <2>1, <2>3 DEF Indexes, Entries, Ends, Offsets
<1>5. o \in Nat
  BY <1>1 DEF Offsets
<1> HIDE DEF new, tp, o
<1>6. ASSUME NEW q \in Partitions
      PROVE  /\ new.parts[q].cold = base.parts[q].cold
             /\ new.parts[q].next_offset >= base.parts[q].next_offset
  <2>1. idx.parts[q].cold = base.parts[q].cold /\ idx.parts[q].next_offset >= base.parts[q].next_offset
    BY DEF Filled
  <2>2. CASE q = tp
    BY <1>3, <1>4, <2>1, <2>2
  <2>3. CASE q # tp
    BY <1>3, <2>1, <2>3
  <2> QED
    BY <2>2, <2>3
<1>7. ASSUME NEW q \in Partitions, NEW x \in DOMAIN new.parts[q].hot
      PROVE  /\ x < new.parts[q].next_offset
             /\ \E k \in 1 .. i : new.parts[q].hot[x] = s[k] /\ s[k].tp = q /\ s[k].off = x
  <2>1. CASE q = tp /\ x = o
    <3>1. x < new.parts[q].next_offset
      BY <1>3, <1>4, <1>5, <2>1
    <3>2. new.parts[q].hot[x] = s[i] /\ s[i].tp = q /\ s[i].off = x
      BY <1>3, <2>1 DEF tp, o, r
    <3> QED
      BY <1>1, <3>1, <3>2
  <2>2. CASE ~ (q = tp /\ x = o)
    <3>1. /\ x \in DOMAIN idx.parts[q].hot /\ new.parts[q].hot[x] = idx.parts[q].hot[x]
          /\ new.parts[q].next_offset >= idx.parts[q].next_offset
      <4>1. CASE q = tp
        BY <1>3, <2>2, <4>1
      <4>2. CASE q # tp
        <5>1. new.parts[q] = idx.parts[q]
          BY <1>3, <4>2
        <5>2. idx.parts[q].next_offset \in Nat
          BY <1>4
        <5> QED
          BY <5>1, <5>2
      <4> QED
        BY <4>1, <4>2
    <3>2. /\ x < idx.parts[q].next_offset
          /\ \E k \in 1 .. i - 1 : idx.parts[q].hot[x] = s[k] /\ s[k].tp = q /\ s[k].off = x
      BY <3>1 DEF Filled
    <3>3. x < new.parts[q].next_offset
      BY <1>4, <3>1, <3>2
    <3> QED
      BY <1>1, <3>1, <3>2, <3>3
  <2> QED
    BY <2>1, <2>2
<1>8. ASSUME NEW k \in 1 .. i PROVE s[k].off \in DOMAIN new.parts[s[k].tp].hot
  <2>1. s[k] \in Record /\ s[k].tp \in Partitions
    BY DEF Record
  <2>2. CASE k = i
    BY <1>3, <2>2 DEF tp, o, r
  <2>3. CASE k \in 1 .. i - 1
    <3>1. s[k].off \in DOMAIN idx.parts[s[k].tp].hot
      BY <2>3 DEF Filled
    <3> QED
      BY <1>3, <2>1, <3>1
  <2> QED
    BY <1>1, <2>2, <2>3
<1>9. Filled(new, base, s, i)
  BY <1>2, <1>6, <1>7, <1>8 DEF Filled
<1> QED
  BY <1>9 DEF new, tp, o, r

\* No hot records.
NoHot(idx) == \A tp \in Partitions : DOMAIN idx.parts[tp].hot = {}

\* What a replay leaves.
LEMMA LoadFields ==
    ASSUME NEW base, Exact(base), NoHot(base), NEW s \in Seq(Record)
    PROVE  Filled(Loaded(base, s), base, s, Len(s))
<1> DEFINE n == Len(s)
           P == [i \in 0 .. n |-> {idx \in Indexes : Filled(idx, base, s, i)}]
<1>1. n \in Nat /\ s \in [1 .. n -> Record] /\ base \in ExactIndexes /\ base \in Indexes
  BY DEF ExactIndexes, Exact
<1>a. PICK h : LoadRun(h, s, n, base)
  <2> HIDE DEF n
  <2> QED
    BY <1>1, LoadFolds
<1>2. /\ h[0] = base /\ \A i \in 1 .. n : h[i] = insert_hot(h[i - 1], s[i].tp, s[i].off, s[i])
      /\ Loaded(base, s) = h[n]
  BY <1>a DEF LoadRun
<1> HIDE DEF n
<1>3. h[0] \in P[0]
  <2>1. 0 \in 0 .. n
    BY <1>1
  <2>2. \A tp \in Partitions : base.parts[tp].next_offset \in Nat
    BY <1>1 DEF Indexes, Entries, Ends
  <2>3. Filled(base, base, s, 0)
    BY <2>2 DEF Filled, NoHot
  <2> QED
    BY <1>1, <1>2, <2>1, <2>3
<1>4. ASSUME NEW i \in 1 .. n, h[i - 1] \in P[i - 1] PROVE h[i] \in P[i]
  <2>1. i - 1 \in 0 .. n /\ i \in 0 .. n
    BY <1>1
  <2>2. Filled(h[i - 1], base, s, i - 1)
    BY <1>4, <2>1
  <2>3. Filled(h[i], base, s, i)
    <3>1. h[i] = insert_hot(h[i - 1], s[i].tp, s[i].off, s[i])
      BY <1>2
    <3>2. Filled(insert_hot(h[i - 1], s[i].tp, s[i].off, s[i]), base, s, i)
      BY <1>1, <2>2, LoadOne
    <3> QED
      BY <3>1, <3>2
  <2>4. h[i] \in Indexes
    BY <2>3 DEF Filled, Exact
  <2> QED
    BY <2>1, <2>3, <2>4
<1>5. \A i \in 0 .. n : h[i] \in P[i]
  <2> HIDE DEF P
  <2> QED
    BY <1>1, <1>3, <1>4, PrefixInduction
<1>6. n \in 0 .. n
  BY <1>1
<1> QED
  BY <1>2, <1>5, <1>6 DEF n

\* An index without records counts none.
LEMMA EmptyIndexExact ==
    Exact(EmptyIndex(Partitions)) /\ NoHot(EmptyIndex(Partitions))
<1> DEFINE idx == EmptyIndex(Partitions)
<1>1. <<>> \in Hots /\ <<>> \in Colds /\ DOMAIN <<>> = {}
  BY EmptyMap DEF Hots, Colds
<1>2. EmptyEntries \in Entries /\ EmptyEntries.hot = <<>>
  BY <1>1, StoreConstants DEF EmptyEntries, Entries, Ends
<1>3. idx.parts = [tp \in Partitions |-> EmptyEntries] /\ idx.hot_bytes = 0
  BY DEF EmptyIndex
<1>4. idx \in Indexes
  <2> HIDE DEF idx
  <2>1. idx = [parts |-> [tp \in Partitions |-> EmptyEntries], hot_bytes |-> 0]
    BY DEF idx, EmptyIndex
  <2> QED
    BY <1>2, <2>1 DEF Indexes
<1> HIDE DEF idx
<1>5. \A tp \in Partitions : idx.parts[tp].hot = <<>>
  BY <1>2, <1>3
<1>6. HotSize(<<>>, {}) = 0
  <2>1. {} \in SUBSET DOMAIN <<>>
    OBVIOUS
  <2>2. HotSize(<<>>, {}) = Total(SizesOf(<<>>), {}) /\ IsFiniteSet({})
    BY <1>1, <2>1, HotSizeIsTotal
  <2>3. Total(SizesOf(<<>>), {}) = 0
    BY <2>2, TotalZero
  <2> QED
    BY <2>2, <2>3
<1>7. \A tp \in Partitions : PartBytes(idx)[tp] = 0
  BY <1>1, <1>5, <1>6 DEF PartBytes
<1>8. HotBytes(idx) = 0
  <2>1. IsFiniteSet(Partitions)
    BY StoreConstants
  <2>2. HotBytes(idx) = Total(PartBytes(idx), Partitions)
    BY <1>4, HotBytesIsTotal
  <2>3. Total(PartBytes(idx), Partitions) = 0
    BY <1>7, <2>1, TotalZero
  <2> QED
    BY <2>2, <2>3
<1>9. Exact(idx) /\ NoHot(idx)
  BY <1>1, <1>3, <1>4, <1>5, <1>8 DEF Exact, NoHot
<1> QED
  BY <1>9 DEF idx

\* The ranges of a manifest, each with its partition.
RangesOf(live) == UNION {{<<tp, s>> : s \in DOMAIN live[tp]} : tp \in Partitions}

\* The insertion of one of them.
InsertRange(x, idx, live) ==
    insert_cold(idx, x[1], x[2], live[x[1]][x[2]].end, live[x[1]][x[2]].key, live[x[1]][x[2]].size)

\* A range of a manifest.
LEMMA RangeFields ==
    ASSUME NEW live \in [Partitions -> Colds]
    PROVE  /\ IsFiniteSet(RangesOf(live))
           /\ \A x \in RangesOf(live) :
                 /\ x[1] \in Partitions /\ x[2] \in Offsets /\ x[2] \in DOMAIN live[x[1]] /\ x = <<x[1], x[2]>>
                 /\ live[x[1]][x[2]] \in Ranges
           /\ \A tp \in Partitions : \A s \in DOMAIN live[tp] : <<tp, s>> \in RangesOf(live)
<1>1. ASSUME NEW tp \in Partitions
      PROVE  DOMAIN live[tp] \subseteq Offsets /\ live[tp] \in [DOMAIN live[tp] -> Ranges]
  <2>1. live[tp] \in Maps(Offsets, Ranges)
    BY DEF Colds
  <2> QED
    BY <2>1, MapFields
<1>2. \A tp \in Partitions : \A s \in DOMAIN live[tp] : <<tp, s>> \in RangesOf(live)
  BY DEF RangesOf
<1>3. \A x \in RangesOf(live) :
         /\ x[1] \in Partitions /\ x[2] \in Offsets /\ x[2] \in DOMAIN live[x[1]] /\ x = <<x[1], x[2]>>
         /\ live[x[1]][x[2]] \in Ranges
  BY <1>1 DEF RangesOf
<1>4. RangesOf(live) \subseteq Partitions \X Offsets
  BY <1>1 DEF RangesOf
<1>5. IsFiniteSet(Partitions \X Offsets)
  <2>1. IsFiniteSet(0 .. MaxOffset - 1)
    BY StoreConstants, FS_Interval
  <2>2. IsFiniteSet(Partitions) /\ IsFiniteSet(Offsets)
    BY <2>1, StoreConstants DEF Offsets
  <2> QED
    BY <2>2, FS_Product
<1>6. IsFiniteSet(RangesOf(live))
  BY <1>4, <1>5, FS_Subset
<1> QED
  BY <1>2, <1>3, <1>6

\* An index with the ranges s of a manifest.
HasRanges(idx, live, s) ==
    /\ Exact(idx) /\ NoHot(idx)
    /\ \A tp \in Partitions :
          /\ DOMAIN idx.parts[tp].cold = {a \in DOMAIN live[tp] : <<tp, a>> \in s}
          /\ \A a \in DOMAIN idx.parts[tp].cold :
                idx.parts[tp].cold[a] = live[tp][a] /\ live[tp][a].end <= idx.parts[tp].next_offset

\* One more range.
LEMMA InsertOne ==
    ASSUME NEW live \in [Partitions -> Colds], NEW s \in SUBSET RangesOf(live), NEW x \in s,
           NEW idx, HasRanges(idx, live, s \ {x})
    PROVE  HasRanges(InsertRange(x, idx, live), live, s)
<1> DEFINE tp == x[1]
           a == x[2]
           seg == live[tp][a]
           new == InsertRange(x, idx, live)
<1>1. /\ tp \in Partitions /\ a \in Offsets /\ a \in DOMAIN live[tp] /\ seg \in Ranges /\ Exact(idx)
      /\ x = <<tp, a>>
  BY RangeFields DEF HasRanges
<1>2. seg.end \in Ends /\ seg.key \in Keys /\ seg.size \in Nat /\ ObjectRange(seg.end, seg.key, seg.size) = seg
  <2> HIDE DEF seg
  <2> QED
    BY <1>1 DEF Ranges, ObjectRange
<1>3. /\ Exact(new) /\ HotKept(new, idx, tp)
      /\ ColdSet(new, idx, tp, idx.parts[tp].cold, a, seg.end, seg.key, seg.size)
  <2>1. new = insert_cold(idx, tp, a, seg.end, seg.key, seg.size)
    BY DEF InsertRange
  <2> HIDE DEF new, tp, a, seg
  <2> QED
    BY <1>1, <1>2, <2>1, InsertColdExact
<1>4. /\ \A q \in Partitions \ {tp} : new.parts[q] = idx.parts[q]
      /\ new.parts[tp].hot = idx.parts[tp].hot
      /\ DOMAIN new.parts[tp].cold = DOMAIN idx.parts[tp].cold \cup {a} /\ new.parts[tp].cold[a] = seg
      /\ \A b \in DOMAIN idx.parts[tp].cold : b # a => new.parts[tp].cold[b] = idx.parts[tp].cold[b]
      /\ new.parts[tp].next_offset >= idx.parts[tp].next_offset /\ new.parts[tp].next_offset >= seg.end
  <2> HIDE DEF new, tp, a, seg
  <2> QED
    BY <1>2, <1>3 DEF HotKept, Elsewhere, ColdSet, Stored, Raised
<1>5. \A q \in Partitions : new.parts[q].next_offset \in Nat /\ idx.parts[q].next_offset \in Nat
  <2> HIDE DEF new
  <2> QED
    BY <1>1, <1>3 DEF Exact, Indexes, Entries, Ends
<1>6. \A q \in Partitions : \A b \in DOMAIN live[q] : live[q][b].end \in Nat
  <2> SUFFICES ASSUME NEW q \in Partitions, NEW b \in DOMAIN live[q] PROVE live[q][b].end \in Nat
    OBVIOUS
  <2>1. live[q] \in Maps(Offsets, Ranges)
    BY DEF Colds
  <2>2. live[q][b] \in Ranges
    BY <2>1, MapFields
  <2> QED
    BY <2>2 DEF Ranges, Ends
<1> HIDE DEF new, tp, a
<1>7. NoHot(new)
  BY <1>1, <1>4 DEF NoHot, HasRanges
<1>8. ASSUME NEW q \in Partitions
      PROVE  /\ DOMAIN new.parts[q].cold = {b \in DOMAIN live[q] : <<q, b>> \in s}
             /\ \A b \in DOMAIN new.parts[q].cold :
                   new.parts[q].cold[b] = live[q][b] /\ live[q][b].end <= new.parts[q].next_offset
  <2>1. /\ DOMAIN idx.parts[q].cold = {b \in DOMAIN live[q] : <<q, b>> \in s \ {x}}
        /\ \A b \in DOMAIN idx.parts[q].cold :
              idx.parts[q].cold[b] = live[q][b] /\ live[q][b].end <= idx.parts[q].next_offset
    BY DEF HasRanges
  <2>2. CASE q # tp
    <3>1. new.parts[q] = idx.parts[q] /\ \A b : <<q, b>> \in s \ {x} <=> <<q, b>> \in s
      BY <1>1, <1>4, <2>2
    <3> QED
      BY <2>1, <3>1
  <2>3. CASE q = tp
    <3>1. \A b : <<q, b>> \in s <=> (<<q, b>> \in s \ {x} \/ b = a)
      BY <1>1, <2>3
    <3>2. DOMAIN new.parts[q].cold = {b \in DOMAIN live[q] : <<q, b>> \in s}
      BY <1>1, <1>4, <2>1, <2>3, <3>1
    <3>3. ASSUME NEW b \in DOMAIN new.parts[q].cold
          PROVE  new.parts[q].cold[b] = live[q][b] /\ live[q][b].end <= new.parts[q].next_offset
      <4>1. b \in DOMAIN live[q]
        BY <3>2
      <4>2. CASE b = a
        BY <1>4, <2>3, <4>2
      <4>3. CASE b # a
        <5>1. b \in DOMAIN idx.parts[q].cold
          BY <1>4, <2>3, <4>3
        <5>2. new.parts[q].cold[b] = live[q][b] /\ live[q][b].end <= idx.parts[q].next_offset
          BY <1>4, <2>1, <2>3, <4>3, <5>1
        <5> QED
          BY <1>4, <1>5, <1>6, <2>3, <4>1, <5>2
      <4> QED
        BY <4>2, <4>3
    <3> QED
      BY <3>2, <3>3
  <2> QED
    BY <2>2, <2>3
<1> QED
  BY <1>3, <1>7, <1>8 DEF HasRanges, new

\* The cold part of recovery: the index has the manifest's ranges and no other.
LEMMA RecoverColdFields ==
    ASSUME NEW m, m.live \in [Partitions -> Colds]
    PROVE  HasRanges(RecoverCold(m), m.live, RangesOf(m.live))
<1> DEFINE live == m.live
           S == RangesOf(live)
           base == EmptyIndex(Partitions)
           A == ExactIndexes
           F == [p \in S \X A |-> InsertRange(p[1], p[2], live)]
           Eq(g) == g = [s \in SUBSET S |-> IF s = {} THEN base ELSE InsertRange(AnyOf(s), g[s \ {AnyOf(s)}], live)]
           c == CHOOSE g : Eq(g)
<1>1. RecoverCold(m) = c[S]
  BY DEF RecoverCold, RangesOf, InsertRange, FoldSet, MapThenFoldSet, AnyOf
<1>2. IsFiniteSet(S)
  BY RangeFields
<1>3. base \in A
  BY EmptyIndexExact DEF ExactIndexes, Exact
<1>4. ASSUME NEW x \in S, NEW idx \in A PROVE InsertRange(x, idx, live) \in A
  <2>1. x[1] \in Partitions /\ x[2] \in Offsets /\ live[x[1]][x[2]] \in Ranges /\ Exact(idx)
    BY RangeFields DEF ExactIndexes
  <2>2. live[x[1]][x[2]].end \in Ends /\ live[x[1]][x[2]].key \in Keys /\ live[x[1]][x[2]].size \in Nat
    BY <2>1 DEF Ranges
  <2>3. Exact(InsertRange(x, idx, live))
    <3> HIDE DEF live
    <3> QED
      BY <2>1, <2>2, InsertColdExact DEF InsertRange
  <2> QED
    BY <2>3 DEF ExactIndexes, Exact
<1>5. F \in [S \X A -> A] /\ \A x \in S, idx \in A : F[<<x, idx>>] = InsertRange(x, idx, live)
  <2> HIDE DEF S, A
  <2> QED
    BY <1>4
<1> HIDE DEF S, A, F, base
<1>6. PICK g \in [SUBSET S -> A] : SetFolds(g, SUBSET S, base, F)
  BY <1>2, <1>3, <1>5, SetFoldExists
<1>7. ASSUME NEW s \in SUBSET S, s # {}
      PROVE  g[s] = InsertRange(AnyOf(s), g[s \ {AnyOf(s)}], live)
  <2>1. AnyOf(s) \in S /\ s \ {AnyOf(s)} \in SUBSET S
    BY <1>7, AnyOfSet
  <2>2. g[s \ {AnyOf(s)}] \in A
    BY <2>1
  <2>3. g[s] = F[<<AnyOf(s), g[s \ {AnyOf(s)}]>>]
    BY <1>6, <1>7 DEF SetFolds
  <2> QED
    BY <1>5, <2>1, <2>2, <2>3
<1>8. g[{}] = base
  BY <1>6 DEF SetFolds
<1>9. Eq(g)
  BY <1>7, <1>8
<1>10. Eq(c)
  <2> HIDE DEF Eq
  <2> QED
    BY <1>9, Zenon
<1> DEFINE P == {s \in SUBSET S : HasRanges(c[s], live, s)}
<1>11. {} \in P
  <2>1. c[{}] = base
    <3> HIDE DEF c
    <3> QED
      BY <1>10
  <2>2. HasRanges(base, live, {})
    <3>1. Exact(base) /\ NoHot(base)
      BY EmptyIndexExact DEF base
    <3>2. \A tp \in Partitions : base.parts[tp].cold = <<>>
      BY DEF base, EmptyIndex, EmptyEntries
    <3>3. DOMAIN <<>> = {}
      OBVIOUS
    <3> QED
      BY <3>1, <3>2, <3>3 DEF HasRanges
  <2> QED
    BY <2>1, <2>2
<1>12. ASSUME NEW s \in SUBSET S, s # {}, s \ {AnyOf(s)} \in P PROVE s \in P
  <2>1. AnyOf(s) \in s /\ HasRanges(c[s \ {AnyOf(s)}], live, s \ {AnyOf(s)})
    BY <1>12, AnyOfSet
  <2>2. c[s] = InsertRange(AnyOf(s), c[s \ {AnyOf(s)}], live)
    <3> HIDE DEF c
    <3> QED
      BY <1>10, <1>12
  <2>3. HasRanges(InsertRange(AnyOf(s), c[s \ {AnyOf(s)}], live), live, s)
    <3>1. s \in SUBSET RangesOf(live) /\ live \in [Partitions -> Colds]
      BY DEF S
    <3> HIDE DEF c, live
    <3> QED
      BY <2>1, <3>1, InsertOne
  <2> QED
    BY <2>2, <2>3
<1>13. \A s \in SUBSET S : s \in P
  <2> HIDE DEF P
  <2> QED
    BY <1>2, <1>11, <1>12, SetInduction
<1>14. HasRanges(c[S], live, S)
  BY <1>13
<1> QED
  BY <1>1, <1>14 DEF S

-------------------------------------------------------------------------------
(* The log.                                                                *)

Logs == [disk : Maps(Nat, Seq(Record)), active : Nat, tail : Seq(Record), active_size : Nat]

WalOK(w) == w \in Logs /\ w.active \in DOMAIN w.disk /\ \A s \in DOMAIN w.disk : s <= w.active

\* The sealed segments of w are in v, unchanged.
SealedKept(v, w) ==
    /\ v.active >= w.active
    /\ \A s \in DOMAIN w.disk : s < w.active => s \in DOMAIN v.disk /\ v.disk[s] = w.disk[s]

\* A log is its fields.
LEMMA LogParts ==
    ASSUME NEW v \in Logs
    PROVE  v = [disk |-> v.disk, active |-> v.active, tail |-> v.tail, active_size |-> v.active_size]
BY DEF Logs

\* A log made of its fields.
LEMMA MakeLog ==
    ASSUME NEW d \in Maps(Nat, Seq(Record)), NEW a \in Nat, NEW t \in Seq(Record), NEW n \in Nat
    PROVE  [disk |-> d, active |-> a, tail |-> t, active_size |-> n] \in Logs
BY DEF Logs

\* The segments of a log.
LEMMA WalFields ==
    ASSUME NEW w, WalOK(w)
    PROVE  /\ w.active \in Nat /\ w.tail \in Seq(Record) /\ w.active_size \in Nat
           /\ DOMAIN w.disk \subseteq Nat /\ w.disk \in [DOMAIN w.disk -> Seq(Record)]
           /\ w.disk[w.active] \in Seq(Record)
           /\ w = [disk |-> w.disk, active |-> w.active, tail |-> w.tail, active_size |-> w.active_size]
<1>1. w.disk \in Maps(Nat, Seq(Record))
  BY DEF WalOK, Logs
<1>2. DOMAIN w.disk \subseteq Nat /\ w.disk \in [DOMAIN w.disk -> Seq(Record)]
  BY <1>1, MapFields
<1>3. w = [disk |-> w.disk, active |-> w.active, tail |-> w.tail, active_size |-> w.active_size]
  BY DEF WalOK, Logs
<1> QED
  BY <1>2, <1>3 DEF WalOK, Logs

\* The segment a log appends to, before and after.
Appended(v, w, more) ==
    /\ v.active = w.active /\ DOMAIN v.disk = DOMAIN w.disk
    /\ v.disk[w.active] = w.disk[w.active] \o more
    /\ \A s \in DOMAIN w.disk \ {w.active} : v.disk[s] = w.disk[s]

\* A log whose active segment was extended by some records.
LEMMA WalExtended ==
    ASSUME NEW w, WalOK(w), NEW more \in Seq(Record), NEW tail \in Seq(Record), NEW n \in Nat, NEW v,
           v = [disk |-> [w.disk EXCEPT ![w.active] = @ \o more], active |-> w.active,
                tail |-> tail, active_size |-> n]
    PROVE  WalOK(v) /\ SealedKept(v, w) /\ Appended(v, w, more)
<1> DEFINE d == [w.disk EXCEPT ![w.active] = @ \o more]
<1>1. /\ DOMAIN w.disk \subseteq Nat /\ w.disk \in [DOMAIN w.disk -> Seq(Record)]
      /\ w.active \in Nat /\ w.active \in DOMAIN w.disk /\ w.disk[w.active] \in Seq(Record)
  BY WalFields DEF WalOK
<1>2. w.disk[w.active] \o more \in Seq(Record)
  BY <1>1, ConcatProperties
<1>3. /\ DOMAIN d = DOMAIN w.disk /\ d \in [DOMAIN d -> Seq(Record)]
      /\ d[w.active] = w.disk[w.active] \o more
      /\ \A s \in DOMAIN w.disk \ {w.active} : d[s] = w.disk[s]
  BY <1>1, <1>2
<1> HIDE DEF d
<1>4. d \in Maps(Nat, Seq(Record))
  BY <1>1, <1>3, MapFields
<1>5. v = [disk |-> d, active |-> w.active, tail |-> tail, active_size |-> n]
  BY DEF d
<1>6. WalOK(v)
  <2>1. v \in Logs
    BY <1>1, <1>4, <1>5, MakeLog
  <2>2. v.active \in DOMAIN v.disk /\ \A s \in DOMAIN v.disk : s <= v.active
    BY <1>1, <1>3, <1>5 DEF WalOK
  <2> QED
    BY <2>1, <2>2 DEF WalOK
<1>7. SealedKept(v, w)
  BY <1>1, <1>3, <1>5 DEF SealedKept
<1>8. v.disk = d /\ v.active = w.active
  BY <1>5
<1>9. Appended(v, w, more)
  BY <1>3, <1>8 DEF Appended
<1> QED
  BY <1>6, <1>7, <1>9

\* flush moves the tail to the disk.
LEMMA FlushFields ==
    ASSUME NEW w, WalOK(w)
    PROVE  /\ WalOK(flush(w)) /\ SealedKept(flush(w), w) /\ Appended(flush(w), w, w.tail)
           /\ flush(w).tail = <<>>
<1> DEFINE v == flush(w)
<1>1. v = [disk |-> [w.disk EXCEPT ![w.active] = @ \o w.tail], active |-> w.active,
           tail |-> <<>>, active_size |-> w.active_size]
  <2> DEFINE d == [w.disk EXCEPT ![w.active] = @ \o w.tail]
             u == [w EXCEPT !.disk = d]
  <2>1. v = [w EXCEPT !.disk = d, !.tail = <<>>]
    BY DEF flush
  <2>2. w = [disk |-> w.disk, active |-> w.active, tail |-> w.tail, active_size |-> w.active_size]
    BY WalFields
  <2> HIDE DEF d, v
  <2>3. u = [disk |-> d, active |-> w.active, tail |-> w.tail, active_size |-> w.active_size]
    BY <2>2
  <2>4. v = [u EXCEPT !.tail = <<>>]
    BY <2>1, <2>2
  <2> HIDE DEF u
  <2>5. v = [disk |-> d, active |-> w.active, tail |-> <<>>, active_size |-> w.active_size]
    BY <2>3, <2>4
  <2> QED
    BY <2>5 DEF d
<1>2. w.tail \in Seq(Record) /\ <<>> \in Seq(Record) /\ w.active_size \in Nat
  BY WalFields
<1> HIDE DEF v
<1>3. WalOK(v) /\ SealedKept(v, w) /\ Appended(v, w, w.tail)
  BY <1>1, <1>2, WalExtended
<1>4. v.tail = <<>>
  BY <1>1
<1> QED
  BY <1>3, <1>4 DEF v

\* A log with another tail.
LEMMA TailFields ==
    ASSUME NEW w, WalOK(w), NEW tail \in Seq(Record), NEW n \in Nat, NEW v,
           v = [disk |-> w.disk, active |-> w.active, tail |-> tail, active_size |-> n]
    PROVE  WalOK(v) /\ SealedKept(v, w)
<1>1. w.active \in Nat /\ w.disk \in Maps(Nat, Seq(Record))
  BY DEF WalOK, Logs
<1>2. v \in Logs
  BY <1>1 DEF Logs
<1>3. WalOK(v)
  BY <1>2 DEF WalOK
<1> QED
  BY <1>1, <1>3 DEF SealedKept

\* handle_append.
LEMMA AppendFields ==
    ASSUME NEW w, WalOK(w), NEW rec \in Record, NEW f \in BOOLEAN
    PROVE  /\ WalOK(handle_append(w, rec, f)) /\ SealedKept(handle_append(w, rec, f), w)
           /\ f => /\ Appended(handle_append(w, rec, f), w, Append(w.tail, rec))
                   /\ handle_append(w, rec, f).tail = <<>>
           /\ ~f => handle_append(w, rec, f).disk = w.disk /\ handle_append(w, rec, f).active = w.active
<1> DEFINE u == [w EXCEPT !.tail = Append(@, rec), !.active_size = @ + rec.size]
           v == handle_append(w, rec, f)
<1>1. /\ w.tail \in Seq(Record) /\ w.active_size \in Nat /\ rec.size \in Nat /\ w \in Logs
  BY WalFields, StoreConstants DEF Record, WalOK
<1>2. Append(w.tail, rec) \in Seq(Record) /\ w.active_size + rec.size \in Nat
  BY <1>1, AppendProperties
<1>3. u = [disk |-> w.disk, active |-> w.active, tail |-> Append(w.tail, rec),
           active_size |-> w.active_size + rec.size]
  <2> DEFINE t == Append(w.tail, rec)
             n == w.active_size + rec.size
  <2>1. u = [w EXCEPT !.tail = t, !.active_size = n]
    OBVIOUS
  <2> HIDE DEF t, n, u
  <2>2. u \in Logs /\ u.disk = w.disk /\ u.active = w.active /\ u.tail = t /\ u.active_size = n
    BY <1>1, <1>2, <2>1 DEF Logs, t, n
  <2>3. u = [disk |-> u.disk, active |-> u.active, tail |-> u.tail, active_size |-> u.active_size]
    BY <2>2, LogParts
  <2> QED
    BY <2>2, <2>3 DEF t, n
<1>4. v = IF f THEN flush(u) ELSE u
  BY DEF handle_append
<1> HIDE DEF u, v
<1>5. WalOK(u) /\ SealedKept(u, w)
  BY <1>2, <1>3, TailFields
<1>6. /\ WalOK(flush(u)) /\ SealedKept(flush(u), u) /\ Appended(flush(u), u, u.tail)
      /\ flush(u).tail = <<>>
  BY <1>5, FlushFields
<1>7. u.disk = w.disk /\ u.active = w.active /\ u.tail = Append(w.tail, rec)
  BY <1>3
<1>8. CASE f
  <2>1. v = flush(u)
    BY <1>4, <1>8
  <2>2. WalOK(v) /\ SealedKept(v, w) /\ Appended(v, w, Append(w.tail, rec)) /\ v.tail = <<>>
    BY <1>6, <1>7, <2>1 DEF SealedKept, Appended
  <2> QED
    BY <1>8, <2>2 DEF v
<1>9. CASE ~f
  <2>1. v = u
    BY <1>4, <1>9
  <2> QED
    BY <1>5, <1>7, <1>9, <2>1 DEF v
<1> QED
  BY <1>8, <1>9

\* handle_append_err.
LEMMA AppendErrFields ==
    ASSUME NEW w, WalOK(w), NEW rec \in Record
    PROVE  WalOK(handle_append_err(w, rec)) /\ SealedKept(handle_append_err(w, rec), w)
<1> DEFINE v == handle_append_err(w, rec)
<1>1. w.tail \in Seq(Record) /\ w.active_size \in Nat /\ w \in Logs
  BY WalFields DEF WalOK
<1>2. Append(w.tail, rec) \in Seq(Record)
  BY <1>1, AppendProperties
<1>3. v = [disk |-> w.disk, active |-> w.active, tail |-> Append(w.tail, rec), active_size |-> w.active_size]
  <2> DEFINE t == Append(w.tail, rec)
  <2>1. v = [w EXCEPT !.tail = t]
    BY DEF handle_append_err
  <2> HIDE DEF t, v
  <2> QED
    BY <1>1, <1>2, <2>1 DEF Logs, t
<1> HIDE DEF v
<1>4. WalOK(v) /\ SealedKept(v, w)
  BY <1>1, <1>2, <1>3, TailFields
<1> QED
  BY <1>4 DEF v

\* A log whose active segment was extended by more and sealed.
Rotated(v, w, more) ==
    /\ v.active = w.active + 1 /\ v.tail = <<>> /\ v.active_size = 0
    /\ DOMAIN v.disk = DOMAIN w.disk \cup {v.active} /\ v.disk[v.active] = <<>>
    /\ v.disk[w.active] = w.disk[w.active] \o more
    /\ \A s \in DOMAIN w.disk \ {w.active} : v.disk[s] = w.disk[s]

\* A disk with the active segment of w extended by more, and an empty segment after it.
SegmentAdded(c, w, more) ==
    /\ DOMAIN c = DOMAIN w.disk \cup {w.active + 1} /\ c[w.active + 1] = <<>>
    /\ c[w.active] = w.disk[w.active] \o more
    /\ \A s \in DOMAIN w.disk \ {w.active} : c[s] = w.disk[s]

\* An empty segment stored after the extended one.
LEMMA SegmentStored ==
    ASSUME NEW w, w.active \in Nat, w.active \in DOMAIN w.disk, \A s \in DOMAIN w.disk : s <= w.active,
           NEW more, NEW d, DOMAIN d = DOMAIN w.disk, d[w.active] = w.disk[w.active] \o more,
           \A s \in DOMAIN w.disk \ {w.active} : d[s] = w.disk[s],
           NEW c, Stored(c, d, w.active + 1, <<>>)
    PROVE  SegmentAdded(c, w, more)
<1>1. w.active + 1 \notin DOMAIN w.disk
  OBVIOUS
<1>2. \A x \in DOMAIN w.disk : c[x] = d[x]
  BY <1>1 DEF Stored
<1>3. DOMAIN c = DOMAIN w.disk \cup {w.active + 1} /\ c[w.active + 1] = <<>>
  BY DEF Stored
<1> QED
  BY <1>2, <1>3, Zenon DEF SegmentAdded

\* A log over such a disk.
LEMMA LogRotated ==
    ASSUME NEW w, WalOK(w), NEW more, NEW c, SegmentAdded(c, w, more), NEW v \in Logs,
           v.disk = c, v.active = w.active + 1, v.tail = <<>>, v.active_size = 0
    PROVE  WalOK(v) /\ SealedKept(v, w) /\ Rotated(v, w, more)
<1>1. w.active \in Nat /\ w.active \in DOMAIN w.disk /\ \A s \in DOMAIN w.disk : s <= w.active /\ s \in Nat
  BY WalFields DEF WalOK
<1>2. WalOK(v)
  BY <1>1 DEF WalOK, SegmentAdded
<1>3. SealedKept(v, w)
  <2>1. ASSUME NEW s \in DOMAIN w.disk, s < w.active PROVE s \in DOMAIN v.disk /\ v.disk[s] = w.disk[s]
    BY <1>1, <2>1 DEF SegmentAdded
  <2> QED
    BY <1>1, <2>1 DEF SealedKept
<1>4. Rotated(v, w, more)
  BY DEF Rotated, SegmentAdded
<1> QED
  BY <1>2, <1>3, <1>4

\* A new segment after the active one.
LEMMA RotateFields ==
    ASSUME NEW w, WalOK(w), NEW more \in Seq(Record), NEW v,
           v = [disk |-> open_new_segment([w.disk EXCEPT ![w.active] = @ \o more], w.active + 1),
                active |-> w.active + 1, tail |-> <<>>, active_size |-> 0]
    PROVE  WalOK(v) /\ SealedKept(v, w) /\ Rotated(v, w, more)
<1> DEFINE d == [w.disk EXCEPT ![w.active] = @ \o more]
           c == open_new_segment(d, w.active + 1)
<1>1. /\ DOMAIN w.disk \subseteq Nat /\ w.disk \in [DOMAIN w.disk -> Seq(Record)]
      /\ w.active \in Nat /\ w.active \in DOMAIN w.disk /\ w.disk[w.active] \in Seq(Record)
      /\ \A s \in DOMAIN w.disk : s <= w.active
  BY WalFields DEF WalOK
<1>2. w.disk[w.active] \o more \in Seq(Record)
  BY <1>1, ConcatProperties
<1>3. /\ DOMAIN d = DOMAIN w.disk /\ d \in [DOMAIN d -> Seq(Record)]
      /\ d[w.active] = w.disk[w.active] \o more
      /\ \A s \in DOMAIN w.disk \ {w.active} : d[s] = w.disk[s]
  BY <1>1, <1>2
<1> HIDE DEF d
<1>4. d \in Maps(Nat, Seq(Record))
  BY <1>1, <1>3, MapFields
<1>a. <<>> \in Seq(Record) /\ w.active + 1 \in Nat
  BY <1>1
<1>5. c = Put(d, w.active + 1, <<>>)
  BY DEF open_new_segment, Put
<1>7. v = [disk |-> c, active |-> w.active + 1, tail |-> <<>>, active_size |-> 0]
  BY DEF d
<1> HIDE DEF c
<1>6. c \in Maps(Nat, Seq(Record)) /\ Stored(c, d, w.active + 1, <<>>)
  BY <1>4, <1>5, <1>a, PutFields, Zenon
<1>b. v \in Logs
  BY <1>a, <1>6, <1>7, MakeLog, Zenon
<1>8. v.disk = c /\ v.active = w.active + 1 /\ v.tail = <<>> /\ v.active_size = 0
  BY <1>7
<1>9. SegmentAdded(c, w, more)
  BY <1>1, <1>3, <1>6, SegmentStored
<1> QED
  BY <1>8, <1>9, <1>b, LogRotated

\* handle_maybe_seal flushes and rotates.
LEMMA SealFields ==
    ASSUME NEW w, WalOK(w)
    PROVE  /\ WalOK(handle_maybe_seal(w)) /\ SealedKept(handle_maybe_seal(w), w)
           /\ Rotated(handle_maybe_seal(w), w, w.tail)
<1> DEFINE v == handle_maybe_seal(w)
           d == [w.disk EXCEPT ![w.active] = @ \o w.tail]
<1>1. flush(w).disk = d /\ flush(w).active = w.active
  <2> HIDE DEF d
  <2>1. flush(w) = [w EXCEPT !.disk = d, !.tail = <<>>]
    BY DEF flush, d
  <2>2. w = [disk |-> w.disk, active |-> w.active, tail |-> w.tail, active_size |-> w.active_size]
    BY WalFields
  <2> QED
    BY <2>1, <2>2
<1>2. v = [disk |-> open_new_segment(d, w.active + 1), active |-> w.active + 1,
           tail |-> <<>>, active_size |-> 0]
  <2> HIDE DEF d
  <2> QED
    BY <1>1 DEF handle_maybe_seal
<1>3. w.tail \in Seq(Record)
  BY WalFields
<1> HIDE DEF v
<1>4. WalOK(v) /\ SealedKept(v, w) /\ Rotated(v, w, w.tail)
  BY <1>2, <1>3, RotateFields
<1> QED
  BY <1>4 DEF v

\* A restart after a crash: what is left of the tail is sealed.
LEMMA CrashFields ==
    ASSUME NEW w, WalOK(w), NEW disk \in CrashDisks(w)
    PROVE  /\ WalOK(wal_new(disk)) /\ SealedKept(wal_new(disk), w)
           /\ \E l \in 0 .. Len(w.tail) : Rotated(wal_new(disk), w, SubSeq(w.tail, 1, l))
<1> DEFINE v == wal_new(disk)
<1>1. PICK l \in 0 .. Len(w.tail) : disk = [w.disk EXCEPT ![w.active] = @ \o SubSeq(w.tail, 1, l)]
  BY DEF CrashDisks, Prefixes
<1> DEFINE more == SubSeq(w.tail, 1, l)
<1>2. /\ w.tail \in Seq(Record) /\ w.active \in Nat /\ w.active \in DOMAIN w.disk /\ DOMAIN w.disk \subseteq Nat
      /\ \A s \in DOMAIN w.disk : s <= w.active
  BY WalFields DEF WalOK
<1>3. more \in Seq(Record)
  <2>1. Len(w.tail) \in Nat /\ l \in Int /\ \A i \in 1 .. l : w.tail[i] \in Record
    BY <1>2
  <2> QED
    BY <1>2, <2>1, SubSeqProperties
<1>4. DOMAIN disk = DOMAIN w.disk /\ DOMAIN disk # {}
  BY <1>1, <1>2
<1>5. Max(DOMAIN disk) = w.active
  <2>1. Max(DOMAIN disk) \in DOMAIN disk /\ \A x \in DOMAIN disk : x <= Max(DOMAIN disk)
    BY <1>2, <1>4, MaxOfBounded
  <2> HIDE DEF Max
  <2> QED
    BY <1>2, <1>4, <2>1
<1>6. v = [disk |-> open_new_segment([w.disk EXCEPT ![w.active] = @ \o more], w.active + 1),
           active |-> w.active + 1, tail |-> <<>>, active_size |-> 0]
  BY <1>1, <1>4, <1>5 DEF wal_new
<1> HIDE DEF v, more
<1>7. WalOK(v) /\ SealedKept(v, w) /\ Rotated(v, w, more)
  BY <1>3, <1>6, RotateFields
<1> QED
  BY <1>7 DEF v, more

\* A log without a segment.
Deleted(v, w, q) ==
    /\ v.active = w.active /\ v.tail = w.tail /\ v.active_size = w.active_size
    /\ DOMAIN v.disk = DOMAIN w.disk \ {q} /\ \A s \in DOMAIN v.disk : v.disk[s] = w.disk[s]

\* delete_segment drops one sealed segment.
LEMMA DeleteFields ==
    ASSUME NEW w, WalOK(w), NEW q \in Nat, q < w.active
    PROVE  WalOK(delete_segment(w, q)) /\ Deleted(delete_segment(w, q), w, q)
<1> DEFINE v == delete_segment(w, q)
           d == [s \in DOMAIN w.disk \ {q} |-> w.disk[s]]
<1>1. /\ DOMAIN w.disk \subseteq Nat /\ w.disk \in [DOMAIN w.disk -> Seq(Record)]
      /\ w.active \in Nat /\ w.active \in DOMAIN w.disk /\ w.tail \in Seq(Record) /\ w.active_size \in Nat
      /\ w = [disk |-> w.disk, active |-> w.active, tail |-> w.tail, active_size |-> w.active_size]
      /\ \A s \in DOMAIN w.disk : s <= w.active
  BY WalFields DEF WalOK
<1>2. DOMAIN d = DOMAIN w.disk \ {q} /\ d \in [DOMAIN d -> Seq(Record)] /\ \A s \in DOMAIN d : d[s] = w.disk[s]
  BY <1>1
<1>3. v = [w EXCEPT !.disk = d]
  BY DEF delete_segment
<1> HIDE DEF d, v
<1>4. d \in Maps(Nat, Seq(Record))
  BY <1>1, <1>2, MapFields
<1>5. v = [disk |-> d, active |-> w.active, tail |-> w.tail, active_size |-> w.active_size]
  BY <1>1, <1>3
<1>6. v \in Logs
  BY <1>1, <1>4, <1>5, MakeLog
<1>7. v.disk = d /\ v.active = w.active /\ v.tail = w.tail /\ v.active_size = w.active_size
  BY <1>5
<1>8. WalOK(v)
  <2>1. w.active \in DOMAIN d /\ \A s \in DOMAIN d : s <= w.active
    BY <1>1, <1>2
  <2> QED
    BY <1>6, <1>7, <2>1 DEF WalOK
<1>9. Deleted(v, w, q)
  BY <1>2, <1>7 DEF Deleted
<1> QED
  BY <1>8, <1>9 DEF v

\* q lists sealed segments of w, oldest first.
Queue(q, w) ==
    /\ q \in Seq(Nat)
    /\ \A i \in 1 .. Len(q) : q[i] \in DOMAIN w.disk /\ q[i] < w.active
    /\ \A i, j \in 1 .. Len(q) : i < j => q[i] < q[j]

\* q lists all of them.
Complete(q, w) == \A s \in DOMAIN w.disk : s < w.active => \E i \in 1 .. Len(q) : q[i] = s

\* sealed_segments.
LEMMA SealedFields ==
    ASSUME NEW w, WalOK(w)
    PROVE  Queue(sealed_segments(w), w) /\ Complete(sealed_segments(w), w)
<1> DEFINE s == [i \in 1 .. w.active |-> i - 1]
           q == sealed_segments(w)
<1>1. w.active \in Nat /\ DOMAIN w.disk \subseteq Nat
  BY WalFields
<1>2. s \in Seq(Nat) /\ Len(s) = w.active /\ \A i \in 1 .. w.active : s[i] = i - 1
  BY <1>1
<1>3. q = Keep(s, DOMAIN w.disk)
  BY DEF sealed_segments
<1> HIDE DEF s, q
<1>4. q \in Seq(Nat) /\ Kept(q, s, w.active, DOMAIN w.disk)
  BY <1>2, <1>3, KeepFields
<1>5. ASSUME NEW a \in 1 .. Len(q) PROVE q[a] \in DOMAIN w.disk /\ q[a] < w.active
  <2>1. q[a] \in DOMAIN w.disk /\ \E i \in 1 .. w.active : q[a] = s[i]
    BY <1>4 DEF Kept
  <2> QED
    BY <1>1, <1>2, <2>1
<1>6. ASSUME NEW a \in 1 .. Len(q), NEW b \in 1 .. Len(q), a < b PROVE q[a] < q[b]
  <2>1. PICK i, j \in 1 .. w.active : i < j /\ q[a] = s[i] /\ q[b] = s[j]
    BY <1>4, <1>6 DEF Kept
  <2> QED
    BY <1>1, <1>2, <2>1
<1>7. ASSUME NEW x \in DOMAIN w.disk, x < w.active PROVE \E a \in 1 .. Len(q) : q[a] = x
  <2>1. x + 1 \in 1 .. w.active /\ s[x + 1] = x
    BY <1>1, <1>2, <1>7
  <2> QED
    BY <1>4, <2>1 DEF Kept
<1> QED
  BY <1>4, <1>5, <1>6, <1>7 DEF q, Queue, Complete

\* What a restart leaves in memory: the manifest's ranges, and as hot records the last
\* one of every offset in the sealed segments.
Recovered(idx, m, w) ==
    /\ Exact(idx)
    /\ \A tp \in Partitions :
          /\ idx.parts[tp].cold = m.live[tp]
          /\ \A a \in DOMAIN m.live[tp] : m.live[tp][a].end <= idx.parts[tp].next_offset
          /\ \A o \in DOMAIN idx.parts[tp].hot :
                /\ o < idx.parts[tp].next_offset
                /\ idx.parts[tp].hot[o].tp = tp /\ idx.parts[tp].hot[o].off = o
                /\ \E s \in DOMAIN w.disk : \E i \in 1 .. Len(w.disk[s]) :
                      s < w.active /\ idx.parts[tp].hot[o] = w.disk[s][i]
    /\ \A s \in DOMAIN w.disk : s < w.active =>
          \A i \in 1 .. Len(w.disk[s]) : w.disk[s][i].off \in DOMAIN idx.parts[w.disk[s][i].tp].hot

\* Recovery.
LEMMA RecoverFields ==
    ASSUME NEW w, WalOK(w), NEW m, m.live \in [Partitions -> Colds]
    PROVE  Recovered(RecoverIndex(m, w), m, w)
<1> DEFINE q == sealed_segments(w)
           r == recover(w)
           base == RecoverCold(m)
           idx == RecoverIndex(m, w)
           S == RangesOf(m.live)
<1>1. idx = Loaded(base, r)
  BY DEF RecoverIndex, Loaded
<1>2. Queue(q, w) /\ Complete(q, w)
  BY SealedFields
<1>3. HasRanges(base, m.live, S)
  BY RecoverColdFields
<1>4. w.disk \in [DOMAIN w.disk -> Seq(Record)] /\ r = Joined(w.disk, q)
  BY WalFields DEF recover
<1> HIDE DEF q, r, base, idx, S
<1>5. q \in Seq(DOMAIN w.disk) /\ Len(q) \in Nat
  <2>1. q \in Seq(Nat) /\ \A i \in 1 .. Len(q) : q[i] \in DOMAIN w.disk
    BY <1>2 DEF Queue
  <2> QED
    BY <2>1
<1>6. r \in Seq(Record) /\ HasAll(r, w.disk, q, Len(q))
  BY <1>4, <1>5, JoinFields
<1>7. Exact(base) /\ NoHot(base)
  BY <1>3 DEF HasRanges
<1>8. Filled(idx, base, r, Len(r))
  BY <1>1, <1>6, <1>7, LoadFields
<1>9. Exact(idx) /\ idx \in Indexes /\ base \in Indexes
  BY <1>7, <1>8 DEF Filled, Exact
<1>10. ASSUME NEW tp \in Partitions
       PROVE  /\ idx.parts[tp].cold = m.live[tp]
              /\ \A a \in DOMAIN m.live[tp] : m.live[tp][a].end <= idx.parts[tp].next_offset
  <2> DEFINE c == base.parts[tp].cold
             l == m.live[tp]
  <2>1. idx.parts[tp].cold = c /\ idx.parts[tp].next_offset >= base.parts[tp].next_offset
    BY <1>8 DEF Filled
  <2>2. /\ DOMAIN c = {a \in DOMAIN l : <<tp, a>> \in S}
        /\ \A a \in DOMAIN c : c[a] = l[a] /\ l[a].end <= base.parts[tp].next_offset
    BY <1>3 DEF HasRanges
  <2>3. ASSUME NEW a \in DOMAIN l PROVE <<tp, a>> \in S
    <3>1. <<tp, a>> \in {<<tp, x>> : x \in DOMAIN l}
      OBVIOUS
    <3> QED
      BY <3>1, Zenon DEF S, RangesOf
  <2>4. DOMAIN c = DOMAIN l
    <3> HIDE DEF c, l
    <3> QED
      BY <2>2, <2>3
  <2>5. c \in Colds /\ l \in Colds /\ idx.parts[tp].next_offset \in Ends /\ base.parts[tp].next_offset \in Ends
    BY <1>9 DEF Indexes, Entries
  <2>6. /\ c \in [DOMAIN c -> Ranges] /\ l \in [DOMAIN l -> Ranges]
    BY <2>5, MapFields DEF Colds
  <2>7. c = l
    <3>1. \A a \in DOMAIN c : c[a] = l[a]
      BY <2>2
    <3> HIDE DEF c, l
    <3> QED
      BY <2>4, <2>6, <3>1
  <2>8. ASSUME NEW a \in DOMAIN l PROVE l[a].end <= idx.parts[tp].next_offset
    <3>1. l[a].end <= base.parts[tp].next_offset
      BY <2>2, <2>4
    <3>2. l[a].end \in Nat
      <4>1. l[a] \in Ranges
        BY <2>6
      <4> HIDE DEF l
      <4> QED
        BY <4>1, StoreConstants DEF Ranges, Ends
    <3> HIDE DEF l
    <3> QED
      BY <2>1, <2>5, <3>1, <3>2, StoreConstants DEF Ends
  <2> QED
    BY <2>1, <2>7, <2>8
<1>11. ASSUME NEW tp \in Partitions, NEW o \in DOMAIN idx.parts[tp].hot
       PROVE  /\ o < idx.parts[tp].next_offset
              /\ idx.parts[tp].hot[o].tp = tp /\ idx.parts[tp].hot[o].off = o
              /\ \E s \in DOMAIN w.disk : \E i \in 1 .. Len(w.disk[s]) :
                    s < w.active /\ idx.parts[tp].hot[o] = w.disk[s][i]
  <2>1. PICK a \in 1 .. Len(r) : idx.parts[tp].hot[o] = r[a] /\ r[a].tp = tp /\ r[a].off = o
    BY <1>8 DEF Filled
  <2>2. o < idx.parts[tp].next_offset
    BY <1>8 DEF Filled
  <2>3. PICK i \in 1 .. Len(q) : \E j \in 1 .. Len(w.disk[q[i]]) : r[a] = w.disk[q[i]][j]
    BY <1>6 DEF HasAll
  <2>4. q[i] \in DOMAIN w.disk /\ q[i] < w.active
    BY <1>2 DEF Queue
  <2> QED
    BY <2>1, <2>2, <2>3, <2>4
<1>12. ASSUME NEW s \in DOMAIN w.disk, s < w.active, NEW i \in 1 .. Len(w.disk[s])
       PROVE  w.disk[s][i].off \in DOMAIN idx.parts[w.disk[s][i].tp].hot
  <2>1. PICK k \in 1 .. Len(q) : q[k] = s
    BY <1>2, <1>12 DEF Complete
  <2>2. PICK a \in 1 .. Len(r) : r[a] = w.disk[s][i]
    BY <1>6, <2>1 DEF HasAll
  <2>3. r[a].off \in DOMAIN idx.parts[r[a].tp].hot
    BY <1>8 DEF Filled
  <2> QED
    BY <2>2, <2>3
<1>13. Recovered(idx, m, w)
  BY <1>9, <1>10, <1>11, <1>12 DEF Recovered
<1> QED
  BY <1>13 DEF idx

-------------------------------------------------------------------------------
(* The tiering task.                                                       *)

\* The partitions that have records in s.
TpsOf(s) == {r.tp : r \in ToSet(s)}

\* g has the records of tp in s, in their order, and there are some.
GroupOf(g, s, tp) ==
    /\ g \in Seq(Record) /\ g # <<>>
    /\ \A a \in 1 .. Len(g) : g[a].tp = tp /\ \E i \in 1 .. Len(s) : g[a] = s[i]
    /\ \A i \in 1 .. Len(s) : s[i].tp = tp => \E a \in 1 .. Len(g) : g[a] = s[i]
    /\ \A a, b \in 1 .. Len(g) : a < b => \E i, j \in 1 .. Len(s) : i < j /\ g[a] = s[i] /\ g[b] = s[j]

\* The demultiplexing of a segment.
LEMMA KeptGroup ==
    ASSUME NEW s \in Seq(Record), NEW tp \in TpsOf(s)
    PROVE  GroupOf(Keep(s, {r \in ToSet(s) : r.tp = tp}), s, tp)
<1> DEFINE S == {r \in ToSet(s) : r.tp = tp}
           g == Keep(s, S)
<1>1. g \in Seq(Record) /\ Kept(g, s, Len(s), S)
  <2> HIDE DEF S
  <2> QED
    BY KeepFields
<1> HIDE DEF g
<1>2. \A i \in 1 .. Len(s) : s[i] \in ToSet(s)
  BY DEF ToSet
<1>3. PICK i \in 1 .. Len(s) : s[i].tp = tp
  BY DEF TpsOf, ToSet
<1>4. ASSUME NEW k \in 1 .. Len(s), s[k].tp = tp PROVE \E a \in 1 .. Len(g) : g[a] = s[k]
  <2>1. s[k] \in S
    BY <1>2, <1>4
  <2> HIDE DEF S
  <2> QED
    BY <1>1, <2>1 DEF Kept
<1>5. ASSUME NEW a \in 1 .. Len(g) PROVE g[a].tp = tp /\ \E k \in 1 .. Len(s) : g[a] = s[k]
  <2>1. g[a] \in S /\ \E k \in 1 .. Len(s) : g[a] = s[k]
    <3> HIDE DEF S
    <3> QED
      BY <1>1 DEF Kept
  <2> QED
    BY <2>1
<1>6. g # <<>>
  <2>1. PICK a \in 1 .. Len(g) : g[a] = s[i]
    BY <1>3, <1>4
  <2> QED
    BY <2>1
<1>7. \A a, b \in 1 .. Len(g) : a < b => \E k, j \in 1 .. Len(s) : k < j /\ g[a] = s[k] /\ g[b] = s[j]
  BY <1>1 DEF Kept
<1>8. GroupOf(g, s, tp)
  BY <1>1, <1>4, <1>5, <1>6, <1>7 DEF GroupOf
<1> QED
  BY <1>8 DEF g

\* A record.
LEMMA RecordFields ==
    ASSUME NEW r \in Record
    PROVE  /\ r.tp \in Partitions /\ r.off \in Offsets /\ r.off \in Nat /\ r.off + 1 \in Ends
           /\ r.size \in Sizes /\ r.size \in Nat
<1>1. r.tp \in Partitions /\ r.off \in Offsets /\ r.size \in Sizes
  BY DEF Record
<1>2. r.size \in Nat /\ MaxOffset \in Nat
  BY <1>1, StoreConstants
<1> QED
  BY <1>1, <1>2 DEF Offsets, Ends

\* The first and the last offset of a group.
LEMMA GroupBounds ==
    ASSUME NEW g, NEW s, NEW tp \in Partitions, GroupOf(g, s, tp)
    PROVE  /\ Len(g) \in Nat \ {0} /\ Head(g) = g[1] /\ Last(g) = g[Len(g)]
           /\ g[1] \in Record /\ g[Len(g)] \in Record
           /\ Head(g).off \in Offsets /\ Last(g).off + 1 \in Ends
           /\ ObjectKey(tp, Head(g).off, Last(g).off + 1) \in Keys
<1>1. g \in Seq(Record) /\ g # <<>>
  BY DEF GroupOf
<1>2. Len(g) \in Nat \ {0} /\ Head(g) = g[1] /\ Last(g) = g[Len(g)]
  BY <1>1 DEF Last
<1>3. g[1] \in Record /\ g[Len(g)] \in Record
  BY <1>1, <1>2
<1>4. g[1].off \in Offsets /\ g[Len(g)].off + 1 \in Ends
  BY <1>3, RecordFields
<1>5. ObjectKey(tp, Head(g).off, Last(g).off + 1) \in Keys
  BY <1>2, <1>4 DEF ObjectKey, Keys
<1> QED
  BY <1>2, <1>3, <1>4, <1>5

\* The segment in work and its group of tp.
LEMMA GroupFields ==
    ASSUME WalOK(wal), Queue(tier.queue, wal), tier.queue # <<>>, NEW tp \in Partitions, tp \in TpsOf(Segment)
    PROVE  /\ Segment \in Seq(Record) /\ GroupOf(Group(tp), Segment, tp)
           /\ Group(tp) \in Seq(Record) /\ Len(Group(tp)) \in Nat
           /\ GroupStart(tp) = Head(Group(tp)).off /\ GroupEnd(tp) = Last(Group(tp)).off + 1
           /\ GroupStart(tp) \in Offsets /\ GroupEnd(tp) \in Ends /\ GroupKey(tp) \in Keys
<1>1. tier.queue \in Seq(Nat) /\ Len(tier.queue) > 0 /\ Head(tier.queue) = tier.queue[1]
  BY DEF Queue
<1>2. Head(tier.queue) \in DOMAIN wal.disk
  BY <1>1 DEF Queue
<1>3. Segment \in Seq(Record)
  BY <1>2, WalFields DEF Segment
<1>4. GroupOf(Group(tp), Segment, tp)
  BY <1>3, KeptGroup DEF Group
<1> HIDE DEF Segment, Group
<1>5. Group(tp) \in Seq(Record)
  BY <1>4 DEF GroupOf
<1> QED
  BY <1>3, <1>4, <1>5, GroupBounds DEF GroupStart, GroupEnd, GroupKey

\* Where the tiering task is.
Working == {"upload", "postcheck", "register", "flip"}
Resting(t) == t \in [pc : {"idle", "dead"}]
AtSegment(t, w) ==
    t \in [pc : {"segment"}, queue : Seq(Nat)] /\ Queue(t.queue, w) /\ t.queue # <<>>
AtGroup(t, w) ==
    /\ t \in [pc : {"group"}, queue : Seq(Nat), todo : SUBSET Partitions, fenced : BOOLEAN]
    /\ Queue(t.queue, w) /\ t.queue # <<>> /\ t.todo \subseteq TpsOf(w.disk[t.queue[1]])
AtWork(t, w) ==
    /\ t \in [pc : Working, queue : Seq(Nat), todo : SUBSET Partitions, fenced : BOOLEAN, tp : Partitions]
    /\ Queue(t.queue, w) /\ t.queue # <<>> /\ t.todo \subseteq TpsOf(w.disk[t.queue[1]])
    /\ t.tp \in t.todo
TierOK(t, w) == Resting(t) \/ AtSegment(t, w) \/ AtGroup(t, w) \/ AtWork(t, w)

\* A list of segments stays one while the log grows.
LEMMA QueueKept ==
    ASSUME NEW q, NEW w, NEW v, WalOK(w), WalOK(v), SealedKept(v, w), Queue(q, w), q # <<>>
    PROVE  Queue(q, v) /\ v.disk[q[1]] = w.disk[q[1]]
<1>1. w.active \in Nat /\ v.active \in Nat /\ v.active >= w.active
  BY WalFields DEF SealedKept
<1>2. q \in Seq(Nat) /\ Len(q) \in Nat \ {0}
  BY DEF Queue
<1>3. ASSUME NEW i \in 1 .. Len(q) PROVE q[i] \in DOMAIN v.disk /\ q[i] < v.active /\ v.disk[q[i]] = w.disk[q[i]]
  <2>1. q[i] \in DOMAIN w.disk /\ q[i] < w.active /\ q[i] \in Nat
    BY <1>2 DEF Queue
  <2> QED
    BY <1>1, <2>1 DEF SealedKept
<1>4. Queue(q, v)
  BY <1>2, <1>3 DEF Queue
<1> QED
  BY <1>2, <1>3, <1>4

\* So does the task's state.
LEMMA TierKept ==
    ASSUME NEW t, NEW w, NEW v, WalOK(w), WalOK(v), SealedKept(v, w), TierOK(t, w)
    PROVE  TierOK(t, v)
<1>1. CASE Resting(t)
  BY <1>1 DEF TierOK
<1>2. CASE AtSegment(t, w)
  <2>1. Queue(t.queue, v)
    BY <1>2, QueueKept DEF AtSegment
  <2> QED
    BY <1>2, <2>1 DEF AtSegment, TierOK
<1>3. CASE AtGroup(t, w)
  <2>1. Queue(t.queue, v) /\ v.disk[t.queue[1]] = w.disk[t.queue[1]]
    BY <1>3, QueueKept DEF AtGroup
  <2> QED
    BY <1>3, <2>1 DEF AtGroup, TierOK
<1>4. CASE AtWork(t, w)
  <2>1. Queue(t.queue, v) /\ v.disk[t.queue[1]] = w.disk[t.queue[1]]
    BY <1>4, QueueKept DEF AtWork
  <2> QED
    BY <1>4, <2>1 DEF AtWork, TierOK
<1> QED
  BY <1>1, <1>2, <1>3, <1>4 DEF TierOK

\* The rest of a list of segments.
LEMMA QueueTail ==
    ASSUME NEW w, WalOK(w), NEW q, Queue(q, w), q # <<>>, NEW v, v = w \/ Deleted(v, w, q[1])
    PROVE  Queue(Tail(q), v) /\ (Len(q) # 1 => Tail(q) # <<>>)
<1>1. q \in Seq(Nat) /\ Len(q) \in Nat \ {0}
  BY DEF Queue
<1>2. /\ Tail(q) \in Seq(Nat) /\ Len(Tail(q)) = Len(q) - 1
      /\ \A i \in 1 .. Len(Tail(q)) : Tail(q)[i] = q[i + 1]
  BY <1>1, HeadTailProperties
<1>3. ASSUME NEW i \in 1 .. Len(Tail(q)) PROVE Tail(q)[i] \in DOMAIN v.disk /\ Tail(q)[i] < v.active
  <2>1. i + 1 \in 1 .. Len(q) /\ 1 \in 1 .. Len(q) /\ 1 < i + 1
    BY <1>1, <1>2
  <2>2. q[i + 1] \in DOMAIN w.disk /\ q[i + 1] < w.active /\ q[1] < q[i + 1] /\ q[1] \in Nat
    BY <1>1, <2>1 DEF Queue
  <2>3. q[i + 1] # q[1]
    BY <2>2
  <2> QED
    BY <1>2, <2>2, <2>3 DEF Deleted
<1>4. ASSUME NEW i \in 1 .. Len(Tail(q)), NEW j \in 1 .. Len(Tail(q)), i < j PROVE Tail(q)[i] < Tail(q)[j]
  <2>1. i + 1 \in 1 .. Len(q) /\ j + 1 \in 1 .. Len(q) /\ i + 1 < j + 1
    BY <1>1, <1>2, <1>4
  <2>2. q[i + 1] < q[j + 1]
    BY <2>1 DEF Queue
  <2> QED
    BY <1>2, <2>2
<1>5. Queue(Tail(q), v)
  BY <1>2, <1>3, <1>4 DEF Queue
<1>6. Len(q) # 1 => Tail(q) # <<>>
  <2>1. Len(q) # 1 => Len(Tail(q)) # 0
    BY <1>1, <1>2
  <2>2. Len(<<>>) = 0
    OBVIOUS
  <2> QED
    BY <2>1, <2>2, Zenon
<1> QED
  BY <1>5, <1>6

\* The cycle goes on with the next segment.
LEMMA NextSegmentOK ==
    ASSUME WalOK(wal), Queue(tier.queue, wal), tier.queue # <<>>, NEW v, v = wal \/ Deleted(v, wal, tier.queue[1])
    PROVE  TierOK(NextSegment, v)
<1>1. Queue(Tail(tier.queue), v) /\ (Len(tier.queue) # 1 => Tail(tier.queue) # <<>>)
  BY QueueTail
<1>2. CASE Len(tier.queue) = 1
  BY <1>2 DEF NextSegment, IdleTier, TierOK, Resting
<1>3. CASE Len(tier.queue) # 1
  <2>1. NextSegment = [pc |-> "segment", queue |-> Tail(tier.queue)]
    BY <1>3 DEF NextSegment
  <2>2. AtSegment(NextSegment, v)
    BY <1>1, <1>3, <2>1 DEF AtSegment, Queue
  <2> QED
    BY <2>2 DEF TierOK
<1> QED
  BY <1>2, <1>3

-------------------------------------------------------------------------------
(* The compaction planner.                                                 *)

\* A cold segment, a sequence of them to merge, and the state of the planner's loop.
Segments == [start : Offsets, end : Ends, key : Keys, size : Nat]
Merges == Seq(Segments) \ {<<>>}
PlanStates == [plans : Seq(Merges), run : Seq(Segments), size : Nat]

\* A run is closed.
LEMMA CloseRunTyped ==
    ASSUME NEW acc \in PlanStates
    PROVE  CloseRun(acc) \in Seq(Merges)
<1>1. acc.plans \in Seq(Merges) /\ acc.run \in Seq(Segments) /\ acc.size \in Nat
  BY DEF PlanStates
<1>2. CASE Len(acc.run) >= 2
  <2>1. acc.run # <<>>
    BY <1>1, <1>2
  <2>2. acc.run \in Merges
    BY <1>1, <2>1 DEF Merges
  <2> QED
    BY <1>1, <1>2, <2>2, AppendProperties DEF CloseRun
<1>3. CASE ~ (Len(acc.run) >= 2)
  BY <1>1, <1>3 DEF CloseRun
<1> QED
  BY <1>2, <1>3

\* One iteration of the planner.
LEMMA PlanStepTyped ==
    ASSUME NEW acc \in PlanStates, NEW seg \in Segments, NEW config
    PROVE  PlanStep(acc, seg, config) \in PlanStates
<1> DEFINE grown == Append(acc.run, seg)
<1>1. acc.plans \in Seq(Merges) /\ acc.run \in Seq(Segments) /\ acc.size \in Nat /\ seg.size \in Nat
  BY DEF PlanStates, Segments
<1>2. CloseRun(acc) \in Seq(Merges)
  BY CloseRunTyped
<1>3. grown \in Seq(Segments) /\ Len(grown) = Len(acc.run) + 1
  BY <1>1, AppendProperties
<1>4. grown \in Merges
  <2>1. Len(grown) # 0 /\ Len(<<>>) = 0
    BY <1>1, <1>3
  <2>2. grown # <<>>
    BY <2>1, Zenon
  <2> QED
    BY <1>3, <2>2 DEF Merges
<1>5. Append(acc.plans, grown) \in Seq(Merges)
  BY <1>1, <1>4, AppendProperties
<1>6. <<>> \in Seq(Segments) /\ <<seg>> \in Seq(Segments) /\ 0 \in Nat /\ acc.size + seg.size \in Nat
  BY <1>1
<1> HIDE DEF grown
<1>7. \/ \E run \in {<<seg>>, <<>>}, n \in {seg.size, 0} :
            PlanStep(acc, seg, config) = [plans |-> CloseRun(acc), run |-> run, size |-> n]
      \/ PlanStep(acc, seg, config) = [plans |-> Append(acc.plans, grown), run |-> <<>>, size |-> 0]
      \/ PlanStep(acc, seg, config) = [plans |-> acc.plans, run |-> grown, size |-> acc.size + seg.size]
  <2> HIDE DEF CloseRun
  <2> QED
    BY DEF PlanStep, grown
<1>8. CASE \E run \in {<<seg>>, <<>>}, n \in {seg.size, 0} :
             PlanStep(acc, seg, config) = [plans |-> CloseRun(acc), run |-> run, size |-> n]
  <2> HIDE DEF CloseRun
  <2>1. PICK run \in {<<seg>>, <<>>}, n \in {seg.size, 0} :
            PlanStep(acc, seg, config) = [plans |-> CloseRun(acc), run |-> run, size |-> n]
    BY <1>8
  <2>2. run \in Seq(Segments) /\ n \in Nat
    BY <1>1, <1>6
  <2> QED
    BY <1>2, <2>1, <2>2 DEF PlanStates
<1>9. CASE PlanStep(acc, seg, config) = [plans |-> Append(acc.plans, grown), run |-> <<>>, size |-> 0]
  BY <1>2, <1>5, <1>6, <1>9 DEF PlanStates
<1>10. CASE PlanStep(acc, seg, config) = [plans |-> acc.plans, run |-> grown, size |-> acc.size + seg.size]
  BY <1>1, <1>2, <1>3, <1>6, <1>10 DEF PlanStates
<1> QED
  BY <1>7, <1>8, <1>9, <1>10

\* The state after the last segment of s.
Planned(s, config) ==
    FoldLeft(LAMBDA acc, seg : PlanStep(acc, seg, config), [plans |-> <<>>, run |-> <<>>, size |-> 0], s)

\* h has the states of the planner's loop.
PlanRun(h, s, n, config) ==
    /\ h[0] = [plans |-> <<>>, run |-> <<>>, size |-> 0] /\ \A i \in 1 .. n : h[i] = PlanStep(h[i - 1], s[i], config)
    /\ Planned(s, config) = h[n]

\* The planner goes through the segments from the first on.
LEMMA PlanFolds ==
    ASSUME NEW config, NEW n \in Nat, NEW s \in [1 .. n -> Segments]
    PROVE  \E h : PlanRun(h, s, n, config)
<1> DEFINE A == PlanStates
           V == Segments
           base == [plans |-> <<>>, run |-> <<>>, size |-> 0]
           Eq(g) == g = [t \in SUBSET (1 .. n) |->
                           IF t = {} THEN base ELSE PlanStep(g[t \ {Max(t)}], s[Max(t)], config)]
           c == CHOOSE g : Eq(g)
           F == [p \in A \X V |-> PlanStep(p[1], p[2], config)]
<1>1. Planned(s, config) = c[1 .. n]
  <2>1. DOMAIN s = 1 .. n
    OBVIOUS
  <2> QED
    BY <2>1 DEF Planned, FoldLeft, MapThenFoldSet
<1>2. /\ F \in [A \X V -> A] /\ base \in A
      /\ \A a \in A, v \in V : F[<<a, v>>] = PlanStep(a, v, config)
  <2>1. \A a \in A, v \in V : PlanStep(a, v, config) \in A
    BY PlanStepTyped
  <2>2. base \in A
    BY DEF PlanStates
  <2> HIDE DEF A, V, base
  <2> QED
    BY <2>1, <2>2
<1> HIDE DEF A, V, base
<1>3. PICK g \in [SUBSET (1 .. n) -> A] : Folds(g, n, s, base, F)
  <2> HIDE DEF F
  <2>1. s \in [1 .. n -> V]
    BY DEF V
  <2> QED
    BY <1>2, <2>1, FoldExists
<1>4. ASSUME NEW t \in SUBSET (1 .. n)
      PROVE  g[t] = IF t = {} THEN base ELSE PlanStep(g[t \ {Max(t)}], s[Max(t)], config)
  <2>1. g[t] = IF t = {} THEN base ELSE F[<<g[t \ {Max(t)}], s[Max(t)]>>]
    BY <1>3 DEF Folds
  <2>2. CASE t # {}
    <3>1. Max(t) \in 1 .. n /\ t \ {Max(t)} \in SUBSET (1 .. n)
      BY <2>2, HighestPosition
    <3>2. s[Max(t)] \in V /\ g[t \ {Max(t)}] \in A
      BY <3>1 DEF V
    <3> HIDE DEF F
    <3> QED
      BY <1>2, <2>1, <2>2, <3>2
  <2> QED
    BY <2>1, <2>2
<1>5. Eq(g)
  BY <1>4
<1>6. Eq(c)
  <2> HIDE DEF Eq
  <2> QED
    BY <1>5
<1>7. c[{}] = base /\ \A i \in 1 .. n : c[1 .. i] = PlanStep(c[1 .. i - 1], s[i], config)
  <2>1. c[{}] = base
    BY <1>6
  <2>2. ASSUME NEW i \in 1 .. n PROVE c[1 .. i] = PlanStep(c[1 .. i - 1], s[i], config)
    <3>1. /\ 1 .. i \in SUBSET (1 .. n) /\ 1 .. i # {}
          /\ Max(1 .. i) = i /\ (1 .. i) \ {Max(1 .. i)} = 1 .. i - 1
      BY FoldPrefixes
    <3>2. \A t \in SUBSET (1 .. n) : t # {} => c[t] = PlanStep(c[t \ {Max(t)}], s[Max(t)], config)
      BY <1>6
    <3> HIDE DEF c
    <3> QED
      BY <3>1, <3>2, Zenon
  <2> QED
    BY <2>1, <2>2
<1> DEFINE h == [i \in 0 .. n |-> c[1 .. i]]
<1> HIDE DEF c
<1>8. h[0] = base /\ (\A i \in 1 .. n : h[i] = PlanStep(h[i - 1], s[i], config)) /\ Planned(s, config) = h[n]
  <2>1. 1 .. 0 = {}
    OBVIOUS
  <2>2. h[0] = base
    BY <1>7, <2>1
  <2>3. ASSUME NEW i \in 1 .. n PROVE h[i] = PlanStep(h[i - 1], s[i], config)
    <3>1. h[i] = c[1 .. i] /\ h[i - 1] = c[1 .. i - 1]
      OBVIOUS
    <3> HIDE DEF h
    <3> QED
      BY <1>7, <3>1
  <2>4. h[n] = c[1 .. n]
    OBVIOUS
  <2> QED
    BY <1>1, <2>2, <2>3, <2>4
<1> QED
  BY <1>8 DEF base, PlanRun

\* The plans are sequences of segments, none of them empty.
LEMMA PlanFields ==
    ASSUME NEW config, NEW s \in Seq(Segments)
    PROVE  plan_partition_compaction(s, config) \in Seq(Merges)
<1> DEFINE n == Len(s)
           base == [plans |-> <<>>, run |-> <<>>, size |-> 0]
           P == [i \in 0 .. n |-> PlanStates]
<1>1. n \in Nat /\ s \in [1 .. n -> Segments]
  OBVIOUS
<1>2. PICK h : PlanRun(h, s, n, config)
  <2> HIDE DEF n
  <2> QED
    BY <1>1, PlanFolds
<1>3. h[0] = base /\ (\A i \in 1 .. n : h[i] = PlanStep(h[i - 1], s[i], config)) /\ Planned(s, config) = h[n]
  BY <1>2 DEF PlanRun
<1>4. base \in PlanStates
  BY DEF PlanStates
<1> HIDE DEF base, n
<1>5. h[0] \in PlanStates
  BY <1>3, <1>4
<1>6. \A i \in 1 .. n : h[i - 1] \in PlanStates => h[i] \in PlanStates
  BY <1>1, <1>3, PlanStepTyped
<1>7. h[n] \in PlanStates
  <2>1. h[0] \in P[0] /\ \A i \in 1 .. n : h[i - 1] \in P[i - 1] => h[i] \in P[i]
    <3>1. 0 \in 0 .. n /\ \A i \in 1 .. n : i - 1 \in 0 .. n /\ i \in 0 .. n
      BY <1>1
    <3> QED
      BY <1>5, <1>6, <3>1
  <2>2. \A i \in 0 .. n : h[i] \in P[i]
    <3> HIDE DEF P
    <3> QED
      BY <1>1, <2>1, PrefixInduction
  <2>3. n \in 0 .. n
    BY <1>1
  <2> QED
    BY <2>2, <2>3
<1>8. plan_partition_compaction(s, config) = CloseRun(Planned(s, config))
  BY DEF plan_partition_compaction, Planned
<1> QED
  BY <1>3, <1>7, <1>8, CloseRunTyped

\* get_cold_segments lists the cold ranges.
LEMMA ColdSegmentsTyped ==
    ASSUME Exact(index), NEW tp \in Partitions
    PROVE  get_cold_segments(tp) \in Seq(Segments)
<1> DEFINE cold == index.parts[tp].cold
           s == [i \in 1 .. MaxOffset |-> i - 1]
           starts == Keep(s, DOMAIN cold)
           segs == [i \in 1 .. Len(starts) |->
                      [start |-> starts[i], end |-> cold[starts[i]].end,
                       key |-> cold[starts[i]].key, size |-> cold[starts[i]].size]]
<1>1. cold \in Maps(Offsets, Ranges)
  BY DEF Exact, Indexes, Entries, Colds
<1>2. DOMAIN cold \subseteq Offsets /\ cold \in [DOMAIN cold -> Ranges]
  BY <1>1, MapFields
<1>3. s \in Seq(Nat)
  BY StoreConstants
<1> HIDE DEF s, cold
<1>4. starts \in Seq(Nat) /\ Kept(starts, s, Len(s), DOMAIN cold)
  BY <1>3, KeepFields
<1>5. get_cold_segments(tp) = segs
  BY DEF get_cold_segments, cold, s
<1> HIDE DEF starts
<1>6. ASSUME NEW i \in 1 .. Len(starts) PROVE segs[i] \in Segments
  <2>1. starts[i] \in DOMAIN cold
    BY <1>4 DEF Kept
  <2>2. starts[i] \in Offsets /\ cold[starts[i]] \in Ranges
    BY <1>2, <2>1
  <2> QED
    BY <2>2 DEF Ranges, Segments
<1>7. segs \in Seq(Segments)
  BY <1>4, <1>6
<1> QED
  BY <1>5, <1>7

\* A plan of the compaction task, and the task.
Plans == [tp : Partitions, sources : Merges]
CompactOK(c) ==
    \/ c \in [pc : {"idle", "execute"}, plans : SUBSET Plans]
    \/ c \in [pc : {"record", "replace", "delete"}, plans : SUBSET Plans, plan : Plans, size : Nat]

\* The plans of a cycle.
LEMMA PlansTyped ==
    ASSUME Exact(index)
    PROVE  plan_compaction \subseteq Plans
<1>1. ASSUME NEW tp \in Partitions, NEW s \in ToSet(plan_partition_compaction(get_cold_segments(tp), Compaction))
      PROVE  [tp |-> tp, sources |-> s] \in Plans
  <2>1. plan_partition_compaction(get_cold_segments(tp), Compaction) \in Seq(Merges)
    BY ColdSegmentsTyped, PlanFields
  <2>2. s \in Merges
    BY <2>1 DEF ToSet
  <2> QED
    BY <2>2 DEF Plans
<1> HIDE DEF Plans
<1>2. SUFFICES ASSUME NEW plan \in plan_compaction PROVE plan \in Plans
  OBVIOUS
<1>3. PICK tp \in Partitions :
          plan \in {[tp |-> tp, sources |-> s] :
                      s \in ToSet(plan_partition_compaction(get_cold_segments(tp), Compaction))}
  BY <1>2, Zenon DEF plan_compaction
<1>4. PICK s \in ToSet(plan_partition_compaction(get_cold_segments(tp), Compaction)) :
          plan = [tp |-> tp, sources |-> s]
  BY <1>3, Zenon
<1> QED
  BY <1>1, <1>4, Zenon

\* The range, the object and the key of a merge.
LEMMA MergeFields ==
    ASSUME NEW plan \in Plans, objects \in Maps(Keys, Seq(Record))
    PROVE  /\ plan.tp \in Partitions /\ MergedStart(plan) \in Offsets /\ MergedEnd(plan) \in Ends
           /\ MergedKey(plan) \in Keys
           /\ Mergeable(plan) => MergedRecords(plan) \in Seq(Record) /\ Len(MergedRecords(plan)) \in Nat
           /\ SourceKeys(plan) \subseteq Keys
<1> DEFINE src == plan.sources
           keys == [i \in 1 .. Len(src) |-> src[i].key]
<1>1. plan.tp \in Partitions /\ src \in Seq(Segments) /\ src # <<>>
  BY DEF Plans, Merges
<1>2. Len(src) \in Nat \ {0} /\ Head(src) = src[1] /\ \A i \in 1 .. Len(src) : src[i] \in Segments
  BY <1>1
<1>3. src[1] \in Segments /\ src[Len(src)] \in Segments
  BY <1>2
<1>4. src[1].start \in Offsets /\ src[Len(src)].end \in Ends /\ \A i \in 1 .. Len(src) : src[i].key \in Keys
  BY <1>2, <1>3 DEF Segments
<1>5. MergedStart(plan) \in Offsets /\ MergedEnd(plan) \in Ends
  BY <1>2, <1>4 DEF MergedStart, MergedEnd, Last
<1>6. MergedKey(plan) \in Keys
  <2> HIDE DEF src
  <2> QED
    BY <1>1, <1>5 DEF MergedKey, ObjectKey, Keys
<1>7. DOMAIN src = 1 .. Len(src)
  BY <1>1
<1>8. SourceKeys(plan) \subseteq Keys /\ \A i \in 1 .. Len(src) : src[i].key \in SourceKeys(plan)
  BY <1>4, <1>7 DEF SourceKeys, ToSet
<1>9. ASSUME Mergeable(plan) PROVE MergedRecords(plan) \in Seq(Record) /\ Len(MergedRecords(plan)) \in Nat
  <2>1. objects \in [DOMAIN objects -> Seq(Record)]
    BY MapFields
  <2>2. SourceKeys(plan) \subseteq DOMAIN objects
    BY <1>9 DEF Mergeable
  <2>3. \A i \in 1 .. Len(src) : src[i].key \in DOMAIN objects
    BY <1>8, <2>2
  <2>4. keys \in Seq(DOMAIN objects)
    BY <1>2, <2>3
  <2>5. MergedRecords(plan) = Joined(objects, keys)
    BY DEF MergedRecords
  <2> HIDE DEF keys
  <2>6. MergedRecords(plan) \in Seq(Record)
    BY <2>1, <2>4, <2>5, JoinFields
  <2> QED
    BY <2>6
<1> QED
  BY <1>1, <1>5, <1>6, <1>8, <1>9

-------------------------------------------------------------------------------
(* The types of the store's variables, which every step keeps: among them  *)
(* that hot_bytes is the size of the hot records (Exact).                  *)

Manifests == [live : [Partitions -> Colds], orphans : SUBSET Keys, torn : BOOLEAN]
Archives == Maps(Keys, Seq(Record))

\* A produce in progress has a record to append until it commits, and its offsets are
\* within the bound.
Appending == {"capacity", "insert", "wal", "rollback"}
Requests == [pc : Appending \cup {"commit"}, tp : Partitions, base : Ends,
             recs : Seq(Record), todo : Seq(Record)]
RequestOK(q) ==
    q \in Requests /\ (q.pc # "commit" => q.todo # <<>>) /\ q.base + Len(q.recs) <= MaxOffset
ProducerOK(q) == q = IdleProducer \/ RequestOK(q)

StoreTyped ==
    /\ Exact(index) /\ WalOK(wal) /\ manifest \in Manifests /\ objects \in Archives
    /\ hw \in [Partitions -> Ends]
    /\ issued \in SUBSET Record /\ IsFiniteSet(issued)
    /\ DOMAIN producer = Producers /\ \A p \in Producers : ProducerOK(producer[p])
    /\ TierOK(tier, wal) /\ CompactOK(compact)

\* Everything starts empty.
LEMMA TypedInit == Init => StoreTyped
<1> SUFFICES ASSUME Init PROVE StoreTyped
  OBVIOUS
<1>1. Exact(index)
  BY EmptyIndexExact DEF Init
<1>2. WalOK(wal)
  <2>1. wal = [disk |-> open_new_segment(<<>>, 0), active |-> 0, tail |-> <<>>, active_size |-> 0]
    BY DEF Init, wal_new
  <2>2. <<>> \in Maps(Nat, Seq(Record)) /\ DOMAIN <<>> = {}
    BY EmptyMap
  <2>3. open_new_segment(<<>>, 0) = Put(<<>>, 0, <<>>)
    BY DEF open_new_segment, Put
  <2>4. /\ open_new_segment(<<>>, 0) \in Maps(Nat, Seq(Record))
        /\ Stored(open_new_segment(<<>>, 0), <<>>, 0, <<>>)
    <3>1. <<>> \in Seq(Record) /\ 0 \in Nat
      OBVIOUS
    <3>2. \A f \in Maps(Nat, Seq(Record)), v \in Seq(Record) :
             Put(f, 0, v) \in Maps(Nat, Seq(Record)) /\ Stored(Put(f, 0, v), f, 0, v)
      BY <3>1, PutFields
    <3> QED
      BY <2>2, <2>3, <3>1, <3>2, Zenon
  <2> DEFINE c == open_new_segment(<<>>, 0)
  <2> HIDE DEF c
  <2>5. wal \in Logs /\ wal.disk = c /\ wal.active = 0
    <3>1. <<>> \in Seq(Record) /\ 0 \in Nat
      OBVIOUS
    <3>2. wal \in Logs
      BY <2>1, <2>4, <3>1, MakeLog, Zenon DEF c
    <3> QED
      BY <2>1, <3>2 DEF c
  <2>6. DOMAIN c = {0}
    BY <2>2, <2>4 DEF c, Stored
  <2> QED
    BY <2>5, <2>6 DEF WalOK
<1>3. manifest \in Manifests /\ objects \in Archives
  BY EmptyMap DEF Init, EmptyManifest, Manifests, Colds, Archives
<1>4. hw \in [Partitions -> Ends]
  BY StoreConstants DEF Init, Ends
<1>5. issued \in SUBSET Record /\ IsFiniteSet(issued)
  BY FS_EmptySet DEF Init
<1>6. DOMAIN producer = Producers /\ \A p \in Producers : ProducerOK(producer[p])
  BY DEF Init, ProducerOK
<1>7. TierOK(tier, wal)
  BY DEF Init, IdleTier, TierOK, Resting
<1>8. CompactOK(compact)
  BY DEF Init, IdleCompact, CompactOK
<1> QED
  BY <1>1, <1>2, <1>3, <1>4, <1>5, <1>6, <1>7, <1>8 DEF StoreTyped

\* A request that went on.
LEMMA ProducersKept ==
    ASSUME StoreTyped, NEW p \in Producers, NEW q, ProducerOK(q), producer' = [producer EXCEPT ![p] = q]
    PROVE  DOMAIN producer' = Producers /\ \A c \in Producers : ProducerOK(producer'[c])
<1>1. DOMAIN producer = Producers
  BY DEF StoreTyped
<1>2. DOMAIN producer' = Producers /\ producer'[p] = q /\ \A c \in Producers \ {p} : producer'[c] = producer[c]
  BY <1>1
<1> QED
  BY <1>2 DEF StoreTyped

\* The records of a new request.
LEMMA NewRecordsTyped ==
    ASSUME StoreTyped, NEW p \in Producers, NEW tp \in Partitions, NEW n \in BatchSizes, NEW acks, NEW size \in Sizes,
           ProduceStart(p, tp, n, acks, size)
    PROVE  /\ NewRecords(tp, n, size) \in Seq(Record) /\ Len(NewRecords(tp, n, size)) = n /\ n \in Nat \ {0}
           /\ hw[tp] \in Ends /\ hw[tp] + n <= MaxOffset /\ hw[tp] \in Nat
           /\ ToSet(NewRecords(tp, n, size)) \in SUBSET Record /\ IsFiniteSet(ToSet(NewRecords(tp, n, size)))
<1> DEFINE recs == NewRecords(tp, n, size)
<1>1. n \in Nat \ {0} /\ hw[tp] \in Nat /\ hw[tp] \in Ends /\ hw[tp] + n <= MaxOffset /\ MaxOffset \in Nat
  BY StoreConstants DEF StoreTyped, ProduceStart, Ends
<1>2. ASSUME NEW i \in 1 .. n PROVE recs[i] \in Record
  <2> DEFINE S == {r \in issued : r.tp = tp /\ r.off = hw[tp] + i - 1}
  <2>1. recs[i] = [tp |-> tp, off |-> hw[tp] + i - 1, size |-> size, id |-> Cardinality(S)]
    BY DEF NewRecords
  <2>2. IsFiniteSet(S)
    <3>1. S \subseteq issued /\ IsFiniteSet(issued)
      BY DEF StoreTyped
    <3> QED
      BY <3>1, FS_Subset
  <2>3. Cardinality(S) \in Nat
    BY <2>2, FS_CardinalityType
  <2>4. recs[i].id < MaxAttempts
    BY DEF ProduceStart
  <2> HIDE DEF S
  <2>5. recs[i].id = Cardinality(S)
    BY <2>1
  <2>6. Cardinality(S) \in 0 .. MaxAttempts - 1
    BY <2>3, <2>4, <2>5, StoreConstants
  <2>7. hw[tp] + i - 1 \in Offsets
    BY <1>1 DEF Offsets
  <2> QED
    BY <2>1, <2>6, <2>7 DEF Record
<1>3. recs \in Seq(Record) /\ Len(recs) = n
  <2>1. recs \in [1 .. n -> Record]
    <3>1. DOMAIN recs = 1 .. n /\ recs = [i \in 1 .. n |-> recs[i]]
      BY DEF NewRecords
    <3> HIDE DEF recs
    <3> QED
      BY <1>2, <3>1
  <2> HIDE DEF recs
  <2> QED
    BY <1>1, <2>1
<1> HIDE DEF recs
<1>4. DOMAIN recs = 1 .. n
  BY <1>3
<1>5. ToSet(recs) \in SUBSET Record
  BY <1>2, <1>4 DEF ToSet
<1>6. IsFiniteSet(ToSet(recs))
  <2>1. IsFiniteSet(1 .. n)
    BY <1>1, FS_Interval
  <2>2. recs \in [1 .. n -> ToSet(recs)] /\ \A t \in ToSet(recs) : \E i \in 1 .. n : recs[i] = t
    BY <1>3, <1>4 DEF ToSet
  <2>3. recs \in Surjection(1 .. n, ToSet(recs))
    BY <2>2 DEF Surjection
  <2> QED
    BY <2>1, <2>3, FS_Surjection
<1> QED
  BY <1>1, <1>3, <1>5, <1>6 DEF recs

\* ProduceStart.
LEMMA TypedProduceStart ==
    ASSUME StoreTyped, NEW p \in Producers, NEW tp \in Partitions, NEW n \in BatchSizes, NEW acks, NEW size \in Sizes,
           ProduceStart(p, tp, n, acks, size)
    PROVE  StoreTyped'
<1> DEFINE recs == NewRecords(tp, n, size)
           q == [pc |-> AppendNext, tp |-> tp, base |-> hw[tp], recs |-> recs,
                 todo |-> IF acks = "Leader" THEN recs ELSE recs \o recs]
<1>1. /\ recs \in Seq(Record) /\ Len(recs) = n /\ n \in Nat \ {0}
      /\ hw[tp] \in Ends /\ hw[tp] + n <= MaxOffset /\ hw[tp] \in Nat
      /\ ToSet(recs) \in SUBSET Record /\ IsFiniteSet(ToSet(recs))
  BY NewRecordsTyped
<1>2. producer' = [producer EXCEPT ![p] = q] /\ issued' = issued \cup ToSet(recs)
  BY DEF ProduceStart
<1> HIDE DEF recs
<1>3. q.todo \in Seq(Record) /\ q.todo # <<>>
  <2>1. recs \o recs \in Seq(Record) /\ Len(recs \o recs) = Len(recs) + Len(recs)
    BY <1>1, ConcatProperties
  <2>2. q.todo = recs \/ q.todo = recs \o recs
    OBVIOUS
  <2>3. Len(q.todo) # 0
    BY <1>1, <2>1, <2>2
  <2>4. Len(<<>>) = 0
    OBVIOUS
  <2> HIDE DEF q
  <2>5. q.todo # <<>>
    BY <2>3, <2>4, Zenon
  <2> QED
    BY <1>1, <2>1, <2>2, <2>5
<1>4. RequestOK(q)
  <2> DEFINE t == IF acks = "Leader" THEN recs ELSE recs \o recs
  <2>1. q = [pc |-> AppendNext, tp |-> tp, base |-> hw[tp], recs |-> recs, todo |-> t] /\ t \in Seq(Record) /\ t # <<>>
    BY <1>3
  <2>2. AppendNext \in Appending \cup {"commit"} 
    BY DEF AppendNext, Appending
  <2> HIDE DEF q, t
  <2> QED
    BY <1>1, <2>1, <2>2 DEF RequestOK, Requests
<1> HIDE DEF q
<1>5. DOMAIN producer' = Producers /\ \A c \in Producers : ProducerOK(producer'[c])
  BY <1>2, <1>4, ProducersKept DEF ProducerOK
<1>6. issued' \in SUBSET Record /\ IsFiniteSet(issued')
  BY <1>1, <1>2, FS_Union DEF StoreTyped
<1>7. UNCHANGED <<index, wal, manifest, objects, hw, tier, compact>>
  BY DEF ProduceStart, storage
<1> QED
  BY <1>5, <1>6, <1>7 DEF StoreTyped

\* A request that has a record to append.
LEMMA Incoming ==
    ASSUME StoreTyped, NEW p \in Producers, producer[p].pc \in Appending
    PROVE  /\ RequestOK(producer[p]) /\ producer[p].todo \in Seq(Record) /\ Len(producer[p].todo) > 0
           /\ Head(producer[p].todo) = producer[p].todo[1] /\ Head(producer[p].todo) \in Record
<1>1. ProducerOK(producer[p]) /\ producer[p].pc # "idle" /\ producer[p].pc # "commit"
  BY DEF StoreTyped, Appending
<1>2. producer[p] # IdleProducer
  BY <1>1 DEF IdleProducer
<1>3. RequestOK(producer[p])
  BY <1>1, <1>2 DEF ProducerOK
<1>4. producer[p].todo \in Seq(Record) /\ producer[p].todo # <<>>
  BY <1>1, <1>3 DEF RequestOK, Requests
<1> QED
  BY <1>3, <1>4

\* A request whose program counter moved.
LEMMA RequestMoved ==
    ASSUME StoreTyped, NEW p \in Producers, producer[p].pc \in Appending, NEW pc \in Appending,
           producer' = [producer EXCEPT ![p].pc = pc]
    PROVE  DOMAIN producer' = Producers /\ \A c \in Producers : ProducerOK(producer'[c])
<1> DEFINE r == producer[p]
           q == [r EXCEPT !.pc = pc]
<1>1. RequestOK(r) /\ r.todo # <<>>
  BY Incoming
<1>2. producer' = [producer EXCEPT ![p] = q]
  OBVIOUS
<1>3. RequestOK(q)
  <2> HIDE DEF r
  <2> QED
    BY <1>1 DEF RequestOK, Requests
<1> HIDE DEF q
<1> QED
  BY <1>2, <1>3, ProducersKept DEF ProducerOK

\* AwaitCapacity.
LEMMA TypedAwaitCapacity ==
    ASSUME StoreTyped, NEW p \in Producers, AwaitCapacity(p)
    PROVE  StoreTyped'
<1>1. producer[p].pc \in Appending /\ "insert" \in Appending /\ producer' = [producer EXCEPT ![p].pc = "insert"]
  BY DEF AwaitCapacity, Appending
<1>2. DOMAIN producer' = Producers /\ \A c \in Producers : ProducerOK(producer'[c])
  BY <1>1, RequestMoved
<1>3. UNCHANGED <<index, wal, manifest, objects, hw, tier, compact, issued>>
  BY DEF AwaitCapacity, storage, history
<1> QED
  BY <1>2, <1>3 DEF StoreTyped

\* InsertHot.
LEMMA TypedInsertHot ==
    ASSUME StoreTyped, NEW p \in Producers, InsertHot(p)
    PROVE  /\ StoreTyped' /\ index' = insert_hot(index, Head(producer[p].todo).tp, Head(producer[p].todo).off,
                                                 Head(producer[p].todo))
           /\ HotInserted(index', index, Head(producer[p].todo).tp, Head(producer[p].todo).off, Head(producer[p].todo))
           /\ Head(producer[p].todo) \in Record
<1> DEFINE rec == Head(producer[p].todo)
<1>1. producer[p].pc \in Appending /\ "wal" \in Appending /\ producer' = [producer EXCEPT ![p].pc = "wal"]
  BY DEF InsertHot, Appending
<1>2. DOMAIN producer' = Producers /\ \A c \in Producers : ProducerOK(producer'[c])
  BY <1>1, RequestMoved
<1>3. rec \in Record
  BY <1>1, Incoming
<1>4. index' = insert_hot(index, rec.tp, rec.off, rec)
  BY DEF InsertHot
<1> HIDE DEF rec
<1>5. Exact(index') /\ HotInserted(index', index, rec.tp, rec.off, rec)
  BY <1>3, <1>4, RecordFields, InsertHotExact DEF StoreTyped
<1>6. UNCHANGED <<wal, manifest, objects, hw, tier, compact, issued>>
  BY DEF InsertHot, storage, history
<1>7. StoreTyped'
  BY <1>2, <1>5, <1>6 DEF StoreTyped
<1> QED
  BY <1>3, <1>4, <1>5, <1>7 DEF rec

\* A step of the log that keeps what is sealed.
LEMMA TypedWal ==
    ASSUME StoreTyped, WalOK(wal'), SealedKept(wal', wal), UNCHANGED <<index, manifest, objects, hw, tier, compact, issued>>,
           DOMAIN producer' = Producers /\ \A c \in Producers : ProducerOK(producer'[c])
    PROVE  StoreTyped'
<1>1. TierOK(tier, wal')
  BY TierKept DEF StoreTyped
<1> QED
  BY <1>1 DEF StoreTyped

\* A sequence of two or more elements has a tail.
LEMMA TailLeft ==
    ASSUME NEW R, NEW s \in Seq(R), Len(s) > 1
    PROVE  Tail(s) # <<>>
<1>1. Len(s) \in Nat /\ s # <<>>
  OBVIOUS
<1>a. Len(Tail(s)) = Len(s) - 1
  BY <1>1, HeadTailProperties
<1> DEFINE n == Len(s)
           m == Len(Tail(s))
<1>b. m # 0
  <2> HIDE DEF n, m
  <2>1. n \in Nat /\ n > 1 /\ m = n - 1
    BY <1>1, <1>a DEF n, m
  <2> QED
    BY <2>1
<1>2. Len(Tail(s)) # 0 /\ Len(<<>>) = 0
  BY <1>b
<1> QED
  BY <1>2, Zenon

\* The request after an append.
LEMMA RequestAppended ==
    ASSUME StoreTyped, NEW p \in Producers, WalAppend(p)
    PROVE  /\ producer[p].pc \in Appending /\ RequestOK(producer[p])
           /\ DOMAIN producer' = Producers /\ \A c \in Producers \ {p} : producer'[c] = producer[c]
           /\ producer'[p] \in Requests /\ RequestOK(producer'[p])
           /\ producer'[p].pc = IF Len(producer[p].todo) > 1 THEN AppendNext ELSE "commit"
           /\ producer'[p].tp = producer[p].tp /\ producer'[p].base = producer[p].base
           /\ producer'[p].recs = producer[p].recs /\ producer'[p].todo = Tail(producer[p].todo)
<1> DEFINE r == producer[p]
           pc == IF Len(r.todo) > 1 THEN AppendNext ELSE "commit"
           q == [r EXCEPT !.todo = Tail(@), !.pc = pc]
<1>1. r.pc \in Appending
  BY DEF WalAppend, Appending
<1>2. RequestOK(r) /\ r.todo \in Seq(Record) /\ Len(r.todo) > 0
  BY <1>1, Incoming
<1>3. DOMAIN producer = Producers
  BY DEF StoreTyped
<1>4. /\ DOMAIN producer' = Producers /\ \A c \in Producers \ {p} : producer'[c] = producer[c]
      /\ producer'[p] = q
  BY <1>3 DEF WalAppend
<1>5. /\ Tail(r.todo) \in Seq(Record) /\ Len(Tail(r.todo)) = Len(r.todo) - 1
  BY <1>2, HeadTailProperties
<1>6. pc # "commit" => Tail(r.todo) # <<>>
  <2>1. pc # "commit" => Len(r.todo) > 1
    OBVIOUS
  <2> QED
    BY <1>2, <2>1, TailLeft
<1>7. pc \in Appending \cup {"commit"}
  BY DEF AppendNext, Appending
<1> DEFINE t == Tail(r.todo)
<1>8. q = [r EXCEPT !.todo = t, !.pc = pc]
  OBVIOUS
<1> HIDE DEF r, pc, t, q
<1>9. r \in Requests /\ r.base + Len(r.recs) <= MaxOffset
  BY <1>2 DEF RequestOK
<1>10. q \in Requests /\ q.pc = pc /\ q.tp = r.tp /\ q.base = r.base /\ q.recs = r.recs /\ q.todo = t
  BY <1>5, <1>7, <1>8, <1>9 DEF Requests, t
<1>11. RequestOK(q)
  BY <1>6, <1>9, <1>10 DEF RequestOK, t
<1> QED
  BY <1>1, <1>2, <1>4, <1>10, <1>11 DEF t, pc, r

\* WalAppend.
LEMMA TypedWalAppend ==
    ASSUME StoreTyped, NEW p \in Producers, WalAppend(p)
    PROVE  StoreTyped'
<1> DEFINE rec == Head(producer[p].todo)
<1>1. producer[p].pc \in Appending
  BY DEF WalAppend, Appending
<1>2. rec \in Record /\ WalOK(wal) /\ FsyncOnWrite \in BOOLEAN
  BY <1>1, Incoming, StoreConstants DEF StoreTyped
<1>3. wal' = handle_append(wal, rec, FsyncOnWrite)
  BY DEF WalAppend
<1> HIDE DEF rec
<1>4. WalOK(wal') /\ SealedKept(wal', wal)
  BY <1>2, <1>3, AppendFields
<1>5. DOMAIN producer' = Producers /\ \A c \in Producers : ProducerOK(producer'[c])
  <2>1. /\ DOMAIN producer' = Producers /\ \A c \in Producers \ {p} : producer'[c] = producer[c]
        /\ RequestOK(producer'[p])
    BY RequestAppended
  <2> QED
    BY <2>1 DEF ProducerOK, StoreTyped
<1>6. UNCHANGED <<index, manifest, objects, hw, tier, compact, issued>>
  BY DEF WalAppend, history
<1> QED
  BY <1>4, <1>5, <1>6, TypedWal

\* WalAppendErr.
LEMMA TypedWalAppendErr ==
    ASSUME StoreTyped, NEW p \in Producers, WalAppendErr(p)
    PROVE  StoreTyped'
<1> DEFINE rec == Head(producer[p].todo)
<1>1. producer[p].pc \in Appending /\ "rollback" \in Appending /\ producer' = [producer EXCEPT ![p].pc = "rollback"]
  BY DEF WalAppendErr, Appending
<1>2. rec \in Record /\ WalOK(wal)
  BY <1>1, Incoming DEF StoreTyped
<1>3. wal' = handle_append_err(wal, rec)
  BY DEF WalAppendErr
<1> HIDE DEF rec
<1>4. WalOK(wal') /\ SealedKept(wal', wal)
  BY <1>2, <1>3, AppendErrFields
<1>5. DOMAIN producer' = Producers /\ \A c \in Producers : ProducerOK(producer'[c])
  BY <1>1, RequestMoved
<1>6. UNCHANGED <<index, manifest, objects, hw, tier, compact, issued>>
  BY DEF WalAppendErr, history
<1> QED
  BY <1>4, <1>5, <1>6, TypedWal

\* AppendRollback.
LEMMA TypedAppendRollback ==
    ASSUME StoreTyped, NEW p \in Producers, AppendRollback(p)
    PROVE  StoreTyped' /\ index'.hot_bytes <= index.hot_bytes
<1> DEFINE rec == Head(producer[p].todo)
<1>1. producer[p].pc \in Appending /\ producer' = [producer EXCEPT ![p] = IdleProducer]
  BY DEF AppendRollback, Appending
<1>2. rec \in Record
  BY <1>1, Incoming
<1>3. index' = remove_hot(index, rec.tp, rec.off)
  BY DEF AppendRollback
<1> HIDE DEF rec
<1>4. Exact(index') /\ index'.hot_bytes <= index.hot_bytes
  <2>1. /\ Exact(index') /\ HotRemoved(index', index, rec.tp, {rec.off} \cap DOMAIN index.parts[rec.tp].hot)
    BY <1>2, <1>3, RecordFields, RemoveHotExact DEF StoreTyped
  <2> QED
    BY <2>1 DEF HotRemoved
<1>5. DOMAIN producer' = Producers /\ \A c \in Producers : ProducerOK(producer'[c])
  BY <1>1, ProducersKept DEF ProducerOK
<1>6. UNCHANGED <<wal, manifest, objects, hw, tier, compact, issued>>
  BY DEF AppendRollback, storage
<1>7. StoreTyped'
  BY <1>4, <1>5, <1>6 DEF StoreTyped
<1> QED
  BY <1>4, <1>7

\* ProduceCommit.
LEMMA TypedProduceCommit ==
    ASSUME StoreTyped, NEW p \in Producers, ProduceCommit(p)
    PROVE  StoreTyped'
<1> DEFINE r == producer[p]
<1>1. r.pc = "commit" /\ producer' = [producer EXCEPT ![p] = IdleProducer]
      /\ hw' = [hw EXCEPT ![r.tp] = r.base + Len(r.recs)]
  BY DEF ProduceCommit
<1>2. r # IdleProducer /\ ProducerOK(r)
  BY <1>1 DEF IdleProducer, StoreTyped
<1>3. RequestOK(r)
  BY <1>2 DEF ProducerOK
<1> HIDE DEF r
<1>4. r.base + Len(r.recs) \in Ends
  BY <1>3, StoreConstants DEF RequestOK, Requests, Ends
<1>5. hw' \in [Partitions -> Ends]
  BY <1>1, <1>4 DEF StoreTyped
<1>6. DOMAIN producer' = Producers /\ \A c \in Producers : ProducerOK(producer'[c])
  BY <1>1, ProducersKept DEF ProducerOK
<1>7. UNCHANGED <<index, wal, manifest, objects, tier, compact, issued>>
  BY DEF ProduceCommit, storage
<1> QED
  BY <1>5, <1>6, <1>7 DEF StoreTyped

\* FlushTick.
LEMMA TypedFlushTick ==
    ASSUME StoreTyped, FlushTick
    PROVE  StoreTyped'
<1>1. wal' = flush(wal) /\ WalOK(wal)
  BY DEF FlushTick, StoreTyped
<1>2. WalOK(wal') /\ SealedKept(wal', wal)
  BY <1>1, FlushFields
<1>3. UNCHANGED <<index, manifest, objects, hw, tier, compact, issued, producer>>
  BY DEF FlushTick, history, tasks
<1>4. DOMAIN producer' = Producers /\ \A c \in Producers : ProducerOK(producer'[c])
  BY <1>3 DEF StoreTyped
<1> QED
  BY <1>2, <1>3, <1>4, TypedWal

\* Steps of the tiering task alone.
LEMMA TypedTier ==
    ASSUME StoreTyped, TierOK(tier', wal'), WalOK(wal'), Exact(index'), manifest' \in Manifests, objects' \in Archives,
           UNCHANGED <<hw, producer, compact, issued>>
    PROVE  StoreTyped'
BY DEF StoreTyped

\* TierOnce.
LEMMA TypedTierOnce ==
    ASSUME StoreTyped, TierOnce
    PROVE  StoreTyped'
<1>1. WalOK(wal) /\ WalOK(wal')
  <2>1. wal' = handle_maybe_seal(wal) \/ wal' = wal
    BY DEF TierOnce
  <2> QED
    BY <2>1, SealFields DEF StoreTyped
<1>2. tier' = [pc |-> "segment", queue |-> sealed_segments(wal')] /\ sealed_segments(wal') # <<>>
  BY DEF TierOnce
<1>3. Queue(sealed_segments(wal'), wal')
  BY <1>1, SealedFields
<1>4. TierOK(tier', wal')
  <2> DEFINE q == sealed_segments(wal')
  <2>1. q \in Seq(Nat)
    BY <1>3 DEF Queue
  <2> HIDE DEF q
  <2>2. AtSegment(tier', wal')
    BY <1>2, <1>3, <2>1 DEF AtSegment, q
  <2> QED
    BY <2>2 DEF TierOK
<1>5. UNCHANGED <<index, manifest, objects, hw, producer, compact, issued>>
  BY DEF TierOnce, history
<1> QED
  BY <1>1, <1>4, <1>5, TypedTier DEF StoreTyped

\* The queue of a task that is at a segment or at a group.
LEMMA TierQueue ==
    ASSUME StoreTyped, tier.pc \notin {"idle", "dead"}
    PROVE  /\ Queue(tier.queue, wal) /\ tier.queue # <<>> /\ Head(tier.queue) = tier.queue[1]
           /\ tier.queue[1] \in Nat /\ tier.queue[1] < wal.active /\ tier.queue[1] \in DOMAIN wal.disk
           /\ Segment = wal.disk[tier.queue[1]] /\ Segment \in Seq(Record) /\ WalOK(wal)
<1>1. TierOK(tier, wal) /\ ~Resting(tier) /\ WalOK(wal)
  BY DEF StoreTyped, Resting
<1>2. Queue(tier.queue, wal) /\ tier.queue # <<>>
  BY <1>1 DEF TierOK, AtSegment, AtGroup, AtWork
<1>3. tier.queue \in Seq(Nat) /\ Len(tier.queue) > 0 /\ Head(tier.queue) = tier.queue[1] /\ 1 \in 1 .. Len(tier.queue)
  BY <1>2 DEF Queue
<1>4. tier.queue[1] \in Nat /\ tier.queue[1] < wal.active /\ tier.queue[1] \in DOMAIN wal.disk
  BY <1>2, <1>3 DEF Queue
<1>5. Segment = wal.disk[tier.queue[1]] /\ Segment \in Seq(Record)
  BY <1>1, <1>3, <1>4, WalFields DEF Segment
<1> QED
  BY <1>1, <1>2, <1>3, <1>4, <1>5

\* A task at one of the pcs.
LEMMA TierAt ==
    ASSUME StoreTyped
    PROVE  /\ tier.pc = "segment" => AtSegment(tier, wal)
           /\ tier.pc = "group" => AtGroup(tier, wal)
           /\ tier.pc \in Working => AtWork(tier, wal)
BY DEF StoreTyped, TierOK, Resting, AtSegment, AtGroup, AtWork, Working

\* Deleting the segment in work.
LEMMA TypedDelete ==
    ASSUME StoreTyped, tier.pc \notin {"idle", "dead"}
    PROVE  /\ WalOK(delete_segment(wal, Head(tier.queue))) 
           /\ Deleted(delete_segment(wal, Head(tier.queue)), wal, tier.queue[1])
           /\ TierOK(NextSegment, delete_segment(wal, Head(tier.queue))) /\ TierOK(NextSegment, wal)
<1> DEFINE q == tier.queue[1]
           v == delete_segment(wal, q)
<1>1. /\ Queue(tier.queue, wal) /\ tier.queue # <<>> /\ Head(tier.queue) = q
      /\ q \in Nat /\ q < wal.active /\ WalOK(wal)
  BY TierQueue
<1> HIDE DEF q
<1>2. WalOK(v) /\ Deleted(v, wal, q)
  BY <1>1, DeleteFields
<1> HIDE DEF v
<1>3. TierOK(NextSegment, v) /\ TierOK(NextSegment, wal)
  BY <1>1, <1>2, NextSegmentOK DEF q
<1> QED
  BY <1>1, <1>2, <1>3 DEF v, q

\* TierReadSegment.
LEMMA TypedTierReadSegment ==
    ASSUME StoreTyped, TierReadSegment
    PROVE  StoreTyped'
<1>1. UNCHANGED <<index, manifest, objects, hw, producer, compact, issued>>
  BY DEF TierReadSegment, history
<1>2. tier.pc = "segment" /\ tier.pc \notin {"idle", "dead"}
  BY DEF TierReadSegment
<1>3. CASE Segment = <<>>
  <2>1. wal' = delete_segment(wal, Head(tier.queue)) /\ tier' = NextSegment
    BY <1>3 DEF TierReadSegment
  <2>2. WalOK(wal') /\ TierOK(tier', wal')
    BY <1>2, <2>1, TypedDelete
  <2> QED
    BY <1>1, <2>2, TypedTier DEF StoreTyped
<1>4. CASE Segment # <<>>
  <2>1. /\ wal' = wal
        /\ tier' = [pc |-> "group", queue |-> tier.queue, todo |-> TpsOf(Segment), fenced |-> FALSE]
    BY <1>4 DEF TierReadSegment, TpsOf
  <2>2. /\ Queue(tier.queue, wal) /\ tier.queue # <<>> /\ Segment = wal.disk[tier.queue[1]]
        /\ Segment \in Seq(Record)
    BY <1>2, TierQueue
  <2>3. TpsOf(Segment) \in SUBSET Partitions
    <3> HIDE DEF Segment
    <3> QED
      BY <2>2, RecordFields DEF TpsOf, ToSet
  <2>4. tier.queue \in Seq(Nat)
    BY <2>2 DEF Queue
  <2>5. AtGroup(tier', wal')
    <3> HIDE DEF Segment, TpsOf
    <3> QED
      BY <2>1, <2>2, <2>3, <2>4 DEF AtGroup
  <2>6. TierOK(tier', wal')
    BY <2>5 DEF TierOK
  <2> QED
    BY <1>1, <2>1, <2>6, TypedTier DEF StoreTyped
<1> QED
  BY <1>3, <1>4

\* The group of tp is done with.
LEMMA GroupDoneOK ==
    ASSUME AtGroup(tier, wal) \/ AtWork(tier, wal), NEW tp, NEW b \in BOOLEAN
    PROVE  AtGroup(GroupDone(tp, b), wal) /\ TierOK(GroupDone(tp, b), wal)
<1> DEFINE g == GroupDone(tp, b)
           f == tier.fenced \/ b
           todo == tier.todo \ {tp}
<1>1. /\ tier.queue \in Seq(Nat) /\ tier.todo \in SUBSET Partitions /\ Queue(tier.queue, wal) /\ tier.queue # <<>>
      /\ tier.todo \subseteq TpsOf(wal.disk[tier.queue[1]])
  BY DEF AtGroup, AtWork
<1>2. f \in BOOLEAN
  BY Zenon
<1>3. g = [pc |-> "group", queue |-> tier.queue, todo |-> todo, fenced |-> f]
  BY DEF GroupDone
<1>4. todo \in SUBSET Partitions /\ todo \subseteq TpsOf(wal.disk[tier.queue[1]])
  BY <1>1
<1> HIDE DEF g, f, todo
<1>5. AtGroup(g, wal)
  <2>1. g.queue = tier.queue /\ g.todo = todo
    BY <1>3
  <2>2. g \in [pc : {"group"}, queue : Seq(Nat), todo : SUBSET Partitions, fenced : BOOLEAN]
    BY <1>1, <1>2, <1>3, <1>4
  <2> QED
    BY <1>1, <1>4, <2>1, <2>2 DEF AtGroup
<1> QED
  BY <1>5 DEF g, TierOK

\* TierPreCheck.
LEMMA TypedTierPreCheck ==
    ASSUME StoreTyped, NEW tp \in Partitions, TierPreCheck(tp)
    PROVE  StoreTyped'
<1>1. UNCHANGED <<index, wal, manifest, objects, hw, producer, compact, issued>>
  BY DEF TierPreCheck, history, storage
<1>2. AtGroup(tier, wal) /\ tp \in tier.todo
  BY TierAt DEF TierPreCheck
<1>3. TierOK(tier', wal)
  <2>1. CASE leads[tp]
    <3>1. tier' = [pc |-> "upload", queue |-> tier.queue, todo |-> tier.todo, fenced |-> tier.fenced, tp |-> tp]
      BY <2>1 DEF TierPreCheck
    <3>2. "upload" \in Working
      BY DEF Working
    <3>3. AtWork(tier', wal)
      BY <1>2, <3>1, <3>2 DEF AtWork, AtGroup
    <3> QED
      BY <3>3 DEF TierOK
  <2>2. CASE ~leads[tp]
    <3>1. tier' = GroupDone(tp, TRUE)
      BY <2>2 DEF TierPreCheck
    <3> QED
      BY <1>2, <3>1, GroupDoneOK
  <2> QED
    BY <2>1, <2>2
<1> QED
  BY <1>1, <1>3, TypedTier DEF StoreTyped

\* The work goes on.
LEMMA WorkMoved ==
    ASSUME AtWork(tier, wal), NEW pc \in Working
    PROVE  TierOK([tier EXCEPT !.pc = pc], wal)
<1>1. AtWork([tier EXCEPT !.pc = pc], wal)
  BY DEF AtWork
<1> QED
  BY <1>1 DEF TierOK

\* The group in work, and its object.
LEMMA WorkFields ==
    ASSUME StoreTyped, tier.pc \in Working
    PROVE  /\ AtWork(tier, wal) /\ tier.tp \in Partitions /\ tier.tp \in TpsOf(Segment)
           /\ GroupOf(Group(tier.tp), Segment, tier.tp) /\ Group(tier.tp) \in Seq(Record)
           /\ GroupStart(tier.tp) = Head(Group(tier.tp)).off /\ GroupEnd(tier.tp) = Last(Group(tier.tp)).off + 1
           /\ Len(Group(tier.tp)) \in Nat /\ GroupStart(tier.tp) \in Offsets /\ GroupEnd(tier.tp) \in Ends
           /\ GroupKey(tier.tp) \in Keys
<1>1. AtWork(tier, wal) /\ tier.pc \notin {"idle", "dead"}
  BY TierAt DEF Working
<1>2. /\ Queue(tier.queue, wal) /\ tier.queue # <<>> /\ Segment = wal.disk[tier.queue[1]] /\ WalOK(wal)
  BY <1>1, TierQueue
<1>3. tier.tp \in Partitions /\ tier.tp \in TpsOf(Segment)
  <2> HIDE DEF Segment
  <2> QED
    BY <1>1, <1>2 DEF AtWork
<1> QED
  BY <1>1, <1>2, <1>3, GroupFields

\* The manifest with the group's range.
LEMMA RegisteredTyped ==
    ASSUME StoreTyped, tier.pc \in Working
    PROVE  Registered \in Manifests
<1> DEFINE tp == tier.tp
           a == GroupStart(tp)
           b == GroupEnd(tp)
           k == GroupKey(tp)
           n == Len(Group(tp))
           c == Put(manifest.live[tp], a, ObjectRange(b, k, n))
<1>1. tp \in Partitions /\ a \in Offsets /\ b \in Ends /\ k \in Keys /\ n \in Nat
  BY WorkFields
<1>2. manifest \in Manifests /\ manifest.live \in [Partitions -> Colds]
  BY DEF StoreTyped, Manifests
<1>3. manifest.live[tp] \in Colds /\ 0 \in Ends
  BY <1>1, <1>2, StoreConstants DEF Ends
<1>4. c \in Colds
  <2> HIDE DEF a, b, k, n, tp
  <2> QED
    BY <1>1, <1>3, ColdStored
<1>5. Registered = IF manifest.torn THEN manifest ELSE [manifest EXCEPT !.live = [manifest.live EXCEPT ![tp] = c]]
  BY DEF Registered, register, FoldRegister
<1> HIDE DEF c, tp
<1>6. [manifest.live EXCEPT ![tp] = c] \in [Partitions -> Colds]
  BY <1>2, <1>4
<1> QED
  BY <1>2, <1>5, <1>6 DEF Manifests

\* The store with the group's object.
LEMMA UploadedTyped ==
    ASSUME StoreTyped, tier.pc \in Working
    PROVE  /\ Put(objects, GroupKey(tier.tp), Group(tier.tp)) \in Archives
           /\ Stored(Put(objects, GroupKey(tier.tp), Group(tier.tp)), objects, GroupKey(tier.tp), Group(tier.tp))
<1> DEFINE k == GroupKey(tier.tp)
           g == Group(tier.tp)
<1>1. k \in Keys /\ g \in Seq(Record) /\ objects \in Maps(Keys, Seq(Record))
  BY WorkFields DEF StoreTyped, Archives
<1> HIDE DEF k, g
<1>2. Put(objects, k, g) \in Archives /\ Stored(Put(objects, k, g), objects, k, g)
  BY <1>1, PutFields DEF Archives
<1> QED
  BY <1>2 DEF k, g

\* TierUpload.
LEMMA TypedTierUpload ==
    ASSUME StoreTyped, TierUpload
    PROVE  StoreTyped'
<1>1. UNCHANGED <<index, wal, manifest, hw, producer, compact, issued>>
  BY DEF TierUpload, history
<1>2. tier.pc \in Working /\ "postcheck" \in Working /\ tier' = [tier EXCEPT !.pc = "postcheck"]
  BY DEF TierUpload, Working
<1>3. TierOK(tier', wal)
  BY <1>2, WorkFields, WorkMoved
<1>4. objects' \in Archives
  BY <1>2, UploadedTyped DEF TierUpload
<1> QED
  BY <1>1, <1>3, <1>4, TypedTier DEF StoreTyped

\* TierPostCheck.
LEMMA TypedTierPostCheck ==
    ASSUME StoreTyped, TierPostCheck
    PROVE  StoreTyped'
<1>1. UNCHANGED <<index, wal, manifest, objects, hw, producer, compact, issued>>
  BY DEF TierPostCheck, history, storage
<1>2. tier.pc \in Working /\ "register" \in Working
  BY DEF TierPostCheck, Working
<1>3. AtWork(tier, wal)
  BY <1>2, WorkFields
<1>4. tier' = [tier EXCEPT !.pc = "register"] \/ tier' = GroupDone(tier.tp, TRUE)
  BY DEF TierPostCheck
<1>5. TierOK(tier', wal)
  <2>1. CASE tier' = [tier EXCEPT !.pc = "register"]
    BY <1>2, <1>3, <2>1, WorkMoved
  <2>2. CASE tier' = GroupDone(tier.tp, TRUE)
    BY <1>3, <2>2, GroupDoneOK
  <2> QED
    BY <1>4, <2>1, <2>2
<1> QED
  BY <1>1, <1>5, TypedTier DEF StoreTyped

\* TierRegister.
LEMMA TypedTierRegister ==
    ASSUME StoreTyped, TierRegister
    PROVE  StoreTyped'
<1>1. UNCHANGED <<index, wal, objects, hw, producer, compact, issued>>
  BY DEF TierRegister, history
<1>2. tier.pc \in Working /\ "flip" \in Working /\ tier' = [tier EXCEPT !.pc = "flip"]
  BY DEF TierRegister, Working
<1>3. TierOK(tier', wal)
  BY <1>2, WorkFields, WorkMoved
<1>4. manifest' \in Manifests
  BY <1>2, RegisteredTyped DEF TierRegister
<1> QED
  BY <1>1, <1>3, <1>4, TypedTier DEF StoreTyped

\* TierFlip.
LEMMA TypedTierFlip ==
    ASSUME StoreTyped, TierFlip
    PROVE  StoreTyped' /\ index'.hot_bytes <= index.hot_bytes
<1>1. UNCHANGED <<wal, manifest, objects, hw, producer, compact, issued>>
  BY DEF TierFlip, history, storage
<1>2. tier.pc \in Working
  BY DEF TierFlip, Working
<1> DEFINE tp == tier.tp
           a == GroupStart(tp)
           b == GroupEnd(tp)
           k == GroupKey(tp)
           n == Len(Group(tp))
<1>3. /\ tp \in Partitions /\ a \in Offsets /\ b \in Ends /\ k \in Keys /\ n \in Nat /\ AtWork(tier, wal)
      /\ Exact(index)
  BY <1>2, WorkFields DEF StoreTyped
<1>4. CASE a > b
  <2>1. tier' = [pc |-> "dead"] /\ index' = index
    BY <1>4 DEF TierFlip
  <2>2. TierOK(tier', wal)
    BY <2>1 DEF TierOK, Resting
  <2>3. index'.hot_bytes <= index.hot_bytes
    BY <1>3, <2>1 DEF Exact, Indexes
  <2> QED
    BY <1>1, <2>1, <2>2, <2>3, TypedTier DEF StoreTyped
<1>5. CASE ~ (a > b)
  <2>1. tier' = GroupDone(tp, FALSE) /\ index' = flip_to_cold(index, tp, a, b, k, n)
    BY <1>5 DEF TierFlip
  <2>2. TierOK(tier', wal)
    BY <1>3, <2>1, GroupDoneOK
  <2> HIDE DEF tp, a, b, k, n
  <2>3. Exact(index') /\ HotRemoved(index', index, tp, KeysIn(index.parts[tp].hot, a, b))
    BY <1>3, <2>1, FlipExact
  <2>4. index'.hot_bytes <= index.hot_bytes
    BY <2>3 DEF HotRemoved
  <2> QED
    BY <1>1, <2>2, <2>3, <2>4, TypedTier DEF StoreTyped
<1> QED
  BY <1>4, <1>5

\* TierReclaim.
LEMMA TypedTierReclaim ==
    ASSUME StoreTyped, TierReclaim
    PROVE  StoreTyped'
<1>1. UNCHANGED <<index, manifest, objects, hw, producer, compact, issued>>
  BY DEF TierReclaim, history
<1>2. tier.pc \notin {"idle", "dead"} /\ tier' = NextSegment
  BY DEF TierReclaim
<1>3. wal' = wal \/ wal' = delete_segment(wal, Head(tier.queue))
  BY DEF TierReclaim
<1>4. WalOK(wal') /\ TierOK(tier', wal')
  BY <1>2, <1>3, TypedDelete DEF StoreTyped
<1> QED
  BY <1>1, <1>4, TypedTier DEF StoreTyped

\* TierFail.
LEMMA TypedTierFail ==
    ASSUME StoreTyped, TierFail
    PROVE  StoreTyped'
<1>1. UNCHANGED <<index, wal, hw, producer, compact, issued>>
  BY DEF TierFail, history
<1>2. TierOK(tier', wal)
  BY DEF TierFail, IdleTier, TierOK, Resting
<1>3. objects' \in Archives
  <2>1. \/ objects' = objects
        \/ tier.pc = "upload" /\ objects' = Put(objects, GroupKey(tier.tp), Group(tier.tp))
    BY DEF TierFail
  <2>2. tier.pc = "upload" => tier.pc \in Working
    BY DEF Working
  <2> QED
    BY <2>1, <2>2, UploadedTyped DEF StoreTyped
<1>4. manifest' \in Manifests
  <2>1. manifest' = manifest \/ (tier.pc = "register" /\ manifest' = Registered)
    BY DEF TierFail
  <2>2. tier.pc = "register" => tier.pc \in Working
    BY DEF Working
  <2> QED
    BY <2>1, <2>2, RegisteredTyped DEF StoreTyped
<1> QED
  BY <1>1, <1>2, <1>3, <1>4, TypedTier DEF StoreTyped

\* TierTear.
LEMMA TypedTierTear ==
    ASSUME StoreTyped, TierTear
    PROVE  StoreTyped'
<1>1. UNCHANGED <<index, wal, objects, hw, producer, compact, issued>>
  BY DEF TierTear, history
<1>2. TierOK(tier', wal)
  BY DEF TierTear, IdleTier, TierOK, Resting
<1>3. manifest' \in Manifests
  BY DEF TierTear, StoreTyped, Manifests, TearFrame
<1> QED
  BY <1>1, <1>2, <1>3, TypedTier DEF StoreTyped

\* Steps of the compaction task alone.
LEMMA TypedCompact ==
    ASSUME StoreTyped, CompactOK(compact'), Exact(index'), manifest' \in Manifests, objects' \in Archives,
           UNCHANGED <<wal, hw, producer, tier, issued>>
    PROVE  StoreTyped'
BY DEF StoreTyped

\* CompactCycle.
LEMMA TypedCompactCycle ==
    ASSUME StoreTyped, CompactCycle
    PROVE  StoreTyped'
<1>1. plan_compaction \in SUBSET Plans
  BY PlansTyped DEF StoreTyped
<1>2. compact' = [pc |-> "execute", plans |-> plan_compaction]
  BY DEF CompactCycle
<1>3. CompactOK(compact')
  <2> HIDE DEF plan_compaction
  <2> QED
    BY <1>1, <1>2 DEF CompactOK
<1>4. UNCHANGED <<index, wal, manifest, objects, hw, producer, tier, issued>>
  BY DEF CompactCycle, storage, history
<1> QED
  BY <1>3, <1>4, TypedCompact DEF StoreTyped

\* The plans of the task.
LEMMA CompactFields ==
    ASSUME StoreTyped
    PROVE  /\ compact.plans \in SUBSET Plans
           /\ compact.pc \in {"record", "replace", "delete"} =>
                 compact.plan \in Plans /\ compact.size \in Nat
           /\ \A plan : CompactOK(PlanDone(plan))
<1>1. CompactOK(compact)
  BY DEF StoreTyped
<1>2. compact.plans \in SUBSET Plans
  BY <1>1 DEF CompactOK
<1>3. ASSUME NEW plan PROVE CompactOK(PlanDone(plan))
  <2> DEFINE s == compact.plans \ {plan}
             pc == IF compact.plans = {plan} THEN "idle" ELSE "execute"
  <2>1. s \in SUBSET Plans /\ pc \in {"idle", "execute"}
    BY <1>2
  <2>2. PlanDone(plan) = [pc |-> pc, plans |-> s]
    BY DEF PlanDone
  <2> HIDE DEF s, pc
  <2> QED
    BY <2>1, <2>2 DEF CompactOK
<1>4. ASSUME compact.pc \in {"record", "replace", "delete"} PROVE compact.plan \in Plans /\ compact.size \in Nat
  BY <1>1, <1>4 DEF CompactOK
<1> QED
  BY <1>2, <1>3, <1>4

\* The store with a merged object.
LEMMA MergedTyped ==
    ASSUME StoreTyped, NEW plan \in Plans, Mergeable(plan)
    PROVE  /\ Put(objects, MergedKey(plan), MergedRecords(plan)) \in Archives
           /\ Len(MergedRecords(plan)) \in Nat
<1> DEFINE k == MergedKey(plan)
           g == MergedRecords(plan)
<1>1. objects \in Maps(Keys, Seq(Record))
  BY DEF StoreTyped, Archives
<1>2. k \in Keys /\ g \in Seq(Record) /\ Len(g) \in Nat
  BY <1>1, MergeFields
<1> HIDE DEF k, g
<1>3. Put(objects, k, g) \in Archives
  BY <1>1, <1>2, PutFields DEF Archives
<1> QED
  BY <1>2, <1>3 DEF k, g

\* CompactUpload.
LEMMA TypedCompactUpload ==
    ASSUME StoreTyped, NEW plan \in compact.plans, CompactUpload(plan)
    PROVE  StoreTyped'
<1>1. UNCHANGED <<index, wal, manifest, hw, producer, tier, issued>>
  BY DEF CompactUpload, history
<1>2. plan \in Plans /\ compact.plans \in SUBSET Plans
  BY CompactFields
<1>3. CASE Mergeable(plan)
  <2> DEFINE n == Len(MergedRecords(plan))
  <2>1. objects' = Put(objects, MergedKey(plan), MergedRecords(plan))
    BY <1>3 DEF CompactUpload
  <2>2. compact' = [pc |-> "record", plans |-> compact.plans, plan |-> plan, size |-> n]
    BY <1>3 DEF CompactUpload
  <2>3. objects' \in Archives /\ n \in Nat
    BY <1>2, <1>3, <2>1, MergedTyped
  <2> HIDE DEF n
  <2>4. CompactOK(compact')
    BY <1>2, <2>2, <2>3 DEF CompactOK
  <2> QED
    BY <1>1, <2>3, <2>4, TypedCompact DEF StoreTyped
<1>4. CASE ~Mergeable(plan)
  <2>1. compact' = PlanDone(plan) /\ objects' = objects
    BY <1>4 DEF CompactUpload
  <2>2. CompactOK(compact')
    BY <2>1, CompactFields
  <2> QED
    BY <1>1, <2>1, <2>2, TypedCompact DEF StoreTyped
<1> QED
  BY <1>3, <1>4

\* The manifest with a merged range.
LEMMA CompactedTyped ==
    ASSUME StoreTyped, compact.pc = "record"
    PROVE  Compacted \in Manifests
<1> DEFINE plan == compact.plan
           tp == plan.tp
           a == MergedStart(plan)
           b == MergedEnd(plan)
           k == MergedKey(plan)
           n == compact.size
           S == SourceKeys(plan)
           base == Without(manifest.live[tp], KeysIn(manifest.live[tp], a, b))
           c == Put(base, a, ObjectRange(b, k, n))
<1>1. plan \in Plans /\ n \in Nat
  BY CompactFields
<1>2. manifest \in Manifests /\ manifest.live \in [Partitions -> Colds] /\ objects \in Maps(Keys, Seq(Record))
      /\ manifest.orphans \in SUBSET Keys
  BY DEF StoreTyped, Manifests, Archives
<1> HIDE DEF plan, n
<1>3. tp \in Partitions /\ a \in Offsets /\ b \in Ends /\ k \in Keys /\ S \in SUBSET Keys
  BY <1>1, <1>2, MergeFields
<1>4. Compacted = IF manifest.torn THEN manifest
                  ELSE [manifest EXCEPT !.live = [manifest.live EXCEPT ![tp] = c], !.orphans = manifest.orphans \cup S]
  BY DEF Compacted, record_compaction, FoldCompact, plan, n
<1> HIDE DEF tp, a, b, k, S
<1>5. manifest.live[tp] \in Maps(Offsets, Ranges) /\ 0 \in Ends
  BY <1>2, <1>3, StoreConstants DEF Ends, Colds
<1>6. base \in Colds
  BY <1>5, WithoutFields DEF Colds
<1> HIDE DEF base
<1>7. c \in Colds
  BY <1>1, <1>3, <1>5, <1>6, ColdStored
<1> HIDE DEF c
<1> DEFINE live == [manifest.live EXCEPT ![tp] = c]
           orph == manifest.orphans \cup S
<1>8. live \in [Partitions -> Colds] /\ orph \in SUBSET Keys
  BY <1>2, <1>3, <1>7
<1>9. Compacted = IF manifest.torn THEN manifest ELSE [manifest EXCEPT !.live = live, !.orphans = orph]
  BY <1>4
<1> HIDE DEF live, orph
<1>10. [manifest EXCEPT !.live = live, !.orphans = orph] \in Manifests
  BY <1>2, <1>8 DEF Manifests
<1> QED
  BY <1>2, <1>9, <1>10

\* A compaction whose pc moved.
LEMMA CompactMoved ==
    ASSUME StoreTyped, compact.pc \in {"record", "replace", "delete"}, NEW pc \in {"replace", "delete"}
    PROVE  CompactOK([compact EXCEPT !.pc = pc])
BY DEF StoreTyped, CompactOK

\* CompactRecord.
LEMMA TypedCompactRecord ==
    ASSUME StoreTyped, CompactRecord
    PROVE  StoreTyped'
<1>1. UNCHANGED <<index, wal, objects, hw, producer, tier, issued>>
  BY DEF CompactRecord, history
<1>2. compact.pc = "record" /\ compact' = [compact EXCEPT !.pc = "replace"] /\ manifest' = Compacted
  BY DEF CompactRecord
<1>3. CompactOK(compact') /\ manifest' \in Manifests
  BY <1>2, CompactMoved, CompactedTyped
<1> QED
  BY <1>1, <1>3, TypedCompact DEF StoreTyped

\* CompactReplace.
LEMMA TypedCompactReplace ==
    ASSUME StoreTyped, CompactReplace
    PROVE  StoreTyped' /\ index'.hot_bytes = index.hot_bytes
<1> DEFINE plan == compact.plan
           n == compact.size
<1>1. UNCHANGED <<wal, manifest, objects, hw, producer, tier, issued>>
  BY DEF CompactReplace, history, storage
<1>2. compact.pc = "replace" /\ compact' = [compact EXCEPT !.pc = "delete"]
      /\ index' = replace_cold(index, plan.tp, MergedStart(plan), MergedEnd(plan), MergedKey(plan), n)
  BY DEF CompactReplace
<1>3. plan \in Plans /\ n \in Nat /\ objects \in Maps(Keys, Seq(Record))
  BY <1>2, CompactFields DEF StoreTyped, Archives
<1>4. CompactOK(compact')
  BY <1>2, CompactMoved
<1> HIDE DEF plan, n
<1>5. plan.tp \in Partitions /\ MergedStart(plan) \in Offsets /\ MergedEnd(plan) \in Ends /\ MergedKey(plan) \in Keys
  BY <1>3, MergeFields
<1>6. Exact(index') /\ HotKept(index', index, plan.tp)
  BY <1>2, <1>3, <1>5, ReplaceColdExact DEF StoreTyped
<1>7. StoreTyped'
  BY <1>1, <1>4, <1>6, TypedCompact DEF StoreTyped
<1> QED
  BY <1>6, <1>7 DEF HotKept

\* Objects that are deleted.
LEMMA ObjectsDeleted ==
    ASSUME StoreTyped, NEW S
    PROVE  Without(objects, S) \in Archives /\ Remains(Without(objects, S), objects, S)
BY WithoutFields DEF StoreTyped, Archives

\* CompactDelete.
LEMMA TypedCompactDelete ==
    ASSUME StoreTyped, CompactDelete
    PROVE  StoreTyped'
<1>1. UNCHANGED <<index, wal, manifest, hw, producer, tier, issued>>
  BY DEF CompactDelete, history
<1>2. CompactOK(compact') /\ objects' \in Archives
  BY CompactFields, ObjectsDeleted DEF CompactDelete
<1> QED
  BY <1>1, <1>2, TypedCompact DEF StoreTyped

\* CompactFail.
LEMMA TypedCompactFail ==
    ASSUME StoreTyped, NEW plan \in compact.plans, CompactFail(plan)
    PROVE  StoreTyped'
<1>1. UNCHANGED <<index, wal, hw, producer, tier, issued>>
  BY DEF CompactFail, history
<1>2. CompactOK(compact') /\ plan \in Plans
  BY CompactFields DEF CompactFail
<1>3. manifest' \in Manifests
  <2>1. manifest' = manifest \/ (compact.pc = "record" /\ manifest' = Compacted)
    BY DEF CompactFail
  <2> QED
    BY <2>1, CompactedTyped DEF StoreTyped
<1>4. objects' \in Archives
  <2>1. CASE compact.pc = "execute" /\ Mergeable(plan)
    <3>1. objects' \in {objects, Put(objects, MergedKey(plan), MergedRecords(plan))}
      BY <2>1, Zenon DEF CompactFail
    <3> QED
      BY <1>2, <2>1, <3>1, MergedTyped DEF StoreTyped
  <2>2. CASE compact.pc = "delete"
    <3>1. objects' \in {Without(objects, S) : S \in SUBSET SourceKeys(plan)}
      BY <2>2 DEF CompactFail
    <3> QED
      BY <3>1, ObjectsDeleted
  <2>3. CASE ~ (compact.pc = "execute" /\ Mergeable(plan)) /\ compact.pc # "delete"
    <3>1. objects' \in {objects}
      BY <2>3, Zenon DEF CompactFail
    <3> QED
      BY <3>1 DEF StoreTyped
  <2> QED
    BY <2>1, <2>2, <2>3
<1> QED
  BY <1>1, <1>2, <1>3, <1>4, TypedCompact DEF StoreTyped

\* CompactTear.
LEMMA TypedCompactTear ==
    ASSUME StoreTyped, CompactTear
    PROVE  StoreTyped'
<1>1. UNCHANGED <<index, wal, objects, hw, producer, tier, issued>>
  BY DEF CompactTear, history
<1>2. CompactOK(compact')
  BY CompactFields DEF CompactTear
<1>3. manifest' \in Manifests
  BY DEF CompactTear, StoreTyped, Manifests, TearFrame
<1> QED
  BY <1>1, <1>2, <1>3, TypedCompact DEF StoreTyped

\* CrashRestart.
LEMMA TypedCrash ==
    ASSUME StoreTyped, CrashRestart
    PROVE  StoreTyped' /\ Recovered(index', manifest', wal') /\ manifest'.live = manifest.live
<1>1. manifest' = load(manifest) /\ manifest \in Manifests
  BY DEF CrashRestart, StoreTyped
<1>2. manifest' \in Manifests /\ manifest'.live = manifest.live
  BY <1>1 DEF Manifests, load
<1>3. WalOK(wal')
  <2>1. PICK disk \in CrashDisks(wal) : wal' = wal_new(disk)
    BY DEF CrashRestart
  <2> QED
    BY <2>1, CrashFields DEF StoreTyped
<1>4. index' = RecoverIndex(manifest', wal')
  BY DEF CrashRestart
<1>5. manifest'.live \in [Partitions -> Colds]
  BY <1>2 DEF Manifests
<1>6. Recovered(index', manifest', wal')
  BY <1>3, <1>4, <1>5, RecoverFields
<1>7. Exact(index')
  BY <1>6 DEF Recovered
<1>8. hw' \in [Partitions -> Ends]
  <2>1. hw' = [tp \in Partitions |-> index'.parts[tp].next_offset]
    BY DEF CrashRestart
  <2>2. \A tp \in Partitions : index'.parts[tp].next_offset \in Ends
    BY <1>7 DEF Exact, Indexes, Entries
  <2> QED
    BY <2>1, <2>2
<1>9. objects' \in Archives
  BY ObjectsDeleted DEF CrashRestart, StoreTyped
<1>10. DOMAIN producer' = Producers /\ \A p \in Producers : ProducerOK(producer'[p])
  BY DEF CrashRestart, ProducerOK
<1>11. TierOK(tier', wal')
  BY DEF CrashRestart, IdleTier, TierOK, Resting
<1>12. CompactOK(compact')
  BY DEF CrashRestart, IdleCompact, CompactOK
<1>13. issued' = issued
  BY DEF CrashRestart, history
<1>14. StoreTyped'
  BY <1>2, <1>3, <1>7, <1>8, <1>9, <1>10, <1>11, <1>12, <1>13 DEF StoreTyped
<1> QED
  BY <1>2, <1>6, <1>14

\* Steps that touch none of the typed variables: leadership, reads and stuttering.
LEMMA TypedElse ==
    ASSUME StoreTyped, UNCHANGED <<index, storage, hw, producer, tier, compact, issued>>
    PROVE  StoreTyped'
BY DEF StoreTyped, storage

\* Every step keeps the types.
LEMMA TypedNext == StoreTyped /\ [Next]_vars => StoreTyped'
<1> SUFFICES ASSUME StoreTyped, [Next]_vars PROVE StoreTyped'
  OBVIOUS
<1>1. CASE Produce
  <2>1. ASSUME NEW p \in Producers, NEW tp \in Partitions, NEW n \in BatchSizes, NEW a \in AckLevels, NEW s \in Sizes,
               ProduceStart(p, tp, n, a, s)
        PROVE  StoreTyped'
    BY <2>1, TypedProduceStart
  <2>2. ASSUME NEW p \in Producers,
               \/ AwaitCapacity(p) \/ InsertHot(p) \/ WalAppend(p) \/ WalAppendErr(p)
               \/ AppendRollback(p) \/ ProduceCommit(p)
        PROVE  StoreTyped'
    BY <2>2, TypedAwaitCapacity, TypedInsertHot, TypedWalAppend, TypedWalAppendErr, TypedAppendRollback,
       TypedProduceCommit
  <2>3. CASE FlushTick
    BY <2>3, TypedFlushTick
  <2> QED
    BY <1>1, <2>1, <2>2, <2>3 DEF Produce
<1>2. CASE Tiering
  <2>1. ASSUME NEW tp \in Partitions, TierPreCheck(tp) PROVE StoreTyped'
    BY <2>1, TypedTierPreCheck
  <2> QED
    BY <1>2, <2>1, TypedTierOnce, TypedTierReadSegment, TypedTierUpload, TypedTierPostCheck, TypedTierRegister,
       TypedTierFlip, TypedTierReclaim DEF Tiering
<1>3. CASE TierFail \/ TierTear
  BY <1>3, TypedTierFail, TypedTierTear
<1>4. CASE \E tp \in Partitions : LoseLeadership(tp) \/ GainLeadership(tp)
  <2>1. UNCHANGED <<index, storage, hw, producer, tier, compact, issued>>
    BY <1>4 DEF LoseLeadership, GainLeadership, tasks, history
  <2> QED
    BY <2>1, TypedElse
<1>5. CASE Compacting \/ (\E plan \in compact.plans : CompactFail(plan)) \/ CompactTear
  <2>1. ASSUME NEW plan \in compact.plans, CompactUpload(plan) \/ CompactFail(plan) PROVE StoreTyped'
    BY <2>1, TypedCompactUpload, TypedCompactFail
  <2> QED
    BY <1>5, <2>1, TypedCompactCycle, TypedCompactRecord, TypedCompactReplace, TypedCompactDelete, TypedCompactTear
    DEF Compacting
<1>6. CASE Reading
  <2>1. UNCHANGED <<index, storage, hw, producer, tier, compact, issued>>
    BY <1>6 DEF Reading, ReadStart, ReadDownload, ReadRetry, history
  <2> QED
    BY <2>1, TypedElse
<1>7. CASE CrashRestart
  BY <1>7, TypedCrash
<1>8. CASE UNCHANGED vars
  <2>1. UNCHANGED <<index, storage, hw, producer, tier, compact, issued>>
    BY <1>8 DEF vars, tasks, history
  <2> QED
    BY <2>1, TypedElse
<1> QED
  BY <1>1, <1>2, <1>3, <1>4, <1>5, <1>6, <1>7, <1>8 DEF Next

\* The store is typed in every state.
LEMMA AlwaysTyped == Spec => []StoreTyped
<1>1. Init => StoreTyped
  BY TypedInit
<1>2. StoreTyped /\ [Next]_vars => StoreTyped'
  BY TypedNext
<1> QED
  BY <1>1, <1>2, PTL DEF Spec

\* The byte counter of the hot tier (hot_bytes, updated with fetch_add and fetch_sub next
\* to the maps) is exact in every state: for any number of partitions, concurrent
\* produces, overwritten offsets, rollbacks, flips, compactions, faults and crashes.
THEOREM HotBytesCounted == Spec => []HotBytesExact
<1>1. StoreTyped => HotBytesExact
  BY DEF StoreTyped, Exact, HotBytes, HotBytesExact
<1> QED
  BY <1>1, AlwaysTyped, PTL

-------------------------------------------------------------------------------
(* The memory budget.                                                      *)

\* Requests are made, no crash happens, and no single record is as large as the budget:
\* await_capacity lets a record of that size through, and recovery reloads every sealed
\* segment.
Admission ==
    /\ Producers # {} /\ Sizes # {}
    /\ Faults["crash"] = 0
    /\ HotBudget > 0 => \A s \in Sizes : s < HotBudget

\* What n appends may add, and what the hot tier may come to.
Load(n) == n * Max(Sizes)
Ceiling == HotBudget + Load(Cardinality(Producers) - 1)

\* The appends that were let through and have not been inserted.
Through == {p \in Producers : producer[p].pc = "insert"}

\* hot bytes are in memory, and the appends of a set T are on their way: counting each of
\* them as a largest record, or one of them as what it is, they fit below the ceiling.
Fits(hot, T) ==
    \/ hot + Load(Cardinality(T)) <= Ceiling
    \/ \E p \in T : hot + Head(producer[p].todo).size + Load(Cardinality(T) - 1) <= Ceiling

\* The records that were let through fit.
Admitted ==
    /\ "crash" \in DOMAIN faults /\ faults["crash"] = 0
    /\ HotBudget > 0 => Fits(index.hot_bytes, Through)

\* Largest records, and how they add up.
LEMMA Loads ==
    ASSUME Admission, HotBudget > 0
    PROVE  /\ Max(Sizes) \in Nat /\ \A s \in Sizes : s <= Max(Sizes)
           /\ \A n \in Nat : Load(n) \in Nat /\ Load(n + 1) = Load(n) + Max(Sizes)
           /\ \A m, n \in Nat : m <= n => Load(m) <= Load(n)
<1>1. Sizes \subseteq Nat /\ Sizes # {} /\ HotBudget \in Nat /\ \A s \in Sizes : s <= HotBudget
  BY StoreConstants DEF Admission
<1>2. Max(Sizes) \in Sizes /\ \A s \in Sizes : s <= Max(Sizes)
  BY <1>1, MaxOfBounded
<1>3. PICK M \in Nat : M = Max(Sizes)
  BY <1>1, <1>2
<1>4. \A n \in Nat : n * M \in Nat /\ (n + 1) * M = n * M + M
  OBVIOUS
<1>5. ASSUME NEW m \in Nat, NEW n \in Nat, m <= n PROVE m * M <= n * M
  <2>1. PICK d \in Nat : n = m + d
    <3>1. n - m \in Nat /\ n = m + (n - m)
      BY <1>5
    <3> QED
      BY <3>1
  <2>2. (m + d) * M = m * M + d * M /\ d * M \in Nat /\ m * M \in Nat
    OBVIOUS
  <2> QED
    BY <2>1, <2>2
<1> QED
  BY <1>1, <1>2, <1>3, <1>4, <1>5 DEF Load

\* The ceiling is a number.
LEMMA CeilingNatural ==
    ASSUME Admission, HotBudget > 0
    PROVE  Ceiling \in Nat /\ Cardinality(Producers) - 1 \in Nat
<1>1. Cardinality(Producers) \in Nat /\ Cardinality(Producers) # 0
  BY FiniteProducers, FS_EmptySet, FS_CardinalityType DEF Admission
<1>2. Cardinality(Producers) - 1 \in Nat
  BY <1>1
<1>3. Load(Cardinality(Producers) - 1) \in Nat /\ HotBudget \in Nat
  BY <1>2, Loads, StoreConstants
<1> QED
  BY <1>2, <1>3 DEF Ceiling

\* The sets of appends that may be under way, and the records they carry.
LEMMA ThroughFinite ==
    ASSUME StoreTyped
    PROVE  /\ IsFiniteSet(Through) /\ Cardinality(Through) \in Nat /\ Cardinality(Producers) \in Nat
           /\ Cardinality(Through) <= Cardinality(Producers)
           /\ \A p \in Through : Head(producer[p].todo).size \in Sizes /\ Head(producer[p].todo).size \in Nat
           /\ \A p \in Through : Cardinality(Through) # 0
<1>1. Through \subseteq Producers /\ IsFiniteSet(Producers)
  BY FiniteProducers DEF Through
<1>2. IsFiniteSet(Through) /\ Cardinality(Through) <= Cardinality(Producers)
  BY <1>1, FS_Subset
<1>3. Cardinality(Through) \in Nat /\ Cardinality(Producers) \in Nat
  BY <1>1, <1>2, FS_CardinalityType
<1>4. ASSUME NEW p \in Through PROVE Head(producer[p].todo).size \in Sizes /\ Head(producer[p].todo).size \in Nat
  <2>1. p \in Producers /\ producer[p].pc \in Appending
    BY DEF Through, Appending
  <2> QED
    BY <2>1, Incoming, RecordFields
<1>5. \A p \in Through : Cardinality(Through) # 0
  BY <1>2, FS_EmptySet
<1> QED
  BY <1>2, <1>3, <1>4, <1>5

\* Faults other than crashes leave the number of crashes alone.
LEMMA NoCrash ==
    ASSUME Admitted, NEW kind, kind # "crash", Fault(kind)
    PROVE  "crash" \in DOMAIN faults' /\ faults'["crash"] = 0
BY DEF Admitted, Fault

\* Memory shrinks or stays, and the same appends are under way.
LEMMA AdmittedKept ==
    ASSUME Admission, StoreTyped, StoreTyped', Admitted, index'.hot_bytes <= index.hot_bytes,
           "crash" \in DOMAIN faults' /\ faults'["crash"] = 0,
           \A p \in Producers : /\ producer'[p].pc = "insert" <=> producer[p].pc = "insert"
                                /\ producer[p].pc = "insert" => producer'[p].todo = producer[p].todo
    PROVE  Admitted'
<1>1. index.hot_bytes \in Nat /\ index'.hot_bytes \in Nat /\ HotBudget \in Nat
  BY StoreConstants DEF StoreTyped, Exact, Indexes
<1>2. CASE HotBudget > 0
  <2>1. PICK T : T = Through
    OBVIOUS
  <2>2. Through' = T
    BY <2>1 DEF Through
  <2>3. /\ Cardinality(T) \in Nat /\ Cardinality(Producers) \in Nat /\ \A p \in T : Cardinality(T) # 0
        /\ \A p \in T : Head(producer[p].todo).size \in Nat
    BY <2>1, ThroughFinite
  <2>4. PICK c \in Nat : c = Ceiling
    BY <1>2, CeilingNatural
  <2>5. CASE index.hot_bytes + Load(Cardinality(T)) <= c
    <3>1. Load(Cardinality(T)) \in Nat
      BY <1>2, <2>3, Loads
    <3>2. index'.hot_bytes + Load(Cardinality(T)) <= c
      BY <1>1, <2>5, <3>1
    <3> QED
      BY <1>2, <2>2, <2>4, <3>2 DEF Admitted, Fits
  <2>6. ASSUME NEW p \in T, index.hot_bytes + Head(producer[p].todo).size + Load(Cardinality(T) - 1) <= c
        PROVE  Admitted'
    <3>1. PICK n \in Nat, k \in Nat : n = Head(producer[p].todo).size /\ k = Load(Cardinality(T) - 1)
      <4>1. Cardinality(T) - 1 \in Nat
        BY <2>3
      <4> QED
        BY <1>2, <2>3, <4>1, Loads
    <3>2. index'.hot_bytes + n + k <= c
      BY <1>1, <2>6, <3>1
    <3>3. producer'[p].todo = producer[p].todo
      BY <2>1 DEF Through
    <3> QED
      BY <1>2, <2>2, <2>4, <3>1, <3>2, <3>3 DEF Admitted, Fits
  <2> QED
    BY <1>2, <2>1, <2>4, <2>5, <2>6 DEF Admitted, Fits
<1>3. CASE ~ (HotBudget > 0)
  BY <1>3 DEF Admitted
<1> QED
  BY <1>2, <1>3

\* The step of one request that is not let through by it.
LEMMA AdmittedRequest ==
    ASSUME Admission, StoreTyped, StoreTyped', Admitted, NEW p \in Producers, index'.hot_bytes <= index.hot_bytes,
           faults' = faults \/ \E kind : kind # "crash" /\ Fault(kind),
           \A c \in Producers \ {p} : producer'[c] = producer[c],
           producer[p].pc # "insert", HotBudget > 0 => producer'[p].pc # "insert"
    PROVE  Admitted'
<1>1. "crash" \in DOMAIN faults' /\ faults'["crash"] = 0
  BY NoCrash DEF Admitted
<1>2. CASE HotBudget > 0
  BY <1>1, <1>2, AdmittedKept
<1>3. CASE ~ (HotBudget > 0)
  BY <1>1, <1>3 DEF Admitted
<1> QED
  BY <1>2, <1>3

\* await_capacity lets one more append through: it fits by itself into the budget, and the
\* others are at most one fewer than the producers.
LEMMA LetThrough ==
    ASSUME Admission, StoreTyped, StoreTyped', Admitted, NEW p \in Producers, AwaitCapacity(p)
    PROVE  Admitted'
<1>1. index.hot_bytes \in Nat /\ HotBudget \in Nat /\ DOMAIN producer = Producers
  BY StoreConstants DEF StoreTyped, Exact, Indexes
<1>2. PICK n \in Nat : n = Head(producer[p].todo).size /\ n \in Sizes
  <2>1. producer[p].pc \in Appending
    BY DEF AwaitCapacity, Appending
  <2> QED
    BY <2>1, Incoming, RecordFields
<1>3. /\ n >= HotBudget \/ index.hot_bytes + n <= HotBudget
      /\ index' = index /\ faults' = faults /\ producer[p].pc = "capacity"
      /\ producer' = [producer EXCEPT ![p].pc = "insert"]
  BY <1>2 DEF AwaitCapacity
<1>4. producer'[p].pc = "insert" /\ producer'[p].todo = producer[p].todo /\ \A c \in Producers \ {p} : producer'[c] = producer[c]
  <2>1. RequestOK(producer[p])
    BY <1>3, Incoming DEF Appending
  <2> QED
    BY <1>1, <1>3, <2>1 DEF RequestOK, Requests
<1>5. PICK T : T = Through
  OBVIOUS
<1>6. Through' = T \cup {p} /\ p \notin T /\ T \subseteq Producers
  BY <1>3, <1>4, <1>5 DEF Through
<1>7. IsFiniteSet(T) /\ IsFiniteSet(Producers \ {p}) /\ T \subseteq Producers \ {p}
  BY <1>5, <1>6, ThroughFinite, FiniteProducers, FS_RemoveElement
<1>8. /\ Cardinality(T) \in Nat /\ Cardinality(Producers) - 1 \in Nat
      /\ Cardinality(T) <= Cardinality(Producers) - 1 /\ Cardinality(T \cup {p}) = Cardinality(T) + 1
  <2>1. Cardinality(Producers \ {p}) = Cardinality(Producers) - 1
    BY FiniteProducers, FS_RemoveElement
  <2>2. Cardinality(T) <= Cardinality(Producers \ {p}) /\ Cardinality(T) \in Nat /\ Cardinality(Producers \ {p}) \in Nat
    BY <1>7, FS_Subset, FS_CardinalityType
  <2>3. Cardinality(T \cup {p}) = Cardinality(T) + 1
    BY <1>6, <1>7, FS_AddElement
  <2> QED
    BY <2>1, <2>2, <2>3
<1>9. ASSUME HotBudget > 0 PROVE Fits(index.hot_bytes, Through)'
  <2>1. n < HotBudget
    BY <1>2, <1>9 DEF Admission
  <2>2. index.hot_bytes + n <= HotBudget
    BY <1>1, <1>3, <2>1
  <2>3. PICK k \in Nat, l \in Nat : k = Load(Cardinality(T)) /\ l = Load(Cardinality(Producers) - 1) /\ k <= l
    BY <1>8, <1>9, Loads
  <2>4. index.hot_bytes + n + k <= HotBudget + l
    BY <1>1, <2>2, <2>3
  <2>5. Load(Cardinality(T \cup {p}) - 1) = k /\ Ceiling = HotBudget + l
    <3>1. Cardinality(T \cup {p}) - 1 = Cardinality(T)
      BY <1>8
    <3> QED
      BY <2>3, <3>1 DEF Ceiling
  <2>6. index'.hot_bytes + Head(producer'[p].todo).size + Load(Cardinality(T \cup {p}) - 1) <= Ceiling
    BY <1>2, <1>3, <1>4, <2>4, <2>5
  <2> QED
    BY <1>6, <2>6 DEF Fits
<1> QED
  BY <1>3, <1>9 DEF Admitted

\* An append that was let through takes the room it was counted with.
LEMMA ThroughInserted ==
    ASSUME Admission, StoreTyped, StoreTyped', Admitted, NEW p \in Producers, InsertHot(p)
    PROVE  Admitted'
<1>1. index.hot_bytes \in Nat /\ index'.hot_bytes \in Nat /\ DOMAIN producer = Producers
  BY DEF StoreTyped, Exact, Indexes
<1>2. PICK rec \in Record : rec = Head(producer[p].todo) /\ HotInserted(index', index, rec.tp, rec.off, rec)
  BY TypedInsertHot
<1>3. PICK n \in Nat : n = rec.size /\ n \in Sizes
  BY RecordFields
<1>4. index'.hot_bytes <= index.hot_bytes + n
  <2>1. index'.hot_bytes <= index.hot_bytes + rec.size
    BY <1>2 DEF HotInserted
  <2> QED
    BY <1>3, <2>1
<1>5. faults' = faults /\ producer[p].pc = "insert" /\ producer' = [producer EXCEPT ![p].pc = "wal"]
  BY DEF InsertHot
<1>6. producer'[p].pc # "insert" /\ \A c \in Producers \ {p} : producer'[c] = producer[c]
  BY <1>1, <1>5
<1>7. PICK T : T = Through
  OBVIOUS
<1>8. Through' = T \ {p} /\ p \in T
  BY <1>5, <1>6, <1>7 DEF Through
<1>9. PICK k \in Nat : Cardinality(T) = k + 1 /\ Cardinality(T \ {p}) = k
  <2>1. IsFiniteSet(T) /\ Cardinality(T) \in Nat /\ Cardinality(T) # 0
    BY <1>7, <1>8, ThroughFinite
  <2>2. Cardinality(T \ {p}) = Cardinality(T) - 1
    BY <1>8, <2>1, FS_RemoveElement
  <2> QED
    BY <2>1, <2>2
<1>10. ASSUME HotBudget > 0 PROVE Fits(index.hot_bytes, Through)'
  <2>1. PICK M \in Nat, c \in Nat, w \in Nat : /\ M = Max(Sizes) /\ c = Ceiling /\ w = Load(k)
                                               /\ Load(k + 1) = w + M /\ n <= M
    BY <1>3, <1>10, Loads, CeilingNatural
  <2>2. PICK h \in Nat, g \in Nat : h = index.hot_bytes /\ g = index'.hot_bytes /\ g <= h + n
    BY <1>1, <1>4
  <2>3. Fits(h, T)
    BY <1>7, <1>10, <2>2 DEF Admitted
  \* All were counted as largest records, or p was counted as what it is.
  <2>4. ASSUME h + Load(Cardinality(T)) <= c \/ h + n + Load(Cardinality(T) - 1) <= c PROVE Fits(index.hot_bytes, Through)'
    <3>1. Cardinality(T) - 1 = k
      BY <1>9
    <3>2. h + (w + M) <= c \/ h + n + w <= c
      BY <1>9, <2>1, <2>4, <3>1
    <3>3. g + w <= c
      BY <2>1, <2>2, <3>2
    <3> QED
      BY <1>8, <1>9, <2>1, <2>2, <3>3 DEF Fits
  \* Another one was, and p as a largest record.
  <2>5. ASSUME NEW q \in T, q # p, h + Head(producer[q].todo).size + Load(Cardinality(T) - 1) <= c
        PROVE  Fits(index.hot_bytes, Through)'
    <3>1. PICK s \in Nat : s = Head(producer[q].todo).size /\ producer'[q] = producer[q] /\ q \in T \ {p}
      BY <1>6, <1>7, <2>5, ThroughFinite DEF Through
    <3>2. k # 0
      <4>1. IsFiniteSet(T \ {p}) /\ T \ {p} # {}
        BY <1>7, <3>1, ThroughFinite, FS_RemoveElement
      <4> QED
        BY <1>9, <4>1, FS_EmptySet
    <3>3. PICK v \in Nat : v = Load(k - 1) /\ w = v + M
      <4>1. k - 1 \in Nat /\ (k - 1) + 1 = k
        BY <3>2
      <4>2. Load(k - 1) \in Nat /\ Load((k - 1) + 1) = Load(k - 1) + M
        BY <1>10, <2>1, <4>1, Loads
      <4> QED
        BY <2>1, <4>1, <4>2
    <3>4. h + s + w <= c
      <4>1. Cardinality(T) - 1 = k
        BY <1>9
      <4> QED
        BY <2>1, <2>5, <3>1, <4>1
    <3>5. g + s + v <= c
      BY <2>1, <2>2, <3>3, <3>4
    <3> QED
      BY <1>8, <1>9, <2>1, <2>2, <3>1, <3>3, <3>5 DEF Fits
  <2>6. \/ h + Load(Cardinality(T)) <= c
        \/ \E q \in T : h + Head(producer[q].todo).size + Load(Cardinality(T) - 1) <= c
    BY <2>1, <2>3 DEF Fits
  <2>7. n = Head(producer[p].todo).size
    BY <1>2, <1>3
  <2> QED
    BY <2>4, <2>5, <2>6, <2>7
<1> QED
  BY <1>5, <1>10 DEF Admitted

\* The steps of a request.
LEMMA AdmittedProduce ==
    ASSUME Admission, StoreTyped, StoreTyped', Admitted, Produce
    PROVE  Admitted'
<1>1. index.hot_bytes \in Nat /\ index'.hot_bytes \in Nat /\ HotBudget \in Nat /\ DOMAIN producer = Producers
      /\ index.hot_bytes <= index.hot_bytes
  BY StoreConstants DEF StoreTyped, Exact, Indexes
<1>2. HotBudget > 0 => AppendNext = "capacity"
  BY <1>1 DEF AppendNext
<1>3. ASSUME NEW p \in Producers, NEW tp \in Partitions, NEW n \in BatchSizes, NEW a \in AckLevels, NEW s \in Sizes,
             ProduceStart(p, tp, n, a, s)
      PROVE  Admitted'
  <2>1. index' = index /\ faults' = faults /\ producer[p].pc # "insert"
    BY <1>3 DEF ProduceStart
  <2>2. (\A c \in Producers \ {p} : producer'[c] = producer[c]) /\ producer'[p].pc = AppendNext
    BY <1>1, <1>3 DEF ProduceStart
  <2> QED
    BY <1>1, <1>2, <2>1, <2>2, AdmittedRequest
<1>4. ASSUME NEW p \in Producers, AwaitCapacity(p) PROVE Admitted'
  BY <1>4, LetThrough
<1>5. ASSUME NEW p \in Producers, InsertHot(p) PROVE Admitted'
  BY <1>5, ThroughInserted
<1>6. ASSUME NEW p \in Producers, WalAppend(p) PROVE Admitted'
  <2>1. index' = index /\ faults' = faults /\ producer[p].pc # "insert"
    BY <1>6 DEF WalAppend
  <2>2. /\ \A c \in Producers \ {p} : producer'[c] = producer[c]
        /\ producer'[p].pc = IF Len(producer[p].todo) > 1 THEN AppendNext ELSE "commit"
    BY <1>6, RequestAppended
  <2>3. HotBudget > 0 => producer'[p].pc # "insert"
    BY <1>2, <2>2
  <2> QED
    BY <1>1, <2>1, <2>2, <2>3, AdmittedRequest
<1>7. ASSUME NEW p \in Producers, WalAppendErr(p) PROVE Admitted'
  <2>1. /\ index' = index /\ Fault("wal") /\ producer' = [producer EXCEPT ![p].pc = "rollback"] /\ "wal" # "crash"
        /\ producer[p].pc # "insert"
    BY <1>7 DEF WalAppendErr
  <2>2. (\A c \in Producers \ {p} : producer'[c] = producer[c]) /\ producer'[p].pc # "insert"
    BY <1>1, <2>1
  <2> QED
    BY <1>1, <2>1, <2>2, AdmittedRequest
<1>8. ASSUME NEW p \in Producers, AppendRollback(p) PROVE Admitted'
  <2>1. index'.hot_bytes <= index.hot_bytes
    BY <1>8, TypedAppendRollback
  <2>2. faults' = faults /\ producer' = [producer EXCEPT ![p] = IdleProducer] /\ producer[p].pc # "insert"
    BY <1>8 DEF AppendRollback
  <2>3. (\A c \in Producers \ {p} : producer'[c] = producer[c]) /\ producer'[p].pc # "insert"
    BY <1>1, <2>2 DEF IdleProducer
  <2> QED
    BY <2>1, <2>2, <2>3, AdmittedRequest
<1>9. ASSUME NEW p \in Producers, ProduceCommit(p) PROVE Admitted'
  <2>1. /\ index' = index /\ faults' = faults /\ producer' = [producer EXCEPT ![p] = IdleProducer]
        /\ producer[p].pc # "insert"
    BY <1>9 DEF ProduceCommit
  <2>2. (\A c \in Producers \ {p} : producer'[c] = producer[c]) /\ producer'[p].pc # "insert"
    BY <1>1, <2>1 DEF IdleProducer
  <2> QED
    BY <1>1, <2>1, <2>2, AdmittedRequest
<1>10. CASE FlushTick
  <2>1. index' = index /\ faults' = faults /\ producer' = producer
    BY <1>10 DEF FlushTick, tasks
  <2> QED
    BY <2>1 DEF Admitted, Fits, Through
<1> QED
  BY <1>3, <1>4, <1>5, <1>6, <1>7, <1>8, <1>9, <1>10 DEF Produce

\* The steps of the other tasks.
LEMMA AdmittedOther ==
    ASSUME Admission, StoreTyped, StoreTyped', Admitted, producer' = producer, index'.hot_bytes <= index.hot_bytes,
           faults' = faults \/ \E kind : kind # "crash" /\ Fault(kind)
    PROVE  Admitted'
<1>1. "crash" \in DOMAIN faults' /\ faults'["crash"] = 0
  BY NoCrash DEF Admitted
<1> QED
  BY <1>1, AdmittedKept

\* Every step keeps what was let through within the budget.
LEMMA AdmittedNext ==
    ASSUME Admission
    PROVE  StoreTyped /\ Admitted /\ [Next]_vars => Admitted'
<1> SUFFICES ASSUME StoreTyped, Admitted, [Next]_vars PROVE Admitted'
  OBVIOUS
<1>1. StoreTyped'
  BY TypedNext
<1>2. index.hot_bytes \in Nat /\ index'.hot_bytes \in Nat
  BY <1>1 DEF StoreTyped, Exact, Indexes
<1>3. CASE Produce
  BY <1>1, <1>3, AdmittedProduce
<1>4. CASE Tiering
  <2>1. producer' = producer /\ faults' = faults
    BY <1>4 DEF Tiering, TierOnce, TierReadSegment, TierPreCheck, TierUpload, TierPostCheck, TierRegister,
           TierFlip, TierReclaim
  <2>2. index' = index \/ TierFlip
    BY <1>4 DEF Tiering, TierOnce, TierReadSegment, TierPreCheck, TierUpload, TierPostCheck, TierRegister,
           TierReclaim
  <2>3. index'.hot_bytes <= index.hot_bytes
    BY <1>2, <2>2, TypedTierFlip
  <2> QED
    BY <1>1, <2>1, <2>3, AdmittedOther
<1>5. CASE TierFail \/ TierTear \/ (\E plan \in compact.plans : CompactFail(plan)) \/ CompactTear
  <2>1. producer' = producer /\ index' = index /\ \E kind : kind # "crash" /\ Fault(kind)
    <3>1. producer' = producer /\ index' = index /\ (Fault("io") \/ Fault("tear"))
      BY <1>5 DEF TierFail, TierTear, CompactFail, CompactTear
    <3>2. "io" # "crash" /\ "tear" # "crash"
      OBVIOUS
    <3> QED
      BY <3>1, <3>2
  <2> QED
    BY <1>1, <1>2, <2>1, AdmittedOther
<1>6. CASE \E tp \in Partitions : LoseLeadership(tp) \/ GainLeadership(tp)
  <2>1. producer' = producer /\ index' = index /\ (faults' = faults \/ Fault("fence")) /\ "fence" # "crash"
    BY <1>6 DEF LoseLeadership, GainLeadership, tasks
  <2> QED
    BY <1>1, <1>2, <2>1, AdmittedOther
<1>7. CASE Compacting
  <2>1. producer' = producer /\ faults' = faults /\ (index' = index \/ CompactReplace)
    BY <1>7 DEF Compacting, CompactCycle, CompactUpload, CompactRecord, CompactReplace, CompactDelete
  <2>2. index'.hot_bytes <= index.hot_bytes
    BY <1>2, <2>1, TypedCompactReplace
  <2> QED
    BY <1>1, <2>1, <2>2, AdmittedOther
<1>8. CASE Reading
  <2>1. producer' = producer /\ faults' = faults /\ index' = index
    BY <1>8 DEF Reading, ReadStart, ReadDownload, ReadRetry
  <2> QED
    BY <2>1 DEF Admitted, Fits, Through
<1>9. CASE CrashRestart
  BY <1>9 DEF CrashRestart, Fault, Admitted
<1>10. CASE UNCHANGED vars
  BY <1>10 DEF vars, tasks, Admitted, Fits, Through
<1> QED
  BY <1>3, <1>4, <1>5, <1>6, <1>7, <1>8, <1>9, <1>10 DEF Next

\* Whatever the number of producers, the hot tier exceeds hot_cache_max_bytes by less than
\* one largest record for each of them, through every interleaving of their checks and
\* inserts, overwritten offsets, failed appends, failed uploads, torn manifests, lost leases
\* and compactions.  One producer keeps the budget.  The conditions are needed:
\* await_capacity lets a record as large as the budget through, and recovery reloads every
\* sealed segment.
THEOREM BudgetKept ==
    ASSUME Admission
    PROVE  Spec => []HotBounded
<1>1. Init => Admitted
  <2>1. ASSUME Init PROVE Admitted
    <3>1. faults = Faults /\ index.hot_bytes = 0 /\ Through = {}
      BY <2>1 DEF Init, EmptyIndex, IdleProducer, Through
    <3>2. "crash" \in DOMAIN Faults /\ HotBudget \in Nat
      BY StoreConstants
    <3>3. ASSUME HotBudget > 0 PROVE 0 + Load(Cardinality({})) <= Ceiling
      <4>1. Cardinality({}) = 0 /\ Cardinality(Producers) \in Nat /\ Cardinality(Producers) # 0
        <5>1. Cardinality({}) = 0
          BY FS_EmptySet
        <5> QED
          BY <5>1, FiniteProducers, FS_EmptySet, FS_CardinalityType DEF Admission
      <4>2. Load(0) \in Nat /\ Load(Cardinality(Producers) - 1) \in Nat /\ Load(0) <= Load(Cardinality(Producers) - 1)
        <5>1. PICK n \in Nat : n = Cardinality(Producers) - 1
          BY <4>1
        <5>2. 0 \in Nat /\ 0 <= n
          OBVIOUS
        <5>3. Load(0) \in Nat /\ Load(n) \in Nat /\ Load(0) <= Load(n)
          BY <3>3, <5>2, Loads
        <5> QED
          BY <5>1, <5>3
      <4> QED
        BY <3>2, <4>1, <4>2 DEF Ceiling
    <3> QED
      BY <3>1, <3>2, <3>3 DEF Admitted, Admission, Fits
  <2> QED
    BY <2>1
<1>2. StoreTyped /\ Admitted /\ [Next]_vars => Admitted'
  BY AdmittedNext
<1>3. StoreTyped /\ Admitted => HotBounded
  <2> SUFFICES ASSUME StoreTyped, Admitted, HotBudget > 0 PROVE index.hot_bytes <= Ceiling
    BY DEF HotBounded, Ceiling, Load
  <2>1. PICK h \in Nat : h = index.hot_bytes
    BY DEF StoreTyped, Exact, Indexes
  <2>2. PICK c \in Nat : c = Ceiling
    BY CeilingNatural
  <2>3. PICK n \in Nat : n = Cardinality(Through)
    BY ThroughFinite
  <2>4. CASE h + Load(n) <= c
    <3>1. Load(n) \in Nat
      BY Loads
    <3> QED
      BY <2>1, <2>2, <2>4, <3>1
  <2>5. ASSUME NEW p \in Through, h + Head(producer[p].todo).size + Load(n - 1) <= c PROVE h <= c
    <3>1. n - 1 \in Nat /\ Head(producer[p].todo).size \in Nat
      BY <2>3, ThroughFinite
    <3>2. PICK s \in Nat, k \in Nat : s = Head(producer[p].todo).size /\ k = Load(n - 1)
      BY <3>1, Loads
    <3>3. h + s + k <= c
      BY <2>5, <3>2
    <3> QED
      BY <3>3
  <2> QED
    BY <2>1, <2>2, <2>3, <2>4, <2>5 DEF Admitted, Fits
<1> QED
  BY <1>1, <1>2, <1>3, AlwaysTyped, PTL DEF Spec

-------------------------------------------------------------------------------
(* Durability and reads without compaction.                                *)

\* A partition has one request at a time, as the produce handler needs for its watermark
\* (append_records reads it, appends and stores it); records are appended once, and synced;
\* appends and manifest writes do not fail half-way.
Disciplined ==
    /\ \A p, q \in Producers : p # q => Targets[p] \cap Targets[q] = {}
    /\ AckLevels \subseteq {"Leader"} /\ FsyncOnWrite
    /\ Faults["wal"] = 0 /\ Faults["tear"] = 0

\* What the theorems below assume: that discipline, and no compaction.  Crashes, failing
\* uploads and manifest writes, retries and lost leases may happen at any time.
Orderly == Compaction = NoCompaction /\ Disciplined

\* What does not happen then.
Quiet ==
    /\ "wal" \in DOMAIN faults /\ "tear" \in DOMAIN faults
    /\ faults["wal"] = 0 /\ faults["tear"] = 0
    /\ compact = IdleCompact /\ manifest.torn = FALSE /\ manifest.orphans = {}
    /\ wal.tail = <<>>

\* The group of tp in a segment, and its range.
GroupIn(s, tp) == Keep(s, {r \in ToSet(s) : r.tp = tp})
StartIn(s, tp) == Head(GroupIn(s, tp)).off
EndIn(s, tp) == Last(GroupIn(s, tp)).off + 1
KeyIn(s, tp) == ObjectKey(tp, StartIn(s, tp), EndIn(s, tp))

\* A partition's offsets grow along the log.
InOrder(disk) ==
    \A s, t \in DOMAIN disk : \A i \in 1 .. Len(disk[s]), j \in 1 .. Len(disk[t]) :
        disk[s][i].tp = disk[t][j].tp /\ (s < t \/ (s = t /\ i < j)) => disk[s][i].off < disk[t][j].off

Has(s, r) == \E i \in 1 .. Len(s) : s[i] = r
Held(disk, r) == \E s \in DOMAIN disk : Has(disk[s], r)

Covers(ranges, a, o) == a <= o /\ o < ranges[a].end

\* A range of the manifest: it has its object, which has one record per offset, and it is
\* apart from the others.
RangeOK(tp, a, ranges, objs) ==
    /\ a < ranges[a].end /\ ranges[a].key = ObjectKey(tp, a, ranges[a].end)
    /\ ranges[a].key \in DOMAIN objs
    /\ ranges[a].size = Len(objs[ranges[a].key])
    /\ \A i, j \in 1 .. Len(objs[ranges[a].key]) :
          objs[ranges[a].key][i].off = objs[ranges[a].key][j].off => i = j
    /\ \A b \in DOMAIN ranges : a < b => ranges[a].end <= b
RangesOK(live, objs) ==
    \A tp \in Partitions : \A a \in DOMAIN live[tp] : RangeOK(tp, a, live[tp], objs)

\* A range and a group of a sealed segment are apart, or the range is the group's.
Aligned(s, tp, a, ranges, objs) ==
    \/ ranges[a].end <= StartIn(s, tp) \/ EndIn(s, tp) <= a
    \/ /\ a = StartIn(s, tp) /\ ranges[a].end = EndIn(s, tp)
       /\ objs[ranges[a].key] = GroupIn(s, tp)
SealedAligned(w, live, objs) ==
    \A s \in DOMAIN w.disk : s < w.active =>
        \A tp \in TpsOf(w.disk[s]) : \A a \in DOMAIN live[tp] : Aligned(w.disk[s], tp, a, live[tp], objs)

\* The active segment is above every range.
ActiveAbove(w, live) ==
    \A i \in 1 .. Len(w.disk[w.active]) : \A a \in DOMAIN live[w.disk[w.active][i].tp] :
        live[w.disk[w.active][i].tp][a].end <= w.disk[w.active][i].off

\* Memory knows ranges of the manifest, and is past them.
ColdKnown(idx, live) ==
    \A tp \in Partitions : \A a \in DOMAIN idx.parts[tp].cold :
        /\ a \in DOMAIN live[tp] /\ idx.parts[tp].cold[a] = live[tp][a]
        /\ idx.parts[tp].cold[a].end <= idx.parts[tp].next_offset

\* The record is being appended.
InFlight(prods, r) == \E p \in Producers : prods[p].pc = "wal" /\ Head(prods[p].todo) = r

\* A hot record is at its offset, and in the log or on its way there.
HotKnown(idx, disk, prods) ==
    \A tp \in Partitions : \A o \in DOMAIN idx.parts[tp].hot :
        /\ idx.parts[tp].hot[o].tp = tp /\ idx.parts[tp].hot[o].off = o
        /\ o < idx.parts[tp].next_offset
        /\ Held(disk, idx.parts[tp].hot[o]) \/ InFlight(prods, idx.parts[tp].hot[o])

\* A record that is being appended is hot.
HotWaiting(idx, prods) ==
    \A p \in Producers : prods[p].pc = "wal" => Head(prods[p].todo).off \in DOMAIN idx.parts[prods[p].tp].hot

\* A record in the log is hot, or its offset is cold.
LogServed(idx, disk) ==
    \A s \in DOMAIN disk : \A i \in 1 .. Len(disk[s]) :
        \/ disk[s][i].off \in DOMAIN idx.parts[disk[s][i].tp].hot
        \/ \E a \in DOMAIN idx.parts[disk[s][i].tp].cold : Covers(idx.parts[disk[s][i].tp].cold, a, disk[s][i].off)

\* The group of tp in s is cold and no longer hot.
Tiered(s, tp, idx) ==
    /\ StartIn(s, tp) \in DOMAIN idx.parts[tp].cold
    /\ idx.parts[tp].cold[StartIn(s, tp)].end = EndIn(s, tp)
    /\ \A o \in DOMAIN idx.parts[tp].hot : ~ (StartIn(s, tp) <= o /\ o < EndIn(s, tp))

\* What the tiering task has done.
TierDone(t, disk, idx) ==
    t.pc \in {"group"} \cup Working => t.fenced \/
        \A tp \in TpsOf(disk[t.queue[1]]) \ t.todo : Tiered(disk[t.queue[1]], tp, idx)
TierStored(t, disk, live, objs) ==
    t.pc \in {"postcheck", "register", "flip"} =>
        /\ KeyIn(disk[t.queue[1]], t.tp) \in DOMAIN objs
        /\ objs[KeyIn(disk[t.queue[1]], t.tp)] = GroupIn(disk[t.queue[1]], t.tp)
        /\ t.pc = "flip" =>
              /\ StartIn(disk[t.queue[1]], t.tp) \in DOMAIN live[t.tp]
              /\ live[t.tp][StartIn(disk[t.queue[1]], t.tp)] =
                    ObjectRange(EndIn(disk[t.queue[1]], t.tp), KeyIn(disk[t.queue[1]], t.tp),
                                Len(GroupIn(disk[t.queue[1]], t.tp)))

\* Every offset of tp is below b, in the log and in the manifest.
Below(tp, b, disk, live) ==
    /\ \A s \in DOMAIN disk : \A i \in 1 .. Len(disk[s]) : disk[s][i].tp = tp => disk[s][i].off < b
    /\ \A a \in DOMAIN live[tp] : live[tp][a].end <= b

\* The record is in the log, or in the object of a range that memory knows.
SafeCold(r, idx, objs) ==
    \E a \in DOMAIN idx.parts[r.tp].cold :
        /\ Covers(idx.parts[r.tp].cold, a, r.off)
        /\ idx.parts[r.tp].cold[a].key \in DOMAIN objs
        /\ Has(objs[idx.parts[r.tp].cold[a].key], r)
Safe(r, disk, idx, objs) == Held(disk, r) \/ SafeCold(r, idx, objs)

\* A request appends its records in their order, from the watermark on.
Written(q) == Len(q.recs) - Len(q.todo)
RequestInv(p, q, mark, disk, live, idx, objs) ==
    /\ q.tp \in Targets[p] /\ q.pc # "rollback" /\ (q.pc = "commit" => q.todo = <<>>)
    /\ q.base = mark[q.tp] /\ Len(q.todo) <= Len(q.recs)
    /\ \A k \in 1 .. Len(q.todo) : q.todo[k] = q.recs[Written(q) + k]
    /\ \A i \in 1 .. Len(q.recs) : q.recs[i].tp = q.tp /\ q.recs[i].off = q.base + (i - 1)
    /\ Below(q.tp, q.base + Written(q), disk, live)
    /\ \A i \in 1 .. Written(q) : Safe(q.recs[i], disk, idx, objs)

Busy(q) == q.pc # "idle"
Free(tp, prods) == \A p \in Producers : Busy(prods[p]) => prods[p].tp # tp

\* The log, the manifest and the objects.
Archive(w, live, objs) ==
    InOrder(w.disk) /\ RangesOK(live, objs) /\ SealedAligned(w, live, objs) /\ ActiveAbove(w, live)
\* The index.
Memory(idx, disk, live, prods) ==
    ColdKnown(idx, live) /\ HotKnown(idx, disk, prods) /\ HotWaiting(idx, prods) /\ LogServed(idx, disk)
\* The tiering task.
Tierer(t, disk, idx, live, objs) == TierDone(t, disk, idx) /\ TierStored(t, disk, live, objs)
\* The requests.
Clients(prods, mark, disk, live, idx, objs) ==
    /\ \A p \in Producers : Busy(prods[p]) => RequestInv(p, prods[p], mark, disk, live, idx, objs)
    /\ \A tp \in Partitions : Free(tp, prods) => Below(tp, mark[tp], disk, live)
\* What was acknowledged.
AllSafe(S, disk, idx, objs) == S \subseteq Record /\ \A r \in S : Safe(r, disk, idx, objs)

StoreInv ==
    /\ Quiet /\ Archive(wal, manifest.live, objects)
    /\ Memory(index, wal.disk, manifest.live, producer)
    /\ Tierer(tier, wal.disk, index, manifest.live, objects)
    /\ Clients(producer, hw, wal.disk, manifest.live, index, objects)
    /\ AllSafe(acked, wal.disk, index, objects)

-------------------------------------------------------------------------------
(* Groups of a segment.                                                    *)

\* A partition's offsets grow along s.
OrderedSeq(s) == \A i, j \in 1 .. Len(s) : i < j /\ s[i].tp = s[j].tp => s[i].off < s[j].off

GroupFacts(s, tp) ==
    /\ GroupOf(GroupIn(s, tp), s, tp) /\ KeyIn(s, tp) \in Keys
    /\ StartIn(s, tp) \in Offsets /\ StartIn(s, tp) \in Nat
    /\ EndIn(s, tp) \in Ends /\ EndIn(s, tp) \in Nat /\ StartIn(s, tp) < EndIn(s, tp)
    /\ \A i \in 1 .. Len(s) : s[i].tp = tp =>
          StartIn(s, tp) <= s[i].off /\ s[i].off < EndIn(s, tp) /\ Has(GroupIn(s, tp), s[i])
    /\ \E i \in 1 .. Len(s) : s[i].tp = tp /\ s[i].off = StartIn(s, tp)
    /\ \E i \in 1 .. Len(s) : s[i].tp = tp /\ s[i].off + 1 = EndIn(s, tp)
    /\ \A a, b \in 1 .. Len(GroupIn(s, tp)) : GroupIn(s, tp)[a].off = GroupIn(s, tp)[b].off => a = b

\* The range of a group covers it exactly.
LEMMA GroupRange ==
    ASSUME NEW s \in Seq(Record), OrderedSeq(s), NEW tp \in TpsOf(s)
    PROVE  GroupFacts(s, tp) /\ tp \in Partitions
<1> DEFINE g == GroupIn(s, tp)
<1>1. tp \in Partitions
  <2>1. PICK r \in ToSet(s) : tp = r.tp
    BY DEF TpsOf
  <2>2. r \in Record
    BY <2>1 DEF ToSet
  <2> QED
    BY <2>1, <2>2, RecordFields
<1>2. GroupOf(g, s, tp)
  BY KeptGroup DEF GroupIn
<1>3. /\ Len(g) \in Nat \ {0} /\ Head(g) = g[1] /\ Last(g) = g[Len(g)]
      /\ g[1] \in Record /\ g[Len(g)] \in Record
      /\ Head(g).off \in Offsets /\ Last(g).off + 1 \in Ends
      /\ ObjectKey(tp, Head(g).off, Last(g).off + 1) \in Keys
  BY <1>1, <1>2, GroupBounds
<1>4. StartIn(s, tp) = g[1].off /\ EndIn(s, tp) = g[Len(g)].off + 1 /\ KeyIn(s, tp) \in Keys
  BY <1>3 DEF StartIn, EndIn, KeyIn
<1>5. /\ \A a \in 1 .. Len(g) : g[a] \in Record /\ g[a].tp = tp /\ \E i \in 1 .. Len(s) : g[a] = s[i]
      /\ \A i \in 1 .. Len(s) : s[i].tp = tp => \E a \in 1 .. Len(g) : g[a] = s[i]
      /\ \A a, b \in 1 .. Len(g) : a < b => \E i, j \in 1 .. Len(s) : i < j /\ g[a] = s[i] /\ g[b] = s[j]
  BY <1>2 DEF GroupOf
<1> HIDE DEF g
<1>6. \A a, b \in 1 .. Len(g) : a < b => g[a].off < g[b].off
  <2> SUFFICES ASSUME NEW a \in 1 .. Len(g), NEW b \in 1 .. Len(g), a < b
               PROVE  g[a].off < g[b].off
    OBVIOUS
  <2>1. PICK i \in 1 .. Len(s), j \in 1 .. Len(s) : i < j /\ g[a] = s[i] /\ g[b] = s[j]
    BY <1>5
  <2>2. s[i].tp = s[j].tp
    BY <1>5, <2>1
  <2> QED
    BY <2>1, <2>2 DEF OrderedSeq
<1>7. \A a \in 1 .. Len(g) : g[a].off \in Nat
  BY <1>5, RecordFields
<1>8. \A a \in 1 .. Len(g) : g[1].off <= g[a].off /\ g[a].off <= g[Len(g)].off
  BY <1>3, <1>6, <1>7
<1>9. \A i \in 1 .. Len(s) : s[i].tp = tp => g[1].off <= s[i].off /\ s[i].off < g[Len(g)].off + 1 /\ Has(g, s[i])
  <2> SUFFICES ASSUME NEW i \in 1 .. Len(s), s[i].tp = tp
               PROVE  g[1].off <= s[i].off /\ s[i].off < g[Len(g)].off + 1 /\ Has(g, s[i])
    OBVIOUS
  <2>1. PICK a \in 1 .. Len(g) : g[a] = s[i]
    BY <1>5
  <2>2. g[1].off \in Nat /\ g[Len(g)].off \in Nat /\ g[a].off \in Nat
    BY <1>3, <1>7
  <2> QED
    BY <2>1, <2>2, <1>8 DEF Has
<1>10. \E i \in 1 .. Len(s) : s[i].tp = tp /\ s[i].off = g[1].off
  BY <1>3, <1>5
<1>11. \E i \in 1 .. Len(s) : s[i].tp = tp /\ s[i].off + 1 = g[Len(g)].off + 1
  <2>1. Len(g) \in 1 .. Len(g)
    BY <1>3
  <2> QED
    BY <2>1, <1>5
<1>12. \A a, b \in 1 .. Len(g) : g[a].off = g[b].off => a = b
  <2> SUFFICES ASSUME NEW a \in 1 .. Len(g), NEW b \in 1 .. Len(g), g[a].off = g[b].off, a # b
               PROVE  FALSE
    OBVIOUS
  <2>1. a < b \/ b < a
    BY <1>3
  <2>2. g[a].off < g[b].off \/ g[b].off < g[a].off
    BY <2>1, <1>6
  <2> QED
    BY <2>2, <1>7
<1>13. g[1].off \in Offsets /\ g[1].off \in Nat /\ g[Len(g)].off + 1 \in Ends /\ g[Len(g)].off + 1 \in Nat
       /\ g[1].off < g[Len(g)].off + 1
  BY <1>3, <1>7, <1>8
<1> QED
  BY <1>1, <1>2, <1>4, <1>9, <1>10, <1>11, <1>12, <1>13 DEF GroupFacts, g

\* A segment of an ordered log is ordered.
LEMMA SegmentOrdered ==
    ASSUME NEW disk, InOrder(disk), NEW s \in DOMAIN disk
    PROVE  OrderedSeq(disk[s])
BY DEF InOrder, OrderedSeq

\* The group in work is that of its segment.
LEMMA GroupInWork ==
    ASSUME StoreTyped, tier.pc \notin {"idle", "dead"}, NEW tp
    PROVE  /\ Group(tp) = GroupIn(wal.disk[tier.queue[1]], tp)
           /\ GroupStart(tp) = StartIn(wal.disk[tier.queue[1]], tp)
           /\ GroupEnd(tp) = EndIn(wal.disk[tier.queue[1]], tp)
           /\ GroupKey(tp) = KeyIn(wal.disk[tier.queue[1]], tp)
<1>1. Segment = wal.disk[tier.queue[1]]
  BY TierQueue
<1> QED
  BY <1>1 DEF Group, GroupStart, GroupEnd, GroupKey, GroupIn, StartIn, EndIn, KeyIn

-------------------------------------------------------------------------------
(* How the log changes.                                                    *)

\* The log v has what w has, and rec at the end.
OneMore(v, w, rec) ==
    /\ DOMAIN v.disk = DOMAIN w.disk /\ v.active = w.active /\ w.active \in DOMAIN w.disk
    /\ \A s \in DOMAIN w.disk \ {w.active} : v.disk[s] = w.disk[s]
    /\ Len(v.disk[w.active]) = Len(w.disk[w.active]) + 1
    /\ v.disk[w.active][Len(w.disk[w.active]) + 1] = rec
    /\ \A s \in DOMAIN w.disk : \A i \in 1 .. Len(w.disk[s]) : i \in 1 .. Len(v.disk[s]) /\ v.disk[s][i] = w.disk[s][i]
    /\ \A s \in DOMAIN w.disk : Len(w.disk[s]) \in Nat /\ Len(v.disk[s]) \in Nat
    /\ \A s \in DOMAIN w.disk : \A i \in 1 .. Len(v.disk[s]) :
          \/ i \in 1 .. Len(w.disk[s]) /\ v.disk[s][i] = w.disk[s][i]
          \/ s = w.active /\ i = Len(w.disk[s]) + 1 /\ v.disk[s][i] = rec
    /\ DOMAIN w.disk \subseteq Nat /\ \A s \in DOMAIN w.disk : s <= w.active

\* Appending a record.
LEMMA AppendedOne ==
    ASSUME NEW w, WalOK(w), NEW v, WalOK(v), NEW rec \in Record, Appended(v, w, <<rec>>)
    PROVE  OneMore(v, w, rec)
<1>1. /\ w.active \in DOMAIN w.disk /\ DOMAIN w.disk \subseteq Nat /\ w.active \in Nat
      /\ \A s \in DOMAIN w.disk : w.disk[s] \in Seq(Record) /\ s <= w.active
      /\ \A s \in DOMAIN v.disk : v.disk[s] \in Seq(Record)
  BY WalFields DEF WalOK
<1> DEFINE old == w.disk[w.active]
           new == v.disk[w.active]
<1>2. new = old \o <<rec>> /\ DOMAIN v.disk = DOMAIN w.disk /\ v.active = w.active
      /\ \A s \in DOMAIN w.disk \ {w.active} : v.disk[s] = w.disk[s]
  BY DEF Appended
<1>3. old \in Seq(Record) /\ new \in Seq(Record) /\ Len(old) \in Nat /\ Len(new) \in Nat
  BY <1>1, <1>2
<1>4. /\ Len(new) = Len(old) + 1 /\ new[Len(old) + 1] = rec
      /\ \A i \in 1 .. Len(old) : i \in 1 .. Len(new) /\ new[i] = old[i]
  <2>1. <<rec>> \in Seq(Record) /\ Len(<<rec>>) = 1 /\ <<rec>>[1] = rec
    OBVIOUS
  <2>2. Len(old \o <<rec>>) = Len(old) + 1
    BY <1>3, <2>1, ConcatProperties
  <2>3. \A i \in 1 .. Len(old) + 1 : (old \o <<rec>>)[i] = IF i <= Len(old) THEN old[i] ELSE <<rec>>[i - Len(old)]
    BY <1>3, <2>1, ConcatProperties
  <2>4. new[Len(old) + 1] = <<rec>>[(Len(old) + 1) - Len(old)]
    BY <1>2, <1>3, <2>3
  <2>5. (Len(old) + 1) - Len(old) = 1
    BY <1>3
  <2> QED
    BY <1>2, <1>3, <2>1, <2>2, <2>3, <2>4, <2>5
<1>5. \A i \in 1 .. Len(new) : (i \in 1 .. Len(old) /\ new[i] = old[i]) \/ (i = Len(old) + 1 /\ new[i] = rec)
  BY <1>3, <1>4
<1> HIDE DEF old, new
<1>6. \A s \in DOMAIN w.disk : Len(w.disk[s]) \in Nat /\ Len(v.disk[s]) \in Nat
  BY <1>1, <1>2
<1>7. \A s \in DOMAIN w.disk : \A i \in 1 .. Len(w.disk[s]) : i \in 1 .. Len(v.disk[s]) /\ v.disk[s][i] = w.disk[s][i]
  <2> SUFFICES ASSUME NEW s \in DOMAIN w.disk, NEW i \in 1 .. Len(w.disk[s])
               PROVE  i \in 1 .. Len(v.disk[s]) /\ v.disk[s][i] = w.disk[s][i]
    OBVIOUS
  <2>1. CASE s = w.active
    BY <2>1, <1>4 DEF old, new
  <2>2. CASE s # w.active
    BY <2>2, <1>2
  <2> QED
    BY <2>1, <2>2
<1>8. \A s \in DOMAIN w.disk : \A i \in 1 .. Len(v.disk[s]) :
          \/ i \in 1 .. Len(w.disk[s]) /\ v.disk[s][i] = w.disk[s][i]
          \/ s = w.active /\ i = Len(w.disk[s]) + 1 /\ v.disk[s][i] = rec
  <2> SUFFICES ASSUME NEW s \in DOMAIN w.disk, NEW i \in 1 .. Len(v.disk[s])
               PROVE  \/ i \in 1 .. Len(w.disk[s]) /\ v.disk[s][i] = w.disk[s][i]
                      \/ s = w.active /\ i = Len(w.disk[s]) + 1 /\ v.disk[s][i] = rec
    OBVIOUS
  <2>1. CASE s = w.active
    BY <2>1, <1>5 DEF old, new
  <2>2. CASE s # w.active
    BY <2>2, <1>2
  <2> QED
    BY <2>1, <2>2
<1> QED
  BY <1>1, <1>2, <1>4, <1>6, <1>7, <1>8 DEF OneMore, old, new

\* The record is above all others of its partition.
LEMMA OrderAppended ==
    ASSUME NEW v, NEW w, NEW rec, NEW live, OneMore(v, w, rec), InOrder(w.disk),
           Below(rec.tp, rec.off, w.disk, live)
    PROVE  InOrder(v.disk)
<1> SUFFICES ASSUME NEW s \in DOMAIN v.disk, NEW t \in DOMAIN v.disk, NEW i \in 1 .. Len(v.disk[s]),
                    NEW j \in 1 .. Len(v.disk[t]), v.disk[s][i].tp = v.disk[t][j].tp, s < t \/ (s = t /\ i < j)
             PROVE  v.disk[s][i].off < v.disk[t][j].off
  BY DEF InOrder
<1>1. s \in DOMAIN w.disk /\ t \in DOMAIN w.disk /\ s \in Nat /\ t \in Nat /\ s <= w.active /\ t <= w.active
      /\ w.active \in Nat
  BY DEF OneMore
<1>2. \/ i \in 1 .. Len(w.disk[s]) /\ v.disk[s][i] = w.disk[s][i]
      \/ s = w.active /\ i = Len(w.disk[s]) + 1 /\ v.disk[s][i] = rec
  BY <1>1 DEF OneMore
<1>3. \/ j \in 1 .. Len(w.disk[t]) /\ v.disk[t][j] = w.disk[t][j]
      \/ t = w.active /\ j = Len(w.disk[t]) + 1 /\ v.disk[t][j] = rec
  BY <1>1 DEF OneMore
<1>4. Len(w.disk[s]) \in Nat /\ Len(w.disk[t]) \in Nat /\ Len(v.disk[s]) \in Nat /\ Len(v.disk[t]) \in Nat
  BY <1>1 DEF OneMore
<1>5. CASE j \in 1 .. Len(w.disk[t]) /\ v.disk[t][j] = w.disk[t][j]
  <2>1. i \in 1 .. Len(w.disk[s]) /\ v.disk[s][i] = w.disk[s][i]
    BY <1>1, <1>2, <1>4, <1>5
  <2> QED
    BY <1>1, <1>5, <2>1 DEF InOrder
<1>6. CASE t = w.active /\ j = Len(w.disk[t]) + 1 /\ v.disk[t][j] = rec
  <2>1. i \in 1 .. Len(w.disk[s]) /\ v.disk[s][i] = w.disk[s][i]
    BY <1>1, <1>2, <1>4, <1>6
  <2> QED
    BY <1>1, <1>6, <2>1 DEF Below
<1> QED
  BY <1>3, <1>5, <1>6

\* Appending keeps the archive in order.
LEMMA ArchiveAppended ==
    ASSUME NEW v, NEW w, NEW rec, NEW live, NEW objs, OneMore(v, w, rec), Archive(w, live, objs),
           Below(rec.tp, rec.off, w.disk, live)
    PROVE  Archive(v, live, objs)
<1>1. InOrder(v.disk)
  BY OrderAppended DEF Archive
<1>2. RangesOK(live, objs)
  BY DEF Archive
<1>3. SealedAligned(v, live, objs)
  <2>1. \A s \in DOMAIN v.disk : s < v.active => s \in DOMAIN w.disk /\ s < w.active /\ v.disk[s] = w.disk[s]
    BY DEF OneMore
  <2> QED
    BY <2>1 DEF SealedAligned, Archive
<1>4. ActiveAbove(v, live)
  <2> SUFFICES ASSUME NEW i \in 1 .. Len(v.disk[v.active]), NEW a \in DOMAIN live[v.disk[v.active][i].tp]
               PROVE  live[v.disk[v.active][i].tp][a].end <= v.disk[v.active][i].off
    BY DEF ActiveAbove
  <2>1. v.active = w.active /\ w.active \in DOMAIN w.disk
    BY DEF OneMore
  <2>2. \/ i \in 1 .. Len(w.disk[w.active]) /\ v.disk[w.active][i] = w.disk[w.active][i]
        \/ v.disk[w.active][i] = rec
    BY <2>1 DEF OneMore
  <2>3. CASE i \in 1 .. Len(w.disk[w.active]) /\ v.disk[w.active][i] = w.disk[w.active][i]
    BY <2>1, <2>3 DEF ActiveAbove, Archive
  <2>4. CASE v.disk[w.active][i] = rec
    BY <2>1, <2>4 DEF Below
  <2> QED
    BY <2>2, <2>3, <2>4
<1> QED
  BY <1>1, <1>2, <1>3, <1>4 DEF Archive

\* v has the records of w, and new empty segments at most.
SameRecords(v, w) ==
    /\ DOMAIN w.disk \subseteq DOMAIN v.disk /\ v.active \in Nat /\ w.active \in Nat
    /\ \A s \in DOMAIN w.disk : v.disk[s] = w.disk[s]
    /\ \A s \in DOMAIN v.disk \ DOMAIN w.disk : v.disk[s] = <<>>
    /\ DOMAIN v.disk \subseteq Nat /\ v.disk[v.active] = <<>>
    /\ \A s \in DOMAIN w.disk : s <= w.active /\ w.disk[s] \in Seq(Record)

\* A rotation with nothing to flush.
LEMMA RotatedSame ==
    ASSUME NEW w, WalOK(w), NEW v, WalOK(v), NEW more \in Seq(Record), more = <<>>, Rotated(v, w, more)
    PROVE  SameRecords(v, w)
<1>1. w.disk[w.active] \in Seq(Record) /\ w.active \in Nat /\ w.active \in DOMAIN w.disk
      /\ \A s \in DOMAIN w.disk : s <= w.active /\ w.disk[s] \in Seq(Record)
  BY WalFields DEF WalOK
<1>2. w.disk[w.active] \o more = w.disk[w.active]
  BY <1>1, ConcatEmptySeq
<1>3. DOMAIN v.disk \subseteq Nat /\ v.active \in Nat
  BY WalFields
<1> QED
  BY <1>1, <1>2, <1>3 DEF Rotated, SameRecords

\* A sealed segment above every range is aligned.
LEMMA AlignedAbove ==
    ASSUME NEW s \in Seq(Record), OrderedSeq(s), NEW live \in [Partitions -> Colds], NEW objs,
           \A i \in 1 .. Len(s) : \A a \in DOMAIN live[s[i].tp] : live[s[i].tp][a].end <= s[i].off,
           NEW tp \in TpsOf(s), NEW a \in DOMAIN live[tp]
    PROVE  Aligned(s, tp, a, live[tp], objs)
<1>1. GroupFacts(s, tp)
  BY GroupRange
<1>2. PICK i \in 1 .. Len(s) : s[i].tp = tp /\ s[i].off = StartIn(s, tp)
  BY <1>1 DEF GroupFacts
<1> QED
  BY <1>2 DEF Aligned

\* Sealing keeps the archive in order.
LEMMA ArchiveRotated ==
    ASSUME NEW v, NEW w, SameRecords(v, w), NEW live \in [Partitions -> Colds], NEW objs, Archive(w, live, objs)
    PROVE  Archive(v, live, objs)
<1>1. ASSUME NEW s \in DOMAIN v.disk, NEW i \in 1 .. Len(v.disk[s])
      PROVE  s \in DOMAIN w.disk /\ v.disk[s] = w.disk[s] /\ i \in 1 .. Len(w.disk[s])
  <2>1. v.disk[s] # <<>>
    BY <1>1
  <2> QED
    BY <2>1 DEF SameRecords
<1>2. InOrder(v.disk)
  BY <1>1 DEF InOrder, Archive
<1>3. SealedAligned(v, live, objs)
  <2> SUFFICES ASSUME NEW s \in DOMAIN v.disk, NEW tp \in TpsOf(v.disk[s]), NEW a \in DOMAIN live[tp]
               PROVE  Aligned(v.disk[s], tp, a, live[tp], objs)
    BY DEF SealedAligned
  <2>1. v.disk[s] # <<>>
    BY DEF TpsOf, ToSet
  <2>2. s \in DOMAIN w.disk /\ v.disk[s] = w.disk[s] /\ s <= w.active /\ w.active \in Nat /\ s \in Nat
        /\ w.disk[s] \in Seq(Record)
    BY <2>1 DEF SameRecords
  <2>3. CASE s < w.active
    BY <2>2, <2>3 DEF SealedAligned, Archive
  <2>4. CASE s = w.active
    <3>1. OrderedSeq(w.disk[s])
      BY <2>2, SegmentOrdered DEF Archive
    <3>2. \A i \in 1 .. Len(w.disk[s]) : \A b \in DOMAIN live[w.disk[s][i].tp] :
             live[w.disk[s][i].tp][b].end <= w.disk[s][i].off
      BY <2>4 DEF ActiveAbove, Archive
    <3> QED
      BY <2>2, <3>1, <3>2, AlignedAbove
  <2> QED
    BY <2>2, <2>3, <2>4
<1>4. ActiveAbove(v, live)
  BY DEF ActiveAbove, SameRecords
<1>5. RangesOK(live, objs)
  BY DEF Archive
<1> QED
  BY <1>2, <1>3, <1>4, <1>5 DEF Archive

\* Deleting a sealed segment keeps the archive in order.
LEMMA ArchiveDeleted ==
    ASSUME NEW v, NEW w, NEW q, Deleted(v, w, q), NEW live, NEW objs, Archive(w, live, objs), q # w.active,
           w.active \in DOMAIN w.disk
    PROVE  Archive(v, live, objs)
<1>1. InOrder(v.disk)
  BY DEF InOrder, Archive, Deleted
<1>2. SealedAligned(v, live, objs)
  BY DEF SealedAligned, Archive, Deleted
<1>3. ActiveAbove(v, live)
  <2>1. v.active = w.active /\ v.disk[v.active] = w.disk[w.active]
    BY DEF Deleted
  <2> QED
    BY <2>1 DEF ActiveAbove, Archive
<1>4. RangesOK(live, objs)
  BY DEF Archive
<1> QED
  BY <1>1, <1>2, <1>3, <1>4 DEF Archive

-------------------------------------------------------------------------------
(* How the manifest and the objects change.                                *)

\* A range of a manifest has naturals as its ends.
LEMMA RangeNaturals ==
    ASSUME NEW live \in [Partitions -> Colds], NEW tp \in Partitions, NEW a \in DOMAIN live[tp]
    PROVE  a \in Nat /\ a \in Offsets /\ live[tp][a] \in Ranges /\ live[tp][a].end \in Nat
<1>1. live[tp] \in Colds
  OBVIOUS
<1>2. DOMAIN live[tp] \subseteq Offsets /\ live[tp] \in [DOMAIN live[tp] -> Ranges]
  BY <1>1, MapFields DEF Colds
<1>3. live[tp][a] \in Ranges /\ a \in Offsets
  BY <1>2
<1>4. Offsets \subseteq Nat /\ Ends \subseteq Nat
  BY StoreConstants DEF Offsets, Ends
<1>5. live[tp][a].end \in Ends
  BY <1>3 DEF Ranges
<1> QED
  BY <1>3, <1>4, <1>5

\* A range that starts where a group does is the group's.
LEMMA GroupsOwnRange ==
    ASSUME NEW w, WalOK(w), NEW live \in [Partitions -> Colds], NEW objs, Archive(w, live, objs),
           NEW s \in DOMAIN w.disk, s < w.active, NEW tp \in TpsOf(w.disk[s]), NEW a \in DOMAIN live[tp],
           a = StartIn(w.disk[s], tp)
    PROVE  /\ live[tp][a].end = EndIn(w.disk[s], tp) /\ live[tp][a].key = KeyIn(w.disk[s], tp)
           /\ objs[KeyIn(w.disk[s], tp)] = GroupIn(w.disk[s], tp)
           /\ live[tp][a] = ObjectRange(EndIn(w.disk[s], tp), KeyIn(w.disk[s], tp), Len(GroupIn(w.disk[s], tp)))
<1> DEFINE seg == w.disk[s]
<1>1. seg \in Seq(Record) /\ OrderedSeq(seg)
  BY WalFields, SegmentOrdered DEF Archive
<1>2. GroupFacts(seg, tp) /\ tp \in Partitions
  BY <1>1, GroupRange
<1>3. RangeOK(tp, a, live[tp], objs) /\ Aligned(seg, tp, a, live[tp], objs)
  BY <1>2 DEF Archive, RangesOK, SealedAligned
<1>4. a \in Nat /\ live[tp][a] \in Ranges /\ live[tp][a].end \in Nat /\ StartIn(seg, tp) \in Nat /\ EndIn(seg, tp) \in Nat
      /\ StartIn(seg, tp) < EndIn(seg, tp)
  BY <1>2, RangeNaturals DEF GroupFacts
<1>5. a < live[tp][a].end /\ live[tp][a].key = ObjectKey(tp, a, live[tp][a].end)
      /\ live[tp][a].size = Len(objs[live[tp][a].key])
  BY <1>3 DEF RangeOK
<1> HIDE DEF seg
<1>6. live[tp][a].end = EndIn(seg, tp) /\ objs[live[tp][a].key] = GroupIn(seg, tp)
  BY <1>3, <1>4, <1>5 DEF Aligned, seg
<1>7. live[tp][a].key = KeyIn(seg, tp)
  BY <1>5, <1>6 DEF KeyIn, seg
<1>8. live[tp][a].size = Len(GroupIn(seg, tp))
  BY <1>5, <1>6
<1>9. live[tp][a] = [end |-> EndIn(seg, tp), key |-> KeyIn(seg, tp), size |-> Len(GroupIn(seg, tp))]
  BY <1>4, <1>6, <1>7, <1>8 DEF Ranges
<1> QED
  BY <1>6, <1>7, <1>9 DEF ObjectRange, seg

\* The objects of the manifest's ranges are the same.
ObjectsKept(new, objs, live) ==
    \A tp \in Partitions : \A a \in DOMAIN live[tp] :
        live[tp][a].key \in DOMAIN new /\ new[live[tp][a].key] = objs[live[tp][a].key]

\* Uploading a group again does not change the object of a range.
LEMMA UploadKeeps ==
    ASSUME NEW w, WalOK(w), NEW live \in [Partitions -> Colds], NEW objs, Archive(w, live, objs),
           NEW s \in DOMAIN w.disk, s < w.active, NEW tp \in TpsOf(w.disk[s]),
           NEW new, Stored(new, objs, KeyIn(w.disk[s], tp), GroupIn(w.disk[s], tp))
    PROVE  ObjectsKept(new, objs, live)
<1> SUFFICES ASSUME NEW q \in Partitions, NEW a \in DOMAIN live[q]
             PROVE  live[q][a].key \in DOMAIN new /\ new[live[q][a].key] = objs[live[q][a].key]
  BY DEF ObjectsKept
<1>1. live[q][a].key = ObjectKey(q, a, live[q][a].end) /\ live[q][a].key \in DOMAIN objs
  BY DEF Archive, RangesOK, RangeOK
<1>2. CASE live[q][a].key # KeyIn(w.disk[s], tp)
  BY <1>1, <1>2 DEF Stored
<1>3. CASE live[q][a].key = KeyIn(w.disk[s], tp)
  <2>1. q = tp /\ a = StartIn(w.disk[s], tp)
    BY <1>1, <1>3 DEF KeyIn, ObjectKey
  <2>2. objs[KeyIn(w.disk[s], tp)] = GroupIn(w.disk[s], tp)
    BY <2>1, GroupsOwnRange
  <2> QED
    BY <1>1, <1>3, <2>2 DEF Stored
<1> QED
  BY <1>2, <1>3

\* Objects that are the same for every range keep the archive in order.
LEMMA ArchiveObjects ==
    ASSUME NEW w, WalOK(w), NEW live \in [Partitions -> Colds], NEW objs, Archive(w, live, objs),
           NEW new, ObjectsKept(new, objs, live)
    PROVE  Archive(w, live, new)
<1>1. RangesOK(live, new)
  <2> SUFFICES ASSUME NEW tp \in Partitions, NEW a \in DOMAIN live[tp] PROVE RangeOK(tp, a, live[tp], new)
    BY DEF RangesOK
  <2>1. RangeOK(tp, a, live[tp], objs) /\ live[tp][a].key \in DOMAIN new /\ new[live[tp][a].key] = objs[live[tp][a].key]
    BY DEF Archive, RangesOK, ObjectsKept
  <2> QED
    BY <2>1 DEF RangeOK
<1>2. SealedAligned(w, live, new)
  <2> SUFFICES ASSUME NEW s \in DOMAIN w.disk, s < w.active, NEW tp \in TpsOf(w.disk[s]), NEW a \in DOMAIN live[tp]
               PROVE  Aligned(w.disk[s], tp, a, live[tp], new)
    BY DEF SealedAligned
  <2>1. Aligned(w.disk[s], tp, a, live[tp], objs)
    BY DEF Archive, SealedAligned
  <2>2. tp \in Partitions
    <3>1. w.disk[s] \in Seq(Record) /\ OrderedSeq(w.disk[s])
      BY WalFields, SegmentOrdered DEF Archive
    <3> QED
      BY <3>1, GroupRange
  <2>3. new[live[tp][a].key] = objs[live[tp][a].key]
    BY <2>2 DEF ObjectsKept
  <2> QED
    BY <2>1, <2>3 DEF Aligned
<1> QED
  BY <1>1, <1>2 DEF Archive

\* Groups of two segments.
LEMMA GroupsApart ==
    ASSUME NEW w, WalOK(w), InOrder(w.disk), NEW s \in DOMAIN w.disk, NEW t \in DOMAIN w.disk, s < t,
           NEW tp \in TpsOf(w.disk[s])
    PROVE  /\ \A j \in 1 .. Len(w.disk[t]) : w.disk[t][j].tp = tp => EndIn(w.disk[s], tp) <= w.disk[t][j].off
           /\ tp \in TpsOf(w.disk[t]) => EndIn(w.disk[s], tp) <= StartIn(w.disk[t], tp)
<1>1. w.disk[s] \in Seq(Record) /\ OrderedSeq(w.disk[s]) /\ w.disk[t] \in Seq(Record) /\ OrderedSeq(w.disk[t])
  BY WalFields, SegmentOrdered
<1>2. GroupFacts(w.disk[s], tp)
  BY <1>1, GroupRange
<1>3. PICK i \in 1 .. Len(w.disk[s]) : w.disk[s][i].tp = tp /\ w.disk[s][i].off + 1 = EndIn(w.disk[s], tp)
  BY <1>2 DEF GroupFacts
<1>4. ASSUME NEW j \in 1 .. Len(w.disk[t]), w.disk[t][j].tp = tp
      PROVE  EndIn(w.disk[s], tp) <= w.disk[t][j].off
  <2>1. w.disk[s][i].off < w.disk[t][j].off
    BY <1>3, <1>4 DEF InOrder
  <2>2. w.disk[s][i] \in Record /\ w.disk[t][j] \in Record
    BY <1>1
  <2>3. w.disk[s][i].off \in Nat /\ w.disk[t][j].off \in Nat
    BY <2>2, RecordFields
  <2> QED
    BY <1>3, <2>1, <2>3
<1>5. ASSUME tp \in TpsOf(w.disk[t])
      PROVE  EndIn(w.disk[s], tp) <= StartIn(w.disk[t], tp)
  <2>1. GroupFacts(w.disk[t], tp)
    BY <1>1, <1>5, GroupRange
  <2>2. PICK j \in 1 .. Len(w.disk[t]) : w.disk[t][j].tp = tp /\ w.disk[t][j].off = StartIn(w.disk[t], tp)
    BY <2>1 DEF GroupFacts
  <2> QED
    BY <2>2, <1>4
<1> QED
  BY <1>4, <1>5

\* new has the range of the group of tp in seg.
RangeAdded(new, live, seg, tp) ==
    /\ \A q \in Partitions \ {tp} : new[q] = live[q]
    /\ Stored(new[tp], live[tp], StartIn(seg, tp), ObjectRange(EndIn(seg, tp), KeyIn(seg, tp), Len(GroupIn(seg, tp))))

\* Every range of live is in new.
RangesKept(new, live) ==
    \A q \in Partitions : DOMAIN live[q] \subseteq DOMAIN new[q] /\ \A a \in DOMAIN live[q] : new[q][a] = live[q][a]

\* Registering a range changes no other.
LEMMA RegisterKeeps ==
    ASSUME NEW w, WalOK(w), NEW live \in [Partitions -> Colds], NEW objs, Archive(w, live, objs),
           NEW s \in DOMAIN w.disk, s < w.active, NEW tp \in TpsOf(w.disk[s]),
           NEW new, RangeAdded(new, live, w.disk[s], tp)
    PROVE  RangesKept(new, live)
<1> SUFFICES ASSUME NEW q \in Partitions
             PROVE  DOMAIN live[q] \subseteq DOMAIN new[q] /\ \A a \in DOMAIN live[q] : new[q][a] = live[q][a]
  BY DEF RangesKept
<1>1. CASE q # tp
  BY <1>1 DEF RangeAdded
<1>2. CASE q = tp
  <2>1. Stored(new[tp], live[tp], StartIn(w.disk[s], tp), ObjectRange(EndIn(w.disk[s], tp), KeyIn(w.disk[s], tp), Len(GroupIn(w.disk[s], tp))))
    BY DEF RangeAdded
  <2>2. ASSUME NEW a \in DOMAIN live[tp] PROVE new[tp][a] = live[tp][a]
    <3>1. CASE a = StartIn(w.disk[s], tp)
      BY <2>1, <3>1, GroupsOwnRange DEF Stored
    <3>2. CASE a # StartIn(w.disk[s], tp)
      BY <2>1, <3>2 DEF Stored
    <3> QED
      BY <3>1, <3>2
  <2> QED
    BY <1>2, <2>1, <2>2 DEF Stored
<1> QED
  BY <1>1, <1>2

\* Registering a group's range keeps the archive in order.
LEMMA ArchiveRegistered ==
    ASSUME NEW w, WalOK(w), NEW live \in [Partitions -> Colds], NEW objs, Archive(w, live, objs),
           NEW s \in DOMAIN w.disk, s < w.active, NEW tp \in TpsOf(w.disk[s]),
           KeyIn(w.disk[s], tp) \in DOMAIN objs, objs[KeyIn(w.disk[s], tp)] = GroupIn(w.disk[s], tp),
           NEW new \in [Partitions -> Colds], RangeAdded(new, live, w.disk[s], tp)
    PROVE  Archive(w, new, objs)
<1> DEFINE seg == w.disk[s]
           lo == StartIn(seg, tp)
           hi == EndIn(seg, tp)
<1>1. seg \in Seq(Record) /\ OrderedSeq(seg) /\ w.active \in Nat /\ DOMAIN w.disk \subseteq Nat
  BY WalFields, SegmentOrdered DEF Archive
<1>2. GroupFacts(seg, tp) /\ tp \in Partitions
  BY <1>1, GroupRange
<1>3. lo \in Nat /\ hi \in Nat /\ lo < hi
  BY <1>2 DEF GroupFacts
<1>4. \A q \in Partitions : DOMAIN live[q] \subseteq DOMAIN new[q] /\ \A a \in DOMAIN live[q] : new[q][a] = live[q][a]
  <2>1. RangesKept(new, live)
    BY RegisterKeeps
  <2> QED
    BY <2>1 DEF RangesKept
<1>5. /\ lo \in DOMAIN new[tp] /\ new[tp][lo].end = hi /\ new[tp][lo].key = KeyIn(seg, tp)
      /\ new[tp][lo].size = Len(GroupIn(seg, tp))
      /\ DOMAIN new[tp] = DOMAIN live[tp] \cup {lo}
  BY DEF RangeAdded, Stored, ObjectRange
<1>6. ASSUME NEW q \in Partitions, NEW a \in DOMAIN new[q], ~ (q = tp /\ a = lo)
      PROVE  a \in DOMAIN live[q] /\ new[q][a] = live[q][a]
  <2>1. CASE q = tp
    BY <1>4, <1>5, <1>6, <2>1
  <2>2. CASE q # tp
    BY <2>2 DEF RangeAdded
  <2> QED
    BY <2>1, <2>2
<1>7. ASSUME NEW a \in DOMAIN live[tp], a # lo
      PROVE  a \in Nat /\ live[tp][a].end \in Nat /\ a < live[tp][a].end /\ (live[tp][a].end <= lo \/ hi <= a)
  <2>1. Aligned(seg, tp, a, live[tp], objs) /\ RangeOK(tp, a, live[tp], objs)
    BY <1>2 DEF Archive, SealedAligned, RangesOK
  <2>2. a \in Nat /\ live[tp][a].end \in Nat
    BY <1>2, RangeNaturals
  <2> QED
    BY <2>1, <2>2, <1>7 DEF Aligned, RangeOK
<1> HIDE DEF seg, lo, hi
<1>8. RangesOK(new, objs)
  <2> SUFFICES ASSUME NEW q \in Partitions, NEW a \in DOMAIN new[q] PROVE RangeOK(q, a, new[q], objs)
    BY DEF RangesOK
  <2>1. CASE q = tp /\ a = lo
    <3>1. new[tp][lo].key = ObjectKey(tp, lo, hi)
      BY <1>5 DEF KeyIn, lo, hi
    <3>2. new[tp][lo].key \in DOMAIN objs /\ objs[new[tp][lo].key] = GroupIn(seg, tp)
      BY <1>5 DEF seg
    <3>3. \A i, j \in 1 .. Len(GroupIn(seg, tp)) : GroupIn(seg, tp)[i].off = GroupIn(seg, tp)[j].off => i = j
      BY <1>2 DEF GroupFacts
    <3>4. ASSUME NEW b \in DOMAIN new[tp], lo < b PROVE hi <= b
      BY <1>3, <1>5, <1>7, <3>4
    <3> QED
      BY <1>3, <1>5, <2>1, <3>1, <3>2, <3>3, <3>4 DEF RangeOK
  <2>2. CASE ~ (q = tp /\ a = lo)
    <3>1. a \in DOMAIN live[q] /\ new[q][a] = live[q][a] /\ RangeOK(q, a, live[q], objs)
      BY <1>6, <2>2 DEF Archive, RangesOK
    <3>2. ASSUME NEW b \in DOMAIN new[q], a < b PROVE live[q][a].end <= b
      <4>1. CASE q = tp /\ b = lo
        BY <1>3, <1>7, <2>2, <3>1, <3>2, <4>1
      <4>2. CASE ~ (q = tp /\ b = lo)
        BY <1>6, <3>1, <3>2, <4>2 DEF RangeOK
      <4> QED
        BY <4>1, <4>2
    <3> QED
      BY <3>1, <3>2 DEF RangeOK
  <2> QED
    BY <2>1, <2>2
<1>9. SealedAligned(w, new, objs)
  <2> SUFFICES ASSUME NEW t \in DOMAIN w.disk, t < w.active, NEW q \in TpsOf(w.disk[t]), NEW a \in DOMAIN new[q]
               PROVE  Aligned(w.disk[t], q, a, new[q], objs)
    BY DEF SealedAligned
  <2>1. q \in Partitions
    <3>1. w.disk[t] \in Seq(Record) /\ OrderedSeq(w.disk[t])
      BY WalFields, SegmentOrdered DEF Archive
    <3> QED
      BY <3>1, GroupRange
  <2>2. CASE ~ (q = tp /\ a = lo)
    <3>1. a \in DOMAIN live[q] /\ new[q][a] = live[q][a]
      BY <1>6, <2>1, <2>2
    <3>2. Aligned(w.disk[t], q, a, live[q], objs)
      BY <3>1 DEF Archive, SealedAligned
    <3> QED
      BY <3>1, <3>2 DEF Aligned
  <2>3. CASE q = tp /\ a = lo
    <3>1. s \in Nat /\ t \in Nat
      BY <1>1
    <3>2. CASE t = s
      BY <1>5, <2>3, <3>2 DEF Aligned, seg, lo, hi
    <3>3. CASE t < s
      <4>1. EndIn(w.disk[t], tp) <= StartIn(w.disk[s], tp)
        BY <2>3, <3>3, GroupsApart DEF Archive
      <4> QED
        BY <2>3, <4>1 DEF Aligned, seg, lo
    <3>4. CASE s < t
      <4>1. EndIn(w.disk[s], tp) <= StartIn(w.disk[t], tp)
        BY <2>3, <3>4, GroupsApart DEF Archive
      <4> QED
        BY <1>5, <2>3, <4>1 DEF Aligned, seg, hi
    <3> QED
      BY <3>1, <3>2, <3>3, <3>4
  <2> QED
    BY <2>2, <2>3
<1>10. ActiveAbove(w, new)
  <2> SUFFICES ASSUME NEW i \in 1 .. Len(w.disk[w.active]), NEW a \in DOMAIN new[w.disk[w.active][i].tp]
               PROVE  new[w.disk[w.active][i].tp][a].end <= w.disk[w.active][i].off
    BY DEF ActiveAbove
  <2> DEFINE q == w.disk[w.active][i].tp
  <2>1. q \in Partitions
    <3>1. w.disk[w.active][i] \in Record
      BY WalFields
    <3> QED
      BY <3>1, RecordFields
  <2>2. CASE ~ (q = tp /\ a = lo)
    <3>1. a \in DOMAIN live[q] /\ new[q][a] = live[q][a]
      BY <1>6, <2>1, <2>2
    <3> QED
      BY <3>1 DEF Archive, ActiveAbove
  <2>3. CASE q = tp /\ a = lo
    <3>1. w.active \in DOMAIN w.disk
      BY DEF WalOK
    <3>2. EndIn(w.disk[s], tp) <= w.disk[w.active][i].off
      BY <2>3, <3>1, GroupsApart DEF Archive
    <3> QED
      BY <1>5, <2>3, <3>2 DEF seg, hi
  <2> QED
    BY <2>2, <2>3
<1> QED
  BY <1>8, <1>9, <1>10 DEF Archive

-------------------------------------------------------------------------------
(* What changes leave safe.                                                *)

\* Every record that is safe in the first state is safe in the second.
SafeStays(disk, idx, objs, disk2, idx2, objs2) ==
    \A r \in Record : Safe(r, disk, idx, objs) => Safe(r, disk2, idx2, objs2)
\* Every bound on offsets stays one.
BelowStays(disk, live, disk2, live2) ==
    \A tp \in Partitions, b \in Nat : Below(tp, b, disk, live) => Below(tp, b, disk2, live2)
\* The ranges that memory knows, and their objects, stay.
ColdStays(idx, objs, idx2, objs2) ==
    \A tp \in Partitions : \A a \in DOMAIN idx.parts[tp].cold :
        /\ a \in DOMAIN idx2.parts[tp].cold /\ idx2.parts[tp].cold[a] = idx.parts[tp].cold[a]
        /\ idx.parts[tp].cold[a].key \in DOMAIN objs =>
              idx.parts[tp].cold[a].key \in DOMAIN objs2 /\ objs2[idx.parts[tp].cold[a].key] = objs[idx.parts[tp].cold[a].key]

\* A record in an object stays safe.
LEMMA SafeMoved ==
    ASSUME NEW disk, NEW idx, NEW objs, NEW disk2, NEW idx2, NEW objs2, ColdStays(idx, objs, idx2, objs2),
           \A r \in Record : Held(disk, r) => Safe(r, disk2, idx2, objs2)
    PROVE  SafeStays(disk, idx, objs, disk2, idx2, objs2)
<1> SUFFICES ASSUME NEW r \in Record, SafeCold(r, idx, objs) PROVE SafeCold(r, idx2, objs2)
  BY DEF SafeStays, Safe
<1>1. r.tp \in Partitions
  BY RecordFields
<1>2. PICK a \in DOMAIN idx.parts[r.tp].cold :
         /\ Covers(idx.parts[r.tp].cold, a, r.off)
         /\ idx.parts[r.tp].cold[a].key \in DOMAIN objs
         /\ Has(objs[idx.parts[r.tp].cold[a].key], r)
  BY DEF SafeCold
<1>3. /\ a \in DOMAIN idx2.parts[r.tp].cold /\ idx2.parts[r.tp].cold[a] = idx.parts[r.tp].cold[a]
      /\ idx.parts[r.tp].cold[a].key \in DOMAIN objs2
      /\ objs2[idx.parts[r.tp].cold[a].key] = objs[idx.parts[r.tp].cold[a].key]
  BY <1>1, <1>2 DEF ColdStays
<1> QED
  BY <1>2, <1>3 DEF SafeCold, Covers

\* Memory and objects that stay.
LEMMA ColdSame ==
    ASSUME NEW idx, NEW objs
    PROVE  ColdStays(idx, objs, idx, objs)
BY DEF ColdStays

\* The objects of the ranges stay.
LEMMA ColdObjects ==
    ASSUME NEW idx, NEW objs, NEW new, NEW live, ObjectsKept(new, objs, live), ColdKnown(idx, live)
    PROVE  ColdStays(idx, objs, idx, new)
BY DEF ColdStays, ObjectsKept, ColdKnown

\* The log grows or gets new segments.
LEMMA HeldStays ==
    ASSUME NEW v, NEW w, NEW rec, OneMore(v, w, rec) \/ SameRecords(v, w), NEW r, Held(w.disk, r)
    PROVE  Held(v.disk, r)
<1>1. PICK s \in DOMAIN w.disk : \E i \in 1 .. Len(w.disk[s]) : w.disk[s][i] = r
  BY DEF Held, Has
<1>2. PICK i \in 1 .. Len(w.disk[s]) : w.disk[s][i] = r
  BY <1>1
<1>3. CASE OneMore(v, w, rec)
  <2>1. s \in DOMAIN v.disk /\ i \in 1 .. Len(v.disk[s]) /\ v.disk[s][i] = r
    BY <1>2, <1>3 DEF OneMore
  <2> QED
    BY <2>1 DEF Held, Has
<1>4. CASE SameRecords(v, w)
  <2>1. s \in DOMAIN v.disk /\ v.disk[s] = w.disk[s]
    BY <1>4 DEF SameRecords
  <2> QED
    BY <1>2, <2>1 DEF Held, Has
<1> QED
  BY <1>3, <1>4

\* The record appended is in the log.
LEMMA HeldAppended ==
    ASSUME NEW v, NEW w, NEW rec, OneMore(v, w, rec)
    PROVE  Held(v.disk, rec)
<1>1. w.active \in DOMAIN v.disk /\ Len(w.disk[w.active]) \in Nat
      /\ Len(w.disk[w.active]) + 1 \in 1 .. Len(v.disk[w.active])
      /\ v.disk[w.active][Len(w.disk[w.active]) + 1] = rec
  BY DEF OneMore
<1> QED
  BY <1>1 DEF Held, Has

\* What is safe in a log that grew.
LEMMA SafeGrown ==
    ASSUME NEW v, NEW w, NEW rec, OneMore(v, w, rec) \/ SameRecords(v, w), NEW idx, NEW objs
    PROVE  SafeStays(w.disk, idx, objs, v.disk, idx, objs)
<1>1. \A r \in Record : Held(w.disk, r) => Safe(r, v.disk, idx, objs)
  BY HeldStays DEF Safe
<1> QED
  BY <1>1, ColdSame, SafeMoved

\* A group that is tiered is safe.
LEMMA TieredSafe ==
    ASSUME NEW w, WalOK(w), NEW live \in [Partitions -> Colds], NEW objs, Archive(w, live, objs),
           NEW idx, ColdKnown(idx, live), NEW s \in DOMAIN w.disk, s < w.active, NEW r \in Record, Has(w.disk[s], r),
           Tiered(w.disk[s], r.tp, idx)
    PROVE  /\ SafeCold(r, idx, objs) /\ r.tp \in TpsOf(w.disk[s]) /\ r.off \notin DOMAIN idx.parts[r.tp].hot
           /\ \E a \in DOMAIN idx.parts[r.tp].cold : Covers(idx.parts[r.tp].cold, a, r.off)
<1>1. PICK i \in 1 .. Len(w.disk[s]) : w.disk[s][i] = r
  BY DEF Has
<1>2. w.disk[s] \in Seq(Record) /\ OrderedSeq(w.disk[s])
  BY WalFields, SegmentOrdered DEF Archive
<1>3. r.tp \in TpsOf(w.disk[s])
  BY <1>1, <1>2 DEF TpsOf, ToSet
<1>4. GroupFacts(w.disk[s], r.tp) /\ r.tp \in Partitions
  BY <1>2, <1>3, GroupRange
<1> DEFINE a == StartIn(w.disk[s], r.tp)
<1>5. a <= r.off /\ r.off < EndIn(w.disk[s], r.tp) /\ Has(GroupIn(w.disk[s], r.tp), r)
  BY <1>1, <1>4 DEF GroupFacts
<1>6. a \in DOMAIN idx.parts[r.tp].cold /\ idx.parts[r.tp].cold[a].end = EndIn(w.disk[s], r.tp)
      /\ r.off \notin DOMAIN idx.parts[r.tp].hot
  BY <1>5 DEF Tiered
<1>7. a \in DOMAIN live[r.tp] /\ idx.parts[r.tp].cold[a] = live[r.tp][a]
  BY <1>4, <1>6 DEF ColdKnown
<1>8. live[r.tp][a].key = KeyIn(w.disk[s], r.tp) /\ objs[KeyIn(w.disk[s], r.tp)] = GroupIn(w.disk[s], r.tp)
  BY <1>3, <1>7, GroupsOwnRange
<1>9. live[r.tp][a].key \in DOMAIN objs
  BY <1>4, <1>7 DEF Archive, RangesOK, RangeOK
<1> QED
  BY <1>3, <1>5, <1>6, <1>7, <1>8, <1>9 DEF SafeCold, Covers

\* The bounds of a log that got new segments or lost one.
LEMMA BelowFewer ==
    ASSUME NEW v, NEW w, SameRecords(v, w) \/ (\E q : Deleted(v, w, q)), NEW live
    PROVE  BelowStays(w.disk, live, v.disk, live)
<1>1. ASSUME NEW s \in DOMAIN v.disk, NEW i \in 1 .. Len(v.disk[s])
      PROVE  s \in DOMAIN w.disk /\ v.disk[s] = w.disk[s]
  <2>1. CASE SameRecords(v, w)
    <3>1. v.disk[s] # <<>>
      BY <1>1
    <3> QED
      BY <2>1, <3>1 DEF SameRecords
  <2>2. CASE \E q : Deleted(v, w, q)
    BY <2>2 DEF Deleted
  <2> QED
    BY <2>1, <2>2
<1> QED
  BY <1>1 DEF BelowStays, Below

\* The bounds of a manifest with the range of a group.
LEMMA BelowRegistered ==
    ASSUME NEW w, WalOK(w), NEW live, InOrder(w.disk), NEW s \in DOMAIN w.disk, NEW tp \in TpsOf(w.disk[s]),
           NEW new, RangeAdded(new, live, w.disk[s], tp)
    PROVE  BelowStays(w.disk, live, w.disk, new)
<1> SUFFICES ASSUME NEW q \in Partitions, NEW b \in Nat, Below(q, b, w.disk, live), NEW a \in DOMAIN new[q]
             PROVE  new[q][a].end <= b
  BY DEF BelowStays, Below
<1>1. w.disk[s] \in Seq(Record) /\ OrderedSeq(w.disk[s])
  BY WalFields, SegmentOrdered
<1>2. GroupFacts(w.disk[s], tp)
  BY <1>1, GroupRange
<1>3. CASE q = tp /\ a = StartIn(w.disk[s], tp)
  <2>1. new[q][a].end = EndIn(w.disk[s], tp)
    BY <1>3 DEF RangeAdded, Stored, ObjectRange
  <2>2. PICK i \in 1 .. Len(w.disk[s]) : w.disk[s][i].tp = tp /\ w.disk[s][i].off + 1 = EndIn(w.disk[s], tp)
    BY <1>2 DEF GroupFacts
  <2>3. w.disk[s][i].off < b
    BY <1>3, <2>2 DEF Below
  <2>4. w.disk[s][i].off \in Nat
    <3>1. w.disk[s][i] \in Record
      BY <1>1
    <3> QED
      BY <3>1, RecordFields
  <2> QED
    BY <2>1, <2>2, <2>3, <2>4
<1>4. CASE ~ (q = tp /\ a = StartIn(w.disk[s], tp))
  <2>1. a \in DOMAIN live[q] /\ new[q][a] = live[q][a]
    BY <1>4 DEF RangeAdded, Stored
  <2> QED
    BY <2>1 DEF Below
<1> QED
  BY <1>3, <1>4

\* A difference of naturals.
LEMMA Difference ==
    ASSUME NEW n \in Nat, NEW m \in Nat, m <= n
    PROVE  n - m \in Nat /\ n - m <= n
OBVIOUS

\* The records already appended are counted.
LEMMA WrittenFields ==
    ASSUME NEW q, NEW n, n = Len(q.recs), n \in Nat, NEW m, m = Len(q.todo), m \in Nat, m <= n, q.base \in Nat
    PROVE  Written(q) = n - m /\ Written(q) \in Nat /\ Written(q) <= Len(q.recs) /\ q.base + Written(q) \in Nat
<1>1. Written(q) = n - m
  BY DEF Written
<1>2. n - m \in Nat /\ n - m <= n
  BY Difference
<1> DEFINE k == n - m
           b == q.base
<1>3. k \in Nat /\ b \in Nat
  BY <1>2
<1> HIDE DEF k, b
<1>4. b + k \in Nat
  BY <1>3
<1> QED
  BY <1>1, <1>2, <1>4 DEF k, b

\* Requests that do not move.
LEMMA ClientsStay ==
    ASSUME NEW prods, \A p \in Producers : ProducerOK(prods[p]), NEW mark \in [Partitions -> Ends],
           NEW disk, NEW live, NEW idx, NEW objs, NEW disk2, NEW live2, NEW idx2, NEW objs2,
           Clients(prods, mark, disk, live, idx, objs), SafeStays(disk, idx, objs, disk2, idx2, objs2),
           BelowStays(disk, live, disk2, live2)
    PROVE  Clients(prods, mark, disk2, live2, idx2, objs2)
<1>1. ASSUME NEW p \in Producers, Busy(prods[p])
      PROVE  RequestInv(p, prods[p], mark, disk2, live2, idx2, objs2)
  <2> DEFINE q == prods[p]
  <2>1. RequestInv(p, q, mark, disk, live, idx, objs)
    BY <1>1 DEF Clients
  <2>2. RequestOK(q)
    BY <1>1 DEF ProducerOK, Busy, IdleProducer
  <2>3. q.tp \in Partitions /\ q.base \in Nat /\ q.recs \in Seq(Record) /\ q.todo \in Seq(Record)
    BY <2>2, StoreConstants DEF RequestOK, Requests, Ends
  <2>4. Len(q.recs) \in Nat /\ Len(q.todo) \in Nat /\ Len(q.todo) <= Len(q.recs)
    BY <2>1, <2>3 DEF RequestInv
  <2>5. Written(q) \in Nat /\ Written(q) <= Len(q.recs) /\ q.base + Written(q) \in Nat
    BY <2>3, <2>4, WrittenFields
  <2>6. Below(q.tp, q.base + Written(q), disk2, live2)
    BY <2>1, <2>3, <2>5 DEF RequestInv, BelowStays
  <2>7. \A i \in 1 .. Written(q) : Safe(q.recs[i], disk2, idx2, objs2)
    <3> SUFFICES ASSUME NEW i \in 1 .. Written(q) PROVE Safe(q.recs[i], disk2, idx2, objs2)
      OBVIOUS
    <3>1. q.recs[i] \in Record
      BY <2>3, <2>4, <2>5
    <3> QED
      BY <2>1, <3>1 DEF RequestInv, SafeStays
  <2> QED
    BY <2>1, <2>6, <2>7 DEF RequestInv
<1>2. ASSUME NEW tp \in Partitions, Free(tp, prods)
      PROVE  Below(tp, mark[tp], disk2, live2)
  <2>1. mark[tp] \in Nat
    BY StoreConstants DEF Ends
  <2> QED
    BY <1>2, <2>1 DEF Clients, BelowStays
<1> QED
  BY <1>1, <1>2 DEF Clients

\* What was acknowledged stays safe.
LEMMA AllStay ==
    ASSUME NEW S, NEW disk, NEW idx, NEW objs, NEW disk2, NEW idx2, NEW objs2,
           AllSafe(S, disk, idx, objs), SafeStays(disk, idx, objs, disk2, idx2, objs2)
    PROVE  AllSafe(S, disk2, idx2, objs2)
BY DEF AllSafe, SafeStays

\* What stays the same.
LEMMA BelowSame ==
    ASSUME NEW disk, NEW live
    PROVE  BelowStays(disk, live, disk, live)
BY DEF BelowStays

-------------------------------------------------------------------------------
(* The steps of the tiering task.                                          *)

\* The group in work.
WorkGroup ==
    /\ tier.queue[1] \in DOMAIN wal.disk /\ tier.queue[1] < wal.active
    /\ tier.tp \in TpsOf(wal.disk[tier.queue[1]]) /\ tier.tp \in Partitions
    /\ GroupFacts(wal.disk[tier.queue[1]], tier.tp)
    /\ Group(tier.tp) = GroupIn(wal.disk[tier.queue[1]], tier.tp)
    /\ GroupStart(tier.tp) = StartIn(wal.disk[tier.queue[1]], tier.tp)
    /\ GroupEnd(tier.tp) = EndIn(wal.disk[tier.queue[1]], tier.tp)
    /\ GroupKey(tier.tp) = KeyIn(wal.disk[tier.queue[1]], tier.tp)

\* The task works on a group of a sealed segment.
LEMMA AtWorkGroup ==
    ASSUME StoreTyped, StoreInv, tier.pc \in Working
    PROVE  WorkGroup /\ WalOK(wal) /\ manifest.live \in [Partitions -> Colds]
<1>1. tier.pc \notin {"idle", "dead"}
  BY DEF Working
<1>2. /\ tier.queue[1] < wal.active /\ tier.queue[1] \in DOMAIN wal.disk
      /\ Segment = wal.disk[tier.queue[1]] /\ Segment \in Seq(Record) /\ WalOK(wal)
  BY <1>1, TierQueue
<1>3. tier.tp \in Partitions /\ tier.tp \in TpsOf(Segment)
  BY WorkFields
<1>4. OrderedSeq(Segment)
  BY <1>2, SegmentOrdered DEF StoreInv, Archive
<1>5. GroupFacts(Segment, tier.tp)
  BY <1>2, <1>3, <1>4, GroupRange
<1>6. manifest.live \in [Partitions -> Colds]
  BY DEF StoreTyped, Manifests
<1> QED
  BY <1>1, <1>2, <1>3, <1>5, <1>6, GroupInWork DEF WorkGroup

\* A step of the task that changes nothing else.
LEMMA InvTier ==
    ASSUME StoreTyped, StoreInv, UNCHANGED <<index, wal, manifest, objects, hw, producer, compact, acked, faults>>,
           Tierer(tier', wal.disk, index, manifest.live, objects)
    PROVE  StoreInv'
BY DEF StoreInv, Quiet

\* A task that has nothing in hand.
LEMMA TiererIdle ==
    ASSUME NEW t, t.pc \in {"idle", "dead", "segment"}, NEW disk, NEW idx, NEW live, NEW objs
    PROVE  Tierer(t, disk, idx, live, objs)
BY DEF Tierer, TierDone, TierStored, Working

\* A task that goes to another group.
LEMMA TiererGroup ==
    ASSUME NEW t, t.pc = "group", NEW disk, NEW idx, NEW live, NEW objs,
           t.fenced \/ \A tp \in TpsOf(disk[t.queue[1]]) \ t.todo : Tiered(disk[t.queue[1]], tp, idx)
    PROVE  Tierer(t, disk, idx, live, objs)
BY DEF Tierer, TierDone, TierStored, Working

\* TierPreCheck.
LEMMA InvPreCheck ==
    ASSUME StoreTyped, StoreInv, NEW tp \in Partitions, TierPreCheck(tp)
    PROVE  StoreInv'
<1>1. tier.pc = "group" /\ AtGroup(tier, wal)
  BY TierAt DEF TierPreCheck
<1>2. Tierer(tier', wal.disk, index, manifest.live, objects)
  <2>1. CASE leads[tp]
    <3>1. /\ tier'.pc = "upload" /\ tier'.queue = tier.queue /\ tier'.todo = tier.todo
          /\ tier'.fenced = tier.fenced
      BY <2>1 DEF TierPreCheck
    <3>2. TierDone(tier, wal.disk, index)
      BY DEF StoreInv, Tierer
    <3>3. TierDone(tier', wal.disk, index)
      BY <1>1, <3>1, <3>2 DEF TierDone
    <3> QED
      BY <3>1, <3>3 DEF Tierer, TierStored
  <2>2. CASE ~ leads[tp]
    <3>1. tier' = GroupDone(tp, TRUE)
      BY <2>2 DEF TierPreCheck
    <3>2. tier'.pc = "group" /\ tier'.fenced
      BY <3>1 DEF GroupDone
    <3> QED
      BY <3>2, TiererGroup
  <2> QED
    BY <2>1, <2>2
<1> QED
  BY <1>2, InvTier DEF TierPreCheck, storage, history

\* The fields of a task whose pc moved.
LEMMA TierMoved ==
    ASSUME AtWork(tier, wal), NEW pc, NEW t, t = [tier EXCEPT !.pc = pc]
    PROVE  t.pc = pc /\ t.queue = tier.queue /\ t.todo = tier.todo /\ t.fenced = tier.fenced /\ t.tp = tier.tp
BY DEF AtWork

\* TierPostCheck.
LEMMA InvPostCheck ==
    ASSUME StoreTyped, StoreInv, TierPostCheck
    PROVE  StoreInv'
<1>1. tier.pc = "postcheck" /\ AtWork(tier, wal)
  BY TierAt DEF TierPostCheck, Working
<1>2. Tierer(tier, wal.disk, index, manifest.live, objects)
  BY DEF StoreInv
<1>3. Tierer(tier', wal.disk, index, manifest.live, objects)
  <2>1. CASE leads[tier.tp]
    <3>1. tier' = [tier EXCEPT !.pc = "register"]
      BY <2>1 DEF TierPostCheck
    <3>2. /\ tier'.pc = "register" /\ tier'.queue = tier.queue /\ tier'.todo = tier.todo
          /\ tier'.fenced = tier.fenced /\ tier'.tp = tier.tp
      BY <1>1, <3>1, TierMoved
    <3> QED
      BY <1>1, <1>2, <3>2 DEF Tierer, TierDone, TierStored, Working
  <2>2. CASE ~ leads[tier.tp]
    <3>1. tier' = GroupDone(tier.tp, TRUE)
      BY <2>2 DEF TierPostCheck
    <3>2. tier'.pc = "group" /\ tier'.fenced
      BY <3>1 DEF GroupDone
    <3> QED
      BY <3>2, TiererGroup
  <2> QED
    BY <2>1, <2>2
<1> QED
  BY <1>3, InvTier DEF TierPostCheck, storage, history

\* The store with the group's object.
LEMMA InvUploaded ==
    ASSUME StoreTyped, StoreInv, tier.pc \in Working, objects' = Put(objects, GroupKey(tier.tp), Group(tier.tp))
    PROVE  /\ ObjectsKept(objects', objects, manifest.live) /\ Archive(wal, manifest.live, objects')
           /\ GroupKey(tier.tp) \in DOMAIN objects' /\ objects'[GroupKey(tier.tp)] = Group(tier.tp)
           /\ SafeStays(wal.disk, index, objects, wal.disk, index, objects')
<1>1. WorkGroup /\ WalOK(wal) /\ manifest.live \in [Partitions -> Colds]
  BY AtWorkGroup
<1>2. Stored(objects', objects, GroupKey(tier.tp), Group(tier.tp))
  BY UploadedTyped
<1>3. Archive(wal, manifest.live, objects)
  BY DEF StoreInv
<1>4. ObjectsKept(objects', objects, manifest.live)
  BY <1>1, <1>2, <1>3, UploadKeeps DEF WorkGroup
<1>5. Archive(wal, manifest.live, objects')
  BY <1>1, <1>3, <1>4, ArchiveObjects
<1>6. ColdStays(index, objects, index, objects')
  BY <1>4, ColdObjects DEF StoreInv, Memory
<1>7. SafeStays(wal.disk, index, objects, wal.disk, index, objects')
  <2>1. \A r \in Record : Held(wal.disk, r) => Safe(r, wal.disk, index, objects')
    BY DEF Safe
  <2> QED
    BY <1>6, <2>1, SafeMoved
<1> QED
  BY <1>2, <1>4, <1>5, <1>7 DEF Stored

\* A step that changes objects and the task.
LEMMA InvObjects ==
    ASSUME StoreTyped, StoreInv, UNCHANGED <<index, wal, manifest, hw, producer, compact, acked>>,
           Quiet', Archive(wal, manifest.live, objects'), SafeStays(wal.disk, index, objects, wal.disk, index, objects'),
           Tierer(tier', wal.disk, index, manifest.live, objects')
    PROVE  StoreInv'
<1>1. Clients(producer, hw, wal.disk, manifest.live, index, objects')
  BY BelowSame, ClientsStay DEF StoreInv, StoreTyped
<1>2. AllSafe(acked, wal.disk, index, objects')
  BY AllStay DEF StoreInv
<1>3. Memory(index, wal.disk, manifest.live, producer)
  BY DEF StoreInv
<1> QED
  BY <1>1, <1>2, <1>3 DEF StoreInv

\* TierUpload.
LEMMA InvUpload ==
    ASSUME StoreTyped, StoreInv, TierUpload
    PROVE  StoreInv'
<1>1. tier.pc = "upload" /\ tier.pc \in Working /\ AtWork(tier, wal)
  BY TierAt DEF TierUpload, Working
<1>2. objects' = Put(objects, GroupKey(tier.tp), Group(tier.tp)) /\ tier' = [tier EXCEPT !.pc = "postcheck"]
  BY DEF TierUpload
<1>3. /\ Archive(wal, manifest.live, objects')
      /\ GroupKey(tier.tp) \in DOMAIN objects' /\ objects'[GroupKey(tier.tp)] = Group(tier.tp)
      /\ SafeStays(wal.disk, index, objects, wal.disk, index, objects')
  BY <1>1, <1>2, InvUploaded
<1>4. /\ tier'.pc = "postcheck" /\ tier'.queue = tier.queue /\ tier'.todo = tier.todo
      /\ tier'.fenced = tier.fenced /\ tier'.tp = tier.tp
  BY <1>1, <1>2, TierMoved
<1>5. Tierer(tier', wal.disk, index, manifest.live, objects')
  <2>1. TierDone(tier, wal.disk, index)
    BY DEF StoreInv, Tierer
  <2>2. TierDone(tier', wal.disk, index)
    BY <1>1, <1>4, <2>1 DEF TierDone, Working
  <2>3. WorkGroup
    BY <1>1, AtWorkGroup
  <2>4. TierStored(tier', wal.disk, manifest.live, objects')
    BY <1>3, <1>4, <2>3 DEF TierStored, WorkGroup
  <2> QED
    BY <2>2, <2>4 DEF Tierer
<1>6. UNCHANGED <<index, wal, manifest, hw, producer, compact, acked, faults>>
  BY DEF TierUpload, history
<1>7. Quiet'
  BY <1>6 DEF StoreInv, Quiet
<1> QED
  BY <1>3, <1>5, <1>6, <1>7, InvObjects

\* The manifest with the group's range.
LEMMA InvRegistered ==
    ASSUME StoreTyped, StoreInv, tier.pc = "register", manifest' = Registered
    PROVE  /\ manifest'.torn = FALSE /\ manifest'.orphans = {}
           /\ RangeAdded(manifest'.live, manifest.live, wal.disk[tier.queue[1]], tier.tp)
           /\ Archive(wal, manifest'.live, objects) /\ ColdKnown(index, manifest'.live)
           /\ BelowStays(wal.disk, manifest.live, wal.disk, manifest'.live)
<1> DEFINE seg == wal.disk[tier.queue[1]]
           tp == tier.tp
           a == StartIn(seg, tp)
           rng == ObjectRange(EndIn(seg, tp), KeyIn(seg, tp), Len(GroupIn(seg, tp)))
           c == Put(manifest.live[tp], a, rng)
<1>1. WorkGroup /\ WalOK(wal) /\ manifest.live \in [Partitions -> Colds]
  BY AtWorkGroup DEF Working
<1>2. tp \in Partitions /\ GroupFacts(seg, tp) /\ tp \in TpsOf(seg)
  BY <1>1 DEF WorkGroup
<1>3. manifest.torn = FALSE /\ manifest.orphans = {} /\ Archive(wal, manifest.live, objects)
      /\ ColdKnown(index, manifest.live) /\ manifest \in Manifests
  BY DEF StoreInv, Quiet, Memory, StoreTyped
<1>4. manifest' = [manifest EXCEPT !.live = [manifest.live EXCEPT ![tp] = c]]
  BY <1>1, <1>3 DEF Registered, register, FoldRegister, WorkGroup
<1>5. Stored(c, manifest.live[tp], a, rng)
  <2>1. a \in Offsets /\ EndIn(seg, tp) \in Ends /\ KeyIn(seg, tp) \in Keys /\ GroupIn(seg, tp) \in Seq(Record)
    BY <1>2 DEF GroupFacts, GroupOf
  <2>2. Len(GroupIn(seg, tp)) \in Nat /\ manifest.live[tp] \in Colds /\ 0 \in Ends
    BY <1>1, <1>2, <2>1, StoreConstants DEF Ends
  <2> HIDE DEF seg, tp, a
  <2> QED
    BY <2>1, <2>2, ColdStored
<1> HIDE DEF c
<1>6. /\ manifest'.live = [manifest.live EXCEPT ![tp] = c] /\ manifest'.torn = manifest.torn
      /\ manifest'.orphans = manifest.orphans
  BY <1>3, <1>4 DEF Manifests
<1>7. manifest'.live[tp] = c /\ \A q \in Partitions \ {tp} : manifest'.live[q] = manifest.live[q]
  BY <1>1, <1>2, <1>6
<1>8. RangeAdded(manifest'.live, manifest.live, seg, tp)
  BY <1>5, <1>7 DEF RangeAdded
<1>9. manifest'.live \in [Partitions -> Colds]
  <2>1. manifest' \in Manifests
    BY RegisteredTyped DEF Working
  <2> QED
    BY <2>1 DEF Manifests
<1>10. tier.queue[1] \in DOMAIN wal.disk /\ tier.queue[1] < wal.active
  BY <1>1 DEF WorkGroup
<1>11. KeyIn(seg, tp) \in DOMAIN objects /\ objects[KeyIn(seg, tp)] = GroupIn(seg, tp)
  BY DEF StoreInv, Tierer, TierStored
<1>12. Archive(wal, manifest'.live, objects)
  BY <1>1, <1>2, <1>3, <1>8, <1>9, <1>10, <1>11, ArchiveRegistered
<1>13. RangesKept(manifest'.live, manifest.live)
  BY <1>1, <1>2, <1>3, <1>8, <1>10, RegisterKeeps
<1>14. ColdKnown(index, manifest'.live)
  BY <1>3, <1>13 DEF ColdKnown, RangesKept
<1>15. BelowStays(wal.disk, manifest.live, wal.disk, manifest'.live)
  BY <1>1, <1>2, <1>3, <1>8, <1>10, BelowRegistered DEF Archive
<1> QED
  BY <1>3, <1>6, <1>8, <1>12, <1>14, <1>15

\* A step that changes the manifest and the task.
LEMMA InvManifest ==
    ASSUME StoreTyped, StoreInv, UNCHANGED <<index, wal, objects, hw, producer, compact, acked>>,
           Quiet', Archive(wal, manifest'.live, objects), ColdKnown(index, manifest'.live),
           BelowStays(wal.disk, manifest.live, wal.disk, manifest'.live),
           Tierer(tier', wal.disk, index, manifest'.live, objects)
    PROVE  StoreInv'
<1>1. SafeStays(wal.disk, index, objects, wal.disk, index, objects)
  BY DEF SafeStays
<1>2. Clients(producer, hw, wal.disk, manifest'.live, index, objects)
  BY <1>1, ClientsStay DEF StoreInv, StoreTyped
<1>3. Memory(index, wal.disk, manifest'.live, producer)
  BY DEF StoreInv, Memory
<1> QED
  BY <1>2, <1>3 DEF StoreInv

\* TierRegister.
LEMMA InvRegister ==
    ASSUME StoreTyped, StoreInv, TierRegister
    PROVE  StoreInv'
<1>1. tier.pc = "register" /\ tier.pc \in Working /\ AtWork(tier, wal)
  BY TierAt DEF TierRegister, Working
<1>2. manifest' = Registered /\ tier' = [tier EXCEPT !.pc = "flip"]
  BY DEF TierRegister
<1>3. /\ manifest'.torn = FALSE /\ manifest'.orphans = {}
      /\ RangeAdded(manifest'.live, manifest.live, wal.disk[tier.queue[1]], tier.tp)
      /\ Archive(wal, manifest'.live, objects) /\ ColdKnown(index, manifest'.live)
      /\ BelowStays(wal.disk, manifest.live, wal.disk, manifest'.live)
  BY <1>1, <1>2, InvRegistered
<1>4. /\ tier'.pc = "flip" /\ tier'.queue = tier.queue /\ tier'.todo = tier.todo
      /\ tier'.fenced = tier.fenced /\ tier'.tp = tier.tp
  BY <1>1, <1>2, TierMoved
<1>5. Tierer(tier', wal.disk, index, manifest'.live, objects)
  <2>1. TierDone(tier, wal.disk, index) /\ TierStored(tier, wal.disk, manifest.live, objects)
    BY DEF StoreInv, Tierer
  <2>2. TierDone(tier', wal.disk, index)
    BY <1>1, <1>4, <2>1 DEF TierDone, Working
  <2>3. TierStored(tier', wal.disk, manifest'.live, objects)
    BY <1>1, <1>3, <1>4, <2>1 DEF TierStored, RangeAdded, Stored
  <2> QED
    BY <2>2, <2>3 DEF Tierer
<1>6. UNCHANGED <<index, wal, objects, hw, producer, compact, acked, faults>>
  BY DEF TierRegister, history
<1>7. Quiet'
  BY <1>3, <1>6 DEF StoreInv, Quiet
<1> QED
  BY <1>3, <1>5, <1>6, <1>7, InvManifest

\* The faults left after an error that is not one of the log or of a torn frame.
LEMMA QuietFault ==
    ASSUME Quiet, NEW kind, kind # "wal", kind # "tear", Fault(kind)
    PROVE  /\ "wal" \in DOMAIN faults' /\ "tear" \in DOMAIN faults'
           /\ faults'["wal"] = 0 /\ faults'["tear"] = 0
BY DEF Quiet, Fault

\* TierFail.
LEMMA InvFail ==
    ASSUME StoreTyped, StoreInv, TierFail
    PROVE  StoreInv'
<1>1. Fault("io") /\ UNCHANGED <<index, wal, hw, producer, compact, acked>> /\ tier' = IdleTier
  BY DEF TierFail, history
<1>2. Quiet
  BY DEF StoreInv
<1>3. /\ "wal" \in DOMAIN faults' /\ "tear" \in DOMAIN faults'
      /\ faults'["wal"] = 0 /\ faults'["tear"] = 0
  BY <1>1, <1>2, QuietFault
<1>4. tier'.pc = "idle"
  BY <1>1 DEF IdleTier
<1>5. \A live, objs : Tierer(tier', wal.disk, index, live, objs)
  BY <1>4, TiererIdle
<1>6. CASE manifest' # manifest
  <2>1. tier.pc = "register" /\ manifest' = Registered /\ objects' = objects
    BY <1>6 DEF TierFail
  <2>2. /\ manifest'.torn = FALSE /\ manifest'.orphans = {}
        /\ Archive(wal, manifest'.live, objects) /\ ColdKnown(index, manifest'.live)
        /\ BelowStays(wal.disk, manifest.live, wal.disk, manifest'.live)
    BY <2>1, InvRegistered
  <2>3. Quiet'
    BY <1>1, <1>2, <1>3, <2>2 DEF Quiet
  <2> QED
    BY <1>1, <1>5, <2>1, <2>2, <2>3, InvManifest
<1>7. CASE manifest' = manifest
  <2>1. Quiet'
    BY <1>1, <1>2, <1>3, <1>7 DEF Quiet
  <2>2. CASE objects' = objects
    <3>1. Archive(wal, manifest.live, objects)
      BY DEF StoreInv
    <3>2. SafeStays(wal.disk, index, objects, wal.disk, index, objects)
      BY DEF SafeStays
    <3> QED
      BY <1>1, <1>5, <1>7, <2>1, <2>2, <3>1, <3>2, InvObjects
  <2>3. CASE objects' # objects
    <3>1. tier.pc = "upload" /\ objects' = Put(objects, GroupKey(tier.tp), Group(tier.tp))
      BY <2>3 DEF TierFail
    <3>2. Archive(wal, manifest.live, objects') /\ SafeStays(wal.disk, index, objects, wal.disk, index, objects')
      BY <3>1, InvUploaded DEF Working
    <3> QED
      BY <1>1, <1>5, <1>7, <2>1, <3>2, InvObjects
  <2> QED
    BY <2>2, <2>3
<1> QED
  BY <1>6, <1>7

\* The next record of a request.
NextRecord(q) ==
    /\ Head(q.todo) \in Record /\ Head(q.todo).tp = q.tp /\ Head(q.todo).off = q.base + Written(q)
    /\ Head(q.todo) = q.recs[Written(q) + 1] /\ Written(q) + 1 \in 1 .. Len(q.recs) /\ Written(q) \in Nat
    /\ q.base \in Nat /\ q.base + Written(q) \in Nat /\ Len(q.recs) \in Nat /\ Len(q.todo) \in Nat /\ Len(q.todo) > 0
    /\ q.tp \in Partitions

\* A request appends at the offset after those it has appended.
LEMMA RequestNext ==
    ASSUME StoreTyped, NEW p \in Producers, producer[p].pc \in Appending, NEW mark, NEW disk, NEW live, NEW idx, NEW objs,
           RequestInv(p, producer[p], mark, disk, live, idx, objs)
    PROVE  NextRecord(producer[p])
<1> DEFINE q == producer[p]
<1>1. /\ RequestOK(q) /\ q.todo \in Seq(Record) /\ Len(q.todo) > 0
      /\ Head(q.todo) = q.todo[1] /\ Head(q.todo) \in Record
  BY Incoming
<1>2. q.tp \in Partitions /\ q.base \in Nat /\ q.recs \in Seq(Record)
  BY <1>1, StoreConstants DEF RequestOK, Requests, Ends
<1>3. Len(q.recs) \in Nat /\ Len(q.todo) \in Nat /\ Len(q.todo) <= Len(q.recs)
  BY <1>1, <1>2 DEF RequestInv
<1>4. Written(q) = Len(q.recs) - Len(q.todo) /\ Written(q) \in Nat /\ q.base + Written(q) \in Nat
  BY <1>2, <1>3, WrittenFields
<1>5. Written(q) + 1 \in 1 .. Len(q.recs)
  <2> DEFINE n == Len(q.recs)
             m == Len(q.todo)
             k == Written(q)
  <2>1. n \in Nat /\ m \in Nat /\ m > 0 /\ m <= n /\ k = n - m
    BY <1>1, <1>3, <1>4
  <2> HIDE DEF n, m, k
  <2>2. k + 1 \in 1 .. n
    BY <2>1
  <2> QED
    BY <2>2 DEF n, k
<1>6. q.todo[1] = q.recs[Written(q) + 1]
  <2>1. 1 \in 1 .. Len(q.todo)
    BY <1>1, <1>3
  <2> QED
    BY <2>1 DEF RequestInv
<1>7. q.recs[Written(q) + 1].tp = q.tp /\ q.recs[Written(q) + 1].off = q.base + ((Written(q) + 1) - 1)
  BY <1>5 DEF RequestInv
<1>8. (Written(q) + 1) - 1 = Written(q)
  BY <1>4
<1> QED
  BY <1>1, <1>2, <1>3, <1>4, <1>5, <1>6, <1>7, <1>8 DEF NextRecord

\* The group of a segment is below what a request appends next.
LEMMA GroupBelow ==
    ASSUME NEW disk, NEW s \in DOMAIN disk, disk[s] \in Seq(Record), NEW tp, GroupFacts(disk[s], tp),
           NEW b \in Nat, NEW live, Below(tp, b, disk, live)
    PROVE  EndIn(disk[s], tp) <= b
<1>1. PICK i \in 1 .. Len(disk[s]) : disk[s][i].tp = tp /\ disk[s][i].off + 1 = EndIn(disk[s], tp)
  BY DEF GroupFacts
<1>2. disk[s][i].off < b
  BY <1>1 DEF Below
<1>3. disk[s][i].off \in Nat
  <2>1. disk[s][i] \in Record
    OBVIOUS
  <2> QED
    BY <2>1, RecordFields
<1> QED
  BY <1>1, <1>2, <1>3

\* new is idx with tp's offsets from lo to hi in an object.
Flipped(new, idx, tp, lo, hi, rng) ==
    /\ Elsewhere(new, idx, tp) /\ Stored(new.parts[tp].cold, idx.parts[tp].cold, lo, rng)
    /\ \A o \in DOMAIN new.parts[tp].hot :
          o \in DOMAIN idx.parts[tp].hot /\ new.parts[tp].hot[o] = idx.parts[tp].hot[o] /\ ~ (lo <= o /\ o < hi)
    /\ \A o \in DOMAIN idx.parts[tp].hot : (lo <= o /\ o < hi) \/ o \in DOMAIN new.parts[tp].hot
    /\ idx.parts[tp].next_offset <= new.parts[tp].next_offset /\ hi <= new.parts[tp].next_offset
    /\ rng.end = hi

\* flip_to_cold does that.
LEMMA FlipFlips ==
    ASSUME NEW idx, Exact(idx), NEW tp \in Partitions, NEW lo \in Offsets, NEW hi \in Ends,
           NEW key \in Keys, NEW n \in Nat, NEW new, new = flip_to_cold(idx, tp, lo, hi, key, n)
    PROVE  Flipped(new, idx, tp, lo, hi, ObjectRange(hi, key, n))
<1>1. /\ HotRemoved(new, idx, tp, KeysIn(idx.parts[tp].hot, lo, hi))
      /\ ColdSet(new, idx, tp, idx.parts[tp].cold, lo, hi, key, n)
  BY FlipExact
<1>2. ObjectRange(hi, key, n).end = hi
  BY DEF ObjectRange
<1>3. \A o : o \in KeysIn(idx.parts[tp].hot, lo, hi) <=> o \in DOMAIN idx.parts[tp].hot /\ lo <= o /\ o < hi
  BY DEF KeysIn
<1>4. idx.parts[tp].next_offset \in Nat /\ hi \in Nat
  BY StoreConstants DEF Exact, Indexes, Entries, Ends
<1>5. idx.parts[tp].next_offset <= new.parts[tp].next_offset /\ hi <= new.parts[tp].next_offset
  BY <1>1, <1>4 DEF ColdSet, Raised
<1>6. Elsewhere(new, idx, tp) /\ Remains(new.parts[tp].hot, idx.parts[tp].hot, KeysIn(idx.parts[tp].hot, lo, hi))
  BY <1>1 DEF HotRemoved
<1>7. Stored(new.parts[tp].cold, idx.parts[tp].cold, lo, ObjectRange(hi, key, n))
  BY <1>1 DEF ColdSet
<1> QED
  BY <1>2, <1>3, <1>5, <1>6, <1>7 DEF Flipped, Remains

\* The offsets of an index are naturals.
LEMMA IndexNaturals ==
    ASSUME NEW idx, Exact(idx), NEW tp \in Partitions
    PROVE  /\ idx.parts[tp].next_offset \in Nat
           /\ \A o \in DOMAIN idx.parts[tp].hot : o \in Nat /\ idx.parts[tp].hot[o] \in Record
           /\ \A a \in DOMAIN idx.parts[tp].cold : a \in Nat /\ idx.parts[tp].cold[a].end \in Nat
<1>1. idx.parts[tp].hot \in Hots /\ idx.parts[tp].cold \in Colds /\ idx.parts[tp].next_offset \in Ends
  BY DEF Exact, Indexes, Entries
<1>2. Offsets \subseteq Nat /\ Ends \subseteq Nat
  BY StoreConstants DEF Offsets, Ends
<1>3. \A o \in DOMAIN idx.parts[tp].hot : o \in Nat /\ idx.parts[tp].hot[o] \in Record
  BY <1>1, <1>2, MapFields DEF Hots
<1>4. \A a \in DOMAIN idx.parts[tp].cold : a \in Nat /\ idx.parts[tp].cold[a] \in Ranges
  BY <1>1, <1>2, MapFields DEF Colds
<1>5. \A a \in DOMAIN idx.parts[tp].cold : idx.parts[tp].cold[a].end \in Nat
  BY <1>2, <1>4 DEF Ranges
<1> QED
  BY <1>1, <1>2, <1>3, <1>4, <1>5

\* At most is transitive.
LEMMA AtMost ==
    ASSUME NEW a \in Nat, NEW b \in Nat, NEW c \in Nat, a <= b, b <= c
    PROVE  a <= c
OBVIOUS

\* The appends in progress to tp are at hi or past it.
WaitingPast(prods, tp, hi) ==
    \A p \in Producers : prods[p].pc = "wal" => prods[p].tp \in Partitions /\
        Head(prods[p].todo).off \in Nat /\ (prods[p].tp = tp => hi <= Head(prods[p].todo).off)

\* The index after a flip of the group of tp in segment s.
LEMMA FlipKeeps ==
    ASSUME NEW w, WalOK(w), NEW live \in [Partitions -> Colds], NEW objs, NEW idx, Exact(idx), NEW new, Exact(new), NEW prods,
           Archive(w, live, objs), Memory(idx, w.disk, live, prods),
           NEW s \in DOMAIN w.disk, NEW tp \in Partitions, GroupFacts(w.disk[s], tp),
           NEW lo, lo = StartIn(w.disk[s], tp), NEW hi, hi = EndIn(w.disk[s], tp),
           lo \in DOMAIN live[tp], Flipped(new, idx, tp, lo, hi, live[tp][lo]),
           WaitingPast(prods, tp, hi)
    PROVE  /\ Memory(new, w.disk, live, prods) /\ ColdStays(idx, objs, new, objs)
           /\ Tiered(w.disk[s], tp, new)
<1>1. lo \in Nat /\ hi \in Nat /\ lo < hi
  BY DEF GroupFacts
<1>2. ColdKnown(idx, live) /\ HotKnown(idx, w.disk, prods) /\ HotWaiting(idx, prods) /\ LogServed(idx, w.disk)
  BY DEF Memory
<1>3. \A q \in Partitions \ {tp} : new.parts[q] = idx.parts[q]
  BY DEF Flipped, Elsewhere
<1>4. /\ DOMAIN new.parts[tp].cold = DOMAIN idx.parts[tp].cold \cup {lo} /\ new.parts[tp].cold[lo] = live[tp][lo]
      /\ \A a \in DOMAIN idx.parts[tp].cold : new.parts[tp].cold[a] = idx.parts[tp].cold[a]
  BY <1>2 DEF Flipped, Stored, ColdKnown
<1>5. /\ \A o \in DOMAIN new.parts[tp].hot :
          o \in DOMAIN idx.parts[tp].hot /\ new.parts[tp].hot[o] = idx.parts[tp].hot[o] /\ ~ (lo <= o /\ o < hi)
      /\ \A o \in DOMAIN idx.parts[tp].hot : (lo <= o /\ o < hi) \/ o \in DOMAIN new.parts[tp].hot
      /\ idx.parts[tp].next_offset <= new.parts[tp].next_offset /\ hi <= new.parts[tp].next_offset
      /\ live[tp][lo].end = hi
  BY DEF Flipped
<1>6. \A q \in Partitions : /\ idx.parts[q].next_offset \in Nat /\ new.parts[q].next_offset \in Nat
        /\ idx.parts[q].next_offset <= new.parts[q].next_offset
        /\ \A o \in DOMAIN idx.parts[q].hot : o \in Nat
        /\ \A a \in DOMAIN idx.parts[q].cold : a \in Nat /\ idx.parts[q].cold[a].end \in Nat
  BY <1>3, <1>5, IndexNaturals
<1>7. ColdKnown(new, live)
  <2> SUFFICES ASSUME NEW q \in Partitions, NEW a \in DOMAIN new.parts[q].cold
               PROVE  /\ a \in DOMAIN live[q] /\ new.parts[q].cold[a] = live[q][a]
                      /\ new.parts[q].cold[a].end <= new.parts[q].next_offset
    BY DEF ColdKnown
  <2>1. CASE q = tp /\ a = lo
    BY <1>4, <1>5, <2>1
  <2>2. CASE ~ (q = tp /\ a = lo)
    <3>1. a \in DOMAIN idx.parts[q].cold /\ new.parts[q].cold[a] = idx.parts[q].cold[a]
      BY <1>3, <1>4, <2>2
    <3>2. /\ a \in DOMAIN live[q] /\ idx.parts[q].cold[a] = live[q][a]
          /\ idx.parts[q].cold[a].end <= idx.parts[q].next_offset
      BY <1>2, <3>1 DEF ColdKnown
    <3>3. idx.parts[q].cold[a].end <= new.parts[q].next_offset
      <4>1. /\ idx.parts[q].next_offset \in Nat /\ new.parts[q].next_offset \in Nat
            /\ idx.parts[q].next_offset <= new.parts[q].next_offset
        BY <1>6
      <4>2. live[q][a].end \in Nat
        BY <3>2, RangeNaturals
      <4> QED
        BY <3>2, <4>1, <4>2, AtMost
    <3> QED
      BY <3>1, <3>2, <3>3
  <2> QED
    BY <2>1, <2>2
<1>8. HotKnown(new, w.disk, prods)
  <2> SUFFICES ASSUME NEW q \in Partitions, NEW o \in DOMAIN new.parts[q].hot
               PROVE  /\ new.parts[q].hot[o].tp = q /\ new.parts[q].hot[o].off = o
                      /\ o < new.parts[q].next_offset
                      /\ Held(w.disk, new.parts[q].hot[o]) \/ InFlight(prods, new.parts[q].hot[o])
    BY DEF HotKnown
  <2>1. o \in DOMAIN idx.parts[q].hot /\ new.parts[q].hot[o] = idx.parts[q].hot[o]
    BY <1>3, <1>5
  <2>2. o < idx.parts[q].next_offset
    BY <1>2, <2>1 DEF HotKnown
  <2>3. o < new.parts[q].next_offset
    BY <1>6, <2>1, <2>2
  <2> QED
    BY <1>2, <2>1, <2>3 DEF HotKnown
<1>9. HotWaiting(new, prods)
  <2> SUFFICES ASSUME NEW p \in Producers, prods[p].pc = "wal"
               PROVE  Head(prods[p].todo).off \in DOMAIN new.parts[prods[p].tp].hot
    BY DEF HotWaiting
  <2>1. Head(prods[p].todo).off \in DOMAIN idx.parts[prods[p].tp].hot /\ prods[p].tp \in Partitions
    BY <1>2 DEF HotWaiting, WaitingPast
  <2>2. CASE prods[p].tp = tp
    <3>1. hi <= Head(prods[p].todo).off /\ Head(prods[p].todo).off \in Nat
      BY <2>2 DEF WaitingPast
    <3> QED
      BY <1>1, <1>5, <2>1, <2>2, <3>1
  <2>3. CASE prods[p].tp # tp
    BY <1>3, <2>1, <2>3
  <2> QED
    BY <2>2, <2>3
<1>10. LogServed(new, w.disk)
  <2> SUFFICES ASSUME NEW t \in DOMAIN w.disk, NEW i \in 1 .. Len(w.disk[t])
               PROVE  \/ w.disk[t][i].off \in DOMAIN new.parts[w.disk[t][i].tp].hot
                      \/ \E a \in DOMAIN new.parts[w.disk[t][i].tp].cold : Covers(new.parts[w.disk[t][i].tp].cold, a, w.disk[t][i].off)
    BY DEF LogServed
  <2> DEFINE r == w.disk[t][i]
  <2>1. r \in Record
    BY WalFields
  <2>2. r.tp \in Partitions
    BY <2>1, RecordFields
  <2>3. \/ r.off \in DOMAIN idx.parts[r.tp].hot
        \/ \E a \in DOMAIN idx.parts[r.tp].cold : Covers(idx.parts[r.tp].cold, a, r.off)
    BY <1>2 DEF LogServed
  <2> HIDE DEF r
  <2>4. CASE r.tp # tp
    BY <1>3, <2>2, <2>3, <2>4 DEF r
  <2>5. CASE r.tp = tp
    <3>1. CASE r.off \in DOMAIN idx.parts[r.tp].hot
      <4>1. CASE lo <= r.off /\ r.off < hi
        <5>1. lo \in DOMAIN new.parts[r.tp].cold /\ Covers(new.parts[r.tp].cold, lo, r.off)
          BY <1>4, <1>5, <2>5, <4>1 DEF Covers
        <5> QED
          BY <5>1 DEF r
      <4>2. CASE ~ (lo <= r.off /\ r.off < hi)
        BY <1>5, <2>5, <3>1, <4>2 DEF r
      <4> QED
        BY <4>1, <4>2
    <3>2. CASE \E a \in DOMAIN idx.parts[r.tp].cold : Covers(idx.parts[r.tp].cold, a, r.off)
      BY <1>4, <2>5, <3>2 DEF Covers, r
    <3> QED
      BY <2>3, <3>1, <3>2
  <2> QED
    BY <2>4, <2>5
<1>11. ColdStays(idx, objs, new, objs)
  BY <1>3, <1>4 DEF ColdStays
<1>12. Tiered(w.disk[s], tp, new)
  BY <1>4, <1>5 DEF Tiered
<1> QED
  BY <1>7, <1>8, <1>9, <1>10, <1>11, <1>12 DEF Memory

\* A request that appends.
LEMMA RequestAt ==
    ASSUME StoreTyped, StoreInv, NEW p \in Producers, producer[p].pc \in Appending
    PROVE  /\ RequestInv(p, producer[p], hw, wal.disk, manifest.live, index, objects) /\ NextRecord(producer[p])
           /\ Below(Head(producer[p].todo).tp, Head(producer[p].todo).off, wal.disk, manifest.live)
<1>1. Busy(producer[p])
  BY DEF Busy, Appending
<1>2. RequestInv(p, producer[p], hw, wal.disk, manifest.live, index, objects)
  BY <1>1 DEF StoreInv, Clients
<1>3. NextRecord(producer[p])
  BY <1>2, RequestNext
<1> QED
  BY <1>2, <1>3 DEF RequestInv, NextRecord

\* Memory keeps the ranges it knows.
ColdKept(new, idx) ==
    \A tp \in Partitions : \A a \in DOMAIN idx.parts[tp].cold :
        a \in DOMAIN new.parts[tp].cold /\ new.parts[tp].cold[a] = idx.parts[tp].cold[a]

\* A step that changes memory and the task.
LEMMA InvIndex ==
    ASSUME StoreTyped, StoreInv, UNCHANGED <<wal, manifest, objects, hw, producer, compact, acked, faults>>,
           Memory(index', wal.disk, manifest.live, producer), ColdStays(index, objects, index', objects),
           Tierer(tier', wal.disk, index', manifest.live, objects)
    PROVE  StoreInv' /\ ColdKept(index', index)
<1>1. SafeStays(wal.disk, index, objects, wal.disk, index', objects)
  <2>1. \A r \in Record : Held(wal.disk, r) => Safe(r, wal.disk, index', objects)
    BY DEF Safe
  <2> QED
    BY <2>1, SafeMoved
<1>2. Clients(producer, hw, wal.disk, manifest.live, index', objects)
  BY <1>1, BelowSame, ClientsStay DEF StoreInv, StoreTyped
<1>3. AllSafe(acked, wal.disk, index', objects)
  BY <1>1, AllStay DEF StoreInv
<1>4. Quiet' /\ Archive(wal, manifest.live, objects)
  BY DEF StoreInv, Quiet
<1>5. StoreInv'
  BY <1>2, <1>3, <1>4 DEF StoreInv
<1>6. ColdKept(index', index)
  BY DEF ColdKept, ColdStays
<1> QED
  BY <1>5, <1>6

\* TierFlip.
LEMMA InvFlip ==
    ASSUME StoreTyped, StoreInv, TierFlip
    PROVE  /\ StoreInv' /\ ColdKept(index', index) /\ tier'.pc = "group"
           /\ Flipped(index', index, tier.tp, StartIn(wal.disk[tier.queue[1]], tier.tp), EndIn(wal.disk[tier.queue[1]], tier.tp),
                      manifest.live[tier.tp][StartIn(wal.disk[tier.queue[1]], tier.tp)])
<1> DEFINE seg == wal.disk[tier.queue[1]]
           tp == tier.tp
           lo == StartIn(seg, tp)
           hi == EndIn(seg, tp)
           key == KeyIn(seg, tp)
           n == Len(GroupIn(seg, tp))
<1>1. tier.pc = "flip" /\ tier.pc \in Working /\ AtWork(tier, wal)
  BY TierAt DEF TierFlip, Working
<1>2. WorkGroup /\ WalOK(wal) /\ manifest.live \in [Partitions -> Colds]
  BY <1>1, AtWorkGroup
<1>3. /\ tp \in Partitions /\ tp \in TpsOf(seg) /\ GroupFacts(seg, tp)
      /\ tier.queue[1] \in DOMAIN wal.disk /\ tier.queue[1] < wal.active
      /\ GroupStart(tp) = lo /\ GroupEnd(tp) = hi /\ GroupKey(tp) = key /\ Group(tp) = GroupIn(seg, tp)
  BY <1>2 DEF WorkGroup
<1>4. lo \in Nat /\ hi \in Nat /\ lo < hi /\ lo \in Offsets /\ hi \in Ends /\ key \in Keys /\ GroupIn(seg, tp) \in Seq(Record)
  BY <1>3 DEF GroupFacts, GroupOf
<1>5. ~ (GroupStart(tp) > GroupEnd(tp))
  BY <1>3, <1>4
<1>6. index' = flip_to_cold(index, tp, lo, hi, key, n) /\ tier' = GroupDone(tp, FALSE)
  BY <1>3, <1>5 DEF TierFlip
<1>7. UNCHANGED <<wal, manifest, objects, hw, producer, compact, acked, faults>>
  BY DEF TierFlip, storage, history
<1>8. lo \in DOMAIN manifest.live[tp] /\ manifest.live[tp][lo] = ObjectRange(hi, key, n)
  BY <1>1 DEF StoreInv, Tierer, TierStored
<1>9. Exact(index) /\ Exact(index')
  BY TypedTierFlip DEF StoreTyped
<1>10. Flipped(index', index, tp, lo, hi, manifest.live[tp][lo])
  <2>1. n \in Nat
    BY <1>4
  <2> HIDE DEF seg, tp, lo, hi, key, n
  <2>2. Flipped(index', index, tp, lo, hi, ObjectRange(hi, key, n))
    BY <1>3, <1>4, <1>6, <1>9, <2>1, FlipFlips
  <2> QED
    BY <1>8, <2>2
<1>11. WaitingPast(producer, tp, hi)
  <2> SUFFICES ASSUME NEW p \in Producers, producer[p].pc = "wal"
               PROVE  producer[p].tp \in Partitions /\
                      Head(producer[p].todo).off \in Nat /\ (producer[p].tp = tp => hi <= Head(producer[p].todo).off)
    BY DEF WaitingPast
  <2>1. NextRecord(producer[p]) /\ Below(Head(producer[p].todo).tp, Head(producer[p].todo).off, wal.disk, manifest.live)
    BY RequestAt DEF Appending
  <2>2. Head(producer[p].todo).off \in Nat /\ Head(producer[p].todo).tp = producer[p].tp /\ producer[p].tp \in Partitions
    BY <2>1 DEF NextRecord
  <2>3. seg \in Seq(Record)
    BY <1>2, <1>3, WalFields
  <2>4. ASSUME producer[p].tp = tp PROVE hi <= Head(producer[p].todo).off
    BY <1>3, <2>1, <2>2, <2>3, <2>4, GroupBelow
  <2> QED
    BY <2>2, <2>4
<1>12. Archive(wal, manifest.live, objects) /\ Memory(index, wal.disk, manifest.live, producer)
  BY DEF StoreInv
<1>13. /\ Memory(index', wal.disk, manifest.live, producer) /\ ColdStays(index, objects, index', objects)
       /\ Tiered(seg, tp, index')
  <2> DEFINE s == tier.queue[1]
  <2>1. s \in DOMAIN wal.disk /\ tp \in Partitions /\ GroupFacts(wal.disk[s], tp) /\ lo = StartIn(wal.disk[s], tp)
        /\ hi = EndIn(wal.disk[s], tp) /\ lo \in DOMAIN manifest.live[tp] /\ seg = wal.disk[s]
        /\ WalOK(wal) /\ manifest.live \in [Partitions -> Colds]
    BY <1>2, <1>3, <1>8
  <2> HIDE DEF s, seg, tp, lo, hi
  <2> QED
    BY <1>9, <1>10, <1>11, <1>12, <2>1, FlipKeeps
<1>14. Tierer(tier', wal.disk, index', manifest.live, objects)
  <2>1. tier'.pc = "group" /\ tier'.queue = tier.queue /\ tier'.todo = tier.todo \ {tp} /\ tier'.fenced = (tier.fenced \/ FALSE)
    BY <1>6 DEF GroupDone
  <2>2. TierDone(tier, wal.disk, index)
    BY DEF StoreInv, Tierer
  <2>3. tier.fenced \/ \A q \in TpsOf(seg) \ tier.todo : Tiered(seg, q, index)
    BY <1>1, <2>2 DEF TierDone
  <2>4. ASSUME ~ tier.fenced, NEW q \in TpsOf(seg) \ (tier.todo \ {tp}) PROVE Tiered(seg, q, index')
    <3>1. CASE q = tp
      BY <1>13, <3>1
    <3>2. CASE q # tp
      <4>1. Tiered(seg, q, index)
        BY <2>3, <2>4, <3>2
      <4>2. q \in Partitions
        <5>1. seg \in Seq(Record) /\ OrderedSeq(seg)
          BY <1>2, <1>3, <1>12, WalFields, SegmentOrdered DEF Archive
        <5> QED
          BY <5>1, GroupRange
      <4>3. index'.parts[q] = index.parts[q]
        BY <1>10, <3>2, <4>2 DEF Flipped, Elsewhere
      <4> QED
        BY <4>1, <4>3 DEF Tiered
    <3> QED
      BY <3>1, <3>2
  <2>5. tier'.fenced \/ \A q \in TpsOf(wal.disk[tier'.queue[1]]) \ tier'.todo : Tiered(wal.disk[tier'.queue[1]], q, index')
    <3>1. CASE tier.fenced
      BY <2>1, <3>1
    <3>2. CASE ~ tier.fenced
      BY <2>1, <2>4, <3>2
    <3> QED
      BY <3>1, <3>2
  <2> QED
    BY <2>1, <2>5, TiererGroup
<1>15. StoreInv' /\ ColdKept(index', index)
  BY <1>7, <1>13, <1>14, InvIndex
<1>16. tier'.pc = "group"
  BY <1>6 DEF GroupDone
<1> QED
  BY <1>10, <1>15, <1>16

\* The segment s is gone.
LEMMA InvDeleted ==
    ASSUME StoreTyped, StoreInv, UNCHANGED <<index, manifest, objects, hw, producer, compact, acked, faults>>,
           NEW s \in DOMAIN wal.disk, s < wal.active, Deleted(wal', wal, s),
           \A tp \in TpsOf(wal.disk[s]) : Tiered(wal.disk[s], tp, index),
           tier'.pc \in {"idle", "dead", "segment"}
    PROVE  StoreInv'
<1>1. WalOK(wal) /\ manifest.live \in [Partitions -> Colds] /\ Exact(index)
  BY DEF StoreTyped, Manifests
<1>2. Archive(wal, manifest.live, objects) /\ Memory(index, wal.disk, manifest.live, producer) /\ ColdKnown(index, manifest.live)
  BY DEF StoreInv, Memory
<1>3. Archive(wal', manifest.live, objects)
  <2>1. wal.active \in DOMAIN wal.disk /\ wal.active \in Nat /\ s \in Nat
    BY <1>1, WalFields DEF WalOK
  <2>2. s # wal.active
    BY <2>1
  <2> QED
    BY <1>2, <2>1, <2>2, ArchiveDeleted
<1>4. ASSUME NEW r \in Record, Held(wal.disk, r), ~ Held(wal'.disk, r)
      PROVE  SafeCold(r, index, objects) /\ r.off \notin DOMAIN index.parts[r.tp].hot
  <2>1. PICK t \in DOMAIN wal.disk : Has(wal.disk[t], r)
    BY <1>4 DEF Held
  <2>2. t = s
    BY <1>4, <2>1 DEF Held, Deleted
  <2>3. r.tp \in TpsOf(wal.disk[s])
    <3>1. PICK i \in 1 .. Len(wal.disk[s]) : wal.disk[s][i] = r
      BY <2>1, <2>2 DEF Has
    <3>2. wal.disk[s] \in Seq(Record)
      BY <1>1, WalFields
    <3> QED
      BY <3>1, <3>2 DEF TpsOf, ToSet
  <2>4. Tiered(wal.disk[s], r.tp, index)
    BY <2>3
  <2> QED
    BY <1>1, <1>2, <2>1, <2>2, <2>4, TieredSafe
<1>5. SafeStays(wal.disk, index, objects, wal'.disk, index, objects)
  <2>1. \A r \in Record : Held(wal.disk, r) => Safe(r, wal'.disk, index, objects)
    BY <1>4 DEF Safe
  <2> QED
    BY <2>1, ColdSame, SafeMoved
<1>6. Memory(index, wal'.disk, manifest.live, producer)
  <2>1. HotKnown(index, wal'.disk, producer)
    <3> SUFFICES ASSUME NEW tp \in Partitions, NEW o \in DOMAIN index.parts[tp].hot
                 PROVE  /\ index.parts[tp].hot[o].tp = tp /\ index.parts[tp].hot[o].off = o
                        /\ o < index.parts[tp].next_offset
                        /\ Held(wal'.disk, index.parts[tp].hot[o]) \/ InFlight(producer, index.parts[tp].hot[o])
      BY DEF HotKnown
    <3> DEFINE r == index.parts[tp].hot[o]
    <3>1. /\ r.tp = tp /\ r.off = o /\ o < index.parts[tp].next_offset
          /\ Held(wal.disk, r) \/ InFlight(producer, r)
      BY <1>2 DEF Memory, HotKnown
    <3>2. r \in Record
      BY <1>1, IndexNaturals
    <3> HIDE DEF r
    <3>3. Held(wal.disk, r) => Held(wal'.disk, r)
      BY <1>4, <3>1, <3>2
    <3> QED
      BY <3>1, <3>3 DEF r
  <2>2. LogServed(index, wal'.disk)
    BY <1>2 DEF Memory, LogServed, Deleted
  <2> QED
    BY <1>2, <2>1, <2>2 DEF Memory
<1>7. BelowStays(wal.disk, manifest.live, wal'.disk, manifest.live)
  BY BelowFewer
<1>8. Clients(producer, hw, wal'.disk, manifest.live, index, objects)
  BY <1>5, <1>7, ClientsStay DEF StoreInv, StoreTyped
<1>9. AllSafe(acked, wal'.disk, index, objects)
  BY <1>5, AllStay DEF StoreInv
<1>10. Tierer(tier', wal'.disk, index, manifest.live, objects)
  BY TiererIdle
<1>11. Quiet'
  BY DEF StoreInv, Quiet, Deleted
<1> QED
  BY <1>3, <1>6, <1>8, <1>9, <1>10, <1>11 DEF StoreInv

\* After a segment.
LEMMA NextPc == NextSegment.pc \in {"idle", "dead", "segment"}
BY DEF NextSegment, IdleTier

\* TierReadSegment.
LEMMA InvReadSegment ==
    ASSUME StoreTyped, StoreInv, TierReadSegment
    PROVE  StoreInv'
<1>1. tier.pc \notin {"idle", "dead"}
  BY DEF TierReadSegment
<1>2. /\ Head(tier.queue) = tier.queue[1] /\ tier.queue[1] < wal.active /\ tier.queue[1] \in DOMAIN wal.disk
      /\ Segment = wal.disk[tier.queue[1]] /\ Segment \in Seq(Record)
  BY <1>1, TierQueue
<1>3. UNCHANGED <<index, manifest, objects, hw, producer, compact, acked, faults>>
  BY DEF TierReadSegment, history
<1>4. CASE Segment = <<>>
  <2>1. wal' = delete_segment(wal, Head(tier.queue)) /\ tier' = NextSegment
    BY <1>4 DEF TierReadSegment
  <2>2. Deleted(wal', wal, tier.queue[1])
    BY <1>1, <2>1, TypedDelete
  <2>3. TpsOf(Segment) = {}
    BY <1>4 DEF TpsOf, ToSet
  <2> QED
    BY <1>2, <1>3, <2>1, <2>2, <2>3, NextPc, InvDeleted
<1>5. CASE Segment # <<>>
  <2>1. /\ tier' = [pc |-> "group", queue |-> tier.queue, todo |-> {r.tp : r \in ToSet(Segment)}, fenced |-> FALSE]
        /\ wal' = wal
    BY <1>5 DEF TierReadSegment
  <2>2. tier'.pc = "group" /\ tier'.queue = tier.queue /\ tier'.todo = TpsOf(Segment)
    BY <2>1 DEF TpsOf
  <2>3. TpsOf(wal.disk[tier'.queue[1]]) \ tier'.todo = {}
    BY <1>2, <2>2
  <2>4. Tierer(tier', wal.disk, index, manifest.live, objects)
    BY <2>2, <2>3, TiererGroup
  <2> QED
    BY <1>3, <2>1, <2>4, InvTier
<1> QED
  BY <1>4, <1>5

\* TierReclaim.
LEMMA InvReclaim ==
    ASSUME StoreTyped, StoreInv, TierReclaim
    PROVE  StoreInv'
<1>1. tier.pc = "group" /\ tier.pc \notin {"idle", "dead"} /\ tier.todo = {} /\ tier' = NextSegment
  BY DEF TierReclaim
<1>2. /\ Head(tier.queue) = tier.queue[1] /\ tier.queue[1] < wal.active /\ tier.queue[1] \in DOMAIN wal.disk
  BY <1>1, TierQueue
<1>3. UNCHANGED <<index, manifest, objects, hw, producer, compact, acked, faults>>
  BY DEF TierReclaim, history
<1>4. CASE tier.fenced
  <2>1. wal' = wal
    BY <1>4 DEF TierReclaim
  <2>2. Tierer(tier', wal.disk, index, manifest.live, objects)
    BY <1>1, NextPc, TiererIdle
  <2> QED
    BY <1>3, <2>1, <2>2, InvTier
<1>5. CASE ~ tier.fenced
  <2>1. wal' = delete_segment(wal, Head(tier.queue))
    BY <1>5 DEF TierReclaim
  <2>2. Deleted(wal', wal, tier.queue[1])
    BY <1>1, <2>1, TypedDelete
  <2>3. TierDone(tier, wal.disk, index)
    BY DEF StoreInv, Tierer
  <2>4. \A tp \in TpsOf(wal.disk[tier.queue[1]]) : Tiered(wal.disk[tier.queue[1]], tp, index)
    BY <1>1, <1>5, <2>3 DEF TierDone
  <2> QED
    BY <1>1, <1>2, <1>3, <2>2, <2>4, NextPc, InvDeleted
<1> QED
  BY <1>4, <1>5

\* Memory over a log with new empty segments.
LEMMA MemoryRotated ==
    ASSUME NEW v, NEW w, SameRecords(v, w), NEW idx, NEW live, NEW prods, Memory(idx, w.disk, live, prods)
    PROVE  Memory(idx, v.disk, live, prods)
<1>1. \A r : Held(w.disk, r) => Held(v.disk, r)
  BY HeldStays
<1>2. HotKnown(idx, v.disk, prods)
  BY <1>1 DEF Memory, HotKnown
<1>3. LogServed(idx, v.disk)
  <2> SUFFICES ASSUME NEW s \in DOMAIN v.disk, NEW i \in 1 .. Len(v.disk[s])
               PROVE  \/ v.disk[s][i].off \in DOMAIN idx.parts[v.disk[s][i].tp].hot
                      \/ \E a \in DOMAIN idx.parts[v.disk[s][i].tp].cold : Covers(idx.parts[v.disk[s][i].tp].cold, a, v.disk[s][i].off)
    BY DEF LogServed
  <2>1. v.disk[s] # <<>>
    OBVIOUS
  <2>2. s \in DOMAIN w.disk /\ v.disk[s] = w.disk[s]
    BY <2>1 DEF SameRecords
  <2> QED
    BY <2>2 DEF Memory, LogServed
<1> QED
  BY <1>2, <1>3 DEF Memory

\* TierOnce.
LEMMA InvTierOnce ==
    ASSUME StoreTyped, StoreInv, TierOnce
    PROVE  StoreInv'
<1>1. UNCHANGED <<index, manifest, objects, hw, producer, compact, acked, faults>> /\ tier'.pc = "segment"
  BY DEF TierOnce, history
<1>2. WalOK(wal) /\ wal.tail = <<>> /\ manifest.live \in [Partitions -> Colds]
  BY DEF StoreTyped, StoreInv, Quiet, Manifests
<1>3. \A disk : Tierer(tier', disk, index, manifest.live, objects)
  BY <1>1, TiererIdle
<1>4. CASE wal' = wal
  BY <1>1, <1>3, <1>4, InvTier
<1>5. CASE wal' = handle_maybe_seal(wal)
  <2>1. WalOK(wal') /\ Rotated(wal', wal, wal.tail)
    BY <1>2, <1>5, SealFields
  <2>2. wal.tail \in Seq(Record) /\ wal'.tail = <<>>
    BY <1>2, <2>1, WalFields DEF Rotated
  <2>3. SameRecords(wal', wal)
    BY <1>2, <2>1, <2>2, RotatedSame
  <2>4. Archive(wal', manifest.live, objects)
    BY <1>2, <2>3, ArchiveRotated DEF StoreInv
  <2>5. Memory(index, wal'.disk, manifest.live, producer)
    BY <2>3, MemoryRotated DEF StoreInv
  <2>6. SafeStays(wal.disk, index, objects, wal'.disk, index, objects)
    BY <2>3, SafeGrown
  <2>7. BelowStays(wal.disk, manifest.live, wal'.disk, manifest.live)
    BY <2>3, BelowFewer
  <2>8. Clients(producer, hw, wal'.disk, manifest.live, index, objects)
    BY <2>6, <2>7, ClientsStay DEF StoreInv, StoreTyped
  <2>9. AllSafe(acked, wal'.disk, index, objects)
    BY <2>6, AllStay DEF StoreInv
  <2>10. Quiet'
    BY <1>1, <2>2 DEF StoreInv, Quiet
  <2> QED
    BY <1>1, <1>3, <2>4, <2>5, <2>8, <2>9, <2>10 DEF StoreInv
<1> QED
  BY <1>4, <1>5 DEF TierOnce

-------------------------------------------------------------------------------
(* The steps of a request.                                                 *)

\* Two requests in progress are for different partitions.
LEMMA RequestsApart ==
    ASSUME Orderly, NEW prods, NEW mark, NEW disk, NEW live, NEW idx, NEW objs, Clients(prods, mark, disk, live, idx, objs),
           NEW p \in Producers, NEW tp \in Targets[p], NEW c \in Producers \ {p}, Busy(prods[c])
    PROVE  prods[c].tp # tp
<1>1. prods[c].tp \in Targets[c]
  BY DEF Clients, RequestInv
<1> QED
  BY <1>1 DEF Orderly, Disciplined

\* Memory depends on the requests that wait for the log.
LEMMA MemoryRequests ==
    ASSUME NEW idx, NEW disk, NEW live, NEW prods, NEW new, Memory(idx, disk, live, prods),
           \A c \in Producers : prods[c].pc = "wal" \/ new[c].pc = "wal" => new[c] = prods[c]
    PROVE  Memory(idx, disk, live, new)
<1>1. \A r : InFlight(prods, r) => InFlight(new, r)
  BY DEF InFlight
<1>2. HotKnown(idx, disk, new)
  BY <1>1 DEF Memory, HotKnown
<1>3. HotWaiting(idx, new)
  BY DEF Memory, HotWaiting
<1> QED
  BY <1>2, <1>3 DEF Memory

\* A request whose pc moves.
SameRequest(a, b) ==
    a.tp = b.tp /\ a.base = b.base /\ a.recs = b.recs /\ a.todo = b.todo

\* The others and the bounds do not see it.
LEMMA ClientsMoved ==
    ASSUME NEW prods, NEW new, NEW mark, NEW disk, NEW live, NEW idx, NEW objs, Clients(prods, mark, disk, live, idx, objs),
           NEW p \in Producers, \A c \in Producers \ {p} : new[c] = prods[c], Busy(prods[p]), SameRequest(new[p], prods[p]),
           new[p].pc \notin {"idle", "rollback", "commit"}
    PROVE  Clients(new, mark, disk, live, idx, objs)
<1>1. Busy(new[p])
  BY DEF Busy
<1>2. RequestInv(p, prods[p], mark, disk, live, idx, objs)
  BY DEF Clients
<1>3. Written(new[p]) = Written(prods[p])
  BY DEF Written, SameRequest
<1>4. RequestInv(p, new[p], mark, disk, live, idx, objs)
  <2> DEFINE q == prods[p]
             n == new[p]
  <2>1. n.tp = q.tp /\ n.base = q.base /\ n.recs = q.recs /\ n.todo = q.todo /\ Written(n) = Written(q)
        /\ n.pc # "rollback" /\ n.pc # "commit"
    BY <1>3 DEF SameRequest
  <2> HIDE DEF q, n
  <2>2. RequestInv(p, q, mark, disk, live, idx, objs)
    BY <1>2 DEF q
  <2>3. RequestInv(p, n, mark, disk, live, idx, objs)
    BY <2>1, <2>2 DEF RequestInv
  <2> QED
    BY <2>3 DEF n
<1>5. ASSUME NEW c \in Producers, Busy(new[c]) PROVE RequestInv(c, new[c], mark, disk, live, idx, objs)
  <2>1. CASE c = p
    BY <1>4, <2>1
  <2>2. CASE c # p
    BY <1>5, <2>2 DEF Clients
  <2> QED
    BY <2>1, <2>2
<1>6. ASSUME NEW tp \in Partitions, Free(tp, new) PROVE Below(tp, mark[tp], disk, live)
  <2>1. Free(tp, prods)
    BY <1>1, <1>6 DEF Free, SameRequest
  <2> QED
    BY <2>1 DEF Clients
<1> QED
  BY <1>5, <1>6 DEF Clients

\* The fields of a request whose pc moved.
LEMMA MovedFields ==
    ASSUME StoreTyped, NEW p \in Producers, producer[p].pc \in Appending, NEW pc, producer' = [producer EXCEPT ![p].pc = pc]
    PROVE  /\ \A c \in Producers \ {p} : producer'[c] = producer[c]
           /\ producer'[p].pc = pc /\ SameRequest(producer'[p], producer[p])
<1>1. RequestOK(producer[p])
  BY Incoming
<1>2. DOMAIN producer = Producers
  BY DEF StoreTyped
<1>3. producer'[p] = [producer[p] EXCEPT !.pc = pc] /\ \A c \in Producers \ {p} : producer'[c] = producer[c]
  BY <1>2
<1>4. producer[p] \in Requests
  BY <1>1 DEF RequestOK
<1> DEFINE q == producer[p]
           n == producer'[p]
<1>5. n = [q EXCEPT !.pc = pc] /\ q \in Requests
  BY <1>3, <1>4
<1> HIDE DEF q, n
<1>6. n.pc = pc /\ n.tp = q.tp /\ n.base = q.base /\ n.recs = q.recs /\ n.todo = q.todo
  BY <1>5 DEF Requests
<1> QED
  BY <1>3, <1>6 DEF SameRequest, q, n

\* AwaitCapacity.
LEMMA InvAwaitCapacity ==
    ASSUME StoreTyped, StoreInv, NEW p \in Producers, AwaitCapacity(p)
    PROVE  StoreInv'
<1>1. producer[p].pc = "capacity" /\ producer[p].pc \in Appending /\ producer' = [producer EXCEPT ![p].pc = "insert"]
  BY DEF AwaitCapacity, Appending
<1>2. /\ \A c \in Producers \ {p} : producer'[c] = producer[c]
      /\ producer'[p].pc = "insert" /\ SameRequest(producer'[p], producer[p])
  BY <1>1, MovedFields
<1>3. UNCHANGED <<index, wal, manifest, objects, hw, tier, compact, acked, faults>>
  BY DEF AwaitCapacity, storage, history
<1>4. Clients(producer', hw, wal.disk, manifest.live, index, objects)
  BY <1>1, <1>2, ClientsMoved DEF StoreInv, Busy
<1>5. Memory(index, wal.disk, manifest.live, producer')
  BY <1>1, <1>2, MemoryRequests DEF StoreInv
<1>6. Quiet'
  BY <1>3 DEF StoreInv, Quiet
<1> QED
  BY <1>3, <1>4, <1>5, <1>6 DEF StoreInv

\* Memory after the insert of the record that p appends next.
LEMMA MemoryInserted ==
    ASSUME NEW idx, Exact(idx), NEW new, Exact(new), NEW disk, NEW live, NEW prods, NEW prods2, NEW p \in Producers,
           \A s \in DOMAIN disk : disk[s] \in Seq(Record),
           Memory(idx, disk, live, prods), NEW rec \in Record, prods[p].pc = "insert",
           HotInserted(new, idx, rec.tp, rec.off, rec),
           \A c \in Producers \ {p} : prods2[c] = prods[c],
           \A c \in Producers : prods2[c].pc = "wal" => prods2[c].tp \in Partitions,
           prods2[p].pc = "wal", Head(prods2[p].todo) = rec, prods2[p].tp = rec.tp
    PROVE  Memory(new, disk, live, prods2)
<1> DEFINE tp == rec.tp
           off == rec.off
<1>1. tp \in Partitions /\ off \in Nat
  BY RecordFields
<1>2. /\ \A q \in Partitions \ {tp} : new.parts[q] = idx.parts[q]
      /\ DOMAIN new.parts[tp].hot = DOMAIN idx.parts[tp].hot \cup {off} /\ new.parts[tp].hot[off] = rec
      /\ \A o \in DOMAIN idx.parts[tp].hot : o # off => new.parts[tp].hot[o] = idx.parts[tp].hot[o]
      /\ new.parts[tp].cold = idx.parts[tp].cold
  BY DEF HotInserted, Elsewhere, Stored
<1>3. \A q \in Partitions : /\ new.parts[q].cold = idx.parts[q].cold /\ DOMAIN idx.parts[q].hot \subseteq DOMAIN new.parts[q].hot
        /\ idx.parts[q].next_offset \in Nat /\ new.parts[q].next_offset \in Nat
        /\ idx.parts[q].next_offset <= new.parts[q].next_offset
  BY <1>1, <1>2, IndexNaturals DEF HotInserted, Raised
<1>4. off < new.parts[tp].next_offset
  <2>1. off + 1 <= new.parts[tp].next_offset
    BY <1>1, <1>3 DEF HotInserted, Raised
  <2> QED
    BY <1>1, <1>3, <2>1
<1>5. ColdKnown(idx, live) /\ HotKnown(idx, disk, prods) /\ HotWaiting(idx, prods) /\ LogServed(idx, disk)
  BY DEF Memory
<1>6. ColdKnown(new, live)
  <2> SUFFICES ASSUME NEW q \in Partitions, NEW a \in DOMAIN new.parts[q].cold
               PROVE  /\ a \in DOMAIN live[q] /\ new.parts[q].cold[a] = live[q][a]
                      /\ new.parts[q].cold[a].end <= new.parts[q].next_offset
    BY DEF ColdKnown
  <2>1. new.parts[q].cold = idx.parts[q].cold
    BY <1>3
  <2>2. a \in DOMAIN live[q] /\ idx.parts[q].cold[a] = live[q][a] /\ idx.parts[q].cold[a].end <= idx.parts[q].next_offset
    BY <1>5, <2>1 DEF ColdKnown
  <2>3. idx.parts[q].cold[a].end \in Nat /\ idx.parts[q].next_offset \in Nat /\ new.parts[q].next_offset \in Nat
        /\ idx.parts[q].next_offset <= new.parts[q].next_offset
    BY <1>3, <2>1, IndexNaturals
  <2>4. idx.parts[q].cold[a].end <= new.parts[q].next_offset
    BY <2>2, <2>3, AtMost
  <2> QED
    BY <2>1, <2>2, <2>4
<1>7. \A r : InFlight(prods, r) => InFlight(prods2, r)
  <2> SUFFICES ASSUME NEW r, NEW c \in Producers, prods[c].pc = "wal", Head(prods[c].todo) = r PROVE InFlight(prods2, r)
    BY DEF InFlight
  <2>1. c # p
    OBVIOUS
  <2> QED
    BY <2>1 DEF InFlight
<1>8. HotKnown(new, disk, prods2)
  <2> SUFFICES ASSUME NEW q \in Partitions, NEW o \in DOMAIN new.parts[q].hot
               PROVE  /\ new.parts[q].hot[o].tp = q /\ new.parts[q].hot[o].off = o
                      /\ o < new.parts[q].next_offset
                      /\ Held(disk, new.parts[q].hot[o]) \/ InFlight(prods2, new.parts[q].hot[o])
    BY DEF HotKnown
  <2>1. CASE q = tp /\ o = off
    <3>1. InFlight(prods2, rec)
      BY DEF InFlight
    <3> QED
      BY <1>2, <1>4, <2>1, <3>1
  <2>2. CASE ~ (q = tp /\ o = off)
    <3>1. o \in DOMAIN idx.parts[q].hot /\ new.parts[q].hot[o] = idx.parts[q].hot[o]
      BY <1>2, <2>2
    <3>2. /\ idx.parts[q].hot[o].tp = q /\ idx.parts[q].hot[o].off = o /\ o < idx.parts[q].next_offset
          /\ Held(disk, idx.parts[q].hot[o]) \/ InFlight(prods, idx.parts[q].hot[o])
      BY <1>5, <3>1 DEF HotKnown
    <3>3. o \in Nat /\ idx.parts[q].next_offset \in Nat /\ new.parts[q].next_offset \in Nat
          /\ idx.parts[q].next_offset <= new.parts[q].next_offset
      BY <1>3, <3>1, IndexNaturals
    <3>4. o < new.parts[q].next_offset
      BY <3>2, <3>3
    <3> QED
      BY <1>7, <3>1, <3>2, <3>4
  <2> QED
    BY <2>1, <2>2
<1>9. HotWaiting(new, prods2)
  <2> SUFFICES ASSUME NEW c \in Producers, prods2[c].pc = "wal"
               PROVE  Head(prods2[c].todo).off \in DOMAIN new.parts[prods2[c].tp].hot
    BY DEF HotWaiting
  <2>1. CASE c = p
    BY <1>2, <2>1
  <2>2. CASE c # p
    BY <1>3, <1>5, <2>2 DEF HotWaiting
  <2> QED
    BY <2>1, <2>2
<1>10. LogServed(new, disk)
  <2> SUFFICES ASSUME NEW s \in DOMAIN disk, NEW i \in 1 .. Len(disk[s])
               PROVE  \/ disk[s][i].off \in DOMAIN new.parts[disk[s][i].tp].hot
                      \/ \E a \in DOMAIN new.parts[disk[s][i].tp].cold : Covers(new.parts[disk[s][i].tp].cold, a, disk[s][i].off)
    BY DEF LogServed
  <2>1. \/ disk[s][i].off \in DOMAIN idx.parts[disk[s][i].tp].hot
        \/ \E a \in DOMAIN idx.parts[disk[s][i].tp].cold : Covers(idx.parts[disk[s][i].tp].cold, a, disk[s][i].off)
    BY <1>5 DEF LogServed
  <2>2. disk[s][i] \in Record
    OBVIOUS
  <2>3. disk[s][i].tp \in Partitions
    BY <2>2, RecordFields
  <2> QED
    BY <1>3, <2>1, <2>3
<1> QED
  BY <1>6, <1>8, <1>9, <1>10 DEF Memory

\* What the tiering task has done stays done when the next record of a request is inserted.
LEMMA TiererInserted ==
    ASSUME StoreTyped, StoreInv, NEW new, NEW rec \in Record, HotInserted(new, index, rec.tp, rec.off, rec),
           Below(rec.tp, rec.off, wal.disk, manifest.live)
    PROVE  Tierer(tier, wal.disk, new, manifest.live, objects)
<1>1. TierDone(tier, wal.disk, index) /\ TierStored(tier, wal.disk, manifest.live, objects)
  BY DEF StoreInv, Tierer
<1>2. ASSUME tier.pc \in {"group"} \cup Working, ~ tier.fenced, NEW q \in TpsOf(wal.disk[tier.queue[1]]) \ tier.todo
      PROVE  Tiered(wal.disk[tier.queue[1]], q, new)
  <2> DEFINE seg == wal.disk[tier.queue[1]]
  <2>1. tier.pc \notin {"idle", "dead"}
    BY <1>2 DEF Working
  <2>2. tier.queue[1] \in DOMAIN wal.disk /\ seg \in Seq(Record)
    BY <2>1, TierQueue
  <2>3. OrderedSeq(seg)
    BY <2>2, SegmentOrdered DEF StoreInv, Archive
  <2>4. GroupFacts(seg, q) /\ q \in Partitions
    BY <1>2, <2>2, <2>3, GroupRange
  <2>5. Tiered(seg, q, index)
    BY <1>1, <1>2 DEF TierDone
  <2>6. CASE q # rec.tp
    <3>1. new.parts[q] = index.parts[q]
      BY <2>4, <2>6 DEF HotInserted, Elsewhere
    <3> QED
      BY <2>5, <3>1 DEF Tiered
  <2>7. CASE q = rec.tp
    <3>1. rec.off \in Nat
      BY RecordFields
    <3>2. EndIn(seg, q) <= rec.off
      BY <2>2, <2>4, <2>7, <3>1, GroupBelow
    <3>3. StartIn(seg, q) \in Nat /\ EndIn(seg, q) \in Nat
      BY <2>4 DEF GroupFacts
    <3>4. ~ (StartIn(seg, q) <= rec.off /\ rec.off < EndIn(seg, q))
      BY <3>1, <3>2, <3>3
    <3>5. new.parts[q].cold = index.parts[q].cold /\ DOMAIN new.parts[q].hot = DOMAIN index.parts[q].hot \cup {rec.off}
      BY <2>7 DEF HotInserted, Stored
    <3> QED
      BY <2>5, <3>4, <3>5 DEF Tiered
  <2> QED
    BY <2>6, <2>7
<1>3. TierDone(tier, wal.disk, new)
  BY <1>2 DEF TierDone
<1> QED
  BY <1>1, <1>3 DEF Tierer

\* InsertHot.
LEMMA InvInsertHot ==
    ASSUME StoreTyped, StoreInv, NEW p \in Producers, InsertHot(p)
    PROVE  StoreInv' /\ ColdKept(index', index)
<1> DEFINE rec == Head(producer[p].todo)
<1>1. producer[p].pc = "insert" /\ producer[p].pc \in Appending /\ producer' = [producer EXCEPT ![p].pc = "wal"]
  BY DEF InsertHot, Appending
<1>2. /\ \A c \in Producers \ {p} : producer'[c] = producer[c]
      /\ producer'[p].pc = "wal" /\ SameRequest(producer'[p], producer[p])
  BY <1>1, MovedFields
<1>3. UNCHANGED <<wal, manifest, objects, hw, tier, compact, acked, faults>>
  BY DEF InsertHot, storage, history
<1>4. HotInserted(index', index, rec.tp, rec.off, rec) /\ rec \in Record /\ StoreTyped'
  BY TypedInsertHot
<1>5. NextRecord(producer[p]) /\ Below(rec.tp, rec.off, wal.disk, manifest.live)
  BY <1>1, RequestAt
<1>6. rec.tp = producer[p].tp
  BY <1>5 DEF NextRecord
<1>7. Head(producer'[p].todo) = rec /\ producer'[p].tp = rec.tp
  BY <1>2, <1>6 DEF SameRequest
<1>8. Exact(index) /\ Exact(index') /\ WalOK(wal)
  BY <1>4 DEF StoreTyped
<1>9. \A c \in Producers : producer'[c].pc = "wal" => producer'[c].tp \in Partitions
  <2> SUFFICES ASSUME NEW c \in Producers, producer'[c].pc = "wal" PROVE producer'[c].tp \in Partitions
    OBVIOUS
  <2>1. CASE c = p
    BY <1>4, <1>7, <2>1, RecordFields
  <2>2. CASE c # p
    <3>1. producer[c].pc \in Appending /\ producer'[c] = producer[c]
      BY <1>2, <2>2 DEF Appending
    <3>2. NextRecord(producer[c])
      BY <3>1, RequestAt
    <3> QED
      BY <3>1, <3>2 DEF NextRecord
  <2> QED
    BY <2>1, <2>2
<1> HIDE DEF rec
<1>10. \A s \in DOMAIN wal.disk : wal.disk[s] \in Seq(Record)
  BY <1>8, WalFields
<1>11. Memory(index, wal.disk, manifest.live, producer)
  BY DEF StoreInv
<1>12. Memory(index', wal.disk, manifest.live, producer')
  <2>1. producer[p].pc = "insert" /\ producer'[p].pc = "wal"
    BY <1>1, <1>2
  <2>2. \A c \in Producers \ {p} : producer'[c] = producer[c]
    BY <1>2
  <2>3. HotInserted(index', index, rec.tp, rec.off, rec) /\ rec \in Record
    BY <1>4
  <2> QED
    BY <1>7, <1>8, <1>9, <1>10, <1>11, <2>1, <2>2, <2>3, MemoryInserted
<1>13. \A q \in Partitions : index'.parts[q].cold = index.parts[q].cold
  BY <1>4 DEF HotInserted, Elsewhere
<1>14. ColdStays(index, objects, index', objects) /\ ColdKept(index', index)
  BY <1>13 DEF ColdStays, ColdKept
<1>15. SafeStays(wal.disk, index, objects, wal.disk, index', objects)
  <2>1. \A r \in Record : Held(wal.disk, r) => Safe(r, wal.disk, index', objects)
    BY DEF Safe
  <2> QED
    BY <1>14, <2>1, SafeMoved
<1>16. Clients(producer, hw, wal.disk, manifest.live, index', objects)
  BY <1>15, BelowSame, ClientsStay DEF StoreInv, StoreTyped
<1>17. Clients(producer', hw, wal.disk, manifest.live, index', objects)
  BY <1>1, <1>2, <1>16, ClientsMoved DEF Busy
<1>18. AllSafe(acked, wal.disk, index', objects)
  BY <1>15, AllStay DEF StoreInv
<1>19. Tierer(tier, wal.disk, index', manifest.live, objects)
  BY <1>4, <1>5, TiererInserted
<1>20. Quiet' /\ Archive(wal, manifest.live, objects)
  BY <1>3 DEF StoreInv, Quiet
<1> QED
  BY <1>3, <1>12, <1>14, <1>17, <1>18, <1>19, <1>20 DEF StoreInv

\* A new request.
LEMMA StartedFields ==
    ASSUME Disciplined, StoreTyped, NEW p \in Producers, NEW tp \in Partitions, NEW n \in BatchSizes, NEW acks \in AckLevels,
           NEW size \in Sizes, ProduceStart(p, tp, n, acks, size)
    PROVE  /\ \A c \in Producers \ {p} : producer'[c] = producer[c]
           /\ producer'[p].pc = AppendNext /\ producer'[p].tp = tp /\ producer'[p].base = hw[tp]
           /\ producer'[p].recs = NewRecords(tp, n, size) /\ producer'[p].todo = NewRecords(tp, n, size)
           /\ tp \in Targets[p] /\ producer[p].pc = "idle"
<1>1. acks = "Leader"
  BY DEF Disciplined
<1>2. DOMAIN producer = Producers
  BY DEF StoreTyped
<1> DEFINE recs == NewRecords(tp, n, size)
           q == [pc |-> AppendNext, tp |-> tp, base |-> hw[tp], recs |-> recs, todo |-> recs]
<1>3. producer' = [producer EXCEPT ![p] = q] /\ tp \in Targets[p] /\ producer[p].pc = "idle"
  BY <1>1 DEF ProduceStart
<1> HIDE DEF recs
<1>4. q.pc = AppendNext /\ q.tp = tp /\ q.base = hw[tp] /\ q.recs = recs /\ q.todo = recs
  OBVIOUS
<1> HIDE DEF q
<1>5. producer'[p] = q /\ \A c \in Producers \ {p} : producer'[c] = producer[c]
  BY <1>2, <1>3
<1> QED
  BY <1>3, <1>4, <1>5 DEF recs

\* The records of a new request.
LEMMA NewOffsets ==
    ASSUME NEW tp \in Partitions, NEW n \in Nat, NEW size, hw[tp] \in Nat, NEW i \in 1 .. n
    PROVE  NewRecords(tp, n, size)[i].tp = tp /\ NewRecords(tp, n, size)[i].off = hw[tp] + (i - 1)
<1>1. NewRecords(tp, n, size)[i].tp = tp /\ NewRecords(tp, n, size)[i].off = hw[tp] + i - 1
  BY DEF NewRecords
<1> DEFINE b == hw[tp]
<1>2. b \in Nat
  OBVIOUS
<1> HIDE DEF b
<1>3. b + i - 1 = b + (i - 1)
  BY <1>2
<1> QED
  BY <1>1, <1>3 DEF b

\* A request that has appended nothing.
LEMMA RequestStarts ==
    ASSUME NEW p, NEW q, NEW mark, NEW disk, NEW live, NEW idx, NEW objs, q.tp \in Targets[p], q.pc \notin {"rollback", "commit"},
           q.base = mark[q.tp], mark[q.tp] \in Nat, NEW recs \in Seq(Record), q.recs = recs, q.todo = recs,
           \A i \in 1 .. Len(recs) : recs[i].tp = q.tp /\ recs[i].off = q.base + (i - 1),
           Below(q.tp, mark[q.tp], disk, live)
    PROVE  RequestInv(p, q, mark, disk, live, idx, objs)
<1>1. Len(recs) \in Nat
  OBVIOUS
<1>2. Written(q) = Len(recs) - Len(recs)
  BY DEF Written
<1>3. Written(q) = 0
  BY <1>1, <1>2
<1>4. q.base + Written(q) = mark[q.tp]
  <2> DEFINE b == q.base
  <2>1. b \in Nat
    OBVIOUS
  <2> HIDE DEF b
  <2>2. b + 0 = b
    BY <2>1
  <2> QED
    BY <1>3, <2>2 DEF b
<1>5. \A k \in 1 .. Len(recs) : recs[k] = recs[Written(q) + k]
  BY <1>1, <1>3
<1>6. \A i \in 1 .. Written(q) : Safe(q.recs[i], disk, idx, objs)
  BY <1>3
<1>7. Len(recs) <= Len(recs)
  BY <1>1
<1> QED
  BY <1>4, <1>5, <1>6, <1>7 DEF RequestInv

\* ProduceStart.
LEMMA InvProduceStart ==
    ASSUME Orderly, StoreTyped, StoreInv, NEW p \in Producers, NEW tp \in Partitions, NEW n \in BatchSizes,
           NEW acks \in AckLevels, NEW size \in Sizes, ProduceStart(p, tp, n, acks, size)
    PROVE  StoreInv'
<1> DEFINE recs == NewRecords(tp, n, size)
<1>1. /\ \A c \in Producers \ {p} : producer'[c] = producer[c]
      /\ producer'[p].pc = AppendNext /\ producer'[p].tp = tp /\ producer'[p].base = hw[tp]
      /\ producer'[p].recs = recs /\ producer'[p].todo = recs
      /\ tp \in Targets[p] /\ producer[p].pc = "idle"
  BY StartedFields DEF Orderly
<1>2. recs \in Seq(Record) /\ Len(recs) = n /\ n \in Nat /\ hw[tp] \in Nat
  BY NewRecordsTyped
<1>3. \A i \in 1 .. Len(recs) : recs[i].tp = tp /\ recs[i].off = hw[tp] + (i - 1)
  BY <1>2, NewOffsets
<1>4. UNCHANGED <<index, wal, manifest, objects, hw, tier, compact, acked, faults>>
  BY DEF ProduceStart, storage
<1>5. Clients(producer, hw, wal.disk, manifest.live, index, objects)
  BY DEF StoreInv
<1>6. ASSUME NEW c \in Producers \ {p}, Busy(producer[c]) PROVE producer[c].tp # tp
  BY <1>1, <1>5, <1>6, RequestsApart
<1>7. Free(tp, producer)
  BY <1>1, <1>6 DEF Free, Busy
<1>8. Below(tp, hw[tp], wal.disk, manifest.live)
  BY <1>5, <1>7 DEF Clients
<1> HIDE DEF recs
<1>9. AppendNext \in {"insert", "capacity"}
  BY DEF AppendNext
<1>10. RequestInv(p, producer'[p], hw, wal.disk, manifest.live, index, objects)
  <2> DEFINE q == producer'[p]
  <2>1. q.tp \in Targets[p] /\ q.pc \notin {"rollback", "commit"} /\ q.base = hw[q.tp] /\ q.recs = recs /\ q.todo = recs
        /\ hw[q.tp] \in Nat /\ Below(q.tp, hw[q.tp], wal.disk, manifest.live)
        /\ \A i \in 1 .. Len(recs) : recs[i].tp = q.tp /\ recs[i].off = q.base + (i - 1)
    BY <1>1, <1>2, <1>3, <1>8, <1>9
  <2> HIDE DEF q
  <2>2. RequestInv(p, q, hw, wal.disk, manifest.live, index, objects)
    BY <1>2, <2>1, RequestStarts
  <2> QED
    BY <2>2 DEF q
<1>11. Clients(producer', hw, wal.disk, manifest.live, index, objects)
  <2>1. ASSUME NEW c \in Producers, Busy(producer'[c])
        PROVE  RequestInv(c, producer'[c], hw, wal.disk, manifest.live, index, objects)
    <3>1. CASE c = p
      BY <1>10, <3>1
    <3>2. CASE c # p
      BY <1>1, <1>5, <2>1, <3>2 DEF Clients
    <3> QED
      BY <3>1, <3>2
  <2>2. ASSUME NEW q \in Partitions, Free(q, producer') PROVE Below(q, hw[q], wal.disk, manifest.live)
    <3>1. Free(q, producer)
      BY <1>1, <2>2 DEF Free, Busy
    <3> QED
      BY <1>5, <3>1 DEF Clients
  <2> QED
    BY <2>1, <2>2 DEF Clients
<1>12. Memory(index, wal.disk, manifest.live, producer')
  <2>1. \A c \in Producers : producer[c].pc = "wal" \/ producer'[c].pc = "wal" => producer'[c] = producer[c]
    BY <1>1, <1>9
  <2>2. Memory(index, wal.disk, manifest.live, producer)
    BY DEF StoreInv
  <2> QED
    BY <2>1, <2>2, MemoryRequests
<1>13. Quiet'
  BY <1>4 DEF StoreInv, Quiet
<1> QED
  BY <1>4, <1>11, <1>12, <1>13 DEF StoreInv

\* ProduceCommit.
LEMMA InvProduceCommit ==
    ASSUME Orderly, StoreTyped, StoreInv, NEW p \in Producers, ProduceCommit(p)
    PROVE  StoreInv'
<1> DEFINE q == producer[p]
<1>1. /\ q.pc = "commit" /\ hw' = [hw EXCEPT ![q.tp] = q.base + Len(q.recs)]
      /\ acked' = acked \cup ToSet(q.recs) /\ producer' = [producer EXCEPT ![p] = IdleProducer]
  BY DEF ProduceCommit
<1>2. UNCHANGED <<index, wal, manifest, objects, tier, compact, faults>>
  BY DEF ProduceCommit, storage
<1>3. DOMAIN producer = Producers /\ hw \in [Partitions -> Ends] /\ ProducerOK(q)
  BY DEF StoreTyped
<1>4. producer'[p].pc = "idle" /\ \A c \in Producers \ {p} : producer'[c] = producer[c]
  BY <1>1, <1>3 DEF IdleProducer
<1>5. RequestOK(q) /\ Busy(q)
  BY <1>1, <1>3 DEF ProducerOK, IdleProducer, Busy
<1>6. q.tp \in Partitions /\ q.base \in Nat /\ q.recs \in Seq(Record) /\ Len(q.recs) \in Nat
  BY <1>5, StoreConstants DEF RequestOK, Requests, Ends
<1>7. Clients(producer, hw, wal.disk, manifest.live, index, objects)
  BY DEF StoreInv
<1>8. RequestInv(p, q, hw, wal.disk, manifest.live, index, objects)
  BY <1>5, <1>7 DEF Clients
<1>9. q.todo = <<>> /\ q.tp \in Targets[p]
  BY <1>1, <1>8 DEF RequestInv
<1> HIDE DEF q
<1>10. Written(q) = Len(q.recs)
  <2>1. Written(q) = Len(q.recs) - 0
    BY <1>9 DEF Written
  <2> QED
    BY <1>6, <2>1
<1>11. /\ Below(q.tp, q.base + Len(q.recs), wal.disk, manifest.live)
       /\ \A i \in 1 .. Len(q.recs) : Safe(q.recs[i], wal.disk, index, objects)
  BY <1>8, <1>10 DEF RequestInv
<1>12. /\ hw'[q.tp] = q.base + Len(q.recs) /\ \A tp \in Partitions \ {q.tp} : hw'[tp] = hw[tp]
  BY <1>1, <1>3, <1>6
<1>13. ASSUME NEW c \in Producers \ {p}, Busy(producer[c]) PROVE producer[c].tp # q.tp
  BY <1>7, <1>9, <1>13, RequestsApart
<1>14. Clients(producer', hw', wal.disk, manifest.live, index, objects)
  <2>1. ASSUME NEW c \in Producers, Busy(producer'[c])
        PROVE  RequestInv(c, producer'[c], hw', wal.disk, manifest.live, index, objects)
    <3>1. c # p /\ producer'[c] = producer[c] /\ Busy(producer[c])
      BY <1>4, <2>1 DEF Busy
    <3>2. RequestInv(c, producer[c], hw, wal.disk, manifest.live, index, objects)
      BY <1>7, <3>1 DEF Clients
    <3>3. producer[c].tp # q.tp
      BY <1>13, <3>1
    <3>4. producer[c].tp \in Partitions
      <4>1. ProducerOK(producer[c])
        BY DEF StoreTyped
      <4>2. RequestOK(producer[c])
        BY <3>1, <4>1 DEF ProducerOK, Busy, IdleProducer
      <4> QED
        BY <4>2 DEF RequestOK, Requests
    <3>5. hw'[producer[c].tp] = hw[producer[c].tp]
      BY <1>12, <3>3, <3>4
    <3> DEFINE b == producer[c]
    <3>6. b.base = hw'[b.tp]
      BY <3>2, <3>5 DEF RequestInv
    <3> HIDE DEF b
    <3>7. RequestInv(c, b, hw', wal.disk, manifest.live, index, objects)
      BY <3>2, <3>6 DEF RequestInv, b
    <3> QED
      BY <3>1, <3>7 DEF b
  <2>2. ASSUME NEW tp \in Partitions, Free(tp, producer') PROVE Below(tp, hw'[tp], wal.disk, manifest.live)
    <3>1. CASE tp = q.tp
      BY <1>11, <1>12, <3>1
    <3>2. CASE tp # q.tp
      <4>1. Free(tp, producer)
        BY <1>4, <2>2, <3>2 DEF Free, q
      <4> QED
        BY <1>7, <1>12, <3>2, <4>1 DEF Clients
    <3> QED
      BY <3>1, <3>2
  <2> QED
    BY <2>1, <2>2 DEF Clients
<1>15. AllSafe(acked', wal.disk, index, objects)
  <2>1. AllSafe(acked, wal.disk, index, objects)
    BY DEF StoreInv
  <2>2. \A r \in ToSet(q.recs) : r \in Record /\ Safe(r, wal.disk, index, objects)
    BY <1>6, <1>11 DEF ToSet
  <2>3. acked' = acked \cup ToSet(q.recs)
    BY <1>1 DEF q
  <2> QED
    BY <2>1, <2>2, <2>3 DEF AllSafe
<1>16. Memory(index, wal.disk, manifest.live, producer')
  <2>1. \A c \in Producers : producer[c].pc = "wal" \/ producer'[c].pc = "wal" => producer'[c] = producer[c]
    BY <1>1, <1>4 DEF q
  <2>2. Memory(index, wal.disk, manifest.live, producer)
    BY DEF StoreInv
  <2> QED
    BY <2>1, <2>2, MemoryRequests
<1>17. Quiet' /\ Archive(wal, manifest.live, objects) /\ Tierer(tier, wal.disk, index, manifest.live, objects)
  BY <1>2 DEF StoreInv, Quiet
<1> QED
  BY <1>2, <1>14, <1>15, <1>16, <1>17 DEF StoreInv

\* A bound for a log with one more record.
LEMMA BelowAppended ==
    ASSUME NEW w, WalOK(w), NEW v, NEW rec, OneMore(v, w, rec), NEW live \in [Partitions -> Colds], NEW tp \in Partitions,
           NEW b \in Nat, NEW c \in Nat, b <= c, Below(tp, b, w.disk, live), rec.tp = tp => rec.off < c
    PROVE  Below(tp, c, v.disk, live)
<1>1. ASSUME NEW s \in DOMAIN v.disk, NEW i \in 1 .. Len(v.disk[s]), v.disk[s][i].tp = tp PROVE v.disk[s][i].off < c
  <2>1. s \in DOMAIN w.disk
    BY DEF OneMore
  <2>2. \/ i \in 1 .. Len(w.disk[s]) /\ v.disk[s][i] = w.disk[s][i]
        \/ v.disk[s][i] = rec
    BY <2>1 DEF OneMore
  <2>3. CASE v.disk[s][i] = rec
    BY <1>1, <2>3
  <2>4. CASE i \in 1 .. Len(w.disk[s]) /\ v.disk[s][i] = w.disk[s][i]
    <3>1. w.disk[s][i] \in Record
      BY <2>1, <2>4, WalFields
    <3>2. w.disk[s][i].off \in Nat
      BY <3>1, RecordFields
    <3>3. w.disk[s][i].off < b
      BY <1>1, <2>1, <2>4 DEF Below
    <3>4. w.disk[s][i].off < c
      BY <3>2, <3>3
    <3> QED
      BY <2>4, <3>4
  <2> QED
    BY <2>2, <2>3, <2>4
<1>2. ASSUME NEW a \in DOMAIN live[tp] PROVE live[tp][a].end <= c
  <2>1. live[tp][a].end \in Nat
    BY RangeNaturals
  <2>2. live[tp][a].end <= b
    BY DEF Below
  <2> QED
    BY <2>1, <2>2, AtMost
<1> QED
  BY <1>1, <1>2 DEF Below

\* A request whose next record was appended.
LEMMA RequestGrows ==
    ASSUME NEW p, NEW q, NEW n, NEW mark, NEW w, WalOK(w), NEW v, NEW live \in [Partitions -> Colds], NEW idx, NEW objs,
           RequestInv(p, q, mark, w.disk, live, idx, objs), NextRecord(q), q.recs \in Seq(Record), q.todo \in Seq(Record),
           OneMore(v, w, Head(q.todo)), n.tp = q.tp, n.base = q.base, n.recs = q.recs, n.todo = Tail(q.todo),
           n.pc # "rollback", n.pc = "commit" => n.todo = <<>>
    PROVE  RequestInv(p, n, mark, v.disk, live, idx, objs)
<1> DEFINE k == Written(q)
           l == Len(q.recs)
           m == Len(q.todo)
           b == q.base
           rec == Head(q.todo)
<1>1. /\ rec \in Record /\ rec.tp = q.tp /\ rec.off = b + k /\ rec = q.recs[k + 1] /\ k \in Nat /\ b \in Nat
      /\ l \in Nat /\ m \in Nat /\ m > 0 /\ q.tp \in Partitions /\ b + k \in Nat
  BY DEF NextRecord
<1>2. m <= l
  BY DEF RequestInv
<1>3. k = l - m
  BY DEF Written
<1>4. Len(n.todo) = m - 1 /\ \A i \in 1 .. m - 1 : n.todo[i] = q.todo[i + 1]
  <2>1. q.todo # <<>>
    BY <1>1
  <2> QED
    BY <2>1, HeadTailProperties
<1>5. Written(n) = l - (m - 1)
  BY <1>4 DEF Written
<1> HIDE DEF k, l, m, b, rec
<1>6. Written(n) = k + 1 /\ m - 1 \in Nat /\ m - 1 <= l
  BY <1>1, <1>2, <1>3, <1>5
<1>7. \A i \in 1 .. m - 1 : n.todo[i] = q.recs[Written(n) + i]
  <2> SUFFICES ASSUME NEW i \in 1 .. m - 1 PROVE n.todo[i] = q.recs[Written(n) + i]
    OBVIOUS
  <2>1. i + 1 \in 1 .. m /\ (k + 1) + i = k + (i + 1)
    BY <1>1, <1>6
  <2>2. q.todo[i + 1] = q.recs[k + (i + 1)]
    BY <2>1 DEF RequestInv, k, m
  <2> QED
    BY <1>4, <1>6, <2>1, <2>2
<1>8. b + (k + 1) \in Nat /\ b + k <= b + (k + 1) /\ b + k < b + (k + 1)
  BY <1>1
<1>9. Below(q.tp, b + k, w.disk, live)
  BY DEF RequestInv, b, k
<1>10. Below(q.tp, b + (k + 1), v.disk, live)
  BY <1>1, <1>8, <1>9, BelowAppended DEF rec
<1>11. \A i \in 1 .. k + 1 : Safe(q.recs[i], v.disk, idx, objs)
  <2> SUFFICES ASSUME NEW i \in 1 .. k + 1 PROVE Safe(q.recs[i], v.disk, idx, objs)
    OBVIOUS
  <2>1. CASE i = k + 1
    BY <1>1, <2>1, HeldAppended DEF Safe, rec
  <2>2. CASE i # k + 1
    <3>1. i \in 1 .. k
      BY <1>1, <2>2
    <3>2. Safe(q.recs[i], w.disk, idx, objs)
      BY <3>1 DEF RequestInv, k
    <3>3. i \in 1 .. l
      BY <1>1, <1>2, <1>3, <3>1
    <3>4. q.recs[i] \in Record
      BY <3>3 DEF l
    <3>5. SafeStays(w.disk, idx, objs, v.disk, idx, objs)
      BY SafeGrown
    <3> QED
      BY <3>2, <3>4, <3>5 DEF SafeStays
  <2> QED
    BY <2>1, <2>2
<1>12. n.tp \in Targets[p] /\ n.base = mark[n.tp]
  BY DEF RequestInv
<1>13. \A i \in 1 .. Len(n.recs) : n.recs[i].tp = n.tp /\ n.recs[i].off = n.base + (i - 1)
  BY DEF RequestInv
<1>14. Len(n.todo) <= Len(n.recs) /\ \A i \in 1 .. Len(n.todo) : n.todo[i] = n.recs[Written(n) + i]
  BY <1>4, <1>6, <1>7 DEF l
<1>15. Below(n.tp, n.base + Written(n), v.disk, live) /\ \A i \in 1 .. Written(n) : Safe(n.recs[i], v.disk, idx, objs)
  BY <1>6, <1>10, <1>11 DEF b
<1> QED
  BY <1>12, <1>13, <1>14, <1>15 DEF RequestInv

\* The requests after an append of p.
LEMMA ClientsAppended ==
    ASSUME Orderly, NEW prods, \A c \in Producers : ProducerOK(prods[c]), NEW new, NEW mark \in [Partitions -> Ends],
           NEW w, WalOK(w), NEW v, NEW live \in [Partitions -> Colds], NEW idx, NEW objs, NEW rec \in Record,
           Clients(prods, mark, w.disk, live, idx, objs), OneMore(v, w, rec), NEW p \in Producers,
           \A c \in Producers \ {p} : new[c] = prods[c], RequestInv(p, new[p], mark, v.disk, live, idx, objs),
           Busy(new[p]), Busy(prods[p]), new[p].tp = rec.tp, prods[p].tp = rec.tp
    PROVE  Clients(new, mark, v.disk, live, idx, objs)
<1>1. rec.tp \in Targets[p]
  BY DEF RequestInv
<1>2. SafeStays(w.disk, idx, objs, v.disk, idx, objs)
  BY SafeGrown
<1>3. ASSUME NEW tp \in Partitions, tp # rec.tp, NEW b \in Nat, Below(tp, b, w.disk, live)
      PROVE  Below(tp, b, v.disk, live)
  <2>1. b <= b
    OBVIOUS
  <2> QED
    BY <1>3, <2>1, BelowAppended
<1>4. ASSUME NEW c \in Producers, Busy(new[c]) PROVE RequestInv(c, new[c], mark, v.disk, live, idx, objs)
  <2>1. CASE c = p
    BY <2>1
  <2>2. CASE c # p
    <3> DEFINE q == prods[c]
    <3>1. new[c] = q /\ Busy(q) /\ RequestInv(c, q, mark, w.disk, live, idx, objs)
      BY <1>4, <2>2 DEF Clients
    <3>2. q.tp # rec.tp
      BY <1>1, <2>2, <3>1, RequestsApart
    <3>3. RequestOK(q)
      BY <3>1 DEF ProducerOK, Busy, IdleProducer
    <3>4. q.tp \in Partitions /\ q.base \in Nat /\ q.recs \in Seq(Record) /\ q.todo \in Seq(Record)
      BY <3>3, StoreConstants DEF RequestOK, Requests, Ends
    <3>5. Len(q.recs) \in Nat /\ Len(q.todo) \in Nat /\ Len(q.todo) <= Len(q.recs)
      BY <3>1, <3>4 DEF RequestInv
    <3>6. Written(q) \in Nat /\ Written(q) <= Len(q.recs) /\ q.base + Written(q) \in Nat
      BY <3>4, <3>5, WrittenFields
    <3>7. Below(q.tp, q.base + Written(q), v.disk, live)
      BY <1>3, <3>1, <3>2, <3>4, <3>6 DEF RequestInv
    <3>8. \A i \in 1 .. Written(q) : Safe(q.recs[i], v.disk, idx, objs)
      <4> SUFFICES ASSUME NEW i \in 1 .. Written(q) PROVE Safe(q.recs[i], v.disk, idx, objs)
        OBVIOUS
      <4>1. q.recs[i] \in Record
        BY <3>4, <3>5, <3>6
      <4> QED
        BY <1>2, <3>1, <4>1 DEF RequestInv, SafeStays
    <3>9. RequestInv(c, q, mark, v.disk, live, idx, objs)
      BY <3>1, <3>7, <3>8 DEF RequestInv
    <3> QED
      BY <3>1, <3>9
  <2> QED
    BY <2>1, <2>2
<1>5. ASSUME NEW tp \in Partitions, Free(tp, new) PROVE Below(tp, mark[tp], v.disk, live)
  <2>1. tp # rec.tp
    BY <1>5 DEF Free
  <2>2. Free(tp, prods)
    BY <1>5, <2>1 DEF Free
  <2>3. mark[tp] \in Nat
    BY StoreConstants DEF Ends
  <2> QED
    BY <1>3, <2>1, <2>2, <2>3 DEF Clients
<1> QED
  BY <1>4, <1>5 DEF Clients

\* The tail of a sequence of one element is empty.
LEMMA LastOne ==
    ASSUME NEW R, NEW s \in Seq(R), Len(s) > 0, ~ (Len(s) > 1)
    PROVE  Tail(s) = <<>>
<1> DEFINE n == Len(s)
<1>0. n \in Nat /\ n > 0 /\ ~ (n > 1)
  BY LenProperties
<1> HIDE DEF n
<1>1a. n = 1
  BY <1>0
<1>1. Len(s) = 1
  BY <1>1a DEF n
<1>2. s # <<>>
  BY <1>1
<1>3. Tail(s) \in Seq(R) /\ Len(Tail(s)) = Len(s) - 1
  BY <1>2, HeadTailProperties
<1>4. Len(Tail(s)) = 0
  BY <1>1, <1>3
<1> DEFINE t == Tail(s)
<1> HIDE DEF t
<1>5. t \in Seq(R) /\ Len(t) = 0
  BY <1>3, <1>4 DEF t
<1>6. t = <<>>
  BY <1>5
<1> QED
  BY <1>6 DEF t

\* Memory after the append of the record that p appends next.
LEMMA MemoryAppended ==
    ASSUME NEW w, WalOK(w), NEW v, NEW rec \in Record, OneMore(v, w, rec), NEW idx, NEW live, NEW prods, NEW new,
           Memory(idx, w.disk, live, prods), NEW p \in Producers, prods[p].pc = "wal", Head(prods[p].todo) = rec,
           prods[p].tp = rec.tp, new[p].pc # "wal", \A c \in Producers \ {p} : new[c] = prods[c]
    PROVE  Memory(idx, v.disk, live, new)
<1>1. ColdKnown(idx, live) /\ HotKnown(idx, w.disk, prods) /\ HotWaiting(idx, prods) /\ LogServed(idx, w.disk)
  BY DEF Memory
<1>2. \A r : Held(w.disk, r) => Held(v.disk, r)
  BY HeldStays
<1>3. ASSUME NEW r, InFlight(prods, r) PROVE Held(v.disk, r) \/ InFlight(new, r)
  <2>1. PICK c \in Producers : prods[c].pc = "wal" /\ Head(prods[c].todo) = r
    BY <1>3 DEF InFlight
  <2>2. CASE c = p
    BY <2>1, <2>2, HeldAppended
  <2>3. CASE c # p
    BY <2>1, <2>3 DEF InFlight
  <2> QED
    BY <2>2, <2>3
<1>4. HotKnown(idx, v.disk, new)
  BY <1>1, <1>2, <1>3 DEF HotKnown
<1>5. HotWaiting(idx, new)
  BY <1>1 DEF HotWaiting
<1>6. LogServed(idx, v.disk)
  <2> SUFFICES ASSUME NEW s \in DOMAIN v.disk, NEW i \in 1 .. Len(v.disk[s])
               PROVE  \/ v.disk[s][i].off \in DOMAIN idx.parts[v.disk[s][i].tp].hot
                      \/ \E a \in DOMAIN idx.parts[v.disk[s][i].tp].cold : Covers(idx.parts[v.disk[s][i].tp].cold, a, v.disk[s][i].off)
    BY DEF LogServed
  <2>1. s \in DOMAIN w.disk
    BY DEF OneMore
  <2>2. \/ i \in 1 .. Len(w.disk[s]) /\ v.disk[s][i] = w.disk[s][i]
        \/ v.disk[s][i] = rec
    BY <2>1 DEF OneMore
  <2>3. CASE v.disk[s][i] = rec
    BY <1>1, <2>3 DEF HotWaiting
  <2>4. CASE i \in 1 .. Len(w.disk[s]) /\ v.disk[s][i] = w.disk[s][i]
    BY <1>1, <2>1, <2>4 DEF LogServed
  <2> QED
    BY <2>2, <2>3, <2>4
<1> QED
  BY <1>1, <1>4, <1>5, <1>6 DEF Memory

\* The tiering task reads its segment only.
LEMMA TiererDisk ==
    ASSUME NEW t, NEW disk, NEW disk2, NEW idx, NEW live, NEW objs, Tierer(t, disk, idx, live, objs),
           t.pc \notin {"idle", "dead", "segment"} => disk2[t.queue[1]] = disk[t.queue[1]]
    PROVE  Tierer(t, disk2, idx, live, objs)
<1>1. CASE t.pc \in {"idle", "dead", "segment"}
  BY <1>1, TiererIdle
<1>2. CASE t.pc \notin {"idle", "dead", "segment"}
  BY <1>2 DEF Tierer, TierDone, TierStored
<1> QED
  BY <1>1, <1>2

\* The log after the append of a record.
LEMMA LogAppended ==
    ASSUME Disciplined, NEW w, WalOK(w), w.tail = <<>>, NEW rec \in Record, NEW v, v = handle_append(w, rec, FsyncOnWrite)
    PROVE  OneMore(v, w, rec) /\ v.tail = <<>> /\ WalOK(v)
<1>1. FsyncOnWrite /\ FsyncOnWrite \in BOOLEAN
  BY StoreConstants DEF Disciplined
<1>2. Append(w.tail, rec) = <<rec>>
  OBVIOUS
<1>3. WalOK(v) /\ Appended(v, w, Append(w.tail, rec)) /\ v.tail = <<>>
  BY <1>1, AppendFields
<1>4. OneMore(v, w, rec)
  BY <1>2, <1>3, AppendedOne
<1> QED
  BY <1>3, <1>4

\* WalAppend.
LEMMA InvWalAppend ==
    ASSUME Orderly, StoreTyped, StoreInv, NEW p \in Producers, WalAppend(p)
    PROVE  StoreInv'
<1> DEFINE q == producer[p]
           rec == Head(q.todo)
<1>1. q.pc = "wal" /\ q.pc \in Appending /\ wal' = handle_append(wal, rec, FsyncOnWrite)
  BY DEF WalAppend, Appending
<1>2. UNCHANGED <<index, manifest, objects, hw, tier, compact, acked, faults>>
  BY DEF WalAppend, history
<1>3. /\ RequestOK(q) /\ \A c \in Producers \ {p} : producer'[c] = producer[c]
      /\ producer'[p].pc = IF Len(q.todo) > 1 THEN AppendNext ELSE "commit"
      /\ producer'[p].tp = q.tp /\ producer'[p].base = q.base
      /\ producer'[p].recs = q.recs /\ producer'[p].todo = Tail(q.todo)
  BY RequestAppended
<1>4. /\ RequestInv(p, q, hw, wal.disk, manifest.live, index, objects) /\ NextRecord(q)
      /\ Below(rec.tp, rec.off, wal.disk, manifest.live)
  BY <1>1, RequestAt
<1>5. rec \in Record /\ rec.tp = q.tp /\ Len(q.todo) \in Nat /\ Len(q.todo) > 0
  BY <1>4 DEF NextRecord
<1>6. WalOK(wal) /\ wal.tail = <<>> /\ manifest.live \in [Partitions -> Colds] /\ hw \in [Partitions -> Ends]
      /\ \A c \in Producers : ProducerOK(producer[c])
  BY DEF StoreTyped, StoreInv, Quiet, Manifests
<1>7. OneMore(wal', wal, rec) /\ wal'.tail = <<>>
  BY <1>1, <1>5, <1>6, LogAppended DEF Orderly
<1>8. q.recs \in Seq(Record) /\ q.todo \in Seq(Record)
  BY <1>3 DEF RequestOK, Requests
<1>9. /\ producer'[p].pc \notin {"rollback", "wal", "idle"}
      /\ producer'[p].pc = "commit" => producer'[p].todo = <<>>
  <2>1. CASE Len(q.todo) > 1
    BY <1>3, <2>1 DEF AppendNext
  <2>2. CASE ~ (Len(q.todo) > 1)
    <3>1. \A s \in Seq(Record) : Len(s) > 0 /\ ~ (Len(s) > 1) => Tail(s) = <<>>
      BY LastOne
    <3>2. Tail(q.todo) = <<>>
      BY <1>5, <1>8, <2>2, <3>1
    <3> QED
      BY <1>3, <2>2, <3>2
  <2> QED
    BY <2>1, <2>2
<1>10. RequestInv(p, producer'[p], hw, wal'.disk, manifest.live, index, objects)
  <2> DEFINE n == producer'[p]
  <2>1. n.tp = q.tp /\ n.base = q.base /\ n.recs = q.recs /\ n.todo = Tail(q.todo) /\ n.pc # "rollback"
        /\ (n.pc = "commit" => n.todo = <<>>)
    BY <1>3, <1>9
  <2> HIDE DEF n, q
  <2>2. RequestInv(p, n, hw, wal'.disk, manifest.live, index, objects)
    BY <1>4, <1>6, <1>7, <1>8, <2>1, RequestGrows
  <2> QED
    BY <2>2 DEF n
<1>11. Clients(producer', hw, wal'.disk, manifest.live, index, objects)
  <2>1. Clients(producer, hw, wal.disk, manifest.live, index, objects)
    BY DEF StoreInv
  <2>2. Busy(producer'[p]) /\ Busy(producer[p])
    BY <1>1, <1>9 DEF Busy
  <2>3. \A c \in Producers \ {p} : producer'[c] = producer[c]
    BY <1>3
  <2>4. producer'[p].tp = rec.tp /\ producer[p].tp = rec.tp
    BY <1>3, <1>5
  <2> HIDE DEF rec
  <2> QED
    BY <1>5, <1>6, <1>7, <1>10, <2>1, <2>2, <2>3, <2>4, ClientsAppended
<1>12. Memory(index, wal'.disk, manifest.live, producer')
  <2>1. Memory(index, wal.disk, manifest.live, producer)
    BY DEF StoreInv
  <2>2. \A c \in Producers \ {p} : producer'[c] = producer[c]
    BY <1>3
  <2>3. producer'[p].pc # "wal" /\ producer[p].pc = "wal" /\ Head(producer[p].todo) = rec /\ producer[p].tp = rec.tp
    BY <1>1, <1>5, <1>9
  <2>4. rec \in Record /\ WalOK(wal) /\ OneMore(wal', wal, rec)
    BY <1>5, <1>6, <1>7
  <2> HIDE DEF rec, q
  <2> QED
    BY <2>1, <2>2, <2>3, <2>4, MemoryAppended
<1> HIDE DEF rec
<1>13. Archive(wal', manifest.live, objects)
  BY <1>4, <1>7, ArchiveAppended DEF StoreInv
<1>14. AllSafe(acked, wal'.disk, index, objects)
  BY <1>7, SafeGrown, AllStay DEF StoreInv
<1>15. Tierer(tier, wal'.disk, index, manifest.live, objects)
  <2>1. ASSUME tier.pc \notin {"idle", "dead", "segment"} PROVE wal'.disk[tier.queue[1]] = wal.disk[tier.queue[1]]
    <3>1. tier.queue[1] < wal.active /\ tier.queue[1] \in DOMAIN wal.disk /\ tier.queue[1] \in Nat
      BY <2>1, TierQueue
    <3>2. wal.active \in Nat
      BY <1>6, WalFields
    <3>3. tier.queue[1] # wal.active
      BY <3>1, <3>2
    <3> QED
      BY <1>7, <3>1, <3>3 DEF OneMore
  <2>2. Tierer(tier, wal.disk, index, manifest.live, objects)
    BY DEF StoreInv
  <2> QED
    BY <2>1, <2>2, TiererDisk
<1>16. Quiet'
  BY <1>2, <1>7 DEF StoreInv, Quiet
<1> QED
  BY <1>2, <1>11, <1>12, <1>13, <1>14, <1>15, <1>16 DEF StoreInv

-------------------------------------------------------------------------------
(* Crashes, and the whole specification.                                   *)

\* With every record synced, a crash keeps the records of the log.
LEMMA CrashSame ==
    ASSUME StoreTyped, StoreInv, CrashRestart
    PROVE  SameRecords(wal', wal) /\ WalOK(wal') /\ wal'.tail = <<>>
<1>1. WalOK(wal) /\ wal.tail = <<>>
  BY DEF StoreTyped, StoreInv, Quiet
<1>2. PICK disk \in CrashDisks(wal) : wal' = wal_new(disk)
  BY DEF CrashRestart
<1>3. WalOK(wal') /\ \E l \in 0 .. Len(wal.tail) : Rotated(wal', wal, SubSeq(wal.tail, 1, l))
  BY <1>1, <1>2, CrashFields
<1>4. \A l \in 0 .. Len(wal.tail) : SubSeq(wal.tail, 1, l) = <<>>
  BY <1>1
<1>5. Rotated(wal', wal, <<>>)
  BY <1>3, <1>4
<1>6. <<>> \in Seq(Record)
  OBVIOUS
<1>7. SameRecords(wal', wal)
  BY <1>1, <1>3, <1>5, <1>6, RotatedSame
<1> QED
  BY <1>3, <1>5, <1>7 DEF Rotated

\* There are no orphans to delete.
LEMMA CrashObjects ==
    ASSUME StoreTyped, StoreInv, CrashRestart
    PROVE  ObjectsKept(objects', objects, manifest.live) /\ manifest'.orphans = {} /\ manifest'.torn = FALSE
<1>1. manifest \in Manifests /\ manifest.orphans = {}
  BY DEF StoreTyped, StoreInv, Quiet
<1>2. manifest' = load(manifest)
  BY DEF CrashRestart
<1>3. manifest'.orphans = {} /\ manifest'.torn = FALSE
  BY <1>1, <1>2 DEF load, Manifests
<1>4. objects' = objects \/ Remains(objects', objects, {})
  BY <1>3, ObjectsDeleted DEF CrashRestart
<1>5. DOMAIN objects' = DOMAIN objects /\ \A k \in DOMAIN objects : objects'[k] = objects[k]
  BY <1>4 DEF Remains
<1>6. \A tp \in Partitions : \A a \in DOMAIN manifest.live[tp] : manifest.live[tp][a].key \in DOMAIN objects
  BY DEF StoreInv, Archive, RangesOK, RangeOK
<1>7. ObjectsKept(objects', objects, manifest.live)
  BY <1>5, <1>6 DEF ObjectsKept
<1> QED
  BY <1>3, <1>7

\* The records of a log are records.
LEMMA DiskRecords ==
    ASSUME NEW w, WalOK(w), NEW s \in DOMAIN w.disk, NEW i \in 1 .. Len(w.disk[s])
    PROVE  w.disk[s][i] \in Record /\ w.disk[s][i].tp \in Partitions /\ w.disk[s][i].off \in Nat
           /\ w.active \in Nat /\ s \in Nat /\ s <= w.active
<1>1. w.disk[s] \in Seq(Record) /\ w.active \in Nat /\ s \in Nat /\ s <= w.active
  BY WalFields DEF WalOK
<1>2. w.disk[s][i] \in Record
  BY <1>1
<1> QED
  BY <1>1, <1>2, RecordFields

\* A recovered index serves the log, and the log and the manifest are below its next offset.
LEMMA RecoveredMemory ==
    ASSUME NEW idx, NEW m, NEW w, WalOK(w), w.disk[w.active] = <<>>, Recovered(idx, m, w), NEW prods,
           \A p \in Producers : prods[p].pc = "idle"
    PROVE  /\ Memory(idx, w.disk, m.live, prods)
           /\ \A tp \in Partitions : Below(tp, idx.parts[tp].next_offset, w.disk, m.live)
<1>1. ASSUME NEW s \in DOMAIN w.disk, NEW i \in 1 .. Len(w.disk[s])
      PROVE  /\ w.disk[s][i].tp \in Partitions
             /\ w.disk[s][i].off \in DOMAIN idx.parts[w.disk[s][i].tp].hot
  <2>1. w.active \in Nat /\ s \in Nat /\ s <= w.active /\ w.disk[s][i].tp \in Partitions
    BY DiskRecords
  <2>2. s # w.active
    OBVIOUS
  <2>3. s < w.active
    BY <2>1, <2>2
  <2> QED
    BY <2>1, <2>3 DEF Recovered
<1>2. ColdKnown(idx, m.live)
  BY DEF Recovered, ColdKnown
<1>3. HotKnown(idx, w.disk, prods)
  BY DEF Recovered, HotKnown, Held, Has
<1>4. HotWaiting(idx, prods)
  BY DEF HotWaiting
<1>5. LogServed(idx, w.disk)
  BY <1>1 DEF LogServed
<1>6. ASSUME NEW tp \in Partitions PROVE Below(tp, idx.parts[tp].next_offset, w.disk, m.live)
  <2>1. \A a \in DOMAIN m.live[tp] : m.live[tp][a].end <= idx.parts[tp].next_offset
    BY DEF Recovered
  <2>2. \A o \in DOMAIN idx.parts[tp].hot : o < idx.parts[tp].next_offset
    BY DEF Recovered
  <2> QED
    BY <1>1, <2>1, <2>2 DEF Below
<1> QED
  BY <1>2, <1>3, <1>4, <1>5, <1>6 DEF Memory

\* CrashRestart.
LEMMA InvCrash ==
    ASSUME StoreTyped, StoreInv, CrashRestart
    PROVE  StoreInv' /\ ColdKept(index', index)
<1>1. StoreTyped' /\ Recovered(index', manifest', wal') /\ manifest'.live = manifest.live
  BY TypedCrash
<1>2. SameRecords(wal', wal) /\ WalOK(wal') /\ wal'.tail = <<>> /\ wal'.disk[wal'.active] = <<>>
  BY CrashSame DEF SameRecords
<1>3. ObjectsKept(objects', objects, manifest.live) /\ manifest'.orphans = {} /\ manifest'.torn = FALSE
  BY CrashObjects
<1>4. manifest.live \in [Partitions -> Colds] /\ Archive(wal, manifest.live, objects) /\ ColdKnown(index, manifest.live)
  BY DEF StoreTyped, Manifests, StoreInv, Memory
<1>5. Archive(wal', manifest.live, objects')
  BY <1>2, <1>3, <1>4, ArchiveRotated, ArchiveObjects
<1>6. (\A p \in Producers : producer'[p].pc = "idle") /\ tier'.pc = "idle" /\ compact' = IdleCompact /\ acked' = acked
  BY DEF CrashRestart, IdleProducer, IdleTier, history
<1>7. Memory(index', wal'.disk, manifest'.live, producer')
      /\ \A tp \in Partitions : Below(tp, index'.parts[tp].next_offset, wal'.disk, manifest'.live)
  BY <1>1, <1>2, <1>6, RecoveredMemory
<1>8. ColdStays(index, objects, index', objects')
  BY <1>1, <1>3, <1>4 DEF ColdStays, ColdKnown, ObjectsKept, Recovered
<1>9. SafeStays(wal.disk, index, objects, wal'.disk, index', objects')
  <2>1. \A r \in Record : Held(wal.disk, r) => Safe(r, wal'.disk, index', objects')
    BY <1>2, HeldStays DEF Safe
  <2> QED
    BY <1>8, <2>1, SafeMoved
<1>10. Clients(producer', hw', wal'.disk, manifest'.live, index', objects')
  <2>1. \A tp \in Partitions : hw'[tp] = index'.parts[tp].next_offset
    BY DEF CrashRestart
  <2> QED
    BY <1>6, <1>7, <2>1 DEF Clients, Busy
<1>11. AllSafe(acked', wal'.disk, index', objects')
  BY <1>6, <1>9, AllStay DEF StoreInv
<1>12. Tierer(tier', wal'.disk, index', manifest'.live, objects')
  BY <1>6, TiererIdle
<1>13. Quiet'
  <2>1. Fault("crash") /\ Quiet
    BY DEF CrashRestart, StoreInv
  <2> QED
    BY <1>2, <1>3, <1>6, <2>1, QuietFault DEF Quiet
<1>14. StoreInv'
  BY <1>1, <1>5, <1>7, <1>10, <1>11, <1>12, <1>13 DEF StoreInv
<1>15. ColdKept(index', index)
  BY <1>8 DEF ColdStays, ColdKept
<1> QED
  BY <1>14, <1>15

\* Steps that touch none of the variables the invariant reads.
LEMMA InvElse ==
    ASSUME StoreInv, UNCHANGED <<index, storage, hw, producer, tier, compact, acked>>,
           faults' = faults \/ \E kind : kind # "wal" /\ kind # "tear" /\ Fault(kind)
    PROVE  StoreInv'
<1>1. /\ "wal" \in DOMAIN faults' /\ "tear" \in DOMAIN faults'
      /\ faults'["wal"] = 0 /\ faults'["tear"] = 0
  BY QuietFault DEF StoreInv, Quiet
<1>2. Quiet'
  BY <1>1 DEF StoreInv, Quiet, storage
<1> QED
  BY <1>2 DEF StoreInv, storage

\* What Orderly rules out.
LEMMA NotTaken ==
    ASSUME Orderly, StoreTyped, StoreInv
    PROVE  /\ \A p \in Producers : ~ WalAppendErr(p) /\ ~ AppendRollback(p)
           /\ ~ FlushTick /\ ~ TierTear /\ ~ Compacting /\ ~ CompactTear
           /\ ~ \E plan \in compact.plans : CompactFail(plan)
<1>1. Quiet
  BY DEF StoreInv
<1>2. faults["wal"] = 0 /\ faults["tear"] = 0 /\ compact.pc = "idle" /\ compact.plans = {}
  BY <1>1 DEF Quiet, IdleCompact
<1>3. ~ Fault("wal") /\ ~ Fault("tear")
  BY <1>2 DEF Fault
<1>4. ASSUME NEW p \in Producers PROVE ~ WalAppendErr(p) /\ ~ AppendRollback(p)
  <2>1. producer[p].pc # "rollback"
    <3>1. CASE Busy(producer[p])
      BY <3>1 DEF StoreInv, Clients, RequestInv
    <3>2. CASE ~ Busy(producer[p])
      BY <3>2 DEF Busy
    <3> QED
      BY <3>1, <3>2
  <2> QED
    BY <1>3, <2>1 DEF WalAppendErr, AppendRollback
<1>5. ~ FlushTick
  BY DEF FlushTick, Orderly, Disciplined
<1>6. ~ TierTear /\ ~ CompactTear
  BY <1>3 DEF TierTear, CompactTear
<1>7. ~ Compacting
  BY <1>2 DEF Compacting, CompactCycle, CompactRecord, CompactReplace, CompactDelete, Orderly
<1> QED
  BY <1>2, <1>4, <1>5, <1>6, <1>7

\* The index is left alone, or keeps its ranges.
LEMMA ColdKeptSame ==
    ASSUME index' = index
    PROVE  ColdKept(index', index)
BY DEF ColdKept

\* Every step keeps the invariant.
LEMMA InvNext ==
    ASSUME Orderly, StoreTyped, StoreInv, [Next]_vars
    PROVE  StoreInv' /\ ColdKept(index', index)
<1>1. /\ \A p \in Producers : ~ WalAppendErr(p) /\ ~ AppendRollback(p)
      /\ ~ FlushTick /\ ~ TierTear /\ ~ Compacting /\ ~ CompactTear
      /\ ~ \E plan \in compact.plans : CompactFail(plan)
  BY NotTaken
<1>2. CASE Produce
  <2>1. ASSUME NEW p \in Producers, NEW tp \in Partitions, NEW n \in BatchSizes, NEW a \in AckLevels, NEW s \in Sizes,
               ProduceStart(p, tp, n, a, s)
        PROVE  StoreInv' /\ ColdKept(index', index)
    <3>1. index' = index
      BY <2>1 DEF ProduceStart
    <3> QED
      BY <2>1, <3>1, InvProduceStart, ColdKeptSame
  <2>2. ASSUME NEW p \in Producers, AwaitCapacity(p) \/ WalAppend(p) \/ ProduceCommit(p)
        PROVE  StoreInv' /\ ColdKept(index', index)
    <3>1. index' = index
      BY <2>2 DEF AwaitCapacity, WalAppend, ProduceCommit
    <3> QED
      BY <2>2, <3>1, InvAwaitCapacity, InvWalAppend, InvProduceCommit, ColdKeptSame
  <2>3. ASSUME NEW p \in Producers, InsertHot(p) PROVE StoreInv' /\ ColdKept(index', index)
    BY <2>3, InvInsertHot
  <2> QED
    BY <1>1, <1>2, <2>1, <2>2, <2>3 DEF Produce
<1>3. CASE Tiering
  <2>1. ASSUME NEW tp \in Partitions, TierPreCheck(tp) PROVE StoreInv' /\ index' = index
    BY <2>1, InvPreCheck DEF TierPreCheck
  <2>2. ASSUME TierOnce \/ TierReadSegment \/ TierReclaim PROVE StoreInv' /\ index' = index
    BY <2>2, InvTierOnce, InvReadSegment, InvReclaim DEF TierOnce, TierReadSegment, TierReclaim
  <2>3. ASSUME TierUpload \/ TierPostCheck \/ TierRegister PROVE StoreInv' /\ index' = index
    BY <2>3, InvUpload, InvPostCheck, InvRegister DEF TierUpload, TierPostCheck, TierRegister
  <2>4. ASSUME TierFlip PROVE StoreInv' /\ ColdKept(index', index)
    BY <2>4, InvFlip
  <2> QED
    BY <1>3, <2>1, <2>2, <2>3, <2>4, ColdKeptSame DEF Tiering
<1>4. CASE TierFail
  <2>1. index' = index
    BY <1>4 DEF TierFail
  <2> QED
    BY <1>4, <2>1, InvFail, ColdKeptSame
<1>5. CASE \E tp \in Partitions : LoseLeadership(tp) \/ GainLeadership(tp)
  <2>1. UNCHANGED <<index, storage, hw, producer, tier, compact, acked>>
    BY <1>5 DEF LoseLeadership, GainLeadership, tasks, history
  <2>2. faults' = faults \/ Fault("fence")
    BY <1>5 DEF LoseLeadership, GainLeadership
  <2>3. faults' = faults \/ \E kind : kind # "wal" /\ kind # "tear" /\ Fault(kind)
    BY <2>2
  <2> QED
    BY <2>1, <2>3, InvElse, ColdKeptSame
<1>6. CASE Reading \/ UNCHANGED vars
  <2>1. UNCHANGED <<index, storage, hw, producer, tier, compact, acked, faults>>
    BY <1>6 DEF Reading, ReadStart, ReadDownload, ReadRetry, vars, tasks, history
  <2> QED
    BY <2>1, InvElse, ColdKeptSame
<1>7. CASE CrashRestart
  BY <1>7, InvCrash
<1> QED
  BY <1>1, <1>2, <1>3, <1>4, <1>5, <1>6, <1>7 DEF Next

\* The invariant holds of an empty store.
LEMMA InvInit ==
    ASSUME Orderly, Init
    PROVE  StoreInv
<1>1. wal = wal_new(<<>>) /\ StoreTyped
  BY TypedInit DEF Init
<1>2. DOMAIN wal.disk = {0} /\ wal.disk[0] = <<>> /\ wal.active = 0 /\ wal.tail = <<>>
  BY <1>1 DEF wal_new, open_new_segment
<1>3. Len(wal.disk[0]) = 0 /\ (1 .. Len(wal.disk[0])) = {}
  BY <1>2
<1>4. \A tp \in Partitions : DOMAIN manifest.live[tp] = {}
  BY DEF Init, EmptyManifest
<1>5. \A tp \in Partitions : DOMAIN index.parts[tp].hot = {} /\ DOMAIN index.parts[tp].cold = {}
  BY DEF Init, EmptyIndex, EmptyEntries
<1>6. Quiet
  BY <1>2, StoreConstants DEF Init, Quiet, EmptyManifest, Orderly, Disciplined
<1>7. Archive(wal, manifest.live, objects)
  BY <1>2, <1>3, <1>4 DEF Archive, InOrder, RangesOK, SealedAligned, ActiveAbove
<1>8. Memory(index, wal.disk, manifest.live, producer)
  BY <1>2, <1>3, <1>5 DEF Memory, ColdKnown, HotKnown, HotWaiting, LogServed, Init, IdleProducer
<1>9. Tierer(tier, wal.disk, index, manifest.live, objects)
  BY TiererIdle DEF Init, IdleTier
<1>10. Clients(producer, hw, wal.disk, manifest.live, index, objects)
  BY <1>2, <1>3, <1>4 DEF Clients, Below, Busy, Init, IdleProducer
<1>11. AllSafe(acked, wal.disk, index, objects)
  BY DEF AllSafe, Init
<1> QED
  BY <1>6, <1>7, <1>8, <1>9, <1>10, <1>11 DEF StoreInv

\* The invariant, always.
LEMMA AlwaysInv ==
    ASSUME Orderly
    PROVE  Spec => []StoreInv
<1>1. Init => StoreInv
  BY InvInit
<1>2. StoreTyped /\ StoreInv /\ [Next]_vars => StoreInv'
  BY InvNext
<1> QED
  BY <1>1, <1>2, AlwaysTyped, PTL DEF Spec

-------------------------------------------------------------------------------
(* What the invariant gives.                                               *)

\* The largest element of a set of naturals.
LEMMA MaxIs ==
    ASSUME NEW S \in SUBSET Nat, NEW x \in S, \A y \in S : y <= x
    PROVE  Max(S) = x
<1>1. \E z \in S : \A y \in S : z >= y
  OBVIOUS
<1>2. Max(S) \in S /\ \A y \in S : Max(S) >= y
  BY <1>1 DEF Max
<1> DEFINE m == Max(S)
<1>3. m \in Nat /\ x \in Nat /\ m >= x /\ m <= x
  BY <1>2
<1> HIDE DEF m
<1>4. m = x
  BY <1>3
<1> QED
  BY <1>4 DEF m

\* Ranges that do not overlap.
Apart(cold) ==
    /\ \A a \in DOMAIN cold : a \in Nat /\ cold[a].end \in Nat
    /\ \A a, b \in DOMAIN cold : a < b => cold[a].end <= b

\* A floor lookup finds the range that covers an offset.
LEMMA FloorFinds ==
    ASSUME NEW cold, Apart(cold), NEW o \in Nat, NEW a \in DOMAIN cold, Covers(cold, a, o)
    PROVE  /\ {s \in DOMAIN cold : s <= o} # {} /\ Max({s \in DOMAIN cold : s <= o}) = a
           /\ \A t \in DOMAIN cold : t <= o => t <= a
<1>1. a \in Nat /\ cold[a].end \in Nat /\ a <= o /\ o < cold[a].end
  BY DEF Apart, Covers
<1>2. ASSUME NEW t \in DOMAIN cold, t <= o PROVE t <= a
  <2>1. t \in Nat /\ (a < t => cold[a].end <= t)
    BY DEF Apart
  <2> DEFINE e == cold[a].end
  <2>2. e \in Nat /\ o < e /\ (a < t => e <= t)
    BY <1>1, <2>1
  <2> HIDE DEF e
  <2> QED
    BY <1>1, <1>2, <2>1, <2>2
<1> DEFINE S == {s \in DOMAIN cold : s <= o}
<1>3. S \in SUBSET Nat /\ a \in S /\ \A y \in S : y <= a
  BY <1>1, <1>2 DEF Apart
<1> HIDE DEF S
<1>4. Max(S) = a /\ S # {}
  BY <1>3, MaxIs
<1> QED
  BY <1>2, <1>4 DEF S

\* The ranges of the manifest do not overlap, and neither do those that memory knows.
LEMMA RangesApart ==
    ASSUME StoreTyped, StoreInv, NEW tp \in Partitions
    PROVE  Apart(manifest.live[tp]) /\ Apart(index.parts[tp].cold)
<1>1. manifest.live \in [Partitions -> Colds]
  BY DEF StoreTyped, Manifests
<1>2. \A a \in DOMAIN manifest.live[tp] : a \in Nat /\ manifest.live[tp][a].end \in Nat
  BY <1>1, RangeNaturals
<1>3. \A a, b \in DOMAIN manifest.live[tp] : a < b => manifest.live[tp][a].end <= b
  BY DEF StoreInv, Archive, RangesOK, RangeOK
<1>4. \A a \in DOMAIN index.parts[tp].cold :
         a \in DOMAIN manifest.live[tp] /\ index.parts[tp].cold[a] = manifest.live[tp][a]
  BY DEF StoreInv, Memory, ColdKnown
<1> QED
  BY <1>2, <1>3, <1>4 DEF Apart

\* A record of the log that a range covers is in the range's object.
LEMMA HeldInRange ==
    ASSUME NEW w, WalOK(w), NEW live \in [Partitions -> Colds], NEW objs, Archive(w, live, objs),
           NEW x \in Record, Held(w.disk, x), NEW a \in DOMAIN live[x.tp], Covers(live[x.tp], a, x.off)
    PROVE  Has(objs[live[x.tp][a].key], x)
<1>1. PICK s \in DOMAIN w.disk : Has(w.disk[s], x)
  BY DEF Held
<1>2. PICK i \in 1 .. Len(w.disk[s]) : w.disk[s][i] = x
  BY <1>1 DEF Has
<1>3. w.disk[s] \in Seq(Record) /\ w.active \in Nat /\ s \in Nat /\ s <= w.active
  BY WalFields DEF WalOK
<1>4. x.tp \in Partitions /\ x.off \in Nat
  BY RecordFields
<1>5. a \in Nat /\ live[x.tp][a].end \in Nat
  BY <1>4, RangeNaturals
<1> DEFINE lo == StartIn(w.disk[s], x.tp)
           hi == EndIn(w.disk[s], x.tp)
           end == live[x.tp][a].end
<1>6. a <= x.off /\ x.off < end /\ end \in Nat
  BY <1>5 DEF Covers
<1>7. s # w.active
  <2>1. s = w.active => end <= x.off
    BY <1>2 DEF Archive, ActiveAbove
  <2> HIDE DEF end
  <2> QED
    BY <1>4, <1>6, <2>1
<1>8. s < w.active
  BY <1>3, <1>7
<1>9. x.tp \in TpsOf(w.disk[s])
  BY <1>2, <1>3 DEF TpsOf, ToSet
<1>10. OrderedSeq(w.disk[s])
  BY SegmentOrdered DEF Archive
<1>11. GroupFacts(w.disk[s], x.tp)
  BY <1>3, <1>9, <1>10, GroupRange
<1>12. lo <= x.off /\ x.off < hi /\ lo \in Nat /\ hi \in Nat /\ Has(GroupIn(w.disk[s], x.tp), x)
  BY <1>2, <1>11 DEF GroupFacts
<1>13. Aligned(w.disk[s], x.tp, a, live[x.tp], objs)
  BY <1>8, <1>9 DEF Archive, SealedAligned
<1>14. end <= lo \/ hi <= a \/ objs[live[x.tp][a].key] = GroupIn(w.disk[s], x.tp)
  BY <1>13 DEF Aligned
<1>15. ~ (end <= lo) /\ ~ (hi <= a)
  <2> HIDE DEF lo, hi, end
  <2> QED
    BY <1>4, <1>5, <1>6, <1>12
<1> QED
  BY <1>12, <1>14, <1>15

\* A record of the log that memory would serve from a range is in that range's object.
LEMMA SafeInRange ==
    ASSUME StoreTyped, StoreInv, NEW r \in Record, Safe(r, wal.disk, index, objects),
           NEW a \in DOMAIN manifest.live[r.tp], Covers(manifest.live[r.tp], a, r.off)
    PROVE  /\ manifest.live[r.tp][a].key \in DOMAIN objects
           /\ Has(objects[manifest.live[r.tp][a].key], r)
<1>1. WalOK(wal) /\ manifest.live \in [Partitions -> Colds] /\ Archive(wal, manifest.live, objects)
  BY DEF StoreTyped, Manifests, StoreInv
<1>2. r.tp \in Partitions /\ r.off \in Nat
  BY RecordFields
<1>3. manifest.live[r.tp][a].key \in DOMAIN objects
  BY <1>1, <1>2 DEF Archive, RangesOK, RangeOK
<1>4. CASE Held(wal.disk, r)
  BY <1>1, <1>3, <1>4, HeldInRange
<1>5. CASE SafeCold(r, index, objects)
  <2>1. PICK b \in DOMAIN index.parts[r.tp].cold :
           Covers(index.parts[r.tp].cold, b, r.off) /\ Has(objects[index.parts[r.tp].cold[b].key], r)
    BY <1>5 DEF SafeCold
  <2>2. b \in DOMAIN manifest.live[r.tp] /\ index.parts[r.tp].cold[b] = manifest.live[r.tp][b]
    BY <1>2 DEF StoreInv, Memory, ColdKnown
  <2>3. Covers(manifest.live[r.tp], b, r.off)
    BY <2>1, <2>2 DEF Covers
  <2>4. Apart(manifest.live[r.tp])
    BY <1>2, RangesApart
  <2>5. a = Max({s \in DOMAIN manifest.live[r.tp] : s <= r.off}) /\ b = Max({s \in DOMAIN manifest.live[r.tp] : s <= r.off})
    BY <1>2, <2>2, <2>3, <2>4, FloorFinds
  <2> QED
    BY <1>3, <2>1, <2>2, <2>5
<1> QED
  BY <1>4, <1>5 DEF Safe

\* An object of a range has one record at an offset.
LEMMA OneInObject ==
    ASSUME StoreTyped, StoreInv, NEW tp \in Partitions, NEW a \in DOMAIN manifest.live[tp], NEW r, NEW x,
           Has(objects[manifest.live[tp][a].key], r), Has(objects[manifest.live[tp][a].key], x), r.off = x.off
    PROVE  r = x
<1>1. RangeOK(tp, a, manifest.live[tp], objects)
  BY DEF StoreInv, Archive, RangesOK
<1> QED
  BY <1>1 DEF RangeOK, Has

\* Two records of the log at one offset are one.
LEMMA OneInLog ==
    ASSUME NEW w, WalOK(w), InOrder(w.disk), NEW r \in Record, NEW x \in Record,
           Held(w.disk, r), Held(w.disk, x), r.tp = x.tp, r.off = x.off
    PROVE  r = x
<1>0. PICK s \in DOMAIN w.disk, t \in DOMAIN w.disk : Has(w.disk[s], r) /\ Has(w.disk[t], x)
  BY DEF Held
<1>1. PICK i \in 1 .. Len(w.disk[s]) : w.disk[s][i] = r
  BY <1>0 DEF Has
<1>2. PICK j \in 1 .. Len(w.disk[t]) : w.disk[t][j] = x
  BY <1>0 DEF Has
<1>3. s \in Nat /\ t \in Nat /\ r.off \in Nat
  BY RecordFields, WalFields
<1>4. ~ (s < t \/ (s = t /\ i < j))
  BY <1>1, <1>2, <1>3 DEF InOrder
<1>5. ~ (t < s \/ (t = s /\ j < i))
  BY <1>1, <1>2, <1>3 DEF InOrder
<1>6. s = t
  BY <1>3, <1>4, <1>5
<1>7. i \in Nat /\ j \in Nat
  BY <1>3
<1>8. i = j
  BY <1>4, <1>5, <1>6, <1>7
<1> QED
  BY <1>1, <1>2, <1>6, <1>8

\* Two safe records at one offset are one.
LEMMA OneSafe ==
    ASSUME StoreTyped, StoreInv, NEW r \in Record, NEW x \in Record, Safe(r, wal.disk, index, objects),
           Safe(x, wal.disk, index, objects), r.tp = x.tp, r.off = x.off
    PROVE  r = x
<1>1. r.tp \in Partitions
  BY RecordFields
<1>2. ASSUME NEW y \in Record, SafeCold(y, index, objects), y.tp = r.tp, y.off = r.off PROVE r = x
  <2>1. PICK b \in DOMAIN index.parts[r.tp].cold : Covers(index.parts[r.tp].cold, b, r.off)
    BY <1>2 DEF SafeCold
  <2>2. b \in DOMAIN manifest.live[r.tp] /\ index.parts[r.tp].cold[b] = manifest.live[r.tp][b]
    BY <1>1 DEF StoreInv, Memory, ColdKnown
  <2>3. Covers(manifest.live[r.tp], b, r.off)
    BY <2>1, <2>2 DEF Covers
  <2>4. Has(objects[manifest.live[r.tp][b].key], r) /\ Has(objects[manifest.live[r.tp][b].key], x)
    BY <2>2, <2>3, SafeInRange
  <2> QED
    BY <1>1, <2>2, <2>4, OneInObject
<1>3. CASE Held(wal.disk, r) /\ Held(wal.disk, x)
  BY <1>3, OneInLog DEF StoreTyped, StoreInv, Archive
<1> QED
  BY <1>2, <1>3 DEF Safe

\* A safe record is below every bound of its partition.
LEMMA SafeBelow ==
    ASSUME StoreTyped, StoreInv, NEW r \in Record, Safe(r, wal.disk, index, objects), NEW b \in Nat,
           Below(r.tp, b, wal.disk, manifest.live)
    PROVE  r.off < b
<1>1. r.tp \in Partitions /\ r.off \in Nat
  BY RecordFields
<1>2. CASE Held(wal.disk, r)
  BY <1>2 DEF Held, Has, Below
<1>3. CASE SafeCold(r, index, objects)
  <2>1. PICK a \in DOMAIN index.parts[r.tp].cold : Covers(index.parts[r.tp].cold, a, r.off)
    BY <1>3 DEF SafeCold
  <2> DEFINE e == index.parts[r.tp].cold[a].end
  <2>2. a \in DOMAIN manifest.live[r.tp] /\ e = manifest.live[r.tp][a].end
    BY <1>1 DEF StoreInv, Memory, ColdKnown
  <2>3. e \in Nat
    BY <1>1, <2>1, RangesApart DEF Apart
  <2>4. r.off < e /\ e <= b
    BY <2>1, <2>2 DEF Covers, Below
  <2> HIDE DEF e
  <2> QED
    BY <1>1, <2>3, <2>4
<1> QED
  BY <1>2, <1>3 DEF Safe

\* An append in progress is past every safe record.
LEMMA FlightAhead ==
    ASSUME StoreTyped, StoreInv, NEW r \in Record, Safe(r, wal.disk, index, objects), NEW x, InFlight(producer, x)
    PROVE  ~ (x.tp = r.tp /\ x.off = r.off)
<1>1. PICK p \in Producers : producer[p].pc = "wal" /\ Head(producer[p].todo) = x
  BY DEF InFlight
<1>2. Below(x.tp, x.off, wal.disk, manifest.live)
  BY <1>1, RequestAt DEF Appending
<1>3. r.off \in Nat
  BY RecordFields
<1>4. ASSUME x.tp = r.tp, x.off = r.off PROVE FALSE
  <2>1. Below(r.tp, r.off, wal.disk, manifest.live)
    BY <1>2, <1>4
  <2>2. r.off < r.off
    BY <1>3, <2>1, SafeBelow
  <2> QED
    BY <1>3, <2>2
<1> QED
  BY <1>4

\* The hot record at the offset of a safe record is that record.
LEMMA HotIsSafe ==
    ASSUME StoreTyped, StoreInv, NEW r \in Record, Safe(r, wal.disk, index, objects),
           r.off \in DOMAIN index.parts[r.tp].hot
    PROVE  index.parts[r.tp].hot[r.off] = r
<1> DEFINE x == index.parts[r.tp].hot[r.off]
<1>1. r.tp \in Partitions
  BY RecordFields
<1>2. x.tp = r.tp /\ x.off = r.off /\ (Held(wal.disk, x) \/ InFlight(producer, x))
  BY <1>1 DEF StoreInv, Memory, HotKnown
<1>3. x \in Record
  BY <1>1, IndexNaturals DEF StoreTyped
<1> HIDE DEF x
<1>4. Safe(x, wal.disk, index, objects)
  BY <1>2, FlightAhead DEF Safe
<1>5. x = r
  BY <1>2, <1>3, <1>4, OneSafe
<1> QED
  BY <1>5 DEF x

\* A safe record that is not hot is in the object of a range that memory knows.
LEMMA ColdIsSafe ==
    ASSUME StoreTyped, StoreInv, NEW r \in Record, Safe(r, wal.disk, index, objects)
    PROVE  /\ r.off < index.parts[r.tp].next_offset
           /\ r.off \notin DOMAIN index.parts[r.tp].hot =>
                 \E a \in DOMAIN index.parts[r.tp].cold :
                    /\ Covers(index.parts[r.tp].cold, a, r.off)
                    /\ index.parts[r.tp].cold[a] = manifest.live[r.tp][a] /\ a \in DOMAIN manifest.live[r.tp]
<1>1. r.tp \in Partitions /\ r.off \in Nat
  BY RecordFields
<1> DEFINE n == index.parts[r.tp].next_offset
<1>2. n \in Nat
  BY <1>1, IndexNaturals DEF StoreTyped
<1>3. ASSUME NEW a \in DOMAIN index.parts[r.tp].cold, Covers(index.parts[r.tp].cold, a, r.off)
      PROVE  r.off < n /\ index.parts[r.tp].cold[a] = manifest.live[r.tp][a] /\ a \in DOMAIN manifest.live[r.tp]
  <2> DEFINE e == index.parts[r.tp].cold[a].end
  <2>1. e \in Nat
    BY <1>1, RangesApart DEF Apart
  <2>2. e <= n /\ index.parts[r.tp].cold[a] = manifest.live[r.tp][a] /\ a \in DOMAIN manifest.live[r.tp]
    BY <1>1 DEF StoreInv, Memory, ColdKnown
  <2>3. r.off < e
    BY <1>3 DEF Covers
  <2>4. r.off < n
    <3> HIDE DEF e, n
    <3> QED
      BY <1>1, <1>2, <2>1, <2>2, <2>3
  <2> QED
    BY <2>2, <2>4
<1>4. ASSUME r.off \in DOMAIN index.parts[r.tp].hot PROVE r.off < n
  BY <1>1, <1>4 DEF StoreInv, Memory, HotKnown
<1>5. \/ r.off \in DOMAIN index.parts[r.tp].hot
      \/ \E a \in DOMAIN index.parts[r.tp].cold : Covers(index.parts[r.tp].cold, a, r.off)
  <2>1. CASE Held(wal.disk, r)
    BY <2>1 DEF Held, Has, StoreInv, Memory, LogServed
  <2>2. CASE SafeCold(r, index, objects)
    BY <2>2 DEF SafeCold
  <2> QED
    BY <2>1, <2>2 DEF Safe
<1> QED
  BY <1>3, <1>4, <1>5

\* A read of the offset of a safe record returns the record.
LEMMA ServedIs ==
    ASSUME StoreTyped, StoreInv, NEW r \in Record, Safe(r, wal.disk, index, objects)
    PROVE  Served(r.tp, r.off) = {r}
<1> DEFINE e == index.parts[r.tp]
           plan == read_plan(index, r.tp, r.off)
<1>1. r.tp \in Partitions /\ r.off \in Nat
  BY RecordFields
<1>2. r.off < e.next_offset /\ e.next_offset \in Nat
  BY <1>1, ColdIsSafe, IndexNaturals DEF StoreTyped
<1>3. ~ (r.off >= e.next_offset)
  <2> DEFINE n == e.next_offset
  <2>1. n \in Nat /\ r.off < n
    BY <1>2
  <2> HIDE DEF n
  <2>2. ~ (r.off >= n)
    BY <1>1, <2>1
  <2> QED
    BY <2>2 DEF n
<1>4. CASE r.off \in DOMAIN e.hot
  <2> DEFINE run == {o \in DOMAIN e.hot : o >= r.off /\ (r.off .. o) \subseteq DOMAIN e.hot}
  <2>1. plan = [plan |-> "Hot", records |-> {e.hot[o] : o \in run}]
    BY <1>2, <1>3, <1>4 DEF read_plan
  <2>2. \A o \in DOMAIN e.hot : e.hot[o].off = o
    BY <1>1 DEF StoreInv, Memory, HotKnown
  <2>3. r.off \in run
    BY <1>1, <1>4
  <2>4. e.hot[r.off] = r
    BY <1>4, HotIsSafe
  <2>5. Served(r.tp, r.off) = {x \in {e.hot[o] : o \in run} : x.off = r.off}
    <3> HIDE DEF run, e
    <3>1. plan.plan = "Hot" /\ plan.records = {e.hot[o] : o \in run}
      BY <2>1
    <3> HIDE DEF plan
    <3> QED
      BY <3>1 DEF Served, plan
  <2>6. run \subseteq DOMAIN e.hot
    OBVIOUS
  <2> HIDE DEF run, e, plan
  <2> QED
    BY <2>2, <2>3, <2>4, <2>5, <2>6
<1>5. CASE r.off \notin DOMAIN e.hot
  <2>1. PICK a \in DOMAIN e.cold : /\ Covers(e.cold, a, r.off)
                                  /\ e.cold[a] = manifest.live[r.tp][a] /\ a \in DOMAIN manifest.live[r.tp]
    BY <1>5, ColdIsSafe
  <2> DEFINE floor == {s \in DOMAIN e.cold : s <= r.off}
  <2>2. Apart(e.cold)
    BY <1>1, RangesApart
  <2>3. floor # {} /\ Max(floor) = a
    <3> HIDE DEF e
    <3> QED
      BY <1>1, <2>1, <2>2, FloorFinds
  <2>4. r.off < e.cold[Max(floor)].end
    BY <2>1, <2>3 DEF Covers
  <2>5. plan = [plan |-> "Cold", key |-> e.cold[Max(floor)].key]
    BY <1>2, <1>3, <1>5, <2>3, <2>4 DEF read_plan
  <2> DEFINE k == e.cold[a].key
  <2>6. k = manifest.live[r.tp][a].key /\ Covers(manifest.live[r.tp], a, r.off)
    BY <2>1 DEF Covers
  <2>7. k \in DOMAIN objects /\ Has(objects[k], r)
    BY <2>1, <2>6, SafeInRange
  <2>8. \A x : Has(objects[k], x) /\ x.off = r.off => x = r
    BY <1>1, <2>1, <2>6, <2>7, OneInObject
  <2>9. plan.plan = "Cold" /\ plan.key = k
    <3> HIDE DEF plan, floor, e
    <3>1. plan = [plan |-> "Cold", key |-> k]
      BY <2>3, <2>5
    <3> HIDE DEF k
    <3> QED
      BY <3>1
  <2>10. Served(r.tp, r.off) = {x \in ToSet(objects[k]) : x.off = r.off}
    <3> HIDE DEF k, floor, e, plan
    <3> QED
      BY <2>7, <2>9 DEF Served, plan
  <2>11. objects[k] \in Seq(Record)
    BY <2>7, MapFields DEF StoreTyped, Archives
  <2>12. \A x : x \in ToSet(objects[k]) <=> Has(objects[k], x)
    <3> HIDE DEF k
    <3> QED
      BY <2>11 DEF ToSet, Has
  <2> HIDE DEF k, floor, e, plan
  <2> QED
    BY <2>7, <2>8, <2>10, <2>12
<1> QED
  BY <1>4, <1>5

-------------------------------------------------------------------------------
(* The theorems.                                                           *)

\* Acknowledged records are safe.
LEMMA AckedSafe ==
    ASSUME StoreInv, NEW r \in acked
    PROVE  r \in Record /\ Safe(r, wal.disk, index, objects)
BY DEF StoreInv, AllSafe

\* Memory never holds a record that no segment backs and no append is about to write:
\* PartitionStore::append inserts before it appends, and tier_segment and recovery keep a
\* segment until its records are flipped to cold.
THEOREM NothingStranded ==
    ASSUME Orderly
    PROVE  Spec => []NoStrandedHot
<1>1. StoreInv => NoStrandedHot
  BY DEF StoreInv, Memory, HotKnown, InFlight, Held, Has, NoStrandedHot, Contains
<1> QED
  BY <1>1, AlwaysInv, PTL

\* The disk alone restores every acknowledged record, at every moment of tier_segment
\* (upload, manifest append, flip, reclaim): it is in a segment, or in the object of the
\* manifest range that recovery would resolve its offset to.
THEOREM Durable ==
    ASSUME Orderly
    PROVE  Spec => []AckedDurable
<1>1. ASSUME StoreTyped, StoreInv PROVE AckedDurable
  <2> SUFFICES ASSUME NEW r \in acked
               PROVE  \/ \E s \in DOMAIN wal.disk : Contains(wal.disk[s], r)
                      \/ LET live == manifest.live[r.tp]
                             floor == {s \in DOMAIN live : s <= r.off}
                         IN  /\ floor # {} /\ r.off < live[Max(floor)].end
                             /\ live[Max(floor)].key \in DOMAIN objects \ manifest.orphans
                             /\ Contains(objects[live[Max(floor)].key], r)
    BY DEF AckedDurable
  <2>1. r \in Record /\ Safe(r, wal.disk, index, objects)
    BY <1>1, AckedSafe
  <2>2. r.tp \in Partitions /\ r.off \in Nat
    BY <2>1, RecordFields
  <2>3. CASE Held(wal.disk, r)
    BY <2>3 DEF Held, Has, Contains
  <2>4. CASE SafeCold(r, index, objects)
    <3>1. PICK a \in DOMAIN index.parts[r.tp].cold : Covers(index.parts[r.tp].cold, a, r.off)
      BY <2>4 DEF SafeCold
    <3>2. a \in DOMAIN manifest.live[r.tp] /\ index.parts[r.tp].cold[a] = manifest.live[r.tp][a]
      BY <1>1, <2>2 DEF StoreInv, Memory, ColdKnown
    <3>3. Covers(manifest.live[r.tp], a, r.off)
      BY <3>1, <3>2 DEF Covers
    <3> DEFINE live == manifest.live[r.tp]
               floor == {s \in DOMAIN live : s <= r.off}
    <3>4. floor # {} /\ Max(floor) = a
      BY <1>1, <2>2, <3>2, <3>3, RangesApart, FloorFinds
    <3>5. live[a].key \in DOMAIN objects /\ Has(objects[live[a].key], r)
      BY <1>1, <2>1, <3>2, <3>3, SafeInRange
    <3>6. manifest.orphans = {}
      BY <1>1 DEF StoreInv, Quiet
    <3>7. r.off < live[a].end
      BY <3>3 DEF Covers
    <3> HIDE DEF live, floor
    <3>8. /\ floor # {} /\ r.off < live[Max(floor)].end
          /\ live[Max(floor)].key \in DOMAIN objects \ manifest.orphans
          /\ Contains(objects[live[Max(floor)].key], r)
      BY <3>4, <3>5, <3>6, <3>7 DEF Has, Contains
    <3> QED
      BY <3>8 DEF live, floor
  <2> QED
    BY <2>1, <2>3, <2>4 DEF Safe
<1> QED
  BY <1>1, AlwaysTyped, AlwaysInv, PTL

\* Every acknowledged record is what PartitionStore::read returns at its offset, while its
\* segment is sealed, uploaded, flipped and reclaimed, and after any crash and recovery.
THEOREM Readable ==
    ASSUME Orderly
    PROVE  Spec => []AckedReadable
<1>1. ASSUME StoreTyped, StoreInv PROVE AckedReadable
  BY <1>1, AckedSafe, ServedIs DEF AckedReadable
<1> QED
  BY <1>1, AlwaysTyped, AlwaysInv, PTL

\* With one request at a time per partition, append_records acknowledges no offset for two
\* records, restarts included; the run store_concurrent_produce shows that two requests may.
THEOREM OffsetsFresh ==
    ASSUME Orderly
    PROVE  Spec => []OffsetsNotReused
<1>1. ASSUME StoreTyped, StoreInv PROVE OffsetsNotReused
  BY <1>1, AckedSafe, OneSafe DEF OffsetsNotReused
<1> QED
  BY <1>1, AlwaysTyped, AlwaysInv, PTL

\* An offset that resolves to a range is covered by it, and conversely.
LEMMA ResolvesIsCovered ==
    ASSUME StoreTyped, StoreInv, NEW tp \in Partitions, NEW o \in Offsets
    PROVE  ColdResolves(tp, o) <=> \E a \in DOMAIN index.parts[tp].cold : Covers(index.parts[tp].cold, a, o)
<1>1. Apart(index.parts[tp].cold) /\ o \in Nat
  BY RangesApart, StoreConstants DEF Offsets
<1>2. ASSUME NEW a \in DOMAIN index.parts[tp].cold, Covers(index.parts[tp].cold, a, o) PROVE ColdResolves(tp, o)
  <2>1. \A t \in DOMAIN index.parts[tp].cold : t <= o => t <= a
    BY <1>1, <1>2, FloorFinds
  <2> QED
    BY <1>2, <2>1 DEF ColdResolves, Covers
<1> QED
  BY <1>2 DEF ColdResolves, Covers

\* An offset that resolves to a cold object keeps resolving to one: flip_to_cold of a
\* retained segment replaces a range by itself, and recovery inserts every range the
\* manifest has.
THEOREM NeverUnmapped ==
    ASSUME Orderly
    PROVE  Spec => ColdNeverUnmapped
<1>1. ASSUME StoreTyped, StoreTyped', StoreInv, StoreInv', [Next]_vars
      PROVE  [\A tp \in Partitions, o \in Offsets : ColdResolves(tp, o) => ColdResolves(tp, o)']_vars
  <2> SUFFICES ASSUME NEW tp \in Partitions, NEW o \in Offsets, ColdResolves(tp, o)
               PROVE  ColdResolves(tp, o)'
    OBVIOUS
  <2>1. ColdKept(index', index)
    BY <1>1, InvNext
  <2>2. PICK a \in DOMAIN index.parts[tp].cold : Covers(index.parts[tp].cold, a, o)
    BY <1>1, ResolvesIsCovered
  <2>3. a \in DOMAIN index'.parts[tp].cold /\ Covers(index'.parts[tp].cold, a, o)
    BY <2>1, <2>2 DEF ColdKept, Covers
  <2>4. Apart(index'.parts[tp].cold)
    <3>1. (StoreTyped /\ StoreInv => Apart(index.parts[tp].cold))'
      BY RangesApart, PTL
    <3> QED
      BY <1>1, <3>1
  <2>5. o \in Nat
    BY StoreConstants DEF Offsets
  <2>6. \A t \in DOMAIN index'.parts[tp].cold : t <= o => t <= a
    BY <2>3, <2>4, <2>5, FloorFinds
  <2> QED
    BY <2>3, <2>6 DEF ColdResolves, Covers
<1> QED
  BY <1>1, AlwaysTyped, AlwaysInv, PTL DEF Spec, ColdNeverUnmapped

-------------------------------------------------------------------------------
(* The store implements the partition log.                                 *)

\* Acknowledged records were issued, and so are those of a request; the watermark is past
\* the acknowledged ones.
LogInv ==
    /\ acked \subseteq issued
    /\ \A p \in Producers : Busy(producer[p]) => ToSet(producer[p].recs) \subseteq issued
    /\ \A r \in acked : r.off < hw[r.tp]

\* One record per offset.
OnePerOffset(S) == \A r, s \in S : r.tp = s.tp /\ r.off = s.off => r = s

\* The records of a request are at consecutive offsets from the watermark on.
RequestPlaced(q) ==
    /\ q.base = hw[q.tp] /\ q.pc # "rollback"
    /\ \A i \in 1 .. Len(q.recs) : q.recs[i].tp = q.tp /\ q.recs[i].off = q.base + (i - 1)

\* What the log needs of the store: acknowledged records are read back, one per offset, and
\* requests take offsets from the watermark.
LogReads ==
    /\ acked \in SUBSET Record /\ OnePerOffset(acked) /\ faults["wal"] = 0
    /\ \A r \in acked : Served(r.tp, r.off) = {r} /\ r.off < index.parts[r.tp].next_offset
    /\ \A p \in Producers : Busy(producer[p]) => RequestPlaced(producer[p])

\* Steps that acknowledge nothing and leave the watermarks.
LEMMA LogKept ==
    ASSUME LogInv, UNCHANGED <<hw, acked>>, issued \subseteq issued',
           \A p \in Producers : Busy(producer'[p]) =>
              \/ Busy(producer[p]) /\ producer'[p].recs = producer[p].recs
              \/ ToSet(producer'[p].recs) \subseteq issued'
    PROVE  LogInv'
BY DEF LogInv

\* ProduceStart.
LEMMA LogStart ==
    ASSUME Disciplined, StoreTyped, LogInv, NEW p \in Producers, NEW tp \in Partitions, NEW n \in BatchSizes,
           NEW acks \in AckLevels, NEW size \in Sizes, ProduceStart(p, tp, n, acks, size)
    PROVE  LogInv'
<1>1. (\A c \in Producers \ {p} : producer'[c] = producer[c]) /\ producer'[p].recs = NewRecords(tp, n, size)
  BY StartedFields
<1>2. issued' = issued \cup ToSet(NewRecords(tp, n, size)) /\ UNCHANGED <<hw, acked>>
  BY DEF ProduceStart
<1> DEFINE S == ToSet(NewRecords(tp, n, size))
<1>3. issued' = issued \cup S /\ ToSet(producer'[p].recs) = S
  BY <1>1, <1>2
<1> HIDE DEF S
<1>4. \A c \in Producers : Busy(producer'[c]) =>
         \/ Busy(producer[c]) /\ producer'[c].recs = producer[c].recs
         \/ ToSet(producer'[c].recs) \subseteq issued'
  BY <1>1, <1>3
<1> QED
  BY <1>2, <1>3, <1>4, LogKept

\* The steps of a request before its commit.
LEMMA LogMoved ==
    ASSUME StoreTyped, LogInv, NEW p \in Producers, AwaitCapacity(p) \/ InsertHot(p) \/ WalAppend(p)
    PROVE  LogInv'
<1>1. UNCHANGED <<hw, acked, issued>>
  BY DEF AwaitCapacity, InsertHot, WalAppend, history
<1>2. producer[p].pc \in Appending
  BY DEF AwaitCapacity, InsertHot, WalAppend, Appending
<1>3. (\A c \in Producers \ {p} : producer'[c] = producer[c]) /\ producer'[p].recs = producer[p].recs
  <2>1. CASE WalAppend(p)
    BY <2>1, RequestAppended
  <2>2. CASE AwaitCapacity(p)
    BY <1>2, <2>2, MovedFields DEF AwaitCapacity, SameRequest
  <2>3. CASE InsertHot(p)
    BY <1>2, <2>3, MovedFields DEF InsertHot, SameRequest
  <2> QED
    BY <2>1, <2>2, <2>3
<1>4. Busy(producer[p])
  BY <1>2 DEF Busy, Appending
<1> QED
  BY <1>1, <1>3, <1>4, LogKept

\* What a commit acknowledges: the records of the request, at the watermark.
Committed(p, tp, base, recs) ==
    /\ tp \in Partitions /\ base = hw[tp] /\ base \in Nat /\ recs \in Seq(Record) /\ base + Len(recs) <= MaxOffset
    /\ \A i \in 1 .. Len(recs) : recs[i].tp = tp /\ recs[i].off = base + (i - 1)
    /\ hw' = [hw EXCEPT ![tp] = base + Len(recs)] /\ acked' = acked \cup ToSet(recs) /\ issued' = issued
    /\ ToSet(recs) \subseteq issued

\* ProduceCommit.
LEMMA CommitFields ==
    ASSUME StoreTyped, LogReads, LogInv, NEW p \in Producers, ProduceCommit(p)
    PROVE  /\ Committed(p, producer[p].tp, producer[p].base, producer[p].recs)
           /\ \A c \in Producers \ {p} : producer'[c] = producer[c]
           /\ ~ Busy(producer'[p])
<1>1. producer[p].pc = "commit" /\ Busy(producer[p])
  BY DEF ProduceCommit, Busy
<1>2. RequestOK(producer[p])
  BY <1>1 DEF StoreTyped, ProducerOK, IdleProducer
<1>3. RequestPlaced(producer[p])
  BY <1>1 DEF LogReads
<1>4. /\ producer[p].tp \in Partitions /\ producer[p].base \in Nat /\ producer[p].recs \in Seq(Record)
      /\ producer[p].base + Len(producer[p].recs) <= MaxOffset
  BY <1>2, StoreConstants DEF RequestOK, Requests, Ends
<1>5. /\ producer[p].base = hw[producer[p].tp]
      /\ \A i \in 1 .. Len(producer[p].recs) : producer[p].recs[i].tp = producer[p].tp
            /\ producer[p].recs[i].off = producer[p].base + (i - 1)
  BY <1>3 DEF RequestPlaced
<1>6. ToSet(producer[p].recs) \subseteq issued
  BY <1>1 DEF LogInv
<1>7. /\ hw' = [hw EXCEPT ![producer[p].tp] = producer[p].base + Len(producer[p].recs)]
      /\ acked' = acked \cup ToSet(producer[p].recs) /\ issued' = issued
  BY DEF ProduceCommit
<1>8. (\A c \in Producers \ {p} : producer'[c] = producer[c]) /\ ~ Busy(producer'[p])
  BY DEF ProduceCommit, StoreTyped, IdleProducer, Busy
<1> QED
  BY <1>4, <1>5, <1>6, <1>7, <1>8 DEF Committed

\* The elements of a sequence.
LEMMA SeqElements ==
    ASSUME NEW R, NEW s \in Seq(R)
    PROVE  \A x : x \in ToSet(s) <=> \E i \in 1 .. Len(s) : x = s[i]
BY DEF ToSet

\* A commit keeps the invariant of the log.
LEMMA LogCommit ==
    ASSUME StoreTyped, LogReads, LogInv, NEW p \in Producers, ProduceCommit(p)
    PROVE  LogInv'
<1> DEFINE tp == producer[p].tp
           base == producer[p].base
           recs == producer[p].recs
<1>1. /\ Committed(p, tp, base, recs) /\ \A c \in Producers \ {p} : producer'[c] = producer[c]
      /\ ~ Busy(producer'[p])
  BY CommitFields
<1>2. hw \in [Partitions -> Ends] /\ acked \subseteq Record /\ \A t \in Partitions : hw[t] \in Nat
  BY StoreConstants DEF StoreTyped, Ends, LogReads
<1> HIDE DEF tp, base, recs
<1>3. /\ tp \in Partitions /\ base = hw[tp] /\ base \in Nat /\ recs \in Seq(Record) /\ Len(recs) \in Nat
      /\ acked' = acked \cup ToSet(recs) /\ issued' = issued /\ ToSet(recs) \subseteq issued
  BY <1>1, LenProperties DEF Committed
<1>4. hw'[tp] = base + Len(recs) /\ \A t \in Partitions \ {tp} : hw'[t] = hw[t]
  BY <1>1, <1>2 DEF Committed
<1>5. ASSUME NEW r \in acked PROVE r.off < hw'[r.tp]
  <2>1. r.tp \in Partitions /\ r.off \in Nat /\ r.off < hw[r.tp] /\ hw[r.tp] \in Nat
    BY <1>2, RecordFields DEF LogInv
  <2>2. CASE r.tp = tp
    <3> DEFINE n == Len(recs)
    <3>1. n \in Nat /\ hw'[tp] = base + n /\ r.off < base
      BY <1>3, <1>4, <2>1, <2>2
    <3> HIDE DEF n
    <3>2. r.off < base + n
      BY <1>3, <2>1, <3>1
    <3> QED
      BY <2>2, <3>1, <3>2
  <2>3. CASE r.tp # tp
    BY <1>4, <2>1, <2>3
  <2> QED
    BY <2>2, <2>3
<1>6. ASSUME NEW r \in ToSet(recs) PROVE r.off < hw'[r.tp]
  <2>1. PICK i \in 1 .. Len(recs) : r = recs[i]
    BY <1>3, SeqElements
  <2>2. r.tp = tp /\ r.off = base + (i - 1)
    BY <1>1, <2>1 DEF Committed
  <2> DEFINE n == Len(recs)
  <2>3. n \in Nat /\ i \in 1 .. n /\ hw'[tp] = base + n
    BY <1>3, <1>4
  <2> HIDE DEF n
  <2>4. base + (i - 1) < base + n
    BY <1>3, <2>3
  <2> QED
    BY <2>2, <2>3, <2>4
<1>7. \A c \in Producers : Busy(producer'[c]) => Busy(producer[c]) /\ producer'[c].recs = producer[c].recs
  BY <1>1
<1>8. acked' \subseteq issued' /\ \A r \in acked' : r.off < hw'[r.tp]
  BY <1>3, <1>5, <1>6 DEF LogInv
<1>9. \A c \in Producers : Busy(producer'[c]) => ToSet(producer'[c].recs) \subseteq issued'
  BY <1>3, <1>7 DEF LogInv
<1> QED
  BY <1>8, <1>9 DEF LogInv

\* Every step keeps the invariant of the log.
LEMMA LogNext ==
    ASSUME Disciplined, StoreTyped, LogReads, LogReads', LogInv, [Next]_vars
    PROVE  LogInv'
<1>1. CASE Produce
  <2>1. ASSUME NEW p \in Producers, NEW tp \in Partitions, NEW n \in BatchSizes, NEW a \in AckLevels, NEW s \in Sizes,
               ProduceStart(p, tp, n, a, s)
        PROVE  LogInv'
    BY <2>1, LogStart
  <2>2. ASSUME NEW p \in Producers, AwaitCapacity(p) \/ InsertHot(p) \/ WalAppend(p) PROVE LogInv'
    BY <2>2, LogMoved
  <2>3. ASSUME NEW p \in Producers, ProduceCommit(p) PROVE LogInv'
    BY <2>3, LogCommit
  <2>4. ASSUME NEW p \in Producers PROVE ~ WalAppendErr(p) /\ ~ AppendRollback(p)
    <3>1. ~ WalAppendErr(p)
      BY DEF WalAppendErr, Fault, LogReads
    <3>2. ~ AppendRollback(p)
      BY DEF AppendRollback, LogReads, RequestPlaced, Busy
    <3> QED
      BY <3>1, <3>2
  <2>5. CASE FlushTick
    BY <2>5 DEF FlushTick, Disciplined
  <2> QED
    BY <1>1, <2>1, <2>2, <2>3, <2>4, <2>5 DEF Produce
<1>2. CASE UNCHANGED <<hw, acked, issued, producer>>
  BY <1>2, LogKept
<1>3. CASE CrashRestart
  <2>1. (\A p \in Producers : ~ Busy(producer'[p])) /\ acked' = acked /\ issued' = issued
    BY <1>3 DEF CrashRestart, IdleProducer, Busy, history
  <2>2. \A r \in acked' : r.tp \in Partitions /\ r.off < index'.parts[r.tp].next_offset
    BY RecordFields DEF LogReads
  <2>3. \A tp \in Partitions : hw'[tp] = index'.parts[tp].next_offset
    BY <1>3 DEF CrashRestart
  <2>4. \A r \in acked' : r.off < hw'[r.tp]
    BY <2>2, <2>3
  <2> QED
    BY <2>1, <2>4 DEF LogInv
<1>4. Tiering \/ TierFail \/ TierTear => UNCHANGED <<hw, acked, issued, producer>>
  BY DEF Tiering, TierOnce, TierReadSegment, TierPreCheck, TierUpload, TierPostCheck, TierRegister, TierFlip,
         TierReclaim, TierFail, TierTear, history
<1>5. (\E tp \in Partitions : LoseLeadership(tp) \/ GainLeadership(tp)) => UNCHANGED <<hw, acked, issued, producer>>
  BY DEF LoseLeadership, GainLeadership, tasks, history
<1>6. Compacting \/ (\E plan \in compact.plans : CompactFail(plan)) \/ CompactTear => UNCHANGED <<hw, acked, issued, producer>>
  BY DEF Compacting, CompactCycle, CompactUpload, CompactRecord, CompactReplace, CompactDelete, CompactFail, CompactTear, history
<1>7. Reading \/ UNCHANGED vars => UNCHANGED <<hw, acked, issued, producer>>
  BY DEF Reading, ReadStart, ReadDownload, ReadRetry, vars, tasks, history
<1> QED
  BY <1>1, <1>2, <1>3, <1>4, <1>5, <1>6, <1>7 DEF Next

\* What a read of an acknowledged offset identifies.
LEMMA ReadIdIs ==
    ASSUME LogReads, LogInv, NEW r \in acked
    PROVE  ReadId(r.tp, r.off) = r.id
<1>1. Served(r.tp, r.off) = {r} /\ r \in issued
  BY DEF LogReads, LogInv
<1> DEFINE c == CHOOSE x \in issued : Served(r.tp, r.off) = {x}
<1>2. \E x \in issued : Served(r.tp, r.off) = {x}
  BY <1>1
<1>3. c \in issued /\ Served(r.tp, r.off) = {c}
  BY <1>2
<1>4. c = r
  BY <1>1, <1>3
<1>5. ReadId(r.tp, r.off) = c.id
  BY <1>2 DEF ReadId
<1> QED
  BY <1>4, <1>5

\* The offsets of tp among the records S, and the log they make.
Taken(S, tp) == {r.off : r \in {x \in S : x.tp = tp}}
IdAt(S, tp, o) == (CHOOSE r \in S : r.tp = tp /\ r.off = o).id
LogOf(S) == [tp \in Partitions |-> [o \in Taken(S, tp) |-> IdAt(S, tp, o)]]

\* The log of the refinement.
LogView ==
    [tp \in Partitions |-> [o \in {r.off : r \in {x \in acked : x.tp = tp}} |-> ReadId(tp, o)]]

\* The record at an offset.
LEMMA IdAtIs ==
    ASSUME NEW S, OnePerOffset(S), NEW r \in S
    PROVE  IdAt(S, r.tp, r.off) = r.id /\ r.off \in Taken(S, r.tp)
<1> DEFINE c == CHOOSE x \in S : x.tp = r.tp /\ x.off = r.off
<1>1. c \in S /\ c.tp = r.tp /\ c.off = r.off
  OBVIOUS
<1>2. c = r
  BY <1>1 DEF OnePerOffset
<1>3. IdAt(S, r.tp, r.off) = r.id
  BY <1>2 DEF IdAt
<1>4. r.off \in Taken(S, r.tp)
  BY DEF Taken
<1> QED
  BY <1>3, <1>4

\* The log depends on what was acknowledged only.
LEMMA ViewIsLog ==
    ASSUME LogReads, LogInv
    PROVE  LogView = LogOf(acked)
<1>1. OnePerOffset(acked)
  BY DEF LogReads
<1>2. ASSUME NEW tp \in Partitions, NEW o \in Taken(acked, tp) PROVE ReadId(tp, o) = IdAt(acked, tp, o)
  <2>1. PICK r \in acked : r.tp = tp /\ r.off = o
    BY <1>2 DEF Taken
  <2> QED
    BY <1>1, <2>1, ReadIdIs, IdAtIs
<1>3. \A tp \in Partitions : [o \in Taken(acked, tp) |-> ReadId(tp, o)] = [o \in Taken(acked, tp) |-> IdAt(acked, tp, o)]
  BY <1>2
<1>4. LogView = [tp \in Partitions |-> [o \in Taken(acked, tp) |-> ReadId(tp, o)]]
  BY DEF LogView, Taken
<1> QED
  BY <1>3, <1>4 DEF LogOf

\* A commit appends its batch to the log.
Batched(new, old, tp, base, last, batch) ==
    new = [old EXCEPT ![tp] = [o \in DOMAIN @ \cup (base .. last) |-> IF o \in DOMAIN @ THEN @[o] ELSE batch[o]]]

\* The log of more records, when those are a batch at base.
LEMMA LogGrows ==
    ASSUME NEW S, NEW recs \in Seq(Record), NEW T, T = S \cup ToSet(recs), OnePerOffset(T), NEW tp \in Partitions,
           NEW base \in Nat, NEW last \in Nat, last + 1 = base + Len(recs), base <= last,
           \A i \in 1 .. Len(recs) : recs[i].tp = tp /\ recs[i].off = base + (i - 1),
           \A o \in Taken(S, tp) : o \in Nat
    PROVE  \E batch \in [base .. last -> 0 .. MaxAttempts - 1] : Batched(LogOf(T), LogOf(S), tp, base, last, batch)
<1> DEFINE n == Len(recs)
<1>1. n \in Nat /\ last + 1 = base + n
  BY LenProperties
<1>2. \A i \in 1 .. n : recs[i] \in Record /\ recs[i] \in ToSet(recs) /\ recs[i] \in T
        /\ recs[i].tp = tp /\ recs[i].off = base + (i - 1)
  BY DEF ToSet
<1>3. \A x \in ToSet(recs) : \E i \in 1 .. n : x = recs[i]
  BY SeqElements
<1>4. OnePerOffset(S)
  BY DEF OnePerOffset
<1> HIDE DEF n
<1> DEFINE batch == [o \in base .. last |-> recs[o - base + 1].id]
<1>5. ASSUME NEW o \in base .. last
      PROVE  /\ o - base + 1 \in 1 .. n /\ recs[o - base + 1].off = o /\ recs[o - base + 1].tp = tp
             /\ recs[o - base + 1] \in Record /\ recs[o - base + 1] \in T
  <2>1. o - base + 1 \in 1 .. n /\ base + ((o - base + 1) - 1) = o
    BY <1>1
  <2> QED
    BY <1>2, <2>1
<1>6. batch \in [base .. last -> 0 .. MaxAttempts - 1]
  <2>1. \A r \in Record : r.id \in 0 .. MaxAttempts - 1
    BY DEF Record
  <2> QED
    BY <1>5, <2>1
<1>7. \A o \in base .. last : IdAt(T, tp, o) = batch[o] /\ o \in Taken(T, tp)
  <2> SUFFICES ASSUME NEW o \in base .. last PROVE IdAt(T, tp, o) = batch[o] /\ o \in Taken(T, tp)
    OBVIOUS
  <2> DEFINE r == recs[o - base + 1]
  <2>1. r \in T /\ r.off = o /\ r.tp = tp
    BY <1>5
  <2>2. batch[o] = r.id
    OBVIOUS
  <2> HIDE DEF r, batch
  <2> QED
    BY <2>1, <2>2, IdAtIs
<1>8. \A t \in Partitions : \A o \in Taken(S, t) : IdAt(T, t, o) = IdAt(S, t, o) /\ o \in Taken(T, t)
  <2> SUFFICES ASSUME NEW t \in Partitions, NEW o \in Taken(S, t)
               PROVE  IdAt(T, t, o) = IdAt(S, t, o) /\ o \in Taken(T, t)
    OBVIOUS
  <2>1. PICK r \in S : r.tp = t /\ r.off = o
    BY DEF Taken
  <2>2. r \in T
    OBVIOUS
  <2>3. IdAt(S, t, o) = r.id
    BY <1>4, <2>1, IdAtIs
  <2>4. IdAt(T, t, o) = r.id /\ o \in Taken(T, t)
    BY <2>1, <2>2, IdAtIs
  <2> QED
    BY <2>3, <2>4
<1>9. Taken(T, tp) = Taken(S, tp) \cup (base .. last)
  <2>1. ASSUME NEW o \in Taken(T, tp) PROVE o \in Taken(S, tp) \cup (base .. last)
    <3>1. PICK r \in T : r.tp = tp /\ r.off = o
      BY <2>1 DEF Taken
    <3>2. CASE r \in S
      BY <3>1, <3>2 DEF Taken
    <3>3. CASE r \in ToSet(recs)
      <4>1. PICK i \in 1 .. n : r = recs[i]
        BY <1>3, <3>3
      <4>2. o = base + (i - 1)
        BY <1>2, <3>1, <4>1
      <4> QED
        BY <1>1, <4>2
    <3> QED
      BY <3>2, <3>3
  <2> QED
    BY <1>7, <1>8, <2>1
<1>10. \A t \in Partitions \ {tp} : Taken(T, t) = Taken(S, t)
  <2> SUFFICES ASSUME NEW t \in Partitions \ {tp}, NEW o \in Taken(T, t) PROVE o \in Taken(S, t)
    BY <1>8
  <2>1. PICK r \in T : r.tp = t /\ r.off = o
    BY DEF Taken
  <2>2. r \in S
    BY <1>2, <1>3, <2>1
  <2> QED
    BY <2>1, <2>2 DEF Taken
<1> HIDE DEF batch
<1>11. \A t \in Partitions : LogOf(S)[t] = [o \in Taken(S, t) |-> IdAt(S, t, o)]
  BY DEF LogOf
<1> DEFINE new == [o \in Taken(S, tp) \cup (base .. last) |-> IF o \in Taken(S, tp) THEN IdAt(S, tp, o) ELSE batch[o]]
<1>12. [o \in Taken(T, tp) |-> IdAt(T, tp, o)] = new
  BY <1>7, <1>8, <1>9
<1>13. \A t \in Partitions \ {tp} : [o \in Taken(T, t) |-> IdAt(T, t, o)] = [o \in Taken(S, t) |-> IdAt(S, t, o)]
  BY <1>8, <1>10
<1>14. LogOf(T) = [LogOf(S) EXCEPT ![tp] = new]
  <2> HIDE DEF new
  <2> QED
    BY <1>12, <1>13 DEF LogOf
<1>15. new = [o \in DOMAIN LogOf(S)[tp] \cup (base .. last) |-> IF o \in DOMAIN LogOf(S)[tp] THEN LogOf(S)[tp][o] ELSE batch[o]]
  <2>1. DOMAIN LogOf(S)[tp] = Taken(S, tp) /\ \A o \in Taken(S, tp) : LogOf(S)[tp][o] = IdAt(S, tp, o)
    BY <1>11
  <2> QED
    BY <2>1
<1>16. Batched(LogOf(T), LogOf(S), tp, base, last, batch)
  <2> HIDE DEF new
  <2>1. tp \in DOMAIN LogOf(S)
    BY DEF LogOf
  <2> QED
    BY <1>14, <1>15, <2>1 DEF Batched
<1> QED
  BY <1>6, <1>16

\* Only a commit acknowledges.
LEMMA AckingSteps ==
    ASSUME [Next]_vars
    PROVE  acked' = acked \/ \E p \in Producers : ProduceCommit(p)
<1>1. CASE Produce
  <2>1. ASSUME NEW p \in Producers, NEW tp \in Partitions, NEW n \in BatchSizes, NEW a \in AckLevels, NEW s \in Sizes,
               ProduceStart(p, tp, n, a, s)
        PROVE  acked' = acked
    BY <2>1 DEF ProduceStart
  <2>2. ASSUME NEW p \in Producers, AwaitCapacity(p) \/ InsertHot(p) \/ WalAppend(p) PROVE acked' = acked
    BY <2>2 DEF AwaitCapacity, InsertHot, WalAppend, history
  <2>3. ASSUME NEW p \in Producers, WalAppendErr(p) \/ AppendRollback(p) PROVE acked' = acked
    BY <2>3 DEF WalAppendErr, AppendRollback, history
  <2>4. CASE FlushTick
    BY <2>4 DEF FlushTick, history
  <2> QED
    BY <1>1, <2>1, <2>2, <2>3, <2>4 DEF Produce
<1>2. CASE Tiering \/ TierFail \/ TierTear
  BY <1>2 DEF Tiering, TierOnce, TierReadSegment, TierPreCheck, TierUpload, TierPostCheck, TierRegister, TierFlip,
              TierReclaim, TierFail, TierTear, history
<1>3. CASE \E tp \in Partitions : LoseLeadership(tp) \/ GainLeadership(tp)
  BY <1>3 DEF LoseLeadership, GainLeadership, history
<1>4. CASE Compacting \/ (\E plan \in compact.plans : CompactFail(plan)) \/ CompactTear
  BY <1>4 DEF Compacting, CompactCycle, CompactUpload, CompactRecord, CompactReplace, CompactDelete, CompactFail,
              CompactTear, history
<1>5. CASE Reading \/ UNCHANGED vars \/ CrashRestart
  BY <1>5 DEF Reading, ReadStart, ReadDownload, ReadRetry, vars, CrashRestart, history
<1> QED
  BY <1>1, <1>2, <1>3, <1>4, <1>5 DEF Next

\* A commit appends to the log or acknowledges nothing.
LEMMA CommitAppends ==
    ASSUME StoreTyped, LogReads, LogReads', LogInv, NEW p \in Producers, ProduceCommit(p)
    PROVE  \/ acked' = acked
           \/ \E tp \in Partitions, base, last \in 0 .. MaxOffset - 1 :
                 /\ base <= last /\ \A o \in DOMAIN LogOf(acked)[tp] : o < base
                 /\ \E batch \in [base .. last -> 0 .. MaxAttempts - 1] :
                       Batched(LogOf(acked'), LogOf(acked), tp, base, last, batch)
<1> DEFINE tp == producer[p].tp
           base == producer[p].base
           recs == producer[p].recs
<1>1. Committed(p, tp, base, recs)
  BY CommitFields
<1>2. acked \subseteq Record
  BY DEF LogReads
<1>3. OnePerOffset(acked')
  BY DEF LogReads, OnePerOffset
<1> HIDE DEF tp, base, recs
<1>4. /\ tp \in Partitions /\ base = hw[tp] /\ base \in Nat /\ recs \in Seq(Record) /\ Len(recs) \in Nat
      /\ acked' = acked \cup ToSet(recs) /\ base + Len(recs) <= MaxOffset
      /\ \A i \in 1 .. Len(recs) : recs[i].tp = tp /\ recs[i].off = base + (i - 1)
  BY <1>1, LenProperties DEF Committed
<1>5. CASE Len(recs) = 0
  <2>1. ToSet(recs) = {}
    <3>1. (1 .. Len(recs)) = {}
      BY <1>5
    <3> QED
      BY <1>4, <3>1, SeqElements
  <2> QED
    BY <1>4, <2>1
<1>6. CASE Len(recs) # 0
  <2> DEFINE n == Len(recs)
             last == base + n - 1
  <2>1. n \in Nat /\ n # 0 /\ base + n <= MaxOffset /\ MaxOffset \in Nat
    BY <1>4, <1>6, StoreConstants
  <2> HIDE DEF n
  <2>2. last \in Nat /\ last + 1 = base + n /\ base <= last /\ base \in 0 .. MaxOffset - 1 /\ last \in 0 .. MaxOffset - 1
    <3>1. base \in Nat
      BY <1>4
    <3> QED
      BY <2>1, <3>1
  <2> HIDE DEF last
  <2>3. \A o \in Taken(acked, tp) : o \in Nat /\ o < base
    BY <1>2, <1>4, RecordFields DEF Taken, LogInv
  <2>4. \E batch \in [base .. last -> 0 .. MaxAttempts - 1] : Batched(LogOf(acked'), LogOf(acked), tp, base, last, batch)
    <3>1. last + 1 = base + Len(recs)
      BY <2>2 DEF n
    <3> QED
      BY <1>3, <1>4, <2>2, <2>3, <3>1, LogGrows
  <2>5. DOMAIN LogOf(acked)[tp] = Taken(acked, tp)
    BY <1>4 DEF LogOf
  <2> QED
    BY <1>4, <2>2, <2>3, <2>4, <2>5
<1> QED
  BY <1>5, <1>6

\* A step of the store is a step of the log, or leaves it.
LEMMA LogStep ==
    ASSUME StoreTyped, LogReads, LogReads', LogInv, LogInv', [Next]_vars
    PROVE  [Log!Next]_LogView
<1>1. LogView = LogOf(acked)
  BY ViewIsLog
<1>2. (LogReads /\ LogInv => LogView = LogOf(acked))'
  BY ViewIsLog, PTL
<1>3. LogView' = LogOf(acked')
  BY <1>2 DEF LogOf, Taken, IdAt
<1>4. CASE acked' = acked
  BY <1>1, <1>3, <1>4
<1>5. ASSUME NEW p \in Producers, ProduceCommit(p), acked' # acked PROVE Log!Next
  <2>1. PICK tp \in Partitions, base \in 0 .. MaxOffset - 1, last \in 0 .. MaxOffset - 1 :
           /\ base <= last /\ \A o \in DOMAIN LogView[tp] : o < base
           /\ \E batch \in [base .. last -> 0 .. MaxAttempts - 1] : Batched(LogView', LogView, tp, base, last, batch)
    BY <1>1, <1>3, <1>5, CommitAppends
  <2>2. Log!Acknowledge(tp, base, last)
    BY <2>1 DEF Log!Acknowledge, Batched, LogView
  <2> QED
    BY <2>1, <2>2 DEF Log!Next
<1> QED
  BY <1>4, <1>5, AckingSteps

\* The empty store is the empty log.
LEMMA LogInit ==
    ASSUME Init
    PROVE  LogInv /\ LogView = [tp \in Partitions |-> <<>>]
<1>1. LogInv
  BY DEF Init, LogInv, IdleProducer, Busy
<1>2. acked = {}
  BY DEF Init
<1>3. \A tp \in Partitions : [o \in {r.off : r \in {x \in acked : x.tp = tp}} |-> ReadId(tp, o)] = <<>>
  BY <1>2
<1> QED
  BY <1>1, <1>3 DEF LogView

\* A store that always reads back what it acknowledged implements the partition log.
LEMMA LogRefines ==
    ASSUME Disciplined
    PROVE  Spec /\ []LogReads => StoreIsPartitionLog
<1>1. Init => LogInv /\ Log!Init
  BY LogInit DEF Log!Init, LogView
<1>2. StoreTyped /\ LogReads /\ LogReads' /\ LogInv /\ [Next]_vars => LogInv'
  BY LogNext
<1>3. Spec /\ []LogReads => []LogInv
  BY <1>1, <1>2, AlwaysTyped, PTL DEF Spec
<1>4. StoreTyped /\ LogReads /\ LogReads' /\ LogInv /\ LogInv' /\ [Next]_vars => [Log!Next]_LogView
  BY LogStep
<1>5. Spec /\ []LogReads => Log!Init /\ [][Log!Next]_LogView
  BY <1>1, <1>3, <1>4, AlwaysTyped, PTL DEF Spec
<1> QED
  BY <1>5, PTL DEF StoreIsPartitionLog, Log!Spec, LogView

\* The store implements the partition log: reads of acknowledged offsets return what was
\* acknowledged there, through tiering, eviction, retries, crashes and recovery.
THEOREM ImplementsPartitionLog ==
    ASSUME Orderly
    PROVE  Spec => StoreIsPartitionLog
<1>1. ASSUME StoreTyped, StoreInv PROVE LogReads
  <2>1. acked \in SUBSET Record /\ OnePerOffset(acked)
    BY <1>1, AckedSafe, OneSafe DEF OnePerOffset
  <2>2. \A r \in acked : Served(r.tp, r.off) = {r} /\ r.off < index.parts[r.tp].next_offset
    BY <1>1, AckedSafe, ServedIs, ColdIsSafe
  <2>3. \A p \in Producers : Busy(producer[p]) => RequestPlaced(producer[p])
    BY <1>1 DEF StoreInv, Clients, RequestInv, RequestPlaced
  <2>4. faults["wal"] = 0
    BY <1>1 DEF StoreInv, Quiet
  <2> QED
    BY <2>1, <2>2, <2>3, <2>4 DEF LogReads
<1>2. Disciplined
  BY DEF Orderly
<1> QED
  BY <1>1, <1>2, AlwaysTyped, AlwaysInv, LogRefines, PTL

-------------------------------------------------------------------------------
(* Memory mirrors the manifest.                                            *)

\* Two maps with the same values are the same.
LEMMA SameMap ==
    ASSUME NEW S, NEW R, NEW f \in Maps(S, R), NEW g \in Maps(S, R), DOMAIN f = DOMAIN g, \A x \in DOMAIN f : f[x] = g[x]
    PROVE  f = g
<1>1. f \in [DOMAIN f -> R] /\ g \in [DOMAIN f -> R]
  BY MapFields
<1> QED
  BY <1>1

\* Memory has the ranges of the manifest; between the manifest append and the flip, all but one.
Mirrored(idx, live, t, disk) ==
    \A tp \in Partitions :
        /\ t.pc = "flip" /\ t.tp = tp =>
              Stored(live[tp], idx.parts[tp].cold, StartIn(disk[t.queue[1]], tp), live[tp][StartIn(disk[t.queue[1]], tp)])
        /\ ~ (t.pc = "flip" /\ t.tp = tp) => idx.parts[tp].cold = live[tp]
NoIo == "io" \in DOMAIN faults /\ faults["io"] = 0
MirrorInv == NoIo /\ Mirrored(index, manifest.live, tier, wal.disk)

\* Another fault.
LEMMA NoIoFault ==
    ASSUME NoIo, NEW kind, kind # "io", Fault(kind)
    PROVE  NoIo'
BY DEF NoIo, Fault

\* The ranges, and what the task has in hand, stay.
LEMMA MirrorSame ==
    ASSUME MirrorInv, NoIo', manifest'.live = manifest.live, tier' = tier,
           \A tp \in Partitions : index'.parts[tp].cold = index.parts[tp].cold,
           tier.pc = "flip" => wal'.disk[tier.queue[1]] = wal.disk[tier.queue[1]]
    PROVE  MirrorInv'
BY DEF MirrorInv, Mirrored

\* The task moves on, away from a flip.
LEMMA MirrorMoved ==
    ASSUME MirrorInv, NoIo', manifest'.live = manifest.live, index' = index, tier.pc # "flip", tier'.pc # "flip"
    PROVE  MirrorInv'
BY DEF MirrorInv, Mirrored

\* The steps of a request.
LEMMA MirrorProduce ==
    ASSUME Orderly, StoreTyped, StoreInv, MirrorInv, Produce
    PROVE  MirrorInv'
<1>1. (\A p \in Producers : ~ WalAppendErr(p) /\ ~ AppendRollback(p)) /\ ~ FlushTick /\ NoIo
  BY NotTaken DEF MirrorInv
<1>2. CASE UNCHANGED <<index, wal, manifest, tier, faults>>
  BY <1>1, <1>2, MirrorSame DEF NoIo
<1>3. ASSUME NEW p \in Producers, InsertHot(p) PROVE MirrorInv'
  <2>1. UNCHANGED <<wal, manifest, tier, faults>>
    BY <1>3 DEF InsertHot, storage
  <2> DEFINE rec == Head(producer[p].todo)
  <2>2. HotInserted(index', index, rec.tp, rec.off, rec)
    BY <1>3, TypedInsertHot
  <2>3. \A tp \in Partitions : index'.parts[tp].cold = index.parts[tp].cold
    BY <2>2 DEF HotInserted, Elsewhere
  <2> QED
    BY <1>1, <2>1, <2>3, MirrorSame DEF NoIo
<1>4. ASSUME NEW p \in Producers, WalAppend(p) PROVE MirrorInv'
  <2>1. UNCHANGED <<index, manifest, tier, faults>>
    BY <1>4 DEF WalAppend
  <2> DEFINE rec == Head(producer[p].todo)
  <2>2. WalOK(wal) /\ rec \in Record /\ FsyncOnWrite \in BOOLEAN
    BY <1>4, Incoming, StoreConstants DEF WalAppend, Appending, StoreTyped
  <2>3. SealedKept(wal', wal)
    BY <1>4, <2>2, AppendFields DEF WalAppend
  <2>4. ASSUME tier.pc = "flip" PROVE wal'.disk[tier.queue[1]] = wal.disk[tier.queue[1]]
    BY <2>3, <2>4, TierQueue DEF SealedKept
  <2> QED
    BY <1>1, <2>1, <2>4, MirrorSame DEF NoIo
<1>5. ASSUME NEW p \in Producers, NEW tp \in Partitions, NEW n \in BatchSizes, NEW a \in AckLevels, NEW s \in Sizes,
             ProduceStart(p, tp, n, a, s)
      PROVE  UNCHANGED <<index, wal, manifest, tier, faults>>
  BY <1>5 DEF ProduceStart, storage
<1>6. ASSUME NEW p \in Producers, AwaitCapacity(p) \/ ProduceCommit(p)
      PROVE  UNCHANGED <<index, wal, manifest, tier, faults>>
  BY <1>6 DEF AwaitCapacity, ProduceCommit, storage
<1> QED
  BY <1>1, <1>2, <1>3, <1>4, <1>5, <1>6 DEF Produce

\* TierRegister.
LEMMA MirrorRegister ==
    ASSUME StoreTyped, StoreInv, MirrorInv, TierRegister
    PROVE  MirrorInv'
<1>1. tier.pc = "register" /\ tier.pc \in Working /\ AtWork(tier, wal)
  BY TierAt DEF TierRegister, Working
<1>2. manifest' = Registered /\ tier' = [tier EXCEPT !.pc = "flip"] /\ UNCHANGED <<index, wal, faults>>
  BY DEF TierRegister
<1>3. RangeAdded(manifest'.live, manifest.live, wal.disk[tier.queue[1]], tier.tp)
  BY <1>1, <1>2, InvRegistered
<1>4. tier'.pc = "flip" /\ tier'.queue = tier.queue /\ tier'.tp = tier.tp /\ tier.tp \in Partitions
  BY <1>1, <1>2, TierMoved DEF AtWork
<1>5. \A tp \in Partitions : index.parts[tp].cold = manifest.live[tp]
  BY <1>1 DEF MirrorInv, Mirrored
<1> DEFINE seg == wal.disk[tier.queue[1]]
           lo == StartIn(seg, tier.tp)
<1>6. Stored(manifest'.live[tier.tp], index.parts[tier.tp].cold, lo, manifest'.live[tier.tp][lo])
  BY <1>3, <1>4, <1>5 DEF RangeAdded, Stored
<1>7. \A q \in Partitions \ {tier.tp} : manifest'.live[q] = index.parts[q].cold
  BY <1>3, <1>5 DEF RangeAdded
<1>8. NoIo'
  BY <1>2 DEF MirrorInv, NoIo
<1> QED
  BY <1>2, <1>4, <1>6, <1>7, <1>8 DEF MirrorInv, Mirrored

\* TierFlip.
LEMMA MirrorFlip ==
    ASSUME StoreTyped, StoreTyped', StoreInv, MirrorInv, TierFlip
    PROVE  MirrorInv'
<1> DEFINE tp == tier.tp
           lo == StartIn(wal.disk[tier.queue[1]], tp)
           hi == EndIn(wal.disk[tier.queue[1]], tp)
<1>1. tier'.pc = "group" /\ Flipped(index', index, tp, lo, hi, manifest.live[tp][lo])
  BY InvFlip
<1>2. tier.pc = "flip" /\ UNCHANGED <<manifest, faults>> /\ tp \in Partitions
  BY TierAt DEF TierFlip, storage, AtWork, Working
<1>3. Stored(manifest.live[tp], index.parts[tp].cold, lo, manifest.live[tp][lo])
  BY <1>2 DEF MirrorInv, Mirrored
<1>4. Stored(index'.parts[tp].cold, index.parts[tp].cold, lo, manifest.live[tp][lo])
  BY <1>1 DEF Flipped
<1>5. \A q \in Partitions \ {tp} : index'.parts[q].cold = manifest.live[q]
  BY <1>1, <1>2 DEF Flipped, Elsewhere, MirrorInv, Mirrored
<1>6. index'.parts[tp].cold = manifest.live[tp]
  <2> DEFINE f == index'.parts[tp].cold
             g == manifest.live[tp]
  <2>1. f \in Colds /\ g \in Colds
    BY <1>2 DEF StoreTyped, Exact, Indexes, Entries, Manifests
  <2>2. DOMAIN f = DOMAIN g /\ \A x \in DOMAIN f : f[x] = g[x]
    <3> HIDE DEF f, g, lo
    <3>1. /\ Stored(g, index.parts[tp].cold, lo, g[lo])
          /\ Stored(f, index.parts[tp].cold, lo, g[lo])
      BY <1>3, <1>4 DEF f, g
    <3> QED
      BY <3>1 DEF Stored
  <2> HIDE DEF f, g
  <2>3. f = g
    BY <2>1, <2>2, SameMap DEF Colds
  <2> QED
    BY <2>3 DEF f, g
<1>7. NoIo'
  BY <1>2 DEF MirrorInv, NoIo
<1> QED
  BY <1>1, <1>2, <1>5, <1>6, <1>7 DEF MirrorInv, Mirrored

\* The other steps of a tiering cycle.
LEMMA MirrorTier ==
    ASSUME StoreTyped, StoreInv, MirrorInv,
           \/ TierOnce \/ TierReadSegment \/ TierUpload \/ TierPostCheck \/ TierReclaim
           \/ \E tp \in Partitions : TierPreCheck(tp)
    PROVE  MirrorInv'
<1>1. UNCHANGED <<index, manifest, faults>> /\ tier.pc # "flip"
  BY DEF TierOnce, TierReadSegment, TierUpload, TierPostCheck, TierReclaim, TierPreCheck, storage
<1>2. tier'.pc # "flip"
  <2>1. CASE TierOnce \/ TierReadSegment \/ TierReclaim
    BY <2>1, NextPc DEF TierOnce, TierReadSegment, TierReclaim
  <2>2. CASE \E tp \in Partitions : TierPreCheck(tp)
    BY <2>2 DEF TierPreCheck, GroupDone
  <2>3. CASE TierUpload \/ TierPostCheck
    <3>1. AtWork(tier, wal)
      BY <2>3, TierAt DEF TierUpload, TierPostCheck, Working
    <3>2. \/ tier' = [tier EXCEPT !.pc = "postcheck"] \/ tier' = [tier EXCEPT !.pc = "register"]
          \/ tier' = GroupDone(tier.tp, TRUE)
      BY <2>3 DEF TierUpload, TierPostCheck
    <3>3. CASE tier' = [tier EXCEPT !.pc = "postcheck"]
      <4>1. tier'.pc = "postcheck"
        BY <3>1, <3>3, TierMoved
      <4> QED
        BY <4>1
    <3>4. CASE tier' = [tier EXCEPT !.pc = "register"]
      <4>1. tier'.pc = "register"
        BY <3>1, <3>4, TierMoved
      <4> QED
        BY <4>1
    <3>5. CASE tier' = GroupDone(tier.tp, TRUE)
      <4>1. tier'.pc = "group"
        BY <3>5 DEF GroupDone
      <4> QED
        BY <4>1
    <3> QED
      BY <3>2, <3>3, <3>4, <3>5
  <2> QED
    BY <2>1, <2>2, <2>3
<1>3. NoIo'
  BY <1>1 DEF MirrorInv, NoIo
<1> QED
  BY <1>1, <1>2, <1>3, MirrorMoved

\* Every step keeps the mirror.
LEMMA MirrorNext ==
    ASSUME Orderly, StoreTyped, StoreTyped', StoreInv, MirrorInv, [Next]_vars
    PROVE  MirrorInv'
<1>1. ~ TierTear /\ ~ Compacting /\ ~ CompactTear /\ ~ \E plan \in compact.plans : CompactFail(plan)
  BY NotTaken
<1>2. NoIo /\ ~ TierFail
  BY DEF MirrorInv, NoIo, TierFail, Fault
<1>3. CASE Tiering
  BY <1>3, MirrorTier, MirrorRegister, MirrorFlip DEF Tiering
<1>4. CASE \E tp \in Partitions : LoseLeadership(tp) \/ GainLeadership(tp)
  <2>1. UNCHANGED <<index, wal, manifest, tier>>
    BY <1>4 DEF LoseLeadership, GainLeadership, storage, tasks
  <2>2. faults' = faults \/ Fault("fence")
    BY <1>4 DEF LoseLeadership, GainLeadership
  <2>3. NoIo'
    BY <1>2, <2>2, NoIoFault DEF NoIo
  <2> QED
    BY <2>1, <2>3, MirrorSame
<1>5. CASE Reading \/ UNCHANGED vars
  <2>1. UNCHANGED <<index, wal, manifest, tier, faults>>
    BY <1>5 DEF Reading, ReadStart, ReadDownload, ReadRetry, vars, storage, tasks
  <2> QED
    BY <1>2, <2>1, MirrorSame DEF NoIo
<1>6. CASE CrashRestart
  <2>1. Recovered(index', manifest', wal') /\ tier'.pc = "idle"
    BY <1>6, TypedCrash DEF CrashRestart, IdleTier
  <2>2. Fault("crash")
    BY <1>6 DEF CrashRestart
  <2>3. NoIo'
    BY <1>2, <2>2, NoIoFault
  <2> QED
    BY <2>1, <2>3 DEF MirrorInv, Mirrored, Recovered
<1> QED
  BY <1>1, <1>2, <1>3, <1>4, <1>5, <1>6, MirrorProduce DEF Next

\* Without compaction and failed I/O, memory and manifest have the same cold ranges except
\* between a manifest append and its flip, and the ranges never overlap (tier_segment
\* appends before it flips; recovery inserts what the manifest has).
THEOREM ViewsAgree ==
    ASSUME Orderly, Faults["io"] = 0
    PROVE  Spec => []ColdViewsAgree
<1>1. Init => MirrorInv
  <2> SUFFICES ASSUME Init PROVE MirrorInv
    OBVIOUS
  <2>1. NoIo
    BY StoreConstants DEF Init, NoIo
  <2>2. \A tp \in Partitions : index.parts[tp].cold = manifest.live[tp]
    BY DEF Init, EmptyIndex, EmptyEntries, EmptyManifest
  <2>3. tier.pc = "idle"
    BY DEF Init, IdleTier
  <2> QED
    BY <2>1, <2>2, <2>3 DEF MirrorInv, Mirrored
<1>2. StoreTyped /\ StoreTyped' /\ StoreInv /\ MirrorInv /\ [Next]_vars => MirrorInv'
  BY MirrorNext
<1>3. ASSUME StoreTyped, StoreInv, MirrorInv PROVE ColdViewsAgree
  <2>1. tier.pc # "flip" => \A tp \in Partitions : index.parts[tp].cold = manifest.live[tp]
    BY <1>3 DEF MirrorInv, Mirrored
  <2>2. \A tp \in Partitions : Apart(index.parts[tp].cold)
    BY <1>3, RangesApart
  <2> QED
    BY <2>1, <2>2 DEF ColdViewsAgree, Apart
<1> QED
  BY <1>1, <1>2, <1>3, AlwaysTyped, AlwaysInv, PTL DEF Spec

===============================================================================
