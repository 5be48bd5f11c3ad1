-------------------------- MODULE SelectionStoreProofs --------------------------
(***************************************************************************)
(* The selection store for any number of sessions and tasks and any        *)
(* capacity: the two maps stay bounded and hold exactly what has a value,  *)
(* each forgets in the order of use, and together they keep the promise of *)
(* LatestSelection.                                                        *)
(***************************************************************************)
EXTENDS SelectionStore, BoundedMapProofs

(* What IsSuffix says, place by place. *)
EndsAs(a, b) ==
  /\ Len(a) <= Len(b)
  /\ \A i \in 1 .. Len(a) : a[i] = b[i + (Len(b) - Len(a))]

LEMMA PrefixPlaces ==
  ASSUME NEW S, NEW a \in Seq(S), NEW b \in Seq(S)
  PROVE  IsPrefix(a, b) <=> Len(a) <= Len(b) /\ \A i \in 1 .. Len(a) : a[i] = b[i]
<1>1. /\ Len(a) \in Nat /\ Len(b) \in Nat
      /\ (\A i \in 1 .. Len(a) : a[i] \in S) /\ \A i \in 1 .. Len(b) : b[i] \in S
  BY LenProperties, ElementOfSeq
<1>2. CASE ~(Len(a) <= Len(b))
  BY <1>2 DEF IsPrefix
<1>3. CASE Len(a) <= Len(b) /\ Len(a) = 0
  BY <1>1, <1>3, SubSeqEmpty DEF IsPrefix
<1>4. CASE Len(a) <= Len(b) /\ Len(a) # 0
  <2> DEFINE x == SubSeq(a, 1, Len(a))
             y == SubSeq(b, 1, Len(a))
  <2>1. /\ x \in Seq(S) /\ Len(x) = Len(a) /\ \A i \in 1 .. Len(a) : x[i] = a[i]
    <3>1. /\ x \in Seq(S) /\ Len(x) = Len(a) - 1 + 1
          /\ \A i \in 1 .. Len(a) - 1 + 1 : x[i] = a[1 + i - 1]
      BY <1>1, <1>4, SubSeqProperties
    <3> QED BY <1>1, <3>1
  <2>2. /\ y \in Seq(S) /\ Len(y) = Len(a) /\ \A i \in 1 .. Len(a) : y[i] = b[i]
    <3>1. /\ y \in Seq(S) /\ Len(y) = Len(a) - 1 + 1
          /\ \A i \in 1 .. Len(a) - 1 + 1 : y[i] = b[1 + i - 1]
      <4>1. \A i \in 1 .. Len(a) : b[i] \in S
        BY <1>1, <1>4
      <4> QED BY <1>1, <1>4, <4>1, SubSeqProperties
    <3> QED BY <1>1, <3>1
  <2> HIDE DEF x, y
  <2>3. (\A i \in 1 .. Len(a) : a[i] = b[i]) => x = y
    BY <2>1, <2>2, SeqEqual
  <2>4. x = y => \A i \in 1 .. Len(a) : a[i] = b[i]
    BY <2>1, <2>2
  <2> QED BY <1>4, <2>3, <2>4 DEF IsPrefix, x, y
<1> QED BY <1>2, <1>3, <1>4, <1>1

LEMMA SuffixPlaces ==
  ASSUME NEW S, NEW a \in Seq(S), NEW b \in Seq(S)
  PROVE  IsSuffix(a, b) <=> EndsAs(a, b)
<1>1. /\ Len(a) \in Nat /\ Len(b) \in Nat
      /\ (\A i \in 1 .. Len(a) : a[i] \in S) /\ \A i \in 1 .. Len(b) : b[i] \in S
  BY LenProperties, ElementOfSeq
<1> DEFINE x == Reverse(a)
           y == Reverse(b)
<1>2. /\ x \in [1 .. Len(a) -> S] /\ \A i \in 1 .. Len(a) : x[i] = a[Len(a) - i + 1]
      /\ y \in [1 .. Len(b) -> S] /\ \A i \in 1 .. Len(b) : y[i] = b[Len(b) - i + 1]
  BY <1>1 DEF Reverse
<1> HIDE DEF x, y
<1>3. x \in Seq(S) /\ Len(x) = Len(a) /\ y \in Seq(S) /\ Len(y) = Len(b)
  <2>1. x \in Seq(S) /\ y \in Seq(S)
    BY <1>1, <1>2, SeqDef
  <2> QED BY <1>1, <1>2, <2>1, LenProperties
<1>4. IsPrefix(x, y) <=> Len(a) <= Len(b) /\ \A i \in 1 .. Len(a) : x[i] = y[i]
  BY <1>3, PrefixPlaces
<1>5. ASSUME Len(a) <= Len(b)
      PROVE  (\A i \in 1 .. Len(a) : x[i] = y[i]) <=> EndsAs(a, b)
  <2>1. ASSUME NEW i \in 1 .. Len(a)
        PROVE  /\ Len(a) - i + 1 \in 1 .. Len(a)
               /\ Len(a) - (Len(a) - i + 1) + 1 = i
               /\ Len(b) - (Len(a) - i + 1) + 1 = i + (Len(b) - Len(a))
               /\ Len(b) - i + 1 = (Len(a) - i + 1) + (Len(b) - Len(a))
               /\ i \in 1 .. Len(b)
    BY <1>1, <1>5
  <2>2. ASSUME \A i \in 1 .. Len(a) : x[i] = y[i], NEW i \in 1 .. Len(a)
        PROVE  a[i] = b[i + (Len(b) - Len(a))]
    <3> DEFINE j == Len(a) - i + 1
    <3>1. j \in 1 .. Len(a) /\ j \in 1 .. Len(b)
          /\ Len(a) - j + 1 = i /\ Len(b) - j + 1 = i + (Len(b) - Len(a))
      BY <2>1
    <3> HIDE DEF j
    <3>2. x[j] = a[i] /\ y[j] = b[i + (Len(b) - Len(a))]
      BY <1>2, <3>1
    <3> QED BY <2>2, <3>1, <3>2
  <2>3. ASSUME EndsAs(a, b), NEW i \in 1 .. Len(a)
        PROVE  x[i] = y[i]
    <3> DEFINE j == Len(a) - i + 1
    <3>1. /\ j \in 1 .. Len(a) /\ i \in 1 .. Len(b)
          /\ Len(b) - i + 1 = j + (Len(b) - Len(a))
      BY <2>1
    <3>2. x[i] = a[j] /\ y[i] = b[j + (Len(b) - Len(a))]
      BY <1>2, <3>1
    <3> HIDE DEF j
    <3> QED BY <2>3, <3>1, <3>2 DEF EndsAs
  <2> QED BY <1>5, <2>2, <2>3 DEF EndsAs
<1>6. CASE ~(Len(a) <= Len(b))
  BY <1>4, <1>6 DEF EndsAs, IsSuffix, x, y
<1>7. CASE Len(a) <= Len(b)
  BY <1>4, <1>5, <1>7 DEF IsSuffix, x, y
<1> QED BY <1>6, <1>7

(* The suffix survives whatever is done to both sequences alike, and losing *)
(* its oldest.                                                              *)
LEMMA SuffixAppend ==
  ASSUME NEW S, NEW a \in Seq(S), NEW b \in Seq(S), NEW k \in S, EndsAs(a, b)
  PROVE  EndsAs(Append(a, k), Append(b, k))
<1> DEFINE x == Append(a, k)
           y == Append(b, k)
<1>1. /\ Len(a) \in Nat /\ Len(b) \in Nat /\ Len(a) <= Len(b)
      /\ Len(x) = Len(a) + 1 /\ x[Len(a) + 1] = k /\ \A i \in 1 .. Len(a) : x[i] = a[i]
      /\ Len(y) = Len(b) + 1 /\ y[Len(b) + 1] = k /\ \A i \in 1 .. Len(b) : y[i] = b[i]
  BY LenProperties, AppendProperties DEF EndsAs
<1> HIDE DEF x, y
<1>2. ASSUME NEW i \in 1 .. Len(x)
      PROVE  x[i] = y[i + (Len(y) - Len(x))]
  <2>1. CASE i = Len(a) + 1
    <3>1. i + (Len(y) - Len(x)) = Len(b) + 1
      BY <1>1, <2>1
    <3> QED BY <1>1, <2>1, <3>1
  <2>2. CASE i # Len(a) + 1
    <3>1. /\ i \in 1 .. Len(a) /\ i + (Len(b) - Len(a)) \in 1 .. Len(b)
          /\ i + (Len(y) - Len(x)) = i + (Len(b) - Len(a))
      BY <1>1, <2>2
    <3> QED BY <1>1, <3>1 DEF EndsAs
  <2> QED BY <2>1, <2>2
<1>3. EndsAs(x, y)
  BY <1>1, <1>2 DEF EndsAs
<1> QED BY <1>3 DEF x, y

LEMMA SuffixTail ==
  ASSUME NEW S, NEW a \in Seq(S), NEW b \in Seq(S), a # << >>, EndsAs(a, b)
  PROVE  EndsAs(Tail(a), b)
<1> DEFINE x == Tail(a)
<1>1. /\ Len(a) \in Nat \ {0} /\ Len(b) \in Nat /\ Len(a) <= Len(b)
      /\ Len(x) = Len(a) - 1 /\ \A i \in 1 .. Len(x) : x[i] = a[i + 1]
  BY LenProperties, HeadTailProperties, EmptySeq DEF EndsAs
<1> HIDE DEF x
<1>2. ASSUME NEW i \in 1 .. Len(x)
      PROVE  x[i] = b[i + (Len(b) - Len(x))]
  <2>1. i + 1 \in 1 .. Len(a) /\ (i + 1) + (Len(b) - Len(a)) = i + (Len(b) - Len(x))
    BY <1>1
  <2> QED BY <1>1, <2>1 DEF EndsAs
<1> QED BY <1>1, <1>2 DEF EndsAs, x

Shifted(places, d) == {j + d : j \in places}

(* What is appended after a place moves by the number of places kept before it. *)
LEMMA ShiftCount ==
  ASSUME NEW d \in Nat, NEW low, low \subseteq 1 .. d, IsFiniteSet(low),
         NEW high, high \subseteq Nat \ {0}, IsFiniteSet(high)
  PROVE  Cardinality(low \cup Shifted(high, d)) = Cardinality(low) + Cardinality(high)
<1> DEFINE moved == Shifted(high, d)
           f == [j \in high |-> j + d]
<1>1. f \in Bijection(high, moved)
  <2>1. f \in [high -> moved] /\ \A j \in high : f[j] = j + d
    BY DEF Shifted
  <2>2. \A j \in high : j \in Nat
    OBVIOUS
  <2>3. \A m \in moved : \E j \in high : m = j + d
    BY DEF Shifted
  <2> HIDE DEF f, moved
  <2>4. \A i, j \in high : f[i] = f[j] => i = j
    BY <2>1, <2>2
  <2>5. \A m \in moved : \E j \in high : f[j] = m
    BY <2>1, <2>3
  <2>6. f \in Injection(high, moved)
    BY <2>1, <2>4 DEF Injection, IsInjective
  <2>7. f \in Surjection(high, moved)
    BY <2>1, <2>5 DEF Surjection
  <2> QED BY <2>6, <2>7, Zenon DEF Bijection
<1>2. low \cap moved = {}
  BY DEF Shifted
<1> HIDE DEF f, moved
<1>3. IsFiniteSet(moved) /\ Cardinality(moved) = Cardinality(high)
  <2>1. ExistsBijection(high, moved)
    BY <1>1 DEF ExistsBijection
  <2> QED BY <2>1, FS_Bijection
<1>4. Cardinality(low) \in Nat /\ Cardinality(moved) \in Nat
  BY <1>3, FS_CardinalityType
<1>5. Cardinality(low \cup moved) = Cardinality(low) + Cardinality(moved) - Cardinality(low \cap moved)
  BY <1>3, FS_Union
<1>6. Cardinality(low \cap moved) = 0
  BY <1>2, FS_EmptySet
<1>7. Cardinality(low \cup moved) = Cardinality(low) + Cardinality(high)
  BY <1>3, <1>4, <1>5, <1>6
<1> QED BY <1>7 DEF moved

(* Deleting the same keys from both leaves the one a suffix of the other. *)
LEMMA SuffixDeleteAll ==
  ASSUME NEW S, NEW a \in Seq(S), NEW b \in Seq(S), NEW gone, EndsAs(a, b)
  PROVE  EndsAs(DeleteAll(a, gone), DeleteAll(b, gone))
<1> DEFINE d == Len(b) - Len(a)
           A == Staying(a, gone)
           B == Staying(b, gone)
           low == {j \in B : j <= d}
           x == DeleteAll(a, gone)
           y == DeleteAll(b, gone)
<1>1. /\ Len(a) \in Nat /\ Len(b) \in Nat /\ d \in Nat /\ Len(b) = Len(a) + d
      /\ DOMAIN a = 1 .. Len(a) /\ DOMAIN b = 1 .. Len(b)
      /\ \A i \in 1 .. Len(a) : a[i] = b[i + d]
  BY LenProperties DEF EndsAs
<1>2. /\ A \subseteq 1 .. Len(a) /\ IsFiniteSet(A)
      /\ Len(x) = Cardinality(A) /\ Len(x) \in Nat
      /\ \A i \in A : x[PlaceAmong(A, i)] = a[i]
      /\ \A n \in 1 .. Len(x) : \E i \in A : PlaceAmong(A, i) = n
  BY DeleteAllPlaces
<1>3. /\ B \subseteq 1 .. Len(b) /\ IsFiniteSet(B)
      /\ Len(y) = Cardinality(B) /\ Len(y) \in Nat
      /\ \A i \in B : y[PlaceAmong(B, i)] = b[i]
  BY DeleteAllPlaces
<1>4. ASSUME NEW i \in 1 .. Len(a)
      PROVE  i + d \in 1 .. Len(b) /\ (i \in A <=> i + d \in B)
  BY <1>1 DEF Staying
<1> HIDE DEF d, A, B, x, y
<1>5. low \subseteq 1 .. d /\ IsFiniteSet(low) /\ Cardinality(low) \in Nat
  <2>1. low \subseteq 1 .. d
    <3>1. ASSUME NEW j \in B, j <= d
          PROVE  j \in 1 .. d
      BY <1>1, <1>3, <3>1
    <3> QED BY <3>1
  <2>2. low \subseteq B
    OBVIOUS
  <2> HIDE DEF low
  <2>3. IsFiniteSet(low)
    BY <1>3, <2>2, FS_Subset
  <2> QED BY <2>1, <2>3, FS_CardinalityType
<1>6. ASSUME NEW i \in 1 .. Len(a)
      PROVE  PlaceAmong(B, i + d) = Cardinality(low) + PlaceAmong(A, i)
  <2> DEFINE high == {j \in A : j <= i}
  <2>1. high \subseteq 1 .. Len(a) /\ IsFiniteSet(high)
    <3>1. high \subseteq A
      OBVIOUS
    <3> HIDE DEF high
    <3> QED BY <1>2, <3>1, FS_Subset
  <2>2. {j \in B : j <= i + d} = low \cup Shifted(high, d)
    <3>1. ASSUME NEW j \in B, j <= i + d, ~(j <= d)
          PROVE  j - d \in high /\ j = (j - d) + d
      <4>1. j - d \in 1 .. Len(a) /\ j - d <= i /\ (j - d) + d = j
        BY <1>1, <1>3, <3>1
      <4> QED BY <1>4, <4>1
    <3>2. ASSUME NEW j \in high
          PROVE  j + d \in B /\ j + d <= i + d
      BY <1>1, <1>2, <1>4, <3>2
    <3>3. \A j \in low : j <= i + d
      BY <1>1, <1>3
    <3>4. ASSUME NEW j \in B, j <= i + d
          PROVE  j \in low \/ \E h \in high : j = h + d
      <4>1. CASE j <= d
        BY <3>4, <4>1
      <4>2. CASE ~(j <= d)
        <5> HIDE DEF high
        <5> QED BY <3>1, <3>4, <4>2
      <4> QED BY <4>1, <4>2
    <3> HIDE DEF high
    <3> QED BY <3>2, <3>3, <3>4 DEF Shifted
  <2> HIDE DEF low
  <2>3. Cardinality(low \cup Shifted(high, d)) = Cardinality(low) + Cardinality(high)
    <3>1. /\ d \in Nat /\ low \subseteq 1 .. d /\ IsFiniteSet(low)
          /\ high \subseteq Nat \ {0} /\ IsFiniteSet(high)
      BY <1>1, <1>5, <2>1
    <3> HIDE DEF high
    <3> QED BY <3>1, ShiftCount
  <2> QED BY <2>2, <2>3 DEF PlaceAmong
<1>7. Len(y) = Cardinality(low) + Len(x)
  <2>1. B = low \cup Shifted(A, d)
    <3>1. ASSUME NEW j \in B, ~(j <= d)
          PROVE  j - d \in A /\ j = (j - d) + d
      <4>1. j - d \in 1 .. Len(a) /\ (j - d) + d = j
        BY <1>1, <1>3, <3>1
      <4> QED BY <1>4, <4>1
    <3>2. \A j \in A : j + d \in B
      BY <1>2, <1>4
    <3>3. ASSUME NEW j \in B
          PROVE  j \in low \/ \E h \in A : j = h + d
      BY <3>1
    <3> QED BY <3>2, <3>3 DEF Shifted
  <2> HIDE DEF low
  <2>2. Cardinality(low \cup Shifted(A, d)) = Cardinality(low) + Cardinality(A)
    <3>1. /\ d \in Nat /\ low \subseteq 1 .. d /\ IsFiniteSet(low)
          /\ A \subseteq Nat \ {0} /\ IsFiniteSet(A)
      BY <1>1, <1>2, <1>5
    <3> QED BY <3>1, ShiftCount
  <2> QED BY <1>2, <1>3, <2>1, <2>2
<1> HIDE DEF low
<1>8. ASSUME NEW n \in 1 .. Len(x)
      PROVE  x[n] = y[n + (Len(y) - Len(x))]
  <2>1. PICK i \in A : PlaceAmong(A, i) = n
    BY <1>2
  <2>2. i \in 1 .. Len(a) /\ i + d \in B /\ x[n] = a[i] /\ a[i] = b[i + d]
    BY <1>1, <1>2, <1>4, <2>1
  <2>3. PlaceAmong(B, i + d) = Cardinality(low) + n
    BY <1>6, <2>1, <2>2
  <2>4. n + (Len(y) - Len(x)) = Cardinality(low) + n
    BY <1>2, <1>3, <1>5, <1>7
  <2> QED BY <1>3, <2>2, <2>3, <2>4
<1>9. EndsAs(x, y)
  BY <1>2, <1>3, <1>5, <1>7, <1>8 DEF EndsAs
<1> QED BY <1>9 DEF x, y

----
(* One map of the store beside the history of its uses. *)
Lru(S, s, h) ==
  /\ s \in Seq(S) /\ IsBoundedMap(s, Capacity)
  /\ h \in Seq(S) /\ IsInjective(h)
  /\ EndsAs(s, h)

LEMMA DeleteShortens ==
  ASSUME NEW S, NEW s \in Seq(S), NEW k \in ToSet(s)
  PROVE  Len(Delete(s, k)) < Len(s)
<1> DEFINE stay == Staying(s, {k})
<1>1. Len(s) \in Nat /\ DOMAIN s = 1 .. Len(s) /\ stay \subseteq 1 .. Len(s)
  BY LenProperties DEF Staying
<1>2. PICK i \in 1 .. Len(s) : s[i] = k
  BY <1>1 DEF ToSet
<1>3. i \notin stay
  BY <1>2 DEF Staying
<1>4. Len(Delete(s, k)) = Cardinality(stay)
  BY DeleteAllPlaces DEF Delete
<1> HIDE DEF stay
<1>5. IsFiniteSet(1 .. Len(s)) /\ Cardinality(1 .. Len(s)) = Len(s)
  BY <1>1, FS_Interval
<1>6. /\ IsFiniteSet(stay) /\ Cardinality(stay) <= Cardinality(1 .. Len(s))
      /\ Cardinality(stay) = Cardinality(1 .. Len(s)) => stay = 1 .. Len(s)
  BY <1>1, <1>5, FS_Subset
<1>7. Cardinality(stay) \in Nat
  BY <1>6, FS_CardinalityType
<1> QED BY <1>1, <1>2, <1>3, <1>4, <1>5, <1>6, <1>7

(* Deleting keys from a map and from its history. *)
LEMMA LruReleased ==
  ASSUME NEW S, NEW s, NEW h, Lru(S, s, h), NEW gone
  PROVE  /\ Lru(S, DeleteAll(s, gone), DeleteAll(h, gone))
         /\ ToSet(DeleteAll(s, gone)) = ToSet(s) \ gone
<1>1. /\ DeleteAll(s, gone) \in Seq(S) /\ IsInjective(DeleteAll(s, gone))
      /\ Len(DeleteAll(s, gone)) <= Len(s) /\ ToSet(DeleteAll(s, gone)) = ToSet(s) \ gone
  BY DeleteAllKeys DEF Lru, IsBoundedMap
<1>2. Len(DeleteAll(s, gone)) \in Nat /\ Len(s) \in Nat
  BY <1>1, LenProperties DEF Lru
<1>3. Len(DeleteAll(s, gone)) <= Capacity
  BY <1>1, <1>2, StoreAssumption DEF Lru, IsBoundedMap
<1>4. DeleteAll(h, gone) \in Seq(S) /\ IsInjective(DeleteAll(h, gone))
  BY DeleteAllKeys DEF Lru
<1>5. EndsAs(DeleteAll(s, gone), DeleteAll(h, gone))
  BY SuffixDeleteAll DEF Lru
<1> QED BY <1>1, <1>3, <1>4, <1>5 DEF Lru, IsBoundedMap

(* The history moves the key it uses to its end. *)
LEMMA HistoryTouched ==
  ASSUME NEW S, NEW h \in Seq(S), IsInjective(h), NEW k \in S
  PROVE  Touched(h, k) \in Seq(S) /\ IsInjective(Touched(h, k))
<1> DEFINE r == Delete(h, k)
<1>1. r \in Seq(S) /\ IsInjective(r) /\ ToSet(r) = ToSet(h) \ {k}
  BY DeleteAllKeys DEF Delete
<1> HIDE DEF r
<1>2. Append(r, k) \in Seq(S) /\ IsInjective(Append(r, k))
  BY <1>1, AppendKey
<1> QED BY <1>2 DEF Touched, r

(* Recording a key, whatever is evicted for it. *)
LEMMA LruRecorded ==
  ASSUME NEW S, NEW s, NEW h, Lru(S, s, h), NEW k \in S
  PROVE  /\ Lru(S, Recorded(s, k), Touched(h, k))
         /\ k \notin EvictsOldest(s, k)
         /\ ToSet(Recorded(s, k)) = (ToSet(s) \ EvictsOldest(s, k)) \cup {k}
<1> DEFINE r == Delete(s, k)
           g == Delete(h, k)
           q == IF Len(r) < Capacity THEN r ELSE Tail(r)
<1>1. /\ Lru(S, r, g) /\ ToSet(r) = ToSet(s) \ {k}
  BY LruReleased DEF Delete
<1>2. /\ r \in Seq(S) /\ IsBoundedMap(r, Capacity) /\ g \in Seq(S) /\ EndsAs(r, g)
      /\ Len(r) \in Nat /\ k \notin ToSet(r)
  BY <1>1, LenProperties DEF Lru
<1> HIDE DEF r, g
<1>3. /\ Insert(r, k, Capacity) \in Seq(S)
      /\ IsBoundedMap(Insert(r, k, Capacity), Capacity)
      /\ ToSet(Insert(r, k, Capacity)) = (ToSet(r) \ Evicts(r, k, Capacity)) \cup {k}
  BY <1>2, InsertKeys, StoreAssumption
<1>4. k \notin Evicts(r, k, Capacity)
  <2>1. CASE Len(r) < Capacity
    BY <2>1 DEF Evicts
  <2>2. CASE ~(Len(r) < Capacity)
    <3>1. r # << >>
      BY <1>2, <2>2, EmptySeq, StoreAssumption
    <3>2. Head(r) \in ToSet(r)
      <4>1. Len(r) \in Nat \ {0} /\ Head(r) = r[1] /\ DOMAIN r = 1 .. Len(r)
        BY <1>2, <3>1, EmptySeq, HeadTailProperties, LenProperties
      <4> QED BY <4>1 DEF ToSet
    <3> QED BY <1>2, <2>2, <3>2 DEF Evicts
  <2> QED BY <2>1, <2>2
<1>5. q \in Seq(S) /\ EndsAs(q, g)
  <2>1. CASE Len(r) < Capacity
    BY <1>2, <2>1
  <2>2. CASE ~(Len(r) < Capacity)
    <3>1. r # << >>
      BY <1>2, <2>2, EmptySeq, StoreAssumption
    <3>2. Tail(r) \in Seq(S) /\ EndsAs(Tail(r), g)
      BY <1>2, <3>1, HeadTailProperties, SuffixTail
    <3> QED BY <2>2, <3>2
  <2> QED BY <2>1, <2>2
<1>6. Insert(r, k, Capacity) = Append(q, k)
  BY <1>2 DEF Insert
<1> HIDE DEF q
<1>7. EndsAs(Append(q, k), Append(g, k))
  BY <1>2, <1>5, SuffixAppend
<1>8. Touched(h, k) \in Seq(S) /\ IsInjective(Touched(h, k))
  BY HistoryTouched DEF Lru
<1>9. Recorded(s, k) = Insert(r, k, Capacity) /\ Touched(h, k) = Append(g, k)
      /\ EvictsOldest(s, k) = Evicts(r, k, Capacity)
  BY DEF Recorded, Touched, EvictsOldest, r, g
<1>10. Lru(S, Recorded(s, k), Touched(h, k))
  BY <1>3, <1>6, <1>7, <1>8, <1>9 DEF Lru
<1> QED BY <1>1, <1>3, <1>4, <1>9, <1>10

(* Using a key the map holds. *)
LEMMA LruUsed ==
  ASSUME NEW S, NEW s, NEW h, Lru(S, s, h), NEW k \in S, k \in ToSet(s)
  PROVE  /\ Lru(S, Used(s, k), Touched(h, k))
         /\ ToSet(Used(s, k)) = ToSet(s)
<1> DEFINE r == Delete(s, k)
<1>1. r \in Seq(S) /\ IsBoundedMap(r, Capacity) /\ ToSet(r) = ToSet(s) \ {k}
  BY LruReleased DEF Delete, Lru
<1>2. Len(r) < Len(s) /\ Len(s) <= Capacity /\ Len(s) \in Nat /\ Len(r) \in Nat
  BY <1>1, DeleteShortens, LenProperties DEF Lru, IsBoundedMap
<1>3. EvictsOldest(s, k) = {} /\ Recorded(s, k) = Append(r, k)
  BY <1>1, <1>2, StoreAssumption DEF EvictsOldest, Recorded, Evicts, Insert
<1>4. Used(s, k) = Append(r, k)
  BY DEF Used, Touched
<1> HIDE DEF r
<1>5. /\ Lru(S, Recorded(s, k), Touched(h, k))
      /\ ToSet(Recorded(s, k)) = (ToSet(s) \ EvictsOldest(s, k)) \cup {k}
  BY LruRecorded
<1> QED BY <1>3, <1>4, <1>5

----
(* The two maps beside their histories, and what they hold for their keys. *)
IInv ==
  /\ Lru(Identity, entryOrder, recency)
  /\ Lru(Session, activeOrder, sessionRecency)
  /\ selection \in [Identity -> Content \cup {Nothing}]
  /\ activeTask \in [Session -> Task \cup {NoTask}]
  /\ prompt \in Content \cup {Nothing}
  /\ \A i \in Identity : i \in ToSet(entryOrder) <=> selection[i] # Nothing
  /\ \A s \in Session : s \in ToSet(activeOrder) <=> activeTask[s] # NoTask

LEMMA InvInit == Init => IInv
<1> SUFFICES ASSUME Init PROVE IInv
  OBVIOUS
<1>1. ASSUME NEW S
      PROVE  Lru(S, << >>, << >>) /\ ToSet(<< >>) = {}
  <2>1. << >> \in Seq(S) /\ Len(<< >>) = 0 /\ DOMAIN << >> = {}
    BY EmptySeq
  <2>2. IsInjective(<< >>) /\ ToSet(<< >>) = {}
    BY <2>1 DEF IsInjective, ToSet
  <2>3. EndsAs(<< >>, << >>)
    BY <2>1 DEF EndsAs
  <2> QED BY <2>1, <2>2, <2>3, StoreAssumption DEF Lru, IsBoundedMap
<1> QED BY <1>1 DEF Init, IInv

(* A selection is used and recorded under the session that owns it. *)
LEMMA InvSelect ==
  ASSUME IInv, NEW r \in Session, NEW t \in Task, NEW c \in Content, Select(r, t, c)
  PROVE  IInv'
<1>1. PICK s \in Owner(r) : Select(r, t, c)!(s)
  BY DEF Select
<1> DEFINE i == <<s, t>>
<1>2. s \in Session /\ i \in Identity
  BY DEF Owner, Identity
<1>3. /\ entryOrder' = Recorded(entryOrder, i) /\ recency' = Touched(recency, i)
      /\ activeOrder' = Recorded(activeOrder, s) /\ sessionRecency' = Touched(sessionRecency, s)
      /\ selection' = [k \in Identity |->
                         IF k = i THEN c
                         ELSE IF k \in EvictsOldest(entryOrder, i) THEN Nothing ELSE selection[k]]
      /\ activeTask' = [x \in Session |->
                          IF x = s THEN t
                          ELSE IF x \in EvictsOldest(activeOrder, s) THEN NoTask ELSE activeTask[x]]
      /\ prompt' = prompt
  BY <1>1
<1> HIDE DEF i
<1>4. /\ Lru(Identity, entryOrder, recency)' /\ i \notin EvictsOldest(entryOrder, i)
      /\ ToSet(entryOrder') = (ToSet(entryOrder) \ EvictsOldest(entryOrder, i)) \cup {i}
  BY <1>2, <1>3, LruRecorded DEF IInv
<1>5. /\ Lru(Session, activeOrder, sessionRecency)' /\ s \notin EvictsOldest(activeOrder, s)
      /\ ToSet(activeOrder') = (ToSet(activeOrder) \ EvictsOldest(activeOrder, s)) \cup {s}
  BY <1>2, <1>3, LruRecorded DEF IInv
<1>6. /\ selection' \in [Identity -> Content \cup {Nothing}]
      /\ \A k \in Identity : k \in ToSet(entryOrder') <=> selection'[k] # Nothing
  BY <1>2, <1>3, <1>4, ContentAssumption DEF IInv
<1>7. /\ activeTask' \in [Session -> Task \cup {NoTask}]
      /\ \A x \in Session : x \in ToSet(activeOrder') <=> activeTask'[x] # NoTask
  BY <1>2, <1>3, <1>5, StoreAssumption DEF IInv
<1> QED BY <1>3, <1>4, <1>5, <1>6, <1>7 DEF IInv

LEMMA InvLookup ==
  ASSUME IInv, NEW r \in Session, NEW t \in Task, Lookup(r, t)
  PROVE  IInv'
<1>1. PICK s \in Owner(r) : Lookup(r, t)!(s)
  BY DEF Lookup
<1> DEFINE i == <<s, t>>
<1>2. i \in Identity
  BY DEF Owner, Identity
<1>3. /\ i \in ToSet(entryOrder)
      /\ entryOrder' = Used(entryOrder, i) /\ recency' = Touched(recency, i)
      /\ UNCHANGED <<selection, activeOrder, activeTask, prompt, sessionRecency>>
  BY <1>1
<1> HIDE DEF i
<1>4. Lru(Identity, entryOrder, recency)' /\ ToSet(entryOrder') = ToSet(entryOrder)
  BY <1>2, <1>3, LruUsed DEF IInv
<1> QED BY <1>3, <1>4 DEF IInv

LEMMA InvRenderActive ==
  ASSUME IInv, NEW r \in Session, RenderActive(r)
  PROVE  IInv'
<1> DEFINE i == <<r, activeTask[r]>>
<1>1. /\ activeTask[r] # NoTask
      /\ activeOrder' = Used(activeOrder, r) /\ sessionRecency' = Touched(sessionRecency, r)
      /\ entryOrder' = Used(entryOrder, i)
      /\ recency' = IF selection[i] = Nothing THEN recency ELSE Touched(recency, i)
      /\ prompt' = IF selection[i] = Blank THEN Nothing ELSE selection[i]
      /\ selection' = selection /\ activeTask' = activeTask
  BY DEF RenderActive
<1>2. i \in Identity /\ r \in ToSet(activeOrder)
  BY <1>1 DEF Identity, IInv
<1> HIDE DEF i
<1>3. Lru(Session, activeOrder, sessionRecency)' /\ ToSet(activeOrder') = ToSet(activeOrder)
  BY <1>1, <1>2, LruUsed DEF IInv
<1>4. Lru(Identity, entryOrder, recency)' /\ ToSet(entryOrder') = ToSet(entryOrder)
  <2>1. CASE selection[i] = Nothing
    <3>1. i \notin ToSet(entryOrder)
      BY <1>2, <2>1 DEF IInv
    <3>2. entryOrder' = entryOrder /\ recency' = recency
      BY <1>1, <2>1, <3>1 DEF Used
    <3> QED BY <3>2 DEF IInv
  <2>2. CASE selection[i] # Nothing
    <3>1. i \in ToSet(entryOrder) /\ recency' = Touched(recency, i)
      BY <1>1, <1>2, <2>2 DEF IInv
    <3> QED BY <1>1, <1>2, <3>1, LruUsed DEF IInv
  <2> QED BY <2>1, <2>2
<1>5. prompt' \in Content \cup {Nothing}
  BY <1>1, <1>2 DEF IInv
<1> QED BY <1>1, <1>3, <1>4, <1>5 DEF IInv

LEMMA InvReleaseTask ==
  ASSUME IInv, NEW r \in Session, NEW t \in Task, ReleaseTask(r, t)
  PROVE  IInv'
<1>1. PICK s \in Owner(r) : ReleaseTask(r, t)!(s)
  BY DEF ReleaseTask
<1> DEFINE i == <<s, t>>
<1>2. s \in Session /\ i \in Identity
  BY DEF Owner, Identity
<1>3. /\ entryOrder' = Delete(entryOrder, i) /\ recency' = Delete(recency, i)
      /\ selection' = [selection EXCEPT ![i] = Nothing]
      /\ prompt' = prompt
  BY <1>1
<1>4. \/ /\ activeOrder' = Delete(activeOrder, s) /\ sessionRecency' = Delete(sessionRecency, s)
         /\ activeTask' = [activeTask EXCEPT ![s] = NoTask]
      \/ UNCHANGED <<activeOrder, activeTask, sessionRecency>>
  BY <1>1
<1> HIDE DEF i
<1>5. Lru(Identity, entryOrder, recency)' /\ ToSet(entryOrder') = ToSet(entryOrder) \ {i}
  BY <1>3, LruReleased DEF IInv, Delete
<1>6. /\ selection' \in [Identity -> Content \cup {Nothing}]
      /\ \A k \in Identity : k \in ToSet(entryOrder') <=> selection'[k] # Nothing
  BY <1>2, <1>3, <1>5 DEF IInv
<1>7. /\ Lru(Session, activeOrder, sessionRecency)'
      /\ activeTask' \in [Session -> Task \cup {NoTask}]
      /\ \A x \in Session : x \in ToSet(activeOrder') <=> activeTask'[x] # NoTask
  <2>1. CASE /\ activeOrder' = Delete(activeOrder, s) /\ sessionRecency' = Delete(sessionRecency, s)
             /\ activeTask' = [activeTask EXCEPT ![s] = NoTask]
    <3>1. Lru(Session, activeOrder, sessionRecency)' /\ ToSet(activeOrder') = ToSet(activeOrder) \ {s}
      BY <2>1, LruReleased DEF IInv, Delete
    <3> QED BY <1>2, <2>1, <3>1 DEF IInv
  <2>2. CASE UNCHANGED <<activeOrder, activeTask, sessionRecency>>
    BY <2>2 DEF IInv
  <2> QED BY <1>4, <2>1, <2>2
<1> QED BY <1>3, <1>5, <1>6, <1>7 DEF IInv

LEMMA InvRelease ==
  ASSUME IInv, NEW sessions, Release(sessions)
  PROVE  IInv'
<1> DEFINE gone == IdentitiesOf(sessions)
<1>1. /\ entryOrder' = DeleteAll(entryOrder, gone) /\ recency' = DeleteAll(recency, gone)
      /\ selection' = [i \in Identity |-> IF i[1] \in sessions THEN Nothing ELSE selection[i]]
      /\ activeOrder' = DeleteAll(activeOrder, sessions)
      /\ sessionRecency' = DeleteAll(sessionRecency, sessions)
      /\ activeTask' = [s \in Session |-> IF s \in sessions THEN NoTask ELSE activeTask[s]]
      /\ prompt' = prompt
  BY DEF Release
<1>2. \A i \in Identity : i \in gone <=> i[1] \in sessions
  BY DEF IdentitiesOf
<1> HIDE DEF gone
<1>3. Lru(Identity, entryOrder, recency)' /\ ToSet(entryOrder') = ToSet(entryOrder) \ gone
  BY <1>1, LruReleased DEF IInv
<1>4. Lru(Session, activeOrder, sessionRecency)' /\ ToSet(activeOrder') = ToSet(activeOrder) \ sessions
  BY <1>1, LruReleased DEF IInv
<1>5. /\ selection' \in [Identity -> Content \cup {Nothing}]
      /\ \A k \in Identity : k \in ToSet(entryOrder') <=> selection'[k] # Nothing
  BY <1>1, <1>2, <1>3 DEF IInv
<1>6. /\ activeTask' \in [Session -> Task \cup {NoTask}]
      /\ \A x \in Session : x \in ToSet(activeOrder') <=> activeTask'[x] # NoTask
  BY <1>1, <1>4 DEF IInv
<1> QED BY <1>1, <1>3, <1>4, <1>5, <1>6 DEF IInv

LEMMA InvNext == IInv /\ [Next]_vars => IInv'
<1> SUFFICES ASSUME IInv, [Next]_vars PROVE IInv'
  OBVIOUS
<1>1. ASSUME NEW r \in Session, RenderNothing(r) PROVE IInv'
  BY <1>1 DEF RenderNothing, IInv, store
<1>2. ASSUME NEW r \in Session, ReleaseSession(r) PROVE IInv'
  BY <1>2, InvRelease DEF ReleaseSession
<1>3. ASSUME ReleaseAll PROVE IInv'
  BY <1>3, InvRelease DEF ReleaseAll
<1>4. ASSUME UNCHANGED vars PROVE IInv'
  BY <1>4 DEF vars, store, IInv
<1> QED BY <1>1, <1>2, <1>3, <1>4, InvSelect, InvLookup, InvRenderActive, InvReleaseTask DEF Next

THEOREM StoreInvariant == Spec => []IInv
  BY InvInit, InvNext, PTL DEF Spec

(* Each map holds at most Capacity keys, none twice, and exactly the keys    *)
(* that have a value, for every capacity and any number of sessions, tasks   *)
(* and ids that normalise to one session: record(), get(), releaseTask(),    *)
(* releaseSession() and releaseAll() leave no content behind that no key     *)
(* leads to, and no key without content.                                     *)
THEOREM StoreIsConsistent == Spec => [](TypeOK /\ StoreInv)
<1>1. IInv => TypeOK /\ StoreInv
  BY DEF IInv, Lru, TypeOK, StoreInv
<1> QED BY <1>1, StoreInvariant, PTL

(* Both maps forget in the order of use: what record() evicts was used no    *)
(* later than anything it keeps, although lookups and prompts refresh one    *)
(* map, the other or both, and releases take keys out of the middle.         *)
THEOREM StoreForgetsInOrderOfUse == Spec => []LeastRecentlyUsedGoesFirst
<1>1. IInv => LeastRecentlyUsedGoesFirst
  BY SuffixPlaces DEF IInv, Lru, LeastRecentlyUsedGoesFirst
<1> QED BY <1>1, StoreInvariant, PTL

----
(* What a session's prompt can still show, when it has an active task. *)
Shown == [s \in Session |-> LatestOf(s)]

ShownTypeOK == \A s \in Session : LatestOf(s) \in Promise!Latest

LEMMA ShownIsLatest == IInv => ShownTypeOK
<1> SUFFICES ASSUME IInv, NEW s \in Session PROVE LatestOf(s) \in Promise!Latest
  BY DEF ShownTypeOK
<1>1. CASE activeTask[s] = NoTask \/ selection[<<s, activeTask[s]>>] = Nothing
  BY <1>1 DEF LatestOf, Promise!Latest
<1>2. CASE ~(activeTask[s] = NoTask \/ selection[<<s, activeTask[s]>>] = Nothing)
  <2>1. activeTask[s] \in Task
    BY <1>2 DEF IInv
  <2>2. selection[<<s, activeTask[s]>>] \in Content
    BY <1>2, <2>1 DEF IInv, Identity
  <2> QED BY <1>2, <2>1, <2>2 DEF LatestOf, Promise!Latest
<1> QED BY <1>1, <1>2

LEMMA PromisedInit == Init => Promise!Init
<1> SUFFICES ASSUME Init PROVE Promise!Init
  OBVIOUS
<1>1. \A s \in Session : LatestOf(s) = << >>
  BY DEF Init, LatestOf
<1> QED BY <1>1 DEF Promise!Init, Init

LEMMA PromisedSelect ==
  ASSUME IInv, IInv', NEW r \in Session, NEW t \in Task, NEW c \in Content, Select(r, t, c)
  PROVE  Promise!Own(r) /\ Promise!Select(Normalized[r], t, c)
<1>1. PICK s \in Owner(r) : Select(r, t, c)!(s)
  BY DEF Select
<1> DEFINE i == <<s, t>>
<1>2. s \in Session /\ s = Normalized[r] /\ i \in Identity
  BY DEF Owner, Identity
<1>3. /\ selection' = [k \in Identity |->
                         IF k = i THEN c
                         ELSE IF k \in EvictsOldest(entryOrder, i) THEN Nothing ELSE selection[k]]
      /\ activeTask' = [x \in Session |->
                          IF x = s THEN t
                          ELSE IF x \in EvictsOldest(activeOrder, s) THEN NoTask ELSE activeTask[x]]
      /\ prompt' = prompt
  BY <1>1
<1>4. LatestOf(s)' = <<t, c>>
  <2>1. activeTask'[s] = t /\ t # NoTask /\ selection'[<<s, t>>] = c /\ c # Nothing
    BY <1>2, <1>3, StoreAssumption, ContentAssumption
  <2> QED BY <2>1 DEF LatestOf
<1>5. ASSUME NEW x \in Session, x # s
      PROVE  LatestOf(x)' \in {LatestOf(x), << >>}
  <2>1. CASE x \in EvictsOldest(activeOrder, s)
    <3>1. activeTask'[x] = NoTask
      BY <1>3, <1>5, <2>1
    <3> QED BY <3>1 DEF LatestOf
  <2>2. CASE x \notin EvictsOldest(activeOrder, s)
    <3>1. activeTask'[x] = activeTask[x]
      BY <1>3, <1>5, <2>2
    <3>2. CASE activeTask[x] = NoTask
      BY <3>1, <3>2 DEF LatestOf
    <3>3. CASE activeTask[x] # NoTask
      <4>1. <<x, activeTask[x]>> \in Identity /\ <<x, activeTask[x]>> # i
        BY <1>5, <3>3 DEF IInv, Identity
      <4>2. selection'[<<x, activeTask[x]>>] \in {Nothing, selection[<<x, activeTask[x]>>]}
        BY <1>3, <4>1
      <4> QED BY <3>1, <4>2 DEF LatestOf
    <3> QED BY <3>2, <3>3
  <2> QED BY <2>1, <2>2
<1>6. \A x \in Session : LatestOf(x)' \in Promise!Latest
  <2>1. ShownTypeOK'
    BY ShownIsLatest, PTL
  <2> QED BY <2>1 DEF ShownTypeOK, Promise!Latest
<1>7. Shown' \in [Session -> Promise!Latest]
  BY <1>6 DEF Shown
<1>8. Shown'[s] = <<t, c>> /\ \A x \in Session \ {s} : Shown'[x] \in {Shown[x], << >>}
  BY <1>2, <1>4, <1>5 DEF Shown
<1> QED BY <1>2, <1>3, <1>7, <1>8 DEF Promise!Own, Promise!Select, Shown

LEMMA PromisedRender ==
  ASSUME IInv, NEW r \in Session, RenderActive(r) \/ RenderNothing(r)
  PROVE  Promise!Render(r)
<1> DEFINE i == <<r, activeTask[r]>>
<1>1. activeTask' = activeTask /\ selection' = selection
  BY DEF RenderActive, RenderNothing, store
<1>2. Shown' = Shown
  BY <1>1 DEF Shown, LatestOf
<1>3. Shown[r] = LatestOf(r)
  BY DEF Shown
<1>4. CASE RenderNothing(r)
  <2>1. LatestOf(r) = << >> /\ prompt' = Nothing
    BY <1>4 DEF RenderNothing, LatestOf
  <2> QED BY <1>2, <1>3, <2>1 DEF Promise!Render, Shown
<1>5. CASE RenderActive(r)
  <2>1. /\ activeTask[r] # NoTask
        /\ prompt' = IF selection[i] = Blank THEN Nothing ELSE selection[i]
    BY <1>5 DEF RenderActive
  <2>2. CASE selection[i] = Nothing
    <3>1. LatestOf(r) = << >> /\ prompt' = Nothing
      BY <2>1, <2>2, ContentAssumption DEF LatestOf
    <3> QED BY <1>2, <1>3, <3>1 DEF Promise!Render, Shown
  <2>3. CASE selection[i] # Nothing
    <3>1. LatestOf(r) = <<activeTask[r], selection[i]>>
      BY <2>1, <2>3 DEF LatestOf
    <3>2. LatestOf(r) # << >> /\ LatestOf(r)[2] = selection[i]
      BY <3>1
    <3> QED BY <1>2, <1>3, <2>1, <3>2 DEF Promise!Render, Promise!Rendered, Shown
  <2> QED BY <2>2, <2>3
<1> QED BY <1>4, <1>5

LEMMA PromisedReleaseTask ==
  ASSUME IInv, NEW r \in Session, NEW t \in Task, ReleaseTask(r, t)
  PROVE  Promise!Own(r) /\ Promise!ReleaseTask(Normalized[r], t)
<1>1. PICK s \in Owner(r) : ReleaseTask(r, t)!(s)
  BY DEF ReleaseTask
<1>2. s \in Session /\ s = Normalized[r]
  BY DEF Owner
<1>3. /\ selection' = [selection EXCEPT ![<<s, t>>] = Nothing]
      /\ activeTask' = IF activeTask[s] = t THEN [activeTask EXCEPT ![s] = NoTask] ELSE activeTask
      /\ prompt' = prompt
  BY <1>1
<1>4. ASSUME NEW x \in Session, x # s
      PROVE  LatestOf(x)' = LatestOf(x)
  <2>1. activeTask'[x] = activeTask[x]
    BY <1>2, <1>3, <1>4 DEF IInv
  <2>2. CASE activeTask[x] = NoTask
    BY <2>1, <2>2 DEF LatestOf
  <2>3. CASE activeTask[x] # NoTask
    <3>1. <<x, activeTask[x]>> \in Identity /\ <<x, activeTask[x]>> # <<s, t>>
      BY <1>4, <2>3 DEF IInv, Identity
    <3>2. selection'[<<x, activeTask[x]>>] = selection[<<x, activeTask[x]>>]
      BY <1>3, <3>1 DEF IInv
    <3> QED BY <2>1, <3>2 DEF LatestOf
  <2> QED BY <2>2, <2>3
<1>5. CASE activeTask[s] = t
  <2>1. activeTask'[s] = NoTask
    BY <1>2, <1>3, <1>5 DEF IInv
  <2>2. LatestOf(s)' = << >>
    BY <2>1 DEF LatestOf
  <2>3. LatestOf(s) = << >> \/ LatestOf(s)[1] = t
    BY <1>5 DEF LatestOf
  <2>4. Shown' = [Shown EXCEPT ![s] = IF @ # << >> /\ @[1] = t THEN << >> ELSE @]
    BY <1>2, <1>4, <2>2, <2>3 DEF Shown
  <2> QED BY <1>2, <1>3, <2>4 DEF Promise!ReleaseTask, Promise!Own, Shown
<1>6. CASE activeTask[s] # t
  <2>1. activeTask'[s] = activeTask[s]
    BY <1>3, <1>6
  <2>2. LatestOf(s)' = LatestOf(s)
    <3>1. CASE activeTask[s] = NoTask
      BY <2>1, <3>1 DEF LatestOf
    <3>2. CASE activeTask[s] # NoTask
      <4>1. <<s, activeTask[s]>> \in Identity /\ <<s, activeTask[s]>> # <<s, t>>
        BY <1>2, <1>6, <3>2 DEF IInv, Identity
      <4>2. selection'[<<s, activeTask[s]>>] = selection[<<s, activeTask[s]>>]
        BY <1>3, <4>1 DEF IInv
      <4> QED BY <2>1, <4>2 DEF LatestOf
    <3> QED BY <3>1, <3>2
  <2>3. LatestOf(s) = << >> \/ LatestOf(s)[1] # t
    BY <1>6 DEF LatestOf
  <2>4. Shown' = [Shown EXCEPT ![s] = IF @ # << >> /\ @[1] = t THEN << >> ELSE @]
    BY <1>2, <1>4, <2>2, <2>3 DEF Shown
  <2> QED BY <1>2, <1>3, <2>4 DEF Promise!ReleaseTask, Promise!Own, Shown
<1> QED BY <1>5, <1>6

LEMMA PromisedRelease ==
  ASSUME IInv, NEW sessions, Release(sessions)
  PROVE  Promise!Release(sessions)
<1>1. /\ selection' = [i \in Identity |-> IF i[1] \in sessions THEN Nothing ELSE selection[i]]
      /\ activeTask' = [s \in Session |-> IF s \in sessions THEN NoTask ELSE activeTask[s]]
      /\ prompt' = prompt
  BY DEF Release
<1>2. ASSUME NEW x \in Session, x \in sessions
      PROVE  LatestOf(x)' = << >>
  BY <1>1, <1>2 DEF LatestOf
<1>3. ASSUME NEW x \in Session, x \notin sessions
      PROVE  LatestOf(x)' = LatestOf(x)
  <2>1. activeTask'[x] = activeTask[x]
    BY <1>1, <1>3
  <2>2. CASE activeTask[x] = NoTask
    BY <2>1, <2>2 DEF LatestOf
  <2>3. CASE activeTask[x] # NoTask
    <3>1. <<x, activeTask[x]>> \in Identity /\ <<x, activeTask[x]>>[1] \notin sessions
      BY <1>3, <2>3 DEF IInv, Identity
    <3>2. selection'[<<x, activeTask[x]>>] = selection[<<x, activeTask[x]>>]
      BY <1>1, <3>1
    <3> QED BY <2>1, <3>2 DEF LatestOf
  <2> QED BY <2>2, <2>3
<1>4. Shown' = [s \in Session |-> IF s \in sessions THEN << >> ELSE Shown[s]]
  BY <1>2, <1>3 DEF Shown
<1> QED BY <1>1, <1>4 DEF Promise!Release, Shown

PromisedStep == [Promise!Next]_<<Shown, prompt>>

LEMMA PromisedNext == IInv /\ IInv' /\ [Next]_vars => PromisedStep
<1> SUFFICES ASSUME IInv, IInv', [Next]_vars PROVE PromisedStep
  OBVIOUS
<1>1. ASSUME NEW r \in Session, NEW t \in Task, NEW c \in Content, Select(r, t, c)
      PROVE  PromisedStep
  BY <1>1, PromisedSelect DEF Promise!Next, PromisedStep
<1>2. ASSUME NEW r \in Session, NEW t \in Task, Lookup(r, t)
      PROVE  PromisedStep
  <2>1. UNCHANGED <<selection, activeTask, prompt>>
    BY <1>2 DEF Lookup
  <2> QED BY <2>1 DEF PromisedStep, Shown, LatestOf
<1>3. ASSUME NEW r \in Session, RenderActive(r) \/ RenderNothing(r)
      PROVE  PromisedStep
  BY <1>3, PromisedRender DEF Promise!Next, PromisedStep
<1>4. ASSUME NEW r \in Session, NEW t \in Task, ReleaseTask(r, t)
      PROVE  PromisedStep
  BY <1>4, PromisedReleaseTask DEF Promise!Next, PromisedStep
<1>5. ASSUME NEW r \in Session, ReleaseSession(r)
      PROVE  PromisedStep
  <2>1. Normalized[r] \in Session /\ Owner(r) = {Normalized[r]}
    BY <1>5, SessionAssumption DEF ReleaseSession, Owner
  <2>2. Promise!Release({Normalized[r]})
    BY <1>5, <2>1, PromisedRelease DEF ReleaseSession
  <2> QED BY <2>1, <2>2 DEF Promise!Next, Promise!Own, PromisedStep
<1>6. ASSUME ReleaseAll
      PROVE  PromisedStep
  BY <1>6, PromisedRelease DEF ReleaseAll, Promise!Next, PromisedStep
<1>7. ASSUME UNCHANGED vars
      PROVE  PromisedStep
  BY <1>7 DEF vars, store, PromisedStep, Shown, LatestOf
<1> QED BY <1>1, <1>2, <1>3, <1>4, <1>5, <1>6, <1>7 DEF Next

(* Whatever the two maps evicted, one after the other and each by its own     *)
(* order of use, supreme-memory-policy's prompt section shows the selection   *)
(* its session made last, or nothing: never an older one that is still in the *)
(* entries' map, and never another session's.                                 *)
THEOREM StoreKeepsItsPromise == Spec => ShowsLatestOrNothing
<1>1. Init => Promise!Init
  BY PromisedInit
<1>2. IInv /\ IInv' /\ [Next]_vars => [Promise!Next]_<<[s \in Session |-> LatestOf(s)], prompt>>
  BY PromisedNext DEF PromisedStep, Shown
<1> QED BY <1>1, <1>2, StoreInvariant, PTL DEF Spec, ShowsLatestOrNothing, Promise!Spec
=================================================================================
