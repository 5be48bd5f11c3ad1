---------------------------- MODULE BoundedMapProofs ----------------------------
(***************************************************************************)
(* What inserting into and deleting from a bounded map does to its keys.   *)
(***************************************************************************)
EXTENDS BoundedMap, FiniteSetTheorems, SequenceTheorems, TLAPS

(* Appending a key a sequence does not hold keeps its keys distinct. *)
LEMMA AppendKey ==
  ASSUME NEW S, NEW s \in Seq(S), NEW k \in S,
         IsInjective(s), k \notin ToSet(s)
  PROVE  /\ Append(s, k) \in Seq(S)
         /\ Len(Append(s, k)) = Len(s) + 1
         /\ IsInjective(Append(s, k))
         /\ ToSet(Append(s, k)) = ToSet(s) \cup {k}
<1> DEFINE r == Append(s, k)
<1>1. /\ Len(s) \in Nat /\ DOMAIN s = 1 .. Len(s)
      /\ r \in Seq(S) /\ Len(r) = Len(s) + 1 /\ DOMAIN r = 1 .. (Len(s) + 1)
      /\ \A i \in 1 .. Len(s) : r[i] = s[i]
      /\ r[Len(s) + 1] = k
  BY AppendProperties, LenProperties
<1> HIDE DEF r
<1>2. IsInjective(r)
  BY <1>1 DEF IsInjective, ToSet
<1>3. ToSet(r) = ToSet(s) \cup {k}
  <2>1. ASSUME NEW x \in ToSet(r) PROVE x \in ToSet(s) \cup {k}
    BY <1>1 DEF ToSet
  <2>2. ASSUME NEW x \in ToSet(s) PROVE x \in ToSet(r)
    BY <1>1 DEF ToSet
  <2>3. k \in ToSet(r)
    BY <1>1 DEF ToSet
  <2> QED BY <2>1, <2>2, <2>3
<1> QED BY <1>1, <1>2, <1>3 DEF r

(* Dropping the oldest key loses that key and no other. *)
LEMMA TailKeys ==
  ASSUME NEW S, NEW s \in Seq(S), s # << >>, IsInjective(s)
  PROVE  /\ Tail(s) \in Seq(S)
         /\ Len(Tail(s)) = Len(s) - 1
         /\ IsInjective(Tail(s))
         /\ ToSet(Tail(s)) = ToSet(s) \ {Head(s)}
<1> DEFINE r == Tail(s)
<1>1. /\ Len(s) \in Nat \ {0} /\ DOMAIN s = 1 .. Len(s) /\ Head(s) = s[1]
      /\ r \in Seq(S) /\ Len(r) = Len(s) - 1 /\ DOMAIN r = 1 .. (Len(s) - 1)
      /\ \A i \in 1 .. (Len(s) - 1) : r[i] = s[i + 1]
  BY HeadTailProperties, LenProperties, EmptySeq
<1> HIDE DEF r
<1>2. IsInjective(r)
  <2>1. ASSUME NEW i \in DOMAIN r, NEW j \in DOMAIN r, r[i] = r[j]
        PROVE  i = j
    <3>1. i + 1 \in DOMAIN s /\ j + 1 \in DOMAIN s /\ s[i + 1] = s[j + 1]
      BY <1>1, <2>1
    <3>2. i + 1 = j + 1
      BY <3>1 DEF IsInjective
    <3> QED BY <1>1, <3>2
  <2> QED BY <2>1 DEF IsInjective
<1>3. ToSet(r) = ToSet(s) \ {Head(s)}
  <2>1. ASSUME NEW i \in DOMAIN r PROVE r[i] \in ToSet(s) \ {s[1]}
    <3>1. i + 1 \in DOMAIN s /\ 1 \in DOMAIN s /\ i + 1 # 1 /\ r[i] = s[i + 1]
      BY <1>1
    <3> QED BY <3>1 DEF IsInjective, ToSet
  <2>2. ASSUME NEW i \in DOMAIN s, s[i] # s[1] PROVE s[i] \in ToSet(r)
    <3>1. i - 1 \in DOMAIN r /\ r[i - 1] = s[i]
      BY <1>1, <2>2
    <3> QED BY <3>1 DEF ToSet
  <2> QED BY <1>1, <2>1, <2>2 DEF ToSet
<1> QED BY <1>1, <1>2, <1>3 DEF r

(* Inserting a key keeps the map a bounded one; it then holds the key and   *)
(* has lost exactly what was evicted.                                       *)
LEMMA InsertKeys ==
  ASSUME NEW S, NEW s \in Seq(S), NEW k \in S, NEW bound \in Nat \ {0},
         IsBoundedMap(s, bound)
  PROVE  /\ Insert(s, k, bound) \in Seq(S)
         /\ IsBoundedMap(Insert(s, k, bound), bound)
         /\ ToSet(Insert(s, k, bound)) = (ToSet(s) \ Evicts(s, k, bound)) \cup {k}
<1>1. CASE k \in ToSet(s)
  BY <1>1 DEF Insert, Evicts
<1>2. CASE k \notin ToSet(s) /\ Len(s) < bound
  <2>1. Insert(s, k, bound) = Append(s, k) /\ Evicts(s, k, bound) = {}
    BY <1>2 DEF Insert, Evicts
  <2>2. Len(s) \in Nat /\ IsInjective(s)
    BY LenProperties DEF IsBoundedMap
  <2> QED BY <1>2, <2>1, <2>2, AppendKey DEF IsBoundedMap
<1>3. CASE k \notin ToSet(s) /\ ~(Len(s) < bound)
  <2>1. Insert(s, k, bound) = Append(Tail(s), k) /\ Evicts(s, k, bound) = {Head(s)}
    BY <1>3 DEF Insert, Evicts
  <2>2. Len(s) \in Nat /\ Len(s) = bound /\ s # << >> /\ IsInjective(s)
    BY <1>3, LenProperties, EmptySeq DEF IsBoundedMap
  <2>3. /\ Tail(s) \in Seq(S) /\ Len(Tail(s)) = Len(s) - 1 /\ IsInjective(Tail(s))
        /\ ToSet(Tail(s)) = ToSet(s) \ {Head(s)}
    BY <2>2, TailKeys
  <2>4. k \notin ToSet(Tail(s))
    BY <1>3, <2>3
  <2>5. /\ Append(Tail(s), k) \in Seq(S) /\ Len(Append(Tail(s), k)) = Len(Tail(s)) + 1
        /\ IsInjective(Append(Tail(s), k))
        /\ ToSet(Append(Tail(s), k)) = ToSet(Tail(s)) \cup {k}
    BY <2>3, <2>4, AppendKey
  <2>6. Len(Append(Tail(s), k)) <= bound
    BY <2>2, <2>3, <2>5
  <2> QED BY <2>1, <2>3, <2>5, <2>6 DEF IsBoundedMap
<1> QED BY <1>1, <1>2, <1>3

(* The indices that stay are numbered through, in their order. *)
LEMMA PlacesNumberThrough ==
  ASSUME NEW l \in Nat, NEW stay \in SUBSET (1 .. l)
  PROVE  /\ IsFiniteSet(stay) /\ Cardinality(stay) \in Nat /\ Cardinality(stay) <= l
         /\ \A i \in stay : PlaceAmong(stay, i) \in 1 .. Cardinality(stay)
         /\ \A i, j \in stay : PlaceAmong(stay, i) = PlaceAmong(stay, j) => i = j
         /\ \A n \in 1 .. Cardinality(stay) : \E i \in stay : PlaceAmong(stay, i) = n
<1> DEFINE Below(i) == {j \in stay : j <= i}
<1>1. /\ IsFiniteSet(stay) /\ Cardinality(stay) \in Nat /\ Cardinality(stay) <= l
      /\ \A i \in stay : i \in Nat
  <2>1. IsFiniteSet(1 .. l) /\ Cardinality(1 .. l) = l
    BY FS_Interval
  <2>2. IsFiniteSet(stay) /\ Cardinality(stay) <= l
    BY <2>1, FS_Subset
  <2>3. Cardinality(stay) \in Nat
    BY <2>2, FS_CardinalityType
  <2> QED BY <2>2, <2>3
<1>2. ASSUME NEW i
      PROVE  /\ IsFiniteSet(Below(i)) /\ Cardinality(Below(i)) \in Nat
             /\ Cardinality(Below(i)) <= Cardinality(stay)
  BY <1>1, FS_Subset, FS_CardinalityType
<1>3. ASSUME NEW i \in stay
      PROVE  PlaceAmong(stay, i) \in 1 .. Cardinality(stay)
  <2>1. i \in Below(i)
    BY <1>1
  <2>2. Cardinality(Below(i)) # 0
    BY <1>2, <2>1, FS_EmptySet
  <2> QED BY <1>1, <1>2, <2>2 DEF PlaceAmong
<1>4. ASSUME NEW i \in stay, NEW j \in stay, i < j, PlaceAmong(stay, i) = PlaceAmong(stay, j)
      PROVE  FALSE
  <2>1. Below(i) \subseteq Below(j)
    <3>1. ASSUME NEW m \in stay, m <= i
          PROVE  m <= j
      <4>1. m \in Nat /\ i \in Nat /\ j \in Nat /\ i < j
        BY <1>1, <1>4
      <4> QED BY <3>1, <4>1
    <3> QED BY <3>1
  <2>2. Cardinality(Below(i)) = Cardinality(Below(j))
    BY <1>4 DEF PlaceAmong
  <2>3. Below(i) = Below(j)
    BY <1>2, <2>1, <2>2, FS_Subset
  <2>4. j \in Below(j) /\ j \notin Below(i)
    BY <1>1, <1>4
  <2> QED BY <2>3, <2>4
<1>5. ASSUME NEW i \in stay, NEW j \in stay, PlaceAmong(stay, i) = PlaceAmong(stay, j)
      PROVE  i = j
  <2>1. i < j \/ j < i \/ i = j
    BY <1>1
  <2> QED BY <1>4, <1>5, <2>1
<1>6. \A n \in 1 .. Cardinality(stay) : \E i \in stay : PlaceAmong(stay, i) = n
  <2> DEFINE f == [i \in stay |-> PlaceAmong(stay, i)]
             T == 1 .. Cardinality(stay)
  <2>1. f \in Injection(stay, T)
    BY <1>3, <1>5 DEF Injection, IsInjective
  <2>2. IsFiniteSet(T) /\ Cardinality(T) = Cardinality(stay)
    BY <1>1, FS_Interval
  <2> HIDE DEF f, T
  <2>3. f \in Surjection(stay, T)
    BY <2>1, <2>2, FS_Injection
  <2> QED BY <2>3 DEF Surjection, f, T
<1> QED BY <1>1, <1>3, <1>5, <1>6

(* What is left of a sequence after the deletion, place by place. *)
LEMMA DeleteAllPlaces ==
  ASSUME NEW S, NEW s \in Seq(S), NEW gone
  PROVE  LET stay == Staying(s, gone)
             r == DeleteAll(s, gone)
         IN  /\ stay \subseteq 1 .. Len(s) /\ IsFiniteSet(stay)
             /\ r \in Seq(S) /\ Len(r) = Cardinality(stay) /\ DOMAIN r = 1 .. Len(r)
             /\ Len(r) \in Nat /\ Len(r) <= Len(s)
             /\ \A i \in stay : /\ PlaceAmong(stay, i) \in 1 .. Len(r)
                                /\ r[PlaceAmong(stay, i)] = s[i]
             /\ \A n \in 1 .. Len(r) : \E i \in stay : PlaceAmong(stay, i) = n
<1> DEFINE stay == Staying(s, gone)
           r == DeleteAll(s, gone)
           At(n) == CHOOSE i \in stay : PlaceAmong(stay, i) = n
<1>1. Len(s) \in Nat /\ DOMAIN s = 1 .. Len(s) /\ stay \subseteq 1 .. Len(s)
  BY LenProperties DEF Staying
<1>2. r = [n \in 1 .. Cardinality(stay) |-> s[At(n)]]
  BY DEF DeleteAll
<1>3. \A i \in stay : s[i] \in S
  BY <1>1, ElementOfSeq
<1> HIDE DEF stay, r
<1>4. /\ IsFiniteSet(stay) /\ Cardinality(stay) \in Nat /\ Cardinality(stay) <= Len(s)
      /\ \A i \in stay : PlaceAmong(stay, i) \in 1 .. Cardinality(stay)
      /\ \A i, j \in stay : PlaceAmong(stay, i) = PlaceAmong(stay, j) => i = j
      /\ \A n \in 1 .. Cardinality(stay) : \E i \in stay : PlaceAmong(stay, i) = n
  BY <1>1, PlacesNumberThrough
<1>5. \A n \in 1 .. Cardinality(stay) : At(n) \in stay /\ PlaceAmong(stay, At(n)) = n
  BY <1>4
<1> HIDE DEF At
<1>6. r \in [1 .. Cardinality(stay) -> S]
  BY <1>2, <1>3, <1>5
<1>7. r \in Seq(S) /\ Len(r) = Cardinality(stay) /\ DOMAIN r = 1 .. Len(r)
  BY <1>4, <1>6, LenProperties, IsASeq
<1>8. \A i \in stay : r[PlaceAmong(stay, i)] = s[i]
  <2>1. \A i \in stay : At(PlaceAmong(stay, i)) = i
    BY <1>4, <1>5
  <2> QED BY <1>2, <1>4, <2>1
<1> QED BY <1>1, <1>4, <1>7, <1>8 DEF stay, r

(* Deleting keys keeps the map a bounded one, without them and with every   *)
(* other.                                                                   *)
LEMMA DeleteAllKeys ==
  ASSUME NEW S, NEW s \in Seq(S), NEW gone, IsInjective(s)
  PROVE  /\ DeleteAll(s, gone) \in Seq(S)
         /\ Len(DeleteAll(s, gone)) <= Len(s)
         /\ IsInjective(DeleteAll(s, gone))
         /\ ToSet(DeleteAll(s, gone)) = ToSet(s) \ gone
<1> DEFINE stay == Staying(s, gone)
           r == DeleteAll(s, gone)
<1>1. /\ r \in Seq(S) /\ DOMAIN r = 1 .. Len(r) /\ Len(r) <= Len(s)
      /\ \A i \in stay : /\ PlaceAmong(stay, i) \in 1 .. Len(r)
                         /\ r[PlaceAmong(stay, i)] = s[i]
      /\ \A n \in 1 .. Len(r) : \E i \in stay : PlaceAmong(stay, i) = n
  BY DeleteAllPlaces
<1>2. \A i : i \in stay <=> i \in DOMAIN s /\ s[i] \notin gone
  BY DEF Staying
<1> HIDE DEF stay, r
<1>3. ASSUME NEW n \in DOMAIN r, NEW m \in DOMAIN r, r[n] = r[m]
      PROVE  n = m
  <2>1. PICK i \in stay : PlaceAmong(stay, i) = n
    BY <1>1
  <2>2. PICK j \in stay : PlaceAmong(stay, j) = m
    BY <1>1
  <2>3. s[i] = s[j] /\ i \in DOMAIN s /\ j \in DOMAIN s
    BY <1>1, <1>2, <1>3, <2>1, <2>2
  <2>4. i = j
    BY <2>3 DEF IsInjective
  <2> QED BY <2>1, <2>2, <2>4
<1>4. IsInjective(r)
  BY <1>3 DEF IsInjective
<1>5. ASSUME NEW x \in ToSet(r)
      PROVE  x \in ToSet(s) \ gone
  <2>1. PICK n \in DOMAIN r : x = r[n]
    BY DEF ToSet
  <2>2. PICK i \in stay : PlaceAmong(stay, i) = n
    BY <1>1
  <2> QED BY <1>1, <1>2, <2>1, <2>2 DEF ToSet
<1>6. ASSUME NEW x \in ToSet(s) \ gone
      PROVE  x \in ToSet(r)
  <2>1. PICK i \in DOMAIN s : x = s[i]
    BY DEF ToSet
  <2>2. i \in stay
    BY <1>2, <1>6, <2>1
  <2> QED BY <1>1, <2>1, <2>2 DEF ToSet
<1> QED BY <1>1, <1>4, <1>5, <1>6 DEF r

LEMMA DeleteKeys ==
  ASSUME NEW S, NEW s \in Seq(S), NEW k, NEW bound \in Nat,
         IsBoundedMap(s, bound)
  PROVE  /\ Delete(s, k) \in Seq(S)
         /\ IsBoundedMap(Delete(s, k), bound)
         /\ ToSet(Delete(s, k)) = ToSet(s) \ {k}
<1> DEFINE r == Delete(s, k)
<1>1. /\ r \in Seq(S) /\ Len(r) <= Len(s) /\ IsInjective(r)
      /\ ToSet(r) = ToSet(s) \ {k}
  BY DeleteAllKeys DEF IsBoundedMap, Delete
<1> HIDE DEF r
<1>2. Len(r) \in Nat /\ Len(s) \in Nat
  BY <1>1, LenProperties
<1> QED BY <1>1, <1>2 DEF r, IsBoundedMap
===============================================================================
