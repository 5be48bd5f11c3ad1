--------------------------- MODULE EvidenceCloseProofs ---------------------------
(***************************************************************************)
(* The validator registry and the way from a file to a closed task, for    *)
(* any number of validators, hosts, tasks, files and rewrites.             *)
(***************************************************************************)
EXTENDS EvidenceClose, BoundedMapProofs, WellFoundedInduction

(* A sequence of registrations in the order of their numbers. *)
Ascending(q) == \A i, j \in DOMAIN q : i < j => q[i] < q[j]

RegistryInv ==
  /\ Ascending(registry)
  /\ \A n, m \in Live : IdAt(n) = IdAt(m) => n = m
  /\ \A n \in Live : uses[n] = 0
  /\ (\A n \in Issued : uses[n] <= 1) => \A n \in Issued : uses[n] = 0 => n \in Live

SweepInv ==
  /\ Ascending(sweep.ran)
  /\ \A i \in DOMAIN sweep.ran : sweep.ran[i] <= sweep.at
  /\ \A n \in sweep.kept :
       IF sweep.on THEN n \in Live /\ (n <= sweep.at => n \in ToSet(sweep.ran))
       ELSE n \in ToSet(sweep.ran)

Reading == {"confine", "stat", "open", "read"}

(* Which purpose goes with which stage, and what a PASS presupposes. *)
JobShape(j) ==
  /\ j.stage # "rest" => j.purpose # "none" /\ j.task \in Tasks /\ j.ident # "none"
  /\ j.stage = "rest" => j = Resting
  /\ j.stage = "record" => j.purpose \in {"verify", "bind"}
  /\ j.stage \in {"decide", "decided"} => j.purpose = "fresh"
  /\ j.purpose = "verify" /\ j.stage \in Reading => j.n # NoSpec
  /\ j.status = "PASS" => j.n # NoSpec
  /\ j.rev # NoRev => j.ident = "rev"
  /\ j.purpose = "bind" => j.ident # "hash"
  /\ j.purpose = "verify" /\ j.stage = "record" => j.ident = "hash"
  /\ j.stage \in Reading /\ j.ident # "hash" => j.hash = NoHash
  /\ j.stage = "record" \/ j.purpose = "bind" => j.status # "none"
  /\ j.stage = "read" => j.seen # NoFile

(* A job that saw the present revision sees the present file. *)
SeesFile(j) ==
  /\ j.stage \in {"stat", "open", "read"} => link = "in" /\ file # NoFile
  /\ j.stage \in {"open", "read"} => j.seen = file

Passes(n, c) == Verdict(spec[n], c) = "PASS"

Tracks(j) ==
  j.rev = rev =>
    /\ SeesFile(j)
    /\ j.purpose = "bind" /\ j.status = "PASS" /\ Here # NoHash => Passes(j.n, Here)
    /\ j.purpose = "bind" /\ j.stage = "record" => j.hash \in {NoHash, Here}

(* The subject that was hashed is the one that was judged. *)
Judgement(j) ==
  j.ident = "hash" /\ j.n # NoSpec /\ Kind(spec[j.n]) = "inline" =>
    j.stage = "record" /\ j.status = Verdict(spec[j.n], j.hash)

RecordSound(i) ==
  LET e == records[i] IN
    e.status = "PASS" =>
      /\ e.validator # NoSpec /\ e.hash # NoHash
      /\ (e.rev = rev \/ (idents[i] = "hash" /\ Kind(spec[e.validator]) = "inline"))
           => Passes(e.validator, e.hash)

(* A close holds on to the revision it began at. *)
CloseTracks(j) ==
  j.purpose = "fresh" /\ j.from # 0 =>
    LET e == records[j.from] IN
      e.status = "PASS" /\ e.rev # NoRev /\ e.rev = j.rev => Passes(e.validator, e.hash)

(* What the gate found when it let the task close. *)
ClosedSoundly(j) ==
  j.stage = "decided" /\ j.decision.closable /\ j.from # 0 =>
    LET e == records[j.from] IN
      /\ e.status = "PASS" /\ e.hash = j.hash /\ j.hash # NoHash
      /\ e.rev # NoRev /\ j.rev # NoRev => e.rev = j.rev

JobInv(j) ==
  JobShape(j) /\ Tracks(j) /\ Judgement(j) /\ CloseTracks(j) /\ ClosedSoundly(j)

JobsInv == \A j \in {job[h] : h \in Hosts} : JobInv(j)
RecordsInv == \A i \in DOMAIN records : RecordSound(i)

RInv == RegistryTypeOK /\ RegistryInv /\ SweepInv
EInv == RInv /\ TypeOK /\ JobsInv /\ RecordsInv

-----------------------------------------------------------------------------
LEMMA NextSeq ==
  ASSUME NEW S, NEW q \in Seq(S), NEW x \in S
  PROVE  /\ Append(q, x) \in Seq(S) /\ Len(Append(q, x)) = Len(q) + 1 /\ Len(q) \in Nat
         /\ DOMAIN q = 1 .. Len(q) /\ DOMAIN Append(q, x) = 1 .. (Len(q) + 1)
         /\ \A i \in DOMAIN q : Append(q, x)[i] = q[i] /\ q[i] \in S
         /\ Append(q, x)[Len(q) + 1] = x
         /\ ToSet(Append(q, x)) = ToSet(q) \cup {x}
<1> DEFINE p == Append(q, x)
<1>1. /\ p \in Seq(S) /\ Len(p) = Len(q) + 1 /\ Len(q) \in Nat
      /\ DOMAIN q = 1 .. Len(q) /\ DOMAIN p = 1 .. (Len(q) + 1)
      /\ \A i \in DOMAIN q : p[i] = q[i] /\ q[i] \in S
      /\ p[Len(q) + 1] = x
  BY AppendProperties, LenProperties, ElementOfSeq
<1> HIDE DEF p
<1>2. ToSet(p) = ToSet(q) \cup {x}
  <2>1. ASSUME NEW i \in DOMAIN p PROVE p[i] \in ToSet(q) \cup {x}
    BY <1>1 DEF ToSet
  <2>2. ASSUME NEW i \in DOMAIN q PROVE q[i] \in ToSet(p)
    BY <1>1 DEF ToSet
  <2>3. x \in ToSet(p)
    BY <1>1 DEF ToSet
  <2> QED BY <2>1, <2>2, <2>3 DEF ToSet
<1> QED BY <1>1, <1>2 DEF p

LEMMA NextAscending ==
  ASSUME NEW q \in Seq(Nat), Ascending(q), NEW x \in Nat, \A i \in DOMAIN q : q[i] < x
  PROVE  Ascending(Append(q, x))
<1> DEFINE p == Append(q, x)
<1>1. /\ Len(q) \in Nat /\ DOMAIN q = 1 .. Len(q) /\ DOMAIN p = 1 .. (Len(q) + 1)
      /\ \A i \in DOMAIN q : p[i] = q[i]
      /\ p[Len(q) + 1] = x
  BY NextSeq
<1> HIDE DEF p
<1>2. ASSUME NEW i \in DOMAIN p, NEW j \in DOMAIN p, i < j
      PROVE  p[i] < p[j]
  <2>1. i \in DOMAIN q
    BY <1>1, <1>2
  <2>2. j \in DOMAIN q \/ j = Len(q) + 1
    BY <1>1
  <2> QED BY <1>1, <1>2, <2>1, <2>2 DEF Ascending
<1>3. Ascending(p)
  BY <1>2 DEF Ascending
<1> QED BY <1>3 DEF p

LEMMA AscendingIsInjective ==
  ASSUME NEW q \in Seq(Nat), Ascending(q)
  PROVE  IsInjective(q)
<1>1. DOMAIN q = 1 .. Len(q) /\ Len(q) \in Nat /\ \A i \in DOMAIN q : q[i] \in Nat
  BY LenProperties, ElementOfSeq
<1>2. ASSUME NEW i \in DOMAIN q, NEW j \in DOMAIN q, q[i] = q[j]
      PROVE  i = j
  <2>1. i < j \/ j < i \/ i = j
    BY <1>1
  <2>2. ~(i < j) /\ ~(j < i)
    BY <1>1, <1>2 DEF Ascending
  <2> QED BY <2>1, <2>2
<1> QED BY <1>2 DEF IsInjective

(* Deletion keeps the order. *)
LEMMA DeleteAscending ==
  ASSUME NEW q \in Seq(Nat), Ascending(q), NEW gone
  PROVE  Ascending(DeleteAll(q, gone))
<1> DEFINE stay == Staying(q, gone)
           p == DeleteAll(q, gone)
<1>1. /\ stay \subseteq 1 .. Len(q) /\ IsFiniteSet(stay) /\ DOMAIN p = 1 .. Len(p)
      /\ \A i \in stay : p[PlaceAmong(stay, i)] = q[i]
      /\ \A n \in 1 .. Len(p) : \E i \in stay : PlaceAmong(stay, i) = n
      /\ Len(q) \in Nat /\ DOMAIN q = 1 .. Len(q) /\ Len(p) \in Nat
  BY DeleteAllPlaces, LenProperties
<1> HIDE DEF stay, p
<1>2. ASSUME NEW i \in stay, NEW j \in stay, j <= i
      PROVE  PlaceAmong(stay, j) <= PlaceAmong(stay, i)
  <2> DEFINE A == {k \in stay : k <= j}
             B == {k \in stay : k <= i}
  <2>1. A \subseteq B
    <3>1. ASSUME NEW k \in stay, k <= j
          PROVE  k <= i
      <4>1. k \in Nat /\ i \in Nat /\ j \in Nat
        BY <1>1
      <4> QED BY <1>2, <3>1, <4>1
    <3> QED BY <3>1
  <2>2. B \subseteq stay
    OBVIOUS
  <2> HIDE DEF A, B
  <2>3. IsFiniteSet(B)
    BY <1>1, <2>2, FS_Subset
  <2>4. Cardinality(A) <= Cardinality(B)
    BY <2>1, <2>3, FS_Subset
  <2> QED BY <2>4 DEF PlaceAmong, A, B
<1>3. ASSUME NEW n \in DOMAIN p, NEW m \in DOMAIN p, n < m
      PROVE  p[n] < p[m]
  <2>1. PICK i \in stay : PlaceAmong(stay, i) = n
    BY <1>1
  <2>2. PICK j \in stay : PlaceAmong(stay, j) = m
    BY <1>1
  <2>3. ~(j <= i)
    <3>1. ASSUME j <= i PROVE FALSE
      <4>1. m <= n
        BY <1>2, <2>1, <2>2, <3>1
      <4> QED BY <1>1, <1>3, <4>1
    <3> QED BY <3>1
  <2>4. i \in DOMAIN q /\ j \in DOMAIN q /\ i < j
    BY <1>1, <2>3
  <2> QED BY <1>1, <2>1, <2>2, <2>4 DEF Ascending
<1>4. Ascending(p)
  BY <1>3 DEF Ascending
<1> QED BY <1>4 DEF p

LEMMA MinOfSome ==
  ASSUME NEW S \in SUBSET Nat, S # {}
  PROVE  Min(S) \in S /\ \A x \in S : Min(S) <= x
<1> DEFINE R == OpToRel(<, Nat)
<1>1. IsWellFoundedOn(R, Nat)
  BY NatLessThanWellFounded
<1>2. \A k, n \in S : n <= k \/ <<k, n>> \in R
  BY DEF OpToRel
<1> HIDE DEF R
<1>3. \E n \in S : \A k \in S : ~(<<k, n>> \in R)
  BY <1>1, WFMin
<1>4. \E n \in S : \A k \in S : n <= k
  BY <1>2, <1>3
<1> QED BY <1>4 DEF Min

LEMMA WiderSeq ==
  ASSUME NEW S, NEW T, S \subseteq T, NEW q \in Seq(S)
  PROVE  q \in Seq(T) /\ ToSet(q) \subseteq S
<1>1. DOMAIN q = 1 .. Len(q) /\ \A i \in DOMAIN q : q[i] \in S
  BY LenProperties, ElementOfSeq
<1>2. q \in Seq(T)
  BY SeqMonotonic
<1>3. ToSet(q) \subseteq S
  BY <1>1 DEF ToSet
<1> QED BY <1>2, <1>3

-----------------------------------------------------------------------------
LEMMA RegistryFacts ==
  ASSUME RegistryTypeOK
  PROVE  /\ Len(spec) \in Nat /\ Issued = 1 .. Len(spec) /\ Issued \subseteq Nat
         /\ DOMAIN spec = Issued /\ \A n \in Issued : spec[n] \in Specs
         /\ registry \in Seq(Issued) /\ registry \in Seq(Nat) /\ Live \subseteq Issued
         /\ uses \in Seq(0 .. 2) /\ Len(uses) = Len(spec)
         /\ sweep.ran \in Seq(Issued) /\ sweep.ran \in Seq(Nat) /\ ToSet(sweep.ran) \subseteq Issued
         /\ sweep.kept \subseteq Issued /\ sweep.at \in 0 .. Len(spec) /\ sweep.on \in BOOLEAN
<1>1. /\ spec \in Seq(Specs) /\ registry \in Seq(Issued) /\ uses \in [Issued -> 0 .. 2]
      /\ sweep.ran \in Seq(Issued) /\ sweep.kept \subseteq Issued
      /\ sweep.at \in 0 .. Len(spec) /\ sweep.on \in BOOLEAN
  BY DEF RegistryTypeOK
<1>2. /\ Len(spec) \in Nat /\ DOMAIN spec = 1 .. Len(spec)
      /\ \A n \in DOMAIN spec : spec[n] \in Specs
  BY <1>1, LenProperties, ElementOfSeq
<1>3. Issued = 1 .. Len(spec) /\ Issued \subseteq Nat
  BY <1>2 DEF Issued
<1>4. registry \in Seq(Nat) /\ Live \subseteq Issued
  BY <1>1, <1>3, WiderSeq DEF Live
<1>5. sweep.ran \in Seq(Nat) /\ ToSet(sweep.ran) \subseteq Issued
  BY <1>1, <1>3, WiderSeq
<1>6. uses \in Seq(0 .. 2) /\ Len(uses) = Len(spec)
  <2>1. uses \in [1 .. Len(spec) -> 0 .. 2]
    BY <1>1, <1>3
  <2>2. uses \in Seq(0 .. 2)
    BY <1>2, <2>1, SeqDef
  <2> QED BY <1>2, <2>1, <2>2, LenProperties
<1>7. DOMAIN spec = Issued /\ \A n \in Issued : spec[n] \in Specs
  BY <1>2, <1>3
<1> QED BY <1>1, <1>2, <1>3, <1>4, <1>5, <1>6, <1>7, Zenon

(* A validator goes in: last, under a fresh number and an id nobody holds. *)
LEMMA RegisterKeeps ==
  ASSUME RInv, NEW s \in Specs, Register(s)
  PROVE  RInv'
<1> DEFINE k == Len(spec) + 1
<1>1. /\ Len(spec) \in Nat /\ Issued = 1 .. Len(spec) /\ Issued \subseteq Nat
      /\ DOMAIN spec = Issued /\ \A n \in Issued : spec[n] \in Specs
      /\ registry \in Seq(Issued) /\ registry \in Seq(Nat) /\ Live \subseteq Issued
      /\ uses \in Seq(0 .. 2) /\ Len(uses) = Len(spec) /\ spec \in Seq(Specs)
      /\ sweep.ran \in Seq(Issued) /\ sweep.kept \subseteq Issued
      /\ sweep.at \in 0 .. Len(spec) /\ sweep.on \in BOOLEAN /\ uses \in [Issued -> 0 .. 2]
  BY RegistryFacts DEF RInv, RegistryTypeOK
<1>2. /\ spec' = Append(spec, s) /\ registry' = Append(registry, k) /\ uses' = Append(uses, 0)
      /\ sweep' = sweep /\ IdOf(s) \notin LiveIds /\ Len(spec) < MaxRegistrations
  BY DEF Register
<1>3. /\ spec' \in Seq(Specs) /\ Len(spec') = k
      /\ \A n \in Issued : spec'[n] = spec[n]
      /\ spec'[k] = s
  BY <1>1, <1>2, NextSeq
<1>4. /\ Issued' = Issued \cup {k} /\ Issued' = 1 .. k /\ k \in Nat /\ k \notin Issued
  BY <1>1, <1>3 DEF Issued
<1>5. /\ registry' \in Seq(Issued') /\ Live' = Live \cup {k}
  <2>1. registry \in Seq(Issued')
    BY <1>1, <1>4, SeqMonotonic
  <2> QED BY <1>2, <1>4, <2>1, NextSeq DEF Live
<1>6. /\ uses' \in [Issued' -> 0 .. 2] /\ uses'[k] = 0
      /\ \A n \in Issued : uses'[n] = uses[n]
  <2>1. /\ uses' \in Seq(0 .. 2) /\ Len(uses') = k /\ uses'[k] = 0
        /\ \A n \in Issued : uses'[n] = uses[n]
    BY <1>1, <1>2, NextSeq
  <2>2. uses' \in [1 .. k -> 0 .. 2]
    BY <2>1
  <2> QED BY <1>4, <2>1, <2>2
<1>7. RegistryTypeOK'
  <2>1. sweep.ran \in Seq(Issued') /\ sweep.kept \subseteq Issued' /\ sweep.at \in 0 .. k
    <3>1. sweep.ran \in Seq(Issued')
      BY <1>1, <1>4, SeqMonotonic
    <3> QED BY <1>1, <1>4, <3>1
  <2>2. sweep = [on |-> sweep.on, at |-> sweep.at, ran |-> sweep.ran, kept |-> sweep.kept]
    BY DEF RInv, RegistryTypeOK
  <2>3. sweep' \in [on : BOOLEAN, at : 0 .. k, ran : Seq(Issued'), kept : SUBSET Issued']
    BY <1>1, <1>2, <2>1, <2>2
  <2>4. k <= MaxRegistrations
    BY <1>1, <1>2, RegistryAssumption
  <2> QED BY <1>3, <1>5, <1>6, <2>3, <2>4 DEF RegistryTypeOK
<1>8. RegistryInv'
  <2>1. Ascending(registry')
    <3>1. ASSUME NEW i \in DOMAIN registry PROVE registry[i] < k
      <4>1. registry[i] \in Issued
        BY <1>1, ElementOfSeq, LenProperties
      <4> QED BY <1>1, <4>1
    <3>2. Ascending(registry) /\ k \in Nat
      BY <1>1 DEF RInv, RegistryInv
    <3> QED BY <1>1, <1>2, <3>1, <3>2, NextAscending
  <2>2. \A n \in Live : spec'[n] = spec[n] /\ IdOf(spec[n]) # IdOf(s)
    BY <1>1, <1>2, <1>3 DEF IdAt, LiveIds
  <2>3. \A n, m \in Live' : IdOf(spec'[n]) = IdOf(spec'[m]) => n = m
    <3>1. \A n, m \in Live : IdOf(spec[n]) = IdOf(spec[m]) => n = m
      BY DEF RInv, RegistryInv, IdAt
    <3> QED BY <1>3, <1>5, <2>2, <3>1
  <2>4. \A n \in Live' : uses'[n] = 0
    BY <1>1, <1>5, <1>6 DEF RInv, RegistryInv
  <2>5. ASSUME \A n \in Issued' : uses'[n] <= 1, NEW n \in Issued', uses'[n] = 0
        PROVE  n \in Live'
    BY <1>4, <1>5, <1>6, <2>5 DEF RInv, RegistryInv
  <2> QED BY <2>1, <2>3, <2>4, <2>5 DEF RegistryInv, IdAt
<1>9. SweepInv'
  BY <1>2, <1>5 DEF RInv, SweepInv
<1> QED BY <1>7, <1>8, <1>9 DEF RInv

(* A validator goes out, or whoever holds its id now does. *)
LEMMA DisposeKeeps ==
  ASSUME RInv, NEW n \in Issued, Dispose(n)
  PROVE  RInv'
<1> DEFINE gone == Holding(IdAt(n))
<1>1. /\ Len(spec) \in Nat /\ Issued = 1 .. Len(spec) /\ Issued \subseteq Nat
      /\ registry \in Seq(Issued) /\ registry \in Seq(Nat) /\ Live \subseteq Issued
      /\ sweep \in [on : BOOLEAN, at : 0 .. Len(spec), ran : Seq(Issued), kept : SUBSET Issued]
      /\ uses \in [Issued -> 0 .. 2] /\ Ascending(registry) /\ IsInjective(registry)
  BY RegistryFacts, AscendingIsInjective DEF RInv, RegistryTypeOK, RegistryInv
<1>2. /\ registry' = DeleteAll(registry, gone) /\ spec' = spec /\ Issued' = Issued
      /\ uses' = [uses EXCEPT ![n] = uses[n] + 1] /\ uses[n] < 2
      /\ sweep' = [sweep EXCEPT !.kept = sweep.kept \ gone]
  BY DEF Dispose, Issued
<1>3. gone = {k \in Live : IdOf(spec[k]) = IdOf(spec[n])}
  BY DEF Holding, IdAt
<1> HIDE DEF gone
<1>4. registry' \in Seq(Issued) /\ Live' = Live \ gone /\ Ascending(registry')
  BY <1>1, <1>2, DeleteAllKeys, DeleteAscending DEF Live
<1>5. /\ uses' \in [Issued -> 0 .. 2] /\ uses'[n] = uses[n] + 1
      /\ \A k \in Issued \ {n} : uses'[k] = uses[k]
      /\ \A k \in Issued : uses[k] \in 0 .. 2
  <2>1. uses \in [Issued -> 0 .. 2] /\ uses' = [uses EXCEPT ![n] = uses[n] + 1] /\ uses[n] < 2
    BY <1>1, <1>2
  <2>2. uses[n] + 1 \in 0 .. 2
    BY <2>1
  <2> QED BY <2>1, <2>2
<1>6. RegistryTypeOK'
  <2>1. sweep' \in [on : BOOLEAN, at : 0 .. Len(spec), ran : Seq(Issued), kept : SUBSET Issued]
    BY <1>1, <1>2
  <2>2. spec \in Seq(Specs) /\ Len(spec) <= MaxRegistrations
    BY DEF RInv, RegistryTypeOK
  <2> QED BY <1>2, <1>4, <1>5, <2>1, <2>2 DEF RegistryTypeOK
<1>7. \A k, m \in Live : IdOf(spec[k]) = IdOf(spec[m]) => k = m
  BY DEF RInv, RegistryInv, IdAt
<1>8. RegistryInv'
  <2>1. \A k, m \in Live' : IdOf(spec'[k]) = IdOf(spec'[m]) => k = m
    BY <1>2, <1>4, <1>7
  <2>2. ASSUME NEW k \in Live' PROVE uses'[k] = 0
    <3>1. k # n /\ k \in Live
      BY <1>3, <1>4
    <3> QED BY <1>1, <1>5, <3>1 DEF RInv, RegistryInv
  <2>3. ASSUME \A k \in Issued : uses'[k] <= 1, NEW m \in Issued, uses'[m] = 0
        PROVE  m \in Live'
    <3>1. uses[n] = 0 /\ m # n /\ uses[m] = 0 /\ \A k \in Issued : uses[k] <= 1
      <4>1. uses[n] \in 0 .. 2 /\ uses'[n] = uses[n] + 1 /\ uses'[n] <= 1
        BY <1>5, <2>3
      <4>2. uses[n] = 0 /\ m # n
        BY <2>3, <4>1
      <4>3. uses[m] = 0
        BY <1>5, <2>3, <4>2
      <4>4. ASSUME NEW k \in Issued PROVE uses[k] <= 1
        BY <1>5, <2>3, <4>2
      <4> QED BY <4>2, <4>3, <4>4
    <3>2. n \in Live /\ m \in Live
      BY <3>1 DEF RInv, RegistryInv
    <3>3. m \notin gone
      BY <1>3, <1>7, <3>1, <3>2
    <3> QED BY <1>4, <3>2, <3>3
  <2> QED BY <1>2, <1>4, <2>1, <2>2, <2>3 DEF RegistryInv, IdAt
<1>9. SweepInv'
  <2>1. sweep'.ran = sweep.ran /\ sweep'.at = sweep.at /\ sweep'.on = sweep.on
        /\ sweep'.kept = sweep.kept \ gone
    BY <1>1, <1>2
  <2> QED BY <1>4, <2>1 DEF RInv, SweepInv
<1> QED BY <1>6, <1>8, <1>9 DEF RInv

LEMMA SweepBeginKeeps ==
  ASSUME RInv, SweepBegin
  PROVE  RInv'
<1>1. /\ sweep' = [on |-> TRUE, at |-> 0, ran |-> <<>>, kept |-> Live]
      /\ UNCHANGED <<registry, spec, uses, Issued, Live>>
  BY DEF SweepBegin, Issued, Live
<1>2. Len(spec) \in Nat /\ Live \subseteq Issued /\ Issued \subseteq Nat /\ Issued = 1 .. Len(spec)
  BY RegistryFacts DEF RInv
<1>3. RegistryTypeOK'
  <2>1. <<>> \in Seq(Issued)
    BY EmptySeq
  <2>2. sweep' \in [on : BOOLEAN, at : 0 .. Len(spec), ran : Seq(Issued), kept : SUBSET Issued]
    BY <1>1, <1>2, <2>1
  <2> QED BY <1>1, <2>2 DEF RInv, RegistryTypeOK
<1>4. RegistryInv'
  BY <1>1 DEF RInv, RegistryInv, Ascending, IdAt
<1>5. SweepInv'
  <2>1. DOMAIN sweep'.ran = {}
    BY <1>1
  <2>2. \A n \in sweep'.kept : n \in Live /\ ~(n <= sweep'.at)
    BY <1>1, <1>2
  <2> QED BY <1>1, <2>1, <2>2 DEF SweepInv, Ascending
<1> QED BY <1>3, <1>4, <1>5 DEF RInv

(* The walk goes to the first entry beyond the one it is at. *)
LEMMA SweepNextKeeps ==
  ASSUME RInv, SweepNext
  PROVE  RInv'
<1> DEFINE ahead == {i \in DOMAIN registry : registry[i] > sweep.at}
           m == registry[Min(ahead)]
<1>1. /\ Len(spec) \in Nat /\ Issued = 1 .. Len(spec) /\ Issued \subseteq Nat
      /\ Live \subseteq Issued /\ sweep.ran \in Seq(Issued) /\ sweep.ran \in Seq(Nat)
      /\ sweep.kept \subseteq Issued /\ sweep.at \in 0 .. Len(spec) /\ sweep.on
      /\ sweep \in [on : BOOLEAN, at : 0 .. Len(spec), ran : Seq(Issued), kept : SUBSET Issued]
  BY RegistryFacts DEF RInv, RegistryTypeOK, SweepNext
<1>2. UNCHANGED <<registry, spec, uses, Issued, Live>>
  BY DEF SweepNext, Issued, Live
<1>3. RegistryInv'
  BY <1>2 DEF RInv, RegistryInv, Ascending, IdAt
<1>4. spec \in Seq(Specs) /\ Len(spec) <= MaxRegistrations /\ registry \in Seq(Issued)
      /\ uses \in [Issued -> 0 .. 2]
  BY DEF RInv, RegistryTypeOK
<1>5. /\ Ascending(sweep.ran) /\ \A i \in DOMAIN sweep.ran : sweep.ran[i] <= sweep.at
      /\ \A n \in sweep.kept : n \in Live /\ (n <= sweep.at => n \in ToSet(sweep.ran))
  BY <1>1 DEF RInv, SweepInv
<1>0. /\ DOMAIN registry = 1 .. Len(registry) /\ Live = {registry[i] : i \in DOMAIN registry}
      /\ \A i \in DOMAIN registry : registry[i] \in Live
      /\ \A i, k \in DOMAIN registry : i < k => registry[i] < registry[k]
  BY <1>4, LenProperties DEF Live, ToSet, RInv, RegistryInv, Ascending
<1>6. CASE ahead = {}
  <2>1. sweep' = [sweep EXCEPT !.on = FALSE]
    BY <1>6 DEF SweepNext
  <2>2. /\ sweep' \in [on : BOOLEAN, at : 0 .. Len(spec), ran : Seq(Issued), kept : SUBSET Issued]
        /\ ~sweep'.on /\ sweep'.ran = sweep.ran /\ sweep'.at = sweep.at /\ sweep'.kept = sweep.kept
    BY <1>1, <2>1
  <2>3. ASSUME NEW n \in sweep.kept PROVE n \in ToSet(sweep.ran)
    <3>1. n \in Live /\ n \in Nat /\ sweep.at \in Nat
      BY <1>1, <1>5
    <3>2. PICK i \in DOMAIN registry : registry[i] = n
      BY <1>0, <3>1
    <3> QED BY <1>5, <1>6, <3>1, <3>2
  <2>4. RegistryTypeOK'
    BY <1>2, <1>4, <2>2 DEF RegistryTypeOK
  <2>5. SweepInv'
    BY <1>5, <2>2, <2>3 DEF SweepInv
  <2> QED BY <1>3, <2>4, <2>5 DEF RInv
<1>7. CASE ahead # {}
  <2>1. sweep' = [sweep EXCEPT !.at = m, !.ran = Append(sweep.ran, m)]
    BY <1>7 DEF SweepNext
  <2>2. /\ Min(ahead) \in DOMAIN registry /\ registry[Min(ahead)] > sweep.at
        /\ \A i \in DOMAIN registry : registry[i] > sweep.at => Min(ahead) <= i
    <3>1. ahead \in SUBSET Nat
      BY <1>0
    <3>2. Min(ahead) \in ahead /\ \A i \in ahead : Min(ahead) <= i
      <4> HIDE DEF ahead
      <4> QED BY <1>7, <3>1, MinOfSome
    <3> QED BY <3>2
  <2>3. m \in Live /\ m \in Issued /\ m \in Nat /\ sweep.at < m
        /\ \A x \in Live : x > sweep.at => m <= x
    <3> HIDE DEF ahead
    <3>1. m \in Live /\ m > sweep.at
      BY <1>0, <2>2
    <3>2. m \in Issued /\ m \in Nat /\ sweep.at < m
      BY <1>1, <3>1
    <3>3. ASSUME NEW x \in Live, x > sweep.at
          PROVE  m <= x
      <4>1. PICK i \in DOMAIN registry : registry[i] = x
        BY <1>0
      <4>2. Min(ahead) <= i
        BY <2>2, <3>3, <4>1
      <4>3. Min(ahead) < i \/ Min(ahead) = i
        BY <1>0, <2>2, <4>2
      <4>4. x \in Nat
        BY <1>1
      <4>5. m = x \/ m < x
        BY <1>0, <2>2, <4>1, <4>3
      <4> QED BY <3>2, <4>4, <4>5
    <3> QED BY <3>1, <3>2, <3>3
  <2> HIDE DEF m
  <2>4. /\ Append(sweep.ran, m) \in Seq(Issued)
        /\ ToSet(Append(sweep.ran, m)) = ToSet(sweep.ran) \cup {m}
        /\ DOMAIN Append(sweep.ran, m) = 1 .. Len(sweep.ran) + 1
        /\ DOMAIN sweep.ran = 1 .. Len(sweep.ran) /\ Len(sweep.ran) \in Nat
        /\ \A i \in DOMAIN sweep.ran : Append(sweep.ran, m)[i] = sweep.ran[i] /\ sweep.ran[i] \in Issued
        /\ Append(sweep.ran, m)[Len(sweep.ran) + 1] = m
    BY <1>1, <2>3, NextSeq
  <2>5. /\ sweep' \in [on : BOOLEAN, at : 0 .. Len(spec), ran : Seq(Issued), kept : SUBSET Issued]
        /\ sweep'.on /\ sweep'.ran = Append(sweep.ran, m) /\ sweep'.at = m /\ sweep'.kept = sweep.kept
    <3>1. m \in 0 .. Len(spec)
      BY <1>1, <2>3
    <3>2. DOMAIN sweep = {"on", "at", "ran", "kept"}
      BY <1>1
    <3>3. sweep' = [on |-> sweep.on, at |-> m, ran |-> Append(sweep.ran, m), kept |-> sweep.kept]
      BY <1>1, <2>1, <3>2
    <3> QED BY <1>1, <2>4, <3>1, <3>3
  <2>6. RegistryTypeOK'
    BY <1>2, <1>4, <2>5 DEF RegistryTypeOK
  <2>7. \A i \in DOMAIN sweep.ran : sweep.ran[i] < m
    BY <1>1, <1>5, <2>3, <2>4
  <2>8. Ascending(sweep'.ran)
    BY <1>1, <1>5, <2>3, <2>5, <2>7, NextAscending
  <2>9. \A i \in DOMAIN sweep'.ran : sweep'.ran[i] <= sweep'.at
    BY <1>1, <2>3, <2>4, <2>5, <2>7
  <2>10. ASSUME NEW n \in sweep.kept
         PROVE  n \in Live /\ (n <= m => n \in ToSet(sweep'.ran))
    <3>1. n \in Live /\ n \in Nat /\ (n <= sweep.at => n \in ToSet(sweep.ran))
      BY <1>1, <1>5
    <3>2. n > sweep.at => m <= n
      BY <2>3, <3>1
    <3>3. n <= m => n <= sweep.at \/ n = m
      BY <1>1, <2>3, <3>1, <3>2
    <3> QED BY <2>4, <2>5, <3>1, <3>3
  <2>11. SweepInv'
    BY <1>2, <2>5, <2>8, <2>9, <2>10 DEF SweepInv
  <2> QED BY <1>3, <2>6, <2>11 DEF RInv
<1> QED BY <1>6, <1>7

LEMMA RegistryStutters ==
  ASSUME RInv, UNCHANGED registryVars
  PROVE  RInv'
BY DEF RInv, RegistryTypeOK, RegistryInv, SweepInv, registryVars, Ascending, Issued, Live, IdAt

LEMMA RegistryStarts == RegistryInit => RInv
<1> SUFFICES ASSUME RegistryInit PROVE RInv
  OBVIOUS
<1>1. registry = <<>> /\ spec = <<>> /\ uses = <<>> /\ sweep = [on |-> FALSE, at |-> 0, ran |-> <<>>, kept |-> {}]
  BY DEF RegistryInit, Idle
<1>2. Len(spec) = 0 /\ Issued = {} /\ Live = {} /\ \A S : <<>> \in Seq(S)
  BY <1>1, EmptySeq DEF Issued, Live, ToSet
<1>3. RegistryTypeOK
  <2>1. uses \in [Issued -> 0 .. 2]
    BY <1>1, <1>2
  <2>2. 0 <= MaxRegistrations
    BY RegistryAssumption
  <2> QED BY <1>1, <1>2, <2>1, <2>2 DEF RegistryTypeOK
<1>4. RegistryInv /\ SweepInv
  BY <1>1, <1>2 DEF RegistryInv, SweepInv, Ascending
<1> QED BY <1>3, <1>4 DEF RInv

LEMMA RegistrySteps ==
  ASSUME RInv, RegistryNext \/ UNCHANGED registryVars
  PROVE  RInv'
<1>1. ASSUME NEW s \in Specs, Register(s) PROVE RInv'
  BY <1>1, RegisterKeeps
<1>2. ASSUME NEW n \in Issued, Dispose(n) PROVE RInv'
  BY <1>2, DisposeKeeps
<1> QED BY <1>1, <1>2, SweepBeginKeeps, SweepNextKeeps, RegistryStutters DEF RegistryNext

LEMMA RegistryIsApart == Next => RegistryNext \/ UNCHANGED registryVars
BY DEF Next, Others, Rewrite, Rename, Relink, Start, Confine, Stat, Open, Read, Record,
       BeginClose, Decide, Rest, Recorded, registryVars

(* The registry and the walk over it, whatever hosts and others do. *)
THEOREM RegistryInvariant == Spec => []RInv
<1>1. Init => RInv
  BY RegistryStarts DEF Init
<1>2. RInv /\ [Next]_vars => RInv'
  <2> SUFFICES ASSUME RInv, [Next]_vars PROVE RInv'
    OBVIOUS
  <2>1. RegistryNext \/ UNCHANGED registryVars
    BY RegistryIsApart DEF vars
  <2> QED BY <2>1, RegistrySteps
<1> QED BY <1>1, <1>2, PTL DEF Spec

LEMMA OwnDisposers == RInv => DisposersAreOwn
<1> SUFFICES ASSUME RInv, \A n \in Issued : uses[n] <= 1
             PROVE  Live = {n \in Issued : uses[n] = 0} /\ Cardinality(LiveIds) = Len(registry)
  BY DEF DisposersAreOwn
<1>1. /\ Live \subseteq Issued /\ registry \in Seq(Nat) /\ Ascending(registry)
      /\ (\A n \in Live : uses[n] = 0) /\ (\A n \in Issued : uses[n] = 0 => n \in Live)
      /\ \A n, m \in Live : IdAt(n) = IdAt(m) => n = m
  BY RegistryFacts DEF RInv, RegistryInv
<1>2. Live = {n \in Issued : uses[n] = 0}
  BY <1>1
<1> DEFINE f == [i \in 1 .. Len(registry) |-> IdAt(registry[i])]
<1>3. DOMAIN registry = 1 .. Len(registry) /\ Len(registry) \in Nat
  BY <1>1, LenProperties
<1>4. f \in Bijection(1 .. Len(registry), LiveIds)
  <2>1. \A i \in 1 .. Len(registry) : registry[i] \in Live
    BY <1>3 DEF Live, ToSet
  <2>2. \A i, j \in 1 .. Len(registry) : registry[i] = registry[j] => i = j
    BY <1>1, <1>3, AscendingIsInjective DEF IsInjective
  <2>3. \A i, j \in 1 .. Len(registry) : f[i] = f[j] => i = j
    BY <1>1, <2>1, <2>2
  <2>4. f \in [1 .. Len(registry) -> LiveIds]
    BY <2>1 DEF LiveIds
  <2>5. \A id \in LiveIds : \E i \in 1 .. Len(registry) : f[i] = id
    BY <1>3 DEF LiveIds, Live, ToSet
  <2> HIDE DEF f
  <2>6. f \in Injection(1 .. Len(registry), LiveIds)
    BY <2>3, <2>4 DEF Injection, IsInjective
  <2>7. f \in Surjection(1 .. Len(registry), LiveIds)
    BY <2>4, <2>5 DEF Surjection
  <2> QED BY <2>6, <2>7 DEF Bijection
<1> HIDE DEF f
<1>5. ExistsBijection(1 .. Len(registry), LiveIds)
  BY <1>4 DEF ExistsBijection
<1>6. IsFiniteSet(1 .. Len(registry)) /\ Cardinality(1 .. Len(registry)) = Len(registry)
  <2>1. /\ IsFiniteSet(1 .. Len(registry))
        /\ Cardinality(1 .. Len(registry)) = IF 1 > Len(registry) THEN 0 ELSE Len(registry) - 1 + 1
    BY <1>3, FS_Interval
  <2> QED BY <1>3, <2>1
<1>7. Cardinality(LiveIds) = Cardinality(1 .. Len(registry))
  BY <1>5, <1>6, FS_Bijection
<1> QED BY <1>2, <1>6, <1>7

LEMMA StableIsCovered == RInv => SweepCoversStable
<1> SUFFICES ASSUME RInv, ~sweep.on, sweep.ran # <<>>
             PROVE  /\ \A n \in sweep.kept : Cardinality({i \in DOMAIN sweep.ran : sweep.ran[i] = n}) = 1
                    /\ \A i, j \in DOMAIN sweep.ran : i < j => sweep.ran[i] < sweep.ran[j]
  BY DEF SweepCoversStable
<1>1. /\ sweep.ran \in Seq(Nat) /\ Ascending(sweep.ran)
      /\ \A n \in sweep.kept : n \in ToSet(sweep.ran)
  BY RegistryFacts DEF RInv, SweepInv
<1>2. ASSUME NEW n \in sweep.kept
      PROVE  Cardinality({i \in DOMAIN sweep.ran : sweep.ran[i] = n}) = 1
  <2>1. PICK i \in DOMAIN sweep.ran : sweep.ran[i] = n
    BY <1>1 DEF ToSet
  <2>2. {j \in DOMAIN sweep.ran : sweep.ran[j] = n} = {i}
    BY <1>1, <2>1, AscendingIsInjective DEF IsInjective
  <2> QED BY <2>2, FS_Singleton
<1> QED BY <1>1, <1>2 DEF Ascending

(* As long as no disposer is called twice, the live validators are exactly *)
(* those not disposed of, each under an id of its own: deleting by id then *)
(* never takes another registration away.                                  *)
THEOREM DisposersTakeTheirOwn == Spec => []DisposersAreOwn
BY RegistryInvariant, OwnDisposers, PTL

(* However the registry changes between two awaits of runAll(), a validator *)
(* that is registered all the while runs once, in the order of registration. *)
THEOREM SweepsCoverStable == Spec => []SweepCoversStable
BY RegistryInvariant, StableIsCovered, PTL

-----------------------------------------------------------------------------
(* What registrations, records and revisions only ever do: grow. *)
Grows ==
  /\ Len(spec) <= Len(spec') /\ \A n \in Issued : spec'[n] = spec[n]
  /\ Len(records) <= Len(records')
  /\ \A i \in DOMAIN records : records'[i] = records[i] /\ idents'[i] = idents[i]
  /\ \/ UNCHANGED fileVars
     \/ rev' = rev + 1

LEMMA TypeFacts ==
  ASSUME TypeOK
  PROVE  /\ Len(spec) \in Nat /\ Issued = 1 .. Len(spec) /\ (\A n \in Issued : spec[n] \in Specs)
         /\ rev \in Nat /\ rev \notin {NoRev} /\ records \in Seq(Records)
         /\ Len(records) \in Nat /\ DOMAIN records = 1 .. Len(records)
         /\ \A i \in DOMAIN records : records[i] \in Records
         /\ file \in Inodes \cup {NoFile} /\ bytes \in [Inodes -> Contents]
         /\ job \in [Hosts -> Jobs]
<1>1. /\ Len(spec) \in Nat /\ Issued = 1 .. Len(spec) /\ \A n \in Issued : spec[n] \in Specs
  BY RegistryFacts DEF TypeOK
<1>2. rev \in Nat /\ rev \notin {NoRev}
  BY CloseAssumption DEF TypeOK
<1>3. records \in Seq(Records)
  BY DEF TypeOK
<1>4. Len(records) \in Nat /\ DOMAIN records = 1 .. Len(records)
      /\ \A i \in DOMAIN records : records[i] \in Records
  BY <1>3, LenProperties, ElementOfSeq
<1> QED BY <1>1, <1>2, <1>3, <1>4 DEF TypeOK

LEMMA JobParts ==
  ASSUME NEW j \in Jobs
  PROVE  /\ j.stage \in {"rest", "confine", "stat", "open", "read", "record", "decide", "decided"}
         /\ j.purpose \in {"none", "verify", "bind", "fresh"} /\ j.n \in 0 .. Len(spec)
         /\ j.task \in Tasks \cup {"none"} /\ j.ident \in {"none", "hash", "path", "rev", "stray"}
         /\ j.rev \in 0 .. rev \cup {NoRev} /\ j.hash \in Contents \cup {NoHash}
         /\ j.status \in Statuses \cup {"none"} /\ j.seen \in Inodes \cup {NoFile}
         /\ j.from \in 0 .. Len(records) /\ j.decision \in [closable : BOOLEAN, code : CloseCodes \cup {"none"}]
         /\ j = [stage |-> j.stage, purpose |-> j.purpose, n |-> j.n, task |-> j.task,
                 ident |-> j.ident, rev |-> j.rev, hash |-> j.hash, status |-> j.status,
                 seen |-> j.seen, from |-> j.from, decision |-> j.decision]
BY DEF Jobs

LEMMA RecordParts ==
  ASSUME NEW e \in Records
  PROVE  /\ e.task \in Tasks /\ e.validator \in 0 .. Len(spec) /\ e.status \in Statuses
         /\ e.hash \in Contents \cup {NoHash} /\ e.rev \in 0 .. rev \cup {NoRev}
         /\ e.formed = TRUE /\ e.reasoned = TRUE /\ e.known = TRUE /\ e.timed = TRUE
         /\ e = [task |-> e.task, validator |-> e.validator, status |-> e.status, hash |-> e.hash,
                 rev |-> e.rev, formed |-> e.formed, reasoned |-> e.reasoned, known |-> e.known, timed |-> e.timed]
BY DEF Records

(* What was right of a job and of a record stays right as things grow: a   *)
(* change of the file is a change of the revision, which no job and no     *)
(* record has seen yet.                                                    *)
LEMMA GrownTypes ==
  ASSUME TypeOK, Grows, Len(spec') \in Nat, Len(records') \in Nat
  PROVE  Jobs \subseteq Jobs' /\ Records \subseteq Records'
<1>1. /\ Len(spec) \in Nat /\ Len(records) \in Nat /\ rev \in Nat
      /\ Len(spec) <= Len(spec') /\ Len(records) <= Len(records')
      /\ rev' = rev \/ rev' = rev + 1
  BY TypeFacts DEF Grows, fileVars
<1>2. /\ 0 .. Len(spec) \subseteq 0 .. Len(spec')
      /\ 0 .. Len(records) \subseteq 0 .. Len(records')
      /\ 0 .. rev \subseteq 0 .. rev'
  BY <1>1
<1>3. Records \subseteq Records'
  BY <1>2 DEF Records
<1>4. Jobs \subseteq Jobs'
  BY <1>2 DEF Jobs
<1> QED BY <1>3, <1>4

LEMMA JobGrown ==
  ASSUME TypeOK, RecordsInv, Grows, NEW j \in Jobs, JobInv(j)
  PROVE  JobInv(j)'
<1>1. /\ j.n \in 0 .. Len(spec) /\ j.rev \in 0 .. rev \cup {NoRev} /\ j.from \in 0 .. Len(records)
      /\ Len(spec) \in Nat /\ Issued = 1 .. Len(spec) /\ Len(records) \in Nat
      /\ DOMAIN records = 1 .. Len(records) /\ rev \in Nat /\ rev # NoRev /\ rev + 1 # NoRev
      /\ \A i \in DOMAIN records : records[i] \in Records
  BY TypeFacts, JobParts, CloseAssumption
<1>2. /\ \A n \in Issued : spec'[n] = spec[n]
      /\ \A i \in DOMAIN records : records'[i] = records[i]
  BY DEF Grows
<1>3. JobShape(j)'
  BY DEF JobInv, JobShape
<1>4. Tracks(j)'
  <2>1. CASE UNCHANGED fileVars
    <3>1. Tracks(j) /\ (j.status = "PASS" => j.n \in Issued)
      BY <1>1 DEF JobInv, JobShape, NoSpec
    <3> QED BY <1>2, <2>1, <3>1 DEF Tracks, SeesFile, Passes, Here, fileVars
  <2>2. CASE rev' = rev + 1
    <3>1. j.rev # rev'
      BY <1>1, <2>2
    <3> QED BY <3>1 DEF Tracks
  <2> QED BY <2>1, <2>2 DEF Grows
<1>5. Judgement(j)'
  <2>1. j.n # NoSpec => j.n \in Issued
    BY <1>1 DEF NoSpec
  <2> QED BY <1>2, <2>1 DEF JobInv, Judgement
<1>6. j.from # 0 => j.from \in DOMAIN records
  BY <1>1
<1>7. CloseTracks(j)'
  <2> SUFFICES ASSUME j.purpose = "fresh", j.from # 0,
                      records[j.from].status = "PASS", records[j.from].rev # NoRev,
                      records[j.from].rev = j.rev
               PROVE  Verdict(spec'[records[j.from].validator], records[j.from].hash) = "PASS"
    BY <1>2, <1>6 DEF CloseTracks, Passes
  <2>1. Verdict(spec[records[j.from].validator], records[j.from].hash) = "PASS"
    BY DEF JobInv, CloseTracks, Passes
  <2>2. records[j.from].validator \in Issued
    <3>1. records[j.from].validator # NoSpec
      BY <1>6 DEF RecordsInv, RecordSound
    <3>2. records[j.from].validator \in 0 .. Len(spec)
      BY <1>1, <1>6, RecordParts
    <3> QED BY <1>1, <3>1, <3>2 DEF NoSpec
  <2> QED BY <1>2, <2>1, <2>2
<1>8. ClosedSoundly(j)'
  BY <1>2, <1>6 DEF JobInv, ClosedSoundly
<1> QED BY <1>3, <1>4, <1>5, <1>7, <1>8 DEF JobInv

LEMMA RecordGrown ==
  ASSUME TypeOK, RecordsInv, Grows, NEW i \in DOMAIN records
  PROVE  RecordSound(i)'
<1>1. /\ records'[i] = records[i] /\ idents'[i] = idents[i]
      /\ \A n \in Issued : spec'[n] = spec[n]
  BY DEF Grows
<1>2. /\ records[i].validator \in 0 .. Len(spec) /\ Len(spec) \in Nat /\ Issued = 1 .. Len(spec)
      /\ records[i].rev \in 0 .. rev \cup {NoRev} /\ rev \in Nat /\ rev # NoRev /\ rev + 1 # NoRev
  <2>1. records[i] \in Records
    BY TypeFacts
  <2>2. rev \in Nat /\ NoRev \notin Nat /\ Len(spec) \in Nat /\ Issued = 1 .. Len(spec)
    BY TypeFacts, CloseAssumption
  <2>3. rev # NoRev /\ rev + 1 # NoRev
    BY <2>2
  <2> QED BY <2>1, <2>2, <2>3, RecordParts
<1>3. records[i].rev = rev' => records[i].rev = rev
  BY <1>2 DEF Grows, fileVars
<1>4. records[i].status = "PASS" => records[i].validator \in Issued
  BY <1>2 DEF RecordsInv, RecordSound, NoSpec
<1>5. RecordSound(i)
  BY DEF RecordsInv
<1> DEFINE e == records[i]
<1>6. e.status = "PASS" =>
        /\ e.validator # NoSpec /\ e.hash # NoHash
        /\ (e.rev = rev' \/ (idents[i] = "hash" /\ Kind(spec'[e.validator]) = "inline"))
             => Verdict(spec'[e.validator], e.hash) = "PASS"
  BY <1>1, <1>3, <1>4, <1>5 DEF RecordSound, Passes
<1> QED BY <1>1, <1>6 DEF RecordSound, Passes

(* A step of one host that leaves everything else alone. *)
LEMMA JobStep ==
  ASSUME EInv, NEW h \in Hosts, NEW j, j \in Jobs, JobInv(j), Step(h, j),
         UNCHANGED <<registryVars, fileVars, records, idents>>
  PROVE  EInv'
<1>1. RInv'
  BY RegistryStutters DEF EInv
<1>2. /\ TypeOK /\ RecordsInv /\ job \in [Hosts -> Jobs] /\ UNCHANGED <<spec, Issued>>
      /\ Len(spec) \in Nat /\ Len(records) \in Nat
  BY TypeFacts DEF EInv, registryVars, Issued
<1>3. Grows
  BY <1>2 DEF Grows
<1>4. Jobs \subseteq Jobs' /\ Records \subseteq Records'
  BY <1>2, <1>3, GrownTypes
<1>5. job' = [job EXCEPT ![h] = j]
  BY DEF Step
<1>6. TypeOK'
  <2>1. job' \in [Hosts -> Jobs']
    BY <1>2, <1>4, <1>5
  <2>2. RegistryTypeOK'
    BY <1>1 DEF RInv
  <2>3. records' \in Seq(Records')
    BY <1>4, SeqMonotonic, TypeFacts DEF EInv
  <2> QED BY <2>1, <2>2, <2>3 DEF EInv, TypeOK, fileVars
<1>7. JobsInv'
  <2>1. ASSUME NEW k \in Hosts, NEW i, i = job'[k] PROVE JobInv(i)'
    <3>1. i \in Jobs /\ JobInv(i)
      BY <1>2, <1>5, <2>1 DEF EInv, JobsInv
    <3> QED BY <1>2, <1>3, <3>1, JobGrown
  <2> QED BY <2>1 DEF JobsInv
<1>8. RecordsInv'
  BY <1>2, <1>3, RecordGrown DEF RecordsInv
<1> QED BY <1>1, <1>6, <1>7, <1>8 DEF EInv

LEMMA Sees ==
  ASSUME TypeOK
  PROVE  /\ Here \in Contents \cup {NoHash}
         /\ link = "in" /\ file # NoFile => Here = bytes[file] /\ Here \in Contents /\ file \in Inodes
BY TypeFacts DEF Here

(* What a validator's verdict needs to be worth recording. *)
Worth(j, status) ==
  /\ j.purpose = "verify" /\ j.task \in Tasks /\ j.ident # "none"
  /\ j.rev # NoRev => j.ident = "rev"
  /\ j.ident # "hash" => j.hash = NoHash
  /\ j.ident = "hash" /\ j.n # NoSpec /\ Kind(spec[j.n]) = "inline" => status = Verdict(spec[j.n], j.hash)
  /\ status = "PASS" =>
       /\ j.n # NoSpec
       /\ j.rev = rev /\ Here # NoHash => Passes(j.n, Here)

LEMMA JudgedKeeps ==
  ASSUME TypeOK, NEW j, j \in Jobs, NEW status \in Statuses, Worth(j, status)
  PROVE  Judged(j, status) \in Jobs /\ JobInv(Judged(j, status))
<1> DEFINE r == Judged(j, status)
<1>1. /\ r.status = status /\ r.seen = NoFile /\ r.n = j.n /\ r.task = j.task /\ r.ident = j.ident
      /\ r.rev = j.rev /\ r.hash = j.hash /\ r.from = j.from /\ r.decision = j.decision
      /\ r.purpose = (IF j.ident = "hash" THEN j.purpose ELSE "bind")
      /\ r.stage = (IF j.ident = "hash" THEN "record" ELSE "confine")
      /\ r \in Jobs
  <2> DEFINE stage == IF j.ident = "hash" THEN "record" ELSE "confine"
             purpose == IF j.ident = "hash" THEN j.purpose ELSE "bind"
  <2>1. /\ stage \in {"record", "confine"} /\ purpose \in {"verify", "bind"}
        /\ NoFile \in Inodes \cup {NoFile} /\ status \in Statuses \cup {"none"}
    BY DEF Worth
  <2>2. r = [j EXCEPT !.status = status, !.seen = NoFile, !.purpose = purpose, !.stage = stage]
    BY DEF Judged
  <2> HIDE DEF r, stage, purpose
  <2>3. /\ r.status = status /\ r.seen = NoFile /\ r.n = j.n /\ r.task = j.task /\ r.ident = j.ident
        /\ r.rev = j.rev /\ r.hash = j.hash /\ r.from = j.from /\ r.decision = j.decision
        /\ r.purpose = purpose /\ r.stage = stage /\ r \in Jobs
    BY <2>1, <2>2 DEF Jobs
  <2> QED BY <2>3 DEF stage, purpose
<1> HIDE DEF r
<1>2. status # "none" /\ rev # NoRev
  BY TypeFacts DEF Statuses
<1>3. JobShape(r)
  BY <1>1, <1>2 DEF JobShape, Worth, Reading
<1>4. Tracks(r)
  BY <1>1, <1>2 DEF Tracks, SeesFile, Worth
<1>5. Judgement(r)
  BY <1>1 DEF Judgement, Worth
<1>6. CloseTracks(r) /\ ClosedSoundly(r)
  BY <1>1 DEF CloseTracks, ClosedSoundly, Worth
<1> QED BY <1>1, <1>3, <1>4, <1>5, <1>6 DEF JobInv, r

(* A read that ends without bytes. *)
LEMMA UnreadKeeps ==
  ASSUME TypeOK, NEW j, j \in Jobs, JobInv(j), j.stage \in Reading,
         NEW status \in Statuses \ {"PASS"}
  PROVE  Unread(j, status) \in Jobs /\ JobInv(Unread(j, status))
<1>1. /\ JobShape(j) /\ Tracks(j) /\ Judgement(j) /\ CloseTracks(j)
      /\ j.stage \in {"confine", "stat", "open", "read"}
  BY DEF JobInv, Reading
<1>2. CASE j.purpose = "verify"
  <2>1. Worth(j, status)
    BY <1>1, <1>2 DEF Worth, JobShape, Judgement, Reading
  <2> QED BY <1>2, <2>1, JudgedKeeps DEF Unread
<1>3. CASE j.purpose # "verify"
  <2> DEFINE r == Unread(j, status)
  <2>1. /\ r.status = j.status /\ r.seen = j.seen /\ r.n = j.n /\ r.task = j.task /\ r.ident = j.ident
        /\ r.rev = j.rev /\ r.hash = j.hash /\ r.from = j.from /\ r.purpose = j.purpose
        /\ r.stage = (IF j.purpose = "bind" THEN "record" ELSE "decide")
        /\ r \in Jobs
    BY <1>3 DEF Unread, Jobs
  <2> HIDE DEF r
  <2>2. r.purpose \in {"bind", "fresh"}
    <3>1. j.purpose \in {"none", "verify", "bind", "fresh"}
      BY JobParts
    <3> QED BY <1>1, <1>3, <2>1, <3>1 DEF JobShape
  <2>3. JobShape(r)
    BY <1>1, <2>1, <2>2 DEF JobShape, Reading
  <2>4. Tracks(r)
    BY <1>1, <2>1, <2>2 DEF Tracks, SeesFile, JobShape, Reading
  <2>5. Judgement(r)
    BY <1>1, <2>1 DEF Judgement
  <2>6. CloseTracks(r) /\ ClosedSoundly(r)
    BY <1>1, <2>1, <2>2 DEF CloseTracks, ClosedSoundly
  <2> QED BY <2>1, <2>3, <2>4, <2>5, <2>6 DEF JobInv, r
<1> QED BY <1>2, <1>3

-----------------------------------------------------------------------------
(* The steps of a host. *)
LEMMA HostFacts ==
  ASSUME EInv, NEW h \in Hosts
  PROVE  /\ TypeOK /\ RecordsInv /\ job[h] \in Jobs /\ JobInv(job[h])
         /\ JobShape(job[h]) /\ Tracks(job[h]) /\ Judgement(job[h]) /\ CloseTracks(job[h])
         /\ rev \in Nat /\ rev # NoRev
<1>1. TypeOK /\ job[h] \in Jobs /\ rev \in Nat /\ rev # NoRev
  BY TypeFacts DEF EInv
<1>2. JobInv(job[h])
  BY DEF EInv, JobsInv
<1> QED BY <1>1, <1>2 DEF EInv, JobInv

LEMMA ConfineKeeps ==
  ASSUME EInv, NEW h \in Hosts, Confine(h)
  PROVE  EInv'
<1> DEFINE j == job[h]
           kind == IF PathIsAllowed(j) THEN Confinement ELSE "outside"
<1>1. /\ TypeOK /\ j \in Jobs /\ JobInv(j) /\ rev \in Nat /\ rev # NoRev
      /\ JobShape(j) /\ Tracks(j) /\ Judgement(j) /\ CloseTracks(j)
  BY HostFacts
<1>2. j.stage = "confine" /\ UNCHANGED <<registryVars, fileVars, records, idents>>
  BY DEF Confine
<1>3. kind \in {"unresolvable", "outside", "missing", "ok"}
  BY <1>1 DEF Confinement, TypeOK
<1>4. kind = "ok" => link = "in" /\ file # NoFile
  BY <1>1 DEF Confinement, TypeOK
<1>5. Step(h, IF kind # "ok" THEN Unread(j, ConfinedStatus(kind))
              ELSE IF j.purpose = "verify" /\ Kind(spec[j.n]) = "file-exists"
              THEN Judged(j, ConfinedStatus("ok"))
              ELSE [j EXCEPT !.stage = "stat"])
  BY DEF Confine
<1> HIDE DEF j, kind
<1>6. CASE kind # "ok"
  <2>1. ConfinedStatus(kind) \in Statuses \ {"PASS"}
    BY <1>3, <1>6 DEF ConfinedStatus, Statuses
  <2>2. Unread(j, ConfinedStatus(kind)) \in Jobs /\ JobInv(Unread(j, ConfinedStatus(kind)))
    BY <1>1, <1>2, <2>1, UnreadKeeps DEF Reading
  <2>3. Step(h, Unread(j, ConfinedStatus(kind)))
    BY <1>5, <1>6
  <2> QED BY <1>2, <2>2, <2>3, JobStep
<1>7. CASE kind = "ok" /\ j.purpose = "verify" /\ Kind(spec[j.n]) = "file-exists"
  <2>1. Step(h, Judged(j, "PASS")) /\ "PASS" \in Statuses
    BY <1>5, <1>7 DEF ConfinedStatus, Statuses
  <2>2. j.n \in Issued /\ j.n # NoSpec
    BY <1>1, <1>2, <1>7, JobParts, TypeFacts DEF JobShape, Reading, NoSpec
  <2>3. Here # NoHash => Passes(j.n, Here)
    <3>1. spec[j.n] \in Specs /\ Here \in Contents \cup {NoHash}
      BY <1>1, <2>2, TypeFacts, Sees
    <3> QED BY <1>7, <3>1, VerdictAssumption DEF Passes
  <2>4. Worth(j, "PASS")
    BY <1>1, <1>2, <1>7, <2>2, <2>3 DEF Worth, JobShape, Reading
  <2>5. Judged(j, "PASS") \in Jobs /\ JobInv(Judged(j, "PASS"))
    BY <1>1, <2>1, <2>4, JudgedKeeps
  <2> QED BY <1>2, <2>1, <2>5, JobStep
<1>8. CASE kind = "ok" /\ ~(j.purpose = "verify" /\ Kind(spec[j.n]) = "file-exists")
  <2> DEFINE r == [j EXCEPT !.stage = "stat"]
  <2>1. Step(h, r)
    BY <1>5, <1>8
  <2>2. /\ r \in Jobs /\ r.stage = "stat" /\ r.purpose = j.purpose /\ r.n = j.n /\ r.task = j.task
        /\ r.ident = j.ident /\ r.rev = j.rev /\ r.hash = j.hash /\ r.status = j.status
        /\ r.seen = j.seen /\ r.from = j.from
    BY <1>1 DEF Jobs
  <2> HIDE DEF r
  <2>3. JobShape(r)
    BY <1>1, <1>2, <2>2 DEF JobShape, Reading
  <2>4. Tracks(r)
    BY <1>1, <1>2, <1>4, <1>8, <2>2 DEF Tracks, SeesFile
  <2>5. Judgement(r) /\ CloseTracks(r) /\ ClosedSoundly(r)
    BY <1>1, <1>2, <2>2 DEF Judgement, CloseTracks, ClosedSoundly
  <2>6. JobInv(r)
    BY <2>3, <2>4, <2>5 DEF JobInv
  <2> QED BY <1>2, <2>1, <2>2, <2>6, JobStep
<1> QED BY <1>6, <1>7, <1>8

LEMMA StatKeeps ==
  ASSUME EInv, NEW h \in Hosts, Stat(h)
  PROVE  EInv'
<1> DEFINE j == job[h]
           r == [j EXCEPT !.stage = "open", !.seen = file]
<1>1. /\ TypeOK /\ j \in Jobs /\ JobInv(j) /\ rev \in Nat /\ rev # NoRev
      /\ JobShape(j) /\ Tracks(j) /\ Judgement(j) /\ CloseTracks(j)
  BY HostFacts
<1>2. j.stage = "stat" /\ UNCHANGED <<registryVars, fileVars, records, idents>>
  BY DEF Stat
<1>3. Step(h, Unread(j, "FAIL")) \/ Step(h, r)
  BY DEF Stat
<1>4. /\ r \in Jobs /\ r.stage = "open" /\ r.purpose = j.purpose /\ r.n = j.n /\ r.task = j.task
      /\ r.ident = j.ident /\ r.rev = j.rev /\ r.hash = j.hash /\ r.status = j.status
      /\ r.seen = file /\ r.from = j.from
  <2>1. file \in Inodes \cup {NoFile}
    BY <1>1, TypeFacts
  <2> QED BY <1>1, <2>1 DEF Jobs
<1> HIDE DEF j, r
<1>5. CASE Step(h, Unread(j, "FAIL"))
  <2>1. Unread(j, "FAIL") \in Jobs /\ JobInv(Unread(j, "FAIL"))
    BY <1>1, <1>2, UnreadKeeps DEF Reading, Statuses
  <2> QED BY <1>2, <1>5, <2>1, JobStep
<1>6. CASE Step(h, r)
  <2>1. JobShape(r)
    BY <1>1, <1>2, <1>4 DEF JobShape, Reading
  <2>2. Tracks(r)
    BY <1>1, <1>2, <1>4 DEF Tracks, SeesFile
  <2>3. Judgement(r) /\ CloseTracks(r) /\ ClosedSoundly(r)
    BY <1>1, <1>2, <1>4 DEF Judgement, CloseTracks, ClosedSoundly
  <2>4. JobInv(r)
    BY <2>1, <2>2, <2>3 DEF JobInv
  <2> QED BY <1>2, <1>4, <1>6, <2>4, JobStep
<1> QED BY <1>3, <1>5, <1>6

LEMMA OpenKeeps ==
  ASSUME EInv, NEW h \in Hosts, Open(h)
  PROVE  EInv'
<1> DEFINE j == job[h]
           status == IF j.purpose = "verify" /\ file # j.seen THEN "ERROR" ELSE j.status
           r == [j EXCEPT !.stage = "read", !.seen = file, !.status = status]
<1>1. /\ TypeOK /\ j \in Jobs /\ JobInv(j) /\ rev \in Nat /\ rev # NoRev
      /\ JobShape(j) /\ Tracks(j) /\ Judgement(j) /\ CloseTracks(j)
  BY HostFacts
<1>2. j.stage = "open" /\ UNCHANGED <<registryVars, fileVars, records, idents>>
  BY DEF Open
<1>3. Step(h, Unread(j, "FAIL")) \/ (file # NoFile /\ Step(h, r))
  BY DEF Open
<1>4. /\ r \in Jobs /\ r.stage = "read" /\ r.purpose = j.purpose /\ r.n = j.n /\ r.task = j.task
      /\ r.ident = j.ident /\ r.rev = j.rev /\ r.hash = j.hash /\ r.status = status
      /\ r.seen = file /\ r.from = j.from
  <2>1. file \in Inodes \cup {NoFile}
    BY <1>1, TypeFacts
  <2>2. status \in Statuses \cup {"none"}
    BY <1>1, JobParts DEF Statuses
  <2> HIDE DEF status
  <2> QED BY <1>1, <2>1, <2>2 DEF Jobs
<1>5. status \in {"ERROR", j.status} /\ (j.purpose = "bind" => status = j.status)
  OBVIOUS
<1> HIDE DEF j, r, status
<1>6. CASE Step(h, Unread(j, "FAIL"))
  <2>1. Unread(j, "FAIL") \in Jobs /\ JobInv(Unread(j, "FAIL"))
    BY <1>1, <1>2, UnreadKeeps DEF Reading, Statuses
  <2> QED BY <1>2, <1>6, <2>1, JobStep
<1>7. CASE file # NoFile /\ Step(h, r)
  <2>1. JobShape(r)
    BY <1>1, <1>2, <1>4, <1>5, <1>7 DEF JobShape, Reading
  <2>2. Tracks(r)
    BY <1>1, <1>2, <1>4, <1>5 DEF Tracks, SeesFile
  <2>3. Judgement(r) /\ CloseTracks(r) /\ ClosedSoundly(r)
    BY <1>1, <1>2, <1>4 DEF Judgement, CloseTracks, ClosedSoundly
  <2>4. JobInv(r)
    BY <2>1, <2>2, <2>3 DEF JobInv
  <2> QED BY <1>2, <1>4, <1>7, <2>4, JobStep
<1> QED BY <1>3, <1>6, <1>7

(* A handle that was opened at the present revision is of the present file. *)
LEMMA ReadKeeps ==
  ASSUME EInv, NEW h \in Hosts, Read(h)
  PROVE  EInv'
<1> DEFINE j == job[h]
           c == bytes[j.seen]
           stage == IF j.purpose = "bind" THEN "record" ELSE "decide"
           status == IF j.status = "ERROR" THEN "ERROR" ELSE Verdict(spec[j.n], c)
           r == [j EXCEPT !.hash = c, !.stage = stage]
<1>1. /\ TypeOK /\ j \in Jobs /\ JobInv(j) /\ rev \in Nat /\ rev # NoRev
      /\ JobShape(j) /\ Tracks(j) /\ Judgement(j) /\ CloseTracks(j)
  BY HostFacts
<1>2. j.stage = "read" /\ UNCHANGED <<registryVars, fileVars, records, idents>>
  BY DEF Read
<1>3. Step(h, IF j.purpose = "verify" THEN Judged(j, status) ELSE r)
  BY DEF Read
<1> HIDE DEF j
<1>4. c \in Contents /\ j.seen \in Inodes
  <2>1. j.seen \in Inodes
    BY <1>1, <1>2, JobParts DEF JobShape
  <2> QED BY <1>1, <2>1, TypeFacts
<1>5. j.rev = rev => Here = c
  BY <1>1, <1>2, <1>4 DEF Tracks, SeesFile, Here
<1> HIDE DEF c
<1>6. CASE j.purpose = "verify"
  <2>1. j.n \in Issued /\ j.n # NoSpec /\ spec[j.n] \in Specs
    BY <1>1, <1>2, <1>6, JobParts, TypeFacts DEF JobShape, Reading, NoSpec
  <2>2. status \in Statuses /\ (status = "PASS" => Passes(j.n, c))
    <3>1. Verdict(spec[j.n], c) \in Statuses
      BY <1>4, <2>1, CloseAssumption
    <3> QED BY <3>1 DEF Statuses, Passes
  <2>3. Step(h, Judged(j, status))
    BY <1>3, <1>6
  <2> HIDE DEF status
  <2>4. Worth(j, status)
    BY <1>1, <1>2, <1>5, <1>6, <2>1, <2>2 DEF Worth, JobShape, Judgement, Reading
  <2>5. Judged(j, status) \in Jobs /\ JobInv(Judged(j, status))
    BY <1>1, <2>2, <2>4, JudgedKeeps
  <2> QED BY <1>2, <2>3, <2>5, JobStep
<1>7. CASE j.purpose # "verify"
  <2>1. j.purpose \in {"bind", "fresh"}
    BY <1>1, <1>2, <1>7, JobParts DEF JobShape
  <2>2. stage \in {"record", "decide"} /\ (j.purpose = "bind" => stage = "record")
        /\ (j.purpose = "fresh" => stage = "decide")
    OBVIOUS
  <2>3. Step(h, r)
    BY <1>3, <1>7
  <2> HIDE DEF stage
  <2>4. /\ r \in Jobs /\ r.stage = stage /\ r.purpose = j.purpose /\ r.n = j.n /\ r.task = j.task
        /\ r.ident = j.ident /\ r.rev = j.rev /\ r.hash = c /\ r.status = j.status
        /\ r.seen = j.seen /\ r.from = j.from
    BY <1>1, <1>4, <2>2 DEF Jobs
  <2> HIDE DEF r
  <2>5. JobShape(r)
    BY <1>1, <1>2, <2>1, <2>2, <2>4 DEF JobShape, Reading
  <2>6. Tracks(r)
    BY <1>1, <1>2, <1>5, <2>1, <2>2, <2>4 DEF Tracks, SeesFile
  <2>7. Judgement(r) /\ CloseTracks(r) /\ ClosedSoundly(r)
    BY <1>1, <1>2, <2>2, <2>4 DEF Judgement, CloseTracks, ClosedSoundly
  <2>8. JobInv(r)
    BY <2>5, <2>6, <2>7 DEF JobInv
  <2> QED BY <1>2, <2>3, <2>4, <2>8, JobStep
<1> QED BY <1>6, <1>7

LEMMA RestingKeeps ==
  ASSUME TypeOK
  PROVE  Resting \in Jobs /\ JobInv(Resting) /\ Resting.n = NoSpec
<1>1. /\ Resting.stage = "rest" /\ Resting.purpose = "none" /\ Resting.n = NoSpec
      /\ Resting.task = "none" /\ Resting.ident = "none" /\ Resting.rev = NoRev
      /\ Resting.hash = NoHash /\ Resting.status = "none" /\ Resting.seen = NoFile
      /\ Resting.from = 0 /\ Resting.decision = [closable |-> FALSE, code |-> "none"]
  BY DEF Resting
<1>2. NoSpec \in 0 .. Len(spec) /\ 0 \in 0 .. Len(records)
  BY TypeFacts DEF NoSpec
<1>3. Resting \in Jobs
  <2> DEFINE d == [closable |-> FALSE, code |-> "none"]
  <2>1. d \in [closable : BOOLEAN, code : CloseCodes \cup {"none"}]
    OBVIOUS
  <2>2. Resting = [stage |-> "rest", purpose |-> "none", n |-> NoSpec, task |-> "none", ident |-> "none",
                   rev |-> NoRev, hash |-> NoHash, status |-> "none", seen |-> NoFile, from |-> 0,
                   decision |-> d]
    BY DEF Resting
  <2> HIDE DEF d
  <2> QED BY <1>2, <2>1, <2>2 DEF Jobs
<1>4. rev # NoRev
  BY TypeFacts
<1>5. JobInv(Resting)
  BY <1>1, <1>4 DEF JobInv, JobShape, Tracks, SeesFile, Judgement, CloseTracks, ClosedSoundly, Reading
<1> QED BY <1>1, <1>3, <1>5

Begun(r, t, ident, v, x) ==
  [r EXCEPT !.purpose = "verify", !.task = t, !.ident = ident, !.rev = v, !.hash = x]

LEMMA JobBegun ==
  ASSUME NEW r, r \in Jobs, NEW t \in Tasks, NEW ident \in {"hash", "path", "rev", "stray"},
         NEW v, v \in 0 .. rev \cup {NoRev}, NEW x, x \in Contents \cup {NoHash}
  PROVE  /\ Begun(r, t, ident, v, x) \in Jobs /\ Begun(r, t, ident, v, x).purpose = "verify"
         /\ Begun(r, t, ident, v, x).task = t /\ Begun(r, t, ident, v, x).ident = ident
         /\ Begun(r, t, ident, v, x).rev = v /\ Begun(r, t, ident, v, x).hash = x
         /\ Begun(r, t, ident, v, x).n = r.n
<1> DEFINE j == Begun(r, t, ident, v, x)
           Idents == {"none", "hash", "path", "rev", "stray"}
           Purposes == {"none", "verify", "bind", "fresh"}
<1>1. ident \in Idents /\ t \in Tasks \cup {"none"} /\ "verify" \in Purposes
  OBVIOUS
<1>2. r \in [stage : {"rest", "confine", "stat", "open", "read", "record", "decide", "decided"},
             purpose : Purposes, n : 0 .. Len(spec), task : Tasks \cup {"none"}, ident : Idents,
             rev : 0 .. rev \cup {NoRev}, hash : Contents \cup {NoHash},
             status : Statuses \cup {"none"}, seen : Inodes \cup {NoFile}, from : 0 .. Len(records),
             decision : [closable : BOOLEAN, code : CloseCodes \cup {"none"}]]
  BY DEF Jobs
<1> HIDE DEF Idents, Purposes
<1>3. j \in [stage : {"rest", "confine", "stat", "open", "read", "record", "decide", "decided"},
             purpose : Purposes, n : 0 .. Len(spec), task : Tasks \cup {"none"}, ident : Idents,
             rev : 0 .. rev \cup {NoRev}, hash : Contents \cup {NoHash},
             status : Statuses \cup {"none"}, seen : Inodes \cup {NoFile}, from : 0 .. Len(records),
             decision : [closable : BOOLEAN, code : CloseCodes \cup {"none"}]]
  BY <1>1, <1>2 DEF Begun
<1>4. j \in Jobs
  BY <1>3 DEF Jobs, Idents, Purposes
<1>5. j.purpose = "verify" /\ j.task = t /\ j.ident = ident /\ j.rev = v /\ j.hash = x /\ j.n = r.n
  BY <1>2 DEF Begun
<1> QED BY <1>4, <1>5

LEMMA StartKeeps ==
  ASSUME EInv, NEW h \in Hosts, NEW id, NEW t \in Tasks,
         NEW ident \in {"hash", "path", "rev", "stray"}, Start(h, id, t, ident)
  PROVE  EInv'
<1> DEFINE found == Holding(id)
           n == CHOOSE k \in found : TRUE
           seenRev == IF ident = "rev" THEN rev ELSE NoRev
           hash == IF ident = "hash" THEN Here ELSE NoHash
           j == Begun(Resting, t, ident, seenRev, hash)
           run == [j EXCEPT !.n = n]
           wait == [run EXCEPT !.stage = "confine"]
<1>1. TypeOK /\ rev \in Nat /\ rev # NoRev /\ Len(spec) \in Nat /\ Len(records) \in Nat
      /\ Here \in Contents \cup {NoHash}
  BY HostFacts, TypeFacts, Sees
<1>2. UNCHANGED <<registryVars, fileVars, records, idents>>
  BY DEF Start
<1>3. Step(h, IF found = {} THEN Judged(j, "UNAVAILABLE")
              ELSE IF Kind(spec[n]) # "inline" THEN wait
              ELSE Judged(run, Verdict(spec[n], Here)))
  BY DEF Start, Begun
<1>4. /\ seenRev \in 0 .. rev \cup {NoRev} /\ hash \in Contents \cup {NoHash}
      /\ (seenRev # NoRev => ident = "rev") /\ (ident # "hash" => hash = NoHash)
      /\ (ident = "hash" => hash = Here)
  BY <1>1
<1>5. found # {} => n \in Issued
  <2>1. found \subseteq Issued
    BY <1>1, RegistryFacts DEF Holding, TypeOK
  <2> QED BY <2>1
<1> HIDE DEF found, n, seenRev, hash
<1>6. /\ j \in Jobs /\ j.purpose = "verify" /\ j.task = t /\ j.ident = ident /\ j.rev = seenRev
      /\ j.hash = hash /\ j.n = NoSpec
  <2>1. Resting \in Jobs /\ Resting.n = NoSpec
    BY <1>1, RestingKeeps
  <2>2. /\ j \in Jobs /\ j.purpose = "verify" /\ j.task = t /\ j.ident = ident /\ j.rev = seenRev
        /\ j.hash = hash /\ j.n = Resting.n
    BY <1>4, <2>1, JobBegun
  <2> QED BY <2>1, <2>2
<1> HIDE DEF j
<1>7. CASE found = {}
  <2>1. Step(h, Judged(j, "UNAVAILABLE")) /\ "UNAVAILABLE" \in Statuses
    BY <1>3, <1>7 DEF Statuses
  <2>2. Worth(j, "UNAVAILABLE")
    BY <1>4, <1>6 DEF Worth
  <2>3. Judged(j, "UNAVAILABLE") \in Jobs /\ JobInv(Judged(j, "UNAVAILABLE"))
    BY <1>1, <1>6, <2>1, <2>2, JudgedKeeps
  <2> QED BY <1>2, <2>1, <2>3, JobStep
<1>8. found # {} => run \in Jobs /\ run.purpose = "verify" /\ run.task = t /\ run.ident = ident
                    /\ run.rev = seenRev /\ run.hash = hash /\ run.n = n /\ n # NoSpec
                    /\ spec[n] \in Specs
  <2> SUFFICES ASSUME found # {}
               PROVE  run \in Jobs /\ run.purpose = "verify" /\ run.task = t /\ run.ident = ident
                      /\ run.rev = seenRev /\ run.hash = hash /\ run.n = n /\ n # NoSpec
                      /\ spec[n] \in Specs
    OBVIOUS
  <2>1. n \in 0 .. Len(spec) /\ n # NoSpec /\ spec[n] \in Specs
    BY <1>1, <1>5, TypeFacts DEF NoSpec
  <2> QED BY <1>6, <2>1 DEF Jobs
<1> HIDE DEF run
<1>9. CASE found # {} /\ Kind(spec[n]) # "inline"
  <2>1. Step(h, wait)
    BY <1>3, <1>9
  <2>2. /\ wait \in Jobs /\ wait.stage = "confine" /\ wait.purpose = "verify" /\ wait.task = t
        /\ wait.ident = ident /\ wait.rev = seenRev /\ wait.hash = hash /\ wait.n = n
    BY <1>8, <1>9 DEF Jobs
  <2>3. ~(wait.status = "PASS" /\ wait.n = NoSpec)
    BY <1>8, <1>9, <2>2
  <2> HIDE DEF wait
  <2>4. JobShape(wait)
    BY <1>4, <1>8, <1>9, <2>2, <2>3 DEF JobShape, Reading
  <2>5. Tracks(wait)
    BY <2>2 DEF Tracks, SeesFile
  <2>6. Judgement(wait) /\ CloseTracks(wait) /\ ClosedSoundly(wait)
    BY <1>9, <2>2 DEF Judgement, CloseTracks, ClosedSoundly
  <2>7. JobInv(wait)
    BY <2>4, <2>5, <2>6 DEF JobInv
  <2> QED BY <1>2, <2>1, <2>2, <2>7, JobStep
<1>10. CASE found # {} /\ Kind(spec[n]) = "inline"
  <2> DEFINE status == Verdict(spec[n], Here)
  <2>1. status \in Statuses
    BY <1>1, <1>8, <1>10, CloseAssumption
  <2>2. Step(h, Judged(run, status))
    BY <1>3, <1>10
  <2>3. Worth(run, status)
    BY <1>4, <1>8, <1>10 DEF Worth, Passes
  <2>4. Judged(run, status) \in Jobs /\ JobInv(Judged(run, status))
    BY <1>1, <1>8, <1>10, <2>1, <2>3, JudgedKeeps
  <2> QED BY <1>2, <2>2, <2>4, JobStep
<1> QED BY <1>7, <1>9, <1>10

CloseBegun(t, e, ident, v) ==
  [Resting EXCEPT !.stage = "confine", !.purpose = "fresh", !.task = t, !.from = e,
                  !.ident = ident, !.rev = v]

LEMMA CloseIsAJob ==
  ASSUME TypeOK, NEW t \in Tasks, NEW e \in 0 .. Len(records),
         NEW ident \in {"path", "rev", "stray"}, NEW v, v \in 0 .. rev \cup {NoRev}
  PROVE  /\ CloseBegun(t, e, ident, v) \in Jobs /\ CloseBegun(t, e, ident, v).stage = "confine"
         /\ CloseBegun(t, e, ident, v).purpose = "fresh" /\ CloseBegun(t, e, ident, v).task = t
         /\ CloseBegun(t, e, ident, v).from = e /\ CloseBegun(t, e, ident, v).ident = ident
         /\ CloseBegun(t, e, ident, v).rev = v /\ CloseBegun(t, e, ident, v).n = NoSpec
         /\ CloseBegun(t, e, ident, v).hash = NoHash /\ CloseBegun(t, e, ident, v).status = "none"
<1> DEFINE j == CloseBegun(t, e, ident, v)
           Idents == {"none", "hash", "path", "rev", "stray"}
           Purposes == {"none", "verify", "bind", "fresh"}
           Stages == {"rest", "confine", "stat", "open", "read", "record", "decide", "decided"}
           Sets == [stage : Stages, purpose : Purposes, n : 0 .. Len(spec), task : Tasks \cup {"none"},
                    ident : Idents, rev : 0 .. rev \cup {NoRev}, hash : Contents \cup {NoHash},
                    status : Statuses \cup {"none"}, seen : Inodes \cup {NoFile}, from : 0 .. Len(records),
                    decision : [closable : BOOLEAN, code : CloseCodes \cup {"none"}]]
<1>1. ident \in Idents /\ t \in Tasks \cup {"none"} /\ "fresh" \in Purposes /\ "confine" \in Stages
  OBVIOUS
<1>2. Resting \in Sets
  BY RestingKeeps DEF Jobs
<1>3. Resting.n = NoSpec /\ Resting.hash = NoHash /\ Resting.status = "none"
  BY DEF Resting
<1> HIDE DEF Idents, Purposes, Stages
<1>4. j \in Sets
  BY <1>1, <1>2 DEF CloseBegun
<1>5. j \in Jobs
  BY <1>4 DEF Jobs, Idents, Purposes, Stages
<1>6. /\ j.stage = "confine" /\ j.purpose = "fresh" /\ j.task = t /\ j.from = e
      /\ j.ident = ident /\ j.rev = v /\ j.n = NoSpec /\ j.hash = NoHash /\ j.status = "none"
  BY <1>2, <1>3 DEF CloseBegun
<1> QED BY <1>5, <1>6

(* The record a close is begun on was sound at the revision the host noted. *)
LEMMA BeginCloseKeeps ==
  ASSUME EInv, NEW h \in Hosts, NEW t \in Tasks, NEW e \in 0 .. MaxRecords,
         NEW ident \in {"path", "rev", "stray"}, BeginClose(h, t, e, ident)
  PROVE  EInv'
<1> DEFINE v == IF ident = "rev" THEN rev ELSE NoRev
           j == CloseBegun(t, e, ident, v)
<1>1. /\ TypeOK /\ RecordsInv /\ rev \in Nat /\ rev # NoRev /\ Len(records) \in Nat
      /\ DOMAIN records = 1 .. Len(records)
  BY HostFacts, TypeFacts
<1>2. UNCHANGED <<registryVars, fileVars, records, idents>> /\ e \in {0} \cup DOMAIN records
  BY DEF BeginClose
<1>3. Step(h, j)
  BY DEF BeginClose, CloseBegun
<1>4. /\ v \in 0 .. rev \cup {NoRev} /\ (v # NoRev => ident = "rev" /\ v = rev)
      /\ e \in 0 .. Len(records)
  BY <1>1, <1>2
<1> HIDE DEF v
<1>5. /\ j \in Jobs /\ j.stage = "confine" /\ j.purpose = "fresh" /\ j.task = t /\ j.from = e
      /\ j.ident = ident /\ j.rev = v /\ j.n = NoSpec /\ j.hash = NoHash /\ j.status = "none"
  BY <1>1, <1>4, CloseIsAJob
<1> HIDE DEF j
<1>6. JobShape(j)
  BY <1>4, <1>5 DEF JobShape, Reading
<1>7. Tracks(j) /\ Judgement(j) /\ ClosedSoundly(j)
  BY <1>5 DEF Tracks, SeesFile, Judgement, ClosedSoundly
<1>8. CloseTracks(j)
  <2> SUFFICES ASSUME e # 0, records[e].status = "PASS", records[e].rev # NoRev, records[e].rev = v
               PROVE  Passes(records[e].validator, records[e].hash)
    BY <1>5 DEF CloseTracks
  <2>1. e \in DOMAIN records /\ records[e].rev = rev
    BY <1>2, <1>4
  <2> QED BY <1>1, <2>1 DEF RecordsInv, RecordSound
<1>9. JobInv(j)
  BY <1>6, <1>7, <1>8 DEF JobInv
<1> QED BY <1>2, <1>3, <1>5, <1>9, JobStep

LEMMA GateAnswers ==
  ASSUME NEW e, NEW cur, NEW label
  PROVE  /\ CanCloseTask(TRUE, "HIGH", label, e, cur) \in [closable : BOOLEAN, code : CloseCodes]
         /\ e # NoEvidence /\ CanCloseTask(TRUE, "HIGH", label, e, cur).closable =>
              /\ e.status = "PASS" /\ cur.hash # NoHash /\ e.hash = cur.hash
              /\ e.rev # NoRev /\ cur.rev # NoRev => e.rev = cur.rev
<1>1. CanCloseTask(TRUE, "HIGH", label, e, cur) \in [closable : BOOLEAN, code : CloseCodes]
  BY DEF CanCloseTask, CloseOnStatus, CloseCodes
<1>2. ASSUME e # NoEvidence, CanCloseTask(TRUE, "HIGH", label, e, cur).closable
      PROVE  /\ e.status = "PASS" /\ cur.hash # NoHash /\ e.hash = cur.hash
             /\ e.rev # NoRev /\ cur.rev # NoRev => e.rev = cur.rev
  BY <1>2 DEF CanCloseTask, Covers
<1> QED BY <1>1, <1>2

LEMMA RecordsAreRecords ==
  ASSUME TypeOK, NEW i \in DOMAIN records
  PROVE  records[i] # NoEvidence
<1>1. records[i] \in Records /\ rev \in 0 .. MaxWrites /\ Len(spec) \in Nat /\ Len(spec) <= MaxRegistrations
  BY TypeFacts DEF TypeOK, RegistryTypeOK
<1>2. records[i] \in [task : Tasks, validator : 0 .. MaxRegistrations, status : Statuses,
                      hash : Contents \cup {NoHash}, rev : 0 .. MaxWrites \cup {NoRev},
                      formed : BOOLEAN, reasoned : BOOLEAN, known : BOOLEAN, timed : BOOLEAN]
  <2>1. 0 .. rev \subseteq 0 .. MaxWrites /\ 0 .. Len(spec) \subseteq 0 .. MaxRegistrations
    BY <1>1, CloseAssumption, RegistryAssumption
  <2> QED BY <1>1, <2>1 DEF Records
<1> QED BY <1>2, VerdictAssumption

LEMMA DecideKeeps ==
  ASSUME EInv, NEW h \in Hosts, NEW label, Decide(h, label)
  PROVE  EInv'
<1> DEFINE j == job[h]
           d == CanCloseTask(TRUE, "HIGH", label, Chosen(j), Current(j.hash, j.rev))
           r == [j EXCEPT !.stage = "decided", !.decision = d]
<1>1. /\ TypeOK /\ j \in Jobs /\ JobInv(j) /\ rev \in Nat /\ rev # NoRev
      /\ JobShape(j) /\ Tracks(j) /\ Judgement(j) /\ CloseTracks(j)
  BY HostFacts
<1>2. j.stage = "decide" /\ UNCHANGED <<registryVars, fileVars, records, idents>> /\ Step(h, r)
  BY DEF Decide
<1>3. j.from # 0 => j.from \in DOMAIN records /\ Chosen(j) = records[j.from] /\ Chosen(j) # NoEvidence
  <2>1. j.from \in 0 .. Len(records) /\ Len(records) \in Nat /\ DOMAIN records = 1 .. Len(records)
    BY <1>1, JobParts, TypeFacts
  <2>2. j.from # 0 => j.from \in DOMAIN records
    BY <2>1
  <2> QED BY <1>1, <2>2, RecordsAreRecords DEF Chosen
<1>4. d \in [closable : BOOLEAN, code : CloseCodes \cup {"none"}]
  <2>1. d \in [closable : BOOLEAN, code : CloseCodes]
    BY GateAnswers
  <2> HIDE DEF d
  <2> QED BY <2>1
<1>5. j.from # 0 /\ d.closable =>
        /\ records[j.from].status = "PASS" /\ j.hash # NoHash /\ records[j.from].hash = j.hash
        /\ records[j.from].rev # NoRev /\ j.rev # NoRev => records[j.from].rev = j.rev
  BY <1>3, GateAnswers DEF Current
<1> HIDE DEF j, d
<1>6. /\ r \in Jobs /\ r.stage = "decided" /\ r.purpose = j.purpose /\ r.n = j.n /\ r.task = j.task
      /\ r.ident = j.ident /\ r.rev = j.rev /\ r.hash = j.hash /\ r.status = j.status
      /\ r.seen = j.seen /\ r.from = j.from /\ r.decision = d
  BY <1>1, <1>4 DEF Jobs
<1> HIDE DEF r
<1>7. JobShape(r)
  BY <1>1, <1>2, <1>6 DEF JobShape, Reading
<1>8. Tracks(r) /\ Judgement(r) /\ CloseTracks(r)
  BY <1>1, <1>2, <1>6 DEF Tracks, SeesFile, Judgement, CloseTracks, JobShape
<1>9. ClosedSoundly(r)
  BY <1>5, <1>6 DEF ClosedSoundly
<1>10. JobInv(r)
  BY <1>7, <1>8, <1>9 DEF JobInv
<1> QED BY <1>2, <1>6, <1>10, JobStep

LEMMA RestKeeps ==
  ASSUME EInv, NEW h \in Hosts, Rest(h)
  PROVE  EInv'
BY HostFacts, RestingKeeps, JobStep DEF Rest

(* recordEvidence() keeps a PASS only with the hash of what was judged. *)
LEMMA RecordKeeps ==
  ASSUME EInv, NEW h \in Hosts, NEW input, Record(h, input)
  PROVE  EInv'
<1> DEFINE j == job[h]
           e == Evidence(j.task, j.n, j.status, j.hash, j.rev)
           k == Len(records) + 1
           Idents == {"hash", "path", "rev", "stray"}
<1>1. /\ TypeOK /\ RecordsInv /\ j \in Jobs /\ JobInv(j) /\ rev \in Nat /\ rev # NoRev
      /\ JobShape(j) /\ Tracks(j) /\ Judgement(j)
  BY HostFacts
<1>2. /\ j.stage = "record" /\ Step(h, Resting) /\ UNCHANGED <<registryVars, fileVars>>
      /\ \/ UNCHANGED <<records, idents>>
         \/ /\ Recordable(j.status, j.hash)
            /\ records' = Append(records, e) /\ idents' = Append(idents, j.ident)
  BY DEF Record, Recorded
<1>3. CASE UNCHANGED <<records, idents>>
  BY <1>1, <1>2, <1>3, RestingKeeps, JobStep
<1>4. CASE /\ Recordable(j.status, j.hash)
           /\ records' = Append(records, e) /\ idents' = Append(idents, j.ident)
  <2> HIDE DEF j
  <2>1. /\ Len(spec) \in Nat /\ Len(records) \in Nat /\ DOMAIN records = 1 .. Len(records)
        /\ records \in Seq(Records) /\ job \in [Hosts -> Jobs]
        /\ UNCHANGED <<spec, Issued, rev, link, file, bytes>>
    BY <1>1, <1>2, TypeFacts DEF registryVars, fileVars, Issued
  <2>2. e \in Records /\ j.ident \in Idents
    <3>1. j.task \in Tasks /\ j.status \in Statuses /\ j.ident \in Idents
      BY <1>1, <1>2, JobParts DEF JobShape
    <3> QED BY <1>1, <3>1, JobParts DEF Records, Evidence
  <2>3. /\ e.status = j.status /\ e.hash = j.hash /\ e.rev = j.rev /\ e.validator = j.n
    BY DEF Evidence
  <2> HIDE DEF e
  <2>4. /\ records' \in Seq(Records) /\ Len(records') = k /\ DOMAIN records' = 1 .. k
        /\ \A i \in DOMAIN records : records'[i] = records[i]
        /\ records'[k] = e
    BY <1>4, <2>1, <2>2, NextSeq
  <2>5. /\ idents' \in [1 .. k -> Idents] /\ idents'[k] = j.ident
        /\ \A i \in DOMAIN records : idents'[i] = idents[i]
    <3>1. idents \in [1 .. Len(records) -> Idents]
      BY <1>1, <2>1 DEF TypeOK
    <3>2. idents \in Seq(Idents)
      BY <2>1, <3>1, SeqDef
    <3>3. Len(idents) = Len(records)
      BY <2>1, <3>1, <3>2, LenProperties
    <3>4. /\ idents' \in Seq(Idents) /\ Len(idents') = k /\ idents'[k] = j.ident
          /\ \A i \in 1 .. Len(records) : idents'[i] = idents[i]
      BY <1>4, <2>2, <3>2, <3>3, NextSeq
    <3>5. idents' \in [1 .. k -> Idents]
      BY <3>4
    <3> QED BY <2>1, <3>4, <3>5
  <2>6. Grows /\ Len(spec') \in Nat /\ Len(records') \in Nat
    BY <2>1, <2>4, <2>5 DEF Grows, fileVars
  <2>7. Jobs \subseteq Jobs' /\ Records \subseteq Records'
    BY <1>1, <2>6, GrownTypes
  <2>8. RInv'
    BY <1>2, RegistryStutters DEF EInv
  <2>9. Resting \in Jobs /\ JobInv(Resting) /\ job' = [job EXCEPT ![h] = Resting]
    BY <1>1, <1>2, RestingKeeps DEF Step
  <2>10. TypeOK'
    <3>1. job' \in [Hosts -> Jobs']
      BY <2>1, <2>7, <2>9
    <3>2. records' \in Seq(Records')
      BY <2>4, <2>7, SeqMonotonic
    <3>3. RegistryTypeOK'
      BY <2>8 DEF RInv
    <3> QED BY <1>1, <2>1, <2>4, <2>5, <3>1, <3>2, <3>3 DEF TypeOK
  <2>11. JobsInv'
    <3>1. ASSUME NEW g \in Hosts, NEW i, i = job'[g] PROVE JobInv(i)'
      <4>1. i \in Jobs /\ JobInv(i)
        BY <2>1, <2>9, <3>1 DEF EInv, JobsInv
      <4> QED BY <1>1, <2>6, <4>1, JobGrown
    <3> QED BY <3>1 DEF JobsInv
  <2>12. RecordsInv'
    <3>1. \A i \in DOMAIN records : RecordSound(i)'
      BY <1>1, <2>6, RecordGrown
    <3>2. /\ j.status = "PASS" => j.n # NoSpec /\ j.hash # NoHash
          /\ j.status = "PASS" /\ (j.rev = rev \/ (j.ident = "hash" /\ Kind(spec[j.n]) = "inline"))
               => Verdict(spec[j.n], j.hash) = "PASS"
      <4>1. j.status = "PASS" => j.n # NoSpec /\ j.hash # NoHash
        BY <1>1, <1>4 DEF JobShape, Recordable
      <4>2. ASSUME j.status = "PASS", j.rev = rev
            PROVE  Verdict(spec[j.n], j.hash) = "PASS"
        <5>1. j.purpose = "bind"
          BY <1>1, <1>2, <4>2 DEF JobShape
        <5>2. j.hash = Here /\ Here # NoHash
          BY <1>1, <1>2, <4>1, <4>2, <5>1 DEF Tracks
        <5> QED BY <1>1, <4>2, <5>1, <5>2 DEF Tracks, Passes
      <4>3. ASSUME j.status = "PASS", j.ident = "hash", Kind(spec[j.n]) = "inline"
            PROVE  Verdict(spec[j.n], j.hash) = "PASS"
        BY <1>1, <4>1, <4>3 DEF Judgement
      <4> QED BY <4>1, <4>2, <4>3
    <3>3. ASSUME NEW i, i = k PROVE RecordSound(i)'
      BY <2>1, <2>3, <2>4, <2>5, <3>2, <3>3 DEF RecordSound, Passes
    <3>4. \A i \in DOMAIN records' : i \in DOMAIN records \/ i = k
      BY <2>1, <2>4
    <3> QED BY <3>1, <3>3, <3>4 DEF RecordsInv
  <2> QED BY <2>8, <2>10, <2>11, <2>12 DEF EInv
<1> QED BY <1>2, <1>3, <1>4

-----------------------------------------------------------------------------
(* What others do to the file, and what happens in the registry. *)
LEMMA OthersKeep ==
  ASSUME EInv, Others
  PROVE  EInv'
<1>1. /\ TypeOK /\ RecordsInv /\ job \in [Hosts -> Jobs] /\ Len(spec) \in Nat /\ Len(records) \in Nat
      /\ rev \in Nat
  BY TypeFacts DEF EInv
<1>2. /\ UNCHANGED <<registryVars, records, idents, job>> /\ UNCHANGED <<spec, Issued>>
      /\ rev' = rev + 1 /\ rev < MaxWrites
      /\ link' \in {"in", "out", "loop"} /\ file' \in Inodes \cup {NoFile}
      /\ bytes' \in [Inodes -> Contents]
  BY <1>1 DEF Others, Rewrite, Rename, Relink, TypeOK, registryVars, Issued
<1>3. Grows
  BY <1>1, <1>2 DEF Grows
<1>4. Jobs \subseteq Jobs' /\ Records \subseteq Records'
  BY <1>1, <1>2, <1>3, GrownTypes
<1>5. RInv'
  BY <1>2, RegistryStutters DEF EInv
<1>6. TypeOK'
  <2>1. job' \in [Hosts -> Jobs']
    BY <1>1, <1>2, <1>4
  <2>2. records' \in Seq(Records')
    BY <1>1, <1>2, <1>4, SeqMonotonic, TypeFacts
  <2>3. rev' \in 0 .. MaxWrites
    BY <1>1, <1>2, CloseAssumption
  <2> QED BY <1>1, <1>2, <1>5, <2>1, <2>2, <2>3 DEF RInv, TypeOK
<1>7. JobsInv'
  <2>1. ASSUME NEW g \in Hosts, NEW i, i = job'[g] PROVE JobInv(i)'
    <3>1. i \in Jobs /\ JobInv(i)
      BY <1>1, <1>2, <2>1 DEF EInv, JobsInv
    <3> QED BY <1>1, <1>3, <3>1, JobGrown
  <2> QED BY <2>1 DEF JobsInv
<1>8. RecordsInv'
  BY <1>1, <1>2, <1>3, RecordGrown DEF RecordsInv
<1> QED BY <1>5, <1>6, <1>7, <1>8 DEF EInv

LEMMA RegistryKeeps ==
  ASSUME EInv, RegistryNext, UNCHANGED <<fileVars, records, idents, job>>
  PROVE  EInv'
<1>1. /\ TypeOK /\ RecordsInv /\ job \in [Hosts -> Jobs] /\ Len(spec) \in Nat /\ Len(records) \in Nat
      /\ spec \in Seq(Specs) /\ Issued = 1 .. Len(spec)
  BY TypeFacts DEF EInv, TypeOK, RegistryTypeOK
<1>2. spec' = spec \/ \E s \in Specs : spec' = Append(spec, s)
  BY DEF RegistryNext, Register, Dispose, SweepBegin, SweepNext
<1>3. /\ Len(spec') \in Nat /\ Len(spec) <= Len(spec')
      /\ \A n \in Issued : spec'[n] = spec[n]
  BY <1>1, <1>2, NextSeq
<1>4. Grows
  BY <1>1, <1>3 DEF Grows
<1>5. Jobs \subseteq Jobs' /\ Records \subseteq Records'
  BY <1>1, <1>3, <1>4, GrownTypes
<1>6. RInv'
  BY RegistrySteps DEF EInv
<1>7. TypeOK'
  <2>1. job' \in [Hosts -> Jobs']
    BY <1>1, <1>5
  <2>2. records' \in Seq(Records')
    BY <1>1, <1>5, SeqMonotonic, TypeFacts
  <2> QED BY <1>1, <1>6, <2>1, <2>2 DEF RInv, TypeOK, fileVars
<1>8. JobsInv'
  <2>1. ASSUME NEW g \in Hosts, NEW i, i = job'[g] PROVE JobInv(i)'
    <3>1. i \in Jobs /\ JobInv(i)
      BY <1>1, <2>1 DEF EInv, JobsInv
    <3> QED BY <1>1, <1>4, <3>1, JobGrown
  <2> QED BY <2>1 DEF JobsInv
<1>9. RecordsInv'
  BY <1>1, <1>4, RecordGrown DEF RecordsInv
<1> QED BY <1>6, <1>7, <1>8, <1>9 DEF EInv

LEMMA Starts == Init => EInv
<1> SUFFICES ASSUME Init PROVE EInv
  OBVIOUS
<1>1. RInv
  BY RegistryStarts DEF Init
<1>2. /\ link = "in" /\ file \in Inodes /\ bytes \in [Inodes -> Contents] /\ rev = 0
      /\ records = <<>> /\ idents = <<>> /\ job = [h \in Hosts |-> Resting]
      /\ DOMAIN records = {} /\ Len(records) = 0
  BY EmptySeq DEF Init
<1>3. Resting \in Jobs
  <2> DEFINE d == [closable |-> FALSE, code |-> "none"]
  <2>1. d \in [closable : BOOLEAN, code : CloseCodes \cup {"none"}]
    OBVIOUS
  <2>2. Resting = [stage |-> "rest", purpose |-> "none", n |-> NoSpec, task |-> "none", ident |-> "none",
                   rev |-> NoRev, hash |-> NoHash, status |-> "none", seen |-> NoFile, from |-> 0,
                   decision |-> d]
    BY DEF Resting
  <2>3. NoSpec \in 0 .. Len(spec) /\ 0 \in 0 .. Len(records)
    BY <1>1, <1>2, RegistryFacts DEF RInv, NoSpec
  <2> HIDE DEF d
  <2> QED BY <2>1, <2>2, <2>3 DEF Jobs
<1>4. TypeOK
  <2>1. records \in Seq(Records) /\ idents \in [DOMAIN records -> {"hash", "path", "rev", "stray"}]
    BY <1>2, EmptySeq
  <2>2. rev \in 0 .. MaxWrites /\ job \in [Hosts -> Jobs]
    BY <1>2, <1>3, CloseAssumption
  <2> QED BY <1>1, <1>2, <2>1, <2>2 DEF RInv, TypeOK
<1>5. JobsInv
  BY <1>2, <1>4, RestingKeeps DEF JobsInv
<1>6. RecordsInv
  BY <1>2 DEF RecordsInv
<1> QED BY <1>1, <1>4, <1>5, <1>6 DEF EInv

LEMMA EvidenceSteps == EInv /\ [Next]_vars => EInv'
<1> SUFFICES ASSUME EInv, [Next]_vars PROVE EInv'
  OBVIOUS
<1>1. CASE Others
  BY <1>1, OthersKeep
<1>2. CASE RegistryNext /\ UNCHANGED <<fileVars, records, idents, job>>
  BY <1>2, RegistryKeeps
<1>3. ASSUME NEW h \in Hosts,
             \/ \E id \in {IdOf(s) : s \in Specs}, t \in Tasks, ident \in {"hash", "path", "rev", "stray"} :
                  Start(h, id, t, ident)
             \/ Confine(h) \/ Stat(h) \/ Open(h) \/ Read(h)
      PROVE  EInv'
  BY <1>3, StartKeeps, ConfineKeeps, StatKeeps, OpenKeeps, ReadKeeps
<1>4. ASSUME NEW h \in Hosts,
             \/ \E input \in Inputs : Record(h, input)
             \/ \E t \in Tasks, e \in 0..MaxRecords, ident \in {"path", "rev", "stray"} :
                  BeginClose(h, t, e, ident)
             \/ \E label \in Statuses \cup {"none"} : Decide(h, label)
             \/ Rest(h)
      PROVE  EInv'
  BY <1>4, RecordKeeps, BeginCloseKeeps, DecideKeeps, RestKeeps
<1>5. CASE UNCHANGED vars
  <2>1. RInv'
    BY <1>5, RegistryStutters DEF EInv, vars
  <2>2. UNCHANGED <<registryVars, link, file, bytes, rev, records, idents, job>>
        /\ UNCHANGED <<registry, spec, uses, sweep>>
    BY <1>5 DEF vars, fileVars, registryVars
  <2>3. TypeOK'
    BY <2>1, <2>2 DEF RInv, EInv, TypeOK, Jobs, Records, Issued
  <2>4. Grows
    BY <2>2, TypeFacts DEF EInv, Grows, fileVars
  <2>5. JobsInv'
    <3>1. ASSUME NEW g \in Hosts, NEW i, i = job'[g] PROVE JobInv(i)'
      <4>1. i \in Jobs /\ JobInv(i)
        BY <2>2, <3>1, TypeFacts DEF EInv, JobsInv
      <4> QED BY <2>4, <4>1, JobGrown DEF EInv
    <3> QED BY <3>1 DEF JobsInv
  <2>6. RecordsInv'
    BY <2>2, <2>4, RecordGrown DEF RecordsInv, EInv
  <2> QED BY <2>1, <2>3, <2>5, <2>6 DEF EInv
<1> QED BY <1>1, <1>2, <1>3, <1>4, <1>5 DEF Next

(* Every verdict, record and close is accounted for by the revision and the *)
(* hash it was made at, whoever rewrites the file meanwhile.                *)
THEOREM EvidenceInvariant == Spec => []EInv
BY Starts, EvidenceSteps, PTL DEF Spec

THEOREM EvidenceTypes == Spec => []TypeOK
<1>1. EInv => TypeOK
  BY DEF EInv
<1> QED BY <1>1, EvidenceInvariant, PTL

LEMMA ClosesAreVerified == EInv => ClosedOnVerifiedBytes
<1> SUFFICES ASSUME EInv, NEW h \in Hosts, job[h].stage = "decided", job[h].decision.closable,
                    job[h].from # 0
             PROVE  /\ records[job[h].from].status = "PASS" /\ records[job[h].from].validator # NoSpec
                    /\ records[job[h].from].hash = job[h].hash /\ job[h].hash # NoHash
                    /\ Pinned(job[h]) => Verdict(spec[records[job[h].from].validator], job[h].hash) = "PASS"
  BY DEF ClosedOnVerifiedBytes
<1> DEFINE j == job[h]
           e == records[j.from]
<1>1. /\ JobShape(j) /\ CloseTracks(j) /\ ClosedSoundly(j) /\ RecordsInv /\ j \in Jobs /\ TypeOK
  BY HostFacts DEF JobInv
<1>2. j.from \in DOMAIN records
  BY <1>1, JobParts, TypeFacts
<1> HIDE DEF j
<1>3. /\ e.status = "PASS" /\ e.hash = j.hash /\ j.hash # NoHash
      /\ e.rev # NoRev /\ j.rev # NoRev => e.rev = j.rev
  BY <1>1 DEF ClosedSoundly, j
<1>4. /\ e.validator # NoSpec
      /\ idents[j.from] = "hash" /\ Kind(spec[e.validator]) = "inline" => Passes(e.validator, e.hash)
  BY <1>1, <1>2, <1>3 DEF RecordsInv, RecordSound
<1>5. e.rev # NoRev /\ e.rev = j.rev => Passes(e.validator, e.hash)
  BY <1>1, <1>3 DEF CloseTracks, JobShape, j
<1>6. Pinned(j) => Verdict(spec[e.validator], j.hash) = "PASS"
  BY <1>3, <1>4, <1>5 DEF Pinned, Passes
<1> QED BY <1>3, <1>4, <1>6 DEF j

(* A task closes on a record only if it is a PASS, of a validator that was  *)
(* found, for the very hash the host just took, and, where revision or      *)
(* subject pin the bytes, the validator does pass those bytes.              *)
THEOREM ClosesOnVerifiedBytes == Spec => []ClosedOnVerifiedBytes
BY EvidenceInvariant, ClosesAreVerified, PTL

LEMMA GatesAgreeOnRecords == TypeOK => GatesAgree
<1> SUFFICES ASSUME TypeOK, NEW i \in DOMAIN records, NEW e \in Damaged(records[i]),
                    NEW x \in Contents, NEW r \in 0 .. MaxWrites \cup {NoRev}
             PROVE  LET v == EvaluateEvidenceForClose(e, Current(x, r))
                        g == CanCloseTask(TRUE, "HIGH", "none", e, Current(x, r))
                    IN  /\ v.ok /\ e.reasoned => g.closable
                        /\ g.closable /\ e.known /\ e.timed => v.ok
                        /\ e.formed /\ e.reasoned /\ e.known /\ e.timed /\ e.hash # NoHash =>
                              SameReason(v.code, g.code)
  BY DEF GatesAgree
<1> DEFINE cur == Current(x, r)
           v == EvaluateEvidenceForClose(e, cur)
           g == CanCloseTask(TRUE, "HIGH", "none", e, cur)
<1>0. PICK f \in BOOLEAN, p \in BOOLEAN, k \in BOOLEAN, t \in BOOLEAN, y \in {records[i].hash, NoHash} :
        e = Copy(records[i], f, p, k, t, y)
  BY DEF Damaged
<1>1. /\ e.formed \in BOOLEAN /\ e.reasoned \in BOOLEAN /\ e.known \in BOOLEAN /\ e.timed \in BOOLEAN
      /\ e.status \in Statuses /\ e # NoEvidence
  <2>1. records[i] \in Records /\ rev \in 0 .. MaxWrites /\ Len(spec) \in Nat /\ Len(spec) <= MaxRegistrations
    BY TypeFacts DEF TypeOK, RegistryTypeOK
  <2>2. y \in Contents \cup {NoHash}
    BY <2>1, RecordParts
  <2>3. 0 .. rev \subseteq 0 .. MaxWrites /\ 0 .. Len(spec) \subseteq 0 .. MaxRegistrations
    BY <2>1, CloseAssumption, RegistryAssumption
  <2>4. e \in [task : Tasks, validator : 0 .. MaxRegistrations, status : Statuses,
               hash : Contents \cup {NoHash}, rev : 0 .. MaxWrites \cup {NoRev},
               formed : BOOLEAN, reasoned : BOOLEAN, known : BOOLEAN, timed : BOOLEAN]
    BY <1>0, <2>1, <2>2, <2>3 DEF Records, Copy
  <2> QED BY <2>4, VerdictAssumption
<1>2. cur.hash = x /\ x # NoHash
  BY CloseAssumption DEF Current
<1> HIDE DEF cur
<1>3. v.ok /\ e.reasoned => g.closable
  BY <1>1, <1>2 DEF EvaluateEvidenceForClose, CanCloseTask, ValidateCloseEvidenceRecord, Stale, Covers
<1>4. g.closable /\ e.known /\ e.timed => v.ok
  BY <1>1, <1>2 DEF EvaluateEvidenceForClose, CanCloseTask, ValidateCloseEvidenceRecord, Stale, Covers
<1>5. e.formed /\ e.reasoned /\ e.known /\ e.timed /\ e.hash # NoHash => SameReason(v.code, g.code)
  BY <1>1, <1>2 DEF EvaluateEvidenceForClose, CanCloseTask, ValidateCloseEvidenceRecord, Stale, Covers, SameReason
<1> QED BY <1>3, <1>4, <1>5 DEF cur

(* The verifier's gate and the workflow policy's, each with its own code,    *)
(* agree on every record there is and on every damaged copy of one, up to    *)
(* the three fields that only one of them looks at.                          *)
THEOREM TheGatesAgree == Spec => []GatesAgree
BY EvidenceTypes, GatesAgreeOnRecords, PTL
===============================================================================
