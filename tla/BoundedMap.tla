------------------------------ MODULE BoundedMap ------------------------------
(***************************************************************************)
(* The bounded, insertion-ordered maps and sets the plugins keep their     *)
(* state in (JavaScript Map and Set with a size check before an insert).   *)
(* A map is the sequence of its keys, oldest first; what it holds for them *)
(* is the business of the module that uses it.                             *)
(***************************************************************************)
EXTENDS Integers, SequencesExt

(* The keys that inserting k into a map bounded by `bound` pushes out. *)
Evicts(s, k, bound) ==
  IF k \in ToSet(s) \/ Len(s) < bound THEN {} ELSE {Head(s)}

(* Map.set / Set.add after the size check: a key already there keeps its    *)
(* place, a new one goes last and the oldest leaves when the map is full.   *)
Insert(s, k, bound) ==
  IF k \in ToSet(s) THEN s
  ELSE Append(IF Len(s) < bound THEN s ELSE Tail(s), k)

(* Map.delete / Set.delete of every key of gone: the others close up, in     *)
(* their order.                                                             *)
Staying(s, gone) == {i \in DOMAIN s : s[i] \notin gone}

PlaceAmong(stay, i) == Cardinality({j \in stay : j <= i})

DeleteAll(s, gone) ==
  [n \in 1 .. Cardinality(Staying(s, gone)) |->
     s[CHOOSE i \in Staying(s, gone) : PlaceAmong(Staying(s, gone), i) = n]]

Delete(s, k) == DeleteAll(s, {k})

(* What every such map keeps true: no key twice, no more keys than allowed. *)
IsBoundedMap(s, bound) == Len(s) <= bound /\ IsInjective(s)
===============================================================================
