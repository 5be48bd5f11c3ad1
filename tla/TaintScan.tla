------------------------------- MODULE TaintScan -------------------------------
(***************************************************************************)
(* The bounded walks of a tool call's arguments: the scans for hidden      *)
(* Unicode by class and for long runs of hex or base64 digits, and the     *)
(* signature a denied call is remembered under.  For a scan a value is a   *)
(* string with its taint, an array of values or an object; keys are not    *)
(* looked at, and neither is what lies beyond a bound.                     *)
(*                                                                         *)
(* A string is [t |-> "string", marks, hex, base64]: a set of tainted      *)
(* classes and the lengths of its longest runs.                            *)
(***************************************************************************)
EXTENDS Integers, Sequences, FiniteSets, SequencesExt

CONSTANTS
  ScanNodes,       \* nodes a scan visits
  ScanCount,       \* tainted characters after which it stops
  ScanHits,        \* encoding hits after which it stops
  MinRunLength,    \* digits in a row that are a blob
  ShapeDepth,      \* SHAPE_LIMITS.maxDepth
  ShapeWidth,      \* SHAPE_LIMITS.maxKeysPerNode
  ShapeLength,     \* SHAPE_LIMITS.maxLength, in pieces of text
  NameOrder,       \* argument names in the order they sort
  NameText(_)      \* the pieces a name is written with, which may be separators

\* The parts of a value in the order both scans walk them; an object lists
\* its members in the order of their sorted keys.
Parts(v) == IF v.t \in {"array", "object"} THEN v.items ELSE <<>>

\* The state of a walk: nodes visited and what was found in them.
Start == [nodes |-> 0, count |-> 0, hits |-> {}, blobs |-> <<>>]

\* Mutant: a scan spends its nodes on strings alone, and containers are free.
VisitTaintStringsOnly(v, s) ==
  IF s.nodes >= ScanNodes \/ s.count >= ScanCount THEN s
  ELSE IF v.t = "string"
       THEN [s EXCEPT !.nodes = @ + 1, !.count = @ + Cardinality(v.marks), !.hits = @ \cup v.marks]
       ELSE s

\* inspectTaint(): one visit.
VisitTaint(v, s) ==
  IF s.nodes >= ScanNodes \/ s.count >= ScanCount THEN s
  ELSE IF v.t = "string"
       THEN [s EXCEPT !.nodes = @ + 1, !.count = @ + Cardinality(v.marks), !.hits = @ \cup v.marks]
       ELSE [s EXCEPT !.nodes = @ + 1]

\* A pure hex run is base64 too; a string counts once, as the more specific.
Blob(v) == IF v.hex >= MinRunLength THEN <<"hex">>
           ELSE IF v.base64 >= MinRunLength THEN <<"base64">> ELSE <<>>

\* inspectEncodingTaint(): one visit.
VisitEncoding(v, s) ==
  IF s.nodes >= ScanNodes \/ Len(s.blobs) >= ScanHits THEN s
  ELSE IF v.t = "string" THEN [s EXCEPT !.nodes = @ + 1, !.blobs = @ \o Blob(v)]
       ELSE [s EXCEPT !.nodes = @ + 1]

RECURSIVE Walk(_, _, _)
Walk(Visit(_, _), v, s) ==
  FoldLeft(LAMBDA acc, part : Walk(Visit, part, acc), Visit(v, s), Parts(v))

InspectTaint(v) == Walk(VisitTaint, v, Start).hits
InspectEncodingTaint(v) == Walk(VisitEncoding, v, Start).blobs # <<>>

\* What is reported: the classes, of encodings as one of its own.
ScanToolArguments(v, unicode, encoding) ==
  (IF unicode THEN InspectTaint(v) ELSE {})
  \cup (IF encoding /\ InspectEncodingTaint(v) THEN {"encoding_blob"} ELSE {})
-----------------------------------------------------------------------------
\* All nodes of a value, in the order of the walk.
RECURSIVE Preorder(_)
Preorder(v) == <<v>> \o FlattenSeq([i \in DOMAIN Parts(v) |-> Preorder(Parts(v)[i])])
-----------------------------------------------------------------------------
\* Call signatures: a value is [t |-> its type], with items for an array, the
\* names as they were written and the values at them for an object.  A shape
\* is a text, cut into pieces: names, types, brackets, ":" and ",".  Names go
\* into it as they are, with whatever separators they contain.

\* Mutant: the names as they were written.
NamesAsWritten(v) == v.written

SortedNames(v) == SelectSeq(NameOrder, LAMBDA n : n \in DOMAIN v.at)

Widest(seq) == SubSeq(seq, 1, IF Len(seq) < ShapeWidth THEN Len(seq) ELSE ShapeWidth)

\* The texts with "," between them.
Joined(texts) ==
  FlattenSeq([i \in DOMAIN texts |-> (IF i = 1 THEN <<>> ELSE <<",">>) \o texts[i]])

RECURSIVE ShapeOf(_, _)
ShapeOf(v, depth) ==
  IF depth > ShapeDepth THEN <<"(depth)">>
  ELSE CASE v.t = "array" ->
              LET items == Widest(v.items)
              IN  <<"[">> \o Joined([i \in DOMAIN items |-> ShapeOf(items[i], depth + 1)])
                    \o (IF items # v.items THEN <<",", "...", "]">> ELSE <<"]">>)
         [] v.t = "object" ->
              LET names == Widest(SortedNames(v))
              IN  <<"{">> \o Joined([i \in DOMAIN names |->
                     NameText(names[i]) \o <<":">> \o ShapeOf(v.at[names[i]], depth + 1)]) \o <<"}">>
         [] OTHER -> <<v.t>>

DenySignature(tool, args) ==
  LET sig == <<tool, "(">> \o ShapeOf(args, 0) \o <<")">>
  IN  SubSeq(sig, 1, IF Len(sig) < ShapeLength THEN Len(sig) ELSE ShapeLength)
=============================================================================
