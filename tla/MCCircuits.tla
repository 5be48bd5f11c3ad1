------------------------------ MODULE MCCircuits ------------------------------
(***************************************************************************)
(* Two bounded stores, each in a scene of its own in which the other rests. *)
(*   circuits   CircuitLog on two providers with one model each: two       *)
(*              routes, two buckets                                        *)
(*   selection  SelectionStore with more identities than it can hold:      *)
(*              three sessions of two tasks each, one session also written *)
(*              with blanks around its id, and one id that is nothing but  *)
(*              blanks; the history is cut at four identities, two more    *)
(*              than the store holds                                       *)
(***************************************************************************)
EXTENDS CircuitLog, SelectionStore

CONSTANTS p1, p2, m1, star, s1, s2, s3, padded, spaces, t1, t2, text, blank

MCProvider == {p1, p2}
MCModel == {m1}

MCSession == {s1, s2, s3, padded, spaces}
MCTask == {t1, t2}
MCContent == {text, blank}
MCNormalized == [r \in MCSession |-> CASE r = padded -> s1 [] r = spaces -> NoIdentity [] OTHER -> r]

MCUsed == Len(recency) <= 4

Symmetry == Permutations(MCProvider) \cup Permutations({s2, s3}) \cup Permutations(MCTask)

VARIABLE scene

MCInit == scene \in {"circuits", "selection"} /\ LogInit /\ Init

MCNext ==
  /\ UNCHANGED scene
  /\ \/ scene = "circuits" /\ LogNext /\ UNCHANGED vars
     \/ scene = "selection" /\ Next /\ UNCHANGED logVars

MCSpec == MCInit /\ [][MCNext]_<<scene, logVars, vars>>
===============================================================================
