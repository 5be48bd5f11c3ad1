------------------------------ MODULE MCDispatch ------------------------------
(* RouterDispatch with two dispatchers, each on its own task: p1 and p2 serve a     *)
(* free route, p3 one that no candidate lists.                               *)
EXTENDS RouterDispatch

CONSTANTS p1, p2, p3, m1, star, d1, d2

MCProvider == {p1, p2, p3}
MCModel == {m1}
MCDispatcher == {d1, d2}
MCTask == MCDispatcher
MCTaskOf == [d \in MCDispatcher |-> d]
MCAllowlist == [k \in {p1, p2} \X MCModel |-> "FREE_CONFIRMED"]

Symmetry == Permutations({p1, p2}) \cup Permutations(MCDispatcher)
===============================================================================
