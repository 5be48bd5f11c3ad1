------------------------------ MODULE MCCheckpoints ------------------------------
(* Checkpoints of two steps in a store that retains fewer records than one     *)
(* orderly run of both writes.                                                 *)
EXTENDS Checkpoints

CONSTANTS a, b, d1, d2

MCStep == {a, b}
MCDigest == {d1, d2}
MCMalformed == {"not a token"}
=================================================================================
