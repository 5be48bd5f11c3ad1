------------------------------ MODULE MCHalfOpen ------------------------------
(***************************************************************************)
(* How many dispatches a half-open circuit lets through.  selectRoute      *)
(* passes a half-open circuit and says of it that "the next dispatch IS    *)
(* the single probe (enforced by acquireProbe())" (engine.ts).  The        *)
(* history variable via follows each dispatch from its registration to its *)
(* end with the half-open circuits it went through.  The instance: two     *)
(* dispatchers and two routes of one provider.                             *)
(***************************************************************************)
EXTENDS RouterDispatch

CONSTANTS p1, m1, m2, star, d1, d2

MCProvider == {p1}
MCModel == {m1, m2}
MCDispatcher == {d1, d2}
MCTaskOf == [d \in MCDispatcher |-> d]
MCAllowlist == [k \in MCProvider \X MCModel |-> "FREE_CONFIRMED"]

VARIABLE via  \* via[d]: the half-open circuits d's dispatch in flight crossed

InFlight == {"registered", "requested", "streaming", "direct", "failed", "succeeded"}

HalfOpenOf(k) ==
  {x \in {k, BucketOf(k[1])} : Phase(x, now) = "half_open"}

Track ==
  via' = [d \in Dispatcher |->
            IF host'[d].stage \notin InFlight THEN {}
            ELSE IF host[d].stage \notin InFlight /\ host[d].key # NoRoute
            THEN HalfOpenOf(host[d].key)
            ELSE via[d]]

AdmissionSpec ==
  /\ Init /\ via = [d \in Dispatcher |-> {}]
  /\ [][Next /\ Track]_<<vars, via>>

(* The next dispatch through a half-open circuit is its single probe: no    *)
(* two dispatches in flight went through one half-open circuit.  Every host *)
(* of the run asks acquireProbe for its route's slot first, as documented   *)
(* (index.ts:315-320); but a bucket's slot is nobody's to ask for, and a    *)
(* half-open bucket lets every decision for its provider through.           *)
HalfOpenAdmitsOneDispatch ==
  \A x \in OutcomeKey : Cardinality({d \in Dispatcher : x \in via[d]}) <= 1
===============================================================================
