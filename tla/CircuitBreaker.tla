---------------------------- MODULE CircuitBreaker ----------------------------
(***************************************************************************)
(* The windowed circuit breaker of supreme-router (class CircuitBreaker of *)
(* supreme-router/engine.ts): per route key, the failures still inside the *)
(* sliding window and the instant until which the circuit is open.  The    *)
(* class reads no clock: every call is given the caller's `now`, here t.   *)
(*                                                                         *)
(* The lists of success times feed only the reliability component of the   *)
(* route score and are left out.                                           *)
(***************************************************************************)
EXTENDS RouteKeys, FiniteSets

CONSTANTS
  FailureThreshold,  \* circuit.failureThreshold
  WindowMs,          \* circuit.windowMs
  CooldownMs         \* circuit.cooldownMs

ASSUME CircuitAssumption ==
  /\ FailureThreshold \in Nat \ {0}
  /\ WindowMs \in Nat
  /\ CooldownMs \in Nat

VARIABLES
  failures,    \* failures[k]: the failure instants kept for route key k
  openedUntil  \* openedUntil[k]: the circuit of k is open before this instant

circuitVars == <<failures, openedUntil>>

(* The epoch instant 0 stands for a missing `openedUntil`: clocks start at 1. *)
Unset == 0

(* Two failures of one millisecond are two entries of the list. *)
Failure == [at : Nat, nth : Nat]

CircuitTypeOK ==
  /\ failures \in [RouteKey -> SUBSET Failure]
  /\ \A k \in RouteKey : IsFiniteSet(failures[k])
  /\ openedUntil \in [RouteKey -> Nat]

CircuitInit ==
  /\ failures = [k \in RouteKey |-> {}]
  /\ openedUntil = [k \in RouteKey |-> Unset]

(* Mutant: a failure exactly WindowMs old has left the window. *)
InWindowStrict(k, t) == {f \in failures[k] : t - f.at < WindowMs}

(* The failures of k that the next failure, at t, still finds in its window. *)
InWindow(k, t) == {f \in failures[k] : t - f.at <= WindowMs}

WindowFailure(k, t) ==
  LET recent == InWindow(k, t)
      simultaneous == {f \in recent : f.at = t}
      list == recent \cup {[at |-> t, nth |-> Cardinality(simultaneous)]}
  IN  /\ failures' = [failures EXCEPT ![k] = list]
      /\ openedUntil' = [openedUntil EXCEPT
           ![k] = IF Cardinality(list) >= FailureThreshold
                  THEN t + CooldownMs ELSE @]

WindowSuccess(k) ==
  /\ failures' = [failures EXCEPT ![k] = {}]
  /\ openedUntil' = [openedUntil EXCEPT ![k] = Unset]

WindowOpen(k, t) == t < openedUntil[k]

(* stateOf does not prune: failures that left the window degrade the route  *)
(* until a success clears them or the next failure prunes them.             *)
HealthState(k, t) ==
  IF WindowOpen(k, t) THEN "CIRCUIT_OPEN"
  ELSE IF failures[k] # {} THEN "DEGRADED" ELSE "HEALTHY"
===============================================================================
