---------------------------- MODULE RouterCircuits ----------------------------
(***************************************************************************)
(* The router service's outcome path (supreme-router/index.ts): the calls  *)
(* that feed the two circuit breakers and the effort escalation set, each  *)
(* stamped with Date.now().                                                *)
(*                                                                         *)
(*   RecordOutcome          an attributed outcome feeds both breakers      *)
(*   ReportVerifierOutcome  a verifier verdict feeds the outcome breaker   *)
(*                          and escalates (or relaxes) the route's effort  *)
(*   RequestError           agent/request-error, once next() resolved: no  *)
(*                          model is named, so the provider bucket is fed  *)
(*   AcquireProbe           the half-open probe slot of a route            *)
(*                                                                         *)
(* outcomeCircuit.enabled is TRUE.  The breakers' states are only ever     *)
(* changed by these calls: the code has no timer.                          *)
(***************************************************************************)
EXTENDS CircuitBreaker, OutcomeCircuitBreaker

CONSTANTS
  EscalationLimit,  \* ESCALATION_LIMIT
  MaxNow            \* bound on the clock

ASSUME RouterAssumption ==
  /\ EscalationLimit \in Nat \ {0}
  /\ MaxNow \in Nat \ {0}

VARIABLES
  now,        \* Date.now()
  escalated   \* escalatedKeys, oldest first

circuitsVars == <<now, failures, openedUntil, entries, order, escalated>>

Escalated == ToSet(escalated)

CircuitsTypeOK ==
  /\ now \in Nat \ {0}
  /\ CircuitTypeOK
  /\ OutcomeTypeOK
  /\ escalated \in Seq(RouteKey)

CircuitsInit ==
  /\ now = 1
  /\ CircuitInit
  /\ OutcomeInit
  /\ escalated = << >>

Tick ==
  /\ now < MaxNow
  /\ now' = now + 1
  /\ UNCHANGED <<failures, openedUntil, entries, order, escalated>>

RecordOutcome(k, success) ==
  /\ IF success
     THEN WindowSuccess(k) /\ OutcomeSuccess(k)
     ELSE WindowFailure(k, now) /\ OutcomeFailure(k, now)
  /\ UNCHANGED <<now, escalated>>

(* Mutant: a PASS does not relax. *)
NeverRelaxed(k) == escalated

(* A verifier FAIL escalates the route, dropping the oldest escalation when *)
(* the set is full; a PASS relaxes it.                                      *)
Relaxed(k) == Delete(escalated, k)

WithEscalation(k) == Insert(escalated, k, EscalationLimit)

ReportVerifierOutcome(k, passed) ==
  /\ IF passed
     THEN OutcomeSuccess(k) /\ escalated' = Relaxed(k)
     ELSE OutcomeFailure(k, now) /\ escalated' = WithEscalation(k)
  /\ UNCHANGED <<now, failures, openedUntil>>

(* EffortPacingConfig.  AdapterDefault: the request is left as it is. *)
EffortLevels == <<"off", "low", "high", "max">>
AdapterDefault == "adapter"

EffortPacing(byCostClass) ==
  [enabled : BOOLEAN, escalateOnVerifierFail : BOOLEAN, byCostClass : byCostClass]

BaseEffort(pacing, cost) ==
  IF pacing.enabled /\ cost \in DOMAIN pacing.byCostClass THEN pacing.byCostClass[cost]
  ELSE AdapterDefault

EscalateEffort(effort) ==
  CASE effort = "off" -> "low" [] effort = "low" -> "high" [] OTHER -> "max"

(* What agent/request sets, for a route of a candidate; failed is a         *)
(* caller's own word that the verifier failed it.                           *)
EffortFor(pacing, cost, k, failed) ==
  LET base == BaseEffort(pacing, cost)
  IN  IF base # AdapterDefault /\ pacing.escalateOnVerifierFail /\ (failed \/ k \in Escalated)
      THEN EscalateEffort(base) ELSE base

RequestError(p) ==
  /\ OutcomeFailure(BucketOf(p), now)
  /\ UNCHANGED <<now, failures, openedUntil, escalated>>

AcquireProbe(k) ==
  /\ GrantProbe(k, now)
  /\ UNCHANGED <<now, failures, openedUntil, escalated>>

(* Mutant: the provider's bucket is not asked. *)
HealthOkWithoutBucket(k, t) ==
  HealthState(k, t) # "CIRCUIT_OPEN" /\ Phase(k, t) # "open"

(* The health gate of selectRoute, evaluated with the `now` route() took    *)
(* before its awaits.  A half-open circuit passes.                          *)
HealthOk(k, t) ==
  /\ HealthState(k, t) # "CIRCUIT_OPEN"
  /\ Phase(k, t) # "open"
  /\ Phase(BucketOf(k[1]), t) # "open"

CircuitsNext ==
  \/ Tick
  \/ \E k \in RouteKey, ok \in BOOLEAN : RecordOutcome(k, ok)
  \/ \E k \in RouteKey, ok \in BOOLEAN : ReportVerifierOutcome(k, ok)
  \/ \E p \in Provider : RequestError(p)
  \/ \E k \in RouteKey : AcquireProbe(k)

CircuitsSpec == CircuitsInit /\ [][CircuitsNext]_circuitsVars

-------------------------------------------------------------------------------
(* What the two breakers rely on between calls.                             *)

(* No key stands twice in the map, and the bound on its size holds. *)
MapIsBounded == IsBoundedMap(order, MaxEntries)

(* A key outside the map answers as a key that never failed. *)
AbsentIsFresh == \A k \in OutcomeKey \ ToSet(order) : entries[k] = Fresh

(* A circuit is in an open episode exactly when the streak reached the      *)
(* threshold: no reset forgets one of the two.                              *)
OpenIffStreak ==
  \A k \in OutcomeKey :
    entries[k].openedUntil # NotOpened
      <=> entries[k].consecutive >= ConsecutiveFailures

(* An outstanding probe slot means the circuit is half-open: a failure that *)
(* re-opens it takes the slot back.                                         *)
ProbeOnlyHalfOpen ==
  \A k \in OutcomeKey :
    entries[k].probeGranted => Phase(k, now) = "half_open"

(* No breaker ever blocks a route for longer than one cooldown from now. *)
BlockedAtMostOneCooldown ==
  /\ \A k \in OutcomeKey : entries[k].openedUntil <= now + OutcomeCooldownMs
  /\ \A k \in RouteKey : openedUntil[k] <= now + CooldownMs

(* The escalation set stays a set within its bound. *)
EscalationBounded == IsBoundedMap(escalated, EscalationLimit)

(* The two breakers' inductive invariant: the parts above together.  The    *)
(* code keeps them across every interleaving of outcomes, verdicts, request *)
(* errors and probes.                                                       *)
CircuitInv ==
  /\ MapIsBounded
  /\ AbsentIsFresh
  /\ OpenIffStreak
  /\ ProbeOnlyHalfOpen
  /\ BlockedAtMostOneCooldown
  /\ EscalationBounded

(* That, and every part of the state keeps its type. *)
CircuitsSound == CircuitsTypeOK /\ CircuitInv
===============================================================================
