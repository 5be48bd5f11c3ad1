---------------------------- MODULE RouterDispatch ----------------------------
(***************************************************************************)
(* Hosts dispatching model requests through supreme-router, concurrently.  *)
(*                                                                         *)
(* A dispatcher is one host loop working on a task.  It asks route() for a *)
(* decision, registers the attempt with the retry ledger, sends the        *)
(* request through the two seams the router guards (agent/request, then    *)
(* llm/stream), and reports what came of it; on a failure it may start     *)
(* again or take a candidate of the decision's fallback plan.  The loop is *)
(* the host's (it is not in this repository); what the router does at each *)
(* call is the code's.                                                     *)
(*                                                                         *)
(* route() awaits: it reads the clock when called and the breakers when it *)
(* decides, so other dispatchers' outcomes fall between the two.  Gates    *)
(* that read the host (catalog, credentials, model validity, capabilities, *)
(* context, quota) are a set of usable routes chosen at the decision, and  *)
(* the score only orders candidates, so any of the best-ranked is taken.   *)
(* The free-claim bookkeeping is left out: no claim ever expires, so no    *)
(* decision depends on it.                                                 *)
(***************************************************************************)
EXTENDS RouterCircuits

CONSTANTS
  Dispatcher,      \* host loops
  Task,            \* task ids
  TaskOf,          \* the task of each dispatcher
  Allowlist,       \* cost class of each route that some candidate lists
  AllowTrial,      \* policy.allowTrial (LAB only)
  AllowPaid,       \* policy.allowPaid (LAB only)
  CostFirst,       \* config.costFirst
  MaxRetries,      \* bounds.maxRetries
  MaxFanout,       \* bounds.maxFanout
  LedgerLimit,     \* maxEntries of the attempt ledger
  ProbeDiscipline, \* whether hosts dispatch on a half-open route only as its probe
  MaxDispatches    \* bound on the dispatches of a behaviour

CostClass == {"FREE_CONFIRMED", "FREE_LIMITED", "TRIAL", "PAID", "UNKNOWN"}

ASSUME DispatchAssumption ==
  /\ TaskOf \in [Dispatcher -> Task]
  /\ \E listed \in SUBSET RouteKey : Allowlist \in [listed -> CostClass]
  /\ {AllowTrial, AllowPaid, CostFirst, ProbeDiscipline} \subseteq BOOLEAN
  /\ MaxRetries \in Nat \ {0}
  /\ MaxFanout \in Nat
  /\ LedgerLimit \in Nat \ {0}
  /\ MaxDispatches \in Nat

(* resolveRouteCostClass: a route of no candidate is UNKNOWN. *)
CostOf == [k \in RouteKey |-> IF k \in DOMAIN Allowlist THEN Allowlist[k] ELSE "UNKNOWN"]

VARIABLES
  host,        \* host[d]: where dispatcher d stands
  attempts,    \* attempts[t]: the ledger's count for task t
  ledgerOrder, \* the tasks the ledger holds, oldest first
  dispatched,  \* history: attempts of t the ledger allowed
  forgotten    \* history: how often the ledger evicted t

ledgerVars == <<attempts, ledgerOrder, dispatched, forgotten>>
vars == <<circuitsVars, host, ledgerVars>>

NoRoute == << >>

Stage == {"idle", "deciding", "routed", "probing", "registered", "requested",
          "streaming", "direct", "failed", "succeeded", "done"}

Host == [stage : Stage, key : RouteKey \cup {NoRoute}, at : Nat,
         plan : SUBSET RouteKey]

TypeOK ==
  /\ CircuitsTypeOK
  /\ host \in [Dispatcher -> Host]
  /\ attempts \in [Task -> Nat]
  /\ ledgerOrder \in Seq(Task)
  /\ dispatched \in [Task -> Nat]
  /\ forgotten \in [Task -> Nat]

Without(stage) == [stage |-> stage, key |-> NoRoute, at |-> 0, plan |-> {}]

Routed(k, plan) == [stage |-> "routed", key |-> k, at |-> 0, plan |-> plan]

Init ==
  /\ CircuitsInit
  /\ host = [d \in Dispatcher |-> Without("idle")]
  /\ attempts = [t \in Task |-> 0]
  /\ ledgerOrder = << >>
  /\ dispatched = [t \in Task |-> 0]
  /\ forgotten = [t \in Task |-> 0]

At(d, stage) == host[d].stage = stage

Goto(d, stage) == host' = [host EXCEPT ![d].stage = stage]

-------------------------------------------------------------------------------
(* route().                                                                 *)

RouteBegin(d) ==
  /\ At(d, "idle")
  /\ host' = [host EXCEPT ![d].stage = "deciding", ![d].at = now]
  /\ UNCHANGED <<circuitsVars, ledgerVars>>

IsFree(k) == CostOf[k] \in {"FREE_CONFIRMED", "FREE_LIMITED"}

CostRank(k) == IF CostOf[k] = "FREE_CONFIRMED" THEN 0 ELSE 1

(* The routes that pass the eight hard gates at a decision timed t. *)
Eligible(usable, t) == {k \in usable : IsFree(k) /\ HealthOk(k, t)}

Scored(eligible) ==
  IF CostFirst
  THEN {k \in eligible : \A other \in eligible : CostRank(k) <= CostRank(other)}
  ELSE eligible

(* planCrossProviderFallbacks: the best other-provider candidates, up to    *)
(* maxFanout; a simple task (the fast path) plans none.  All scored         *)
(* candidates are free with a current claim.                                *)
FallbackPlans(scored, primary) ==
  LET others == {k \in scored : k[1] # primary[1]}
      size == IF Cardinality(others) < MaxFanout
              THEN Cardinality(others) ELSE MaxFanout
  IN  {plan \in SUBSET others : plan = {} \/ Cardinality(plan) = size}

(* Decisions read the clock route() started with, and the breakers as they  *)
(* are now.                                                                 *)
RouteDecide(d) ==
  /\ At(d, "deciding")
  /\ \E usable \in SUBSET RouteKey :
       LET eligible == Eligible(usable, host[d].at)
           scored == Scored(eligible)
       IN  \/ /\ eligible = {}
              /\ host' = [host EXCEPT ![d] = Without("idle")]
           \/ \E k \in scored : \E plan \in FallbackPlans(scored, k) :
                host' = [host EXCEPT ![d] = Routed(k, plan)]
  /\ UNCHANGED <<circuitsVars, ledgerVars>>

-------------------------------------------------------------------------------
(* The probe slot.  The router only keeps the slot: asking for it is up to  *)
(* the host, which learns that a route is half-open from outcomeSnapshot(). *)

TakeProbe(d) ==
  /\ At(d, "routed")
  /\ AcquireProbe(host[d].key)
  /\ Goto(d, "probing")
  /\ UNCHANGED ledgerVars

ProbeRefused(d) ==
  /\ At(d, "routed")
  /\ Phase(host[d].key, now) = "half_open" /\ ~ProbeFree(host[d].key, now)
  /\ host' = [host EXCEPT ![d] = Without("idle")]
  /\ UNCHANGED <<circuitsVars, ledgerVars>>

(* A disciplined host dispatches on a half-open route only with the slot. *)
MayDispatch(d) ==
  \/ At(d, "probing")
  \/ At(d, "routed")
     /\ (ProbeDiscipline => Phase(host[d].key, now) # "half_open")

-------------------------------------------------------------------------------
(* The retry ledger.                                                        *)

LedgerEvicted(t) == Evicts(ledgerOrder, t, LedgerLimit)

(* Mutant: the bound is compared with the attempts already made. *)
AttemptAllowedBefore(t) == attempts[t] <= MaxRetries

AttemptAllowed(t) == attempts[t] + 1 <= MaxRetries

(* registerAttempt counts every attempt, refused ones too.  A refused task  *)
(* must not dispatch; its dispatcher stops.                                 *)
RegisterAttempt(d) ==
  LET t == TaskOf[d] IN
  /\ MayDispatch(d)
  /\ dispatched[t] < MaxDispatches
  /\ attempts' = [x \in Task |-> IF x = t THEN attempts[t] + 1
                                 ELSE IF x \in LedgerEvicted(t) THEN 0
                                 ELSE attempts[x]]
  /\ ledgerOrder' = Insert(ledgerOrder, t, LedgerLimit)
  /\ forgotten' = [x \in Task |->
                     IF x \in LedgerEvicted(t) THEN forgotten[x] + 1
                     ELSE forgotten[x]]
  /\ IF AttemptAllowed(t)
     THEN /\ dispatched' = [dispatched EXCEPT ![t] = @ + 1]
          /\ Goto(d, "registered")
     ELSE /\ UNCHANGED dispatched
          /\ host' = [host EXCEPT ![d] = Without("done")]
  /\ UNCHANGED circuitsVars

-------------------------------------------------------------------------------
(* The two guarded seams.  Both ask the policy again, for the route of the  *)
(* request as it stands then.                                               *)

(* evaluateRoutePolicy *)
PolicyAllows(cost) ==
  \/ cost \in {"FREE_CONFIRMED", "FREE_LIMITED"}
  \/ cost = "TRIAL" /\ AllowTrial
  \/ cost = "PAID" /\ AllowPaid

(* Mutant: no answer of the policy is as good as a yes. *)
CostGateFailingOpen(cost, decision) == decision # "denied"

(* Fails closed, and repeats the UNKNOWN rule on its own. *)
BuildRouteCostGate(cost, decision) == decision = "allowed" /\ cost # "UNKNOWN"

(* The policy is asked anew each time; it may be missing or unusable. *)
RouteCostGate(k, usable) ==
  BuildRouteCostGate(CostOf[k], IF ~usable THEN "none"
                                ELSE IF PolicyAllows(CostOf[k]) THEN "allowed" ELSE "denied")

(* agent/request: the rest of the chain (next()) may have moved the call to *)
(* any route.  A denied call leaves without provider and model, and the     *)
(* loop refuses it before any adapter is called.                            *)
AgentRequest(d) ==
  /\ At(d, "registered")
  /\ \E k \in RouteKey, usable \in BOOLEAN :
       host' = [host EXCEPT ![d] =
         IF RouteCostGate(k, usable) THEN [@ EXCEPT !.stage = "requested", !.key = k]
         ELSE Without("done")]
  /\ UNCHANGED <<circuitsVars, ledgerVars>>

(* llm/stream also sees callers that never crossed agent/request (session   *)
(* titles, compaction): they name their route themselves.  A denial throws  *)
(* before next().                                                           *)
LlmStream(d, k) ==
  /\ \/ At(d, "requested") /\ k = host[d].key
     \/ At(d, "idle")
  /\ \E usable \in BOOLEAN :
       host' = [host EXCEPT ![d] =
         IF ~RouteCostGate(k, usable) THEN Without("done")
         ELSE IF At(d, "requested") THEN [@ EXCEPT !.stage = "streaming"]
         ELSE [@ EXCEPT !.stage = "direct", !.key = k]]
  /\ UNCHANGED <<circuitsVars, ledgerVars>>

DirectStreamEnds(d) ==
  /\ At(d, "direct")
  /\ host' = [host EXCEPT ![d] = Without("done")]
  /\ UNCHANGED <<circuitsVars, ledgerVars>>

-------------------------------------------------------------------------------
(* What comes of a request.                                                 *)

StreamSucceeds(d) ==
  /\ At(d, "streaming")
  /\ Goto(d, "succeeded")
  /\ UNCHANGED <<circuitsVars, ledgerVars>>

(* The loop fires agent/request-error for every failed attempt. *)
StreamFails(d) ==
  /\ At(d, "streaming")
  /\ RequestError(host[d].key[1])
  /\ Goto(d, "failed")
  /\ UNCHANGED ledgerVars

(* The host reports the attributed outcome, or has it verified, at any      *)
(* later time, and starts again.                                            *)
ReportOutcome(d) ==
  /\ At(d, "succeeded") \/ At(d, "failed")
  /\ RecordOutcome(host[d].key, At(d, "succeeded"))
  /\ host' = [host EXCEPT ![d] = Without("idle")]
  /\ UNCHANGED ledgerVars

ReportVerdict(d) ==
  /\ At(d, "succeeded")
  /\ \E passed \in BOOLEAN : ReportVerifierOutcome(host[d].key, passed)
  /\ host' = [host EXCEPT ![d] = Without("idle")]
  /\ UNCHANGED ledgerVars

(* A failed dispatch may go on with a candidate of its fallback plan. *)
TakeFallback(d) ==
  /\ At(d, "failed")
  /\ \E k \in host[d].plan :
       host' = [host EXCEPT ![d] = Routed(k, host[d].plan \ {k})]
  /\ UNCHANGED <<circuitsVars, ledgerVars>>

-------------------------------------------------------------------------------

Passage == Tick /\ UNCHANGED <<host, ledgerVars>>

Step(d) ==
  \/ RouteBegin(d)
  \/ RouteDecide(d)
  \/ TakeProbe(d)
  \/ ProbeRefused(d)
  \/ RegisterAttempt(d)
  \/ AgentRequest(d)
  \/ \E k \in RouteKey : LlmStream(d, k)
  \/ DirectStreamEnds(d)
  \/ StreamSucceeds(d)
  \/ StreamFails(d)
  \/ ReportOutcome(d)
  \/ ReportVerdict(d)
  \/ TakeFallback(d)

Next == Passage \/ \E d \in Dispatcher : Step(d)

Spec == Init /\ [][Next]_vars

-------------------------------------------------------------------------------
(* Properties.                                                              *)

(* The clock a decision is made with is never ahead of the real one. *)
DecisionsUsePastClocks == \A d \in Dispatcher : host[d].at <= now

(* No breaker keeps traffic off k at this moment. *)
Unblocked(k) ==
  /\ now >= openedUntil[k]
  /\ \A x \in {k, BucketOf(k[1])} :
       entries[x].openedUntil # NotOpened => now >= entries[x].openedUntil

(* route() takes its clock before several awaits and reads the breakers     *)
(* after them, while other dispatchers' failures land in between.  Even so  *)
(* a decision never selects a route, nor plans a fallback, whose windowed   *)
(* circuit, outcome circuit or provider bucket is open at the moment it is  *)
(* made.                                                                    *)
NoDecisionThroughOpenCircuit ==
  [][\A d \in Dispatcher :
       (At(d, "deciding") /\ host'[d].stage = "routed")
         => \A k \in {host'[d].key} \cup host'[d].plan : Unblocked(k)]_vars

(* No adapter is ever called for a route the policy does not allow: not for *)
(* one the rest of the chain substituted, not for a direct llm/stream       *)
(* caller, not for a fallback.                                              *)
NoDisallowedStream ==
  \A d \in Dispatcher :
    host[d].stage \in {"streaming", "direct", "failed", "succeeded"}
      => \/ IsFree(host[d].key)
         \/ CostOf[host[d].key] = "TRIAL" /\ AllowTrial
         \/ CostOf[host[d].key] = "PAID" /\ AllowPaid

(* However many dispatchers work on a task, the ledger lets through         *)
(* MaxRetries attempts of it, and one more budget each time the bounded map *)
(* has evicted the task in between.                                         *)
RetryBound ==
  \A t \in Task : dispatched[t] <= MaxRetries * (forgotten[t] + 1)

-------------------------------------------------------------------------------
(* The inductive invariant behind the three properties.                     *)

(* A task outside the ledger counts nothing, and what the ledger let        *)
(* through since it last forgot the task is what it counted, capped.        *)
LedgerInv ==
  /\ IsBoundedMap(ledgerOrder, LedgerLimit)
  /\ \A t \in Task \ ToSet(ledgerOrder) : attempts[t] = 0
  /\ \A t \in Task :
       /\ dispatched[t] <= MaxRetries * forgotten[t] + attempts[t]
       /\ dispatched[t] <= MaxRetries * forgotten[t] + MaxRetries

(* A host between its decision and its report works on a route. *)
RouteInHand ==
  \A d \in Dispatcher :
    host[d].stage \notin {"idle", "deciding", "done"} => host[d].key \in RouteKey

(* Together: breakers, clocks, ledger and gated streams stay consistent     *)
(* across every interleaving of the dispatchers.                            *)
DispatchInv ==
  /\ CircuitInv
  /\ RouteInHand
  /\ DecisionsUsePastClocks
  /\ LedgerInv
  /\ NoDisallowedStream

(* That, and every part of the state keeps its type. *)
DispatchSound == TypeOK /\ DispatchInv
===============================================================================
