----------------------------- MODULE OutcomeRouting -----------------------------
(***************************************************************************)
(* supreme-router deciding on what supreme-benchmark has recorded.  route() *)
(* reads the clock, the host's list of providers and the aggregates of the *)
(* store at once; then it awaits, candidate by candidate, what the host    *)
(* answers of credential and model.  Only after that it feeds the newest   *)
(* runs of the store to a fresh tracker, asks the circuits, and selects.   *)
(* In between the store goes on: runs finish and are scored, and the       *)
(* process may die, the call with it.  The call itself changes nothing.    *)
(*                                                                         *)
(* Free claims come from the configuration and carry no expiry: the ones a *)
(* dispatch records are made the same way.                                 *)
(***************************************************************************)
EXTENDS BenchmarkRuns, RouteScoring

CONSTANTS
  Route,           \* provider::model keys of the configured candidates
  Configured,      \* what the configuration says of each
  SampleLimit,     \* classAware.sampleLimit
  MinSamples,      \* minBenchmarkSamples
  MinQuota         \* minQuotaHeadroom, in thousandths

CredentialMode == {"config-owned", "service"}

ASSUME RoutingAssumption ==
  /\ SampleLimit \in Nat \ {0} /\ SampleCap \in Nat \ {0} /\ MinSamples \in Nat \ {0}
  /\ MinQuota \in 0..1000 /\ UnscoredWeight \in 0..100 /\ HalfLives \in Nat
  /\ RouteOf \in [RunId -> Route]
  /\ IsFiniteSet(Route)
  /\ \A k \in Route :
       /\ Configured[k].order \in Nat
       /\ \A other \in Route : Configured[k].order = Configured[other].order => k = other
       /\ Configured[k].mode \in CredentialMode
       /\ Configured[k].quota \in 0..1000
       /\ Configured[k].context \in Nat

VARIABLES
  asked,           \* the call of route() that waits for the host, or none
  decision         \* the decision with the situation it was made in

NotAsked == << >>
NoDecision == << >>

evidence == <<bench, asked, decision>>

-------------------------------------------------------------------------------
(* What the host answers: "yes", "no", or a call that fails.                *)

Answer == {"yes", "no", "fails"}

HostAnswers ==
  [Route -> [model : Answer, window : Nat, credential : Answer,
             health : Health, reliability : 0..1000]]

(* credentialConfiguredFor *)
CredentialConfigured(entry, answer) ==
  IF entry.mode = "config-owned" THEN entry.credential ELSE answer = "yes"

Candidate(k, listed, host) ==
  LET entry == Configured[k]
      at == host[k]
  IN  [key |-> k, order |-> entry.order, provider |-> entry.provider,
       domain |-> entry.domain, cost |-> entry.cost, quota |-> entry.quota,
       context |-> IF at.model = "yes" /\ at.window > 0 THEN at.window ELSE entry.context,
       capable |-> entry.capable,
       credential |-> CredentialConfigured(entry, at.credential),
       valid |-> at.model = "yes", available |-> k \in listed,
       health |-> at.health, reliability |-> at.reliability]

(* The claims a decision at t may use: free candidates, by configuration. *)
FreeEvidence(t) ==
  [k \in {x \in Route : IsFreeClass(Configured[x].cost)} |-> FreeClaimEvidence(t, Absent)]

-------------------------------------------------------------------------------
(* The samples of a route on a class.                                       *)

Tracked(known, k, class) ==
  LET rows == ClassSampleRows(known, SampleLimit)
      list[i \in 0..Len(rows)] ==
        IF i = 0 THEN << >>
        ELSE LET r == rows[i]
             IN  IF RouteOf[r.id] = k /\ Normal[ClassOf[r.id]] = Normal[class]
                 THEN Observed(list[i-1], [success |-> r.success, at |-> r.at])
                 ELSE list[i-1]
  IN  list[Len(rows)]

(* What the call read at first. *)
Request(listed, input, config) ==
  [listed |-> listed, input |-> input, config |-> config, now |-> clock,
   perf |-> [k \in Route |-> AggregateRuns(runs, k)]]

Situation(request, host) ==
  [candidates |-> {Candidate(k, request.listed, host) : k \in Route},
   input |-> request.input, now |-> request.now, perf |-> request.perf,
   minQuota |-> MinQuota, minSamples |-> MinSamples,
   costFirst |-> request.config.costFirst, maxFanout |-> request.config.maxFanout,
   fastPath |-> request.config.fastPath, claim |-> FreeEvidence(request.now)]

(* The samples are those of the store when the host has answered. *)
Selections(known, s) ==
  SelectRoute(s, [k \in Route |-> IF s.input.taskClass = Absent THEN << >>
                                  ELSE Tracked(known, k, s.input.taskClass)])

(* route(), up to its first await. *)
AskRoute(listed, input, config) ==
  /\ asked = NotAsked /\ decision = NoDecision
  /\ asked' = <<Request(listed, input, config)>>
  /\ UNCHANGED <<bench, decision>>

(* The rest of it, when everything is answered.  Bound: a behaviour ends    *)
(* with its decision.                                                       *)
Decide(host) ==
  /\ asked # NotAsked
  /\ LET s == Situation(asked[1], host)
     IN  \E chosen \in Selections(runs, s) : decision' = <<s, chosen>>
  /\ asked' = NotAsked
  /\ UNCHANGED bench

Store ==
  /\ decision = NoDecision
  /\ \/ Serving /\ UNCHANGED asked
     \/ Restarted /\ asked' = NotAsked
  /\ UNCHANGED decision

Asking(lists, inputs, configs) ==
  \E listed \in lists : \E input \in inputs : \E config \in configs :
    AskRoute(listed, input, config)

Deciding(hosts) == \E host \in hosts : Decide(host)

RoutingInit == BenchInit /\ asked = NotAsked /\ decision = NoDecision

RoutingNext(lists, hosts, inputs, configs) ==
  Store \/ Asking(lists, inputs, configs) \/ Deciding(hosts)

RoutingSpec(lists, hosts, inputs, configs) ==
  RoutingInit /\ [][RoutingNext(lists, hosts, inputs, configs)]_evidence

-------------------------------------------------------------------------------
(* Properties.                                                              *)

(* The finished runs of a route on a class. *)
FinishedOf(known, k, class) ==
  {r \in QueryHistory(known) :
     r.success # Null /\ RouteOf[r.id] = k /\ Normal[ClassOf[r.id]] = Normal[class]}

(* An outcome counts at once, as long as the tracker has room for it.  The  *)
(* success just reported of a run raises the score of its route on its      *)
(* class above what the samples of a moment ago would give now, and a       *)
(* failure lowers a score that is not 0.  With more finished runs than the  *)
(* tracker keeps, it drops just the newest (OldestSampleGoesFirst).         *)
OutcomesMoveScores ==
  [][\A id \in RunId :
       LET k == RouteOf[id]
           class == ClassOf[id]
           samples == Tracked(runs, k, class)
           before == ClassScore(samples, clock')
           after == ClassScore(Tracked(runs', k, class), clock')
       IN  (/\ clock' = clock + 1 /\ runs'[id] # Null /\ runs'[id].at = clock'
            /\ Cardinality(FinishedOf(runs', k, class)) <= SampleCap)
             => IF samples = << >>
                THEN (after > 0) <=> runs'[id].success
                ELSE IF runs'[id].success THEN after > before
                ELSE after < before \/ (before = 0 /\ after = 0)]_evidence

(* A decision is one of those the gates, the cost order, the fan-out bound  *)
(* and the task allow, and the record decides it: no candidate just as      *)
(* cheap, healthy, reliable and diverse has more successes to show when the *)
(* decision is made, unless its claims were not all backed when the call    *)
(* came.  A candidate without a score leaves the order to chance.           *)
DecisionsAreJustified ==
  decision # NoDecision =>
    LET s == decision[1]
        chosen == decision[2]
        passing == {c \in s.candidates :
                      \A gate \in HardGates : PassesGate(gate, c, s.input, s.minQuota)}
        cheapest == {c \in passing : \A x \in passing :
                       s.costFirst => CostClassRank(c.cost) <= CostClassRank(x.cost)}
        of(k) == CHOOSE c \in passing : c.key = k
        record(c) == Tracked(runs, c.key, s.input.taskClass)
        backed(c) == s.perf[c.key].backed = s.perf[c.key].scored
        Scored(c) == record(c) # << >> \/ s.perf[c.key].quality[2] = s.perf[c.key].scored
        Alike(a, b) ==
          /\ a.cost = b.cost /\ a.health = b.health /\ a.quota = b.quota
          /\ a.reliability = b.reliability
          /\ Cardinality({x \in cheapest : x.domain = a.domain})
               = Cardinality({x \in cheapest : x.domain = b.domain})
    IN  IF passing = {} THEN chosen = Blocked
        ELSE /\ \E c \in cheapest : c.key = chosen.key
             /\ Len(chosen.plan) <= s.maxFanout
             /\ \A i \in DOMAIN chosen.plan :
                  /\ chosen.plan[i] \in cheapest
                  /\ chosen.plan[i].provider # of(chosen.key).provider
                  /\ \A j \in DOMAIN chosen.plan : chosen.plan[i] = chosen.plan[j] => i = j
             /\ chosen.fastPath => chosen.plan = << >>
             /\ (s.input.taskClass # Absent /\ \A c \in cheapest : Scored(c)) =>
                  \A c \in cheapest :
                    (/\ Alike(c, of(chosen.key)) /\ backed(c)
                     /\ record(c) # << >> /\ record(of(chosen.key)) # << >>)
                      => ClassScore(record(c), s.now) <= ClassScore(record(of(chosen.key)), s.now)

(* "oldest evicted first": of more samples than it keeps, the tracker keeps *)
(* the newest.                                                              *)
OldestSampleGoesFirst ==
  \A id \in RunId :
    LET k == RouteOf[id]
        class == ClassOf[id]
        kept == Tracked(runs, k, class)
    IN  \A i \in DOMAIN kept :
          \A r \in FinishedOf(runs, k, class) :
            r.at > kept[i].at => \E j \in DOMAIN kept : kept[j].at = r.at
===============================================================================
