------------------------------ MODULE RouteScoring ------------------------------
(***************************************************************************)
(* How supreme-router chooses: eight hard gates, the cheapest cost class   *)
(* first, a weighted score, and a plan of verified-free fallbacks on other *)
(* providers.  The quality of a route is its record on the class of the    *)
(* task, samples that fade with age and a lower bound that distrusts few   *)
(* of them; without such samples its benchmark average, or 1/2.            *)
(*                                                                         *)
(* Scores are integers in thousandths.  Ages are whole half-lives, so the  *)
(* weight of a sample is a power of two: Unit is the weight 1.  Weights of *)
(* the score components are in hundredths; latency is not measured and     *)
(* counts 1/2.  A benchmark average that is not a number makes a score     *)
(* that is none, which the comparison of the sort passes over.             *)
(***************************************************************************)
EXTENDS Integers, Sequences, FiniteSets

CONSTANTS
  Absent,          \* no task class, no risk, no expiry, no route
  Normal,          \* normalizeTaskClass, on the labels that occur
  HalfLives,       \* the greatest age of a sample
  SampleCap,       \* maxSamplesPerClass
  SimpleClasses,   \* fastPath.simpleClasses, normalised
  UnscoredWeight   \* unscoredEvidenceWeight, in hundredths

(* The powers of two up to that of the greatest age. *)
Power[n \in 0..HalfLives] == IF n = 0 THEN 1 ELSE 2 * Power[n-1]

Unit == Power[HalfLives]

-------------------------------------------------------------------------------
(* The record of a route on a class (ClassPerformanceTracker).              *)

(* observe(): one more sample; a full list drops the one observed first. *)
Observed(samples, sample) ==
  LET list == Append(samples, sample)
  IN  IF Len(list) > SampleCap THEN Tail(list) ELSE list

FreshnessWeight(at, now) ==
  LET age == IF now > at THEN now - at ELSE 0
  IN  IF age > HalfLives THEN 0 ELSE Power[HalfLives - age]

Sample == [success : BOOLEAN, at : Nat]

(* The weights of the samples at places, one after the other. *)
Weighing(samples, places, now) ==
  LET sum[i \in 0..Len(samples)] ==
        IF i = 0 THEN 0
        ELSE sum[i-1] + (IF i \in places THEN FreshnessWeight(samples[i].at, now) ELSE 0)
  IN  sum

WeightOf(samples, places, now) == Weighing(samples, places, now)[Len(samples)]

(* The integer square root of a number below 2^24, by its two digits to the *)
(* base 64.                                                                 *)
SquareRoot(n) ==
  LET square[r \in Nat] == r * r
      digit[p \in Int \X Nat \X Nat] ==       \* of x, above which digits, of which unit
        CHOOSE d \in 0..63 : /\ d = 0 \/ square[p[2] + d * p[3]] <= p[1]
                             /\ d = 63 \/ square[p[2] + (d + 1) * p[3]] > p[1]
      both[p \in Int \X Nat] == p[2] + digit[<<p[1], p[2], 1>>]
      root[x \in Int] == both[<<x, 64 * digit[<<x, 0, 64>>]>>]
  IN  root[n]

(* Mutant: the success fraction alone, however few the samples. *)
FractionOnly(won, all) == (1000 * won) \div all

(* The Wilson score lower bound at z = 1.96 for won of all, both in units,  *)
(* after multiplying numerator and denominator by the sample size.          *)
WilsonLowerBound(won, all) ==
  LET centre == (1000 * won) \div Unit + 1921
      spread == SquareRoot((1000 * won * ((1000 * (all - won)) \div Unit)) \div all + 960400)
      bound == (1000 * (centre - (196 * spread) \div 100))
                 \div ((1000 * all) \div Unit + 3842)
  IN  IF bound < 0 THEN 0 ELSE bound

ClassScore(samples, now) ==
  LET bound[p \in Int \X Int] == IF p[2] = 0 THEN 500 ELSE WilsonLowerBound(p[1], p[2])
      score[list \in Seq(Sample)] ==
        bound[<<WeightOf(list, {i \in DOMAIN list : list[i].success}, now),
                WeightOf(list, DOMAIN list, now)>>]
  IN  score[samples]

-------------------------------------------------------------------------------
(* Requests and candidates.                                                 *)

RouteInput(classes, risks) ==
  [taskClass : classes \cup {Absent}, labels : SUBSET classes, risk : risks \cup {Absent},
   needs : BOOLEAN, tokens : Nat]

Health == {"HEALTHY", "DEGRADED", "CIRCUIT_OPEN", "OUTCOME_CIRCUIT_OPEN"}

(* A free claim: when it was checked, and when it runs out. *)
FreeClaim(expiries) == [status : {"active", "expired"}, expiresAt : expiries \cup {Absent}]

CostClassOrder == <<"FREE_CONFIRMED", "FREE_LIMITED", "TRIAL", "PAID", "UNKNOWN">>

CostClassRank(cost) ==
  IF \E i \in DOMAIN CostClassOrder : CostClassOrder[i] = cost
  THEN CHOOSE i \in DOMAIN CostClassOrder : CostClassOrder[i] = cost
  ELSE Len(CostClassOrder) + 1

IsFreeClass(cost) == cost \in {"FREE_CONFIRMED", "FREE_LIMITED"}

HardGates == {"policy_cost", "provider_available", "credential_available", "model_valid",
              "capability_fit", "context_sufficient", "health_ok", "quota_ok"}

(* A context window of 0 is an unknown one, and is taken to suffice. *)
PassesGate(gate, c, input, minQuota) ==
  CASE gate = "policy_cost" -> IsFreeClass(c.cost)
    [] gate = "provider_available" -> c.available
    [] gate = "credential_available" -> c.credential
    [] gate = "model_valid" -> c.valid
    [] gate = "capability_fit" -> input.needs => c.capable
    [] gate = "context_sufficient" -> c.context = 0 \/ c.context >= input.tokens
    [] gate = "health_ok" -> c.health \in {"HEALTHY", "DEGRADED"}
    [] gate = "quota_ok" -> c.quota >= minQuota

EligibleOf(candidates, input, minQuota) ==
  {c \in candidates : \A gate \in HardGates : PassesGate(gate, c, input, minQuota)}

ScoringSet(eligible, costFirst) ==
  {c \in eligible : costFirst =>
     \A x \in eligible : CostClassRank(c.cost) <= CostClassRank(x.cost)}

-------------------------------------------------------------------------------
(* The score.                                                               *)

HealthScore(health) == IF health = "HEALTHY" THEN 1000
                       ELSE IF health = "DEGRADED" THEN 500 ELSE 0

(* perf is what aggregateModelPerformance() tells of the route, tracked its *)
(* samples on the class of the task.  An average over a claim that is not a *)
(* number is none either: it gives no quality, and so no score.             *)
IsScoreless(perf, tracked, minSamples) ==
  tracked = << >> /\ perf.samples >= minSamples /\ perf.quality[2] < perf.scored

QualityOf(perf, tracked, now, minSamples) ==
  IF tracked # << >> THEN ClassScore(tracked, now)
  ELSE IF perf.samples >= minSamples /\ perf.quality[2] > 0
  THEN (1000 * perf.quality[1]) \div perf.quality[2]
  ELSE 500

DiversityOf(c, scoring, eligible) ==
  1000 - (1000 * Cardinality({x \in scoring : x.domain = c.domain}))
           \div Cardinality(eligible)

(* DEFAULT_WEIGHTS *)
Weights == [quality |-> 30, health |-> 20, quota |-> 15, reliability |-> 10,
            latency |-> 10, capabilityFit |-> 10, diversity |-> 5]

(* 10^7 stands for the score 1.  Every candidate scored here has the        *)
(* capabilities asked for.                                                  *)
ScoreOf(c, quality, scoring, eligible, unbacked) ==
  (IF unbacked THEN UnscoredWeight ELSE 100)
    * (Weights.quality * quality + Weights.health * HealthScore(c.health)
       + Weights.quota * c.quota + Weights.reliability * c.reliability
       + Weights.latency * 500 + Weights.capabilityFit * 1000
       + Weights.diversity * DiversityOf(c, scoring, eligible))

(* Higher scores first; of equal ones the smaller key. *)
Ahead(a, b, score) ==
  score[a] > score[b] \/ (score[a] = score[b] /\ a.order < b.order)

(* The comparison of the sort: with NaN, b.score - a.score is falsy, and    *)
(* the key decides.                                                         *)
Precedes(a, b, score, scoreless) ==
  IF a \in scoreless \/ b \in scoreless THEN a.order < b.order ELSE Ahead(a, b, score)

(* What a sort may answer: no two neighbours against the comparison.  It is *)
(* one order only where the comparison is transitive.                       *)
Rankings(set, score, scoreless) ==
  {ranked \in [1..Cardinality(set) -> set] :
     /\ \A c \in set : \E i \in DOMAIN ranked : ranked[i] = c
     /\ \A i, j \in DOMAIN ranked : ranked[i] = ranked[j] => i = j
     /\ \A i \in DOMAIN ranked : i > 1 => Precedes(ranked[i-1], ranked[i], score, scoreless)}

-------------------------------------------------------------------------------
(* Free claims and the fallback plan.                                       *)

FreeClaimEvidence(now, ttl) ==
  [status |-> "active", expiresAt |-> IF ttl = Absent THEN Absent ELSE now + ttl]

FreeClaimIsCurrent(claim, now) ==
  claim.status = "active" /\ (claim.expiresAt = Absent \/ now < claim.expiresAt)

(* Mutant: any other route, of the same provider too. *)
QualifiesAnyProvider(c, primary, claim, now) ==
  IsFreeClass(c.cost) /\ FreeClaimIsCurrent(claim[c.key], now)

Qualifies(c, primary, claim, now) ==
  /\ IsFreeClass(c.cost) /\ FreeClaimIsCurrent(claim[c.key], now)
  /\ c.provider # primary.provider

(* planCrossProviderFallbacks: of the others, ranked anew, those that       *)
(* qualify, in the order they have.                                         *)
FallbackPlan(others, primary, claim, now, maxFanout) ==
  LET qualified == {i \in DOMAIN others : Qualifies(others[i], primary, claim, now)}
      size == Cardinality(qualified)
  IN  [n \in 1..(IF size < maxFanout THEN size ELSE maxFanout) |->
         others[CHOOSE i \in qualified : Cardinality({j \in qualified : j < i}) = n - 1]]

-------------------------------------------------------------------------------
(* The fast path.                                                           *)

IsSimpleTask(input, enabled) ==
  /\ enabled
  /\ input.risk # Absent => Normal[input.risk] = "LOW"
  /\ \/ input.taskClass # Absent /\ Normal[input.taskClass] \in SimpleClasses
     \/ \E label \in input.labels : Normal[label] \in SimpleClasses

-------------------------------------------------------------------------------
(* selectRoute.                                                             *)

Blocked == [key |-> Absent, plan |-> << >>, costFirst |-> FALSE, fastPath |-> FALSE,
            degraded |-> FALSE]

(* s is the situation: candidates, input, claims, clock, configuration and *)
(* perf; perf and tracked are functions of the candidates' keys.  Several   *)
(* outcomes are possible only where the sort has no order to go by.         *)
SelectRoute(s, tracked) ==
  LET eligible == EligibleOf(s.candidates, s.input, s.minQuota)
      scoring == ScoringSet(eligible, s.costFirst)
      quality == [c \in scoring |->
                    QualityOf(s.perf[c.key], tracked[c.key], s.now, s.minSamples)]
      unbacked(c) == s.perf[c.key].backed < s.perf[c.key].scored
      score == [c \in scoring |-> ScoreOf(c, quality[c], scoring, eligible, unbacked(c))]
      scoreless == {c \in scoring : IsScoreless(s.perf[c.key], tracked[c.key], s.minSamples)}
      simple == IsSimpleTask(s.input, s.fastPath)
      chosen(top, others) ==
        [key |-> top.key,
         plan |-> IF simple THEN << >> ELSE FallbackPlan(others, top, s.claim, s.now, s.maxFanout),
         costFirst |-> scoring # eligible,
         fastPath |-> simple,
         degraded |-> \E c \in scoring :
                        \/ c.health = "DEGRADED"
                        \/ tracked[c.key] = << >> /\ s.perf[c.key].samples < s.minSamples]
  IN  IF eligible = {} THEN {Blocked}
      ELSE UNION {{chosen(ranked[1], others) :
                     others \in Rankings(scoring \ {ranked[1]}, score, scoreless)} :
                   ranked \in Rankings(scoring, score, scoreless)}
===============================================================================
